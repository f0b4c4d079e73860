------------------------------ MODULE MCHttp2 ------------------------------
(* MCHttp2.cfg: safety, three streams of which two fit.                    *)
(* MCHttp2Live.cfg: liveness, for a client that announces no more than the *)
(* default initial window.                                                 *)
(* MCHttp2Response.cfg, MCHttp2Upload.cfg: one response and one upload     *)
(* that never complete.                                                    *)
EXTENDS Http2
=============================================================================
