----------------------------- MODULE MCSessions -----------------------------
(* MCSessionsRolling.cfg: a session that is read only, by the second of    *)
(* two requests.  The other properties are checked in MCContent.           *)
EXTENDS Sessions
=============================================================================
