------------------------------ MODULE MCServer ------------------------------
(***************************************************************************)
(* MCServer.cfg: two rings, so that connections are served and stopped by  *)
(* different threads, and two connections, so that one ring serves both.   *)
(* MCServerShutdown.cfg: what shutdown() is said to do, and does not.      *)
(* Liveness is checked in MCRuntime, on one ring with two connections.     *)
(***************************************************************************)
EXTENDS Server, TLC

(* Connections are interchangeable: nothing names one (safety runs only). *)
ConnSymmetry == Permutations(Conns)
=============================================================================
