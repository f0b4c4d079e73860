----------------------------- MODULE MCWebSocket -----------------------------
(* MCWebSocket.cfg, in one of two cases that is chosen initially:           *)
(*  - messages: the handler and a coroutine of another thread; three data   *)
(*    frames, so that a message of two or three fragments, one too large    *)
(*    for MaxMessage, or two messages are sent, and control frames between; *)
(*  - closes: Others too, one of each thread, and all of them close while   *)
(*    the client sends one frame and control frames.                        *)
(* MCWebSocketFrames.cfg: two coroutines that send one message each.        *)
EXTENDS WebSocket

CONSTANT Others

VARIABLE case

MCInit == Init /\ case \in {"messages", "closes"}

MCNext ==
    /\ Next /\ UNCHANGED case
    /\ case = "messages" => \A w \in Others : writing'[w] = "idle"
    /\ case = "closes" => frames' <= 1 /\ sends' = 0

MCSafety == MCInit /\ [][MCNext]_<<vars, case>>
MCSpec == MCSafety /\ Fairness
=============================================================================
