------------------------------ MODULE WebSocket ------------------------------
(***************************************************************************)
(* WebSocketConnectionImpl (src/net/websocket.cpp), from the upgrade to    *)
(* the end of the user's handler.  One coroutine, the handler, receives,   *)
(* sends and closes; others (a chat room's, say) may send on the same      *)
(* connection or close it, and those that other workers run do so at any   *)
(* moment.  A step is what a coroutine does between two suspension points, *)
(* or between two accesses to is_open_, a plain bool that nothing guards.  *)
(* A write goes out in two parts, the header of a frame and its payload,   *)
(* and each may take its time.                                             *)
(*                                                                         *)
(* A frame is handled when all of it has arrived.  A payload is a sequence *)
(* of units, none or one to a frame, each named after its place among the  *)
(* data frames; masking and the coding of headers are left out.            *)
(***************************************************************************)
EXTENDS Naturals, Sequences

CONSTANTS
    Handler,        \* the coroutine of the handler
    Broadcasters,   \* other coroutines that send on the connection
    Elsewhere,      \* those of them that another thread runs, each its own
    MaxMessage,     \* max_message_size_
    MaxFrames,      \* bound: data frames the client sends
    MaxInFlight,    \* bound: frames sent and not yet parsed
    MaxSends        \* bound: messages sent to the client

ASSUME WebSocketAssumption ==
    /\ Handler \notin Broadcasters
    /\ Elsewhere \subseteq Broadcasters
    /\ {MaxMessage, MaxFrames, MaxInFlight, MaxSends} \subseteq Nat

Writers == Broadcasters \cup {Handler}

(* The coroutines of the thread that runs the handler. *)
Local == Writers \ Elsewhere

DataOps == {"text", "binary"}

VARIABLES
    open,         \* is_open_
    fragment,     \* fragment_buffer_
    fragmentOp,   \* fragment_opcode_
    handler,      \* where the handler is
    writing,      \* where each coroutine is in send_frame()
    frame,        \* the kind of frame it writes
    toServer,     \* frames on their way to receive()
    building,     \* the message the client is in the middle of, or NoMessage
    frames,       \* data frames the client has sent
    conforming,   \* ghost: the client has kept to the protocol
    lost,         \* the client is gone
    sends,        \* messages sent to the client
    closes,       \* ghost: Close frames each coroutine has written
    sent,         \* ghost: messages the client has finished sending
    received      \* ghost: messages returned by receive()

implVars == <<open, fragment, fragmentOp, handler>>
writeVars == <<writing, frame, closes, sends>>
clientVars == <<building, frames, conforming, lost, sent>>
vars == <<implVars, writeVars, toServer, clientVars, received>>

NoMessage == [op |-> "none", data |-> <<>>]

Payloads == UNION {[1 .. n -> 1 .. MaxFrames] : n \in 0 .. MaxFrames}
Message == [op : DataOps, data : Payloads]

TypeOK ==
    /\ open \in BOOLEAN
    /\ fragment \in Payloads
    /\ fragmentOp \in DataOps
    /\ handler \in {"upgrade", "handler", "receive", "frame", "reading", "ended"}
    /\ writing \in [Writers -> {"idle", "closing", "header", "payload"}]
    /\ frame \in [Writers -> {"none", "text", "pong", "close"}]
    /\ \A i \in DOMAIN toServer :
          /\ toServer[i].op \in DataOps \cup {"cont", "ping", "pong", "close"}
          /\ toServer[i].fin \in BOOLEAN
          /\ toServer[i].data \in Payloads
    /\ Len(toServer) <= MaxInFlight
    /\ building \in Message \cup {NoMessage}
    /\ frames \in 0 .. MaxFrames
    /\ conforming \in BOOLEAN /\ lost \in BOOLEAN
    /\ sends \in 0 .. MaxSends
    /\ closes \in [Writers -> Nat]
    /\ \A i \in DOMAIN sent : sent[i] \in Message
    /\ \A i \in DOMAIN received : received[i] \in Message

Init ==
    /\ open = TRUE
    /\ fragment = <<>> /\ fragmentOp = "text"
    /\ handler = "upgrade"
    /\ writing = [w \in Writers |-> "idle"]
    /\ frame = [w \in Writers |-> "none"]
    /\ toServer = <<>>
    /\ building = NoMessage /\ frames = 0
    /\ conforming = TRUE /\ lost = FALSE
    /\ sends = 0 /\ closes = [w \in Writers |-> 0]
    /\ sent = <<>> /\ received = <<>>

(* The object exists: its handler has it, and others may have a pointer.   *)
Alive == handler \in {"handler", "receive", "frame", "reading"}

(* A coroutine is between two accesses to is_open_.                        *)
Busy(w) == writing[w] = "closing" \/ (w = Handler /\ handler = "frame")

(* The coroutines of one thread are not interleaved there.                 *)
MayRun(w) == w \in Local => \A v \in Local \ {w} : ~Busy(v)

-----------------------------------------------------------------------------
(* Writing *)

(* send_frame() submits the header of a frame.                             *)
StartFrame(w, kind) ==
    /\ writing' = [writing EXCEPT ![w] = "header"]
    /\ frame' = [frame EXCEPT ![w] = kind]
    /\ closes' = IF kind = "close" THEN [closes EXCEPT ![w] = @ + 1] ELSE closes

EndFrame(w) ==
    /\ writing' = [writing EXCEPT ![w] = "idle"]
    /\ frame' = [frame EXCEPT ![w] = "none"]

(* Then its payload, if it has one; a Close frame has its code.  (These    *)
(* steps are not held up by MayRun: they read nothing of the connection.)  *)
HeaderWritten(w) ==
    /\ writing[w] = "header"
    /\ \/ writing' = [writing EXCEPT ![w] = "payload"] /\ UNCHANGED frame
       \/ frame[w] # "close" /\ EndFrame(w)
    /\ UNCHANGED <<implVars, closes, sends, toServer, clientVars, received>>

PayloadWritten(w) ==
    /\ writing[w] = "payload"
    /\ EndFrame(w)
    /\ UNCHANGED <<implVars, closes, sends, toServer, clientVars, received>>

WriteFailed(w) ==
    /\ lost
    /\ writing[w] \in {"header", "payload"}
    /\ EndFrame(w)
    /\ UNCHANGED <<implVars, closes, sends, toServer, clientVars, received>>

Written(w) == HeaderWritten(w) \/ PayloadWritten(w) \/ WriteFailed(w)

(* A coroutine that may call a method of the connection now.               *)
MayCall(w) ==
    /\ Alive
    /\ MayRun(w)
    /\ writing[w] = "idle"
    /\ w = Handler => handler = "handler"

(* send_text(), send_binary(), ping(); they do not look at is_open_.       *)
CallSend(w) ==
    /\ MayCall(w)
    /\ sends < MaxSends
    /\ sends' = sends + 1
    /\ StartFrame(w, "text")
    /\ UNCHANGED <<implVars, toServer, clientVars, received>>

(* Mutant: is_open_ is left for receive() to clear.                        *)
SendCloseOnly(w) ==
    /\ writing[w] = "closing"
    /\ StartFrame(w, "close")
    /\ UNCHANGED <<implVars, sends, toServer, clientVars, received>>

(* close() looks at is_open_; when it is closed already nothing is done.   *)
CallClose(w) ==
    /\ MayCall(w)
    /\ open
    /\ writing' = [writing EXCEPT ![w] = "closing"]
    /\ UNCHANGED <<implVars, frame, closes, sends, toServer, clientVars, received>>

(* Then it clears it, whatever other threads did meanwhile.                *)
ClearOpen(w) ==
    /\ writing[w] = "closing"
    /\ open' = FALSE
    /\ StartFrame(w, "close")
    /\ UNCHANGED <<fragment, fragmentOp, handler, sends, toServer, clientVars, received>>

-----------------------------------------------------------------------------
(* The handler *)

(* upgrade_to_websocket() writes its response; if that fails the           *)
(* connection is gone and the handler is not called.                       *)
Upgrade ==
    /\ handler = "upgrade"
    /\ handler' \in {"handler", "ended"}
    /\ UNCHANGED <<open, fragment, fragmentOp, writeVars, toServer, clientVars, received>>

CallReceive ==
    /\ MayCall(Handler)
    /\ handler' = "receive"
    /\ UNCHANGED <<open, fragment, fragmentOp, writeVars, toServer, clientVars, received>>

(* The handler returns and the object is destroyed.  (Whoever still writes *)
(* to it then has a dangling pointer: this is the handler's to avoid.)     *)
Return ==
    /\ MayCall(Handler)
    /\ \A w \in Broadcasters : writing[w] = "idle"
    /\ handler' = "ended"
    /\ UNCHANGED <<open, fragment, fragmentOp, writeVars, toServer, clientVars, received>>

-----------------------------------------------------------------------------
(* receive() *)

(* while (is_open_)                                                        *)
TestOpen ==
    /\ handler = "receive" /\ writing[Handler] = "idle"
    /\ MayRun(Handler)
    /\ handler' = IF open THEN "frame" ELSE "handler"
    /\ UNCHANGED <<open, fragment, fragmentOp, writeVars, toServer, clientVars, received>>

(* No frame is complete: the coroutine waits for more of the client.       *)
Read ==
    /\ handler = "frame"
    /\ toServer = <<>>
    /\ handler' = "reading"
    /\ UNCHANGED <<open, fragment, fragmentOp, writeVars, toServer, clientVars, received>>

(* It wakes up when something arrives, and for no other reason: not when   *)
(* another coroutine calls close().                                        *)
ReadReturned ==
    /\ handler = "reading"
    /\ MayRun(Handler)
    /\ toServer # <<>>
    /\ handler' = "receive"
    /\ UNCHANGED <<open, fragment, fragmentOp, writeVars, toServer, clientVars, received>>

ReadFailed ==
    /\ handler = "reading"
    /\ MayRun(Handler)
    /\ lost
    /\ open' = FALSE
    /\ handler' = "handler"
    /\ UNCHANGED <<fragment, fragmentOp, writeVars, toServer, clientVars, received>>

(* The next frame is taken off the buffer.                                 *)
NextFrame(ops) ==
    /\ handler = "frame"
    /\ toServer # <<>>
    /\ Head(toServer).op \in ops
    /\ toServer' = Tail(toServer)

(* continue                                                                *)
Continue == handler' = "receive"

(* What a client that broke the protocol is given is followed no further.  *)
Deliver(op, data) ==
    /\ handler' = "handler"
    /\ received' = IF conforming THEN Append(received, [op |-> op, data |-> data])
                   ELSE received

RecvPing ==
    /\ NextFrame({"ping"})
    /\ StartFrame(Handler, "pong")
    /\ Continue
    /\ UNCHANGED <<open, fragment, fragmentOp, sends, clientVars, received>>

RecvPong ==
    /\ NextFrame({"pong"})
    /\ Continue
    /\ UNCHANGED <<open, fragment, fragmentOp, writeVars, clientVars, received>>

(* Mutant: a Close frame is returned to the caller and not answered.       *)
RecvCloseSilently ==
    /\ NextFrame({"close"})
    /\ open' = FALSE
    /\ handler' = "handler"
    /\ UNCHANGED <<fragment, fragmentOp, writeVars, clientVars, received>>

(* The Close frame is echoed, then returned to the caller.                 *)
RecvClose ==
    /\ NextFrame({"close"})
    /\ open' = FALSE
    /\ StartFrame(Handler, "close")
    /\ handler' = "handler"
    /\ UNCHANGED <<fragment, fragmentOp, sends, clientVars, received>>

(* receive() calls close() and returns an error.                           *)
Reject ==
    /\ writing' = IF open THEN [writing EXCEPT ![Handler] = "closing"] ELSE writing
    /\ handler' = "handler"
    /\ UNCHANGED <<open, fragmentOp, frame, closes, sends, received>>

(* Mutant: the fragments of a message are not cleared when it is returned. *)
KeepFragments(data) == fragment' = data

ClearFragments(data) == fragment' = <<>>

(* Mutant: a continuation sets the opcode of the message.                  *)
RecvOpcode ==
    /\ NextFrame({"cont"})
    /\ fragmentOp' = Head(toServer).op
    /\ fragment' = fragment \o Head(toServer).data
    /\ Continue
    /\ UNCHANGED <<open, writeVars, clientVars, received>>

(* Mutant: the message is returned without its last fragment.              *)
RecvFinalLast ==
    /\ NextFrame({"cont"})
    /\ IF Head(toServer).fin
         THEN Deliver(fragmentOp, fragment) /\ fragment' = <<>>
         ELSE /\ fragment' = fragment \o Head(toServer).data
              /\ Continue /\ UNCHANGED received
    /\ UNCHANGED <<open, fragmentOp, writeVars, clientVars>>

RecvContinuation ==
    /\ NextFrame({"cont"})
    /\ LET data == fragment \o Head(toServer).data IN
          \/ Len(data) > MaxMessage /\ Reject /\ fragment' = data
          \/ /\ Len(data) <= MaxMessage
             /\ IF Head(toServer).fin
                  THEN Deliver(fragmentOp, data) /\ ClearFragments(data)
                  ELSE fragment' = data /\ Continue /\ UNCHANGED received
             /\ UNCHANGED <<open, fragmentOp, writeVars>>
    /\ UNCHANGED clientVars

(* The first frame of a message, or all of it.  That a message was under   *)
(* way is seen only if one of its fragments had a payload.                 *)
RecvData ==
    /\ NextFrame(DataOps)
    /\ LET f == Head(toServer) IN
          \/ fragment # <<>> /\ Reject /\ UNCHANGED fragment
          \/ /\ fragment = <<>>
             /\ IF f.fin
                  THEN Deliver(f.op, f.data) /\ UNCHANGED <<fragment, fragmentOp>>
                  ELSE /\ fragment' = f.data /\ fragmentOp' = f.op
                       /\ Continue /\ UNCHANGED received
             /\ UNCHANGED <<open, writeVars>>
    /\ UNCHANGED clientVars

Receive ==
    \/ TestOpen \/ Read \/ ReadReturned \/ ReadFailed
    \/ RecvPing \/ RecvPong \/ RecvClose
    \/ RecvContinuation \/ RecvData

-----------------------------------------------------------------------------
(* The client *)

ClientSends(f) ==
    /\ Alive /\ ~lost
    /\ Len(toServer) < MaxInFlight
    /\ \A i \in DOMAIN toServer : toServer[i].op # "close"
    /\ toServer' = Append(toServer, f)

ClientControl ==
    /\ \E op \in {"ping", "pong", "close"} :
          ClientSends([op |-> op, fin |-> TRUE, data |-> <<>>])
    /\ UNCHANGED <<implVars, writeVars, clientVars, received>>

(* A data frame of a client that keeps to the protocol.                    *)
ClientData ==
    /\ conforming
    /\ frames < MaxFrames
    /\ \E op \in IF building = NoMessage THEN DataOps ELSE {"cont"},
          fin \in BOOLEAN, data \in {<<>>, <<frames + 1>>} :
          LET m == [op |-> IF op = "cont" THEN building.op ELSE op,
                    data |-> building.data \o data]
          IN  /\ ClientSends([op |-> op, fin |-> fin, data |-> data])
              /\ building' = IF fin THEN NoMessage ELSE m
              /\ sent' = IF fin THEN Append(sent, m) ELSE sent
    /\ frames' = frames + 1
    /\ UNCHANGED <<implVars, writeVars, conforming, lost, received>>

(* A message inside a message, or the continuation of none.                *)
ClientBreaks ==
    /\ frames < MaxFrames
    /\ \E op \in IF building = NoMessage THEN {"cont"} ELSE DataOps,
          fin \in BOOLEAN, data \in {<<>>, <<frames + 1>>} :
          ClientSends([op |-> op, fin |-> fin, data |-> data])
    /\ frames' = frames + 1
    /\ conforming' = FALSE
    /\ UNCHANGED <<implVars, writeVars, building, lost, sent, received>>

(* What has not been read may be lost with the client.                     *)
ClientLeaves ==
    /\ Alive /\ ~lost
    /\ lost' = TRUE
    /\ toServer' \in {toServer, <<>>}
    /\ UNCHANGED <<implVars, writeVars, building, frames, conforming, sent,
                   received>>

Client == ClientControl \/ ClientData \/ ClientBreaks \/ ClientLeaves

-----------------------------------------------------------------------------
Ended == handler = "ended" /\ UNCHANGED vars

Next ==
    \/ Upgrade \/ CallReceive \/ Return \/ Receive \/ Client \/ Ended
    \/ \E w \in Writers : CallSend(w) \/ CallClose(w) \/ ClearOpen(w) \/ Written(w)

Safety == Init /\ [][Next]_vars

(* Writes complete, and a handler that has not returned receives again.    *)
Fairness ==
    /\ WF_vars(Receive)
    /\ SF_vars(CallReceive)
    /\ \A w \in Writers : WF_vars(ClearOpen(w) \/ Written(w))

Spec == Safety /\ Fairness

-----------------------------------------------------------------------------
(* Properties *)

(***************************************************************************)
(* receive() implements the channel: whole messages, in order, whatever    *)
(* control frames come between the fragments of one, and all of them while *)
(* the connection stays up.                                                *)
(***************************************************************************)
Channel == INSTANCE AbstractChannel WITH
    Messages <- Message,
    up <- open /\ ~lost /\ conforming /\ handler # "ended"

ChannelKept == Channel!ChannelSpec

TooLarge ==
    \E m \in {building} \cup {sent[i] : i \in DOMAIN sent} : Len(m.data) > MaxMessage

(***************************************************************************)
(* receive() gives up only a client that asks for it: one that breaks the  *)
(* protocol, goes away, closes, or sends a message that is too large; no   *)
(* message is mistaken for part of another.                                *)
(***************************************************************************)
ConformingAccepted ==
    [][conforming /\ ~lost /\ handler \in {"frame", "reading"} /\ handler' = "handler"
          /\ received' = received =>
             Head(toServer).op = "close" \/ TooLarge]_vars

(***************************************************************************)
(* Closing at any time, by any coroutine, also while receive() answers the *)
(* client's Close or waits: no coroutine sends a second Close frame, and   *)
(* those of the handler's thread send one between them.  is_open_ is       *)
(* tested and cleared without a lock, so each coroutine that another       *)
(* thread runs may add one of its own, when it tested before the rest      *)
(* cleared; with none (Elsewhere = {}) there is one Close frame at most.   *)
(***************************************************************************)
OneCloseFrame ==
    /\ \A w \in Writers : closes[w] <= 1
    /\ \A v, w \in Local : closes[v] = 1 /\ closes[w] = 1 => v = w

(***************************************************************************)
(* The closing handshake: a Close frame of the client is answered, or has  *)
(* crossed one of the server's, unless the client or the handler is gone.  *)
(***************************************************************************)
CloseAnswered ==
    (\E i \in DOMAIN toServer : toServer[i].op = "close")
        ~> (\E w \in Writers : closes[w] > 0) \/ lost \/ handler = "ended"

(***************************************************************************)
(* Frames leave whole: while the payload of one is due, no part of another *)
(* is written.  Connections are said to be bidirectional, and the example  *)
(* of a chat room sends to each from the coroutines of the others.         *)
(***************************************************************************)
FramesWhole ==
    [][\A u, w \in Writers :
          u # w /\ writing[u] = "payload" /\ writing'[u] = "payload"
             /\ writing[w] # "idle" => writing'[w] = writing[w]]_vars
=============================================================================
