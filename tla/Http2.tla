------------------------------- MODULE Http2 -------------------------------
(***************************************************************************)
(* http2::Http2Connection and http2::Stream (src/http2/connection.cpp and  *)
(* stream.cpp): one HTTP/2 connection of the server, from the preface to   *)
(* its destruction.  A reader coroutine, run(), handles the client's       *)
(* frames one after the other, and a detached responder coroutine,         *)
(* handle_stream_request(), answers each complete request; all of them     *)
(* run on one ring thread, so what lies between two suspension points is   *)
(* one step.                                                               *)
(*                                                                         *)
(* The flow-control windows are maps over {0} \cup Streams, where 0 is the *)
(* connection.  "send" and "recv" are the windows the server keeps (it     *)
(* never reads the receive window of a stream, which is left out);         *)
(* "allowed" and "grant" are what the client has really let the server     *)
(* send, and what the server has really let the client send: the client's  *)
(* books, from the frames exchanged.  Bytes are counted in units of a few  *)
(* to the window.  The client keeps to the protocol, apart from            *)
(* RecvMalformed.                                                          *)
(***************************************************************************)
EXTENDS Integers, FiniteSets, FiniteSetsExt

CONSTANTS
    NumStreams,      \* bound: the client opens streams 1 .. NumStreams, in order
    InitWindow,      \* Constants::DefaultInitialWindowSize
    FrameMax,        \* remote_settings_.max_frame_size
    MaxConcurrent,   \* local_settings_.max_concurrent_streams
    Bodies,          \* sizes of response bodies
    Uploads,         \* sizes of request bodies
    InitWindows,     \* values of INITIAL_WINDOW_SIZE the client announces
    MaxSettings,     \* bound: SETTINGS frames after the preface
    Increments,      \* increments of the client's WINDOW_UPDATE frames
    MaxCredit        \* bound: the client lets no window grow beyond this

ASSUME Http2Assumption ==
    /\ {NumStreams, InitWindow, FrameMax, MaxConcurrent} \subseteq Nat \ {0}
    /\ Bodies \cup Uploads \cup InitWindows \cup {MaxSettings} \subseteq Nat
    /\ Increments \subseteq Nat \ {0}
    /\ MaxCredit \in Nat

Streams == 1 .. NumStreams
Windows == 0 .. NumStreams

VARIABLES
    reader,       \* what run() waits for: a frame, or one of its own writes
    streams,      \* the ids in streams_
    active,       \* active_streams_
    remoteInit,   \* remote_settings_.initial_window_size
    send,         \* remote_window_size_ of the connection and of each stream
    recv,         \* local_window_size_ of the connection
    request,      \* how much of each stream's request has arrived
    responder,    \* where the coroutine that answers each stream is
    left,         \* the part of each response body not sent yet
    notify,       \* streams with a waiter that notify_window_update() has yet to reach
    allowed,      \* ghost: what the client lets the server send
    grant,        \* ghost: what the server lets the client send
    born,         \* ghost: the initial window the client gave each stream
    upload,       \* the part of each request body the client has yet to send
    dropped,      \* ghost: DATA received on streams that do not exist
    settings      \* SETTINGS frames so far

serverVars == <<reader, streams, active, remoteInit, send, recv, notify>>
streamVars == <<request, responder, left>>
ghostVars == <<allowed, grant, born, dropped>>
clientVars == <<upload, settings>>
vars == <<serverVars, streamVars, ghostVars, clientVars>>

ReaderPcs == {"preface", "frame", "rst", "reply", "grant", "goaway", "ended"}
RequestStates == {"idle", "open", "complete", "refused", "rejected", "reset"}
ResponderPcs == {"none", "handler", "writing", "window", "ended", "lost"}

TypeOK ==
    /\ reader \in ReaderPcs
    /\ streams \in SUBSET Streams
    /\ active \in Nat
    /\ remoteInit \in Nat
    /\ send \in [Windows -> Int]
    /\ recv \in Nat
    /\ request \in [Streams -> RequestStates]
    /\ responder \in [Streams -> ResponderPcs]
    /\ left \in [Streams -> Nat]
    /\ notify \in SUBSET streams
    /\ allowed \in [Windows -> Int]
    /\ grant \in [Windows -> Nat]
    /\ born \in [Streams -> Nat]
    /\ upload \in [Streams -> Nat]
    /\ dropped \in Nat
    /\ settings \in 0 .. MaxSettings

(* The client's settings are known before the preface when the connection  *)
(* comes from an h2c upgrade.                                              *)
Init ==
    /\ reader = "preface"
    /\ streams = {}
    /\ active = 0
    /\ remoteInit \in InitWindows \cup {InitWindow}
    /\ send = [w \in Windows |-> InitWindow]
    /\ recv = InitWindow
    /\ request = [s \in Streams |-> "idle"]
    /\ responder = [s \in Streams |-> "none"]
    /\ left = [s \in Streams |-> 0]
    /\ notify = {}
    /\ allowed = [w \in Windows |-> InitWindow]
    /\ grant = [w \in Windows |-> InitWindow]
    /\ born = [s \in Streams |-> InitWindow]
    /\ upload = [s \in Streams |-> 0]
    /\ dropped = 0
    /\ settings = 0

Live == {"handler", "writing", "window"}

(* The reader takes the next frame: not before the waiters that the last   *)
(* one woke have been resumed, which happens inside its handler.           *)
Reading == reader = "frame" /\ notify = {}

Waiting(s) == responder[s] = "window"

-----------------------------------------------------------------------------
(* Stream management *)

(* Streams destroyed, with their windows and their part of the books.      *)
Forget(S) ==
    /\ streams' = streams \ S
    /\ send' = [w \in Windows |-> IF w \in S THEN InitWindow ELSE send[w]]
    /\ allowed' = [w \in Windows |-> IF w \in S THEN InitWindow ELSE allowed[w]]
    /\ left' = [s \in Streams |-> IF s \in S THEN 0 ELSE left[s]]

(* Mutant: the counter is not taken back. *)
EraseStream(s) ==
    /\ Forget({s})
    /\ UNCHANGED active

(* Mutant: the counter is taken back even when nothing was erased. *)
DiscountStream(s) ==
    /\ Forget({s})
    /\ active' = active - 1

remove_stream(s) ==
    /\ Forget({s})
    /\ active' = IF s \in streams THEN active - 1 ELSE active

(* A responder whose stream is destroyed goes on with a dangling Stream*,  *)
(* or is never resumed when the destroyed stream held its handle: what it  *)
(* does then is undefined, and it is followed no further.                  *)
LoseResponders(S) ==
    responder' = [s \in Streams |->
                    IF s \in S /\ responder[s] \in Live THEN "lost" ELSE responder[s]]

(* run() has returned: handle_http2_connection() lets go of the last       *)
(* reference to the connection, and its streams go with it.                *)
Destroy ==
    /\ reader' = "ended"
    /\ active' = 0
    /\ Forget(Streams)
    /\ LoseResponders(Streams)
    /\ UNCHANGED <<remoteInit, recv, notify, request, grant, born, dropped, clientVars>>

(* handle_stream_request() starts, detached: the stream whose frame was    *)
(* just handled is the only one that can be complete and have none yet.    *)
Dispatch(requests) ==
    responder' = [s \in Streams |->
                    IF requests[s] = "complete" /\ responder[s] = "none"
                      THEN "handler" ELSE responder[s]]

(* A frame is handled up to a write of the reader's own.                    *)
ReaderWrites(kind) ==
    /\ Reading
    /\ reader' = kind

-----------------------------------------------------------------------------
(* Responders *)

(* What send_data() may put in the next DATA frame.                        *)
Room(s) == Min({send[s], send[0]})

(* Mutant: only the stream's own window is looked at. *)
StreamChunk(s) == Min({left[s], FrameMax, send[s]})

Chunk(s) == Min({left[s], FrameMax, Room(s)})

(* Mutant: the connection's window is not charged. *)
SendUncharged(s) ==
    LET n == Chunk(s) IN
    /\ left' = [left EXCEPT ![s] = @ - n]
    /\ send' = [send EXCEPT ![s] = @ - n]
    /\ allowed' = [allowed EXCEPT ![s] = @ - n, ![0] = @ - n]
    /\ responder' = [responder EXCEPT ![s] = "writing"]

SendChunk(s) ==
    LET n == Chunk(s) IN
    /\ left' = [left EXCEPT ![s] = @ - n]
    /\ send' = [send EXCEPT ![s] = @ - n, ![0] = @ - n]
    /\ allowed' = [allowed EXCEPT ![s] = @ - n, ![0] = @ - n]
    /\ responder' = [responder EXCEPT ![s] = "writing"]

(* The handler returns a response; its HEADERS frame is submitted.         *)
HandlerDone(s, body) ==
    /\ notify = {}
    /\ responder[s] = "handler"
    /\ responder' = [responder EXCEPT ![s] = "writing"]
    /\ left' = [left EXCEPT ![s] = body]
    /\ UNCHANGED <<serverVars, request, ghostVars, clientVars>>

(* build_request() does not know the method: the stream is removed, and    *)
(* nothing is sent (Stream::reset() only builds a frame).                  *)
AbandonRequest(s) ==
    /\ notify = {}
    /\ responder[s] = "handler"
    /\ responder' = [responder EXCEPT ![s] = "ended"]
    /\ remove_stream(s)
    /\ UNCHANGED <<reader, remoteInit, recv, notify, request, grant, born, dropped,
                   clientVars>>

(* The last write of the response has completed, or any write has failed.  *)
ResponseDone(s) ==
    /\ notify = {}
    /\ responder[s] = "writing"
    /\ responder' = [responder EXCEPT ![s] = "ended"]
    /\ remove_stream(s)
    /\ UNCHANGED <<reader, remoteInit, recv, notify, request, grant, born, dropped,
                   clientVars>>

(* A write has completed and there is more to send.                        *)
NextChunk(s) ==
    /\ notify = {}
    /\ responder[s] = "writing"
    /\ left[s] > 0
    /\ IF Room(s) > 0
         THEN SendChunk(s)
         ELSE /\ responder' = [responder EXCEPT ![s] = "window"]
              /\ UNCHANGED <<left, send, allowed>>
    /\ UNCHANGED <<reader, streams, active, remoteInit, recv, notify, request,
                   grant, born, dropped, clientVars>>

(* notify_window_update() reaches a stream that has a waiter: the waiter   *)
(* is resumed at once if both windows let it send a byte.                  *)
NotifyNext ==
    \E s \in notify :
       /\ notify' = notify \ {s}
       /\ IF Room(s) >= 1
            THEN SendChunk(s)
            ELSE UNCHANGED <<left, send, allowed, responder>>
       /\ UNCHANGED <<reader, streams, active, remoteInit, recv, request,
                      grant, born, dropped, clientVars>>

-----------------------------------------------------------------------------
(* Frames *)

(* send_preface() and receive_preface().                                   *)
Preface ==
    /\ reader = "preface"
    /\ \/ /\ reader' \in {"frame", "goaway"}
          /\ UNCHANGED <<streams, active, remoteInit, send, recv, notify, streamVars,
                         ghostVars, clientVars>>
       \/ Destroy

NextId(s) == request[s] = "idle" /\ \A t \in 1 .. s - 1 : request[t] # "idle"

(* HEADERS that create a stream, with the whole request or before a body.  *)
OpenStream(s, size) ==
    /\ Reading
    /\ NextId(s)
    /\ active < MaxConcurrent
    /\ streams' = streams \cup {s}
    /\ active' = active + 1
    /\ send' = [send EXCEPT ![s] = InitWindow]
    /\ request' = [request EXCEPT ![s] = IF size = 0 THEN "complete" ELSE "open"]
    /\ Dispatch(request')
    /\ upload' = [upload EXCEPT ![s] = size]
    /\ allowed' = [allowed EXCEPT ![s] = remoteInit]
    /\ born' = [born EXCEPT ![s] = remoteInit]
    /\ UNCHANGED <<reader, remoteInit, recv, notify, left, grant, dropped, settings>>

(* HEADERS answered with RST_STREAM: the limit is reached, or they are not *)
(* the headers of a request.  No stream is created.                        *)
RefuseStream(s, size) ==
    /\ ReaderWrites("rst")
    /\ NextId(s)
    /\ request' = [request EXCEPT ![s] = "refused"]
    /\ upload' = [upload EXCEPT ![s] = size]
    /\ UNCHANGED <<streams, active, remoteInit, send, recv, notify, responder, left,
                   ghostVars, settings>>

(* Trailers: checked like the headers of a request, and refused in the     *)
(* same way; the stream they belong to stays.                              *)
RecvTrailers(s) ==
    /\ ReaderWrites("rst")
    /\ request[s] = "open"
    /\ request' = [request EXCEPT ![s] = "rejected"]
    /\ upload' = [upload EXCEPT ![s] = 0]
    /\ UNCHANGED <<streams, active, remoteInit, send, recv, notify, responder, left,
                   ghostVars, settings>>

(* The receive windows shrink; run() stops to return the connection's when *)
(* less than half of it is left.  No stream's own window is ever returned. *)
Consume(n) ==
    /\ recv' = recv - n
    /\ reader' = IF recv - n < InitWindow \div 2 THEN "grant" ELSE "frame"

(* DATA on a stream of the map.                                            *)
RecvData(s, n) ==
    /\ Reading
    /\ request[s] = "open"
    /\ n <= Min({upload[s], grant[s], grant[0]})
    /\ upload' = [upload EXCEPT ![s] = @ - n]
    /\ grant' = [grant EXCEPT ![0] = @ - n, ![s] = @ - n]
    /\ Consume(n)
    /\ request' = [request EXCEPT ![s] = IF upload[s] = n THEN "complete" ELSE "open"]
    /\ IF reader' = "grant" THEN UNCHANGED responder ELSE Dispatch(request')
    /\ UNCHANGED <<streams, active, remoteInit, send, notify, left, allowed, born,
                   dropped, settings>>

(* DATA on a stream that was refused, sent before the client knew: it uses *)
(* up the client's credit and not the server's account of it.              *)
RecvLateData(s, n) ==
    /\ ReaderWrites("rst")
    /\ request[s] = "refused"
    /\ n <= Min({upload[s], grant[s], grant[0]})
    /\ upload' = [upload EXCEPT ![s] = @ - n]
    /\ grant' = [grant EXCEPT ![0] = @ - n, ![s] = @ - n]
    /\ dropped' = dropped + n
    /\ UNCHANGED <<streams, active, remoteInit, send, recv, notify, streamVars,
                   allowed, born, settings>>

(* Mutant: the growth of the connection's window is told to no stream. *)
GrowStreams(W, n) ==
    /\ send' = [w \in Windows |-> IF w \in W THEN send[w] + n ELSE send[w]]
    /\ allowed' = [w \in Windows |-> IF w \in W THEN allowed[w] + n ELSE allowed[w]]
    /\ notify' = {s \in streams \cap W : n > 0 /\ Waiting(s)}

(* The windows W grow by n, and who may now send is told: the streams that *)
(* grew, or all of them when the connection did.                           *)
Grow(W, n) ==
    /\ send' = [w \in Windows |-> IF w \in W THEN send[w] + n ELSE send[w]]
    /\ allowed' = [w \in Windows |-> IF w \in W THEN allowed[w] + n ELSE allowed[w]]
    /\ notify' = {s \in IF 0 \in W THEN streams ELSE streams \cap W : n > 0 /\ Waiting(s)}

(* SETTINGS with an INITIAL_WINDOW_SIZE: every stream moves by the         *)
(* difference, under streams_mutex_, and an ACK is sent.                   *)
RecvSettings(size) ==
    /\ ReaderWrites("reply")
    /\ settings < MaxSettings
    /\ settings' = settings + 1
    /\ Grow(streams, size - remoteInit)
    /\ remoteInit' = size
    /\ UNCHANGED <<streams, active, recv, streamVars, grant, born, dropped, upload>>

RecvWindowUpdate(w) ==
    /\ Reading
    /\ w \in streams \cup {0}
    /\ \E n \in Increments :
          /\ allowed[w] + n <= MaxCredit
          /\ Grow({w}, n)
    /\ UNCHANGED <<reader, streams, active, remoteInit, recv, streamVars, grant, born,
                   dropped, clientVars>>

RecvRstStream(s) ==
    /\ Reading
    /\ request[s] \in {"open", "complete", "rejected"}
    /\ request' = [request EXCEPT ![s] = "reset"]
    /\ upload' = [upload EXCEPT ![s] = 0]
    /\ remove_stream(s)
    /\ LoseResponders({s})
    /\ UNCHANGED <<reader, remoteInit, recv, notify, grant, born, dropped, settings>>

RecvPing ==
    /\ ReaderWrites("reply")
    /\ UNCHANGED <<streams, active, remoteInit, send, recv, notify, streamVars,
                   ghostVars, clientVars>>

(* Every frame answered with GOAWAY: a malformed one, a window that would  *)
(* overflow, and headers in more than one frame, whose CONTINUATION is     *)
(* looked for where the HEADERS frame still is.                            *)
RecvMalformed ==
    /\ ReaderWrites("goaway")
    /\ UNCHANGED <<streams, active, remoteInit, send, recv, notify, streamVars,
                   ghostVars, clientVars>>

(* GOAWAY, the end of the input, or a read that fails.                     *)
PeerLeaves == Reading /\ Destroy

-----------------------------------------------------------------------------
(* The reader's own writes.  A failure is ignored after RST_STREAM and     *)
(* WINDOW_UPDATE, and ends run() after SETTINGS and PING.                  *)

RstWritten ==
    /\ reader = "rst"
    /\ reader' = "frame"
    /\ UNCHANGED <<streams, active, remoteInit, send, recv, notify, streamVars,
                   ghostVars, clientVars>>

ReplyWritten ==
    /\ reader = "reply"
    /\ notify = {}
    /\ \/ /\ reader' = "frame"
          /\ UNCHANGED <<streams, active, remoteInit, send, recv, notify, streamVars,
                         ghostVars, clientVars>>
       \/ Destroy

(* Mutant: the window is not taken up again after it has been returned. *)
ForgetCredit ==
    /\ grant' = [grant EXCEPT ![0] = @ + InitWindow - recv]
    /\ UNCHANGED recv

ReturnCredit ==
    /\ grant' = [grant EXCEPT ![0] = @ + InitWindow - recv]
    /\ recv' = InitWindow

GrantWritten ==
    /\ reader = "grant"
    /\ reader' = "frame"
    /\ ReturnCredit
    /\ Dispatch(request)
    /\ UNCHANGED <<streams, active, remoteInit, send, notify, request, left,
                   allowed, born, dropped, clientVars>>

GoawayWritten == reader = "goaway" /\ Destroy

ReaderWritten == RstWritten \/ ReplyWritten \/ GrantWritten \/ GoawayWritten

RecvHeaders(s) ==
    \/ \E size \in Uploads : OpenStream(s, size) \/ RefuseStream(s, size)
    \/ RecvTrailers(s)

UploadData(s) == \E n \in 1 .. FrameMax : RecvData(s, n)

RecvFrame ==
    \/ \E s \in Streams : RecvHeaders(s) \/ UploadData(s) \/ RecvRstStream(s)
    \/ \E s \in Streams, n \in 1 .. FrameMax : RecvLateData(s, n)
    \/ \E size \in InitWindows : RecvSettings(size)
    \/ \E w \in Windows : RecvWindowUpdate(w)
    \/ RecvPing
    \/ RecvMalformed
    \/ PeerLeaves

Respond(s) ==
    \/ AbandonRequest(s)
    \/ \E body \in Bodies : HandlerDone(s, body)

Continue(s) == NextChunk(s) \/ ResponseDone(s)

Closed == reader = "ended" /\ UNCHANGED vars

Next ==
    \/ Preface
    \/ RecvFrame
    \/ ReaderWritten
    \/ NotifyNext
    \/ \E s \in Streams : Respond(s) \/ Continue(s)
    \/ Closed

Safety == Init /\ [][Next]_vars

(* Writes complete, handlers return, and the ring thread resumes whom it   *)
(* woke.  The client sends what it has to send when it may, and grows a    *)
(* window that the server has used up; it need not do so before.           *)
Refill(w) == allowed[w] <= 0 /\ RecvWindowUpdate(w)

Fairness ==
    /\ WF_vars(ReaderWritten)
    /\ WF_vars(NotifyNext)
    /\ \A s \in Streams : WF_vars(Respond(s)) /\ WF_vars(Continue(s))
    /\ \A s \in Streams : SF_vars(UploadData(s))
    /\ \A w \in Windows : SF_vars(Refill(w))

Spec == Safety /\ Fairness

-----------------------------------------------------------------------------
(* Properties *)

(* The concurrency limit counts what is really there: active_streams_ is   *)
(* the size of the map, and a stream is in the map exactly while its       *)
(* request is arriving, while a responder is at work on it, or after its   *)
(* trailers were rejected; never one that was refused, reset or answered.  *)
StreamsAccounted ==
    /\ active = Cardinality(streams)
    /\ reader # "ended" =>
          streams = {s \in Streams :
                        \/ request[s] \in {"open", "rejected"}
                        \/ request[s] = "complete" /\ responder[s] \in Live \cup {"none"}}

(* No wake-up is missed: a responder is suspended in wait_for_window()     *)
(* only while one of its two windows is used up, whichever frame has made  *)
(* them grow or shrink and whoever else has used the connection's window   *)
(* since.                                                                  *)
NoMissedWakeup ==
    \A s \in streams \ notify : Waiting(s) => Room(s) <= 0

(* The server's send windows follow the client's, frame by frame: exactly  *)
(* for the connection, and for a stream up to the difference between the   *)
(* initial window the constructor assumed and the one the client gave it.  *)
WindowsAgree ==
    /\ send[0] = allowed[0]
    /\ \A s \in streams : send[s] - allowed[s] = InitWindow - born[s]

(* The server returns all the credit it takes, except for DATA on streams  *)
(* it has refused, which it throws away unaccounted.                       *)
CreditReturned ==
    /\ recv = grant[0] + dropped
    /\ reader = "frame" => recv >= InitWindow \div 2

(* A DATA frame never overruns a window of the client, if the client kept  *)
(* the default initial window when the stream was opened.                  *)
SendsWithinWindow ==
    [][\A s \in streams' :
          left'[s] < left[s] /\ born[s] = InitWindow =>
             allowed'[s] >= 0 /\ allowed'[0] >= 0]_vars

(* A complete request is answered to the end as long as the client refills *)
(* the windows that run out, unless its stream or its connection goes.     *)
ResponseCompletes ==
    \A s \in Streams :
       request[s] = "complete" ~> responder[s] \in {"ended", "lost"}

(* The upload of a client that obeys flow control is received to its end,  *)
(* unless the client, or the connection, gives the stream up.              *)
UploadCompletes ==
    \A s \in Streams :
       request[s] = "open" ~> request[s] # "open" \/ reader = "ended"
=============================================================================
