----------------------------- MODULE Http2Proofs -----------------------------
(***************************************************************************)
(* For every number of streams and every size of window, body and          *)
(* increment: the counter and the map of streams tell the truth, the send  *)
(* windows follow the client's, no responder sleeps beside an open window, *)
(* no DATA frame overruns a window, and the credit taken is returned.      *)
(*                                                                         *)
(* What makes these inductive is said by four more invariants: whom a      *)
(* notification is still to reach, how a responder follows its request,    *)
(* what is left of a connection after its end, and how much of the         *)
(* receive window is left while the reader waits for a frame.              *)
(*                                                                         *)
(* HTTP/1.1, for every client and every size: what reaches a handler is    *)
(* what was sent, and a client that waits for its answers gets one to each *)
(* of its requests.  What has been read and what is on its way is a part   *)
(* of the messages laid out one after the other, which says what stands at *)
(* every place however it is cut; and a client that waits has at most one  *)
(* request in it.                                                          *)
(***************************************************************************)
EXTENDS Http2, Integers, SequenceTheorems, FiniteSetTheorems, TLAPS

CONSTANTS Plans, MaxHeaderSize, ReadChunkSize, MaxRequestsPerConnection    \* of Http1

VARIABLES plan, pipelines, sent, h_left, socket, at, buffer, body, current, request_count,
          keep_alive, handled, replies

H == INSTANCE Http1 WITH left <- h_left

(* Who is to be notified waits, and the reader has not gone on meanwhile. *)
NotifiedWait ==
    /\ \A s \in notify : Waiting(s)
    /\ notify # {} => reader \in {"frame", "reply"}

(* A responder is started by a complete request, at most once, and is at *)
(* work only as long as the request is not reset.                        *)
RespondersFollow ==
    \A s \in Streams :
       /\ responder[s] # "none" => request[s] \in {"complete", "reset"}
       /\ responder[s] \in Live => request[s] = "complete"
       /\ responder[s] \in {"none", "handler"} => left[s] = 0

(* Nothing is at work on a connection that was destroyed. *)
EndedEmpty ==
    reader = "ended" => streams = {} /\ \A s \in Streams : responder[s] \notin Live

(* The receive window is within its size, and is returned in time. *)
CreditKept ==
    /\ recv = grant[0] + dropped
    /\ recv <= InitWindow
    /\ reader \notin {"grant", "ended"} => recv >= InitWindow \div 2

(* StreamsAccounted, one stream at a time. *)
Held(s) ==
    \/ request[s] \in {"open", "rejected"}
    \/ request[s] = "complete" /\ responder[s] \in Live \cup {"none"}

Accounted ==
    /\ active = Cardinality(streams)
    /\ reader # "ended" => \A s \in Streams : s \in streams <=> Held(s)

IInv ==
    /\ TypeOK
    /\ NotifiedWait
    /\ RespondersFollow
    /\ EndedEmpty
    /\ CreditKept
    /\ Accounted
    /\ WindowsAgree
    /\ NoMissedWakeup

USE Http2Assumption

-----------------------------------------------------------------------------
(* Facts about the operators of the model *)

LEMMA Indices ==
    /\ 0 \in Windows /\ 0 \notin Streams
    /\ \A s \in Streams : s \in Windows /\ s # 0
  BY DEF Streams, Windows

LEMMA StreamsFinite ==
    ASSUME NEW S \in SUBSET Streams
    PROVE  IsFiniteSet(S) /\ Cardinality(S) \in Nat
  <1>1. IsFiniteSet(Streams)
    BY FS_Interval DEF Streams
  <1> QED
    BY <1>1, FS_Subset, FS_CardinalityType

(* The least of two numbers, and of three. *)
LEMMA LeastOfTwo ==
    ASSUME NEW a \in Int, NEW b \in Int
    PROVE  /\ Min({a, b}) \in {a, b} /\ Min({a, b}) \in Int
           /\ Min({a, b}) <= a /\ Min({a, b}) <= b
  <1>1. \E x \in {a, b} : \A y \in {a, b} : x =< y
    <2>1. CASE a <= b
      BY <2>1
    <2>2. CASE b <= a
      BY <2>2
    <2> QED
      BY <2>1, <2>2
  <1> QED
    BY <1>1, Zenon DEF Min

LEMMA LeastOfThree ==
    ASSUME NEW a \in Int, NEW b \in Int, NEW c \in Int
    PROVE  /\ Min({a, b, c}) \in {a, b, c}
           /\ Min({a, b, c}) <= a /\ Min({a, b, c}) <= b /\ Min({a, b, c}) <= c
  <1>1. \E x \in {a, b, c} : \A y \in {a, b, c} : x =< y
    <2>1. CASE a <= b /\ a <= c
      BY <2>1
    <2>2. CASE b <= a /\ b <= c
      BY <2>2
    <2>3. CASE c <= a /\ c <= b
      BY <2>3
    <2> QED
      BY <2>1, <2>2, <2>3
  <1> QED
    BY <1>1, Zenon DEF Min

(* What may be sent to a stream fits both of its windows. *)
LEMMA RoomFits ==
    ASSUME TypeOK, NEW s \in Streams
    PROVE  /\ Room(s) \in {send[s], send[0]}
           /\ Room(s) <= send[s] /\ Room(s) <= send[0]
           /\ Room(s) \in Int
  <1>1. send[s] \in Int /\ send[0] \in Int
    BY Indices DEF TypeOK
  <1> QED
    BY <1>1, LeastOfTwo DEF Room

(* A chunk is part of what is left and fits, and is never negative. *)
LEMMA ChunkFits ==
    ASSUME TypeOK, NEW s \in Streams, Room(s) > 0
    PROVE  /\ Chunk(s) \in Nat
           /\ Chunk(s) <= left[s] /\ Chunk(s) <= Room(s)
  <1>1. left[s] \in Nat /\ FrameMax \in Nat /\ FrameMax > 0 /\ Room(s) \in Int
    BY RoomFits DEF TypeOK
  <1> DEFINE least == Min({left[s], FrameMax, Room(s)})
  <1>2. /\ least \in {left[s], FrameMax, Room(s)}
        /\ least <= left[s] /\ least <= Room(s)
    <2>1. left[s] \in Int /\ FrameMax \in Int /\ Room(s) \in Int
      BY <1>1
    <2> QED
      BY <2>1, LeastOfThree, Zenon
  <1>3. Chunk(s) = least
    BY DEF Chunk
  <1> HIDE DEF least
  <1> QED
    BY <1>1, <1>2, <1>3

(* The elementwise form says the same. *)
LEMMA AccountedIsStreamsAccounted == TypeOK => (Accounted <=> StreamsAccounted)
  BY DEF TypeOK, Accounted, StreamsAccounted, Held

(* A stream is taken out of the map, and the counter with it. *)
LEMMA RemoveCounts ==
    ASSUME TypeOK, active = Cardinality(streams), NEW s \in Streams, remove_stream(s)
    PROVE  active' \in Nat /\ active' = Cardinality(streams')
  <1>1. IsFiniteSet(streams) /\ streams' = streams \ {s}
    BY StreamsFinite DEF TypeOK, remove_stream, Forget
  <1>2. Cardinality(streams') =
           IF s \in streams THEN Cardinality(streams) - 1 ELSE Cardinality(streams)
    BY <1>1, FS_RemoveElement
  <1>3. active' = Cardinality(streams')
    BY <1>2 DEF remove_stream
  <1>4. streams' \in SUBSET Streams
    BY <1>1 DEF TypeOK
  <1> QED
    BY <1>3, <1>4, StreamsFinite

-----------------------------------------------------------------------------
LEMMA InitInv == Init => IInv
  <1> SUFFICES ASSUME Init PROVE IInv
    OBVIOUS
  <1> USE DEF Init
  <1>1. remoteInit \in Nat /\ InitWindow \in Nat
    OBVIOUS
  <1>2. TypeOK
    BY <1>1 DEF TypeOK, ReaderPcs, RequestStates, ResponderPcs
  <1>3. NotifiedWait /\ RespondersFollow /\ EndedEmpty
    BY DEF NotifiedWait, RespondersFollow, EndedEmpty, Live
  <1>4. CreditKept
    <2>1. grant[0] = InitWindow
      BY Indices
    <2>2. InitWindow \div 2 <= InitWindow
      BY <1>1
    <2> QED
      BY <1>1, <2>1, <2>2 DEF CreditKept
  <1>5. Accounted
    BY FS_EmptySet DEF Accounted, Held
  <1>6. WindowsAgree /\ NoMissedWakeup
    BY Indices DEF WindowsAgree, NoMissedWakeup
  <1> QED
    BY <1>2, <1>3, <1>4, <1>5, <1>6 DEF IInv

(* The connection goes, when nobody is left to notify. *)
LEMMA DestroyInv ==
    ASSUME IInv, notify = {}, Destroy
    PROVE  IInv'
  <1> USE DEF IInv, Destroy, Forget, LoseResponders, clientVars
  <1>1. streams' = {}
    BY DEF TypeOK
  <1>2. TypeOK'
    BY <1>1 DEF TypeOK, ReaderPcs, ResponderPcs
  <1>3. NotifiedWait' /\ EndedEmpty'
    BY <1>1 DEF NotifiedWait, EndedEmpty, Live
  <1>4. RespondersFollow'
    BY DEF RespondersFollow, TypeOK, Live
  <1>5. CreditKept'
    BY DEF CreditKept
  <1>6. Accounted'
    BY <1>1, FS_EmptySet DEF Accounted
  <1>7. WindowsAgree' /\ NoMissedWakeup'
    BY <1>1, Indices DEF WindowsAgree, NoMissedWakeup, TypeOK
  <1> QED
    BY <1>2, <1>3, <1>4, <1>5, <1>6, <1>7

(* The reader only changes its place: no frame was handled that matters. *)
LEMMA QuietInv ==
    ASSUME IInv, UNCHANGED <<streams, active, remoteInit, send, recv, notify, streamVars,
                             ghostVars, clientVars>>,
           reader' \in ReaderPcs \ {"ended", "grant"},
           reader \notin {"ended", "grant"}, notify = {}
    PROVE  IInv'
  <1> USE DEF IInv, streamVars, ghostVars, clientVars
  <1>1. TypeOK'
    BY DEF TypeOK
  <1>2. NotifiedWait' /\ EndedEmpty' /\ RespondersFollow'
    BY DEF NotifiedWait, EndedEmpty, RespondersFollow, Waiting
  <1>3. CreditKept' /\ Accounted' /\ WindowsAgree' /\ NoMissedWakeup'
    BY DEF CreditKept, Accounted, Held, WindowsAgree, NoMissedWakeup, Waiting, Room
  <1> QED
    BY <1>1, <1>2, <1>3

(* A chunk leaves on a stream whose windows are open. *)
LEMMA SendChunkInv ==
    ASSUME IInv, NEW s \in Streams, Room(s) > 0, SendChunk(s),
           responder[s] \in {"writing", "window"},
           notify' = notify \ {s},
           UNCHANGED <<reader, streams, active, remoteInit, recv, request,
                       grant, born, dropped, clientVars>>
    PROVE  IInv'
  <1> USE DEF IInv, clientVars
  <1>1. /\ Chunk(s) \in Nat /\ Chunk(s) <= left[s]
        /\ s \in Windows /\ s # 0 /\ 0 \in Windows
    BY ChunkFits, Indices
  <1>2. /\ left' = [left EXCEPT ![s] = @ - Chunk(s)]
        /\ send' = [send EXCEPT ![s] = @ - Chunk(s), ![0] = @ - Chunk(s)]
        /\ allowed' = [allowed EXCEPT ![s] = @ - Chunk(s), ![0] = @ - Chunk(s)]
        /\ responder' = [responder EXCEPT ![s] = "writing"]
    BY DEF SendChunk
  <1>3. TypeOK'
    <2>1. left' \in [Streams -> Nat]
      BY <1>1, <1>2 DEF TypeOK
    <2>2. send' \in [Windows -> Int] /\ allowed' \in [Windows -> Int]
      BY <1>1, <1>2 DEF TypeOK
    <2>3. responder' \in [Streams -> ResponderPcs]
      BY <1>2 DEF TypeOK, ResponderPcs
    <2> QED
      BY <2>1, <2>2, <2>3 DEF TypeOK
  <1>4. NotifiedWait'
    BY <1>2 DEF NotifiedWait, Waiting, TypeOK
  <1>5. RespondersFollow' /\ EndedEmpty'
    BY <1>2 DEF RespondersFollow, EndedEmpty, Live, TypeOK
  <1>6. CreditKept'
    BY DEF CreditKept
  <1>7. Accounted'
    BY <1>2 DEF Accounted, Held, Live, TypeOK
  <1>8. /\ send'[0] = send[0] - Chunk(s) /\ allowed'[0] = allowed[0] - Chunk(s)
        /\ \A t \in Streams :
              /\ send'[t] = IF t = s THEN send[t] - Chunk(s) ELSE send[t]
              /\ allowed'[t] = IF t = s THEN allowed[t] - Chunk(s) ELSE allowed[t]
    BY <1>1, <1>2, Indices DEF TypeOK
  <1>9. /\ send[0] \in Int /\ allowed[0] \in Int
        /\ \A t \in Streams : send[t] \in Int /\ allowed[t] \in Int
    BY Indices DEF TypeOK
  <1>10. WindowsAgree'
    BY <1>1, <1>8, <1>9 DEF WindowsAgree, TypeOK
  <1>11. NoMissedWakeup'
    <2>0. \A t \in streams : t \in Streams
      BY DEF TypeOK
    <2> SUFFICES ASSUME NEW t \in Streams, t \in streams \ (notify \ {s}),
                        responder'[t] = "window"
                 PROVE  Room(t)' <= 0
      BY <2>0 DEF NoMissedWakeup, Waiting
    <2>1. t # s /\ t \in streams \ notify /\ responder[t] = "window"
      BY <1>2 DEF TypeOK
    <2>2. Room(t) <= 0
      BY <2>1 DEF NoMissedWakeup, Waiting
    <2>3. send[t] <= 0 \/ send[0] <= 0
      BY <2>2, RoomFits
    <2>4. send'[t] <= 0 \/ send'[0] <= 0
      BY <1>1, <1>8, <1>9, <2>1, <2>3
    <2>5. send'[t] \in Int /\ send'[0] \in Int
      BY <1>3, Indices DEF TypeOK
    <2>6. /\ Min({send'[t], send'[0]}) \in Int
          /\ Min({send'[t], send'[0]}) <= send'[t]
          /\ Min({send'[t], send'[0]}) <= send'[0]
      BY <2>5, LeastOfTwo, Zenon
    <2> QED
      BY <2>4, <2>5, <2>6 DEF Room
  <1> QED
    BY <1>3, <1>4, <1>5, <1>6, <1>7, <1>10, <1>11

(* A stream leaves the map because its responder or its client is done. *)
LEMMA RemoveInv ==
    ASSUME IInv, NEW s \in Streams, remove_stream(s), notify = {}, reader # "ended",
           request' \in [Streams -> RequestStates],
           responder' \in [Streams -> ResponderPcs],
           upload' \in [Streams -> Nat],
           \A t \in Streams \ {s} : request'[t] = request[t] /\ responder'[t] = responder[t],
           \/ responder'[s] = "ended" /\ request'[s] = "complete"
           \/ responder'[s] \in {"none", "ended", "lost"} /\ request'[s] = "reset",
           UNCHANGED <<reader, remoteInit, recv, notify, grant, born, dropped, settings>>
    PROVE  IInv'
  <1> USE DEF IInv
  <1>1. /\ streams' = streams \ {s}
        /\ send' = [w \in Windows |-> IF w = s THEN InitWindow ELSE send[w]]
        /\ allowed' = [w \in Windows |-> IF w = s THEN InitWindow ELSE allowed[w]]
        /\ left' = [t \in Streams |-> IF t = s THEN 0 ELSE left[t]]
    BY DEF remove_stream, Forget
  <1>2. active' \in Nat /\ active' = Cardinality(streams')
    BY RemoveCounts DEF Accounted
  <1>3. TypeOK'
    BY <1>1, <1>2 DEF TypeOK
  <1>4. NotifiedWait' /\ EndedEmpty'
    BY DEF NotifiedWait, EndedEmpty
  <1>5. RespondersFollow'
    BY <1>1 DEF RespondersFollow, Live, TypeOK
  <1>6. CreditKept'
    BY DEF CreditKept
  <1>7. Accounted'
    <2>1. \A t \in Streams \ {s} : Held(t)' <=> Held(t)
      BY DEF Held
    <2>2. ~Held(s)'
      BY DEF Held, Live
    <2> QED
      BY <1>1, <1>2, <2>1, <2>2 DEF Accounted
  <1>8. /\ \A t \in Streams \ {s} : send'[t] = send[t] /\ allowed'[t] = allowed[t]
        /\ send'[0] = send[0] /\ allowed'[0] = allowed[0]
    BY <1>1, Indices
  <1>9. WindowsAgree' /\ NoMissedWakeup'
    BY <1>1, <1>8 DEF WindowsAgree, NoMissedWakeup, Waiting, Room, TypeOK
  <1> QED
    BY <1>3, <1>4, <1>5, <1>6, <1>7, <1>9

(* A handler returns, or gives its stream up; a response goes out. *)
LEMMA ResponderInv ==
    ASSUME IInv, NEW s \in Streams, Respond(s) \/ Continue(s) \/ RecvRstStream(s)
    PROVE  IInv'
  <1> USE DEF IInv
  <1>1. ASSUME NEW b \in Bodies, HandlerDone(s, b) PROVE IInv'
    <2> USE DEF serverVars, ghostVars, clientVars
    <2>1. /\ responder[s] = "handler" /\ responder' = [responder EXCEPT ![s] = "writing"]
          /\ left' = [left EXCEPT ![s] = b] /\ b \in Nat
          /\ notify = {} /\ UNCHANGED <<serverVars, request, ghostVars, clientVars>>
      BY <1>1 DEF HandlerDone
    <2>2. TypeOK'
      BY <2>1 DEF TypeOK, ResponderPcs
    <2>3. NotifiedWait' /\ RespondersFollow' /\ EndedEmpty'
      BY <2>1 DEF NotifiedWait, RespondersFollow, EndedEmpty, Live, TypeOK
    <2>4. CreditKept' /\ WindowsAgree'
      BY <2>1 DEF CreditKept, WindowsAgree
    <2>5. Accounted'
      BY <2>1 DEF Accounted, Held, Live, TypeOK
    <2>6. NoMissedWakeup'
      BY <2>1 DEF NoMissedWakeup, Waiting, Room, TypeOK
    <2> QED
      BY <2>2, <2>3, <2>4, <2>5, <2>6
  <1>2. CASE AbandonRequest(s) \/ ResponseDone(s)
    <2>1. /\ responder[s] \in Live
          /\ responder' = [responder EXCEPT ![s] = "ended"]
          /\ remove_stream(s) /\ notify = {}
          /\ UNCHANGED <<reader, remoteInit, recv, notify, request, grant, born, dropped,
                         clientVars>>
      BY <1>2 DEF AbandonRequest, ResponseDone, Live
    <2>2. reader # "ended" /\ request[s] = "complete"
      BY <2>1 DEF EndedEmpty, RespondersFollow
    <2>3. /\ responder' \in [Streams -> ResponderPcs] /\ responder'[s] = "ended"
          /\ \A t \in Streams \ {s} : responder'[t] = responder[t]
      BY <2>1 DEF TypeOK, ResponderPcs
    <2> QED
      BY <2>1, <2>2, <2>3, RemoveInv DEF TypeOK, clientVars
  <1>3. CASE RecvRstStream(s)
    <2>1. /\ remove_stream(s) /\ notify = {} /\ reader = "frame"
          /\ request' = [request EXCEPT ![s] = "reset"]
          /\ upload' = [upload EXCEPT ![s] = 0]
          /\ responder' = [t \in Streams |-> IF t = s /\ responder[t] \in Live
                                              THEN "lost" ELSE responder[t]]
          /\ UNCHANGED <<reader, remoteInit, recv, notify, grant, born, dropped, settings>>
      BY <1>3 DEF RecvRstStream, Reading, LoseResponders
    <2>2. /\ request' \in [Streams -> RequestStates] /\ request'[s] = "reset"
          /\ upload' \in [Streams -> Nat]
          /\ \A t \in Streams \ {s} : request'[t] = request[t]
      BY <2>1 DEF TypeOK, RequestStates
    <2>3. /\ responder' \in [Streams -> ResponderPcs]
          /\ \A t \in Streams \ {s} : responder'[t] = responder[t]
          /\ responder'[s] \in {"none", "ended", "lost"}
      BY <2>1 DEF TypeOK, ResponderPcs, Live
    <2> QED
      BY <2>1, <2>2, <2>3, RemoveInv
  <1>4. CASE NextChunk(s)
    <2>1. /\ responder[s] = "writing" /\ notify = {} /\ left[s] > 0
          /\ UNCHANGED <<reader, streams, active, remoteInit, recv, notify, request,
                         grant, born, dropped, clientVars>>
      BY <1>4 DEF NextChunk
    <2>2. CASE Room(s) > 0
      <3>1. SendChunk(s) /\ notify' = notify \ {s}
        BY <1>4, <2>1, <2>2 DEF NextChunk
      <3> QED
        BY <2>1, <2>2, <3>1, SendChunkInv
    <2>3. CASE ~(Room(s) > 0)
      <3> USE DEF clientVars
      <3>1. /\ responder' = [responder EXCEPT ![s] = "window"]
            /\ UNCHANGED <<left, send, allowed>>
        BY <1>4, <2>3 DEF NextChunk
      <3>2. TypeOK'
        BY <2>1, <3>1 DEF TypeOK, ResponderPcs
      <3>3. NotifiedWait' /\ RespondersFollow' /\ EndedEmpty'
        BY <2>1, <3>1 DEF NotifiedWait, RespondersFollow, EndedEmpty, Live, TypeOK
      <3>4. CreditKept' /\ WindowsAgree'
        BY <2>1, <3>1 DEF CreditKept, WindowsAgree
      <3>5. Accounted'
        BY <2>1, <3>1 DEF Accounted, Held, Live, TypeOK
      <3>6. Room(s) <= 0
        BY <2>3, RoomFits
      <3>7. NoMissedWakeup'
        BY <2>1, <3>1, <3>6 DEF NoMissedWakeup, Waiting, Room, TypeOK
      <3> QED
        BY <3>2, <3>3, <3>4, <3>5, <3>7
    <2> QED
      BY <2>2, <2>3
  <1> QED
    BY <1>1, <1>2, <1>3, <1>4 DEF Respond, Continue

(* A notification reaches a stream. *)
LEMMA NotifyInv ==
    ASSUME IInv, NotifyNext
    PROVE  IInv'
  <1> USE DEF IInv
  <1>1. PICK s \in notify :
          /\ notify' = notify \ {s}
          /\ IF Room(s) >= 1
               THEN SendChunk(s)
               ELSE UNCHANGED <<left, send, allowed, responder>>
          /\ UNCHANGED <<reader, streams, active, remoteInit, recv, request,
                         grant, born, dropped, clientVars>>
    BY DEF NotifyNext
  <1>2. s \in Streams /\ responder[s] = "window" /\ Room(s) \in Int
    BY RoomFits DEF TypeOK, NotifiedWait, Waiting
  <1>3. CASE Room(s) >= 1
    BY <1>1, <1>2, <1>3, SendChunkInv
  <1>4. CASE ~(Room(s) >= 1)
    <2> USE <1>1, <1>4 DEF clientVars
    <2>1. TypeOK'
      BY DEF TypeOK
    <2>2. NotifiedWait' /\ RespondersFollow' /\ EndedEmpty'
      BY DEF NotifiedWait, RespondersFollow, EndedEmpty, Waiting
    <2>3. CreditKept' /\ WindowsAgree' /\ Accounted'
      BY DEF CreditKept, WindowsAgree, Accounted, Held
    <2>4. Room(s) <= 0
      BY <1>2
    <2>5. NoMissedWakeup'
      BY <2>4 DEF NoMissedWakeup, Waiting, Room
    <2> QED
      BY <2>1, <2>2, <2>3, <2>5
  <1> QED
    BY <1>3, <1>4

-----------------------------------------------------------------------------
(* Frames *)

(* A request that is now complete gets its responder, and no other does. *)
LEMMA DispatchFollows ==
    ASSUME IInv, request' \in [Streams -> RequestStates], Dispatch(request'),
           \A t \in Streams : request'[t] # request[t] => responder[t] = "none"
    PROVE  /\ responder' \in [Streams -> ResponderPcs]
           /\ \A t \in Streams :
                 /\ responder'[t] = "window" <=> responder[t] = "window"
                 /\ responder'[t] \in Live \cup {"none"} <=>
                       responder[t] \in Live \cup {"none"}
                 /\ responder'[t] # "none" => request'[t] \in {"complete", "reset"}
                 /\ responder'[t] \in Live => request'[t] = "complete"
                 /\ responder'[t] \in {"none", "handler"} =>
                       responder[t] \in {"none", "handler"}
  BY DEF IInv, TypeOK, RespondersFollow, Dispatch, Live, ResponderPcs

(* HEADERS open a stream. *)
LEMMA OpenStreamInv ==
    ASSUME IInv, NEW s \in Streams, NEW size \in Uploads, OpenStream(s, size)
    PROVE  IInv'
  <1> USE DEF IInv
  <1>1. /\ reader = "frame" /\ notify = {} /\ request[s] = "idle"
        /\ streams' = streams \cup {s} /\ active' = active + 1
        /\ send' = [send EXCEPT ![s] = InitWindow]
        /\ request' = [request EXCEPT ![s] = IF size = 0 THEN "complete" ELSE "open"]
        /\ Dispatch(request')
        /\ upload' = [upload EXCEPT ![s] = size]
        /\ allowed' = [allowed EXCEPT ![s] = remoteInit]
        /\ born' = [born EXCEPT ![s] = remoteInit]
        /\ UNCHANGED <<reader, remoteInit, recv, notify, left, grant, dropped, settings>>
    BY DEF OpenStream, Reading, NextId
  <1>2. s \notin streams /\ responder[s] = "none"
    BY <1>1 DEF Accounted, Held, RespondersFollow, TypeOK
  <1>3. /\ request' \in [Streams -> RequestStates] /\ request'[s] \in {"open", "complete"}
        /\ \A t \in Streams \ {s} : request'[t] = request[t]
    BY <1>1 DEF TypeOK, RequestStates
  <1>4. /\ responder' \in [Streams -> ResponderPcs]
        /\ \A t \in Streams :
              /\ responder'[t] = "window" <=> responder[t] = "window"
              /\ responder'[t] \in Live \cup {"none"} <=>
                    responder[t] \in Live \cup {"none"}
              /\ responder'[t] # "none" => request'[t] \in {"complete", "reset"}
              /\ responder'[t] \in Live => request'[t] = "complete"
              /\ responder'[t] \in {"none", "handler"} =>
                    responder[t] \in {"none", "handler"}
    BY <1>1, <1>2, <1>3, DispatchFollows
  <1>5. /\ size \in Nat /\ InitWindow \in Int /\ remoteInit \in Int
        /\ s \in Windows /\ s # 0
    BY Indices DEF TypeOK
  <1>6. TypeOK'
    BY <1>1, <1>3, <1>4, <1>5 DEF TypeOK
  <1>7. NotifiedWait' /\ EndedEmpty'
    BY <1>1 DEF NotifiedWait, EndedEmpty
  <1>8. RespondersFollow'
    BY <1>1, <1>4 DEF RespondersFollow
  <1>9. CreditKept'
    BY <1>1 DEF CreditKept
  <1>10. Accounted'
    <2>1. active' = Cardinality(streams')
      BY <1>1, <1>2, StreamsFinite, FS_AddElement DEF Accounted, TypeOK
    <2>2. \A t \in Streams \ {s} : Held(t)' <=> Held(t)
      BY <1>3, <1>4 DEF Held
    <2>3. Held(s)'
      BY <1>2, <1>3, <1>4 DEF Held
    <2> QED
      BY <1>1, <2>1, <2>2, <2>3 DEF Accounted
  <1>11. /\ send'[s] = InitWindow /\ allowed'[s] = remoteInit /\ born'[s] = remoteInit
         /\ send'[0] = send[0] /\ allowed'[0] = allowed[0]
         /\ \A t \in Streams \ {s} : /\ send'[t] = send[t] /\ allowed'[t] = allowed[t]
                                      /\ born'[t] = born[t]
    BY <1>1, <1>5, Indices DEF TypeOK
  <1>12. WindowsAgree'
    BY <1>1, <1>11 DEF WindowsAgree, TypeOK
  <1>13. NoMissedWakeup'
    <2>1. \A t \in streams' \ notify' : Waiting(t)' => t # s /\ t \in streams /\ Waiting(t)
      BY <1>1, <1>2, <1>4 DEF Waiting, TypeOK
    <2> QED
      BY <1>1, <1>11, <2>1 DEF NoMissedWakeup, Room, TypeOK
  <1> QED
    BY <1>6, <1>7, <1>8, <1>9, <1>10, <1>12, <1>13

(* HEADERS that open no stream. *)
LEMMA RefusedInv ==
    ASSUME IInv, NEW s \in Streams,
           (\E size \in Uploads : RefuseStream(s, size)) \/ RecvTrailers(s)
    PROVE  IInv'
  <1> USE DEF IInv
  <1>1. \E size \in Nat, to \in {"refused", "rejected"} :
           /\ to = "rejected" <=> request[s] = "open"
           /\ request[s] \in {"idle", "open"}
           /\ request' = [request EXCEPT ![s] = to]
           /\ upload' = [upload EXCEPT ![s] = size]
    <2>1. CASE RecvTrailers(s)
      BY <2>1 DEF RecvTrailers
    <2>2. CASE \E size \in Uploads : RefuseStream(s, size)
      BY <2>2 DEF RefuseStream, NextId
    <2> QED
      BY <2>1, <2>2
  <1>2. PICK size \in Nat, to \in {"refused", "rejected"} :
           /\ to = "rejected" <=> request[s] = "open"
           /\ request[s] \in {"idle", "open"}
           /\ request' = [request EXCEPT ![s] = to]
           /\ upload' = [upload EXCEPT ![s] = size]
    BY <1>1
  <1>3. /\ reader = "frame" /\ reader' = "rst" /\ notify = {}
        /\ UNCHANGED <<streams, active, remoteInit, send, recv, notify, responder, left,
                       allowed, grant, born, dropped, settings>>
    BY DEF RefuseStream, RecvTrailers, ReaderWrites, Reading, ghostVars
  <1>4. responder[s] = "none"
    BY <1>2 DEF RespondersFollow
  <1>5. TypeOK'
    BY <1>2, <1>3 DEF TypeOK, ReaderPcs, RequestStates
  <1>6. NotifiedWait' /\ EndedEmpty' /\ CreditKept'
    BY <1>3 DEF NotifiedWait, EndedEmpty, CreditKept
  <1>7. RespondersFollow'
    BY <1>2, <1>3, <1>4 DEF RespondersFollow, Live, TypeOK
  <1>8. Accounted'
    BY <1>2, <1>3, <1>4 DEF Accounted, Held, TypeOK
  <1>9. WindowsAgree' /\ NoMissedWakeup'
    BY <1>3 DEF WindowsAgree, NoMissedWakeup, Waiting, Room
  <1> QED
    BY <1>5, <1>6, <1>7, <1>8, <1>9

(* DATA: credit is used, on a stream of the map or on one refused. *)
LEMMA DataInv ==
    ASSUME IInv, NEW s \in Streams, NEW n \in 1 .. FrameMax,
           RecvData(s, n) \/ RecvLateData(s, n)
    PROVE  IInv'
  <1> USE DEF IInv
  <1>1. /\ n \in Nat /\ n <= upload[s] /\ n <= grant[s] /\ n <= grant[0]
    <2>1. upload[s] \in Int /\ grant[s] \in Int /\ grant[0] \in Int
      BY Indices DEF TypeOK
    <2>2. /\ Min({upload[s], grant[s], grant[0]}) <= upload[s]
          /\ Min({upload[s], grant[s], grant[0]}) <= grant[s]
          /\ Min({upload[s], grant[s], grant[0]}) <= grant[0]
          /\ Min({upload[s], grant[s], grant[0]}) \in Int
      BY <2>1, LeastOfThree, Zenon
    <2>3. n <= Min({upload[s], grant[s], grant[0]})
      BY DEF RecvData, RecvLateData
    <2> QED
      BY <2>1, <2>2, <2>3
  <1>2. /\ notify = {} /\ reader = "frame"
        /\ upload' = [upload EXCEPT ![s] = @ - n]
        /\ grant' = [grant EXCEPT ![0] = @ - n, ![s] = @ - n]
        /\ UNCHANGED <<streams, active, remoteInit, send, notify, left, allowed, born,
                       settings>>
    BY DEF RecvData, RecvLateData, ReaderWrites, Reading, streamVars
  <1>3. upload' \in [Streams -> Nat] /\ grant' \in [Windows -> Nat]
        /\ grant'[0] = grant[0] - n
    <2>1. s \in Windows /\ s # 0 /\ 0 \in Windows
      BY Indices
    <2> QED
      BY <1>1, <1>2, <2>1 DEF TypeOK
  <1>4. recv = grant[0] + dropped /\ grant[0] \in Nat /\ dropped \in Nat /\ recv \in Nat
    BY Indices DEF CreditKept, TypeOK
  <1>5. CASE RecvData(s, n)
    <2>1. /\ request[s] = "open"
          /\ recv' = recv - n
          /\ reader' = IF recv - n < InitWindow \div 2 THEN "grant" ELSE "frame"
          /\ request' = [request EXCEPT ![s] = IF upload[s] = n THEN "complete" ELSE "open"]
          /\ responder' = responder \/ Dispatch(request')
          /\ dropped' = dropped
      BY <1>5 DEF RecvData, Consume
    <2>2. responder[s] = "none"
      BY <2>1 DEF RespondersFollow
    <2>3. /\ request' \in [Streams -> RequestStates] /\ request'[s] \in {"open", "complete"}
          /\ \A t \in Streams \ {s} : request'[t] = request[t]
      BY <2>1 DEF TypeOK, RequestStates
    <2>4. /\ responder' \in [Streams -> ResponderPcs]
          /\ \A t \in Streams :
                /\ responder'[t] = "window" <=> responder[t] = "window"
                /\ responder'[t] \in Live \cup {"none"} <=>
                      responder[t] \in Live \cup {"none"}
                /\ responder'[t] # "none" => request'[t] \in {"complete", "reset"}
                /\ responder'[t] \in Live => request'[t] = "complete"
                /\ responder'[t] \in {"none", "handler"} =>
                      responder[t] \in {"none", "handler"}
      <3>1. CASE responder' = responder
        BY <2>2, <2>3, <3>1 DEF RespondersFollow, TypeOK, Live
      <3>2. CASE Dispatch(request')
        BY <2>2, <2>3, <3>2, DispatchFollows
      <3> QED
        BY <2>1, <3>1, <3>2
    <2>5. recv' \in Nat /\ reader' \in {"grant", "frame"}
      BY <1>1, <1>4, <2>1
    <2>6. TypeOK'
      BY <1>2, <1>3, <2>1, <2>3, <2>4, <2>5 DEF TypeOK, ReaderPcs
    <2>7. NotifiedWait' /\ EndedEmpty'
      BY <1>2, <2>5 DEF NotifiedWait, EndedEmpty
    <2>8. RespondersFollow'
      BY <1>2, <2>4 DEF RespondersFollow
    <2>9. CreditKept'
      BY <1>1, <1>3, <1>4, <2>1 DEF CreditKept
    <2>10. Accounted'
      <3>1. \A t \in Streams \ {s} : Held(t)' <=> Held(t)
        BY <2>3, <2>4 DEF Held
      <3>2. Held(s)' /\ Held(s)
        BY <2>1, <2>2, <2>3, <2>4 DEF Held
      <3> QED
        BY <1>2, <2>5, <3>1, <3>2 DEF Accounted
    <2>11. WindowsAgree'
      BY <1>2 DEF WindowsAgree
    <2>12. NoMissedWakeup'
      BY <1>2, <2>4 DEF NoMissedWakeup, Waiting, Room, TypeOK
    <2> QED
      BY <2>6, <2>7, <2>8, <2>9, <2>10, <2>11, <2>12
  <1>6. CASE RecvLateData(s, n)
    <2>1. /\ reader' = "rst" /\ dropped' = dropped + n
          /\ UNCHANGED <<recv, request, responder>>
      BY <1>6 DEF RecvLateData, ReaderWrites, streamVars
    <2>2. TypeOK'
      BY <1>1, <1>2, <1>3, <2>1 DEF TypeOK, ReaderPcs
    <2>3. NotifiedWait' /\ EndedEmpty' /\ RespondersFollow'
      BY <1>2, <2>1 DEF NotifiedWait, EndedEmpty, RespondersFollow
    <2>4. CreditKept'
      BY <1>1, <1>2, <1>3, <1>4, <2>1 DEF CreditKept
    <2>5. Accounted' /\ WindowsAgree' /\ NoMissedWakeup'
      BY <1>2, <2>1 DEF Accounted, Held, WindowsAgree, NoMissedWakeup, Waiting, Room
    <2> QED
      BY <2>2, <2>3, <2>4, <2>5
  <1> QED
    BY <1>5, <1>6

(* Windows grow, or shrink, and those who may now send are to be told. *)
LEMMA GrowInv ==
    ASSUME IInv, NEW W \in SUBSET Windows, NEW n \in Int, Grow(W, n), notify = {},
           W \in SUBSET streams \/ W = {0},
           reader = "frame", reader' \in {"frame", "reply"},
           remoteInit' \in Nat, settings' \in 0 .. MaxSettings,
           UNCHANGED <<streams, active, recv, streamVars, grant, born, dropped, upload>>
    PROVE  IInv'
  <1> USE DEF IInv, streamVars
  <1>1. /\ send' = [w \in Windows |-> IF w \in W THEN send[w] + n ELSE send[w]]
        /\ allowed' = [w \in Windows |-> IF w \in W THEN allowed[w] + n ELSE allowed[w]]
        /\ notify' = {s \in IF 0 \in W THEN streams ELSE streams \cap W : n > 0 /\ Waiting(s)}
    BY DEF Grow
  <1>2. TypeOK'
    <2>1. send' \in [Windows -> Int] /\ allowed' \in [Windows -> Int]
      BY <1>1 DEF TypeOK
    <2>2. notify' \in SUBSET streams'
      BY <1>1
    <2> QED
      BY <2>1, <2>2 DEF TypeOK, ReaderPcs
  <1>3. NotifiedWait'
    BY <1>1 DEF NotifiedWait, Waiting
  <1>4. RespondersFollow' /\ EndedEmpty' /\ CreditKept' /\ Accounted'
    BY DEF RespondersFollow, EndedEmpty, CreditKept, Accounted, Held
  <1>5. /\ send'[0] = (IF 0 \in W THEN send[0] + n ELSE send[0])
        /\ allowed'[0] = (IF 0 \in W THEN allowed[0] + n ELSE allowed[0])
        /\ \A s \in streams :
              /\ s \in Streams
              /\ send'[s] = (IF s \in W THEN send[s] + n ELSE send[s])
              /\ allowed'[s] = (IF s \in W THEN allowed[s] + n ELSE allowed[s])
    BY <1>1, Indices DEF TypeOK
  <1>6. /\ send[0] \in Int /\ allowed[0] \in Int
        /\ \A s \in streams : send[s] \in Int /\ allowed[s] \in Int /\ born[s] \in Int
    BY Indices DEF TypeOK
  <1>7. WindowsAgree'
    BY <1>5, <1>6 DEF WindowsAgree
  <1>8. NoMissedWakeup'
    <2> SUFFICES ASSUME NEW s \in streams, s \notin notify', Waiting(s)
                 PROVE  Room(s)' <= 0
      BY DEF NoMissedWakeup, Waiting
    <2>1. Room(s) <= 0
      BY DEF NoMissedWakeup
    <2>2. send[s] <= 0 \/ send[0] <= 0
      BY <1>5, <2>1, RoomFits
    <2>3. n <= 0 \/ (0 \notin W /\ s \notin W)
      BY <1>1
    <2>4. send'[s] <= 0 \/ send'[0] <= 0
      BY <1>5, <1>6, <2>2, <2>3
    <2>5. send'[s] \in Int /\ send'[0] \in Int
      BY <1>5, <1>6
    <2>6. /\ Min({send'[s], send'[0]}) \in Int
          /\ Min({send'[s], send'[0]}) <= send'[s]
          /\ Min({send'[s], send'[0]}) <= send'[0]
      BY <2>5, LeastOfTwo, Zenon
    <2> QED
      BY <2>4, <2>5, <2>6 DEF Room
  <1> QED
    BY <1>2, <1>3, <1>4, <1>7, <1>8

LEMMA WindowFrameInv ==
    ASSUME IInv,
           \/ \E size \in InitWindows : RecvSettings(size)
           \/ \E w \in Windows : RecvWindowUpdate(w)
    PROVE  IInv'
  <1> USE DEF IInv
  <1>1. ASSUME NEW size \in InitWindows, RecvSettings(size) PROVE IInv'
    <2>1. streams \in SUBSET Windows /\ size \in Nat /\ size - remoteInit \in Int
      <3>1. streams \in SUBSET Windows
        BY Indices DEF TypeOK
      <3>2. size \in Nat /\ remoteInit \in Nat
        BY DEF TypeOK
      <3> QED
        BY <3>1, <3>2
    <2>2. settings' \in 0 .. MaxSettings
      <3>1. /\ settings < MaxSettings /\ settings' = settings + 1
            /\ settings \in 0 .. MaxSettings /\ MaxSettings \in Nat
        BY <1>1 DEF RecvSettings, TypeOK
      <3> QED
        BY <3>1
    <2>3. /\ Grow(streams, size - remoteInit) /\ notify = {}
          /\ reader = "frame" /\ reader' = "reply" /\ remoteInit' = size
          /\ UNCHANGED <<streams, active, recv, streamVars, grant, born, dropped, upload>>
      BY <1>1 DEF RecvSettings, ReaderWrites, Reading
    <2> QED
      BY <2>1, <2>2, <2>3, GrowInv
  <1>2. ASSUME NEW w \in Windows, RecvWindowUpdate(w) PROVE IInv'
    <2>1. PICK n \in Increments : Grow({w}, n)
      BY <1>2 DEF RecvWindowUpdate
    <2>2. /\ n \in Int /\ {w} \in SUBSET Windows
          /\ {w} \in SUBSET streams \/ {w} = {0}
      BY <1>2 DEF RecvWindowUpdate
    <2>3. /\ notify = {} /\ reader = "frame"
          /\ UNCHANGED <<reader, streams, active, remoteInit, recv, streamVars, grant, born,
                         dropped, clientVars>>
      BY <1>2 DEF RecvWindowUpdate, Reading
    <2>4. remoteInit' \in Nat /\ settings' \in 0 .. MaxSettings
      BY <2>3 DEF TypeOK, clientVars
    <2> QED
      BY <2>1, <2>2, <2>3, <2>4, GrowInv DEF clientVars
  <1> QED
    BY <1>1, <1>2

(* The window is returned, and the request that used it up is dispatched. *)
LEMMA GrantInv ==
    ASSUME IInv, GrantWritten
    PROVE  IInv'
  <1> USE DEF IInv
  <1>1. /\ reader = "grant" /\ reader' = "frame"
        /\ grant' = [grant EXCEPT ![0] = @ + InitWindow - recv]
        /\ recv' = InitWindow
        /\ Dispatch(request')
        /\ UNCHANGED <<streams, active, remoteInit, send, notify, request, left,
                       allowed, born, dropped, clientVars>>
    BY DEF GrantWritten, ReturnCredit
  <1>2. /\ responder' \in [Streams -> ResponderPcs]
        /\ \A t \in Streams :
              /\ responder'[t] = "window" <=> responder[t] = "window"
              /\ responder'[t] \in Live \cup {"none"} <=>
                    responder[t] \in Live \cup {"none"}
              /\ responder'[t] # "none" => request'[t] \in {"complete", "reset"}
              /\ responder'[t] \in Live => request'[t] = "complete"
              /\ responder'[t] \in {"none", "handler"} =>
                    responder[t] \in {"none", "handler"}
    BY <1>1, DispatchFollows DEF TypeOK
  <1>3. /\ recv = grant[0] + dropped /\ recv <= InitWindow
        /\ grant[0] \in Nat /\ dropped \in Nat /\ recv \in Nat /\ InitWindow \in Nat
    BY Indices DEF CreditKept, TypeOK
  <1>4. /\ grant' \in [Windows -> Nat]
        /\ grant'[0] = grant[0] + InitWindow - recv
    <2>1. grant[0] + InitWindow - recv \in Nat
      BY <1>3
    <2> QED
      BY <1>1, <2>1, Indices DEF TypeOK
  <1>5. TypeOK'
    BY <1>1, <1>2, <1>3, <1>4 DEF TypeOK, ReaderPcs, clientVars
  <1>6. notify = {}
    BY <1>1 DEF NotifiedWait
  <1>7. NotifiedWait' /\ EndedEmpty'
    BY <1>1, <1>6 DEF NotifiedWait, EndedEmpty
  <1>8. RespondersFollow'
    BY <1>1, <1>2 DEF RespondersFollow
  <1>9. CreditKept'
    <2>1. InitWindow \div 2 <= InitWindow
      BY <1>3
    <2> QED
      BY <1>1, <1>3, <1>4, <2>1 DEF CreditKept
  <1>10. Accounted'
    BY <1>1, <1>2 DEF Accounted, Held
  <1>11. WindowsAgree' /\ NoMissedWakeup'
    BY <1>1, <1>2 DEF WindowsAgree, NoMissedWakeup, Waiting, Room, TypeOK
  <1> QED
    BY <1>5, <1>7, <1>8, <1>9, <1>10, <1>11

(* Every other step of the reader: it moves on, or the connection ends. *)
LEMMA ReaderInv ==
    ASSUME IInv,
           \/ Preface \/ RecvPing \/ RecvMalformed \/ PeerLeaves
           \/ RstWritten \/ ReplyWritten \/ GoawayWritten
    PROVE  IInv'
  <1> USE DEF IInv
  <1>1. notify = {}
    BY DEF NotifiedWait, Preface, RecvPing, RecvMalformed, PeerLeaves, ReaderWrites,
           Reading, RstWritten, ReplyWritten, GoawayWritten
  <1>2. CASE Destroy
    BY <1>1, <1>2, DestroyInv
  <1>3. CASE ~Destroy
    <2>1. /\ reader \in {"preface", "frame", "rst", "reply"}
          /\ reader' \in {"frame", "goaway", "reply"}
          /\ UNCHANGED <<streams, active, remoteInit, send, recv, notify, streamVars,
                         ghostVars, clientVars>>
      BY <1>3 DEF Preface, RecvPing, RecvMalformed, PeerLeaves, ReaderWrites,
             Reading, RstWritten, ReplyWritten, GoawayWritten
    <2> QED
      BY <1>1, <2>1, QuietInv DEF ReaderPcs
  <1> QED
    BY <1>2, <1>3

LEMMA NextInv == IInv /\ [Next]_vars => IInv'
  <1> SUFFICES ASSUME IInv, [Next]_vars PROVE IInv'
    OBVIOUS
  <1>1. CASE UNCHANGED vars
    BY <1>1 DEF vars, serverVars, streamVars, ghostVars, clientVars, IInv, TypeOK,
           NotifiedWait, RespondersFollow, EndedEmpty, CreditKept, Accounted, Held,
           WindowsAgree, NoMissedWakeup, Waiting, Room
  <1>2. CASE \/ Preface \/ RecvPing \/ RecvMalformed \/ PeerLeaves
             \/ RstWritten \/ ReplyWritten \/ GoawayWritten
    BY <1>2, ReaderInv
  <1>3. CASE GrantWritten
    BY <1>3, GrantInv
  <1>4. CASE NotifyNext
    BY <1>4, NotifyInv
  <1>5. ASSUME NEW s \in Streams, Respond(s) \/ Continue(s) \/ RecvRstStream(s) PROVE IInv'
    BY <1>5, ResponderInv
  <1>6. ASSUME NEW s \in Streams, RecvHeaders(s) PROVE IInv'
    BY <1>6, OpenStreamInv, RefusedInv DEF RecvHeaders
  <1>7. ASSUME NEW s \in Streams, NEW n \in 1 .. FrameMax, RecvData(s, n) \/ RecvLateData(s, n)
        PROVE  IInv'
    BY <1>7, DataInv
  <1>8. CASE \/ \E size \in InitWindows : RecvSettings(size)
             \/ \E w \in Windows : RecvWindowUpdate(w)
    BY <1>8, WindowFrameInv
  <1> QED
    BY <1>1, <1>2, <1>3, <1>4, <1>5, <1>6, <1>7, <1>8
       DEF Next, RecvFrame, UploadData, ReaderWritten, Closed

(* At every moment of every execution IInv holds. *)
THEOREM Invariance == Safety => []IInv
  BY InitInv, NextInv, PTL DEF Safety

(* The connection's variables keep their types: no counter, window of the  *)
(* server's input or rest of a body ever goes below zero.                  *)
THEOREM TypeCorrect == Safety => []TypeOK
  BY Invariance, PTL DEF IInv

(* active_streams_, which the limit of concurrent streams is compared      *)
(* with, is the size of the map, and the map holds the streams at work.    *)
THEOREM StreamsCounted == Safety => []StreamsAccounted
  <1>1. IInv => StreamsAccounted
    BY AccountedIsStreamsAccounted DEF IInv
  <1> QED
    BY <1>1, Invariance, PTL

(* However SETTINGS, WINDOW_UPDATE and DATA interleave, the server's send  *)
(* windows are the client's.                                               *)
THEOREM WindowsInStep == Safety => []WindowsAgree
  BY Invariance, PTL DEF IInv

(* No credit of the connection's receive window is lost or returned twice. *)
THEOREM CreditIsReturned == Safety => []CreditReturned
  <1>1. IInv => CreditReturned
    BY DEF IInv, CreditKept, CreditReturned
  <1> QED
    BY <1>1, Invariance, PTL

(* A responder is never left asleep beside an open window. *)
THEOREM WakeupsReach == Safety => []NoMissedWakeup
  BY Invariance, PTL DEF IInv

(* A DATA frame never overruns a window of a client that kept the default  *)
(* initial window.                                                         *)
THEOREM SendsFit == Safety => SendsWithinWindow
  <1> DEFINE Fits == \A s \in streams' :
                       left'[s] < left[s] /\ born[s] = InitWindow =>
                          allowed'[s] >= 0 /\ allowed'[0] >= 0
  <1>1. IInv /\ IInv' /\ [Next]_vars => [Fits]_vars
    <2> SUFFICES ASSUME IInv, IInv', Next, NEW s \in streams',
                        left'[s] < left[s], born[s] = InitWindow
                 PROVE  allowed'[s] >= 0 /\ allowed'[0] >= 0
      OBVIOUS
    <2> USE DEF IInv
    <2>1. s \in Streams /\ left[s] \in Nat /\ left'[s] \in Nat
      BY DEF TypeOK
    <2>2. SendChunk(s) /\ Room(s) > 0 /\ UNCHANGED <<streams, born>>
      <3>1. ASSUME NEW t \in Streams, SendChunk(t), Room(t) > 0, UNCHANGED <<streams, born>>
            PROVE  SendChunk(s) /\ Room(s) > 0 /\ UNCHANGED <<streams, born>>
        <4>1. left' = [left EXCEPT ![t] = @ - Chunk(t)] /\ t \in Streams
          BY <3>1 DEF SendChunk
        <4>2. t = s
          BY <2>1, <4>1 DEF TypeOK
        <4> QED
          BY <3>1, <4>2, Zenon
      <3>2. CASE left' = left
        BY <2>1, <3>2
      <3>3. ASSUME NEW S, Forget(S) PROVE FALSE
        BY <2>1, <3>3 DEF Forget
      <3>4. ASSUME NEW t \in Streams, NEW b \in Bodies, HandlerDone(t, b) PROVE FALSE
        BY <2>1, <3>4 DEF HandlerDone, RespondersFollow, TypeOK
      <3>5. ASSUME NEW t \in Streams, NextChunk(t)
            PROVE  SendChunk(s) /\ Room(s) > 0 /\ UNCHANGED <<streams, born>>
        BY <3>1, <3>2, <3>5 DEF NextChunk
      <3>6. CASE NotifyNext
        <4>1. PICK t \in notify :
                /\ IF Room(t) >= 1 THEN SendChunk(t) ELSE left' = left
                /\ UNCHANGED <<streams, born>>
          BY <3>6 DEF NotifyNext
        <4>2. t \in Streams /\ Room(t) \in Int
          BY RoomFits DEF TypeOK
        <4> QED
          BY <3>1, <3>2, <4>1, <4>2
      <3>7. CASE Preface \/ ReaderWritten \/ Closed
        BY <3>2, <3>3, <3>7 DEF Preface, ReaderWritten, RstWritten, ReplyWritten,
               GrantWritten, GoawayWritten, Closed, Destroy, streamVars, vars
      <3>8. CASE RecvFrame
        BY <3>2, <3>3, <3>8 DEF RecvFrame, RecvHeaders, OpenStream, RefuseStream,
               RecvTrailers, UploadData, RecvData, RecvRstStream, RecvLateData,
               RecvSettings, RecvWindowUpdate, RecvPing, RecvMalformed, PeerLeaves,
               Destroy, remove_stream, streamVars
      <3>9. ASSUME NEW t \in Streams, AbandonRequest(t) \/ ResponseDone(t) PROVE FALSE
        BY <3>3, <3>9 DEF AbandonRequest, ResponseDone, remove_stream
      <3> QED
        BY <3>4, <3>5, <3>6, <3>7, <3>8, <3>9 DEF Next, Respond, Continue
    <2>3. /\ Chunk(s) \in Nat /\ Chunk(s) <= send[s] /\ Chunk(s) <= send[0]
          /\ send[s] \in Int /\ send[0] \in Int
      BY <2>1, <2>2, ChunkFits, RoomFits, Indices DEF TypeOK
    <2>4. send'[s] = send[s] - Chunk(s) /\ send'[0] = send[0] - Chunk(s)
      BY <2>1, <2>2, Indices DEF SendChunk, TypeOK
    <2>5. allowed'[0] = send'[0] /\ allowed'[s] = send'[s]
      <3>1. send'[0] = allowed'[0] /\ send'[s] - allowed'[s] = InitWindow - InitWindow
        BY <2>2 DEF WindowsAgree
      <3>2. send'[s] \in Int /\ allowed'[s] \in Int
        BY <2>1, Indices DEF TypeOK
      <3> QED
        BY <3>1, <3>2
    <2> QED
      BY <2>3, <2>4, <2>5
  <1> QED
    BY <1>1, Invariance, PTL DEF Safety, SendsWithinWindow

-----------------------------------------------------------------------------
(* HTTP/1.1 connections.                                                   *)
HIDE Http2Assumption

(* Sequences, under names that the provers leave alone.                    *)
Cat(s, t) == s \o t
Upto(s, n) == SubSeq(s, 1, n)
After(s, n) == SubSeq(s, n + 1, Len(s))

Looks == {"x", "CR", "LF"}
AnyByte == [req : Nat, look : Looks]

(* The bytes of the k-th message of a plan: its line, its body.            *)
LineSize(p, k) == IF p[k] = "long" THEN MaxHeaderSize ELSE 1
HeaderSize(p, k) == LineSize(p, k) + 4
BodySize(p, k) == IF p[k] \in {"body", "unread", "large"} THEN 2
                  ELSE IF p[k] = "short" THEN 1 ELSE 0
MessageSize(p, k) == HeaderSize(p, k) + BodySize(p, k)
LookAt(line, short, j) ==
    IF j <= line THEN "x"
    ELSE IF j = line + 1 \/ j = line + 3 THEN "CR"
    ELSE IF j = line + 2 \/ j = line + 4 THEN "LF"
    ELSE IF j = line + 5 /\ ~short THEN "LF" ELSE "x"
ByteOf(p, k, j) == H!Byte(k, LookAt(LineSize(p, k), p[k] = "short", j))

(* A stream of bytes is a part of the messages 1 to n, one after the other *)
(* and up to the end: st[k] is where the k-th would begin, before the      *)
(* first byte if it has been read.                                         *)
Laid(p, n, st, s) ==
    /\ s \in Seq(AnyByte) /\ n \in Nat
    /\ st \in [1 .. n + 1 -> Int] /\ st[1] <= 0 /\ st[n + 1] = Len(s)
    /\ \A k \in 1 .. n : st[k + 1] = st[k] + MessageSize(p, k)
    /\ \A k, l \in 1 .. n + 1 : k < l => st[k] < st[l]
    /\ \A k \in 1 .. n : \A j \in 1 .. MessageSize(p, k) :
          st[k] + j >= 1 => s[st[k] + j] = ByteOf(p, k, j)
    /\ \A i \in 1 .. Len(s) : \E k \in 1 .. n : st[k] < i /\ i <= st[k + 1]

-----------------------------------------------------------------------------
LEMMA Sizes ==
    ASSUME H!Http1Assumption, NEW p, NEW k
    PROVE  /\ LineSize(p, k) \in Nat \ {0} /\ HeaderSize(p, k) \in Nat /\ HeaderSize(p, k) >= 5
           /\ BodySize(p, k) \in {0, 1, 2}
           /\ MessageSize(p, k) \in Nat /\ MessageSize(p, k) >= 5
<1>1. LineSize(p, k) \in Nat \ {0}
  BY DEF H!Http1Assumption, LineSize
<1>2. BodySize(p, k) \in {0, 1, 2}
  BY DEF BodySize
<1> QED
  BY <1>1, <1>2 DEF HeaderSize, MessageSize

(* A sequence cut in two: its first d elements.                            *)
LEMMA Front ==
    ASSUME NEW S, NEW s \in Seq(S), NEW d \in 0 .. Len(s)
    PROVE  /\ Upto(s, d) \in Seq(S) /\ Len(Upto(s, d)) = d
           /\ \A i \in 1 .. d : Upto(s, d)[i] = s[i]
<1>1. PICK l \in Nat : l = Len(s) /\ d \in Nat /\ d <= l /\ \A i \in 1 .. l : s[i] \in S
  OBVIOUS
<1>2. PICK u : u = SubSeq(s, 1, d)
  OBVIOUS
<1>3. /\ u \in Seq(S) /\ Len(u) = (IF 1 <= d THEN d - 1 + 1 ELSE 0)
      /\ \A i \in 1 .. d - 1 + 1 : u[i] = s[1 + i - 1]
  <2>1. 1 \in Int /\ d \in Int /\ \A i \in 1 .. d : s[i] \in S
    BY <1>1
  <2> QED
    BY <1>2, <2>1, SubSeqProperties
<1>4. (IF 1 <= d THEN d - 1 + 1 ELSE 0) = d
  BY <1>1
<1>5. \A i \in 1 .. d : i \in 1 .. d - 1 + 1 /\ 1 + i - 1 = i
  BY <1>1
<1>6. u \in Seq(S) /\ Len(u) = d /\ \A i \in 1 .. d : u[i] = s[i]
  BY <1>3, <1>4, <1>5
<1>7. u = Upto(s, d)
  BY <1>2, Zenon DEF Upto
<1> QED
  BY <1>6, <1>7, Zenon

(* And the rest.                                                           *)
LEMMA Back ==
    ASSUME NEW S, NEW s \in Seq(S), NEW d \in 0 .. Len(s)
    PROVE  /\ After(s, d) \in Seq(S) /\ Len(After(s, d)) = Len(s) - d
           /\ \A i \in 1 .. Len(s) - d : After(s, d)[i] = s[d + i]
<1>1. PICK l \in Nat : l = Len(s) /\ d \in Nat /\ d <= l /\ \A i \in 1 .. l : s[i] \in S
  OBVIOUS
<1>2. PICK u : u = SubSeq(s, d + 1, Len(s))
  OBVIOUS
<1>3. /\ u \in Seq(S) /\ Len(u) = (IF d + 1 <= l THEN l - (d + 1) + 1 ELSE 0)
      /\ \A i \in 1 .. l - (d + 1) + 1 : u[i] = s[d + 1 + i - 1]
  <2>1. d + 1 \in Int /\ l \in Int /\ \A i \in d + 1 .. l : s[i] \in S
    BY <1>1
  <2>2. u = SubSeq(s, d + 1, l)
    BY <1>1, <1>2, Zenon
  <2> QED
    BY <2>1, <2>2, SubSeqProperties
<1>4. (IF d + 1 <= l THEN l - (d + 1) + 1 ELSE 0) = l - d
  BY <1>1
<1>5. \A i \in 1 .. l - d : i \in 1 .. l - (d + 1) + 1 /\ d + 1 + i - 1 = d + i
  BY <1>1
<1>6. u \in Seq(S) /\ Len(u) = l - d /\ \A i \in 1 .. l - d : u[i] = s[d + i]
  BY <1>3, <1>4, <1>5
<1>7. u = After(s, d)
  BY <1>2, Zenon DEF After
<1>8. /\ u \in Seq(S) /\ Len(u) = Len(s) - d
      /\ \A i \in 1 .. Len(s) - d : u[i] = s[d + i]
  BY <1>1, <1>6
<1> QED
  BY <1>7, <1>8, Zenon

(* What has been read is no longer in the stream.                          *)
LEMMA LaidDrop ==
    ASSUME H!Http1Assumption, NEW p, NEW n, NEW st, NEW s, Laid(p, n, st, s),
           NEW d \in 0 .. Len(s)
    PROVE  Laid(p, n, [k \in 1 .. n + 1 |-> st[k] - d], After(s, d))
<1> DEFINE t == After(s, d)  u == [k \in 1 .. n + 1 |-> st[k] - d]
<1>1. PICK l \in Nat : l = Len(s)
  BY DEF Laid
<1>2. /\ s \in Seq(AnyByte) /\ n \in Nat /\ d \in 0 .. l
      /\ st \in [1 .. n + 1 -> Int] /\ st[1] <= 0 /\ st[n + 1] = l
  BY <1>1 DEF Laid
<1>3. /\ t \in Seq(AnyByte) /\ Len(t) = l - d
      /\ \A i \in 1 .. l - d : t[i] = s[d + i]
  <2>1. /\ After(s, d) \in Seq(AnyByte) /\ Len(After(s, d)) = Len(s) - d
        /\ \A i \in 1 .. Len(s) - d : After(s, d)[i] = s[d + i]
    BY <1>2, Back, Zenon
  <2> HIDE DEF t
  <2>2. t = After(s, d)
    BY DEF t
  <2> QED
    BY <1>1, <2>1, <2>2
<1> HIDE DEF t
<1>4. /\ u \in [1 .. n + 1 -> Int] /\ \A k \in 1 .. n + 1 : u[k] = st[k] - d
  BY <1>2
<1> HIDE DEF u
<1>5. u[1] <= 0 /\ u[n + 1] = Len(t)
  BY <1>2, <1>3, <1>4
<1>6. ASSUME NEW k \in 1 .. n PROVE u[k + 1] = u[k] + MessageSize(p, k)
  <2>1. st[k + 1] = st[k] + MessageSize(p, k) /\ k \in 1 .. n + 1 /\ k + 1 \in 1 .. n + 1
    BY <1>2 DEF Laid
  <2> QED
    BY <1>2, <1>4, <2>1, Sizes
<1>7. ASSUME NEW k \in 1 .. n + 1, NEW m \in 1 .. n + 1, k < m PROVE u[k] < u[m]
  <2>1. st[k] < st[m]
    BY <1>7 DEF Laid
  <2> QED
    BY <1>2, <1>4, <2>1
<1>8. ASSUME NEW k \in 1 .. n, NEW j \in 1 .. MessageSize(p, k), u[k] + j >= 1
      PROVE  t[u[k] + j] = ByteOf(p, k, j)
  <2>1. /\ st[k + 1] = st[k] + MessageSize(p, k) /\ k \in 1 .. n + 1 /\ k + 1 \in 1 .. n + 1
        /\ k + 1 = n + 1 \/ st[k + 1] < st[n + 1]
    BY <1>2 DEF Laid
  <2>2. PICK z \in Nat : z = MessageSize(p, k)
    BY Sizes
  <2>3. PICK a \in Int, b \in Int : a = st[k] /\ b = st[k + 1]
    BY <1>2, <2>1
  <2>4. b = a + z /\ (b = l \/ b < l)
    BY <1>2, <2>1, <2>2, <2>3, Zenon
  <2>5. j \in 1 .. z /\ u[k] = a - d
    BY <1>4, <2>1, <2>2, <2>3
  <2>6. a - d + j >= 1
    BY <1>8, <2>5
  <2>7. d \in Nat
    BY <1>2
  <2>8. a + j >= 1 /\ a - d + j \in 1 .. l - d /\ d + (a - d + j) = a + j
    BY <2>4, <2>5, <2>6, <2>7
  <2>9. s[a + j] = ByteOf(p, k, j)
    BY <2>3, <2>8 DEF Laid
  <2>10. t[a - d + j] = s[d + (a - d + j)]
    BY <1>3, <2>8
  <2> QED
    BY <2>5, <2>8, <2>9, <2>10
<1>9. ASSUME NEW i \in 1 .. Len(t) PROVE \E k \in 1 .. n : u[k] < i /\ i <= u[k + 1]
  <2>1. d + i \in 1 .. l
    BY <1>2, <1>3
  <2>2. PICK k \in 1 .. n : st[k] < d + i /\ d + i <= st[k + 1]
    BY <1>1, <2>1 DEF Laid
  <2>3. k \in 1 .. n + 1 /\ k + 1 \in 1 .. n + 1
    BY <1>2
  <2>4. PICK a \in Int, b \in Int : a = st[k] /\ b = st[k + 1]
    BY <1>2, <2>3
  <2>5. u[k] = a - d /\ u[k + 1] = b - d
    BY <1>4, <2>3, <2>4
  <2>6. a < d + i /\ d + i <= b
    BY <2>2, <2>4
  <2>7. d \in Nat /\ i \in Int
    BY <1>2
  <2>8. a - d < i /\ i <= b - d
    BY <2>6, <2>7
  <2> QED
    BY <2>5, <2>8
<1>10. Laid(p, n, u, t)
  BY <1>2, <1>3, <1>4, <1>5, <1>6, <1>7, <1>8, <1>9 DEF Laid
<1> QED
  BY <1>10, Zenon DEF u, t

(* Where a header section begins that can be seen as a whole.              *)
LEMMA LaidStart ==
    ASSUME H!Http1Assumption, NEW p, NEW n, NEW st, NEW s, Laid(p, n, st, s), NEW k,
           HeaderSize(p, k) <= Len(s),
           \A j \in 1 .. HeaderSize(p, k) : s[j] = ByteOf(p, k, j)
    PROVE  k \in 1 .. n /\ st[k] = 0
<1>1. PICK l \in Nat : l = Len(s)
  BY DEF Laid
<1>2. /\ s \in Seq(AnyByte) /\ n \in Nat
      /\ st \in [1 .. n + 1 -> Int] /\ st[1] <= 0 /\ st[n + 1] = l
  BY <1>1 DEF Laid
<1>3. PICK x \in Nat \ {0} : x = LineSize(p, k)
  BY Sizes
<1>4. HeaderSize(p, k) = x + 4 /\ x + 4 <= l
  BY <1>1, <1>3 DEF HeaderSize
<1>5. ASSUME NEW i \in 1 .. x + 4
      PROVE  k \in 1 .. n /\ st[k] < i /\ i <= st[k] + MessageSize(p, k)
  <2>1. i \in 1 .. Len(s) /\ s[i] = ByteOf(p, k, i)
    BY <1>1, <1>4
  <2>2. PICK m \in 1 .. n : st[m] < i /\ i <= st[m + 1]
    BY <2>1 DEF Laid
  <2>3. /\ st[m + 1] = st[m] + MessageSize(p, m) /\ m \in 1 .. n + 1 /\ st[m] \in Int
    BY <1>2 DEF Laid
  <2>4. PICK a \in Int, z \in Nat : a = st[m] /\ z = MessageSize(p, m)
    BY <2>3, Sizes
  <2>5. PICK j \in Int : j = i - a
    OBVIOUS
  <2>6. a < i /\ i <= a + z
    BY <2>2, <2>3, <2>4
  <2>7. j \in 1 .. z /\ a + j = i /\ a + j >= 1
    BY <2>4, <2>5, <2>6
  <2>8. s[i] = ByteOf(p, m, j)
    BY <2>4, <2>7 DEF Laid
  <2>9. m = k
    BY <2>1, <2>8 DEF ByteOf, H!Byte
  <2> QED
    BY <2>2, <2>3, <2>9
<1>6. k \in 1 .. n /\ k \in 1 .. n + 1 /\ st[k] \in Int /\ st[k] <= 0
  <2>1. 1 \in 1 .. x + 4
    OBVIOUS
  <2>2. k \in 1 .. n /\ st[k] < 1
    BY <1>5, <2>1
  <2> QED
    BY <1>2, <2>2
<1>7. PICK o \in Nat : o = 0 - st[k]
  BY <1>6
<1>8. PICK b \in {0, 1, 2} : MessageSize(p, k) = x + 4 + b /\ b = BodySize(p, k)
  BY <1>4, Sizes DEF MessageSize
<1>9. \A i \in 1 .. x + 4 : i + o <= x + 4 + b
  BY <1>5, <1>6, <1>7, <1>8
<1>10. o \in {0, 1, 2}
  BY <1>8, <1>9
<1>11. ASSUME NEW i \in 1 .. x + 4 PROVE ByteOf(p, k, i) = ByteOf(p, k, i + o)
  <2>1. i + o <= x + 4 + b
    BY <1>9
  <2>2. PICK a \in Int : a = st[k]
    BY <1>6
  <2>3. PICK j \in Int : j = i + o
    OBVIOUS
  <2>4. o = 0 - a /\ i >= 1
    BY <1>7, <2>2
  <2>5. j \in 1 .. x + 4 + b /\ a + j = i /\ a + j >= 1
    BY <2>1, <2>3, <2>4
  <2>6. s[a + j] = ByteOf(p, k, j)
    BY <1>6, <1>8, <2>2, <2>5 DEF Laid
  <2>7. s[i] = ByteOf(p, k, i + o)
    BY <2>3, <2>5, <2>6
  <2> QED
    BY <1>4, <2>7
<1>12. PICK h \in BOOLEAN : h = (p[k] = "short")
  OBVIOUS
<1>13. \A i \in 1 .. x + 4 : LookAt(x, h, i) = LookAt(x, h, i + o)
  BY <1>3, <1>11, <1>12, Zenon DEF ByteOf, H!Byte
<1>14. o # 1
  <2>1. x + 1 \in 1 .. x + 4 /\ ~(x + 1 <= x) /\ ~(x + 2 <= x) /\ x + 2 # x + 1 /\ x + 2 # x + 3
    OBVIOUS
  <2>2. LookAt(x, h, x + 1) = "CR" /\ LookAt(x, h, x + 2) = "LF"
    BY <2>1 DEF LookAt
  <2>3. x + 1 + 1 = x + 2
    OBVIOUS
  <2> QED
    BY <1>13, <2>1, <2>2, <2>3
<1>15. o # 2
  <2>1. x + 3 \in 1 .. x + 4 /\ ~(x + 3 <= x) /\ ~(x + 5 <= x) /\ x + 5 # x + 1 /\ x + 5 # x + 3
    OBVIOUS
  <2>2. LookAt(x, h, x + 3) = "CR" /\ LookAt(x, h, x + 5) # "CR"
    BY <2>1 DEF LookAt
  <2>3. x + 3 + 2 = x + 5
    OBVIOUS
  <2> QED
    BY <1>13, <2>1, <2>2, <2>3
<1> QED
  BY <1>6, <1>7, <1>10, <1>14, <1>15

(* A message that is sent is the last of the stream.                       *)
LEMMA CatProperties ==
    ASSUME NEW S, NEW s \in Seq(S), NEW t \in Seq(S)
    PROVE  /\ Cat(s, t) \in Seq(S) /\ Len(Cat(s, t)) = Len(s) + Len(t)
           /\ \A i \in 1 .. Len(s) + Len(t) :
                 Cat(s, t)[i] = IF i <= Len(s) THEN s[i] ELSE t[i - Len(s)]
<1>1. /\ s \o t \in Seq(S) /\ Len(s \o t) = Len(s) + Len(t)
      /\ \A i \in 1 .. Len(s) + Len(t) :
            (s \o t)[i] = IF i <= Len(s) THEN s[i] ELSE t[i - Len(s)]
  BY ConcatProperties
<1> QED
  BY <1>1, Zenon DEF Cat

(* A message that is sent is laid out behind the others.                   *)
LEMMA LaidSend ==
    ASSUME H!Http1Assumption, NEW p, NEW n, NEW st, NEW s, Laid(p, n, st, s),
           NEW msg \in Seq(AnyByte),
           Len(msg) = MessageSize(p, n + 1),
           \A j \in 1 .. Len(msg) : msg[j] = ByteOf(p, n + 1, j)
    PROVE  Laid(p, n + 1, [k \in 1 .. n + 2 |-> IF k <= n + 1 THEN st[k] ELSE Len(s) + Len(msg)],
                Cat(s, msg))
<1> DEFINE t == Cat(s, msg)
           u == [k \in 1 .. n + 2 |-> IF k <= n + 1 THEN st[k] ELSE Len(s) + Len(msg)]
<1>1. PICK l \in Nat, z \in Nat : l = Len(s) /\ z = Len(msg)
  BY DEF Laid
<1>2. /\ s \in Seq(AnyByte) /\ n \in Nat
      /\ st \in [1 .. n + 1 -> Int] /\ st[1] <= 0 /\ st[n + 1] = l
  BY <1>1 DEF Laid
<1>3. /\ t \in Seq(AnyByte) /\ Len(t) = l + z
      /\ \A i \in 1 .. l + z : t[i] = IF i <= l THEN s[i] ELSE msg[i - l]
  <2>1. /\ t \in Seq(AnyByte) /\ Len(t) = Len(s) + Len(msg)
        /\ \A i \in 1 .. Len(s) + Len(msg) : t[i] = IF i <= Len(s) THEN s[i] ELSE msg[i - Len(s)]
    BY <1>2, CatProperties, Zenon
  <2> HIDE DEF t
  <2> QED
    BY <1>1, <2>1
<1> HIDE DEF t
<1>4. /\ z >= 5 /\ MessageSize(p, n + 1) = z
  BY <1>1, Sizes
<1>5. /\ u \in [1 .. n + 1 + 1 -> Int] /\ u[n + 2] = l + z
      /\ \A k \in 1 .. n + 1 : u[k] = st[k]
  <2>1. n + 1 + 1 = n + 2 /\ n + 2 \in 1 .. n + 2 /\ ~(n + 2 <= n + 1)
    BY <1>2
  <2>2. \A k \in 1 .. n + 1 : k \in 1 .. n + 2 /\ k <= n + 1
    BY <1>2
  <2>3. l + z \in Int
    OBVIOUS
  <2>4. \A k \in 1 .. n + 2 : (k <= n + 1 => k \in 1 .. n + 1)
    BY <1>2
  <2> QED
    BY <1>1, <1>2, <2>1, <2>2, <2>3, <2>4
<1> HIDE DEF u
<1>6. u[1] <= 0 /\ u[n + 1 + 1] = Len(t)
  <2>1. 1 \in 1 .. n + 1 /\ n + 1 + 1 = n + 2
    BY <1>2
  <2> QED
    BY <1>2, <1>3, <1>5, <2>1
<1>7. ASSUME NEW k \in 1 .. n + 1 PROVE u[k + 1] = u[k] + MessageSize(p, k)
  <2>1. CASE k = n + 1
    <3>1. k \in 1 .. n + 1 /\ k + 1 = n + 2
      BY <1>2, <2>1
    <3>2. u[k] = l
      BY <1>2, <1>5, <2>1, <3>1
    <3> QED
      BY <1>4, <1>5, <2>1, <3>1, <3>2
  <2>2. CASE k # n + 1
    <3>1. k \in 1 .. n /\ k + 1 \in 1 .. n + 1
      BY <1>2, <2>2
    <3> QED
      BY <1>5, <3>1 DEF Laid
  <2> QED
    BY <2>1, <2>2
<1>8. ASSUME NEW k \in 1 .. n + 1 + 1, NEW m \in 1 .. n + 1 + 1, k < m PROVE u[k] < u[m]
  <2>1. k \in 1 .. n + 1 /\ n + 1 \in 1 .. n + 1
    BY <1>2, <1>8
  <2>2. u[k] = st[k] /\ st[k] \in Int
    BY <1>2, <1>5, <2>1
  <2>3. CASE m \in 1 .. n + 1
    <3>1. st[k] < st[m]
      BY <1>8, <2>1, <2>3 DEF Laid
    <3> QED
      BY <1>5, <2>2, <2>3, <3>1
  <2>4. CASE m = n + 2
    <3>1. k = n + 1 \/ k < n + 1
      BY <1>2, <2>1
    <3>2. st[k] <= l
      BY <1>2, <2>1, <2>2, <3>1 DEF Laid
    <3> QED
      BY <1>4, <1>5, <2>2, <2>4, <3>2
  <2> QED
    BY <1>2, <2>3, <2>4
<1>9. ASSUME NEW k \in 1 .. n + 1, NEW j \in 1 .. MessageSize(p, k), u[k] + j >= 1
      PROVE  t[u[k] + j] = ByteOf(p, k, j)
  <2>1. CASE k = n + 1
    <3>1. u[k] = l
      BY <1>2, <1>5, <2>1
    <3>2. j \in 1 .. z /\ l + j \in 1 .. l + z /\ ~(l + j <= l) /\ l + j - l = j
      BY <1>4, <2>1
    <3>3. t[l + j] = msg[j]
      BY <1>3, <3>2
    <3> QED
      BY <1>1, <2>1, <3>1, <3>2, <3>3
  <2>2. CASE k # n + 1
    <3>1. k \in 1 .. n /\ k + 1 \in 1 .. n + 1 /\ n + 1 \in 1 .. n + 1
      BY <1>2, <2>2
    <3>2. PICK a \in Int, b \in Int, y \in Nat : a = st[k] /\ b = st[k + 1]
           /\ y = MessageSize(p, k)
      BY <1>2, <3>1, Sizes
    <3>3. b = a + y
      BY <3>1, <3>2 DEF Laid
    <3>4. k + 1 = n + 1 \/ k + 1 < n + 1
      BY <1>2, <3>1
    <3>5. b = l \/ b < l
      BY <1>2, <3>1, <3>2, <3>4, Zenon DEF Laid
    <3>6. u[k] = a
      BY <1>5, <3>2
    <3>7. j \in 1 .. y /\ a + j >= 1
      BY <1>9, <3>2, <3>6
    <3>8. a + j \in 1 .. l + z /\ a + j <= l
      BY <3>3, <3>5, <3>7
    <3>9. s[a + j] = ByteOf(p, k, j)
      BY <3>1, <3>2, <3>7 DEF Laid
    <3> QED
      BY <1>3, <3>6, <3>8, <3>9
  <2> QED
    BY <2>1, <2>2
<1>10. ASSUME NEW i \in 1 .. Len(t) PROVE \E k \in 1 .. n + 1 : u[k] < i /\ i <= u[k + 1]
  <2>1. CASE i <= l
    <3>1. i \in 1 .. l
      BY <1>3, <2>1
    <3>2. PICK k \in 1 .. n : st[k] < i /\ i <= st[k + 1]
      BY <1>1, <3>1 DEF Laid
    <3>3. k \in 1 .. n + 1 /\ k + 1 \in 1 .. n + 1
      BY <1>2
    <3> QED
      BY <1>5, <3>2, <3>3
  <2>2. CASE ~(i <= l)
    <3>1. n + 1 \in 1 .. n + 1 /\ n + 1 + 1 = n + 2
      BY <1>2
    <3>2. u[n + 1] = l /\ u[n + 2] = l + z
      BY <1>2, <1>5, <3>1
    <3>3. l < i /\ i <= l + z
      BY <1>3, <2>2
    <3> QED
      BY <3>1, <3>2, <3>3
  <2> QED
    BY <2>1, <2>2
<1>11. Laid(p, n + 1, u, t)
  <2>1. n + 1 \in Nat
    BY <1>2
  <2> QED
    BY <1>3, <1>5, <1>6, <1>7, <1>8, <1>9, <1>10, <2>1 DEF Laid
<1> QED
  BY <1>11, Zenon DEF u, t
-----------------------------------------------------------------------------
(* The messages are the bytes they are said to be.                         *)
Announced(p, k) == IF p[k] \in {"body", "short"} THEN 2 ELSE 0
ReadSize(p, k) == IF p[k] = "body" THEN 2 ELSE IF p[k] = "short" THEN 1 ELSE 0
BodyOf(p, k) == [j \in 1 .. ReadSize(p, k) |-> ByteOf(p, k, HeaderSize(p, k) + j)]

(* The messages of the model, byte by byte.                                *)
LEMMA HeaderBytes ==
    ASSUME H!Http1Assumption, NEW k
    PROVE  H!Header(k) = [j \in 1 .. HeaderSize(plan, k) |-> ByteOf(plan, k, j)]
<1> DEFINE line == IF plan[k] = "long" THEN [i \in 1 .. MaxHeaderSize |-> "x"] ELSE <<"x">>
           looks == Cat(line, H!EndOfHeaders)
<1>1. PICK x \in Nat \ {0} : x = LineSize(plan, k)
  BY Sizes
<1>2. line \in Seq(Looks) /\ Len(line) = x /\ \A i \in 1 .. x : line[i] = "x"
  <2>1. CASE plan[k] = "long"
    <3>1. x = MaxHeaderSize /\ line = [i \in 1 .. MaxHeaderSize |-> "x"]
      BY <1>1, <2>1 DEF LineSize
    <3> HIDE DEF line
    <3> QED
      BY <3>1 DEF Looks
  <2>2. CASE plan[k] # "long"
    <3>1. x = 1 /\ line = <<"x">>
      BY <1>1, <2>2 DEF LineSize
    <3> HIDE DEF line
    <3> QED
      BY <3>1 DEF Looks
  <2> QED
    BY <2>1, <2>2
<1>3. /\ H!EndOfHeaders \in Seq(Looks) /\ Len(H!EndOfHeaders) = 4
      /\ H!EndOfHeaders[1] = "CR" /\ H!EndOfHeaders[2] = "LF"
      /\ H!EndOfHeaders[3] = "CR" /\ H!EndOfHeaders[4] = "LF"
  BY DEF H!EndOfHeaders, Looks
<1>4. H!Header(k) = H!Bytes(k, looks)
  BY Zenon DEF H!Header, Cat
<1> HIDE DEF line
<1>5. /\ Len(looks) = x + 4
      /\ \A i \in 1 .. x + 4 : looks[i] = IF i <= x THEN line[i] ELSE H!EndOfHeaders[i - x]
  <2>1. /\ Len(looks) = Len(line) + Len(H!EndOfHeaders)
        /\ \A i \in 1 .. Len(line) + Len(H!EndOfHeaders) :
              looks[i] = IF i <= Len(line) THEN line[i] ELSE H!EndOfHeaders[i - Len(line)]
    <3>1. line \in Seq(Looks) /\ H!EndOfHeaders \in Seq(Looks)
      BY <1>2, <1>3
    <3> QED
      BY <3>1, CatProperties, Zenon
  <2> HIDE DEF looks
  <2> QED
    BY <1>2, <1>3, <2>1
<1> HIDE DEF looks
<1>6. ASSUME NEW i \in 1 .. x + 4 PROVE H!Byte(k, looks[i]) = ByteOf(plan, k, i)
  <2>1. PICK h \in BOOLEAN : h = (plan[k] = "short")
    OBVIOUS
  <2>2. looks[i] = LookAt(x, h, i)
    <3>1. CASE i <= x
      BY <1>2, <1>5, <3>1 DEF LookAt
    <3>2. CASE i = x + 1
      <4>1. ~(i <= x) /\ i - x = 1
        BY <3>2
      <4> QED
        BY <1>3, <1>5, <3>2, <4>1 DEF LookAt
    <3>3. CASE i = x + 2
      <4>1. ~(i <= x) /\ i - x = 2 /\ i # x + 1 /\ i # x + 3
        BY <3>3
      <4> QED
        BY <1>3, <1>5, <3>3, <4>1 DEF LookAt
    <3>4. CASE i = x + 3
      <4>1. ~(i <= x) /\ i - x = 3
        BY <3>4
      <4> QED
        BY <1>3, <1>5, <3>4, <4>1 DEF LookAt
    <3>5. CASE i = x + 4
      <4>1. ~(i <= x) /\ i - x = 4 /\ i # x + 1 /\ i # x + 3
        BY <3>5
      <4> QED
        BY <1>3, <1>5, <3>5, <4>1 DEF LookAt
    <3>6. i <= x \/ i = x + 1 \/ i = x + 2 \/ i = x + 3 \/ i = x + 4
      OBVIOUS
    <3> QED
      BY <3>1, <3>2, <3>3, <3>4, <3>5, <3>6
  <2> QED
    BY <1>1, <2>1, <2>2, Zenon DEF ByteOf
<1>7. HeaderSize(plan, k) = x + 4
  BY <1>1 DEF HeaderSize
<1>8. H!Header(k) = [i \in 1 .. x + 4 |-> H!Byte(k, looks[i])]
  BY <1>4, <1>5, Zenon DEF H!Bytes
<1> QED
  BY <1>6, <1>7, <1>8

LEMMA BodyBytes ==
    ASSUME H!Http1Assumption, NEW k
    PROVE  H!Body(k) = [j \in 1 .. BodySize(plan, k) |->
                           ByteOf(plan, k, HeaderSize(plan, k) + j)]
<1>1. PICK x \in Nat \ {0} : x = LineSize(plan, k)
  BY Sizes
<1>2. HeaderSize(plan, k) = x + 4
  BY <1>1 DEF HeaderSize
<1>3. PICK h \in BOOLEAN : h = (plan[k] = "short")
  OBVIOUS
<1>4. \A i : ByteOf(plan, k, i) = H!Byte(k, LookAt(x, h, i))
  BY <1>1, <1>3, Zenon DEF ByteOf
<1>5. LookAt(x, h, x + 4 + 1) = (IF h THEN "x" ELSE "LF") /\ LookAt(x, h, x + 4 + 2) = "x"
  <2>1. x + 4 + 1 = x + 5 /\ x + 4 + 2 = x + 6
    OBVIOUS
  <2>2. /\ ~(x + 5 <= x) /\ x + 5 # x + 1 /\ x + 5 # x + 2 /\ x + 5 # x + 3 /\ x + 5 # x + 4
        /\ ~(x + 6 <= x) /\ x + 6 # x + 1 /\ x + 6 # x + 2 /\ x + 6 # x + 3 /\ x + 6 # x + 4
        /\ x + 6 # x + 5
    OBVIOUS
  <2> QED
    BY <2>1, <2>2 DEF LookAt
<1>6. CASE plan[k] \in {"body", "unread", "large"}
  <2>1. H!Body(k) = H!Bytes(k, <<"LF", "x">>)
    BY <1>6, Zenon DEF H!Body
  <2>2. H!Body(k) = [i \in 1 .. 2 |-> H!Byte(k, <<"LF", "x">>[i])]
    BY <2>1 DEF H!Bytes
  <2>3. BodySize(plan, k) = 2 /\ ~h
    BY <1>3, <1>6 DEF BodySize
  <2>4. \A i \in 1 .. 2 : H!Byte(k, <<"LF", "x">>[i]) = ByteOf(plan, k, x + 4 + i)
    <3>1. ByteOf(plan, k, x + 4 + 1) = H!Byte(k, "LF")
           /\ ByteOf(plan, k, x + 4 + 2) = H!Byte(k, "x")
      BY <1>4, <1>5, <2>3
    <3>2. \A i \in 1 .. 2 : i = 1 \/ i = 2
      OBVIOUS
    <3> QED
      BY <3>1, <3>2
  <2> QED
    BY <1>2, <2>2, <2>3, <2>4
<1>7. CASE plan[k] = "short"
  <2>1. H!Body(k) = H!Bytes(k, <<"x">>)
    BY <1>7 DEF H!Body
  <2>2. H!Body(k) = [i \in 1 .. 1 |-> H!Byte(k, <<"x">>[i])]
    BY <2>1 DEF H!Bytes
  <2>3. BodySize(plan, k) = 1 /\ h
    BY <1>3, <1>7 DEF BodySize
  <2>4. \A i \in 1 .. 1 : H!Byte(k, <<"x">>[i]) = ByteOf(plan, k, x + 4 + i)
    <3>1. ByteOf(plan, k, x + 4 + 1) = H!Byte(k, "x")
      BY <1>4, <1>5, <2>3
    <3>2. \A i \in 1 .. 1 : i = 1
      OBVIOUS
    <3> QED
      BY <3>1, <3>2
  <2> QED
    BY <1>2, <2>2, <2>3, <2>4
<1>8. CASE plan[k] \notin {"body", "unread", "large", "short"}
  <2>1. H!Body(k) = <<>>
    BY <1>8 DEF H!Body
  <2>2. BodySize(plan, k) = 0
    BY <1>8 DEF BodySize
  <2> QED
    BY <2>1, <2>2
<1> QED
  BY <1>6, <1>7, <1>8

LEMMA BytesAreBytes ==
    ASSUME NEW p, NEW k \in Nat, NEW j PROVE ByteOf(p, k, j) \in AnyByte
<1>1. LookAt(LineSize(p, k), p[k] = "short", j) \in Looks
  BY Zenon DEF LookAt, Looks
<1> QED
  BY <1>1 DEF ByteOf, H!Byte, AnyByte

LEMMA MessageBytes ==
    ASSUME H!Http1Assumption, NEW k \in Nat
    PROVE  /\ H!Header(k) \in Seq(AnyByte) /\ H!Body(k) \in Seq(AnyByte)
           /\ Cat(H!Header(k), H!Body(k)) \in Seq(AnyByte)
           /\ Len(Cat(H!Header(k), H!Body(k))) = MessageSize(plan, k)
           /\ \A j \in 1 .. MessageSize(plan, k) :
                 Cat(H!Header(k), H!Body(k))[j] = ByteOf(plan, k, j)
<1>1. PICK x \in Nat, b \in Nat : x = HeaderSize(plan, k) /\ b = BodySize(plan, k)
  BY Sizes
<1>2. MessageSize(plan, k) = x + b
  BY <1>1 DEF MessageSize
<1>3. /\ H!Header(k) = [j \in 1 .. x |-> ByteOf(plan, k, j)]
      /\ H!Body(k) = [j \in 1 .. b |-> ByteOf(plan, k, x + j)]
  BY <1>1, HeaderBytes, BodyBytes
<1>4. PICK h, d : h = H!Header(k) /\ d = H!Body(k)
  OBVIOUS
<1>5. h \in Seq(AnyByte) /\ d \in Seq(AnyByte) /\ Len(h) = x /\ Len(d) = b
  BY <1>3, <1>4, BytesAreBytes
<1>6. PICK m : m = Cat(h, d)
  OBVIOUS
<1>7. /\ m \in Seq(AnyByte) /\ Len(m) = Len(h) + Len(d)
      /\ \A i \in 1 .. Len(h) + Len(d) : m[i] = IF i <= Len(h) THEN h[i] ELSE d[i - Len(h)]
  BY <1>5, <1>6, CatProperties, Zenon
<1>8. ASSUME NEW j \in 1 .. x + b PROVE m[j] = ByteOf(plan, k, j)
  <2>1. m[j] = IF j <= x THEN h[j] ELSE d[j - x]
    BY <1>5, <1>7
  <2>2. CASE j <= x
    BY <1>3, <1>4, <2>1, <2>2
  <2>3. CASE ~(j <= x)
    <3>1. j - x \in 1 .. b /\ x + (j - x) = j
      BY <2>3
    <3> QED
      BY <1>3, <1>4, <2>1, <2>3, <3>1
  <2> QED
    BY <2>2, <2>3
<1>9. Len(m) = x + b
  BY <1>5, <1>7
<1> QED
  BY <1>2, <1>4, <1>5, <1>6, <1>7, <1>8, <1>9, Zenon

LEMMA FirstProperties ==
    ASSUME NEW S, NEW s \in Seq(S), NEW n \in Nat
    PROVE  /\ H!First(s, n) \in Seq(S)
           /\ Len(H!First(s, n)) = H!Smaller(n, Len(s)) /\ H!Smaller(n, Len(s)) \in Nat
           /\ H!Smaller(n, Len(s)) <= n /\ H!Smaller(n, Len(s)) <= Len(s)
           /\ \A j \in 1 .. H!Smaller(n, Len(s)) : H!First(s, n)[j] = s[j]
<1>1. PICK l \in Nat : l = Len(s)
  OBVIOUS
<1>2. PICK m \in Nat : m = H!Smaller(n, l) /\ m <= n /\ m <= l
  BY DEF H!Smaller
<1>3. H!First(s, n) = SubSeq(s, 1, m)
  BY <1>1, <1>2 DEF H!First
<1> QED
  BY <1>1, <1>2, <1>3

(* What a handler is given: the body, as far as it is announced and sent.  *)
LEMMA HandedBody ==
    ASSUME H!Http1Assumption, NEW k \in Nat
    PROVE  H!First(H!Body(k), H!ContentLength(k)) = BodyOf(plan, k)
<1>1. PICK x \in Nat, b \in {0, 1, 2} : x = HeaderSize(plan, k) /\ b = BodySize(plan, k)
  BY Sizes
<1>2. PICK d : d = H!Body(k)
  OBVIOUS
<1>3. d \in Seq(AnyByte) /\ Len(d) = b /\ \A j \in 1 .. b : d[j] = ByteOf(plan, k, x + j)
  <2>1. d = [j \in 1 .. b |-> ByteOf(plan, k, x + j)]
    BY <1>1, <1>2, BodyBytes
  <2>2. \A j \in 1 .. b : ByteOf(plan, k, x + j) \in AnyByte
    BY BytesAreBytes
  <2> QED
    BY <2>1, <2>2
<1>4. PICK r \in {0, 1, 2}, c \in {0, 2} : r = ReadSize(plan, k) /\ c = H!ContentLength(k)
  BY DEF ReadSize, H!ContentLength
<1>5. r = H!Smaller(c, b)
  BY <1>1, <1>4 DEF ReadSize, H!ContentLength, BodySize, H!Smaller
<1>6. PICK f : f = H!First(d, c)
  OBVIOUS
<1>7. f \in Seq(AnyByte) /\ Len(f) = r /\ r <= b /\ \A j \in 1 .. r : f[j] = d[j]
  <2>1. H!Smaller(c, Len(d)) = r /\ c \in Nat
    BY <1>3, <1>5
  <2>2. /\ f \in Seq(AnyByte) /\ Len(f) = H!Smaller(c, Len(d)) /\ H!Smaller(c, Len(d)) <= Len(d)
        /\ \A j \in 1 .. H!Smaller(c, Len(d)) : f[j] = d[j]
    BY <1>3, <1>6, <2>1, FirstProperties
  <2> QED
    BY <1>3, <2>1, <2>2
<1>8. f = [j \in 1 .. r |-> ByteOf(plan, k, x + j)]
  BY <1>3, <1>7
<1> QED
  BY <1>1, <1>2, <1>4, <1>6, <1>8, Zenon DEF BodyOf

-----------------------------------------------------------------------------
(* The inductive invariant.                                                *)
Http1Types ==
    /\ plan \in Seq(H!Kinds) /\ sent \in 0 .. Len(plan) /\ h_left \in BOOLEAN
    /\ socket \in Seq(AnyByte) /\ buffer \in Seq(AnyByte) /\ body \in Seq(AnyByte)
    /\ at \in {"headers", "parse", "refuse", "body", "handle", "sent", "closed", "upgraded"}
    /\ current \in Nat
    /\ handled \in Seq([req : Nat, body : Seq(AnyByte)])

(* A client that breaks off its body sends nothing more.                   *)
ShortLast == \A k \in 1 .. sent : plan[k] = "short" => k = sent /\ h_left

Emptied == at \in {"body", "handle", "sent"} => buffer = <<>>

(* What was handled, and what is being read of the current request, has    *)
(* been taken from the stream.                                             *)
Taken(p, n, st, w, cur, b, h) ==
    /\ \A i \in DOMAIN h : h[i].req # 0 => h[i].req \in 1 .. n /\ st[h[i].req] < 0
    /\ w \in {"body", "handle"} /\ cur # 0 =>
          cur \in 1 .. n /\ st[cur] < 0 /\ \A i \in DOMAIN h : h[i].req < cur
    /\ w = "handle" /\ cur # 0 => b = BodyOf(p, cur)
    /\ w = "body" =>
          /\ cur # 0 /\ st[cur] + HeaderSize(p, cur) + Len(b) = 0 /\ Len(b) < Announced(p, cur)
          /\ Len(b) <= BodySize(p, cur)
          /\ \A j \in 1 .. Len(b) : b[j] = ByteOf(p, cur, HeaderSize(p, cur) + j)
InStream ==
    \E st : /\ Laid(plan, sent, st, Cat(buffer, socket))
            /\ Taken(plan, sent, st, at, current, body, handled)

Kept(p, h) ==
    /\ \A i \in DOMAIN h : h[i].req # 0 => h[i].body = BodyOf(p, h[i].req)
    /\ \A i, j \in DOMAIN h : i < j /\ h[i].req # 0 /\ h[j].req # 0 => h[i].req < h[j].req

StreamInv == Http1Types /\ ShortLast /\ Emptied /\ InStream /\ Kept(plan, handled)

LEMMA KeptIsHandled ==
    ASSUME H!Http1Assumption, Http1Types
    PROVE  H!HandledAsSent <=> Kept(plan, handled)
<1>1. \A i \in DOMAIN handled :
          H!First(H!Body(handled[i].req), H!ContentLength(handled[i].req))
             = BodyOf(plan, handled[i].req)
  <2>1. PICK R : R = [req : Nat, body : Seq(AnyByte)]
    OBVIOUS
  <2>2. handled \in Seq(R)
    BY <2>1 DEF Http1Types
  <2>3. \A i \in DOMAIN handled : handled[i] \in R
    BY <2>2
  <2>4. \A i \in DOMAIN handled : handled[i].req \in Nat
    BY <2>1, <2>3
  <2> QED
    BY <2>4, HandedBody, Zenon
<1> QED
  BY <1>1, Zenon DEF H!HandledAsSent, Kept

(* The end of a header section, as the parser sees it.                     *)
LEMMA Marks ==
    ASSUME NEW x \in Nat, NEW h \in BOOLEAN
    PROVE  /\ LookAt(x, h, x + 1 + 0) = "CR" /\ LookAt(x, h, x + 1 + 1) = "LF"
           /\ LookAt(x, h, x + 1 + 2) = "CR" /\ LookAt(x, h, x + 1 + 3) = "LF"
<1>1. x + 1 + 0 = x + 1 /\ x + 1 + 1 = x + 2 /\ x + 1 + 2 = x + 3 /\ x + 1 + 3 = x + 4
  OBVIOUS
<1>2. /\ ~(x + 1 <= x) /\ ~(x + 2 <= x) /\ x + 2 # x + 1 /\ x + 2 # x + 3 /\ ~(x + 3 <= x)
      /\ ~(x + 4 <= x) /\ x + 4 # x + 1 /\ x + 4 # x + 3
  OBVIOUS
<1> QED
  BY <1>1, <1>2 DEF LookAt

(* An end of the headers that are there is the first.                      *)
LEMMA HeaderEnd ==
    ASSUME H!Http1Assumption, Http1Types, NEW k, H!AtRequest(k)
    PROVE  /\ k \in Nat /\ HeaderSize(plan, k) <= Len(buffer)
           /\ \A j \in 1 .. HeaderSize(plan, k) : buffer[j] = ByteOf(plan, k, j)
           /\ H!header_end_pos(buffer, 0) = HeaderSize(plan, k)
<1>1. PICK x \in Nat \ {0} : x = LineSize(plan, k) /\ HeaderSize(plan, k) = x + 4
  BY Sizes DEF HeaderSize
<1>2. PICK g : g = H!Header(k)
  OBVIOUS
<1>3. g = [j \in 1 .. x + 4 |-> ByteOf(plan, k, j)]
  BY <1>1, <1>2, HeaderBytes
<1>4. Len(g) = x + 4
  BY <1>3
<1>5. PICK f : f = H!First(buffer, x + 4)
  OBVIOUS
<1>6. f = g
  BY <1>2, <1>4, <1>5 DEF H!AtRequest
<1>7. PICK l \in Nat : l = Len(buffer)
  BY DEF Http1Types
<1>8. PICK m \in Nat : m = H!Smaller(x + 4, l) /\ m <= l
  BY DEF H!Smaller
<1>9. Len(f) = m /\ \A j \in 1 .. m : f[j] = buffer[j]
  <2>1. buffer \in Seq(AnyByte) /\ x + 4 \in Nat
    BY DEF Http1Types
  <2> QED
    <3>1. PICK n \in Nat : n = x + 4
      BY <2>1
    <3>2. /\ Len(H!First(buffer, n)) = H!Smaller(n, Len(buffer))
          /\ \A j \in 1 .. H!Smaller(n, Len(buffer)) : H!First(buffer, n)[j] = buffer[j]
      BY <2>1, FirstProperties, Zenon
    <3>3. f = H!First(buffer, n) /\ m = H!Smaller(n, Len(buffer))
      BY <1>5, <1>7, <1>8, <3>1, Zenon
    <3> QED
      BY <3>2, <3>3, Zenon
<1>10. m = x + 4 /\ x + 4 <= l
  BY <1>4, <1>6, <1>8, <1>9
<1>11. \A j \in 1 .. x + 4 : buffer[j] = ByteOf(plan, k, j)
  BY <1>3, <1>6, <1>9, <1>10
<1>12. k \in Nat
  <2>1. buffer[1] \in AnyByte /\ buffer[1] = ByteOf(plan, k, 1)
    BY <1>7, <1>10, <1>11 DEF Http1Types
  <2> QED
    BY <2>1 DEF ByteOf, H!Byte, AnyByte
<1>13. PICK h \in BOOLEAN : h = (plan[k] = "short")
  OBVIOUS
<1>14. \A j \in 1 .. x + 4 : buffer[j].look = LookAt(x, h, j)
  <2>1. \A j \in 1 .. x + 4 : buffer[j] = H!Byte(k, LookAt(x, h, j))
    BY <1>1, <1>11, <1>13, Zenon DEF ByteOf
  <2>2. \A v : H!Byte(k, v).look = v
    BY DEF H!Byte
  <2> QED
    BY <2>1, <2>2, Zenon
<1>15. x + 1 \in H!Ends(buffer, 0)
  <2>1. x + 1 \in 0 + 1 .. l - 3
    BY <1>10
  <2>2. /\ LookAt(x, h, x + 1 + 0) = "CR" /\ LookAt(x, h, x + 1 + 1) = "LF"
        /\ LookAt(x, h, x + 1 + 2) = "CR" /\ LookAt(x, h, x + 1 + 3) = "LF"
    BY Marks
  <2>3. /\ buffer[x + 1 + 0].look = "CR" /\ buffer[x + 1 + 1].look = "LF"
        /\ buffer[x + 1 + 2].look = "CR" /\ buffer[x + 1 + 3].look = "LF"
    <3>1. /\ x + 1 + 0 \in 1 .. x + 4 /\ x + 1 + 1 \in 1 .. x + 4
          /\ x + 1 + 2 \in 1 .. x + 4 /\ x + 1 + 3 \in 1 .. x + 4
      OBVIOUS
    <3> QED
      BY <1>14, <2>2, <3>1
  <2>4. \A j \in 0 .. 3 : buffer[x + 1 + j].look = H!EndOfHeaders[j + 1]
    <3>1. \A j \in 0 .. 3 : j = 0 \/ j = 1 \/ j = 2 \/ j = 3
      OBVIOUS
    <3>2. /\ H!EndOfHeaders[0 + 1] = "CR" /\ H!EndOfHeaders[1 + 1] = "LF"
          /\ H!EndOfHeaders[2 + 1] = "CR" /\ H!EndOfHeaders[3 + 1] = "LF"
      BY DEF H!EndOfHeaders
    <3> QED
      BY <2>3, <3>1, <3>2
  <2> QED
    BY <1>7, <2>1, <2>4 DEF H!Ends
<1>16. ASSUME NEW i \in H!Ends(buffer, 0) PROVE x + 1 <= i /\ i \in Nat
  <2>1. i \in 0 + 1 .. l - 3 /\ \A j \in 0 .. 3 : buffer[i + j].look = H!EndOfHeaders[j + 1]
    BY <1>7 DEF H!Ends
  <2>2. buffer[i].look = "CR" /\ i \in Nat /\ i >= 1
    <3>1. 0 \in 0 .. 3 /\ i + 0 = i /\ i \in Nat /\ i >= 1
      BY <2>1
    <3>2. H!EndOfHeaders[0 + 1] = "CR"
      BY DEF H!EndOfHeaders
    <3> QED
      BY <2>1, <3>1, <3>2
  <2>3. SUFFICES ASSUME ~(x + 1 <= i) PROVE FALSE
    BY <2>2
  <2>4. i <= x /\ i \in 1 .. x + 4
    BY <2>2, <2>3
  <2>5. buffer[i].look = "x"
    BY <1>14, <2>4 DEF LookAt
  <2> QED
    BY <2>2, <2>5
<1>17. (CHOOSE i \in H!Ends(buffer, 0) : \A j \in H!Ends(buffer, 0) : i <= j) = x + 1
  <2>1. \E i \in H!Ends(buffer, 0) : \A j \in H!Ends(buffer, 0) : i <= j
    BY <1>15, <1>16
  <2>2. \A i \in H!Ends(buffer, 0) : (\A j \in H!Ends(buffer, 0) : i <= j) => i = x + 1
    <3>1. \A i \in H!Ends(buffer, 0) : (\A j \in H!Ends(buffer, 0) : i <= j) =>
             i <= x + 1 /\ x + 1 <= i /\ i \in Nat
      BY <1>15, <1>16
    <3> QED
      BY <3>1
  <2> QED
    BY <2>1, <2>2
<1>18. H!header_end_pos(buffer, 0) = x + 4
  <2>1. PICK e : e = (CHOOSE i \in H!Ends(buffer, 0) : \A j \in H!Ends(buffer, 0) : i <= j)
    OBVIOUS
  <2>2. H!header_end_pos(buffer, 0) = e + 3
    BY <2>1, Zenon DEF H!header_end_pos
  <2>3. e = x + 1
    BY <1>17, <2>1, Zenon
  <2> QED
    BY <2>2, <2>3
<1> QED
  BY <1>1, <1>7, <1>10, <1>11, <1>12, <1>18

-----------------------------------------------------------------------------
(* The steps.                                                              *)
LEMMA Http1Init ==
    ASSUME H!Http1Assumption, H!Init PROVE StreamInv
<1>1. Http1Types
  <2>1. plan \in Seq(H!Kinds) /\ sent = 0 /\ h_left = FALSE /\ at = "headers" /\ current = 0
    BY DEF H!Init, H!Http1Assumption
  <2>2. socket = <<>> /\ buffer = <<>> /\ body = <<>> /\ handled = <<>>
    BY DEF H!Init
  <2>3. Len(plan) \in Nat
    BY <2>1
  <2>4. sent \in 0 .. Len(plan) /\ current \in Nat
    BY <2>1, <2>3
  <2>5. \A S : <<>> \in Seq(S)
    OBVIOUS
  <2> QED
    BY <2>1, <2>2, <2>4, <2>5, Zenon DEF Http1Types
<1>2. ShortLast /\ Emptied /\ Kept(plan, handled)
  BY DEF H!Init, ShortLast, Emptied, Kept
<1>3. PICK st : st = [k \in 1 .. 1 |-> 0]
  OBVIOUS
<1>4. Cat(buffer, socket) = <<>>
  BY DEF H!Init, Cat
<1>5. Laid(plan, 0, st, <<>>)
  BY <1>3 DEF Laid
<1>6. Taken(plan, 0, st, at, current, body, handled)
  BY DEF H!Init, Taken
<1>7. sent = 0
  BY DEF H!Init
<1> QED
  BY <1>1, <1>2, <1>4, <1>5, <1>6, <1>7 DEF StreamInv, InStream

(* A step that leaves the stream alone, and does not begin to handle.      *)
LEMMA StreamSame ==
    ASSUME StreamInv, plan' = plan, sent' = sent, h_left' = h_left \/ h_left' = TRUE,
           handled' = handled, Cat(buffer, socket)' = Cat(buffer, socket), Emptied',
           \/ at' = at /\ current' = current /\ body' = body
           \/ at' \notin {"body", "handle"},
           Http1Types'
    PROVE  StreamInv'
<1>1. PICK st : /\ Laid(plan, sent, st, Cat(buffer, socket))
                /\ Taken(plan, sent, st, at, current, body, handled)
  BY DEF StreamInv, InStream
<1>2. ShortLast'
  BY DEF StreamInv, ShortLast
<1>3. Laid(plan', sent', st, Cat(buffer, socket)')
  BY <1>1
<1>4. Taken(plan', sent', st, at', current', body', handled')
  BY <1>1 DEF Taken
<1>5. InStream'
  BY <1>3, <1>4, Zenon DEF InStream
<1>6. Kept(plan, handled)'
  BY DEF StreamInv
<1> QED
  BY <1>2, <1>5, <1>6 DEF StreamInv

LEMMA CatAssociative ==
    ASSUME NEW S, NEW x \in Seq(S), NEW y \in Seq(S), NEW z \in Seq(S)
    PROVE  Cat(x, y) \in Seq(S) /\ Cat(Cat(x, y), z) = Cat(x, Cat(y, z))
<1>1. x \o y \in Seq(S)
  BY ConcatProperties
<1>2. (x \o y) \o z = x \o (y \o z)
  BY ConcatAssociative
<1> QED
  BY <1>1, <1>2, Zenon DEF Cat

(* Taking bytes from the socket into the buffer leaves the stream as it    *)
(* is.                                                                     *)
LEMMA Joined ==
    ASSUME NEW S, NEW a \in Seq(S), NEW t \in Seq(S), NEW n \in 0 .. Len(t)
    PROVE  /\ Cat(a, Upto(t, n)) \in Seq(S) /\ After(t, n) \in Seq(S)
           /\ Cat(Cat(a, Upto(t, n)), After(t, n)) = Cat(a, t)
<1>1. PICK l \in Nat : l = Len(t) /\ n \in 0 .. l
  OBVIOUS
<1>2. PICK b, c : b = Upto(t, n) /\ c = After(t, n)
  OBVIOUS
<1>3. /\ b \in Seq(S) /\ Len(b) = n /\ \A i \in 1 .. n : b[i] = t[i]
      /\ c \in Seq(S) /\ Len(c) = l - n /\ \A i \in 1 .. l - n : c[i] = t[n + i]
  <2>1. b \in Seq(S) /\ Len(b) = n /\ \A i \in 1 .. n : b[i] = t[i]
    <3>1. /\ Upto(t, n) \in Seq(S) /\ Len(Upto(t, n)) = n
          /\ \A i \in 1 .. n : Upto(t, n)[i] = t[i]
      BY <1>1, Front, Zenon
    <3> QED
      BY <1>2, <3>1, Zenon
  <2>2. c \in Seq(S) /\ Len(c) = l - n /\ \A i \in 1 .. l - n : c[i] = t[n + i]
    <3>1. /\ After(t, n) \in Seq(S) /\ Len(After(t, n)) = Len(t) - n
          /\ \A i \in 1 .. Len(t) - n : After(t, n)[i] = t[n + i]
      BY <1>1, Back, Zenon
    <3> QED
      BY <1>1, <1>2, <3>1
  <2> QED
    BY <2>1, <2>2
<1>4. Cat(b, c) = t
  <2>1. n <= l /\ n \in Nat
    BY <1>1
  <2>2. PICK z : z = Cat(b, c)
    OBVIOUS
  <2>3. /\ z \in Seq(S) /\ Len(z) = Len(b) + Len(c)
        /\ \A i \in 1 .. Len(b) + Len(c) : z[i] = IF i <= Len(b) THEN b[i] ELSE c[i - Len(b)]
    BY <1>3, <2>2, CatProperties, Zenon
  <2>4. Len(z) = l /\ \A i \in 1 .. l : z[i] = IF i <= n THEN b[i] ELSE c[i - n]
    BY <1>3, <2>1, <2>3
  <2>5. ASSUME NEW i \in 1 .. l PROVE z[i] = t[i]
    <3>1. CASE i <= n
      BY <1>3, <2>4, <3>1
    <3>2. CASE ~(i <= n)
      <4>1. i - n \in 1 .. l - n /\ n + (i - n) = i
        BY <2>1, <3>2
      <4> QED
        BY <1>3, <2>4, <3>2, <4>1
    <3> QED
      BY <3>1, <3>2
  <2>6. z = t
    BY <1>1, <2>3, <2>4, <2>5, SeqEqual
  <2> QED
    BY <2>2, <2>6
<1>5. Cat(a, b) \in Seq(S) /\ Cat(Cat(a, b), c) = Cat(a, Cat(b, c))
  BY <1>3, CatAssociative
<1> QED
  BY <1>2, <1>3, <1>4, <1>5, Zenon

(* Emptying the buffer drops what it holds.                                *)
LEMMA Behind ==
    ASSUME NEW S, NEW a \in Seq(S), NEW t \in Seq(S)
    PROVE  Len(a) \in 0 .. Len(Cat(a, t)) /\ After(Cat(a, t), Len(a)) = t /\ Cat(<<>>, t) = t
<1>1. PICK l \in Nat, m \in Nat : l = Len(a) /\ m = Len(t)
  OBVIOUS
<1>2. PICK z : z = Cat(a, t)
  OBVIOUS
<1>3. /\ z \in Seq(S) /\ Len(z) = Len(a) + Len(t)
      /\ \A i \in 1 .. Len(a) + Len(t) : z[i] = IF i <= Len(a) THEN a[i] ELSE t[i - Len(a)]
  BY <1>2, CatProperties, Zenon
<1>4. Len(z) = l + m /\ \A i \in 1 .. l + m : z[i] = IF i <= l THEN a[i] ELSE t[i - l]
  BY <1>1, <1>3
<1>5. PICK w : w = After(z, l)
  OBVIOUS
<1>6. w \in Seq(S) /\ Len(w) = m /\ \A i \in 1 .. m : w[i] = z[l + i]
  <2>1. l + m = Len(z) /\ l \in 0 .. l + m /\ l + m - l = m
    BY <1>4
  <2>2. /\ w \in Seq(S) /\ Len(w) = l + m - l
        /\ \A i \in 1 .. l + m - l : w[i] = z[l + i]
    <3>1. l \in 0 .. Len(z) /\ z \in Seq(S)
      BY <1>3, <2>1
    <3>2. /\ After(z, l) \in Seq(S) /\ Len(After(z, l)) = Len(z) - l
          /\ \A i \in 1 .. Len(z) - l : After(z, l)[i] = z[l + i]
      BY <3>1, Back, Zenon
    <3> QED
      BY <1>5, <2>1, <3>2
  <2> QED
    BY <2>1, <2>2
<1>7. ASSUME NEW i \in 1 .. m PROVE w[i] = t[i]
  <2>1. l + i \in 1 .. l + m /\ ~(l + i <= l) /\ l + i - l = i
    OBVIOUS
  <2> QED
    BY <1>4, <1>6, <2>1
<1>8. w = t
  BY <1>1, <1>6, <1>7, SeqEqual
<1>9. <<>> \o t = t
  BY ConcatEmptySeq
<1> QED
  BY <1>1, <1>2, <1>4, <1>5, <1>8, <1>9 DEF Cat


(* What is sent is a message, behind what is in the stream.                *)
LEMMA Sending ==
    ASSUME H!Http1Assumption, Http1Types, H!SendRequest,
           NEW m, m = Cat(H!Header(sent + 1), H!Body(sent + 1))
    PROVE  socket' = Cat(socket, m) /\ Cat(buffer, socket)' = Cat(Cat(buffer, socket), m)
<1>1. PICK k \in Nat : k = sent + 1 /\ sent' = k
  BY DEF Http1Types, H!SendRequest
<1>2. PICK h, d : h = H!Header(k) /\ d = H!Body(k)
  OBVIOUS
<1>3. socket' = Cat(Cat(socket, h), d) /\ buffer' = buffer
  <2>1. H!Header(sent') = h /\ H!Body(sent') = d
    BY <1>1, <1>2
  <2>2. socket' = socket \o H!Header(sent') \o H!Body(sent')
    BY Zenon DEF H!SendRequest
  <2>3. buffer' = buffer
    BY DEF H!SendRequest, H!parserVars
  <2> QED
    BY <2>1, <2>2, <2>3, Zenon DEF Cat
<1>4. /\ h \in Seq(AnyByte) /\ d \in Seq(AnyByte) /\ m \in Seq(AnyByte) /\ m = Cat(h, d)
      /\ buffer \in Seq(AnyByte) /\ socket \in Seq(AnyByte)
  <2>1. /\ H!Header(k) \in Seq(AnyByte) /\ H!Body(k) \in Seq(AnyByte)
        /\ Cat(H!Header(k), H!Body(k)) \in Seq(AnyByte)
    BY <1>1, MessageBytes, Zenon
  <2>2. buffer \in Seq(AnyByte) /\ socket \in Seq(AnyByte)
    BY DEF Http1Types
  <2> QED
    BY <1>1, <1>2, <2>1, <2>2, Zenon
<1>5. \A a, b, c \in Seq(AnyByte) : Cat(Cat(a, b), c) = Cat(a, Cat(b, c))
  BY CatAssociative
<1>6. socket' = Cat(socket, m)
  <2>1. /\ h \in Seq(AnyByte) /\ d \in Seq(AnyByte) /\ socket \in Seq(AnyByte)
    BY <1>4
  <2>2. Cat(Cat(socket, h), d) = Cat(socket, Cat(h, d))
    BY <1>5, <2>1, Zenon
  <2>3. m = Cat(h, d)
    BY <1>4
  <2> QED
    BY <1>3, <2>2, <2>3, Zenon
<1>7. Cat(buffer, socket)' = Cat(buffer, Cat(socket, m))
  BY <1>3, <1>6, Zenon
<1> QED
  BY <1>4, <1>5, <1>6, <1>7, Zenon

LEMMA SendRequestInv ==
    ASSUME H!Http1Assumption, StreamInv, H!SendRequest PROVE StreamInv'
<1>1. PICK st : /\ Laid(plan, sent, st, Cat(buffer, socket))
                /\ Taken(plan, sent, st, at, current, body, handled)
  BY DEF StreamInv, InStream
<1>2. PICK n \in Nat : n = sent /\ n < Len(plan) /\ sent' = n + 1
  <2>1. sent \in 0 .. Len(plan) /\ Len(plan) \in Nat /\ sent < Len(plan) /\ sent' = sent + 1
    BY DEF StreamInv, Http1Types, H!SendRequest
  <2> QED
    BY <2>1
<1>3. PICK h, d : h = H!Header(n + 1) /\ d = H!Body(n + 1)
  OBVIOUS
<1>4. /\ plan' = plan /\ at' = at /\ buffer' = buffer /\ body' = body /\ current' = current
      /\ handled' = handled /\ ~h_left /\ h_left' = (plan[n + 1] = "short")
  BY <1>2 DEF H!SendRequest, H!parserVars
<1>5. PICK m : m = Cat(h, d)
  OBVIOUS
<1>6. /\ h \in Seq(AnyByte) /\ d \in Seq(AnyByte) /\ m \in Seq(AnyByte)
      /\ Len(m) = MessageSize(plan, n + 1)
      /\ \A j \in 1 .. MessageSize(plan, n + 1) : m[j] = ByteOf(plan, n + 1, j)
  <2>1. n + 1 \in Nat
    OBVIOUS
  <2> QED
    BY <1>3, <1>5, <2>1, MessageBytes, Zenon
<1>7. buffer \in Seq(AnyByte) /\ socket \in Seq(AnyByte)
  BY DEF StreamInv, Http1Types
<1>8. socket' = Cat(socket, m) /\ Cat(buffer, socket)' = Cat(Cat(buffer, socket), m)
  <2>1. m = Cat(H!Header(sent + 1), H!Body(sent + 1))
    BY <1>2, <1>3, <1>5, Zenon
  <2> QED
    BY <2>1, Sending, Zenon DEF StreamInv
<1>9. PICK s : s = Cat(buffer, socket)
  OBVIOUS
<1>10. PICK u : u = [k \in 1 .. n + 2 |-> IF k <= n + 1 THEN st[k] ELSE Len(s) + Len(m)]
  OBVIOUS
<1>11. Laid(plan, n + 1, u, Cat(s, m))
  <2>1. Laid(plan, n, st, s)
    BY <1>1, <1>2, <1>9, Zenon
  <2>2. \A j \in 1 .. Len(m) : m[j] = ByteOf(plan, n + 1, j)
    BY <1>6, Zenon
  <2> QED
    BY <1>6, <1>10, <2>1, <2>2, LaidSend, Zenon
<1>12. \A k \in 1 .. n : k \in 1 .. n + 1 /\ u[k] = st[k]
  BY <1>10
<1>13. Taken(plan, n + 1, u, at, current, body, handled)
  BY <1>1, <1>2, <1>12, Zenon DEF Taken
<1>14. InStream'
  <2>1. Laid(plan', sent', u, Cat(buffer, socket)')
    BY <1>2, <1>4, <1>8, <1>9, <1>11, Zenon
  <2>2. Taken(plan', sent', u, at', current', body', handled')
    BY <1>2, <1>4, <1>13, Zenon
  <2> QED
    BY <2>1, <2>2, Zenon DEF InStream
<1>15. ShortLast'
  <2>1. \A k \in 1 .. n : plan[k] # "short"
    BY <1>2, <1>4 DEF StreamInv, ShortLast
  <2>2. \A k \in 1 .. n + 1 : k \in 1 .. n \/ k = n + 1
    OBVIOUS
  <2> QED
    BY <1>2, <1>4, <2>1, <2>2 DEF ShortLast
<1>16. Http1Types'
  <2>1. n + 1 \in 0 .. Len(plan)
    BY <1>2 DEF StreamInv, Http1Types
  <2>2. h_left' \in BOOLEAN
    BY <1>4
  <2>3. socket' \in Seq(AnyByte)
    <3>1. Cat(socket, m) \in Seq(AnyByte)
      BY <1>6, <1>7, CatProperties, Zenon
    <3> QED
      BY <1>8, <3>1, Zenon
  <2> QED
    BY <1>2, <1>4, <2>1, <2>2, <2>3, Zenon DEF StreamInv, Http1Types
<1>17. Emptied' /\ Kept(plan, handled)'
  BY <1>4, Zenon DEF StreamInv, Emptied
<1> QED
  BY <1>14, <1>15, <1>16, <1>17, Zenon DEF StreamInv

(* What is read of a header section moves from the socket to the buffer.   *)
LEMMA HeadersRead ==
    ASSUME H!Http1Assumption, Http1Types, H!ReadHeaders
    PROVE  \E n \in 1 .. Len(socket) :
              /\ buffer' = Cat(buffer, Upto(socket, n)) /\ socket' = After(socket, n)
              /\ Len(buffer) + n <= MaxHeaderSize
<1>1. PICK l \in Nat, z \in Nat : l = Len(socket) /\ z = Len(buffer)
  BY DEF Http1Types
<1>2. PICK y : y = H!Smaller(ReadChunkSize, MaxHeaderSize - z)
  OBVIOUS
<1>3. PICK n \in 1 .. H!Smaller(l, y) : /\ buffer' = buffer \o H!First(socket, n)
                                      /\ socket' = H!Rest(socket, n)
  BY <1>1, <1>2, Zenon DEF H!ReadHeaders
<1>4. n \in 1 .. l /\ z + n <= MaxHeaderSize
  <2>1. MaxHeaderSize \in Nat /\ ReadChunkSize \in Nat
    BY DEF H!Http1Assumption
  <2>2. y \in Int /\ y <= MaxHeaderSize - z
    BY <1>2, <2>1 DEF H!Smaller
  <2>3. PICK q \in Int : q = H!Smaller(l, y) /\ q <= l /\ q <= y
    BY <2>2 DEF H!Smaller
  <2>4. n \in 1 .. q
    BY <1>3, <2>3
  <2> QED
    BY <2>1, <2>2, <2>3, <2>4
<1>5. H!First(socket, n) = Upto(socket, n) /\ H!Rest(socket, n) = After(socket, n)
  <2>1. H!Smaller(n, Len(socket)) = n
    BY <1>1, <1>4 DEF H!Smaller
  <2> QED
    BY <2>1, Zenon DEF H!First, H!Rest, Upto, After
<1>6. buffer' = Cat(buffer, Upto(socket, n)) /\ socket' = After(socket, n)
  BY <1>3, <1>5, Zenon DEF Cat
<1> QED
  BY <1>1, <1>4, <1>6

LEMMA ReadHeadersInv ==
    ASSUME H!Http1Assumption, StreamInv, H!ReadHeaders PROVE StreamInv'
<1>1. /\ buffer \in Seq(AnyByte) /\ socket \in Seq(AnyByte)
      /\ plan' = plan /\ sent' = sent /\ h_left' = h_left /\ handled' = handled
      /\ at' \in {"headers", "parse", "refuse"} /\ body' = body /\ current' = current
  BY DEF StreamInv, Http1Types, H!ReadHeaders, H!Refuse
<1>2. PICK n \in 1 .. Len(socket) :
         buffer' = Cat(buffer, Upto(socket, n)) /\ socket' = After(socket, n)
  BY HeadersRead, Zenon DEF StreamInv
<1>3. n \in 0 .. Len(socket)
  BY <1>1, <1>2
<1>4. /\ buffer' \in Seq(AnyByte) /\ socket' \in Seq(AnyByte)
      /\ Cat(buffer, socket)' = Cat(buffer, socket)
  <2>1. /\ Cat(buffer, Upto(socket, n)) \in Seq(AnyByte) /\ After(socket, n) \in Seq(AnyByte)
        /\ Cat(Cat(buffer, Upto(socket, n)), After(socket, n)) = Cat(buffer, socket)
    BY <1>1, <1>3, Joined
  <2> QED
    BY <1>2, <2>1, Zenon
<1>5. Http1Types'
  BY <1>1, <1>4 DEF StreamInv, Http1Types
<1>6. Emptied' /\ at' \notin {"body", "handle"}
  BY <1>1 DEF Emptied
<1> QED
  BY <1>1, <1>4, <1>5, <1>6, StreamSame, Zenon

(* The bytes that follow a header section are the body's, as far as it     *)
(* reaches; a client that breaks it off has sent no others.                *)
LEMMA BodyByte ==
    ASSUME H!Http1Assumption, NEW p, NEW n, NEW st, NEW s, Laid(p, n, st, s), NEW k \in 1 .. n,
           p[k] = "short" => k = n, NEW j \in 1 .. Announced(p, k),
           st[k] + HeaderSize(p, k) + j \in 1 .. Len(s)
    PROVE  j <= BodySize(p, k)
            /\ s[st[k] + HeaderSize(p, k) + j] = ByteOf(p, k, HeaderSize(p, k) + j)
<1>1. PICK x \in Nat, b \in Nat : x = HeaderSize(p, k) /\ b = BodySize(p, k)
  BY Sizes
<1>2. MessageSize(p, k) = x + b
  BY <1>1 DEF MessageSize
<1>3. n \in Nat /\ k \in 1 .. n + 1 /\ st \in [1 .. n + 1 -> Int]
  BY DEF Laid
<1>4. PICK a \in Int, l \in Nat : a = st[k] /\ l = Len(s)
  BY <1>3 DEF Laid
<1>5. a + x + j \in 1 .. l
  BY <1>1, <1>4
<1>6. PICK c \in {0, 2} : c = Announced(p, k)
  BY DEF Announced
<1>7. j \in 1 .. c
  BY <1>6
<1>8. j <= b
  <2>1. CASE p[k] = "short"
    <3>1. st[k + 1] = st[k] + MessageSize(p, k) /\ st[n + 1] = Len(s) /\ b = 1
      BY <1>1, <2>1 DEF Laid, BodySize
    <3>2. k = n
      BY <2>1
    <3>3. l = a + (x + 1)
      BY <1>2, <1>4, <3>1, <3>2
    <3> QED
      BY <1>5, <1>7, <3>1, <3>3
  <2>2. CASE p[k] = "body"
    <3>1. b = 2
      BY <1>1, <2>2 DEF BodySize
    <3> QED
      BY <1>7, <3>1
  <2>3. CASE p[k] \notin {"short", "body"}
    <3>1. c = 0
      BY <1>6, <2>3 DEF Announced
    <3> QED
      BY <1>7, <3>1
  <2> QED
    BY <2>1, <2>2, <2>3
<1>9. x + j \in 1 .. x + b /\ a + (x + j) = a + x + j /\ a + (x + j) >= 1
  BY <1>5, <1>7, <1>8
<1>10. s[a + (x + j)] = ByteOf(p, k, x + j)
  BY <1>2, <1>4, <1>9 DEF Laid
<1> QED
  BY <1>1, <1>4, <1>8, <1>9, <1>10

LEMMA BodyWhole ==
    ASSUME H!Http1Assumption, NEW p, NEW k, NEW b \in Seq(AnyByte), Len(b) = Announced(p, k),
           Len(b) <= BodySize(p, k),
           \A j \in 1 .. Len(b) : b[j] = ByteOf(p, k, HeaderSize(p, k) + j)
    PROVE  b = BodyOf(p, k)
<1>1. PICK r \in {0, 1, 2}, c \in {0, 2}, z \in {0, 1, 2} :
         r = ReadSize(p, k) /\ c = Announced(p, k) /\ z = BodySize(p, k)
  BY DEF ReadSize, Announced, BodySize
<1>2. c <= z
  BY <1>1
<1>3. r = c
  BY <1>1, <1>2 DEF ReadSize, Announced, BodySize
<1>4. Len(b) = r
  BY <1>1, <1>3
<1>5. \A j \in 1 .. r : b[j] = ByteOf(p, k, HeaderSize(p, k) + j)
  BY <1>4
<1>6. b = [j \in 1 .. r |-> ByteOf(p, k, HeaderSize(p, k) + j)]
  BY <1>4, <1>5
<1> QED
  BY <1>1, <1>6, Zenon DEF BodyOf

LEMMA ContentLengthIs == ASSUME NEW k PROVE H!ContentLength(k) = Announced(plan, k)
BY DEF H!ContentLength, Announced

(* A request whose header section is in front has not been handled.        *)
LEMMA NotYetHandled ==
    ASSUME NEW p, NEW n, NEW st, NEW s, Laid(p, n, st, s), NEW k \in 1 .. n, st[k] = 0,
           NEW h, \A i \in DOMAIN h : h[i].req # 0 => h[i].req \in 1 .. n /\ st[h[i].req] < 0
    PROVE  \A i \in DOMAIN h : h[i].req < k
<1> SUFFICES ASSUME NEW i \in DOMAIN h PROVE h[i].req < k
  OBVIOUS
<1>1. PICK r : r = h[i].req
  OBVIOUS
<1>2. n \in Nat /\ k \in 1 .. n + 1 /\ st \in [1 .. n + 1 -> Int]
  BY DEF Laid
<1>3. CASE r = 0
  BY <1>1, <1>3
<1>4. CASE r # 0
  <2>1. r \in 1 .. n /\ r \in 1 .. n + 1 /\ st[r] < 0
    BY <1>1, <1>2, <1>4
  <2>2. ~(k < r)
    <3>1. k < r => st[k] < st[r]
      BY <1>2, <2>1 DEF Laid
    <3>2. st[r] \in Int
      BY <1>2, <2>1
    <3> QED
      BY <2>1, <3>1, <3>2
  <2>3. k # r
    BY <2>1
  <2> QED
    BY <1>1, <2>1, <2>2, <2>3
<1> QED
  BY <1>3, <1>4

LEMMA ParseInv ==
    ASSUME H!Http1Assumption, StreamInv, H!Parse PROVE StreamInv'
<1>1. PICK st : /\ Laid(plan, sent, st, Cat(buffer, socket))
                /\ Taken(plan, sent, st, at, current, body, handled)
  BY DEF StreamInv, InStream
<1>2. PICK n \in Nat : n = sent
  BY DEF StreamInv, Http1Types
<1>3. PICK k : k = buffer[1].req
  OBVIOUS
<1>4. /\ plan' = plan /\ sent' = sent /\ h_left' = h_left /\ socket' = socket
          /\ handled' = handled
      /\ buffer' = <<>> /\ at = "parse"
  BY DEF H!Parse, H!clientVars
<1>5. buffer \in Seq(AnyByte) /\ socket \in Seq(AnyByte) /\ body \in Seq(AnyByte)
       /\ current \in Nat
  BY DEF StreamInv, Http1Types
<1>6. PICK l \in Nat : l = Len(buffer)
  BY <1>5
<1>7. PICK s : s = Cat(buffer, socket)
  OBVIOUS
<1>8. /\ l \in 0 .. Len(s) /\ After(s, l) = socket /\ Cat(<<>>, socket) = socket
  BY <1>5, <1>6, <1>7, Behind, Zenon
<1>9. PICK u : u = [i \in 1 .. n + 1 |-> st[i] - l]
  OBVIOUS
<1>10. Laid(plan, n, st, s)
  BY <1>1, <1>2, <1>6, <1>7, Zenon
<1>11. Laid(plan, n, u, socket)
  BY <1>8, <1>9, <1>10, LaidDrop, Zenon
<1>12. Laid(plan', sent', u, Cat(buffer, socket)')
  BY <1>2, <1>4, <1>8, <1>11, Zenon
<1>13. \A i \in 1 .. n : i \in 1 .. n + 1 /\ st[i] \in Int /\ u[i] = st[i] - l
  BY <1>9, <1>10 DEF Laid
<1>14. \A i \in DOMAIN handled :
          handled[i].req # 0 => handled[i].req \in 1 .. n /\ st[handled[i].req] < 0
  BY <1>1, <1>2, Zenon DEF Taken
<1>15. \A i \in DOMAIN handled :
          handled[i].req # 0 => handled[i].req \in 1 .. n /\ u[handled[i].req] < 0
  <2>1. \A r \in 1 .. n : st[r] < 0 => u[r] < 0
    BY <1>13
  <2> QED
    BY <1>14, <2>1, Zenon
<1>16. ShortLast' /\ Emptied' /\ Kept(plan, handled)'
  BY <1>4 DEF StreamInv, ShortLast, Emptied
<1>17. SUFFICES /\ at' \in {"handle", "refuse", "body"} /\ current' \in Nat
                /\ body' \in Seq(AnyByte)
                /\ Taken(plan, n, u, at', current', body', handled)
  <2>1. InStream'
    BY <1>2, <1>4, <1>12, <1>17, Zenon DEF InStream
  <2>2. <<>> \in Seq(AnyByte)
    OBVIOUS
  <2>3. Http1Types'
    BY <1>4, <1>17, <2>2 DEF StreamInv, Http1Types
  <2> QED
    BY <1>16, <2>1, <2>3, Zenon DEF StreamInv
<1>18. CASE at' = "refuse" /\ current' = current /\ body' = body
  BY <1>5, <1>15, <1>18 DEF Taken
<1>19. CASE at' = "handle" /\ current' = 0 /\ body' = body
  BY <1>5, <1>15, <1>19 DEF Taken
<1>20. CASE H!AtRequest(k) /\ H!TakeBody(k, H!header_end_pos(buffer, 0))
  <2>1. PICK x \in Nat : x = HeaderSize(plan, k) /\ x >= 5
    BY Sizes
  <2>2. /\ k \in Nat /\ x <= l /\ H!header_end_pos(buffer, 0) = x
        /\ \A j \in 1 .. x : buffer[j] = ByteOf(plan, k, j)
    BY <1>6, <1>20, <2>1, HeaderEnd, Zenon DEF StreamInv
  <2>3. PICK z \in Nat : z = Len(s) /\ l <= z
    BY <1>6, <1>7, <1>8, <1>10 DEF Laid
  <2>4. \A i \in 1 .. l : s[i] = buffer[i]
    <3>1. \A i \in 1 .. Len(buffer) + Len(socket) :
             s[i] = IF i <= Len(buffer) THEN buffer[i] ELSE socket[i - Len(buffer)]
      BY <1>5, <1>6, <1>7, CatProperties, Zenon
    <3>2. Len(socket) \in Nat
      BY <1>5
    <3> QED
      BY <1>6, <3>1, <3>2
  <2>5. k \in 1 .. n /\ st[k] = 0
    <3>1. \A j \in 1 .. x : s[j] = ByteOf(plan, k, j)
      BY <2>2, <2>4
    <3>2. x <= z
      BY <2>2, <2>3
    <3> QED
      BY <1>10, <2>1, <2>3, <3>1, <3>2, LaidStart, Zenon
  <2>6. plan[k] = "short" => k = n
    BY <1>2, <2>5 DEF StreamInv, ShortLast
  <2>7. PICK c \in {0, 2} : c = Announced(plan, k) /\ c = H!ContentLength(k)
    BY ContentLengthIs DEF Announced
  <2>8. PICK r : r = H!Rest(buffer, x)
    OBVIOUS
  <2>9. PICK y \in Nat : y = l - x /\ x + y = l
    BY <2>2
  <2>10. r \in Seq(AnyByte) /\ Len(r) = y /\ \A j \in 1 .. y : r[j] = buffer[x + j]
    <3>1. r = After(buffer, x)
      BY <2>8, Zenon DEF H!Rest, After
    <3>2. x \in 0 .. l /\ l - x = y
      BY <2>2, <2>9
    <3>3. /\ r \in Seq(AnyByte) /\ Len(r) = l - x
          /\ \A j \in 1 .. l - x : r[j] = buffer[x + j]
      <4>1. /\ After(buffer, x) \in Seq(AnyByte) /\ Len(After(buffer, x)) = Len(buffer) - x
            /\ \A i \in 1 .. Len(buffer) - x : After(buffer, x)[i] = buffer[x + i]
        BY <1>5, <1>6, <3>2, Back, Zenon
      <4> QED
        BY <1>6, <3>1, <4>1
    <3> QED
      BY <3>2, <3>3
  <2>11. PICK m \in Nat : m = H!Smaller(c, y) /\ m <= c /\ m <= y
    BY DEF H!Smaller
  <2>12. current' = k /\ body' = H!First(r, c)
          /\ at' = IF Len(body') < c THEN "body" ELSE "handle"
    BY <1>20, <2>2, <2>7, <2>8, Zenon DEF H!TakeBody
  <2>13. body' \in Seq(AnyByte) /\ Len(body') = m /\ \A j \in 1 .. m : body'[j] = r[j]
    <3>1. c \in Nat
      OBVIOUS
    <3>2. /\ H!First(r, c) \in Seq(AnyByte) /\ Len(H!First(r, c)) = H!Smaller(c, Len(r))
          /\ \A j \in 1 .. H!Smaller(c, Len(r)) : H!First(r, c)[j] = r[j]
      BY <2>10, <3>1, FirstProperties, Zenon
    <3>3. H!Smaller(c, Len(r)) = m
      BY <2>10, <2>11, Zenon
    <3> QED
      BY <2>12, <3>2, <3>3, Zenon
  <2>14. ASSUME NEW j \in 1 .. m
         PROVE  j <= BodySize(plan, k) /\ body'[j] = ByteOf(plan, k, x + j)
    <3>1. j \in 1 .. c /\ j \in 1 .. y /\ x + j \in 1 .. l /\ x + j \in 1 .. z
           /\ 0 + x + j = x + j
      BY <2>2, <2>3, <2>11, <2>9
    <3>2. st[k] + HeaderSize(plan, k) + j = x + j
      BY <2>1, <2>5, <3>1
    <3>3. j \in 1 .. Announced(plan, k) /\ st[k] + HeaderSize(plan, k) + j \in 1 .. Len(s)
      BY <2>3, <2>7, <3>1, <3>2
    <3>4. /\ j <= BodySize(plan, k)
          /\ s[st[k] + HeaderSize(plan, k) + j] = ByteOf(plan, k, HeaderSize(plan, k) + j)
      BY <1>10, <2>5, <2>6, <3>3, BodyByte
    <3>5. s[x + j] = ByteOf(plan, k, x + j)
      BY <2>1, <3>2, <3>4
    <3> QED
      BY <2>4, <2>10, <2>13, <3>1, <3>4, <3>5
  <2>15. m <= BodySize(plan, k)
    <3>1. PICK b \in Nat : b = BodySize(plan, k)
      BY Sizes
    <3>2. CASE m = 0
      BY <3>1, <3>2
    <3>3. CASE m # 0
      <4>1. m \in 1 .. m
        BY <3>3
      <4> QED
        BY <2>14, <4>1
    <3> QED
      BY <3>2, <3>3
  <2>16. u[k] = 0 - l /\ u[k] < 0
    <3>1. u[k] = 0 - l
      BY <1>13, <2>5
    <3> QED
      BY <2>1, <2>2, <3>1
  <2>17. \A i \in DOMAIN handled : handled[i].req < k
    BY <1>10, <1>14, <2>5, NotYetHandled
  <2>18. k # 0 /\ k \in Nat
    BY <2>5
  <2>19. CASE m < c
    <3>1. at' = "body"
      BY <2>12, <2>13, <2>19, Zenon
    <3>2. m = y
      BY <2>11, <2>19 DEF H!Smaller
    <3>3. u[k] + x + m = 0
      BY <2>16, <2>9, <3>2
    <3>4. Taken(plan, n, u, "body", k, body', handled)
      BY <1>15, <2>1, <2>5, <2>7, <2>13, <2>14, <2>15, <2>16, <2>17, <2>18, <2>19, <3>3
           DEF Taken
    <3> QED
      BY <2>12, <2>13, <2>18, <3>1, <3>4
  <2>20. CASE ~(m < c)
    <3>1. at' = "handle"
      BY <2>12, <2>13, <2>20, Zenon
    <3>2. m = c
      BY <2>11, <2>20
    <3>3. body' = BodyOf(plan, k)
      BY <2>1, <2>7, <2>13, <2>14, <2>15, <3>2, BodyWhole
    <3>4. Taken(plan, n, u, "handle", k, body', handled)
      BY <1>15, <2>5, <2>16, <2>17, <3>3 DEF Taken
    <3> QED
      BY <2>12, <2>13, <2>18, <3>1, <3>4
  <2> QED
    BY <2>19, <2>20
<1>21. /\ IF ~H!AtRequest(k) THEN H!Misparse /\ UNCHANGED body
          ELSE IF plan[k] \in {"malformed", "large"}
               THEN H!Refuse /\ UNCHANGED <<current, body>>
          ELSE H!TakeBody(k, H!header_end_pos(buffer, 0))
  BY <1>3, Zenon DEF H!Parse
<1>22. \/ at' = "refuse" /\ current' = current /\ body' = body
       \/ at' = "handle" /\ current' = 0 /\ body' = body
       \/ H!AtRequest(k) /\ H!TakeBody(k, H!header_end_pos(buffer, 0))
  BY <1>21 DEF H!Misparse, H!Refuse
<1> QED
  BY <1>18, <1>19, <1>20, <1>22, Zenon


LEMMA ReadBodyInv ==
    ASSUME H!Http1Assumption, StreamInv, H!ReadBody PROVE StreamInv'
<1>1. PICK st : /\ Laid(plan, sent, st, Cat(buffer, socket))
                /\ Taken(plan, sent, st, at, current, body, handled)
  BY DEF StreamInv, InStream
<1>2. PICK n \in Nat : n = sent
  BY DEF StreamInv, Http1Types
<1>3. PICK k : k = current
  OBVIOUS
<1>4. /\ plan' = plan /\ sent' = sent /\ h_left' = h_left /\ buffer' = buffer
          /\ handled' = handled
      /\ current' = current /\ at = "body" /\ buffer = <<>>
  BY DEF H!ReadBody, StreamInv, Emptied
<1>5. socket \in Seq(AnyByte) /\ body \in Seq(AnyByte) /\ current \in Nat
  BY DEF StreamInv, Http1Types
<1>6. Cat(buffer, socket) = socket
  BY <1>4, <1>5, Behind, Zenon
<1>7. Laid(plan, n, st, socket)
  BY <1>1, <1>2, <1>6, Zenon
<1>8. PICK x \in Nat, b \in Nat, c \in {0, 2} :
         x = HeaderSize(plan, k) /\ b = BodySize(plan, k) /\ c = Announced(plan, k)
  BY Sizes DEF Announced
<1>9. PICK z \in Nat, v \in Nat : z = Len(body) /\ v = Len(socket)
  BY <1>5
<1>10. /\ k # 0 /\ k \in 1 .. n /\ st[k] < 0 /\ st[k] + x + z = 0 /\ z < c /\ z <= b
       /\ \A i \in DOMAIN handled : handled[i].req < k
       /\ \A j \in 1 .. z : body[j] = ByteOf(plan, k, x + j)
  BY <1>1, <1>2, <1>3, <1>4, <1>8, <1>9 DEF Taken
<1>11. PICK q \in 1 .. H!Smaller(v, c - z) :
          body' = body \o H!First(socket, q) /\ socket' = H!Rest(socket, q)
  BY <1>3, <1>8, <1>9, ContentLengthIs, Zenon DEF H!ReadBody
<1>12. q \in Nat /\ q >= 1 /\ q <= v /\ z + q <= c
  <2>1. c - z \in Nat
    BY <1>10
  <2>2. PICK m \in Nat : m = H!Smaller(v, c - z) /\ m <= v /\ m <= c - z
    BY <2>1 DEF H!Smaller
  <2>3. q \in 1 .. m
    BY <1>11, <2>2
  <2> QED
    BY <2>2, <2>3
<1>13. q \in 0 .. Len(socket)
  BY <1>9, <1>12
<1>14. H!First(socket, q) = Upto(socket, q) /\ socket' = After(socket, q)
  <2>1. H!Smaller(q, Len(socket)) = q
    BY <1>9, <1>12 DEF H!Smaller
  <2> QED
    BY <1>11, <2>1, Zenon DEF H!First, H!Rest, Upto, After
<1>15. socket' \in Seq(AnyByte)
  BY <1>5, <1>13, <1>14, Joined, Zenon
<1>16. PICK w : w = Upto(socket, q)
  OBVIOUS
<1>17. w \in Seq(AnyByte) /\ Len(w) = q /\ \A j \in 1 .. q : w[j] = socket[j]
  <2>1. /\ Upto(socket, q) \in Seq(AnyByte) /\ Len(Upto(socket, q)) = q
        /\ \A i \in 1 .. q : Upto(socket, q)[i] = socket[i]
    BY <1>5, <1>13, Front, Zenon
  <2> QED
    BY <1>16, <2>1, Zenon
<1>18. body' = Cat(body, w)
  BY <1>11, <1>14, <1>16, Zenon DEF Cat
<1>19. body' \in Seq(AnyByte) /\ Len(body') = z + q
       /\ \A j \in 1 .. z + q : body'[j] = IF j <= z THEN body[j] ELSE w[j - z]
  <2>1. /\ body' \in Seq(AnyByte) /\ Len(body') = Len(body) + Len(w)
        /\ \A j \in 1 .. Len(body) + Len(w) :
              body'[j] = IF j <= Len(body) THEN body[j] ELSE w[j - Len(body)]
    BY <1>5, <1>17, <1>18, CatProperties, Zenon
  <2> QED
    BY <1>9, <1>17, <2>1
<1>20. plan[k] = "short" => k = n
  BY <1>2, <1>10 DEF StreamInv, ShortLast
<1>21. ASSUME NEW j \in 1 .. q
       PROVE  z + j <= b /\ socket[j] = ByteOf(plan, k, x + (z + j))
  <2>1. k \in 1 .. n + 1 /\ st \in [1 .. n + 1 -> Int]
    BY <1>7, <1>10 DEF Laid
  <2>2. PICK a \in Int : a = st[k]
    BY <2>1
  <2>3. a + x + z = 0
    BY <1>10, <2>2
  <2>4. z + j \in 1 .. c /\ a + x + (z + j) = j /\ j \in 1 .. v
    BY <1>12, <2>3
  <2>5. z + j \in 1 .. Announced(plan, k)
         /\ st[k] + HeaderSize(plan, k) + (z + j) \in 1 .. Len(socket)
    BY <1>8, <1>9, <2>2, <2>4
  <2>6. /\ z + j <= BodySize(plan, k)
        /\ socket[st[k] + HeaderSize(plan, k) + (z + j)]
              = ByteOf(plan, k, HeaderSize(plan, k) + (z + j))
    <3>1. k \in 1 .. n
      BY <1>10
    <3> QED
      BY <1>7, <1>20, <2>5, <3>1, BodyByte
  <2> QED
    BY <1>8, <2>2, <2>4, <2>6
<1>22. z + q <= b /\ \A j \in 1 .. z + q : body'[j] = ByteOf(plan, k, x + j)
  <2>1. q \in 1 .. q
    BY <1>12
  <2>2. z + q <= b
    BY <1>21, <2>1
  <2>3. ASSUME NEW j \in 1 .. z + q PROVE body'[j] = ByteOf(plan, k, x + j)
    <3>1. CASE j <= z
      BY <1>10, <1>19, <3>1
    <3>2. CASE ~(j <= z)
      <4>1. j - z \in 1 .. q /\ z + (j - z) = j
        BY <3>2
      <4>2. w[j - z] = ByteOf(plan, k, x + j)
        BY <1>17, <1>21, <4>1
      <4> QED
        BY <1>19, <3>2, <4>2
    <3> QED
      BY <3>1, <3>2
  <2> QED
    BY <2>2, <2>3
<1>23. PICK u : u = [i \in 1 .. n + 1 |-> st[i] - q]
  OBVIOUS
<1>24. Laid(plan, n, u, socket')
  BY <1>7, <1>13, <1>14, <1>23, LaidDrop, Zenon
<1>25. Laid(plan', sent', u, Cat(buffer, socket)')
  <2>1. Cat(buffer, socket)' = socket'
    BY <1>4, <1>15, Behind, Zenon
  <2> QED
    BY <1>2, <1>4, <1>24, <2>1, Zenon
<1>26. \A i \in 1 .. n : i \in 1 .. n + 1 /\ st[i] \in Int /\ u[i] = st[i] - q
  BY <1>7, <1>23 DEF Laid
<1>27. \A i \in DOMAIN handled :
          handled[i].req # 0 => handled[i].req \in 1 .. n /\ u[handled[i].req] < 0
  <2>1. \A i \in DOMAIN handled :
           handled[i].req # 0 => handled[i].req \in 1 .. n /\ st[handled[i].req] < 0
    BY <1>1, <1>2, Zenon DEF Taken
  <2>2. \A r \in 1 .. n : st[r] < 0 => u[r] < 0
    BY <1>12, <1>26
  <2> QED
    BY <2>1, <2>2, Zenon
<1>28. u[k] < 0 /\ u[k] + x + (z + q) = 0
  BY <1>10, <1>12, <1>26
<1>29. at' = IF z + q < c THEN "body" ELSE "handle"
  BY <1>3, <1>8, <1>19, ContentLengthIs, Zenon DEF H!ReadBody
<1>30. at' \in {"body", "handle"} /\ Taken(plan, n, u, at', k, body', handled)
  <2>1. CASE z + q < c
    BY <1>8, <1>10, <1>19, <1>22, <1>27, <1>28, <1>29, <2>1 DEF Taken
  <2>2. CASE ~(z + q < c)
    <3>1. z + q = c
      BY <1>12, <2>2
    <3>2. body' = BodyOf(plan, k)
      BY <1>8, <1>19, <1>22, <3>1, BodyWhole
    <3> QED
      BY <1>10, <1>27, <1>28, <1>29, <2>2, <3>2 DEF Taken
  <2> QED
    BY <2>1, <2>2
<1>31. InStream'
  <2>1. Taken(plan', sent', u, at', current', body', handled')
    BY <1>2, <1>3, <1>4, <1>30, Zenon
  <2> QED
    BY <1>25, <2>1, Zenon DEF InStream
<1>32. Http1Types'
  BY <1>4, <1>15, <1>19, <1>30 DEF StreamInv, Http1Types
<1>33. ShortLast' /\ Emptied' /\ Kept(plan, handled)'
  BY <1>4 DEF StreamInv, ShortLast, Emptied
<1> QED
  BY <1>31, <1>32, <1>33, Zenon DEF StreamInv

LEMMA HandleInv ==
    ASSUME H!Http1Assumption, StreamInv, H!Handle PROVE StreamInv'
<1>1. PICK st : /\ Laid(plan, sent, st, Cat(buffer, socket))
                /\ Taken(plan, sent, st, at, current, body, handled)
  BY DEF StreamInv, InStream
<1>2. PICK R : R = [req : Nat, body : Seq(AnyByte)]
  OBVIOUS
<1>3. PICK d : d = [req |-> current, body |-> body]
  OBVIOUS
<1>4. /\ plan' = plan /\ sent' = sent /\ h_left' = h_left /\ socket' = socket
          /\ buffer' = buffer
      /\ body' = body /\ current' = current /\ at = "handle" /\ at' = "sent"
      /\ handled' = Append(handled, d)
  BY <1>3 DEF H!Handle, H!clientVars, H!parserVars
<1>5. d \in R /\ d.req = current /\ d.body = body
  BY <1>2, <1>3 DEF StreamInv, Http1Types
<1>6. handled \in Seq(R)
  BY <1>2 DEF StreamInv, Http1Types
<1>7. PICK l \in Nat : l = Len(handled)
  BY <1>6
<1>8. /\ handled' \in Seq(R) /\ DOMAIN handled' = 1 .. l + 1 /\ DOMAIN handled = 1 .. l
      /\ handled'[l + 1] = d /\ \A i \in 1 .. l : handled'[i] = handled[i]
  BY <1>4, <1>5, <1>6, <1>7
<1>9. \A i \in 1 .. l + 1 : i \in 1 .. l \/ i = l + 1
  OBVIOUS
<1>10. current # 0 =>
          /\ current \in 1 .. sent /\ st[current] < 0 /\ body = BodyOf(plan, current)
          /\ \A i \in 1 .. l : handled[i].req < current
  BY <1>1, <1>4, <1>8, Zenon DEF Taken
<1>11. Taken(plan, sent, st, "sent", current, body, handled')
  <2>1. \A i \in 1 .. l : handled[i].req # 0 =>
           handled[i].req \in 1 .. sent /\ st[handled[i].req] < 0
    BY <1>1, <1>8, Zenon DEF Taken
  <2>2. \A i \in 1 .. l + 1 : handled'[i].req # 0 =>
           handled'[i].req \in 1 .. sent /\ st[handled'[i].req] < 0
    BY <1>5, <1>8, <1>9, <1>10, <2>1, Zenon
  <2> QED
    BY <1>8, <2>2 DEF Taken
<1>12. InStream'
  <2>1. Laid(plan', sent', st, Cat(buffer, socket)')
    BY <1>1, <1>4, Zenon
  <2>2. Taken(plan', sent', st, at', current', body', handled')
    BY <1>4, <1>11, Zenon
  <2> QED
    BY <2>1, <2>2, Zenon DEF InStream
<1>13. Kept(plan, handled')
  <2>1. /\ \A i \in 1 .. l :
              handled[i].req # 0 => handled[i].body = BodyOf(plan, handled[i].req)
        /\ \A i, j \in 1 .. l :
              i < j /\ handled[i].req # 0 /\ handled[j].req # 0
                 => handled[i].req < handled[j].req
    BY <1>8, Zenon DEF StreamInv, Kept
  <2>2. \A i \in 1 .. l + 1 :
           handled'[i].req # 0 => handled'[i].body = BodyOf(plan, handled'[i].req)
    BY <1>5, <1>8, <1>9, <1>10, <2>1, Zenon
  <2>3. ASSUME NEW i \in 1 .. l + 1, NEW j \in 1 .. l + 1, i < j,
               handled'[i].req # 0, handled'[j].req # 0
        PROVE  handled'[i].req < handled'[j].req
    <3>1. i \in 1 .. l
      BY <2>3
    <3>2. CASE j \in 1 .. l
      BY <1>8, <2>1, <2>3, <3>1, <3>2, Zenon
    <3>3. CASE j = l + 1
      BY <1>5, <1>8, <1>10, <2>3, <3>1, <3>3, Zenon
    <3> QED
      BY <1>9, <3>2, <3>3, Zenon
  <2> QED
    BY <1>8, <2>2, <2>3, Zenon DEF Kept
<1>14. Http1Types'
  BY <1>2, <1>4, <1>8 DEF StreamInv, Http1Types
<1>15. ShortLast' /\ Emptied'
  BY <1>4 DEF StreamInv, ShortLast, Emptied
<1> QED
  BY <1>4, <1>12, <1>13, <1>14, <1>15, Zenon DEF StreamInv

LEMMA OtherInv ==
    ASSUME StreamInv,
           \/ H!Leave \/ H!ReadFails \/ H!SendError \/ H!Upgrade \/ H!WriteFails \/ H!NextRequest
           \/ UNCHANGED H!vars
    PROVE  StreamInv'
<1>1. <<>> \in Seq(AnyByte)
  OBVIOUS
<1>2. /\ plan' = plan /\ sent' = sent /\ socket' = socket /\ handled' = handled
      /\ h_left' = h_left \/ h_left' = TRUE
  BY DEF H!Leave, H!ReadFails, H!SendError, H!Upgrade, H!WriteFails, H!NextRequest, H!vars,
         H!clientVars, H!parserVars
<1>3. \/ at' = at /\ current' = current /\ body' = body
      \/ at' \in {"closed", "upgraded", "headers"}
  BY DEF H!Leave, H!ReadFails, H!SendError, H!Upgrade, H!WriteFails, H!NextRequest, H!vars,
         H!clientVars, H!parserVars
<1>4. buffer' = buffer
  BY DEF H!Leave, H!ReadFails, H!SendError, H!Upgrade, H!WriteFails, H!NextRequest, H!vars,
         H!clientVars, H!parserVars, StreamInv, Emptied
<1>5. Emptied'
  BY <1>3, <1>4 DEF StreamInv, Emptied
<1>6. (body' = body \/ body' = <<>>) /\ (current' = current \/ current' = 0)
  BY DEF H!Leave, H!ReadFails, H!SendError, H!Upgrade, H!WriteFails, H!NextRequest, H!vars,
         H!clientVars, H!parserVars
<1>7. body' \in Seq(AnyByte) /\ current' \in Nat
  <2>1. body \in Seq(AnyByte) /\ current \in Nat
    BY DEF StreamInv, Http1Types
  <2>2. body' \in Seq(AnyByte)
    BY <1>1, <1>6, <2>1, Zenon
  <2>3. 0 \in Nat
    OBVIOUS
  <2>4. current' \in Nat
    BY <1>6, <2>1, <2>3, Zenon
  <2> QED
    BY <2>2, <2>4
<1>8. h_left' \in BOOLEAN
  BY <1>2, Zenon DEF StreamInv, Http1Types
<1>9. Http1Types'
  BY <1>2, <1>3, <1>4, <1>7, <1>8 DEF StreamInv, Http1Types
<1>10. Cat(buffer, socket)' = Cat(buffer, socket)
  BY <1>2, <1>4, Zenon
<1>11. at' \in {"closed", "upgraded", "headers"} => at' \notin {"body", "handle"}
  OBVIOUS
<1> QED
  BY <1>2, <1>3, <1>5, <1>9, <1>10, <1>11, StreamSame, Zenon

-----------------------------------------------------------------------------
(* A client that waits.                                                    *)

(* All of the request that was sent last is in the stream, or none is.     *)
Whole == Cat(buffer, socket) = Cat(H!Header(sent), H!Body(sent))

AnyReply == [req : Nat, status : Nat, keep_alive : BOOLEAN, max : Int]
AnswerTypes ==
    /\ replies \in Seq(AnyReply)
    /\ request_count \in Nat /\ keep_alive \in BOOLEAN

Turn(owed) ==
    /\ sent = Len(replies) + owed
    /\ H!Told => owed = 0
    /\ at \in {"headers", "sent"} => IF owed = 0 THEN Cat(buffer, socket) = <<>> ELSE Whole
    /\ at = "parse" => owed = 1 /\ Whole /\ H!Ends(buffer, 0) # {}
    /\ at = "refuse" => owed = 1
    /\ at \in {"body", "handle"} => owed = 1 /\ current = sent
InTurn ==
    /\ H!InStep
    /\ \E owed \in {0, 1} : Turn(owed)
    /\ at = "headers" => H!Ends(buffer, 0) = {} /\ Len(buffer) < MaxHeaderSize
    /\ at = "handle" => socket = <<>>
    /\ at = "sent" => /\ ~keep_alive => H!Told
                      /\ request_count >= MaxRequestsPerConnection => ~keep_alive
    /\ at = "closed" => H!Told \/ h_left

AnswerInv == StreamInv /\ AnswerTypes /\ (H!Waits => InTurn)

LEMMA TurnSame ==
    ASSUME NEW owed \in {0, 1}, Turn(owed), plan' = plan, sent' = sent, replies' = replies,
           \/ at' = at /\ current' = current /\ Cat(buffer, socket)' = Cat(buffer, socket)
              /\ (at = "parse" => buffer' = buffer)
           \/ at' \in {"closed", "upgraded"}
    PROVE  Turn(owed)'
<1>1. H!Told' <=> H!Told
  BY DEF H!Told
<1>2. \A k : H!Header(k)' = H!Header(k) /\ H!Body(k)' = H!Body(k)
  BY DEF H!Header, H!Body
<1>3. ASSUME at' = at, current' = current, Cat(buffer, socket)' = Cat(buffer, socket),
             at = "parse" => buffer' = buffer
      PROVE  Turn(owed)'
  <2>1. Whole' <=> Whole
    BY <1>2, <1>3, Zenon DEF Whole
  <2> QED
    BY <1>1, <1>3, <2>1, Zenon DEF Turn
<1>4. ASSUME at' \in {"closed", "upgraded"} PROVE Turn(owed)'
  BY <1>1, <1>4 DEF Turn
<1> QED
  BY <1>3, <1>4, Zenon

(* The end of the headers is found however they are cut: what was searched *)
(* before and what is searched now cover what has been read.               *)
LEMMA Searched ==
    ASSUME NEW S, NEW b \in Seq(S), NEW t \in Seq(S), H!Ends(b, 0) = {}
    PROVE  H!Ends(Cat(b, t), 0) = H!Ends(Cat(b, t), H!SearchStart(Len(b)))
<1>1. PICK c : c = Cat(b, t)
  OBVIOUS
<1>2. PICK l \in Nat, m \in Nat : l = Len(b) /\ m = Len(t)
  OBVIOUS
<1>3. c \in Seq(S) /\ Len(c) = l + m /\ \A i \in 1 .. l : c[i] = b[i]
  <2>1. /\ c \in Seq(S) /\ Len(c) = Len(b) + Len(t)
        /\ \A i \in 1 .. Len(b) + Len(t) : c[i] = IF i <= Len(b) THEN b[i] ELSE t[i - Len(b)]
    BY <1>1, CatProperties, Zenon
  <2> QED
    BY <1>2, <2>1
<1>4. PICK e \in Nat : e = H!SearchStart(l) /\ e <= l /\ (e = 0 \/ e + 3 = l)
  BY DEF H!SearchStart
<1>5. ASSUME NEW i \in H!Ends(c, 0) PROVE i \in H!Ends(c, e)
  <2>1. /\ i \in 0 + 1 .. l + m - 3
        /\ \A j \in 0 .. 3 : c[i + j].look = H!EndOfHeaders[j + 1]
    <3>1. /\ i \in 0 + 1 .. Len(c) - 3
          /\ \A j \in 0 .. 3 : c[i + j].look = H!EndOfHeaders[j + 1]
      BY DEF H!Ends
    <3> QED
      BY <1>3, <3>1
  <2>2. CASE i + 3 <= l /\ e # 0
    <3>1. i \in 0 + 1 .. l - 3 /\ \A j \in 0 .. 3 : i + j \in 1 .. l
      BY <2>1, <2>2
    <3>2. \A j \in 0 .. 3 : b[i + j].look = H!EndOfHeaders[j + 1]
      BY <1>3, <2>1, <3>1
    <3>3. i \in H!Ends(b, 0)
      BY <1>2, <3>1, <3>2 DEF H!Ends
    <3> QED
      BY <3>3
  <2>3. CASE ~(i + 3 <= l) \/ e = 0
    <3>1. i \in e + 1 .. l + m - 3
      BY <1>4, <2>1, <2>3
    <3> QED
      BY <1>3, <2>1, <3>1 DEF H!Ends
  <2> QED
    BY <2>2, <2>3
<1>6. ASSUME NEW i \in H!Ends(c, e) PROVE i \in H!Ends(c, 0)
  <2>1. /\ i \in e + 1 .. l + m - 3
        /\ \A j \in 0 .. 3 : c[i + j].look = H!EndOfHeaders[j + 1]
    BY <1>3 DEF H!Ends
  <2>2. i \in 0 + 1 .. l + m - 3
    BY <1>4, <2>1
  <2> QED
    BY <1>3, <2>1, <2>2 DEF H!Ends
<1>7. H!Ends(c, 0) = H!Ends(c, e)
  BY <1>5, <1>6
<1> QED
  BY <1>1, <1>2, <1>4, <1>7, Zenon

(* An end of headers in a message is the end of its own.                   *)
LEMMA EndsOfMessage ==
    ASSUME H!Http1Assumption, NEW p, NEW k, NEW l \in Nat, l <= MessageSize(p, k),
           NEW b \in Seq(AnyByte),
           Len(b) = l, \A j \in 1 .. l : b[j] = ByteOf(p, k, j)
    PROVE  H!Ends(b, 0) # {} <=> HeaderSize(p, k) <= l
<1>1. PICK x \in Nat \ {0} : x = LineSize(p, k) /\ HeaderSize(p, k) = x + 4
  BY Sizes DEF HeaderSize
<1>2. PICK h \in BOOLEAN : h = (p[k] = "short")
  OBVIOUS
<1>3. \A j \in 1 .. l : b[j].look = LookAt(x, h, j)
  <2>1. \A j \in 1 .. l : b[j] = H!Byte(k, LookAt(x, h, j))
    BY <1>1, <1>2, Zenon DEF ByteOf
  <2>2. \A v : H!Byte(k, v).look = v
    BY DEF H!Byte
  <2> QED
    BY <2>1, <2>2, Zenon
<1>4. /\ H!EndOfHeaders[0 + 1] = "CR" /\ H!EndOfHeaders[1 + 1] = "LF"
      /\ H!EndOfHeaders[2 + 1] = "CR" /\ H!EndOfHeaders[3 + 1] = "LF"
  BY DEF H!EndOfHeaders
<1>5. ASSUME x + 4 <= l PROVE H!Ends(b, 0) # {}
  <2>1. x + 1 \in 0 + 1 .. l - 3
    BY <1>5
  <2>2. /\ LookAt(x, h, x + 1 + 0) = "CR" /\ LookAt(x, h, x + 1 + 1) = "LF"
        /\ LookAt(x, h, x + 1 + 2) = "CR" /\ LookAt(x, h, x + 1 + 3) = "LF"
    BY Marks
  <2>3. /\ x + 1 + 0 \in 1 .. l /\ x + 1 + 1 \in 1 .. l
        /\ x + 1 + 2 \in 1 .. l /\ x + 1 + 3 \in 1 .. l
    BY <1>5
  <2>4. /\ b[x + 1 + 0].look = "CR" /\ b[x + 1 + 1].look = "LF"
        /\ b[x + 1 + 2].look = "CR" /\ b[x + 1 + 3].look = "LF"
    BY <1>3, <2>2, <2>3
  <2>5. \A j \in 0 .. 3 : b[x + 1 + j].look = H!EndOfHeaders[j + 1]
    <3>1. \A j \in 0 .. 3 : j = 0 \/ j = 1 \/ j = 2 \/ j = 3
      OBVIOUS
    <3> QED
      BY <1>4, <2>4, <3>1
  <2>6. x + 1 \in H!Ends(b, 0)
    BY <2>1, <2>5 DEF H!Ends
  <2> QED
    BY <2>6
<1>6. ASSUME NEW i \in H!Ends(b, 0) PROVE x + 4 <= l
  <2>1. i \in 0 + 1 .. l - 3 /\ \A j \in 0 .. 3 : b[i + j].look = H!EndOfHeaders[j + 1]
    BY DEF H!Ends
  <2>2. i \in 1 .. l /\ i + 2 \in 1 .. l /\ i + 3 <= l
    BY <2>1
  <2>3. b[i].look = "CR" /\ b[i + 2].look = "CR"
    <3>1. 0 \in 0 .. 3 /\ 2 \in 0 .. 3 /\ i + 0 = i
      BY <2>2
    <3> QED
      BY <1>4, <2>1, <3>1
  <2>4. LookAt(x, h, i) = "CR" /\ LookAt(x, h, i + 2) = "CR"
    BY <1>3, <2>2, <2>3
  <2>5. \A j : LookAt(x, h, j) = "CR" => j = x + 1 \/ j = x + 3
    BY DEF LookAt
  <2>6. (i = x + 1 \/ i = x + 3) /\ (i + 2 = x + 1 \/ i + 2 = x + 3)
    BY <2>4, <2>5
  <2> QED
    BY <2>2, <2>6
<1> QED
  BY <1>1, <1>5, <1>6

(* A request that is in the stream alone, byte by byte.                    *)
LEMMA WholeBytes ==
    ASSUME H!Http1Assumption, Http1Types, Whole
    PROVE  /\ Len(buffer) + Len(socket) = MessageSize(plan, sent)
           /\ \A j \in 1 .. Len(buffer) : buffer[j] = ByteOf(plan, sent, j)
<1>1. sent \in Nat /\ buffer \in Seq(AnyByte) /\ socket \in Seq(AnyByte)
  BY DEF Http1Types
<1>2. PICK s : s = Cat(buffer, socket)
  OBVIOUS
<1>3. PICK l \in Nat, v \in Nat : l = Len(buffer) /\ v = Len(socket)
  BY <1>1
<1>4. Len(s) = l + v /\ \A j \in 1 .. l : s[j] = buffer[j]
  <2>1. /\ Len(s) = Len(buffer) + Len(socket)
        /\ \A i \in 1 .. Len(buffer) + Len(socket) :
              s[i] = IF i <= Len(buffer) THEN buffer[i] ELSE socket[i - Len(buffer)]
    BY <1>1, <1>2, CatProperties, Zenon
  <2> QED
    BY <1>3, <2>1
<1>5. /\ Len(s) = MessageSize(plan, sent)
      /\ \A j \in 1 .. MessageSize(plan, sent) : s[j] = ByteOf(plan, sent, j)
  BY <1>1, <1>2, MessageBytes, Zenon DEF Whole
<1> QED
  BY <1>3, <1>4, <1>5

LEMMA Nothing ==
    ASSUME NEW S, NEW x \in Seq(S), NEW y \in Seq(S), Cat(x, y) = <<>>
    PROVE  x = <<>> /\ y = <<>>
<1>1. Len(Cat(x, y)) = Len(x) + Len(y)
  BY CatProperties, Zenon
<1>2. Len(x) \in Nat /\ Len(y) \in Nat /\ Len(<<>>) = 0
  OBVIOUS
<1>3. Len(Cat(x, y)) = 0
  BY <1>2, Zenon
<1>4. Len(x) = 0 /\ Len(y) = 0
  BY <1>1, <1>2, <1>3
<1> QED
  BY <1>4

LEMMA NothingRead ==
    ASSUME H!Http1Assumption PROVE H!Ends(<<>>, 0) = {} /\ Len(<<>>) < MaxHeaderSize
<1>1. Len(<<>>) = 0 /\ 0 + 1 .. 0 - 3 = {}
  OBVIOUS
<1>2. H!Ends(<<>>, 0) = {}
  BY <1>1 DEF H!Ends
<1>3. MaxHeaderSize \in Nat \ {0}
  BY DEF H!Http1Assumption
<1> QED
  BY <1>1, <1>2, <1>3

(* A turn that ends, or begins.                                            *)
LEMMA SendTurn ==
    ASSUME H!Http1Assumption, StreamInv, AnswerTypes, H!Waits, InTurn, H!SendRequest
    PROVE  InTurn'
<1>1. PICK owed \in {0, 1} : Turn(owed)
  BY DEF InTurn
<1>2. /\ plan' = plan /\ at' = at /\ buffer' = buffer /\ replies' = replies
      /\ keep_alive' = keep_alive /\ request_count' = request_count /\ ~h_left /\ ~H!Told
      /\ sent = Len(replies) /\ sent' = sent + 1
  BY DEF H!SendRequest, H!parserVars, H!Waits
<1>3. owed = 0
  <2>1. sent = Len(replies) + owed /\ Len(replies) \in Nat
    BY <1>1 DEF Turn, AnswerTypes
  <2> QED
    BY <1>2, <2>1
<1>4. at \notin {"parse", "refuse", "body", "handle"}
  BY <1>1, <1>3 DEF Turn
<1>5. at # "closed"
  BY <1>2 DEF InTurn
<1>6. ~H!Told'
  BY <1>2 DEF H!Told
<1>7. ASSUME at \in {"headers", "sent"} PROVE Whole'
  <2>1. PICK m : m = Cat(H!Header(sent + 1), H!Body(sent + 1))
    OBVIOUS
  <2>2. Cat(buffer, socket)' = Cat(Cat(buffer, socket), m)
    BY <2>1, Sending, Zenon DEF StreamInv
  <2>3. Cat(buffer, socket) = <<>>
    BY <1>1, <1>3, <1>7 DEF Turn
  <2>4. m \in Seq(AnyByte)
    <3>1. sent + 1 \in Nat
      BY DEF StreamInv, Http1Types
    <3> QED
      BY <2>1, <3>1, MessageBytes, Zenon
  <2>5. Cat(<<>>, m) = m
    BY <2>4, Behind, Zenon
  <2>6. H!Header(sent)' = H!Header(sent + 1) /\ H!Body(sent)' = H!Body(sent + 1)
    BY <1>2 DEF H!Header, H!Body
  <2> QED
    BY <2>1, <2>2, <2>3, <2>5, <2>6, Zenon DEF Whole
<1>8. Turn(1)'
  <2>1. (sent = Len(replies) + 1)'
    BY <1>2
  <2> QED
    BY <1>2, <1>4, <1>6, <1>7, <2>1 DEF Turn
<1>9. H!InStep'
  BY <1>2 DEF InTurn, H!InStep
<1>10. H!Ends(buffer, 0)' = H!Ends(buffer, 0)
  BY <1>2
<1> QED
  BY <1>2, <1>4, <1>5, <1>6, <1>8, <1>9, <1>10 DEF InTurn

LEMMA ReadHeadersTurn ==
    ASSUME H!Http1Assumption, StreamInv, InTurn, H!ReadHeaders PROVE InTurn'
<1>1. PICK owed \in {0, 1} : Turn(owed)
  BY DEF InTurn
<1>2. /\ plan' = plan /\ at = "headers" /\ sent' = sent /\ replies' = replies /\ socket # <<>>
      /\ at' = IF H!Ends(buffer', H!SearchStart(Len(buffer))) # {} THEN "parse"
               ELSE IF Len(buffer') = MaxHeaderSize THEN "refuse" ELSE "headers"
  BY DEF H!ReadHeaders, H!Refuse
<1>3. /\ buffer \in Seq(AnyByte) /\ socket \in Seq(AnyByte)
      /\ buffer' \in Seq(AnyByte) /\ socket' \in Seq(AnyByte)
  BY ReadHeadersInv DEF StreamInv, Http1Types
<1>4. PICK n \in 1 .. Len(socket) :
         /\ buffer' = Cat(buffer, Upto(socket, n)) /\ socket' = After(socket, n)
         /\ Len(buffer) + n <= MaxHeaderSize
  BY HeadersRead, Zenon DEF StreamInv
<1>5. n \in 0 .. Len(socket)
  BY <1>3, <1>4
<1>6. PICK t : t = Upto(socket, n)
  OBVIOUS
<1>7. t \in Seq(AnyByte) /\ Len(t) = n
  <2>1. /\ Upto(socket, n) \in Seq(AnyByte) /\ Len(Upto(socket, n)) = n
        /\ \A i \in 1 .. n : Upto(socket, n)[i] = socket[i]
    BY <1>3, <1>5, Front, Zenon
  <2> QED
    BY <1>6, <2>1, Zenon
<1>8. Cat(buffer, socket)' = Cat(buffer, socket)
  <2>1. Cat(Cat(buffer, Upto(socket, n)), After(socket, n)) = Cat(buffer, socket)
    BY <1>3, <1>5, Joined
  <2> QED
    BY <1>4, <2>1, Zenon
<1>9. Len(buffer') <= MaxHeaderSize /\ Len(buffer') \in Nat
  <2>1. Len(buffer') = Len(buffer) + Len(t)
    BY <1>3, <1>4, <1>6, <1>7, CatProperties, Zenon
  <2> QED
    BY <1>3, <1>4, <1>7, <2>1
<1>10. H!Ends(buffer', H!SearchStart(Len(buffer))) = H!Ends(buffer', 0)
  <2>1. H!Ends(buffer, 0) = {}
    BY <1>2 DEF InTurn
  <2> QED
    BY <1>3, <1>4, <1>6, <1>7, <2>1, Searched, Zenon
<1>11. owed = 1 /\ Whole
  <2>1. owed = 0 => Cat(buffer, socket) = <<>>
    BY <1>1, <1>2 DEF Turn
  <2>2. owed # 0
    BY <1>2, <1>3, <2>1, Nothing, Zenon
  <2>3. owed = 1
    BY <2>2
  <2> QED
    BY <1>1, <1>2, <2>3 DEF Turn
<1>12. Whole'
  <2>1. H!Header(sent)' = H!Header(sent) /\ H!Body(sent)' = H!Body(sent)
    BY <1>2 DEF H!Header, H!Body
  <2> QED
    BY <1>8, <1>11, <2>1, Zenon DEF Whole
<1>13. (sent = Len(replies) + 1)' /\ (H!Told => FALSE)'
  <2>1. sent = Len(replies) + 1 /\ ~H!Told
    BY <1>1, <1>11 DEF Turn
  <2> QED
    BY <1>2, <2>1 DEF H!Told
<1>14. at' = "parse" => H!Ends(buffer', 0) # {}
  BY <1>2, <1>10
<1>15. at' = "headers" => H!Ends(buffer', 0) = {} /\ Len(buffer') < MaxHeaderSize
  <2>1. at' = "headers" => H!Ends(buffer', 0) = {} /\ Len(buffer') # MaxHeaderSize
    BY <1>2, <1>10
  <2>2. MaxHeaderSize \in Nat
    BY DEF H!Http1Assumption
  <2> QED
    BY <1>9, <2>1, <2>2
<1>16. at' \in {"parse", "refuse", "headers"}
  BY <1>2
<1>17. Turn(1)'
  BY <1>12, <1>13, <1>14, <1>16 DEF Turn
<1>18. H!InStep'
  BY <1>2 DEF InTurn, H!InStep
<1> QED
  BY <1>15, <1>16, <1>17, <1>18 DEF InTurn

(* The parser is at a request whose header section stands in front.        *)
LEMMA AtItsRequest ==
    ASSUME H!Http1Assumption, Http1Types, NEW k \in Nat, HeaderSize(plan, k) <= Len(buffer),
           \A j \in 1 .. HeaderSize(plan, k) : buffer[j] = ByteOf(plan, k, j)
    PROVE  H!AtRequest(k)
<1>1. PICK x \in Nat : x = HeaderSize(plan, k)
  BY Sizes
<1>2. PICK g : g = H!Header(k)
  OBVIOUS
<1>3. g = [j \in 1 .. x |-> ByteOf(plan, k, j)]
  BY <1>1, <1>2, HeaderBytes
<1>4. Len(g) = x
  BY <1>3
<1>5. PICK l \in Nat : l = Len(buffer) /\ x <= l
  BY <1>1 DEF Http1Types
<1>6. PICK f : f = H!First(buffer, x)
  OBVIOUS
<1>7. H!Smaller(x, l) = x
  BY <1>5 DEF H!Smaller
<1>8. f \in Seq(AnyByte) /\ Len(f) = x /\ \A j \in 1 .. x : f[j] = buffer[j]
  <2>1. buffer \in Seq(AnyByte)
    BY DEF Http1Types
  <2> QED
    BY <1>5, <1>6, <1>7, <2>1, FirstProperties
<1>9. f = [j \in 1 .. x |-> ByteOf(plan, k, j)]
  BY <1>1, <1>8
<1> QED
  BY <1>2, <1>3, <1>4, <1>6, <1>9, Zenon DEF H!AtRequest

LEMMA ParseTurn ==
    ASSUME H!Http1Assumption, StreamInv, AnswerTypes, H!Waits, InTurn, H!Parse PROVE InTurn'
<1>1. /\ plan' = plan /\ at = "parse" /\ sent' = sent /\ replies' = replies /\ socket' = socket
  BY DEF H!Parse, H!clientVars
<1>2. Turn(1) /\ Whole /\ H!Ends(buffer, 0) # {}
  <2>1. PICK owed \in {0, 1} : Turn(owed)
    BY DEF InTurn
  <2> QED
    BY <1>1, <2>1 DEF Turn
<1>3. PICK k \in Nat : k = sent /\ k \in DOMAIN plan
  <2>1. sent = Len(replies) + 1 /\ Len(replies) \in Nat /\ sent \in 0 .. Len(plan)
    BY <1>2 DEF Turn, AnswerTypes, StreamInv, Http1Types
  <2> QED
    BY <2>1 DEF StreamInv, Http1Types
<1>4. plan[k] # "unread"
  BY <1>3, Zenon DEF H!Waits
<1>5. PICK l \in Nat, v \in Nat : l = Len(buffer) /\ v = Len(socket)
  BY DEF StreamInv, Http1Types
<1>6. PICK x \in Nat, b \in {0, 1, 2} : x = HeaderSize(plan, k) /\ x >= 5
       /\ b = BodySize(plan, k)
  BY Sizes
<1>7. l + v = x + b /\ \A j \in 1 .. l : buffer[j] = ByteOf(plan, k, j)
  <2>1. /\ Len(buffer) + Len(socket) = MessageSize(plan, sent)
        /\ \A j \in 1 .. Len(buffer) : buffer[j] = ByteOf(plan, sent, j)
    BY <1>2, WholeBytes, Zenon DEF StreamInv
  <2> QED
    BY <1>3, <1>5, <1>6, <2>1 DEF MessageSize
<1>8. x <= l
  <2>1. l <= MessageSize(plan, k)
    BY <1>5, <1>6, <1>7 DEF MessageSize
  <2>2. buffer \in Seq(AnyByte)
    BY DEF StreamInv, Http1Types
  <2> QED
    BY <1>2, <1>5, <1>6, <1>7, <2>1, <2>2, EndsOfMessage, Zenon
<1>9. buffer[1].req = k
  <2>1. buffer[1] = ByteOf(plan, k, 1)
    BY <1>6, <1>7, <1>8
  <2> QED
    BY <2>1 DEF ByteOf, H!Byte
<1>10. H!AtRequest(k)
  <2>1. \A j \in 1 .. x : buffer[j] = ByteOf(plan, k, j)
    BY <1>7, <1>8
  <2> QED
    BY <1>5, <1>6, <1>8, <2>1, AtItsRequest, Zenon DEF StreamInv
<1>11. H!header_end_pos(buffer, 0) = x
  BY <1>6, <1>10, HeaderEnd, Zenon DEF StreamInv
<1>12. at' = "refuse" \/ H!TakeBody(k, x)
  BY <1>9, <1>10, <1>11, Zenon DEF H!Parse, H!Refuse
<1>13. (sent = Len(replies) + 1)' /\ (H!Told => FALSE)'
  <2>1. sent = Len(replies) + 1 /\ ~H!Told
    BY <1>2 DEF Turn
  <2> QED
    BY <1>1, <2>1 DEF H!Told
<1>14. H!InStep'
  BY <1>1 DEF InTurn, H!InStep
<1>15. CASE at' = "refuse"
  BY <1>13, <1>14, <1>15 DEF InTurn, Turn
<1>16. CASE H!TakeBody(k, x)
  <2>1. PICK c \in {0, 2} : c = H!ContentLength(k)
    BY DEF H!ContentLength
  <2>2. PICK r : r = H!Rest(buffer, x)
    OBVIOUS
  <2>3. current' = k /\ body' = H!First(r, c)
         /\ at' = IF Len(body') < c THEN "body" ELSE "handle"
    BY <1>16, <2>1, <2>2, Zenon DEF H!TakeBody
  <2>4. PICK y \in Nat : y = l - x /\ x + y = l
    BY <1>8
  <2>5. r \in Seq(AnyByte) /\ Len(r) = y
    <3>1. r = After(buffer, x)
      BY <2>2, Zenon DEF H!Rest, After
    <3>2. buffer \in Seq(AnyByte)
      BY DEF StreamInv, Http1Types
    <3>3. x \in 0 .. l /\ l - x = y
      BY <1>8, <2>4
    <3>4. r \in Seq(AnyByte) /\ Len(r) = l - x
      <4>1. /\ After(buffer, x) \in Seq(AnyByte) /\ Len(After(buffer, x)) = Len(buffer) - x
            /\ \A i \in 1 .. Len(buffer) - x : After(buffer, x)[i] = buffer[x + i]
        BY <1>5, <3>2, <3>3, Back, Zenon
      <4> QED
        BY <1>5, <3>1, <4>1
    <3> QED
      BY <3>3, <3>4
  <2>6. Len(body') = H!Smaller(c, y)
    <3>1. c \in Nat
      OBVIOUS
    <3> QED
      BY <2>3, <2>5, <3>1, FirstProperties
  <2>7. at' = "handle" => v = 0
    <3>1. SUFFICES ASSUME at' = "handle" PROVE v = 0
      OBVIOUS
    <3>2. ~(Len(body') < c)
      BY <2>3, <3>1
    <3>3. c <= y
      BY <2>6, <3>2 DEF H!Smaller
    <3>4. plan[k] # "large"
      BY <1>1, <1>9, <1>10, <3>1 DEF H!Parse, H!Refuse
    <3>5. b <= c
      <4>1. plan[k] = "short" => c = 2 /\ b = 1
        BY <1>6, <2>1 DEF H!ContentLength, BodySize
      <4>2. plan[k] = "body" => c = 2 /\ b = 2
        BY <1>6, <2>1 DEF H!ContentLength, BodySize
      <4>3. plan[k] \notin {"short", "body"} => b = 0
        BY <1>4, <1>6, <3>4 DEF BodySize
      <4> QED
        BY <4>1, <4>2, <4>3
    <3> QED
      BY <1>7, <2>4, <3>3, <3>5
  <2>8. at' = "handle" => socket' = <<>>
    <3>1. socket \in Seq(AnyByte)
      BY DEF StreamInv, Http1Types
    <3> QED
      BY <1>1, <1>5, <2>7, <3>1
  <2>9. (at \in {"body", "handle"})' /\ (current = sent)'
    BY <1>1, <1>3, <2>3
  <2> QED
    BY <1>13, <1>14, <2>8, <2>9 DEF InTurn, Turn
<1> QED
  BY <1>12, <1>15, <1>16

LEMMA ReadBodyTurn ==
    ASSUME H!Http1Assumption, StreamInv, AnswerTypes, InTurn, H!ReadBody PROVE InTurn'
<1>1. PICK st : /\ Laid(plan, sent, st, Cat(buffer, socket))
                /\ Taken(plan, sent, st, at, current, body, handled)
  BY DEF StreamInv, InStream
<1>2. PICK n \in Nat : n = sent
  BY DEF StreamInv, Http1Types
<1>3. /\ plan' = plan /\ sent' = sent /\ replies' = replies /\ current' = current
      /\ at = "body" /\ buffer = <<>> /\ at' \in {"body", "handle"}
  BY DEF H!ReadBody, StreamInv, Emptied
<1>4. Turn(1) /\ current = n
  <2>1. PICK owed \in {0, 1} : Turn(owed)
    BY DEF InTurn
  <2> QED
    BY <1>2, <1>3, <2>1 DEF Turn
<1>5. socket \in Seq(AnyByte) /\ body \in Seq(AnyByte) /\ socket' \in Seq(AnyByte)
  BY ReadBodyInv DEF StreamInv, Http1Types
<1>6. Cat(buffer, socket) = socket
  BY <1>3, <1>5, Behind, Zenon
<1>7. Laid(plan, n, st, socket)
  BY <1>1, <1>2, <1>6, Zenon
<1>8. PICK x \in Nat, b \in Nat, c \in {0, 2} :
         x = HeaderSize(plan, n) /\ b = BodySize(plan, n) /\ c = Announced(plan, n)
  BY Sizes DEF Announced
<1>9. PICK z \in Nat, v \in Nat : z = Len(body) /\ v = Len(socket)
  BY <1>5
<1>10. n \in 1 .. n /\ st[n] + x + z = 0 /\ z < c /\ z <= b
  BY <1>1, <1>2, <1>3, <1>4, <1>8, <1>9 DEF Taken
<1>11. z + v = b
  <2>1. st[n + 1] = st[n] + (x + b) /\ st[n + 1] = v /\ st[n] \in Int
    BY <1>7, <1>8, <1>9, <1>10 DEF Laid, MessageSize
  <2> QED
    BY <1>10, <2>1
<1>12. PICK q \in 1 .. H!Smaller(v, c - z) :
          body' = body \o H!First(socket, q) /\ socket' = H!Rest(socket, q)
  BY <1>4, <1>8, <1>9, ContentLengthIs, Zenon DEF H!ReadBody
<1>13. q \in Nat /\ q >= 1 /\ q <= v /\ z + q <= c
  <2>1. c - z \in Nat
    BY <1>10
  <2>2. PICK m \in Nat : m = H!Smaller(v, c - z) /\ m <= v /\ m <= c - z
    BY <2>1 DEF H!Smaller
  <2>3. q \in 1 .. m
    BY <1>12, <2>2
  <2> QED
    BY <2>2, <2>3
<1>14. Len(socket') = v - q
  <2>1. socket' = After(socket, q)
    BY <1>12, Zenon DEF H!Rest, After
  <2>2. q \in 0 .. v
    BY <1>13
  <2> QED
    <3>1. /\ After(socket, q) \in Seq(AnyByte) /\ Len(After(socket, q)) = Len(socket) - q
          /\ \A i \in 1 .. Len(socket) - q : After(socket, q)[i] = socket[q + i]
      BY <1>5, <1>9, <2>2, Back, Zenon
    <3> QED
      BY <1>9, <2>1, <3>1
<1>15. Len(body') = z + q
  <2>1. PICK w : w = H!First(socket, q)
    OBVIOUS
  <2>2. H!Smaller(q, v) = q
    BY <1>13 DEF H!Smaller
  <2>3. w \in Seq(AnyByte) /\ Len(w) = q
    BY <1>5, <1>9, <1>13, <2>1, <2>2, FirstProperties
  <2>4. body' = Cat(body, w)
    BY <1>12, <2>1, Zenon DEF Cat
  <2>5. Len(body') = Len(body) + Len(w)
    BY <1>5, <2>3, <2>4, CatProperties, Zenon
  <2> QED
    BY <1>9, <2>3, <2>5
<1>16. at' = "handle" => socket' = <<>>
  <2>1. SUFFICES ASSUME at' = "handle" PROVE socket' = <<>>
    OBVIOUS
  <2>2. ~(Len(body') < c)
    BY <1>4, <1>8, <2>1, ContentLengthIs, Zenon DEF H!ReadBody
  <2>3. z + q = c
    BY <1>13, <1>15, <2>2
  <2>4. plan[n] = "short" \/ b = c
    BY <1>8, <1>10 DEF Announced, BodySize
  <2>5. plan[n] = "short" => b = 1 /\ c = 2
    BY <1>8 DEF Announced, BodySize
  <2>6. Len(socket') = 0
    BY <1>11, <1>13, <1>14, <2>3, <2>4, <2>5
  <2> QED
    BY <1>5, <2>6
<1>17. (sent = Len(replies) + 1)' /\ (H!Told => FALSE)' /\ (current = sent)'
  <2>1. sent = Len(replies) + 1 /\ ~H!Told /\ current = sent
    BY <1>2, <1>4 DEF Turn
  <2> QED
    BY <1>3, <2>1 DEF H!Told
<1>18. H!InStep'
  BY <1>3 DEF InTurn, H!InStep
<1> QED
  BY <1>3, <1>16, <1>17, <1>18 DEF InTurn, Turn

ReplyOf(req, status, alive, max) ==
    [req |-> req, status |-> status, keep_alive |-> alive, max |-> max]

LEMMA ReplyFields ==
    \A req, status \in Nat : \A alive \in BOOLEAN : \A max \in Int :
        /\ ReplyOf(req, status, alive, max) \in AnyReply
        /\ ReplyOf(req, status, alive, max).req = req
        /\ ReplyOf(req, status, alive, max).keep_alive = alive
BY DEF AnyReply, ReplyOf

(* An answer goes to the request whose turn it is.                         *)
LEMMA AnswerTurn ==
    ASSUME StreamInv, AnswerTypes, H!InStep, Turn(1), NEW r \in AnyReply, r.req = sent,
           replies' = Append(replies, r), sent' = sent,
           at' = "closed" \/ (at' = "sent" /\ Cat(buffer, socket)' = <<>>)
    PROVE  H!InStep' /\ Turn(0)' /\ replies' \in Seq(AnyReply) /\ (~r.keep_alive => H!Told')
<1>1. replies \in Seq(AnyReply)
  BY DEF AnswerTypes
<1>2. PICK l \in Nat : l = Len(replies)
  BY <1>1
<1>3. /\ replies' \in Seq(AnyReply) /\ DOMAIN replies' = 1 .. l + 1 /\ DOMAIN replies = 1 .. l
      /\ Len(replies') = l + 1
      /\ replies'[l + 1] = r /\ \A i \in 1 .. l : replies'[i] = replies[i]
  BY <1>1, <1>2
<1>4. sent = l + 1
  BY <1>2 DEF Turn
<1>5. H!InStep'
  <2>1. ASSUME NEW i \in 1 .. l + 1 PROVE replies'[i].req = i
    <3>1. CASE i \in 1 .. l
      BY <1>3, <3>1 DEF H!InStep
    <3>2. CASE i = l + 1
      BY <1>3, <1>4, <3>2
    <3>3. i \in 1 .. l \/ i = l + 1
      OBVIOUS
    <3> QED
      BY <3>1, <3>2, <3>3, Zenon
  <2> QED
    BY <1>3, <2>1 DEF H!InStep
<1>6. (sent = Len(replies) + 0)'
  BY <1>3, <1>4
<1>7. Turn(0)'
  BY <1>6 DEF Turn
<1>8. ~r.keep_alive => H!Told'
  <2>1. l + 1 \in DOMAIN replies'
    BY <1>3
  <2> QED
    BY <1>3, <2>1 DEF H!Told
<1> QED
  BY <1>3, <1>5, <1>7, <1>8

LEMMA HandleTurn ==
    ASSUME H!Http1Assumption, StreamInv, AnswerTypes, H!Handle
    PROVE  AnswerTypes' /\ (InTurn => InTurn')
<1> DEFINE a == ~H!should_close
           m == IF H!should_close THEN 0 ELSE MaxRequestsPerConnection - request_count
<1>1. a \in BOOLEAN /\ m \in Int /\ (request_count >= MaxRequestsPerConnection => ~a)
  BY DEF H!should_close, AnswerTypes, H!Http1Assumption
<1>2. keep_alive' = a
  BY Zenon DEF H!Handle
<1>3. PICK status : status \in Nat /\ H!Reply(status, a, m)
  <2>1. \E status \in {200, 404, 500} : H!Reply(status, a, m)
    BY DEF H!Handle
  <2>2. \A status \in {200, 404, 500} : status \in Nat
    OBVIOUS
  <2> QED
    BY <2>1, <2>2
<1> HIDE DEF a, m
<1>4. current \in Nat /\ status \in Nat
  BY <1>3 DEF StreamInv, Http1Types
<1>5. PICK r : r = ReplyOf(current, status, a, m)
  OBVIOUS
<1>6. /\ r \in AnyReply /\ r.req = current /\ r.keep_alive = a /\ replies' = Append(replies, r)
  <2>1. replies' = Append(replies, r)
    BY <1>3, <1>5, Zenon DEF H!Reply, ReplyOf
  <2>2. /\ ReplyOf(current, status, a, m) \in AnyReply
        /\ ReplyOf(current, status, a, m).req = current
        /\ ReplyOf(current, status, a, m).keep_alive = a
    BY <1>1, <1>4, ReplyFields
  <2>3. r \in AnyReply /\ r.req = current /\ r.keep_alive = a
    BY <1>5, <2>2, Zenon
  <2> QED
    BY <2>1, <2>3, Zenon
<1>7. /\ keep_alive' = a /\ request_count' = request_count /\ sent' = sent /\ socket' = socket
      /\ buffer' = buffer /\ at = "handle" /\ at' = "sent"
  BY <1>2, Zenon DEF H!Handle, H!clientVars, H!parserVars
<1>8. AnswerTypes'
  <2>1. replies' \in Seq(AnyReply)
    BY <1>6 DEF AnswerTypes
  <2> QED
    BY <1>1, <1>7, <2>1 DEF AnswerTypes
<1>9. ASSUME InTurn PROVE InTurn'
  <2>1. Turn(1) /\ current = sent /\ socket = <<>> /\ H!InStep
    <3>1. PICK owed \in {0, 1} : Turn(owed)
      BY <1>9 DEF InTurn
    <3> QED
      BY <1>7, <1>9, <3>1 DEF InTurn, Turn
  <2>2. Cat(buffer, socket)' = <<>>
    <3>1. buffer = <<>> /\ <<>> \in Seq(AnyByte)
      BY <1>7 DEF StreamInv, Emptied
    <3>2. Cat(<<>>, <<>>) = <<>>
      BY <3>1, Behind, Zenon
    <3> QED
      BY <1>7, <2>1, <3>1, <3>2, Zenon
  <2>3. H!InStep' /\ Turn(0)' /\ (~a => H!Told')
    <3>1. r.req = sent
      BY <1>6, <2>1
    <3> QED
      BY <1>6, <1>7, <2>1, <2>2, <3>1, AnswerTurn, Zenon
  <2>4. (request_count >= MaxRequestsPerConnection)' => ~a
    BY <1>1, <1>7
  <2> QED
    BY <1>7, <2>3, <2>4 DEF InTurn
<1> QED
  BY <1>8, <1>9

LEMMA SendErrorTurn ==
    ASSUME StreamInv, AnswerTypes, H!SendError
    PROVE  AnswerTypes' /\ (InTurn => InTurn')
<1>1. PICK status \in Nat, none \in Int : status = 400 /\ none = 0
  OBVIOUS
<1>2. PICK r : r = ReplyOf(sent, status, FALSE, none)
  OBVIOUS
<1>3. /\ r \in AnyReply /\ r.req = sent /\ r.keep_alive = FALSE
  <2>1. sent \in Nat /\ FALSE \in BOOLEAN
    BY DEF StreamInv, Http1Types
  <2> QED
    BY <1>2, <2>1, ReplyFields, Zenon
<1>4. /\ replies' = Append(replies, r) /\ sent' = sent /\ at = "refuse" /\ at' = "closed"
      /\ keep_alive' = keep_alive /\ request_count' = request_count
  <2>1. replies' = Append(replies, ReplyOf(sent, 400, FALSE, 0))
    BY DEF H!SendError, ReplyOf
  <2>2. replies' = Append(replies, r)
    BY <1>1, <1>2, <2>1
  <2> QED
    BY <2>2 DEF H!SendError, H!clientVars
<1>5. AnswerTypes'
  <2>1. replies' \in Seq(AnyReply)
    BY <1>3, <1>4 DEF AnswerTypes
  <2> QED
    BY <1>4, <2>1 DEF AnswerTypes
<1>6. ASSUME InTurn PROVE InTurn'
  <2>1. Turn(1) /\ H!InStep
    <3>1. PICK owed \in {0, 1} : Turn(owed)
      BY <1>6 DEF InTurn
    <3> QED
      BY <1>4, <1>6, <3>1 DEF InTurn, Turn
  <2>2. H!InStep' /\ Turn(0)' /\ (~r.keep_alive => H!Told')
    BY <1>3, <1>4, <2>1, AnswerTurn, Zenon
  <2> QED
    BY <1>3, <1>4, <2>2 DEF InTurn
<1> QED
  BY <1>5, <1>6

LEMMA NextRequestTurn ==
    ASSUME H!Http1Assumption, StreamInv, AnswerTypes, InTurn, H!NextRequest PROVE InTurn'
<1>1. PICK owed \in {0, 1} : Turn(owed)
  BY DEF InTurn
<1>2. /\ plan' = plan /\ at = "sent" /\ sent' = sent /\ replies' = replies /\ socket' = socket
      /\ buffer = <<>> /\ buffer' = <<>> /\ request_count' = request_count + 1
      /\ at' = IF ~keep_alive \/ request_count' > MaxRequestsPerConnection THEN "closed"
               ELSE "headers"
  BY DEF H!NextRequest, H!clientVars, StreamInv, Emptied
<1>3. H!Told' <=> H!Told
  BY <1>2 DEF H!Told
<1>4. Whole' <=> Whole
  <2>1. H!Header(sent)' = H!Header(sent) /\ H!Body(sent)' = H!Body(sent)
    BY <1>2 DEF H!Header, H!Body
  <2>2. Cat(buffer, socket)' = Cat(buffer, socket)
    BY <1>2, Zenon
  <2> QED
    BY <2>1, <2>2, Zenon DEF Whole
<1>5. Turn(owed)'
  <2>1. Cat(buffer, socket)' = Cat(buffer, socket)
    BY <1>2, Zenon
  <2>2. at' \in {"closed", "headers"}
    BY <1>2
  <2> QED
    BY <1>1, <1>2, <1>3, <1>4, <2>1, <2>2, Zenon DEF Turn
<1>6. H!InStep'
  BY <1>2 DEF InTurn, H!InStep
<1>7. H!Ends(buffer, 0)' = {} /\ Len(buffer') < MaxHeaderSize
  BY <1>2, NothingRead
<1>8. at' = "closed" => H!Told'
  <2>1. at' = "closed" => ~keep_alive \/ request_count + 1 > MaxRequestsPerConnection
    BY <1>2
  <2>2. request_count + 1 > MaxRequestsPerConnection
         => request_count >= MaxRequestsPerConnection
    BY DEF AnswerTypes, H!Http1Assumption
  <2>3. (request_count >= MaxRequestsPerConnection => ~keep_alive) /\ (~keep_alive => H!Told)
    BY <1>2 DEF InTurn
  <2> QED
    BY <1>3, <2>1, <2>2, <2>3, Zenon
<1>9. at' \in {"closed", "headers"}
  BY <1>2
<1> QED
  BY <1>5, <1>6, <1>7, <1>8, <1>9 DEF InTurn

LEMMA OtherTurn ==
    ASSUME StreamInv, InTurn,
           H!Leave \/ H!ReadFails \/ H!Upgrade \/ H!WriteFails \/ UNCHANGED H!vars
    PROVE  InTurn'
<1>1. PICK owed \in {0, 1} : Turn(owed)
  BY DEF InTurn
<1>2. /\ plan' = plan /\ sent' = sent /\ replies' = replies /\ socket' = socket
      /\ buffer' = buffer /\ current' = current /\ request_count' = request_count
      /\ keep_alive' = keep_alive
  BY DEF H!Leave, H!ReadFails, H!Upgrade, H!WriteFails, H!vars, H!clientVars, H!parserVars
<1>3. \/ at' = at /\ (h_left' = h_left \/ h_left')
      \/ at' = "upgraded"
      \/ at' = "closed" /\ h_left'
  BY DEF H!Leave, H!ReadFails, H!Upgrade, H!WriteFails, H!vars, H!clientVars, H!parserVars
<1>4. Cat(buffer, socket)' = Cat(buffer, socket)
  BY <1>2, Zenon
<1>5. Turn(owed)'
  <2>1. \/ at' = at /\ current' = current /\ Cat(buffer, socket)' = Cat(buffer, socket)
           /\ (at = "parse" => buffer' = buffer)
        \/ at' \in {"closed", "upgraded"}
    BY <1>2, <1>3, <1>4
  <2> QED
    BY <1>1, <1>2, <2>1, TurnSame, Zenon
<1>6. H!InStep' /\ (H!Told' <=> H!Told)
  BY <1>2 DEF InTurn, H!InStep, H!Told
<1>7. H!Ends(buffer, 0)' = H!Ends(buffer, 0)
  BY <1>2
<1> QED
  BY <1>2, <1>3, <1>5, <1>6, <1>7 DEF InTurn

LEMMA TurnIsAnswers ==
    ASSUME H!Http1Assumption, StreamInv, AnswerTypes, H!Waits => InTurn PROVE H!Http1Answers
<1> SUFFICES ASSUME H!Waits, InTurn, H!Idle, ~h_left, at # "upgraded" PROVE Len(replies) = sent
  BY DEF H!Http1Answers, InTurn
<1>1. PICK owed \in {0, 1} : Turn(owed)
  BY DEF InTurn
<1>2. PICK n \in Nat : n = sent
  BY DEF StreamInv, Http1Types
<1>3. SUFFICES owed # 1
  BY <1>1, <1>2 DEF Turn, AnswerTypes
<1>4. SUFFICES ASSUME owed = 1 PROVE FALSE
  OBVIOUS
<1>5. socket \in Seq(AnyByte) /\ buffer \in Seq(AnyByte)
  BY DEF StreamInv, Http1Types
<1>6. CASE at = "closed"
  BY <1>1, <1>4, <1>6 DEF InTurn, Turn
<1>7. CASE at = "headers"
  <2>1. Whole /\ socket = <<>> /\ H!Ends(buffer, 0) = {}
    BY <1>1, <1>4, <1>7 DEF Turn, H!Idle, InTurn
  <2>2. PICK x \in Nat, b \in Nat : x = HeaderSize(plan, n) /\ b = BodySize(plan, n)
    BY Sizes
  <2>3. PICK l \in Nat : l = Len(buffer)
    BY <1>5
  <2>4. /\ Len(buffer) + Len(socket) = MessageSize(plan, n)
        /\ \A j \in 1 .. Len(buffer) : buffer[j] = ByteOf(plan, n, j)
    BY <1>2, <2>1, WholeBytes, Zenon DEF StreamInv
  <2>5. Len(socket) = 0
    BY <2>1
  <2>6. MessageSize(plan, n) = x + b
    BY <2>2 DEF MessageSize
  <2>7. l <= MessageSize(plan, n) /\ x <= l
    BY <2>3, <2>4, <2>5, <2>6
  <2> QED
    BY <1>5, <2>1, <2>2, <2>3, <2>4, <2>7, EndsOfMessage, Zenon
<1>8. CASE at = "body"
  <2>1. PICK st : /\ Laid(plan, n, st, Cat(buffer, socket))
                  /\ Taken(plan, n, st, at, current, body, handled)
    BY <1>2 DEF StreamInv, InStream
  <2>2. current = n /\ socket = <<>> /\ buffer = <<>>
    BY <1>1, <1>2, <1>8 DEF Turn, H!Idle, StreamInv, Emptied
  <2>3. Cat(buffer, socket) = <<>>
    BY <1>5, <2>2, Behind, Zenon
  <2>4. PICK x \in Nat, b \in Nat, c \in {0, 2} :
           x = HeaderSize(plan, n) /\ b = BodySize(plan, n) /\ c = Announced(plan, n)
    BY Sizes DEF Announced
  <2>5. PICK z \in Nat : z = Len(body)
    BY DEF StreamInv, Http1Types
  <2>6. n \in 1 .. n /\ st[n] + x + z = 0 /\ z < c /\ z <= b
    BY <1>8, <2>1, <2>2, <2>4, <2>5 DEF Taken
  <2>7. z = b
    <3>1. Laid(plan, n, st, <<>>) /\ Len(<<>>) = 0
      BY <2>1, <2>3
    <3>2. st[n + 1] = st[n] + (x + b) /\ st[n + 1] = 0 /\ st[n] \in Int
      BY <2>4, <2>6, <3>1 DEF Laid, MessageSize
    <3> QED
      BY <2>6, <3>2
  <2>8. plan[n] = "short"
    BY <2>4, <2>6, <2>7 DEF Announced, BodySize
  <2> QED
    BY <1>2, <2>6, <2>8 DEF StreamInv, ShortLast
<1> QED
  BY <1>6, <1>7, <1>8 DEF H!Idle

(* What reaches a handler under a request's name is that request, with all *)
(* of the body its Content-Length announces and nothing else, once and in  *)
(* the order sent.                                                         *)
THEOREM RequestsKept ==
    ASSUME H!Http1Assumption
    PROVE  H!Spec => []H!HandledAsSent
<1>1. H!Init => StreamInv
  BY Http1Init
<1>2. StreamInv /\ [H!Next]_(H!vars) => StreamInv'
  BY SendRequestInv, ReadHeadersInv, ParseInv, ReadBodyInv, HandleInv, OtherInv, Zenon
     DEF H!Next, H!Server
<1>3. StreamInv => H!HandledAsSent
  BY KeptIsHandled, Zenon DEF StreamInv
<1> QED
  BY <1>1, <1>2, <1>3, PTL DEF H!Spec

(* A client that waits for its answers, and whose bodies the parser knows  *)
(* how to read, gets one to every request, and one of its own: the server  *)
(* neither waits nor closes the connection while it owes one, however the  *)
(* requests are cut into pieces.                                           *)
THEOREM RequestsAnswered ==
    ASSUME H!Http1Assumption
    PROVE  H!Spec => []H!Http1Answers
<1>1. H!Init => AnswerInv
  <2>1. SUFFICES ASSUME H!Init PROVE AnswerInv
    OBVIOUS
  <2>2. /\ sent = 0 /\ replies = <<>> /\ buffer = <<>> /\ socket = <<>> /\ at = "headers"
        /\ request_count = 1 /\ keep_alive = TRUE
    BY <2>1 DEF H!Init
  <2>3. AnswerTypes
    BY <2>2 DEF AnswerTypes
  <2>4. Cat(buffer, socket) = <<>>
    <3>1. <<>> \in Seq(AnyByte)
      OBVIOUS
    <3> QED
      BY <2>2, <3>1, Behind, Zenon
  <2>5. Turn(0) /\ H!InStep
    <3>1. sent = Len(replies) + 0 /\ DOMAIN replies = {}
      BY <2>2
    <3> QED
      BY <2>2, <2>4, <3>1 DEF Turn, H!Told, H!InStep
  <2>6. H!Ends(buffer, 0) = {} /\ Len(buffer) < MaxHeaderSize
    BY <2>2, NothingRead
  <2>7. InTurn
    BY <2>2, <2>5, <2>6 DEF InTurn
  <2> QED
    BY <2>1, <2>3, <2>7, Http1Init DEF AnswerInv
<1>2. AnswerInv /\ [H!Next]_(H!vars) => AnswerInv'
  <2> SUFFICES ASSUME AnswerInv, [H!Next]_(H!vars) PROVE AnswerInv'
    OBVIOUS
  <2>1. StreamInv /\ AnswerTypes /\ (H!Waits => InTurn)
    BY DEF AnswerInv
  <2>2. StreamInv'
    BY <2>1, SendRequestInv, ReadHeadersInv, ParseInv, ReadBodyInv, HandleInv, OtherInv, Zenon
       DEF H!Next, H!Server
  <2>3. H!Waits' <=> H!Waits
    BY DEF H!Waits, H!Next, H!Server, H!SendRequest, H!Leave, H!ReadHeaders, H!Parse,
           H!ReadBody, H!ReadFails, H!SendError, H!Upgrade, H!Handle, H!WriteFails,
           H!NextRequest, H!vars
  <2>4. SUFFICES AnswerTypes' /\ (H!Waits /\ InTurn => InTurn')
    BY <2>1, <2>2, <2>3, Zenon DEF AnswerInv
  <2>5. CASE H!SendRequest
    <3>1. AnswerTypes'
      BY <2>1, <2>5 DEF H!SendRequest, AnswerTypes
    <3> QED
      BY <2>1, <2>5, <3>1, SendTurn, Zenon
  <2>6. CASE H!ReadHeaders
    <3>1. AnswerTypes'
      BY <2>1, <2>6 DEF H!ReadHeaders, AnswerTypes
    <3> QED
      BY <2>1, <2>6, <3>1, ReadHeadersTurn, Zenon
  <2>7. CASE H!Parse
    <3>1. AnswerTypes'
      BY <2>1, <2>7 DEF H!Parse, AnswerTypes
    <3> QED
      BY <2>1, <2>7, <3>1, ParseTurn, Zenon
  <2>8. CASE H!ReadBody
    <3>1. AnswerTypes'
      BY <2>1, <2>8 DEF H!ReadBody, AnswerTypes
    <3> QED
      BY <2>1, <2>8, <3>1, ReadBodyTurn, Zenon
  <2>9. CASE H!NextRequest
    <3>1. AnswerTypes'
      BY <2>1, <2>9 DEF H!NextRequest, AnswerTypes
    <3> QED
      BY <2>1, <2>9, <3>1, NextRequestTurn, Zenon
  <2>10. CASE H!Leave \/ H!ReadFails \/ H!Upgrade \/ H!WriteFails \/ UNCHANGED H!vars
    <3>1. AnswerTypes'
      BY <2>1, <2>10 DEF H!Leave, H!ReadFails, H!Upgrade, H!WriteFails, H!vars, AnswerTypes
    <3> QED
      BY <2>1, <2>10, <3>1, OtherTurn, Zenon
  <2> QED
    BY <2>1, <2>5, <2>6, <2>7, <2>8, <2>9, <2>10, HandleTurn, SendErrorTurn, Zenon
         DEF H!Next, H!Server
<1>3. AnswerInv => H!Http1Answers
  BY TurnIsAnswers, Zenon DEF AnswerInv
<1> QED
  BY <1>1, <1>2, <1>3, PTL DEF H!Spec
=============================================================================
