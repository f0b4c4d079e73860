--------------------------- MODULE WebSocketProofs ---------------------------
(* Proofs about module WebSocket, for any coroutines and any bounds.       *)
EXTENDS WebSocket, SequenceTheorems, TLAPS

(* is_open_ is the only guard there is.  Whoever has seen it set and has   *)
(* not cleared it yet has sent no Close frame, nor has any coroutine of    *)
(* the same thread; and only one coroutine of that thread is there.        *)
Sent(w) == closes[w] # 0

ClosesOnce ==
    /\ open \in BOOLEAN
    /\ closes \in [Writers -> {0, 1}]
    /\ writing \in [Writers -> {"idle", "closing", "header", "payload"}]
    /\ handler = "frame" => writing[Handler] = "idle"
    /\ \A w \in Writers : Sent(w) => ~open /\ ~Busy(w)
    /\ \A v, w \in Local : Busy(v) => ~Sent(w)
    /\ \A v, w \in Local : Busy(v) /\ Busy(w) => v = w
    /\ \A v, w \in Local : Sent(v) /\ Sent(w) => v = w

USE WebSocketAssumption

LEMMA HandlerIsLocal == Handler \in Local /\ Handler \in Writers /\ Local \subseteq Writers
BY DEF Local, Writers

(* A step that sends no Close frame and takes nobody between test and      *)
(* clear, and does not reopen the connection.                              *)
LEMMA OthersPreserve ==
    ASSUME ClosesOnce, closes' = closes, open' \in {open, FALSE},
           writing' \in [Writers -> {"idle", "closing", "header", "payload"}],
           handler' = "frame" => writing'[Handler] = "idle",
           \A w \in Writers : Busy(w)' => Busy(w)
    PROVE  ClosesOnce'
<1>1. \A v \in Writers : Sent(v)' <=> Sent(v)
  BY DEF Sent
<1>2. closes' \in [Writers -> {0, 1}]
  BY DEF ClosesOnce
<1>3. open' \in BOOLEAN /\ (~open => ~open')
  <2>1. CASE open' = open
    BY <2>1, Zenon DEF ClosesOnce
  <2>2. CASE open' = FALSE
    BY <2>2, Zenon
  <2> QED
    BY <2>1, <2>2
<1> QED
  BY <1>1, <1>2, <1>3, HandlerIsLocal DEF ClosesOnce

(* A coroutine that may run sees that the connection is open.              *)
LEMMA TestPreserves ==
    ASSUME ClosesOnce, NEW w \in Writers, open, MayRun(w), closes' = closes, open' = open,
           writing' \in [Writers -> {"idle", "closing", "header", "payload"}],
           handler' = "frame" => writing'[Handler] = "idle",
           \A v \in Writers : Busy(v)' => Busy(v) \/ v = w
    PROVE  ClosesOnce'
<1>1. \A v \in Writers : ~Sent(v) /\ (Sent(v)' <=> Sent(v))
  BY DEF ClosesOnce, Sent
<1>2. \A u, v \in Local : Busy(u)' /\ Busy(v)' => u = v
  BY HandlerIsLocal DEF ClosesOnce, MayRun
<1> QED
  BY <1>1, <1>2, HandlerIsLocal DEF ClosesOnce

(* It clears the flag and sends its Close frame.                           *)
LEMMA SendPreserves ==
    ASSUME ClosesOnce, NEW w \in Writers, Busy(w), open' = FALSE,
           closes' = [closes EXCEPT ![w] = @ + 1],
           writing' \in [Writers -> {"idle", "closing", "header", "payload"}],
           handler' = "frame" => writing'[Handler] = "idle",
           \A v \in Writers : Busy(v)' => Busy(v) /\ v # w
    PROVE  ClosesOnce'
<1>1. ~Sent(w) /\ \A v \in Local : w \in Local => ~Sent(v)
  BY DEF ClosesOnce
<1>2. closes[w] = 0 /\ closes \in [Writers -> {0, 1}]
  BY <1>1 DEF ClosesOnce, Sent
<1>3. closes' \in [Writers -> {0, 1}] /\ closes'[w] = 1
      /\ \A v \in Writers : v # w => closes'[v] = closes[v]
  BY <1>2
<1>4. \A v \in Writers : Sent(v)' <=> Sent(v) \/ v = w
  BY <1>3 DEF Sent
<1>5. \A u, v \in Local : Sent(u)' /\ Sent(v)' => u = v
  BY <1>1, <1>4, HandlerIsLocal DEF ClosesOnce
<1>6. \A u, v \in Local : Busy(u)' => ~Sent(v)'
  <2>1. ASSUME NEW u \in Local, NEW v \in Local, Busy(u)', Sent(v)' PROVE FALSE
    <3>1. u \in Writers /\ v \in Writers /\ Busy(u) /\ u # w
      BY <2>1, HandlerIsLocal
    <3>2. ~Sent(v) /\ v = w
      BY <2>1, <3>1, <1>4 DEF ClosesOnce
    <3> QED
      BY <3>1, <3>2 DEF ClosesOnce
  <2> QED
    BY <2>1
<1>7. \A v \in Writers : Sent(v)' => ~Busy(v)'
  BY <1>4 DEF ClosesOnce
<1> QED
  BY <1>3, <1>5, <1>6, <1>7, HandlerIsLocal DEF ClosesOnce

(* What the parts of a step do to who is between test and clear.           *)
LEMMA Starts ==
    ASSUME ClosesOnce, NEW w \in Writers, NEW kind, StartFrame(w, kind)
    PROVE  /\ writing' \in [Writers -> {"idle", "closing", "header", "payload"}]
           /\ writing'[w] = "header" /\ \A v \in Writers : v # w => writing'[v] = writing[v]
           /\ kind # "close" => closes' = closes
           /\ kind = "close" => closes' = [closes EXCEPT ![w] = @ + 1]
BY DEF StartFrame, ClosesOnce

LEMMA RejectPreserves ==
    ASSUME ClosesOnce, handler = "frame", Reject
    PROVE  ClosesOnce'
<1>1. \/ writing' = writing
      \/ open /\ writing' = [writing EXCEPT ![Handler] = "closing"]
  BY DEF Reject
<1>2. handler' = "handler" /\ open' = open /\ closes' = closes
  BY DEF Reject
<1>3. writing' \in [Writers -> {"idle", "closing", "header", "payload"}]
  BY <1>1 DEF ClosesOnce
<1>4. \A v \in Writers : Busy(v)' => Busy(v)
  BY <1>1, <1>2 DEF Busy, ClosesOnce
<1> QED
  BY <1>2, <1>3, <1>4, OthersPreserve

LEMMA ReceivePreserves ==
    ASSUME ClosesOnce, Receive
    PROVE  ClosesOnce'
<1> USE DEF implVars, writeVars, clientVars
<1>h. Handler \in Writers /\ writing \in [Writers -> {"idle", "closing", "header", "payload"}]
  BY HandlerIsLocal DEF ClosesOnce
<1>u. ASSUME writing' = writing, closes' = closes, open' \in {open, FALSE}, handler' # "frame"
      PROVE  ClosesOnce'
  BY <1>h, <1>u, OthersPreserve DEF Busy
<1>1. CASE TestOpen
  <2>1. CASE open
    <3>1. MayRun(Handler) /\ writing[Handler] = "idle" /\ UNCHANGED <<open, closes, writing>>
      BY <1>1 DEF TestOpen
    <3>2. \A v \in Writers : Busy(v)' => Busy(v) \/ v = Handler
      BY <3>1 DEF Busy
    <3> QED
      BY <1>h, <2>1, <3>1, <3>2, TestPreserves
  <2>2. CASE ~open
    BY <1>1, <1>u, <2>2 DEF TestOpen
  <2> QED
    BY <2>1, <2>2
<1>2. CASE Read \/ ReadReturned \/ ReadFailed \/ RecvPong
  BY <1>2, <1>u DEF Read, ReadReturned, ReadFailed, RecvPong, Continue
<1>3. CASE RecvPing
  <2>1. StartFrame(Handler, "pong") /\ open' = open /\ handler' = "receive"
    BY <1>3 DEF RecvPing, Continue
  <2>2. /\ writing' \in [Writers -> {"idle", "closing", "header", "payload"}]
        /\ closes' = closes /\ \A v \in Writers : Busy(v)' => Busy(v)
    BY <1>h, <2>1, Starts DEF Busy
  <2> QED
    BY <2>1, <2>2, OthersPreserve
<1>5. CASE RecvClose
  <2>1. handler = "frame" /\ StartFrame(Handler, "close") /\ open' = FALSE /\ handler' = "handler"
    BY <1>5 DEF RecvClose, NextFrame
  <2>2. /\ writing' \in [Writers -> {"idle", "closing", "header", "payload"}]
        /\ closes' = [closes EXCEPT ![Handler] = @ + 1]
        /\ writing'[Handler] = "header"
        /\ \A v \in Writers : v # Handler => writing'[v] = writing[v]
    BY <1>h, <2>1, Starts
  <2>3. Busy(Handler) /\ \A v \in Writers : Busy(v)' => Busy(v) /\ v # Handler
    BY <2>1, <2>2 DEF Busy
  <2> QED
    BY <1>h, <2>1, <2>2, <2>3, SendPreserves
<1>6. CASE RecvContinuation \/ RecvData
  <2>1. CASE Reject
    BY <1>6, <2>1, RejectPreserves DEF RecvContinuation, RecvData, NextFrame
  <2>2. CASE ~Reject
    <3>1. UNCHANGED <<open, writing, closes>> /\ handler' \in {"handler", "receive"}
      BY <1>6, <2>2 DEF RecvContinuation, RecvData, Deliver, Continue
    <3> QED
      BY <1>u, <3>1
  <2> QED
    BY <2>1, <2>2
<1> QED
  BY <1>1, <1>2, <1>3, <1>5, <1>6 DEF Receive

LEMMA WritersPreserve ==
    ASSUME ClosesOnce, NEW w \in Writers,
           CallSend(w) \/ CallClose(w) \/ ClearOpen(w) \/ Written(w)
    PROVE  ClosesOnce'
<1> USE DEF implVars, writeVars, clientVars
<1>h. Handler \in Writers /\ writing \in [Writers -> {"idle", "closing", "header", "payload"}]
  BY HandlerIsLocal DEF ClosesOnce
<1>1. CASE CallSend(w)
  <2>1. StartFrame(w, "text") /\ UNCHANGED <<open, handler>> /\ MayCall(w)
    BY <1>1 DEF CallSend
  <2>2. /\ writing' \in [Writers -> {"idle", "closing", "header", "payload"}]
        /\ closes' = closes /\ \A v \in Writers : Busy(v)' => Busy(v)
        /\ \A v \in Writers : v # w => writing'[v] = writing[v]
    BY <1>h, <2>1, Starts DEF Busy
  <2>3. handler' = "frame" => writing'[Handler] = "idle"
    BY <1>h, <2>1, <2>2 DEF MayCall, ClosesOnce
  <2> QED
    BY <2>1, <2>2, <2>3, OthersPreserve
<1>2. CASE CallClose(w)
  <2>1. /\ MayCall(w) /\ open /\ writing' = [writing EXCEPT ![w] = "closing"]
        /\ UNCHANGED <<open, handler, closes>>
    BY <1>2 DEF CallClose
  <2>2. handler' = "frame" => writing'[Handler] = "idle"
    BY <1>h, <2>1 DEF MayCall, ClosesOnce
  <2>3. \A v \in Writers : Busy(v)' => Busy(v) \/ v = w
    BY <1>h, <2>1 DEF Busy
  <2> QED
    BY <1>h, <2>1, <2>2, <2>3, TestPreserves DEF MayCall
<1>3. CASE ClearOpen(w)
  <2>1. writing[w] = "closing" /\ StartFrame(w, "close") /\ open' = FALSE /\ handler' = handler
    BY <1>3 DEF ClearOpen
  <2>2. /\ writing' \in [Writers -> {"idle", "closing", "header", "payload"}]
        /\ closes' = [closes EXCEPT ![w] = @ + 1]
        /\ writing'[w] = "header" /\ \A v \in Writers : v # w => writing'[v] = writing[v]
    BY <2>1, Starts
  <2>3. handler = "frame" => writing[Handler] = "idle" /\ w # Handler
    BY <2>1 DEF ClosesOnce
  <2>4. Busy(w) /\ \A v \in Writers : Busy(v)' => Busy(v) /\ v # w
    BY <2>1, <2>2, <2>3 DEF Busy
  <2> QED
    BY <1>h, <2>1, <2>2, <2>3, <2>4, SendPreserves
<1>4. CASE Written(w)
  <2>1. /\ writing[w] \in {"header", "payload"} /\ UNCHANGED <<open, handler, closes>>
        /\ \/ writing' = [writing EXCEPT ![w] = "payload"]
           \/ writing' = [writing EXCEPT ![w] = "idle"]
    BY <1>4 DEF Written, HeaderWritten, PayloadWritten, WriteFailed, EndFrame
  <2>2. handler' = "frame" => writing'[Handler] = "idle"
    BY <1>h, <2>1 DEF ClosesOnce
  <2>3. writing' \in [Writers -> {"idle", "closing", "header", "payload"}]
        /\ \A v \in Writers : Busy(v)' => Busy(v)
    BY <1>h, <2>1 DEF Busy
  <2> QED
    BY <2>1, <2>2, <2>3, OthersPreserve
<1> QED
  BY <1>1, <1>2, <1>3, <1>4

LEMMA ClosesOnceInductive ==
    ASSUME ClosesOnce, [Next]_vars
    PROVE  ClosesOnce'
<1> USE DEF implVars, writeVars, clientVars
<1>u. ASSUME writing' = writing, closes' = closes, open' = open,
             handler' = handler \/ handler' # "frame"
      PROVE  ClosesOnce'
  BY <1>u, OthersPreserve DEF ClosesOnce, Busy
<1>1. CASE Upgrade \/ CallReceive \/ Return
  BY <1>1, <1>u DEF Upgrade, CallReceive, Return
<1>2. CASE Receive
  BY <1>2, ReceivePreserves
<1>3. CASE Client
  BY <1>3, <1>u DEF Client, ClientControl, ClientData, ClientBreaks, ClientLeaves
<1>4. CASE \E w \in Writers : CallSend(w) \/ CallClose(w) \/ ClearOpen(w) \/ Written(w)
  BY <1>4, WritersPreserve
<1>5. CASE UNCHANGED vars
  BY <1>5, <1>u DEF vars
<1> QED
  BY <1>1, <1>2, <1>3, <1>4, <1>5 DEF Next, Ended

(* However many coroutines call close(), on whatever threads, and whatever *)
(* receive() is doing when they do: none sends a second Close frame, and   *)
(* those of the handler's thread send at most one between them.            *)
THEOREM CloseSentOnce == Safety => []OneCloseFrame
<1>1. Init => ClosesOnce
  <2> SUFFICES ASSUME Init PROVE ClosesOnce
    OBVIOUS
  <2>1. /\ closes \in [Writers -> {0, 1}] /\ open \in BOOLEAN /\ handler # "frame"
        /\ writing \in [Writers -> {"idle", "closing", "header", "payload"}]
    BY DEF Init
  <2>2. \A w \in Writers : ~Sent(w) /\ ~Busy(w)
    BY DEF Init, Sent, Busy
  <2> QED
    BY <2>1, <2>2, HandlerIsLocal DEF ClosesOnce
<1>2. ClosesOnce /\ [Next]_vars => ClosesOnce'
  BY ClosesOnceInductive
<1>3. ClosesOnce => OneCloseFrame
  BY HandlerIsLocal DEF ClosesOnce, OneCloseFrame, Sent
<1> QED
  BY <1>1, <1>2, <1>3, PTL DEF Safety

-----------------------------------------------------------------------------
(* Types, and the sizes that keep a message within the frames it came in.  *)

Frame == [op : DataOps \cup {"cont", "ping", "pong", "close"}, fin : BOOLEAN,
          data : Payloads]

Scalars ==
    /\ open \in BOOLEAN /\ conforming \in BOOLEAN /\ lost \in BOOLEAN
    /\ fragmentOp \in DataOps
    /\ handler \in {"upgrade", "handler", "receive", "frame", "reading", "ended"}
    /\ writing \in [Writers -> {"idle", "closing", "header", "payload"}]
    /\ frame \in [Writers -> {"none", "text", "pong", "close"}]
    /\ frames \in 0 .. MaxFrames
    /\ sends \in 0 .. MaxSends
    /\ closes \in [Writers -> Nat]

Contents ==
    /\ fragment \in Payloads
    /\ building \in Message \cup {NoMessage}
    /\ toServer \in Seq(Frame) /\ Len(toServer) <= MaxInFlight
    /\ sent \in Seq(Message) /\ received \in Seq(Message)

(* Data frame number k carries unit k if any, so what is joined never has  *)
(* more units than the client has sent frames.                             *)
Numbered ==
    /\ Len(fragment) <= frames
    /\ Len(building.data) <= frames
    /\ \A i \in 1 .. Len(toServer) :
          toServer[i].data # <<>> =>
             /\ Len(toServer[i].data) = 1
             /\ toServer[i].data[1] > Len(fragment)
             /\ toServer[i].data[1] \in 1 .. frames
    /\ \A i, j \in 1 .. Len(toServer) :
          i < j /\ toServer[i].data # <<>> /\ toServer[j].data # <<>> =>
             toServer[i].data[1] < toServer[j].data[1]

LEMMA Bounds == MaxMessage \in Nat /\ MaxFrames \in Nat /\ MaxInFlight \in Nat /\ MaxSends \in Nat
OBVIOUS

(* Lengths: of a sequence compared two ways, of fragments and the payload  *)
(* that is joined to them, and what follows in number u the payload's.     *)
LEMMA SameLength == \A a, b \in Nat : (a # 0 => a <= b) /\ (b # 0 => b <= a) => a = b
OBVIOUS

LEMMA JoinedLength ==
    \A a, b, n \in Nat : \A u :
        a <= n /\ (b = 0 \/ (b = 1 /\ u > a /\ u \in 1 .. n)) => a + b <= n
OBVIOUS

LEMMA NextNumber ==
    \A a, b, c, n \in Nat : \A u, v :
        /\ b = 0 \/ (b = 1 /\ u > a /\ u \in 1 .. n /\ u < v)
        /\ c <= a + b /\ v > a /\ v \in 1 .. n
        => v > c
OBVIOUS

LEMMA PayloadSeq == \A d : d \in Payloads <=> d \in Seq(1 .. MaxFrames) /\ Len(d) <= MaxFrames
<1>1. ASSUME NEW d \in Payloads PROVE d \in Seq(1 .. MaxFrames) /\ Len(d) <= MaxFrames
  <2>1. PICK n \in 0 .. MaxFrames : d \in [1 .. n -> 1 .. MaxFrames]
    BY DEF Payloads
  <2>2. n \in Nat /\ d \in Seq(1 .. MaxFrames)
    BY <2>1, SeqDef
  <2>3. Len(d) \in Nat /\ DOMAIN d = 1 .. Len(d) /\ DOMAIN d = 1 .. n
    BY <2>1, <2>2, LenProperties
  <2>4. Len(d) = n
    <3>1. \A k \in Nat \ {0} : k <= Len(d) <=> k <= n
      <4>1. PICK l \in Nat : l = Len(d)
        BY <2>3
      <4>2. 1 .. l = 1 .. n
        BY <2>3, <4>1, Zenon
      <4>3. \A k \in Nat \ {0} : k <= l <=> k <= n
        BY <2>2, <4>2
      <4> QED
        BY <4>1, <4>3, Zenon
    <3>2. Len(d) # 0 => Len(d) <= n
      BY <2>2, <2>3, <3>1
    <3>3. n # 0 => n <= Len(d)
      BY <2>2, <2>3, <3>1
    <3> QED
      BY <2>2, <2>3, <3>2, <3>3, SameLength, Zenon
  <2> QED
    BY <2>1, <2>2, <2>4
<1>2. ASSUME NEW d \in Seq(1 .. MaxFrames), Len(d) <= MaxFrames PROVE d \in Payloads
  <2>1. Len(d) \in 0 .. MaxFrames /\ d \in [1 .. Len(d) -> 1 .. MaxFrames]
    BY <1>2, LenProperties
  <2> QED
    BY <2>1 DEF Payloads
<1> QED
  BY <1>1, <1>2

(* Two payloads that fit together make one. *)
LEMMA Joined ==
    ASSUME NEW a \in Payloads, NEW b \in Payloads, Len(a) + Len(b) <= MaxFrames
    PROVE  a \o b \in Payloads /\ Len(a \o b) = Len(a) + Len(b)
BY PayloadSeq, ConcatProperties

LEMMA PayloadLength == \A d \in Payloads : Len(d) \in Nat /\ (d = <<>> <=> Len(d) = 0)
<1> SUFFICES ASSUME NEW d \in Payloads PROVE Len(d) \in Nat /\ (d = <<>> <=> Len(d) = 0)
  OBVIOUS
<1>1. d \in Seq(1 .. MaxFrames)
  BY PayloadSeq
<1> QED
  BY <1>1, LenProperties, EmptySeq

LEMMA Units ==
    /\ <<>> \in Payloads /\ Len(<<>>) = 0
    /\ \A k \in 1 .. MaxFrames : /\ <<k>> \in Payloads /\ Len(<<k>>) = 1
                                /\ <<k>>[1] = k /\ <<k>> # <<>>
<1>1. <<>> \in Seq(1 .. MaxFrames) /\ Len(<<>>) = 0
  BY EmptySeq
<1>2. ASSUME NEW k \in 1 .. MaxFrames
      PROVE  /\ <<k>> \in Payloads /\ Len(<<k>>) = 1
             /\ <<k>>[1] = k /\ <<k>> # <<>>
  <2>1. <<k>> \in Seq(1 .. MaxFrames) /\ Len(<<k>>) = 1 /\ <<k>>[1] = k /\ <<k>> # <<>>
    OBVIOUS
  <2>2. 1 <= MaxFrames
    OBVIOUS
  <2> QED
    BY <2>1, <2>2, PayloadSeq
<1>3. <<>> \in Payloads
  <2>1. 0 <= MaxFrames
    BY Bounds
  <2>2. Len(<<>>) <= MaxFrames
    BY <1>1, <2>1
  <2> QED
    BY <1>1, <2>2, PayloadSeq, Zenon
<1> QED
  BY <1>1, <1>2, <1>3

LEMMA TypesFollow == Scalars /\ Contents => TypeOK
<1> SUFFICES ASSUME Scalars, Contents PROVE TypeOK
  OBVIOUS
<1>1. /\ DOMAIN toServer = 1 .. Len(toServer) /\ \A i \in 1 .. Len(toServer) : toServer[i] \in Frame
      /\ DOMAIN sent = 1 .. Len(sent) /\ \A i \in 1 .. Len(sent) : sent[i] \in Message
      /\ DOMAIN received = 1 .. Len(received)
      /\ \A i \in 1 .. Len(received) : received[i] \in Message
  BY LenProperties, ElementOfSeq DEF Contents
<1>2. \A f \in Frame : /\ f.op \in DataOps \cup {"cont", "ping", "pong", "close"}
                       /\ f.fin \in BOOLEAN /\ f.data \in Payloads
  BY DEF Frame
<1> QED
  BY <1>1, <1>2 DEF Scalars, Contents, TypeOK

(* The frame that receive() takes, and what is left behind it. *)
LEMMA TakeFacts ==
    ASSUME Contents, toServer # <<>>, toServer' = Tail(toServer)
    PROVE  /\ Len(toServer) \in Nat \ {0}
           /\ Head(toServer) = toServer[1] /\ Head(toServer) \in Frame
           /\ toServer' \in Seq(Frame) /\ Len(toServer') = Len(toServer) - 1
           /\ \A i \in 1 .. Len(toServer') : toServer'[i] = toServer[i + 1]
<1>1. toServer \in Seq(Frame)
  BY DEF Contents
<1> QED
  BY <1>1, HeadTailProperties, EmptySeq

LEMMA FrameFields ==
    ASSUME NEW f \in Frame
    PROVE  /\ f.op \in DataOps \cup {"cont", "ping", "pong", "close"}
           /\ f.fin \in BOOLEAN /\ f.data \in Payloads /\ Len(f.data) \in Nat
BY PayloadLength DEF Frame

LEMMA HeadData ==
    ASSUME Scalars, Contents, Numbered, toServer # <<>>, toServer' = Tail(toServer),
           NEW data, data = Head(toServer).data
    PROVE  /\ data \in Payloads /\ Len(data) \in Nat
           /\ fragment \in Payloads /\ Len(fragment) \in Nat
           /\ \/ Len(data) = 0
              \/ Len(data) = 1 /\ data # <<>> /\ data[1] > Len(fragment) /\ data[1] \in 1 .. frames
<1>1. data \in Payloads /\ Len(data) \in Nat /\ (data = <<>> <=> Len(data) = 0)
  BY TakeFacts, FrameFields, PayloadLength
<1>2. fragment \in Payloads /\ Len(fragment) \in Nat
  BY PayloadLength DEF Contents
<1>3. data = toServer[1].data /\ 1 \in 1 .. Len(toServer)
  BY TakeFacts
<1>4. data # <<>> => Len(data) = 1 /\ data[1] > Len(fragment) /\ data[1] \in 1 .. frames
  BY <1>3 DEF Numbered
<1> QED
  BY <1>1, <1>2, <1>4

(* The first frame's payload can be joined to the fragments. *)
LEMMA JoinedFragment ==
    ASSUME Scalars, Contents, Numbered, toServer # <<>>, toServer' = Tail(toServer)
    PROVE  /\ fragment \o Head(toServer).data \in Payloads
           /\ Len(fragment \o Head(toServer).data) = Len(fragment) + Len(Head(toServer).data)
<1>1. PICK data : data = Head(toServer).data
  OBVIOUS
<1>2. frames \in Nat /\ frames <= MaxFrames /\ Len(fragment) <= frames
  BY DEF Scalars, Numbered
<1>3. /\ data \in Payloads /\ Len(data) \in Nat /\ fragment \in Payloads /\ Len(fragment) \in Nat
      /\ Len(data) = 0 \/ (Len(data) = 1 /\ data[1] > Len(fragment) /\ data[1] \in 1 .. frames)
  BY <1>1, HeadData
<1>4. PICK n \in Nat : n = frames
  BY <1>2
<1>5. Len(fragment) + Len(data) <= n
  BY <1>2, <1>3, <1>4, JoinedLength, Zenon
<1>6. Len(fragment) + Len(data) <= MaxFrames
  <2>1. PICK l \in Nat : l = Len(fragment) + Len(data)
    BY <1>3
  <2> QED
    BY <1>2, <1>4, <1>5, <2>1, Bounds
<1> QED
  BY <1>1, <1>3, <1>6, Joined

(* Taking a frame and keeping at most its payload keeps the numbers right. *)
LEMMA TakeNumbered ==
    ASSUME Scalars, Contents, Numbered, toServer # <<>>, toServer' = Tail(toServer),
           UNCHANGED <<frames, building>>,
           fragment' \in {fragment, <<>>, Head(toServer).data, fragment \o Head(toServer).data}
    PROVE  Numbered' /\ fragment' \in Payloads
<1>1. PICK data : data = Head(toServer).data
  OBVIOUS
<1>2. /\ data \in Payloads /\ Len(data) \in Nat /\ fragment \in Payloads /\ Len(fragment) \in Nat
      /\ \/ Len(data) = 0
         \/ Len(data) = 1 /\ data # <<>> /\ data[1] > Len(fragment) /\ data[1] \in 1 .. frames
  BY <1>1, HeadData
<1>3. /\ fragment' \in Payloads /\ Len(fragment') \in Nat
      /\ Len(fragment') <= Len(fragment) + Len(data)
  <2>1. CASE fragment' = fragment \o data
    BY <1>1, <1>2, <2>1, JoinedFragment
  <2>2. CASE fragment' \in {fragment, <<>>, data}
    BY <1>2, <2>2, Units
  <2> QED
    BY <1>1, <2>1, <2>2
<1>4. frames \in Nat /\ Len(fragment) <= frames /\ Len(building.data) <= frames
  BY DEF Scalars, Numbered
<1>5. Len(fragment') <= frames
  <2>1. Len(fragment) + Len(data) <= frames
    BY <1>2, <1>4, JoinedLength, Zenon
  <2>2. PICK l \in Nat : l = Len(fragment')
    BY <1>3
  <2>3. PICK m \in Nat : m = Len(fragment) + Len(data)
    BY <1>2
  <2>4. l <= m /\ m <= frames
    BY <1>3, <2>1, <2>2, <2>3, Zenon
  <2>5. l <= frames
    BY <1>4, <2>4
  <2> QED
    BY <2>2, <2>5, Zenon
<1>6. ASSUME NEW i \in 1 .. Len(toServer'), toServer'[i].data # <<>>
      PROVE  /\ Len(toServer'[i].data) = 1
             /\ toServer'[i].data[1] > Len(fragment')
             /\ toServer'[i].data[1] \in 1 .. frames'
  <2>1. /\ toServer'[i] = toServer[i + 1] /\ Head(toServer) = toServer[1]
        /\ i + 1 \in 1 .. Len(toServer) /\ 1 \in 1 .. Len(toServer) /\ 1 < i + 1
    BY TakeFacts
  <2>2. /\ Len(toServer[i + 1].data) = 1 /\ toServer[i + 1].data[1] > Len(fragment)
        /\ toServer[i + 1].data[1] \in 1 .. frames
        /\ data # <<>> => data[1] < toServer[i + 1].data[1]
    BY <1>1, <1>6, <2>1 DEF Numbered
  <2>3. toServer[i + 1].data[1] > Len(fragment')
    BY <1>2, <1>3, <1>4, <2>2, NextNumber, Zenon
  <2> QED
    BY <2>1, <2>2, <2>3
<1>7. ASSUME NEW i \in 1 .. Len(toServer'), NEW j \in 1 .. Len(toServer'),
             i < j, toServer'[i].data # <<>>, toServer'[j].data # <<>>
      PROVE  toServer'[i].data[1] < toServer'[j].data[1]
  <2>1. /\ toServer'[i] = toServer[i + 1] /\ toServer'[j] = toServer[j + 1]
        /\ i + 1 \in 1 .. Len(toServer) /\ j + 1 \in 1 .. Len(toServer) /\ i + 1 < j + 1
    BY <1>7, TakeFacts
  <2> QED
    BY <1>7, <2>1 DEF Numbered
<1> QED
  BY <1>3, <1>4, <1>5, <1>6, <1>7 DEF Numbered

(* A frame of the client's, numbered after all that are on their way.      *)
LEMMA AppendNumbered ==
    ASSUME Scalars, Contents, Numbered, NEW f \in Frame,
           Len(toServer) < MaxInFlight, toServer' = Append(toServer, f),
           UNCHANGED fragment, frames' \in {frames, frames + 1},
           f.data = <<>> \/ (f.data = <<frames + 1>> /\ frames' = frames + 1),
           frames' <= MaxFrames, Len(building'.data) <= frames'
    PROVE  Numbered' /\ toServer' \in Seq(Frame) /\ Len(toServer') <= MaxInFlight
<1>1. PICK s \in Nat : s = Len(toServer)
  BY LenProperties DEF Contents
<1>2. PICK n \in Nat : n = frames
  BY DEF Scalars
<1>3. /\ toServer' \in Seq(Frame) /\ Len(toServer') = s + 1
      /\ toServer'[s + 1] = f
      /\ \A i \in 1 .. s : toServer'[i] = toServer[i]
  BY <1>1, AppendProperties DEF Contents
<1>4. s + 1 <= MaxInFlight
  BY <1>1, Bounds
<1>5. f.data # <<>> => Len(f.data) = 1 /\ f.data[1] = n + 1 /\ frames' = n + 1
  <2> SUFFICES ASSUME f.data # <<>> PROVE Len(f.data) = 1 /\ f.data[1] = n + 1 /\ frames' = n + 1
    OBVIOUS
  <2>1. f.data = <<n + 1>> /\ frames' = n + 1 /\ n + 1 \in Nat
    BY <1>2
  <2> QED
    BY <2>1
<1>6. frames' \in Nat /\ n <= frames' /\ n + 1 \in 1 .. n + 1
  BY <1>2
<1>7. PICK l \in Nat : l = Len(fragment)
  BY PayloadLength DEF Contents
<1>8. l <= n
  BY <1>2, <1>7 DEF Numbered
<1>9. Len(fragment') <= frames'
  BY <1>6, <1>7, <1>8
<1>10. \A i \in 1 .. s : toServer[i].data # <<>> =>
          /\ Len(toServer[i].data) = 1 /\ toServer[i].data[1] > l
          /\ toServer[i].data[1] \in 1 .. n
  BY <1>1, <1>2, <1>7 DEF Numbered
<1>11. ASSUME NEW i \in 1 .. s + 1, toServer'[i].data # <<>>
       PROVE  /\ Len(toServer'[i].data) = 1 /\ toServer'[i].data[1] > l
              /\ toServer'[i].data[1] \in 1 .. frames'
  <2>1. CASE i = s + 1
    <3>1. Len(f.data) = 1 /\ f.data[1] = n + 1 /\ frames' = n + 1
      BY <1>3, <1>5, <1>11, <2>1
    <3>2. n + 1 > l
      BY <1>8
    <3> QED
      BY <1>3, <1>6, <2>1, <3>1, <3>2
  <2>2. CASE i \in 1 .. s
    <3>1. /\ Len(toServer[i].data) = 1 /\ toServer[i].data[1] > l
          /\ toServer[i].data[1] \in 1 .. n
      BY <1>3, <1>10, <1>11, <2>2
    <3> QED
      BY <1>3, <1>6, <2>2, <3>1
  <2>3. i = s + 1 \/ i \in 1 .. s
    OBVIOUS
  <2> QED
    BY <2>1, <2>2, <2>3, Zenon
<1>12. ASSUME NEW i \in 1 .. s + 1, NEW j \in 1 .. s + 1, i < j,
              toServer'[i].data # <<>>, toServer'[j].data # <<>>
       PROVE  toServer'[i].data[1] < toServer'[j].data[1]
  <2>1. i \in 1 .. s
    BY <1>12
  <2>2. CASE j = s + 1
    <3>1. toServer[i].data[1] \in 1 .. n
      BY <1>3, <1>10, <1>12, <2>1
    <3>2. f.data[1] = n + 1
      BY <1>3, <1>5, <1>12, <2>2
    <3>3. toServer'[i] = toServer[i] /\ toServer'[j] = f
      <4>1. toServer'[i] = toServer[i]
        BY <1>3, <2>1, Zenon
      <4>2. toServer'[s + 1] = f
        BY <1>3, Zenon
      <4> QED
        BY <2>2, <4>1, <4>2, Zenon
    <3>4. toServer[i].data[1] < n + 1
      <4> DEFINE a == toServer[i].data[1]
      <4>1. a \in 1 .. n
        BY <3>1
      <4> HIDE DEF a
      <4>2. a < n + 1
        BY <4>1
      <4> QED
        BY <4>2 DEF a
    <3> QED
      BY <3>2, <3>3, <3>4
  <2>3. CASE j \in 1 .. s
    BY <1>1, <1>3, <1>12, <2>1, <2>3 DEF Numbered
  <2>4. j = s + 1 \/ j \in 1 .. s
    OBVIOUS
  <2> QED
    BY <2>2, <2>3, <2>4, Zenon
<1> QED
  BY <1>3, <1>4, <1>7, <1>9, <1>11, <1>12 DEF Numbered

WriteTypes ==
    /\ writing \in [Writers -> {"idle", "closing", "header", "payload"}]
    /\ frame \in [Writers -> {"none", "text", "pong", "close"}]
    /\ closes \in [Writers -> Nat]

LEMMA StartTypes ==
    ASSUME WriteTypes, NEW w \in Writers, NEW kind \in {"text", "pong", "close"},
           StartFrame(w, kind)
    PROVE  WriteTypes'
BY DEF StartFrame, WriteTypes

LEMMA EndTypes ==
    ASSUME WriteTypes, NEW w \in Writers, Written(w)
    PROVE  WriteTypes' /\ UNCHANGED <<implVars, sends, toServer, clientVars, received>>
BY DEF Written, HeaderWritten, PayloadWritten, WriteFailed, EndFrame, WriteTypes

LEMMA ScalarsInductive == Scalars /\ Contents /\ [Next]_vars => Scalars'
<1> SUFFICES ASSUME Scalars, Contents, [Next]_vars PROVE Scalars'
  OBVIOUS
<1> USE DEF implVars, writeVars, clientVars
<1>w. WriteTypes /\ Handler \in Writers
  BY DEF Scalars, WriteTypes, Writers
<1>u. ASSUME UNCHANGED writeVars PROVE WriteTypes'
  BY <1>w, <1>u DEF WriteTypes
<1>1. CASE Upgrade \/ CallReceive \/ Return
  BY <1>1 DEF Upgrade, CallReceive, Return, Scalars
<1>2. CASE Receive
  <2>1. CASE TestOpen \/ Read \/ ReadReturned \/ ReadFailed
    BY <2>1 DEF TestOpen, Read, ReadReturned, ReadFailed, Scalars
  <2>2. CASE RecvPing
    <3>1. WriteTypes' /\ handler' = "receive"
          /\ UNCHANGED <<open, fragment, fragmentOp, sends, clientVars>>
      BY <1>w, <2>2, StartTypes DEF RecvPing, Continue
    <3> QED
      BY <3>1 DEF Scalars, WriteTypes
  <2>3. CASE RecvPong
    BY <2>3 DEF RecvPong, Continue, Scalars
  <2>4. CASE RecvClose
    <3>1. WriteTypes' /\ open' = FALSE /\ handler' = "handler"
          /\ UNCHANGED <<fragmentOp, sends, clientVars>>
      BY <1>w, <2>4, StartTypes DEF RecvClose
    <3> QED
      BY <3>1 DEF Scalars, WriteTypes
  <2>r. ASSUME Reject
        PROVE  WriteTypes' /\ handler' = "handler" /\ UNCHANGED <<open, fragmentOp, sends>>
    BY <1>w, <2>r DEF Reject, WriteTypes
  <2>5. CASE RecvContinuation
    <3>1. /\ WriteTypes' /\ handler' \in {"receive", "handler"}
          /\ UNCHANGED <<open, fragmentOp, sends, clientVars>>
      BY <1>u, <2>r, <2>5 DEF RecvContinuation, Deliver, Continue
    <3> QED
      BY <3>1 DEF Scalars, WriteTypes
  <2>6. CASE RecvData
    <3>1. Head(toServer).op \in DataOps
      BY <2>6 DEF RecvData, NextFrame
    <3>2. /\ WriteTypes' /\ handler' \in {"receive", "handler"}
          /\ fragmentOp' \in {fragmentOp, Head(toServer).op}
          /\ UNCHANGED <<open, sends, clientVars>>
      BY <1>u, <2>r, <2>6 DEF RecvData, Deliver, Continue
    <3> QED
      BY <3>1, <3>2 DEF Scalars, WriteTypes
  <2> QED
    BY <1>2, <2>1, <2>2, <2>3, <2>4, <2>5, <2>6 DEF Receive
<1>3. CASE Client
  <2>1. /\ UNCHANGED <<implVars, writeVars>>
        /\ conforming' \in {conforming, FALSE} /\ lost' \in {lost, TRUE}
        /\ frames' = frames \/ (frames < MaxFrames /\ frames' = frames + 1)
    BY <1>3 DEF Client, ClientControl, ClientData, ClientBreaks, ClientLeaves
  <2>2. frames' \in 0 .. MaxFrames
    BY <2>1, Bounds DEF Scalars
  <2> QED
    BY <2>1, <2>2 DEF Scalars
<1>4. CASE \E w \in Writers : CallSend(w) \/ CallClose(w) \/ ClearOpen(w) \/ Written(w)
  <2>1. PICK w \in Writers : CallSend(w) \/ CallClose(w) \/ ClearOpen(w) \/ Written(w)
    BY <1>4
  <2>2. CASE CallSend(w)
    <3>1. WriteTypes' /\ UNCHANGED <<implVars, clientVars>>
          /\ sends < MaxSends /\ sends' = sends + 1
      BY <1>w, <2>2, StartTypes DEF CallSend
    <3>2. sends' \in 0 .. MaxSends
      BY <3>1, Bounds DEF Scalars
    <3> QED
      BY <3>1, <3>2 DEF Scalars, WriteTypes
  <2>3. CASE CallClose(w)
    <3>1. WriteTypes' /\ UNCHANGED <<implVars, sends, clientVars>>
      BY <1>w, <2>3 DEF CallClose, WriteTypes
    <3> QED
      BY <3>1 DEF Scalars, WriteTypes
  <2>5. CASE ClearOpen(w)
    <3>1. WriteTypes' /\ open' = FALSE /\ UNCHANGED <<fragmentOp, handler, sends, clientVars>>
      BY <1>w, <2>5, StartTypes DEF ClearOpen
    <3> QED
      BY <3>1 DEF Scalars, WriteTypes
  <2>4. CASE Written(w)
    <3>1. WriteTypes' /\ UNCHANGED <<implVars, sends, clientVars>>
      BY <1>w, <2>4, EndTypes
    <3> QED
      BY <3>1 DEF Scalars, WriteTypes
  <2> QED
    BY <2>1, <2>2, <2>3, <2>4, <2>5
<1>5. CASE UNCHANGED vars
  BY <1>5 DEF vars, Scalars
<1> QED
  BY <1>1, <1>2, <1>3, <1>4, <1>5 DEF Next, Ended

Placed == Contents /\ Numbered

LEMMA MessageFields ==
    /\ NoMessage.op = "none" /\ NoMessage.data = <<>>
    /\ \A m \in Message : m.op \in DataOps /\ m.data \in Payloads
    /\ \A op \in DataOps, d \in Payloads : [op |-> op, data |-> d] \in Message
BY DEF NoMessage, Message

(* Nothing that is in flight, joined or delivered changes.                 *)
LEMMA UnaffectedPlaced ==
    ASSUME Placed, UNCHANGED <<fragment, building, toServer, frames, sent, received>>
    PROVE  Placed'
BY DEF Placed, Contents, Numbered

(* receive() takes a frame and may deliver what it has.                    *)
LEMMA TakePlaced ==
    ASSUME Scalars, Placed, toServer # <<>>, toServer' = Tail(toServer),
           UNCHANGED <<frames, building, sent>>,
           fragment' \in {fragment, <<>>, Head(toServer).data, fragment \o Head(toServer).data},
           received' = received \/ \E m \in Message : received' = Append(received, m)
    PROVE  Placed'
<1>1. Numbered' /\ fragment' \in Payloads
  BY TakeNumbered DEF Placed
<1>2. toServer' \in Seq(Frame) /\ Len(toServer') <= MaxInFlight
  <2>1. toServer' \in Seq(Frame) /\ Len(toServer') = Len(toServer) - 1 /\ Len(toServer) \in Nat
    BY TakeFacts DEF Placed
  <2>2. PICK s \in Nat : s = Len(toServer)
    BY <2>1
  <2> QED
    BY <2>1, <2>2, Bounds DEF Placed, Contents
<1>3. received' \in Seq(Message)
  <2>1. received \in Seq(Message)
    BY DEF Placed, Contents
  <2>2. \A m \in Message : Append(received, m) \in Seq(Message)
    BY <2>1, AppendProperties
  <2> QED
    BY <2>1, <2>2, Zenon
<1> QED
  BY <1>1, <1>2, <1>3 DEF Placed, Contents

LEMMA ReceivePlaced ==
    ASSUME Scalars, Placed, Receive
    PROVE  Placed'
<1> USE DEF implVars, writeVars, clientVars
<1>1. CASE TestOpen \/ Read \/ ReadReturned \/ ReadFailed
  BY <1>1, UnaffectedPlaced DEF TestOpen, Read, ReadReturned, ReadFailed
<1>2. CASE RecvPing \/ RecvPong \/ RecvClose
  BY <1>2, TakePlaced DEF RecvPing, RecvPong, RecvClose, NextFrame
<1>f. ASSUME toServer # <<>>, toServer' = Tail(toServer)
      PROVE  Head(toServer).data \in Payloads /\ fragment \o Head(toServer).data \in Payloads
  BY <1>f, TakeFacts, FrameFields, JoinedFragment DEF Placed
<1>3. CASE RecvContinuation
  <2>1. PICK data : data = fragment \o Head(toServer).data
    OBVIOUS
  <2>2. /\ toServer # <<>> /\ toServer' = Tail(toServer)
        /\ UNCHANGED <<frames, building, sent>>
        /\ fragment' \in {<<>>, data}
        /\ received' = received \/ received' = Append(received, [op |-> fragmentOp, data |-> data])
    BY <1>3, <2>1 DEF RecvContinuation, NextFrame, Reject, Deliver, ClearFragments
  <2>3. [op |-> fragmentOp, data |-> data] \in Message
    BY <1>f, <2>1, <2>2, MessageFields DEF Scalars
  <2> QED
    BY <2>1, <2>2, <2>3, TakePlaced
<1>4. CASE RecvData
  <2>1. PICK f : f = Head(toServer)
    OBVIOUS
  <2>2. /\ toServer # <<>> /\ toServer' = Tail(toServer) /\ f.op \in DataOps
        /\ UNCHANGED <<frames, building, sent>>
        /\ fragment' \in {fragment, f.data}
        /\ received' = received \/ received' = Append(received, [op |-> f.op, data |-> f.data])
    BY <1>4, <2>1 DEF RecvData, NextFrame, Reject, Deliver
  <2>3. [op |-> f.op, data |-> f.data] \in Message
    BY <1>f, <2>1, <2>2, MessageFields
  <2> QED
    BY <2>1, <2>2, <2>3, TakePlaced
<1> QED
  BY <1>1, <1>2, <1>3, <1>4 DEF Receive

(* A data frame carries nothing, or the unit of its number.                *)
LEMMA DataFrame ==
    ASSUME Scalars, frames < MaxFrames,
           NEW op \in DataOps \cup {"cont"}, NEW fin \in BOOLEAN,
           NEW data \in {<<>>, <<frames + 1>>}
    PROVE  /\ [op |-> op, fin |-> fin, data |-> data] \in Frame
           /\ data \in Payloads /\ Len(data) \in {0, 1}
           /\ frames + 1 \in 1 .. MaxFrames
<1>1. frames + 1 \in 1 .. MaxFrames
  BY Bounds DEF Scalars
<1>2. data \in Payloads /\ Len(data) \in {0, 1}
  BY <1>1, Units
<1> QED
  BY <1>1, <1>2 DEF Frame

(* The message the client is in the middle of, with one more payload.      *)
LEMMA BuildingGrows ==
    ASSUME Scalars, Placed, frames < MaxFrames, NEW data \in Payloads, Len(data) \in {0, 1}
    PROVE  /\ building.data \o data \in Payloads
           /\ Len(building.data \o data) <= frames + 1
           /\ Len(building.data) <= Len(building.data \o data)
<1>1. building.data \in Payloads
  BY MessageFields, Units DEF Placed, Contents
<1>2. PICK n \in Nat : n = frames
  BY DEF Scalars
<1>3. PICK b \in Nat : b = Len(building.data)
  BY <1>1, PayloadLength
<1>4. b <= n /\ n + 1 <= MaxFrames
  BY <1>2, <1>3, Bounds DEF Placed, Numbered
<1>5. PICK l \in {0, 1} : l = Len(data)
  OBVIOUS
<1>6. b + l <= n + 1 /\ b + l <= MaxFrames /\ b <= b + l
  BY <1>4, <1>5, Bounds
<1>7. Len(building.data) + Len(data) <= MaxFrames
  BY <1>3, <1>5, <1>6, Zenon
<1>8. /\ building.data \o data \in Payloads
      /\ Len(building.data \o data) = Len(building.data) + Len(data)
  BY <1>1, <1>7, Joined, Zenon
<1>9. Len(building.data \o data) = b + l
  BY <1>3, <1>5, <1>8, Zenon
<1> QED
  BY <1>2, <1>3, <1>4, <1>6, <1>8, <1>9, Zenon

(* The payload of the message under way has room for what is in flight.    *)
LEMMA BuildingLength ==
    ASSUME Scalars, Placed
    PROVE  Len(building.data) <= frames /\ Len(building.data) <= frames + 1
<1>1. building.data \in Payloads
  BY MessageFields, Units DEF Placed, Contents
<1>2. PICK n \in Nat : n = frames
  BY DEF Scalars
<1>3. PICK b \in Nat : b = Len(building.data)
  BY <1>1, PayloadLength
<1>4. b <= n
  BY <1>2, <1>3 DEF Placed, Numbered
<1>5. b <= n + 1
  BY <1>4
<1> QED
  BY <1>2, <1>3, <1>4, <1>5, Zenon

LEMMA ClientPlaced ==
    ASSUME Scalars, Placed, Client
    PROVE  Placed'
<1> USE DEF implVars, writeVars, clientVars
<1>b. Len(building.data) <= frames /\ Len(building.data) <= frames + 1
  BY BuildingLength
<1>n. frames \in Nat /\ frames <= MaxFrames
  BY DEF Scalars
<1>1. CASE ClientControl
  <2>1. PICK op \in {"ping", "pong", "close"} :
           ClientSends([op |-> op, fin |-> TRUE, data |-> <<>>])
    BY <1>1 DEF ClientControl
  <2>2. PICK f \in Frame : f.data = <<>> /\ ClientSends(f)
    BY <2>1, Units DEF Frame
  <2>3. /\ Len(toServer) < MaxInFlight /\ toServer' = Append(toServer, f)
        /\ UNCHANGED <<fragment, frames, building, sent, received>>
    BY <1>1, <2>2 DEF ClientControl, ClientSends
  <2>4. Len(building'.data) <= frames'
    BY <1>b, <2>3
  <2>5. Numbered' /\ toServer' \in Seq(Frame) /\ Len(toServer') <= MaxInFlight
    BY <1>n, <2>2, <2>3, <2>4, AppendNumbered DEF Placed
  <2> QED
    BY <2>3, <2>5 DEF Placed, Contents
<1>d. ASSUME frames < MaxFrames, NEW op \in DataOps \cup {"cont"}, NEW fin \in BOOLEAN,
             NEW data \in {<<>>, <<frames + 1>>},
             ClientSends([op |-> op, fin |-> fin, data |-> data]),
             frames' = frames + 1, UNCHANGED fragment, Len(building'.data) <= frames'
      PROVE  Numbered' /\ toServer' \in Seq(Frame) /\ Len(toServer') <= MaxInFlight
  <2>1. PICK f : f = [op |-> op, fin |-> fin, data |-> data]
    OBVIOUS
  <2>2. f \in Frame /\ f.data = data /\ frames + 1 \in 1 .. MaxFrames
    BY <1>d, <2>1, DataFrame
  <2>3. /\ Len(toServer) < MaxInFlight /\ toServer' = Append(toServer, f)
    BY <1>d, <2>1 DEF ClientSends
  <2>4. frames' \in {frames, frames + 1} /\ frames' <= MaxFrames
    BY <1>d, <2>2
  <2>5. f.data = <<>> \/ (f.data = <<frames + 1>> /\ frames' = frames + 1)
    BY <1>d, <2>2
  <2> QED
    BY <1>d, <2>2, <2>3, <2>4, <2>5, AppendNumbered DEF Placed
<1>2. CASE ClientData
  <2>1. PICK op \in IF building = NoMessage THEN DataOps ELSE {"cont"},
             fin \in BOOLEAN, data \in {<<>>, <<frames + 1>>} :
          LET m == [op |-> IF op = "cont" THEN building.op ELSE op,
                    data |-> building.data \o data]
          IN  /\ ClientSends([op |-> op, fin |-> fin, data |-> data])
              /\ building' = IF fin THEN NoMessage ELSE m
              /\ sent' = IF fin THEN Append(sent, m) ELSE sent
    BY <1>2 DEF ClientData
  <2>2. /\ frames < MaxFrames /\ frames' = frames + 1
        /\ UNCHANGED <<fragment, received>> /\ op \in DataOps \cup {"cont"}
    BY <1>2, <2>1 DEF ClientData
  <2>3. data \in Payloads /\ Len(data) \in {0, 1}
    BY <2>2, DataFrame
  <2>4. PICK m : m = [op |-> IF op = "cont" THEN building.op ELSE op,
                      data |-> building.data \o data]
    OBVIOUS
  <2>5. m.data \in Payloads /\ Len(m.data) <= frames + 1
    BY <2>2, <2>3, <2>4, BuildingGrows
  <2>6. m \in Message
    <3>1. op = "cont" => building # NoMessage
      BY <2>1 DEF DataOps
    <3>2. building # NoMessage => building.op \in DataOps
      BY MessageFields DEF Placed, Contents
    <3>3. (IF op = "cont" THEN building.op ELSE op) \in DataOps
      BY <2>2, <3>1, <3>2
    <3> QED
      BY <2>4, <2>5, <3>3, MessageFields
  <2>7. building' \in {NoMessage, m} /\ sent' \in {sent, Append(sent, m)}
    BY <2>1, <2>4
  <2>8. Len(building'.data) <= frames'
    <3>1. Len(NoMessage.data) = 0 /\ 0 <= frames + 1
      BY <1>n, MessageFields, Units
    <3> QED
      BY <2>2, <2>5, <2>7, <3>1
  <2>9. Numbered' /\ toServer' \in Seq(Frame) /\ Len(toServer') <= MaxInFlight
    BY <1>d, <2>1, <2>2, <2>8
  <2>10. sent' \in Seq(Message) /\ building' \in Message \cup {NoMessage}
    <3>1. sent \in Seq(Message)
      BY DEF Placed, Contents
    <3> QED
      BY <2>6, <2>7, <3>1, AppendProperties
  <2> QED
    BY <2>2, <2>9, <2>10 DEF Placed, Contents
<1>3. CASE ClientBreaks
  <2>1. PICK op \in IF building = NoMessage THEN {"cont"} ELSE DataOps,
             fin \in BOOLEAN, data \in {<<>>, <<frames + 1>>} :
          ClientSends([op |-> op, fin |-> fin, data |-> data])
    BY <1>3 DEF ClientBreaks
  <2>2. /\ frames < MaxFrames /\ frames' = frames + 1 /\ op \in DataOps \cup {"cont"}
        /\ UNCHANGED <<fragment, building, sent, received>>
    BY <1>3, <2>1 DEF ClientBreaks
  <2>3. Len(building'.data) <= frames'
    BY <1>b, <2>2
  <2>4. Numbered' /\ toServer' \in Seq(Frame) /\ Len(toServer') <= MaxInFlight
    BY <1>d, <2>1, <2>2, <2>3
  <2> QED
    BY <2>2, <2>4 DEF Placed, Contents
<1>4. CASE ClientLeaves
  <2>1. /\ toServer' \in {toServer, <<>>}
        /\ UNCHANGED <<fragment, building, frames, sent, received>>
    BY <1>4 DEF ClientLeaves
  <2>2. CASE toServer' = toServer
    BY <2>1, <2>2, UnaffectedPlaced
  <2>3. CASE toServer' = <<>>
    <3>1. toServer' \in Seq(Frame) /\ Len(toServer') = 0 /\ 1 .. Len(toServer') = {}
      BY <2>3, EmptySeq
    <3>2. Len(toServer') <= MaxInFlight
      BY <3>1, Bounds
    <3> QED
      BY <2>1, <3>1, <3>2 DEF Placed, Contents, Numbered
  <2> QED
    BY <2>1, <2>2, <2>3
<1> QED
  BY <1>1, <1>2, <1>3, <1>4 DEF Client

LEMMA PlacedInductive == Scalars /\ Placed /\ [Next]_vars => Placed'
<1> SUFFICES ASSUME Scalars, Placed, [Next]_vars PROVE Placed'
  OBVIOUS
<1> USE DEF implVars, writeVars, clientVars
<1>1. CASE Upgrade \/ CallReceive \/ Return
  BY <1>1, UnaffectedPlaced DEF Upgrade, CallReceive, Return
<1>2. CASE \E w \in Writers : CallSend(w) \/ CallClose(w) \/ ClearOpen(w) \/ Written(w)
  BY <1>2, UnaffectedPlaced
     DEF CallSend, CallClose, ClearOpen, Written, HeaderWritten, PayloadWritten, WriteFailed
<1>3. CASE UNCHANGED vars
  BY <1>3, UnaffectedPlaced DEF vars
<1> QED
  BY <1>1, <1>2, <1>3, ReceivePlaced, ClientPlaced DEF Next, Ended

-----------------------------------------------------------------------------
(* receive() implements the channel.  Every frame on its way is accounted  *)
(* for: msg[i] is the message under way after the first i of them, and     *)
(* cnt[i] the number of messages complete by then.                         *)

Whole(f, m) == [op |-> IF f.op = "cont" THEN m.op ELSE f.op, data |-> m.data \o f.data]

(* Frame f takes the message m under way after n messages to m2 and n2,    *)
(* when s are the messages the client has finished.                        *)
Advance(f, m, n, m2, n2, s) ==
    IF f.op \in {"ping", "pong", "close"}
      THEN m2 = m /\ n2 = n
      ELSE /\ f.op = "cont" <=> m # NoMessage
           /\ IF f.fin
                THEN n2 = n + 1 /\ n2 \in 1 .. Len(s) /\ s[n2] = Whole(f, m) /\ m2 = NoMessage
                ELSE n2 = n /\ m2 = Whole(f, m)

(* The client has sent a message that is at least as long.                 *)
Reached(m, b, s) ==
    Len(m.data) <= Len(b.data) \/ \E j \in 1 .. Len(s) : Len(m.data) <= Len(s[j].data)

Joining(m) ==
    IF m = NoMessage THEN fragment = <<>>
                     ELSE fragment = m.data /\ fragmentOp = m.op

Under == Message \cup {NoMessage}

Trace(msg, cnt) ==
    /\ Joining(msg[0]) /\ cnt[0] = Len(received)
    /\ \A i \in 1 .. Len(toServer) :
          Advance(toServer[i], msg[i - 1], cnt[i - 1], msg[i], cnt[i], sent)
    /\ ~lost => msg[Len(toServer)] = building /\ cnt[Len(toServer)] = Len(sent)
    /\ \A i \in 0 .. Len(toServer) : Reached(msg[i], building, sent)

(* Frames are followed while receive() may still take them.                *)
Following ==
    conforming /\ (handler = "frame" \/ (open /\ writing[Handler] # "closing"))

Conveyed ==
    Following =>
        \E msg \in [0 .. Len(toServer) -> Under], cnt \in [0 .. Len(toServer) -> Nat] :
            Trace(msg, cnt)

LEMMA UnaffectedConveyed ==
    ASSUME Conveyed, Following' => Following, lost => lost',
           UNCHANGED <<fragment, fragmentOp, building, toServer, sent, received>>
    PROVE  Conveyed'
BY DEF Conveyed, Trace, Joining

(* Messages finished later change nothing about frames sent before.        *)
LEMMA AdvanceKept ==
    ASSUME NEW f, NEW m, NEW n, NEW m2, NEW n2, NEW s \in Seq(Message), NEW x \in Message,
           Advance(f, m, n, m2, n2, s)
    PROVE  Advance(f, m, n, m2, n2, Append(s, x))
<1>1. PICK l \in Nat : l = Len(s)
  BY LenProperties
<1>2. Len(Append(s, x)) = l + 1 /\ \A i \in 1 .. l : Append(s, x)[i] = s[i]
  BY <1>1, AppendProperties
<1>3. n2 \in 1 .. l => n2 \in 1 .. Len(Append(s, x)) /\ Append(s, x)[n2] = s[n2]
  BY <1>2
<1>4. CASE f.op \in {"ping", "pong", "close"}
  BY <1>4 DEF Advance
<1>5. CASE f.op \notin {"ping", "pong", "close"} /\ f.fin
  BY <1>1, <1>3, <1>5, Zenon DEF Advance
<1>6. CASE f.op \notin {"ping", "pong", "close"} /\ ~f.fin
  BY <1>6 DEF Advance
<1> QED
  BY <1>4, <1>5, <1>6

(* receive() takes the first frame and goes on as that frame says.         *)
LEMMA TakeConveyed ==
    ASSUME Contents, toServer # <<>>, toServer' = Tail(toServer),
           UNCHANGED <<building, lost, sent>>,
           NEW msg \in [0 .. Len(toServer) -> Under], NEW cnt \in [0 .. Len(toServer) -> Nat],
           Trace(msg, cnt), Joining(msg[1])', cnt[1] = Len(received')
    PROVE  Conveyed'
<1>1. PICK l \in Nat : l + 1 = Len(toServer)
  <2>1. PICK s \in Nat \ {0} : s = Len(toServer)
    BY TakeFacts
  <2>2. s - 1 \in Nat /\ (s - 1) + 1 = s
    OBVIOUS
  <2> QED
    BY <2>1, <2>2
<1>2. /\ Len(toServer') = l
      /\ \A i \in 1 .. l : toServer'[i] = toServer[i + 1]
  BY <1>1, TakeFacts
<1>3. PICK msg2 : msg2 = [i \in 0 .. l |-> msg[i + 1]]
  OBVIOUS
<1>4. PICK cnt2 : cnt2 = [i \in 0 .. l |-> cnt[i + 1]]
  OBVIOUS
<1>5. msg2 \in [0 .. l -> Under] /\ cnt2 \in [0 .. l -> Nat]
  BY <1>1, <1>3, <1>4
<1>6. Joining(msg2[0])' /\ cnt2[0] = Len(received')
  BY <1>3, <1>4 DEF Joining
<1>7. ASSUME NEW i \in 1 .. l
      PROVE  Advance(toServer'[i], msg2[i - 1], cnt2[i - 1], msg2[i], cnt2[i], sent')
  <2>1. /\ i + 1 \in 1 .. Len(toServer) /\ toServer'[i] = toServer[i + 1]
        /\ msg2[i - 1] = msg[(i + 1) - 1] /\ cnt2[i - 1] = cnt[(i + 1) - 1]
        /\ msg2[i] = msg[i + 1] /\ cnt2[i] = cnt[i + 1]
    <3>1. /\ i - 1 \in 0 .. l /\ i \in 0 .. l /\ (i - 1) + 1 = (i + 1) - 1
          /\ i + 1 \in 1 .. l + 1
      OBVIOUS
    <3>2. msg2[i - 1] = msg[(i + 1) - 1] /\ msg2[i] = msg[i + 1]
      BY <1>3, <3>1
    <3>3. cnt2[i - 1] = cnt[(i + 1) - 1] /\ cnt2[i] = cnt[i + 1]
      BY <1>4, <3>1
    <3>4. i + 1 \in 1 .. Len(toServer) /\ toServer'[i] = toServer[i + 1]
      BY <1>1, <1>2, <3>1
    <3> QED
      BY <3>2, <3>3, <3>4
  <2>2. Advance(toServer[i + 1], msg[(i + 1) - 1], cnt[(i + 1) - 1], msg[i + 1], cnt[i + 1], sent)
    BY <2>1, Zenon DEF Trace
  <2> QED
    BY <2>1, <2>2
<1>8. ~lost' => msg2[l] = building' /\ cnt2[l] = Len(sent')
  BY <1>1, <1>3, <1>4 DEF Trace
<1>9. \A i \in 0 .. l : Reached(msg2[i], building', sent')
  <2>1. ASSUME NEW i \in 0 .. l PROVE Reached(msg2[i], building', sent')
    <3>1. i + 1 \in 0 .. Len(toServer) /\ msg2[i] = msg[i + 1]
      BY <1>1, <1>3
    <3> QED
      BY <3>1, Zenon DEF Trace
  <2> QED
    BY <2>1
<1>10. Trace(msg2, cnt2)'
  BY <1>2, <1>6, <1>7, <1>8, <1>9, Zenon DEF Trace
<1> QED
  BY <1>2, <1>5, <1>10, Zenon DEF Conveyed

(* The first frame on its way, seen by receive() when it takes it.         *)
LEMMA FirstFrame ==
    ASSUME Contents, toServer # <<>>, toServer' = Tail(toServer),
           NEW msg \in [0 .. Len(toServer) -> Under], NEW cnt \in [0 .. Len(toServer) -> Nat],
           Trace(msg, cnt)
    PROVE  /\ Advance(Head(toServer), msg[0], Len(received), msg[1], cnt[1], sent)
           /\ msg[0] \in Under /\ msg[1] \in Under /\ Joining(msg[0])
           /\ Reached(msg[1], building, sent)
<1>1. PICK s \in Nat \ {0} : s = Len(toServer)
  BY TakeFacts
<1>2. 1 \in 1 .. s /\ 0 \in 0 .. s /\ 1 \in 0 .. s /\ 1 - 1 = 0
  OBVIOUS
<1>3. Advance(toServer[1], msg[1 - 1], cnt[1 - 1], msg[1], cnt[1], sent)
  BY <1>1, <1>2, Zenon DEF Trace
<1>4. Joining(msg[0]) /\ cnt[0] = Len(received) /\ Reached(msg[1], building, sent)
  BY <1>1, <1>2, Zenon DEF Trace
<1>5. toServer[1] = Head(toServer)
  BY TakeFacts
<1>6. msg[0] \in Under /\ msg[1] \in Under
  BY <1>1, <1>2, Zenon
<1> QED
  BY <1>2, <1>3, <1>4, <1>5, <1>6

(* What the first frame of a message, or a further one, makes of it.       *)
LEMMA WholeMessage ==
    ASSUME Placed, Scalars, toServer # <<>>, toServer' = Tail(toServer),
           NEW m \in Under, Joining(m),
           Head(toServer).op \in DataOps \cup {"cont"},
           Head(toServer).op = "cont" <=> m # NoMessage
    PROVE  /\ Whole(Head(toServer), m) # NoMessage
           /\ m # NoMessage => Whole(Head(toServer), m) =
                [op |-> fragmentOp, data |-> fragment \o Head(toServer).data]
           /\ m = NoMessage => fragment = <<>> /\ Whole(Head(toServer), m) =
                [op |-> Head(toServer).op, data |-> Head(toServer).data]
<1>1. PICK f : f = Head(toServer)
  OBVIOUS
<1>2. f.data \in Payloads
  BY <1>1, TakeFacts, FrameFields DEF Placed
<1>3. f.op \in DataOps => f.op # "cont"
  BY DEF DataOps
<1>4. "none" \notin DataOps
  BY DEF DataOps
<1>5. CASE m # NoMessage
  <2>1. m.op \in DataOps /\ fragment = m.data /\ fragmentOp = m.op /\ f.op = "cont"
    BY <1>1, <1>5, MessageFields DEF Joining, Under
  <2>2. Whole(f, m) = [op |-> fragmentOp, data |-> fragment \o f.data]
    BY <2>1 DEF Whole
  <2>3. Whole(f, m).op = fragmentOp /\ fragmentOp # "none"
    BY <1>4, <2>1, <2>2
  <2> QED
    BY <1>1, <1>5, <2>2, <2>3, MessageFields
<1>6. CASE m = NoMessage
  <2>1. f.op \in DataOps /\ f.op # "cont" /\ fragment = <<>>
    BY <1>1, <1>3, <1>6 DEF Joining
  <2>2. <<>> \o f.data = f.data
    BY <1>2, PayloadSeq, ConcatEmptySeq
  <2>3. Whole(f, m) = [op |-> f.op, data |-> f.data]
    BY <1>6, <2>1, <2>2, MessageFields DEF Whole
  <2>4. Whole(f, m).op = f.op /\ f.op # "none"
    BY <1>4, <2>1, <2>3
  <2> QED
    BY <1>1, <1>6, <2>1, <2>3, <2>4, MessageFields
<1> QED
  BY <1>5, <1>6

(* What receive() may do to the messages it has returned.                  *)
Progress ==
    \/ received' = received
    \/ /\ Len(received) < Len(sent)
       /\ received' = Append(received, sent[Len(received) + 1])

(* The last frame f of a message is followed: the message x is returned.   *)
LEMMA LastFollowed ==
    ASSUME Placed, NEW f, NEW m, NEW m2, NEW n2, NEW x,
           f.op \notin {"ping", "pong", "close"}, f.fin,
           Advance(f, m, Len(received), m2, n2, sent), x = Whole(f, m), x # NoMessage,
           received' = Append(received, x), fragment' = <<>>
    PROVE  Progress /\ Joining(m2)' /\ n2 = Len(received')
<1>1. PICK r \in Nat : r = Len(received)
  BY LenProperties DEF Placed, Contents
<1>2. n2 = r + 1 /\ n2 \in 1 .. Len(sent) /\ sent[n2] = x /\ m2 = NoMessage
  BY <1>1 DEF Advance
<1>3. PICK t \in Nat : t = Len(sent)
  BY LenProperties DEF Placed, Contents
<1>4. r < t
  BY <1>2, <1>3
<1>5. received \in Seq(Message) /\ x \in Message
  BY <1>2, ElementOfSeq DEF Placed, Contents
<1>6. Len(received') = r + 1
  BY <1>1, <1>5, AppendProperties
<1> QED
  BY <1>1, <1>2, <1>3, <1>4, <1>6 DEF Progress, Joining

(* A frame f that is not the last is followed: it is joined to the others. *)
LEMMA PartFollowed ==
    ASSUME Placed, NEW f, NEW m, NEW m2, NEW n2, NEW x,
           f.op \notin {"ping", "pong", "close"}, ~f.fin,
           Advance(f, m, Len(received), m2, n2, sent), x = Whole(f, m), x # NoMessage,
           received' = received, fragment' = x.data, fragmentOp' = x.op
    PROVE  Progress /\ Joining(m2)' /\ n2 = Len(received')
<1> QED
  BY DEF Advance, Progress, Joining

LEMMA DataFollowed ==
    ASSUME Scalars, Placed, Conveyed, conforming,
           RecvData \/ RecvContinuation, ~Reject
    PROVE  Conveyed' /\ Progress
<1> USE DEF clientVars
<1>1. PICK f : f = Head(toServer)
  OBVIOUS
<1>2. /\ Following /\ toServer # <<>> /\ toServer' = Tail(toServer)
      /\ f.op \in DataOps \cup {"cont"}
      /\ UNCHANGED <<building, lost, sent>>
  BY <1>1 DEF RecvData, RecvContinuation, NextFrame, Following
<1>3. PICK msg \in [0 .. Len(toServer) -> Under], cnt \in [0 .. Len(toServer) -> Nat] :
         Trace(msg, cnt)
  BY <1>2 DEF Conveyed
<1>4. /\ Advance(f, msg[0], Len(received), msg[1], cnt[1], sent)
      /\ msg[0] \in Under /\ msg[1] \in Under /\ Joining(msg[0])
  BY <1>1, <1>2, <1>3, FirstFrame DEF Placed
<1>5. f.op \notin {"ping", "pong", "close"}
  BY <1>2 DEF DataOps
<1>6. f.op = "cont" <=> msg[0] # NoMessage
  BY <1>4, <1>5 DEF Advance
<1>7. PICK x : x = Whole(f, msg[0])
  OBVIOUS
<1>8. /\ x # NoMessage
      /\ msg[0] # NoMessage => x = [op |-> fragmentOp, data |-> fragment \o f.data]
      /\ msg[0] = NoMessage => fragment = <<>> /\ x = [op |-> f.op, data |-> f.data]
  BY <1>1, <1>2, <1>4, <1>6, <1>7, WholeMessage
<1>9. \/ f.fin /\ received' = Append(received, x) /\ fragment' = <<>>
      \/ ~f.fin /\ received' = received /\ fragment' = x.data /\ fragmentOp' = x.op
  <2>1. CASE RecvContinuation
    <3>1. f.op = "cont"
      BY <1>1, <2>1 DEF RecvContinuation, NextFrame
    <3>2. x = [op |-> fragmentOp, data |-> fragment \o f.data]
      BY <1>6, <1>8, <3>1
    <3> QED
      BY <1>1, <1>2, <2>1, <3>2
         DEF RecvContinuation, Deliver, ClearFragments
  <2>2. CASE RecvData
    <3>1. f.op # "cont"
      BY <1>1, <2>2 DEF RecvData, NextFrame, DataOps
    <3>2. x = [op |-> f.op, data |-> f.data] /\ fragment = <<>>
      BY <1>6, <1>8, <3>1
    <3> QED
      BY <1>1, <2>2, <3>2 DEF RecvData, Deliver
  <2> QED
    BY <2>1, <2>2
<1>10. Progress /\ Joining(msg[1])' /\ cnt[1] = Len(received')
  <2>1. PICK m, m2, n2 : m = msg[0] /\ m2 = msg[1] /\ n2 = cnt[1]
    OBVIOUS
  <2>2. Advance(f, m, Len(received), m2, n2, sent) /\ m2 \in Under
    BY <1>4, <2>1
  <2>3. x = Whole(f, m) /\ x # NoMessage
    BY <1>7, <1>8, <2>1
  <2>4. ASSUME f.fin, received' = Append(received, x), fragment' = <<>>
        PROVE  Progress /\ Joining(m2)' /\ n2 = Len(received')
    BY <1>5, <2>2, <2>3, <2>4, LastFollowed
  <2>5. ASSUME ~f.fin, received' = received, fragment' = x.data, fragmentOp' = x.op
        PROVE  Progress /\ Joining(m2)' /\ n2 = Len(received')
    BY <1>5, <2>2, <2>3, <2>5, PartFollowed
  <2>6. Progress /\ Joining(m2)' /\ n2 = Len(received')
    BY <1>9, <2>4, <2>5, Zenon
  <2>7. Joining(m2)' <=> Joining(msg[1])'
    BY <2>1 DEF Joining
  <2> QED
    BY <2>1, <2>6, <2>7
<1> QED
  BY <1>2, <1>3, <1>10, TakeConveyed DEF Placed

LEMMA ControlFollowed ==
    ASSUME Scalars, Placed, Conveyed, RecvPing \/ RecvPong
    PROVE  Conveyed' /\ received' = received
<1> USE DEF implVars, clientVars
<1>1. /\ handler = "frame" /\ toServer # <<>> /\ toServer' = Tail(toServer)
      /\ Head(toServer).op \in {"ping", "pong"}
      /\ UNCHANGED <<open, fragment, fragmentOp, building, conforming, lost, sent, received>>
  BY DEF RecvPing, RecvPong, NextFrame
<1>2. CASE ~conforming
  BY <1>1, <1>2 DEF Conveyed, Following
<1>3. CASE conforming
  <2>1. PICK msg \in [0 .. Len(toServer) -> Under], cnt \in [0 .. Len(toServer) -> Nat] :
           Trace(msg, cnt)
    BY <1>1, <1>3 DEF Conveyed, Following
  <2>2. msg[1] = msg[0] /\ cnt[1] = Len(received) /\ Joining(msg[0])
    BY <1>1, <2>1, FirstFrame DEF Placed, Advance
  <2>3. Joining(msg[1])' /\ cnt[1] = Len(received')
    BY <1>1, <2>2 DEF Joining
  <2> QED
    BY <1>1, <1>3, <2>1, <2>3, TakeConveyed DEF Placed
<1> QED
  BY <1>1, <1>2, <1>3

(* A frame sent by a client that keeps to the protocol.                    *)
LEMMA SendConveyed ==
    ASSUME Scalars, Placed, Conveyed, Following, ~lost, ~lost', NEW f \in Frame,
           toServer' = Append(toServer, f),
           UNCHANGED <<fragment, fragmentOp, received>>,
           sent' = sent \/ \E x \in Message : sent' = Append(sent, x),
           building' \in Under,
           Advance(f, building, Len(sent), building', Len(sent'), sent'),
           \A m \in Under : Reached(m, building, sent) => Reached(m, building', sent')
    PROVE  Conveyed'
<1>1. PICK l \in Nat : l = Len(toServer)
  BY LenProperties DEF Placed, Contents
<1>2. PICK msg \in [0 .. l -> Under], cnt \in [0 .. l -> Nat] : Trace(msg, cnt)
  BY <1>1 DEF Conveyed
<1>3. /\ Len(toServer') = l + 1 /\ toServer'[l + 1] = f
      /\ \A i \in 1 .. l : toServer'[i] = toServer[i]
  BY <1>1, AppendProperties DEF Placed, Contents
<1>4. PICK msg2 : msg2 = [i \in 0 .. l + 1 |-> IF i \in 0 .. l THEN msg[i] ELSE building']
  OBVIOUS
<1>5. PICK cnt2 : cnt2 = [i \in 0 .. l + 1 |-> IF i \in 0 .. l THEN cnt[i] ELSE Len(sent')]
  OBVIOUS
<1>6. sent \in Seq(Message) /\ sent' \in Seq(Message) /\ Len(sent') \in Nat
  <2>1. sent \in Seq(Message)
    BY DEF Placed, Contents
  <2>2. \A x \in Message : Append(sent, x) \in Seq(Message)
    BY <2>1, AppendProperties
  <2>3. sent' \in Seq(Message)
    BY <2>1, <2>2, Zenon
  <2> QED
    BY <2>1, <2>3, LenProperties
<1>7. msg2 \in [0 .. l + 1 -> Under]
  BY <1>2, <1>4
<1>8. cnt2 \in [0 .. l + 1 -> Nat]
  BY <1>2, <1>5, <1>6
<1>9. /\ \A i \in 0 .. l : msg2[i] = msg[i] /\ cnt2[i] = cnt[i]
      /\ msg2[l + 1] = building' /\ cnt2[l + 1] = Len(sent')
  <2>1. l + 1 \in 0 .. l + 1 /\ l + 1 \notin 0 .. l /\ \A i \in 0 .. l : i \in 0 .. l + 1
    OBVIOUS
  <2> QED
    BY <1>4, <1>5, <2>1
<1>10. Joining(msg2[0])' /\ cnt2[0] = Len(received')
  <2>1. Joining(msg[0]) /\ cnt[0] = Len(received) /\ 0 \in 0 .. l
    BY <1>2 DEF Trace
  <2> QED
    BY <1>9, <2>1 DEF Joining
<1>11. msg[l] = building /\ cnt[l] = Len(sent)
  BY <1>1, <1>2 DEF Trace
<1>12. ASSUME NEW i \in 1 .. l + 1
       PROVE  Advance(toServer'[i], msg2[i - 1], cnt2[i - 1], msg2[i], cnt2[i], sent')
  <2>1. CASE i = l + 1
    <3>1. /\ msg2[i - 1] = building /\ cnt2[i - 1] = Len(sent) /\ l \in 0 .. l
          /\ msg2[i] = building' /\ cnt2[i] = Len(sent') /\ toServer'[i] = f
      <4>1. l \in 0 .. l /\ i - 1 = l
        BY <2>1
      <4> QED
        BY <1>3, <1>9, <1>11, <2>1, <4>1
    <3> QED
      BY <3>1
  <2>2. CASE i \in 1 .. l
    <3>1. i - 1 \in 0 .. l /\ i \in 0 .. l
      BY <2>2
    <3>2. Advance(toServer[i], msg[i - 1], cnt[i - 1], msg[i], cnt[i], sent)
      BY <1>1, <1>2, <2>2, Zenon DEF Trace
    <3>3. PICK g, m, n, m2, n2 :
             g = toServer[i] /\ m = msg[i - 1] /\ n = cnt[i - 1] /\ m2 = msg[i] /\ n2 = cnt[i]
      OBVIOUS
    <3>4. Advance(g, m, n, m2, n2, sent)
      BY <3>2, <3>3
    <3>5. Advance(g, m, n, m2, n2, sent')
      <4>1. CASE sent' = sent
        BY <3>4, <4>1
      <4>2. ASSUME NEW y \in Message, sent' = Append(sent, y)
            PROVE  Advance(g, m, n, m2, n2, sent')
        <5>1. Advance(g, m, n, m2, n2, Append(sent, y))
          BY <1>6, <3>4, AdvanceKept, Zenon
        <5> QED
          BY <4>2, <5>1
      <4> QED
        BY <4>1, <4>2, Zenon
    <3>6. Advance(toServer[i], msg[i - 1], cnt[i - 1], msg[i], cnt[i], sent')
      BY <3>3, <3>5
    <3> QED
      BY <1>3, <1>9, <2>2, <3>1, <3>6
  <2>3. i = l + 1 \/ i \in 1 .. l
    OBVIOUS
  <2> QED
    BY <2>1, <2>2, <2>3, Zenon
<1>13. \A i \in 0 .. l + 1 : Reached(msg2[i], building', sent')
  <2>1. ASSUME NEW i \in 0 .. l PROVE Reached(msg2[i], building', sent')
    <3>1. Reached(msg[i], building, sent) /\ msg[i] \in Under
      BY <1>1, <1>2, Zenon DEF Trace
    <3> QED
      BY <1>9, <3>1, Zenon
  <2>2. Reached(msg2[l + 1], building', sent')
    <3>1. building'.data \in Payloads
      BY MessageFields, Units DEF Under
    <3>2. PICK n \in Nat : n = Len(building'.data)
      BY <3>1, PayloadLength
    <3>3. Len(building'.data) <= Len(building'.data)
      BY <3>2
    <3> QED
      BY <1>9, <3>3 DEF Reached
  <2>3. \A i \in 0 .. l + 1 : i \in 0 .. l \/ i = l + 1
    OBVIOUS
  <2> QED
    BY <2>1, <2>2, <2>3, Zenon
<1>14. Trace(msg2, cnt2)'
  BY <1>3, <1>9, <1>10, <1>12, <1>13, Zenon DEF Trace
<1> QED
  BY <1>3, <1>7, <1>8, <1>14, Zenon DEF Conveyed

(* A message that is finished, or longer than it was, is still reached.    *)
LEMMA ReachedKept ==
    ASSUME Placed, NEW m \in Under, NEW x \in Message,
           Len(building.data) <= Len(x.data), Reached(m, building, sent)
    PROVE  /\ Reached(m, x, sent)
           /\ \A b : Reached(m, b, Append(sent, x))
<1>1. /\ Len(m.data) \in Nat /\ Len(building.data) \in Nat /\ Len(x.data) \in Nat
  BY MessageFields, Units, PayloadLength DEF Placed, Contents, Under
<1>2. \A a, b, c \in Nat : a <= b /\ b <= c => a <= c
  OBVIOUS
<1>3. Len(m.data) <= Len(building.data) => Len(m.data) <= Len(x.data)
  BY <1>1, <1>2, Zenon
<1>4. PICK t \in Nat : t = Len(sent) /\ sent \in Seq(Message)
  BY LenProperties DEF Placed, Contents
<1>5. /\ Len(Append(sent, x)) = t + 1 /\ Append(sent, x)[t + 1] = x
      /\ \A j \in 1 .. t : Append(sent, x)[j] = sent[j]
  BY <1>4, AppendProperties
<1>6. t + 1 \in 1 .. t + 1 /\ \A j \in 1 .. t : j \in 1 .. t + 1
  OBVIOUS
<1>7. ASSUME Len(m.data) <= Len(building.data)
      PROVE  Reached(m, x, sent) /\ \A b : Reached(m, b, Append(sent, x))
  BY <1>3, <1>5, <1>6, <1>7, Zenon DEF Reached
<1>8. ASSUME NEW j \in 1 .. t, Len(m.data) <= Len(sent[j].data)
      PROVE  Reached(m, x, sent) /\ \A b : Reached(m, b, Append(sent, x))
  BY <1>4, <1>5, <1>6, <1>8, Zenon DEF Reached
<1>9. \/ Len(m.data) <= Len(building.data)
      \/ \E j \in 1 .. t : Len(m.data) <= Len(sent[j].data)
  BY <1>4, Zenon DEF Reached
<1> QED
  BY <1>7, <1>8, <1>9, Zenon

LEMMA ClientConveyed ==
    ASSUME Scalars, Placed, Conveyed, Client
    PROVE  Conveyed' /\ received' = received
<1> USE DEF implVars, writeVars, clientVars
<1>1. CASE ClientControl
  <2>1. PICK op \in {"ping", "pong", "close"} :
           ClientSends([op |-> op, fin |-> TRUE, data |-> <<>>])
    BY <1>1 DEF ClientControl
  <2>2. PICK f \in Frame : f.op \in {"ping", "pong", "close"} /\ ClientSends(f)
    BY <2>1, Units DEF Frame
  <2>3. /\ ~lost /\ toServer' = Append(toServer, f)
        /\ UNCHANGED <<implVars, writing, conforming, lost, building, sent, received>>
    BY <1>1, <2>2 DEF ClientControl, ClientSends
  <2>4. Advance(f, building, Len(sent), building', Len(sent'), sent')
    BY <2>2, <2>3 DEF Advance
  <2>5. building' \in Under
    BY <2>3 DEF Placed, Contents, Under
  <2>6. CASE Following
    BY <2>3, <2>4, <2>5, <2>6, SendConveyed
  <2>7. CASE ~Following
    BY <2>3, <2>7 DEF Conveyed, Following
  <2> QED
    BY <2>3, <2>6, <2>7
<1>2. CASE ClientData
  <2>1. PICK op \in IF building = NoMessage THEN DataOps ELSE {"cont"},
             fin \in BOOLEAN, data \in {<<>>, <<frames + 1>>} :
          LET m == [op |-> IF op = "cont" THEN building.op ELSE op,
                    data |-> building.data \o data]
          IN  /\ ClientSends([op |-> op, fin |-> fin, data |-> data])
              /\ building' = IF fin THEN NoMessage ELSE m
              /\ sent' = IF fin THEN Append(sent, m) ELSE sent
    BY <1>2 DEF ClientData
  <2>2. PICK f : f = [op |-> op, fin |-> fin, data |-> data]
    OBVIOUS
  <2>3. PICK m : m = Whole(f, building)
    OBVIOUS
  <2>4. m = [op |-> IF op = "cont" THEN building.op ELSE op, data |-> building.data \o data]
    BY <2>2, <2>3 DEF Whole
  <2>5. /\ frames < MaxFrames /\ conforming /\ ~lost /\ toServer' = Append(toServer, f)
        /\ building' = IF fin THEN NoMessage ELSE m
        /\ sent' = IF fin THEN Append(sent, m) ELSE sent
        /\ UNCHANGED <<implVars, writing, conforming, lost, received>>
    BY <1>2, <2>1, <2>2, <2>4 DEF ClientData, ClientSends
  <2>6. op \in DataOps \cup {"cont"} /\ (op = "cont" <=> building # NoMessage)
    BY <2>1 DEF DataOps
  <2>7. f \in Frame /\ data \in Payloads /\ Len(data) \in {0, 1}
    BY <2>2, <2>5, <2>6, DataFrame
  <2>8. m.data \in Payloads /\ Len(building.data) <= Len(m.data)
    BY <2>4, <2>5, <2>7, BuildingGrows
  <2>9. m \in Message
    <3>1. building # NoMessage => building.op \in DataOps
      BY MessageFields DEF Placed, Contents
    <3>2. (IF op = "cont" THEN building.op ELSE op) \in DataOps
      BY <2>6, <3>1
    <3> QED
      BY <2>4, <2>8, <3>2, MessageFields
  <2>10. \A x \in Under : Reached(x, building, sent) => Reached(x, building', sent')
    <3> SUFFICES ASSUME NEW x \in Under, Reached(x, building, sent)
                 PROVE  Reached(x, building', sent')
      OBVIOUS
    <3>1. Reached(x, m, sent) /\ \A b : Reached(x, b, Append(sent, m))
      BY <2>8, <2>9, ReachedKept
    <3>2. CASE fin
      BY <2>5, <3>1, <3>2
    <3>3. CASE ~fin
      BY <2>5, <3>1, <3>3
    <3> QED
      BY <3>2, <3>3
  <2>11. f.op \notin {"ping", "pong", "close"} /\ f.op = op /\ f.fin = fin
    BY <2>2, <2>6 DEF DataOps
  <2>12. Advance(f, building, Len(sent), building', Len(sent'), sent')
    <3>1. PICK t \in Nat : t = Len(sent) /\ sent \in Seq(Message)
      BY LenProperties DEF Placed, Contents
    <3>2. CASE fin
      <4>1. sent' = Append(sent, m) /\ building' = NoMessage
        BY <2>5, <3>2
      <4>2. Len(sent') = t + 1 /\ sent'[t + 1] = m /\ t + 1 \in 1 .. t + 1
        BY <2>9, <3>1, <4>1, AppendProperties
      <4> QED
        BY <2>3, <2>6, <2>11, <3>1, <3>2, <4>1, <4>2 DEF Advance
    <3>3. CASE ~fin
      <4>1. sent' = sent /\ building' = m
        BY <2>5, <3>3
      <4> QED
        BY <2>3, <2>6, <2>11, <3>3, <4>1 DEF Advance
    <3> QED
      BY <3>2, <3>3
  <2>13. building' \in Under /\ (sent' = sent \/ sent' = Append(sent, m))
    BY <2>5, <2>9 DEF Under
  <2>14. CASE Following
    BY <2>5, <2>7, <2>9, <2>10, <2>12, <2>13, <2>14, SendConveyed
  <2>15. CASE ~Following
    BY <2>5, <2>15 DEF Conveyed, Following
  <2> QED
    BY <2>5, <2>14, <2>15
<1>3. CASE ClientBreaks
  BY <1>3 DEF ClientBreaks, Conveyed, Following
<1>4. CASE ClientLeaves
  <2>1. /\ toServer' \in {toServer, <<>>} /\ lost'
        /\ UNCHANGED <<implVars, writing, conforming, building, sent, received>>
    BY <1>4 DEF ClientLeaves
  <2>2. CASE toServer' = toServer
    BY <2>1, <2>2, UnaffectedConveyed DEF Following
  <2>3. CASE toServer' = <<>> /\ Following
    <3>1. PICK l \in Nat : l = Len(toServer)
      BY LenProperties DEF Placed, Contents
    <3>2. PICK msg \in [0 .. l -> Under], cnt \in [0 .. l -> Nat] : Trace(msg, cnt)
      BY <2>3, <3>1 DEF Conveyed
    <3>3. Len(toServer') = 0 /\ 0 \in 0 .. l /\ 0 .. 0 = {0} /\ 1 .. 0 = {}
      BY <2>3, EmptySeq
    <3>4. PICK msg2, cnt2 : msg2 = [i \in 0 .. 0 |-> msg[i]] /\ cnt2 = [i \in 0 .. 0 |-> cnt[i]]
      OBVIOUS
    <3>5. /\ msg2 \in [0 .. 0 -> Under] /\ cnt2 \in [0 .. 0 -> Nat]
          /\ msg2[0] = msg[0] /\ cnt2[0] = cnt[0]
      BY <3>2, <3>3, <3>4
    <3>6. Joining(msg[0]) /\ cnt[0] = Len(received) /\ Reached(msg[0], building, sent)
      BY <3>1, <3>2, <3>3, Zenon DEF Trace
    <3>7. Trace(msg2, cnt2)'
      BY <2>1, <3>3, <3>5, <3>6 DEF Trace, Joining
    <3>8. msg2 \in [0 .. Len(toServer') -> Under] /\ cnt2 \in [0 .. Len(toServer') -> Nat]
      BY <3>3, <3>5
    <3> QED
      BY <2>1, <3>7, <3>8, Zenon DEF Conveyed
  <2>4. CASE ~Following
    BY <2>1, <2>4 DEF Conveyed, Following
  <2> QED
    BY <2>1, <2>2, <2>3, <2>4
<1>5. UNCHANGED received
  BY DEF Client, ClientControl, ClientData, ClientBreaks, ClientLeaves
<1> QED
  BY <1>1, <1>2, <1>3, <1>4, <1>5 DEF Client

IInv == Scalars /\ Placed /\ Conveyed

LEMMA ReceiveConveyed ==
    ASSUME IInv, Receive
    PROVE  Conveyed' /\ (conforming => Progress)
<1> USE DEF implVars, clientVars, IInv
<1>1. CASE TestOpen \/ Read \/ ReadReturned
  <2>1. /\ Following' => Following
        /\ UNCHANGED <<fragment, fragmentOp, building, toServer, lost, sent, received>>
    BY <1>1 DEF TestOpen, Read, ReadReturned, Following, writeVars
  <2> QED
    BY <2>1, UnaffectedConveyed DEF Progress
<1>2. CASE ReadFailed
  BY <1>2 DEF ReadFailed, Conveyed, Following, Progress
<1>3. CASE RecvPing \/ RecvPong
  BY <1>3, ControlFollowed DEF Progress
<1>4. CASE RecvClose
  BY <1>4 DEF RecvClose, Conveyed, Following, Progress
<1>5. CASE RecvContinuation \/ RecvData
  <2>1. CASE ~conforming
    BY <1>5, <2>1 DEF RecvContinuation, RecvData, Conveyed, Following
  <2>2. CASE ~Reject /\ conforming
    BY <1>5, <2>2, DataFollowed
  <2>3. CASE Reject
    <3>1. handler' = "handler" /\ received' = received /\ open' = open
          /\ (open => writing'[Handler] = "closing")
      BY <2>3, HandlerIsLocal DEF Reject, Scalars
    <3> QED
      BY <3>1 DEF Conveyed, Following, Progress
  <2> QED
    BY <2>1, <2>2, <2>3
<1> QED
  BY <1>1, <1>2, <1>3, <1>4, <1>5 DEF Receive

LEMMA ConveyedInductive == IInv /\ [Next]_vars => Conveyed'
<1> SUFFICES ASSUME IInv, [Next]_vars PROVE Conveyed'
  OBVIOUS
<1> USE DEF implVars, writeVars, clientVars, IInv
<1>1. CASE Upgrade \/ CallReceive \/ Return
  <2>1. /\ Following' => Following
        /\ UNCHANGED <<fragment, fragmentOp, building, toServer, lost, sent, received>>
    BY <1>1 DEF Upgrade, CallReceive, Return, Following
  <2> QED
    BY <2>1, UnaffectedConveyed
<1>2. ASSUME NEW w \in Writers, CallSend(w) \/ CallClose(w) \/ ClearOpen(w) \/ Written(w)
      PROVE  Conveyed'
  <2>1. UNCHANGED <<fragment, fragmentOp, handler, building, toServer, lost, conforming, sent,
                    received>>
    BY <1>2 DEF CallSend, CallClose, ClearOpen, Written, HeaderWritten, PayloadWritten,
                WriteFailed
  <2>2. open' = FALSE \/ (open' = open /\ (writing[Handler] = "closing" =>
                                            writing'[Handler] = "closing"))
    BY <1>2, HandlerIsLocal
       DEF CallSend, CallClose, ClearOpen, Written, HeaderWritten, PayloadWritten, WriteFailed,
           StartFrame, EndFrame, MayCall, Scalars
  <2>3. Following' => Following
    BY <2>1, <2>2 DEF Following
  <2> QED
    BY <2>1, <2>3, UnaffectedConveyed
<1>4. CASE UNCHANGED vars
  BY <1>4, UnaffectedConveyed DEF vars, Following
<1>5. CASE Client
  BY <1>5, ClientConveyed
<1> QED
  BY <1>1, <1>2, <1>4, <1>5, ReceiveConveyed DEF Next, Ended

LEMMA InitialPlaces == Init => IInv
<1> SUFFICES ASSUME Init PROVE IInv
  OBVIOUS
<1>1. Scalars
  <2>1. /\ writing \in [Writers -> {"idle", "closing", "header", "payload"}]
        /\ frame \in [Writers -> {"none", "text", "pong", "close"}]
        /\ closes \in [Writers -> Nat]
    BY DEF Init
  <2>2. frames \in 0 .. MaxFrames /\ sends \in 0 .. MaxSends
    BY Bounds DEF Init
  <2> QED
    BY <2>1, <2>2 DEF Init, Scalars, DataOps
<1>2. /\ <<>> \in Seq(Frame) /\ <<>> \in Seq(Message) /\ Len(<<>>) = 0 /\ 1 .. 0 = {}
      /\ <<>> \in Payloads
  BY EmptySeq, Units
<1>3. Contents
  BY <1>2, Bounds DEF Init, Contents
<1>4. Numbered
  BY <1>2, MessageFields DEF Init, Numbered
<1>5. Conveyed
  <2>1. PICK msg, cnt : msg = [i \in 0 .. 0 |-> NoMessage] /\ cnt = [i \in 0 .. 0 |-> 0]
    OBVIOUS
  <2>2. /\ msg \in [0 .. 0 -> Under] /\ cnt \in [0 .. 0 -> Nat]
        /\ msg[0] = NoMessage /\ cnt[0] = 0 /\ 0 .. 0 = {0}
    BY <2>1 DEF Under
  <2>3. Len(toServer) = 0 /\ Len(received) = 0 /\ Len(sent) = 0 /\ building = NoMessage
        /\ fragment = <<>>
    BY <1>2 DEF Init
  <2>4. Reached(NoMessage, building, sent)
    BY <1>2, <2>3, MessageFields DEF Reached
  <2>5. Trace(msg, cnt)
    BY <1>2, <2>2, <2>3, <2>4 DEF Trace, Joining
  <2>6. msg \in [0 .. Len(toServer) -> Under] /\ cnt \in [0 .. Len(toServer) -> Nat]
    BY <2>2, <2>3
  <2> QED
    BY <2>5, <2>6, Zenon DEF Conveyed
<1> QED
  BY <1>1, <1>3, <1>4, <1>5 DEF IInv, Placed

LEMMA Invariance == Safety => []IInv
<1>1. IInv /\ [Next]_vars => IInv'
  BY ScalarsInductive, PlacedInductive, ConveyedInductive DEF IInv, Placed
<1> QED
  BY <1>1, InitialPlaces, PTL DEF Safety

(* Every variable keeps its type; the frames on their way and the payload  *)
(* joined so far never exceed what the client has sent.                    *)
THEOREM TypeCorrect == Safety => []TypeOK
<1>1. IInv => TypeOK
  BY TypesFollow DEF IInv, Placed
<1> QED
  BY <1>1, Invariance, PTL

(* A message that is finished is one: it has its type already.             *)
LEMMA Finished ==
    ASSUME Placed, Placed', NEW m, sent' = Append(sent, m)
    PROVE  m \in Message
<1>1. sent \in Seq(Message) /\ Append(sent, m) \in Seq(Message)
  BY DEF Placed, Contents
<1>2. PICK t \in Nat : t = Len(sent)
  BY <1>1, LenProperties
<1>3. Len(Append(sent, m)) = t + 1 /\ Append(sent, m)[t + 1] = m
  BY <1>1, <1>2
<1>4. t + 1 \in 1 .. Len(Append(sent, m))
  BY <1>3
<1> QED
  BY <1>1, <1>3, <1>4, ElementOfSeq

Up == open /\ ~lost /\ conforming /\ handler # "ended"

(* A step that neither sends nor returns a message: it may take the        *)
(* connection down, and never up.                                          *)
LEMMA QuietStep ==
    ASSUME UNCHANGED <<sent, received>>, Up' => Up
    PROVE  [Channel!ChannelNext]_Channel!channelVars
<1>1. CASE Up' = Up
  BY <1>1 DEF Up, Channel!channelVars
<1>2. CASE Up' = FALSE
  BY <1>2 DEF Up, Channel!ChannelNext, Channel!GoDown
<1> QED
  BY <1>1, <1>2 DEF Up

LEMMA ReceiveStep ==
    ASSUME IInv, Receive
    PROVE  [Channel!ChannelNext]_Channel!channelVars
<1> USE DEF implVars, writeVars, clientVars
<1>1. /\ sent' = sent /\ lost' = lost /\ conforming' = conforming
      /\ open' => open
      /\ handler # "ended"
  BY DEF Receive, TestOpen, Read, ReadReturned, ReadFailed, RecvPing, RecvPong,
         RecvClose, RecvContinuation, RecvData, Reject, NextFrame
<1>2. Up' => Up
  BY <1>1 DEF Up
<1>3. \/ received' = received
      \/ conforming /\ open' = open /\ handler' = "handler"
  BY DEF Receive, TestOpen, Read, ReadReturned, ReadFailed, RecvPing, RecvPong,
         RecvClose, RecvContinuation, RecvData, Reject, Deliver
<1>4. CASE received' = received
  BY <1>1, <1>2, <1>4, QuietStep
<1>5. CASE received' # received /\ conforming /\ open' = open /\ handler' = "handler"
  <2>1. Len(received) < Len(sent) /\ received' = Append(received, sent[Len(received) + 1])
    BY <1>5, ReceiveConveyed DEF Progress
  <2>2. Up' = Up
    BY <1>1, <1>5 DEF Up
  <2> QED
    BY <1>1, <2>1, <2>2 DEF Up, Channel!ChannelNext, Channel!Receive
<1> QED
  BY <1>3, <1>4, <1>5

LEMMA ClientStep ==
    ASSUME Placed, Placed', Client
    PROVE  [Channel!ChannelNext]_Channel!channelVars
<1> USE DEF implVars, writeVars, clientVars
<1>1. CASE ClientControl \/ ClientBreaks \/ ClientLeaves
  <2>1. UNCHANGED <<sent, received>> /\ (Up' => Up)
    BY <1>1 DEF ClientControl, ClientBreaks, ClientLeaves, Up
  <2> QED
    BY <2>1, QuietStep
<1>2. CASE ClientData
  <2>1. /\ UNCHANGED <<received, open, lost, conforming, handler>>
        /\ sent' = sent \/ \E m : sent' = Append(sent, m)
    BY <1>2 DEF ClientData
  <2>2. Up' = Up
    BY <2>1 DEF Up
  <2>3. CASE sent' = sent
    BY <2>1, <2>2, <2>3, QuietStep
  <2>4. CASE \E m : sent' = Append(sent, m)
    <3>1. PICK m : sent' = Append(sent, m)
      BY <2>4
    <3>2. m \in Message
      BY <3>1, Finished
    <3> QED
      BY <2>1, <2>2, <3>1, <3>2 DEF Up, Channel!ChannelNext, Channel!Send
  <2> QED
    BY <2>1, <2>3, <2>4
<1> QED
  BY <1>1, <1>2 DEF Client

(* receive() returns the messages the client has finished, each whole,     *)
(* once and in the order of their sending, and no other: without its       *)
(* liveness, the channel that the callers of receive() are promised.       *)
THEOREM ImplementsChannel == Safety => Channel!ChannelSafety
<1> USE DEF implVars, writeVars, clientVars
<1>1. Init => Channel!ChannelInit
  BY DEF Init, Channel!ChannelInit
<1>2. IInv /\ IInv' /\ [Next]_vars => [Channel!ChannelNext]_Channel!channelVars
  <2> SUFFICES ASSUME IInv, IInv', [Next]_vars
               PROVE  [Channel!ChannelNext]_Channel!channelVars
    OBVIOUS
  <2>1. CASE Upgrade \/ CallReceive \/ Return
    <3>1. UNCHANGED <<sent, received>> /\ (Up' => Up)
      BY <2>1 DEF Upgrade, CallReceive, Return, MayCall, Alive, Up
    <3> QED
      BY <3>1, QuietStep
  <2>2. CASE \E w \in Writers : CallSend(w) \/ CallClose(w) \/ ClearOpen(w) \/ Written(w)
    <3>1. UNCHANGED <<sent, received>> /\ (Up' => Up)
      BY <2>2 DEF CallSend, CallClose, ClearOpen, Written, HeaderWritten, PayloadWritten,
                  WriteFailed, Up
    <3> QED
      BY <3>1, QuietStep
  <2>3. CASE UNCHANGED vars
    <3>1. UNCHANGED <<sent, received>> /\ (Up' => Up)
      BY <2>3 DEF vars, Up
    <3> QED
      BY <3>1, QuietStep
  <2>4. CASE Receive
    BY <2>4, ReceiveStep
  <2>5. CASE Client
    BY <2>5, ClientStep DEF IInv
  <2> QED
    BY <2>1, <2>2, <2>3, <2>4, <2>5 DEF Next, Ended
<1> QED
  BY <1>1, <1>2, Invariance, PTL DEF Safety, Channel!ChannelSafety

(* A message that the client has sent, or is sending, is at least as long. *)
LEMMA ReachedTooLarge ==
    ASSUME Placed, NEW m \in Under, Reached(m, building, sent), Len(m.data) > MaxMessage
    PROVE  TooLarge
<1>1. \A a, b, c \in Nat : a > c /\ a <= b => b > c
  OBVIOUS
<1>2. Len(m.data) \in Nat /\ Len(building.data) \in Nat
  BY MessageFields, Units, PayloadLength DEF Placed, Contents, Under
<1>3. sent \in Seq(Message)
  BY DEF Placed, Contents
<1>4. CASE Len(m.data) <= Len(building.data)
  BY <1>1, <1>2, <1>4, Bounds, Zenon DEF TooLarge
<1>5. CASE \E j \in 1 .. Len(sent) : Len(m.data) <= Len(sent[j].data)
  <2>1. PICK j \in 1 .. Len(sent) : Len(m.data) <= Len(sent[j].data)
    BY <1>5
  <2>2. sent[j] \in Message /\ j \in DOMAIN sent
    BY <1>3, LenProperties, ElementOfSeq
  <2>3. Len(sent[j].data) \in Nat
    BY <2>2, MessageFields, PayloadLength
  <2>4. Len(sent[j].data) > MaxMessage
    BY <1>1, <1>2, <2>1, <2>3, Bounds, Zenon
  <2> QED
    BY <2>2, <2>4, Zenon DEF TooLarge
<1> QED
  BY <1>4, <1>5 DEF Reached

(* receive() gives up a client that conforms for one reason only: one of   *)
(* its messages is too large.                                              *)
LEMMA RejectedTooLarge ==
    ASSUME IInv, conforming, RecvContinuation \/ RecvData,
           handler' = "handler", received' = received
    PROVE  TooLarge
<1> USE DEF clientVars
<1>1. PICK f : f = Head(toServer)
  OBVIOUS
<1>2. /\ Following /\ toServer # <<>> /\ toServer' = Tail(toServer)
      /\ f.op \in DataOps \cup {"cont"}
  BY <1>1 DEF RecvData, RecvContinuation, NextFrame, Following
<1>9. \A op, data : ~Deliver(op, data)
  <2>1. ASSUME NEW x, received' = Append(received, x) PROVE FALSE
    <3>1. received \in Seq(Message) /\ Append(received, x) = received
      BY <2>1 DEF IInv, Placed, Contents
    <3>2. PICK n \in Nat : n = Len(received)
      BY <3>1, LenProperties
    <3>3. Len(Append(received, x)) = n + 1
      BY <3>1, <3>2
    <3> QED
      BY <3>1, <3>2, <3>3
  <2> QED
    BY <2>1 DEF Deliver
<1>3. PICK msg \in [0 .. Len(toServer) -> Under], cnt \in [0 .. Len(toServer) -> Nat] :
         Trace(msg, cnt)
  BY <1>2 DEF IInv, Conveyed
<1>4. /\ Advance(f, msg[0], Len(received), msg[1], cnt[1], sent)
      /\ msg[0] \in Under /\ msg[1] \in Under /\ Joining(msg[0])
      /\ Reached(msg[1], building, sent)
  BY <1>1, <1>2, <1>3, FirstFrame DEF IInv, Placed
<1>5. f.op \notin {"ping", "pong", "close"}
  BY <1>2 DEF DataOps
<1>6. f.op = "cont" <=> msg[0] # NoMessage
  BY <1>4, <1>5 DEF Advance
<1>7. CASE RecvData
  <2>1. fragment # <<>>
    BY <1>7, <1>9 DEF RecvData, Continue
  <2>2. f.op # "cont"
    BY <1>1, <1>7 DEF RecvData, NextFrame, DataOps
  <2> QED
    BY <1>4, <1>6, <2>1, <2>2 DEF Joining
<1>8. CASE RecvContinuation
  <2>1. f.op = "cont" /\ Len(fragment \o f.data) > MaxMessage
    BY <1>1, <1>8, <1>9 DEF RecvContinuation, NextFrame, Continue
  <2>2. Whole(f, msg[0]).data = fragment \o f.data
    BY <1>4, <1>6, <2>1 DEF Whole, Joining
  <2>3. CASE f.fin
    <3>1. /\ cnt[1] \in 1 .. Len(sent) /\ sent[cnt[1]] = Whole(f, msg[0])
      BY <1>4, <1>5, <2>3 DEF Advance
    <3>2. cnt[1] \in DOMAIN sent
      BY <3>1, LenProperties DEF IInv, Placed, Contents
    <3> QED
      BY <2>1, <2>2, <3>1, <3>2, Zenon DEF TooLarge
  <2>4. CASE ~f.fin
    <3>1. msg[1] = Whole(f, msg[0])
      BY <1>4, <1>5, <2>4 DEF Advance
    <3> QED
      BY <1>4, <2>1, <2>2, <3>1, ReachedTooLarge DEF IInv
  <2> QED
    BY <2>3, <2>4
<1> QED
  BY <1>7, <1>8

(* receive() returns an error only when the client's Close frame says so   *)
(* or a message is too large, if the client is there and keeps to the      *)
(* protocol: it mistakes no frame for the wrong one.                       *)
THEOREM ConformingIsAccepted == Safety => ConformingAccepted
<1> USE DEF implVars, writeVars, clientVars
<1>1. IInv /\ [Next]_vars =>
        [conforming /\ ~lost /\ handler \in {"frame", "reading"} /\ handler' = "handler"
          /\ received' = received =>
             Head(toServer).op = "close" \/ TooLarge]_vars
  <2> SUFFICES ASSUME IInv, [Next]_vars, conforming, ~lost, handler \in {"frame", "reading"},
                      handler' = "handler", received' = received
               PROVE  Head(toServer).op = "close" \/ TooLarge
    OBVIOUS
  <2>1. CASE Receive
    <3>1. CASE RecvContinuation \/ RecvData
      BY <3>1, RejectedTooLarge
    <3>2. CASE RecvClose
      BY <3>2 DEF RecvClose, NextFrame
    <3> QED
      BY <2>1, <3>1, <3>2
         DEF Receive, TestOpen, Read, ReadReturned, ReadFailed, RecvPing, RecvPong, Continue
  <2>2. CASE \E w \in Writers : CallSend(w) \/ CallClose(w) \/ ClearOpen(w) \/ Written(w)
    BY <2>2 DEF CallSend, CallClose, ClearOpen, Written, HeaderWritten, PayloadWritten,
                WriteFailed
  <2>3. CASE Upgrade \/ CallReceive \/ Return \/ Client \/ UNCHANGED vars
    BY <2>3 DEF Upgrade, CallReceive, Return, Client, ClientControl, ClientData,
                ClientBreaks, ClientLeaves, vars
  <2> QED
    BY <2>1, <2>2, <2>3 DEF Next, Ended
<1> QED
  BY <1>1, Invariance, PTL DEF ConformingAccepted, Safety
=============================================================================
