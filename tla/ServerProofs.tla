---------------------------- MODULE ServerProofs ----------------------------
(***************************************************************************)
(* For every number of rings, connections and requests per connection:     *)
(* active_connections_ counts the connection coroutines that are alive     *)
(* (so the drain loop of shutdown() waits for the right thing), and a      *)
(* connection does at most one more thing after cancellation: a read, a    *)
(* write, or the rest of a file with as many waits as that takes.          *)
(*                                                                         *)
(* Every connection coroutine is either executed by the worker of its own  *)
(* ring alone or parked with exactly one operation.                        *)
(*                                                                         *)
(* The count is inductive together with the fact that an accepted          *)
(* connection is in one completion of one ring: its coroutine begins once. *)
(* The bound on late operations is inductive together with the fact that   *)
(* a handler about to read, write or send a file made its check before     *)
(* cancellation, or has submitted nothing but waits since.  That no        *)
(* coroutine is lost is inductive together with what a worker knows of     *)
(* the coroutine it runs, and with the fact that no worker runs before     *)
(* UringContext::run() has started them all.                               *)
(*                                                                         *)
(* Tls, for every set of clients and number of requests: when nothing more *)
(* happens of its own, the server has answered every request of a client   *)
(* that is still there, and waits for nothing but clients.  It is          *)
(* inductive together with what may be on its way between the two at each  *)
(* point of the protocol, wherever it is in BIOs and sockets.              *)
(***************************************************************************)
EXTENDS Server, SequenceTheorems, FiniteSetTheorems, TLAPS

CONSTANTS Clients, NoClient                                            \* of Tls

VARIABLES version, client, requests, answered, toServer, toClient, rbio, wbio, ssl, backlog,
          serving, loop, tls_handler

T == INSTANCE Tls WITH handler <- tls_handler

(* An accepted connection waits in one completion, unknown to any handler. *)
AcceptedOnce ==
    \A c \in Conns :
        /\ \A r \in Rings : <<r, c>> \in completed[r] => handler[c] = "accepted"
        /\ \A r, s \in Rings :
              <<r, c>> \in completed[r] /\ <<s, c>> \in completed[s] => r = s

(* Why one late operation is the limit. *)
LateBound ==
    \A c \in Conns :
        /\ late[c] \in {0, 1} /\ lateFile[c] \in {0, 1}
        /\ ~cancelled => late[c] = 0 /\ lateFile[c] = 0
        /\ handler[c] \in {"readSubmit", "writeSubmit"} => late[c] = 0 /\ lateFile[c] = 0
        /\ handler[c] \in {"sendfile", "fileSubmit", "filePark", "waiting"} => late[c] = 0
        /\ late[c] = 0 \/ lateFile[c] = 0

IInv ==
    /\ TypeOK
    /\ ActiveCountsHandlers
    /\ AcceptedOnce
    /\ LateBound

USE ServerAssumption

-----------------------------------------------------------------------------
(* Facts about the operators of the model *)

(* A parked handler that is resumed executes, past its first line. *)
LEMMA ContinueExecutes ==
    ASSUME NEW c \in Conns, after[c] \in {"loop", "close"}, handler[c] \in Parked,
           NEW result \in Results(handler[c])
    PROVE  \/ Continue(c, result) \in {"write", "read", "file", "close", "loop"}
           \/ Continue(c, result) = "sendfile" /\ handler[c] = "waiting"
  <1>1. CASE handler[c] = "reading"
    <2>1. result \in ReadResults
      BY <1>1 DEF Results
    <2> QED
      BY <2>1 DEF Continue, ReadResults
  <1>2. CASE handler[c] = "writing"
    <2>1. result \in WriteResults
      BY <1>2 DEF Results
    <2> QED
      BY <2>1 DEF Continue, WriteResults
  <1>3. CASE handler[c] = "waiting"
    <2>1. result = "any"
      BY <1>3 DEF Results
    <2> QED
      BY <1>3, <2>1 DEF Continue
  <1> QED
    BY <1>1, <1>2, <1>3 DEF Parked

(* The set whose size active_connections_ should be is finite. *)
LEMMA CountedFinite == IsFiniteSet(Counted) /\ Cardinality(Counted) \in Nat
  BY FS_Subset, FS_CardinalityType DEF Counted

(* A handler's step that is neither its first nor its last leaves the *)
(* count as it is.                                                    *)
LEMMA SameCount ==
    ASSUME ActiveCountsHandlers, active' = active,
           \A c \in Conns : c \in Counted' <=> c \in Counted
    PROVE  ActiveCountsHandlers'
  <1>1. Counted' = Counted
    BY DEF Counted
  <1> QED
    BY <1>1 DEF ActiveCountsHandlers

-----------------------------------------------------------------------------
LEMMA InitInv == Init => IInv
  <1> SUFFICES ASSUME Init PROVE IInv
    OBVIOUS
  <1>1. TypeOK
    <2>1. /\ served \in [Conns -> 0..MaxRequests] /\ late \in [Conns -> Nat] /\ active \in Nat
          /\ lateFile \in [Conns -> {0, 1}]
      BY DEF Init
    <2>2. submitted = {} /\ completed = [r \in Rings |-> {}]
      BY DEF Init
    <2>3. completed \in [Rings -> SUBSET (Conns \cup (Rings \X (Conns \cup {NoConn})))]
      BY <2>2
    <2>4. /\ worker \in [Rings -> {"off"}] /\ current \in [Rings -> {NoConn}]
          /\ acceptor \in [Rings -> {"off"}] /\ handler \in [Conns -> {"none"}]
          /\ ring \in [Conns -> Rings] /\ after \in [Conns -> {"loop"}]
      BY DEF Init
    <2> QED
      BY <2>1, <2>2, <2>3, <2>4 DEF Init, TypeOK
  <1>2. ActiveCountsHandlers
    <2>1. Counted = {}
      BY DEF Init, Counted, Executing, Parked
    <2> QED
      BY <2>1, FS_EmptySet DEF Init, ActiveCountsHandlers
  <1>3. AcceptedOnce
    BY DEF Init, AcceptedOnce
  <1>4. LateBound
    BY DEF Init, LateBound
  <1> QED
    BY <1>1, <1>2, <1>3, <1>4 DEF IInv

(* Steps of the threads that run(), stop() and shutdown() are called on. *)
LEMMA AppInv ==
    ASSUME IInv, Main \/ Call \/ Control
    PROVE  IInv'
  <1> USE DEF IInv, connVars, opVars, loopVars
  <1>1. UNCHANGED <<connVars, opVars>>
    BY DEF Main, EnableMultiAccept, ListenOnce, RunLoop, Join, Call, CallStop,
           CallShutdown, Control, StopCancels, CloseListener, Drained,
           DrainTimeout, ForceClose, StopLoop
  <1>2. TypeOK'
    <2>1. CASE Main
      <3>1. CASE EnableMultiAccept
        BY <3>1 DEF TypeOK, EnableMultiAccept
      <3>4. CASE Join
        BY <3>4 DEF TypeOK, Join
      <3>2. CASE ListenOnce
        BY <3>2 DEF TypeOK, ListenOnce
      <3>3. CASE RunLoop
        BY <3>3 DEF TypeOK, RunLoop
      <3> QED
        BY <2>1, <3>1, <3>2, <3>3, <3>4 DEF Main
    <2>2. CASE Call
      <3>1. CASE CallStop
        BY <3>1 DEF TypeOK, CallStop
      <3>2. CASE CallShutdown
        BY <3>2 DEF TypeOK, CallShutdown
      <3> QED
        BY <2>2, <3>1, <3>2 DEF Call
    <2>3. CASE Control
      <3>1. CASE StopCancels
        BY <3>1 DEF TypeOK, StopCancels
      <3>2. CASE CloseListener
        BY <3>2 DEF TypeOK, CloseListener
      <3>3. CASE Drained \/ DrainTimeout
        BY <3>3 DEF TypeOK, Drained, DrainTimeout
      <3>4. CASE ForceClose
        BY <3>4 DEF TypeOK, ForceClose
      <3>5. CASE StopLoop
        BY <3>5 DEF TypeOK, StopLoop
      <3> QED
        BY <2>3, <3>1, <3>2, <3>3, <3>4, <3>5 DEF Control
    <2> QED
      BY <2>1, <2>2, <2>3
  <1>3. ActiveCountsHandlers'
    BY <1>1, SameCount DEF Counted
  <1>4. AcceptedOnce'
    BY <1>1 DEF AcceptedOnce
  <1>5. LateBound'
    <2>1. cancelled => cancelled'
      BY DEF Main, EnableMultiAccept, ListenOnce, RunLoop, Join, Call, CallStop,
             CallShutdown, Control, StopCancels, CloseListener, Drained,
             DrainTimeout, ForceClose, StopLoop
    <2> QED
      BY <1>1, <2>1 DEF LateBound
  <1> QED
    BY <1>2, <1>3, <1>4, <1>5

(* Steps of a worker that touch no connection. *)
LEMMA LoopInv ==
    ASSUME IInv, NEW r \in Rings, FirstTest(r) \/ EndBatch(r) \/ Accept(r)
    PROVE  IInv'
  <1> USE DEF IInv, appVars, connVars, opVars, loopVars
  <1>1. UNCHANGED <<connVars, completed, cancelled>>
    BY DEF FirstTest, EndBatch, Accept, AcceptLoop, AcceptFailed, SubmitAccept,
           ParkAcceptor
  <1>2. TypeOK'
    <2>1. CASE FirstTest(r) \/ EndBatch(r)
      BY <2>1 DEF TypeOK, FirstTest, EndBatch, Worker
    <2>2. CASE AcceptLoop(r)
      BY <2>2 DEF TypeOK, AcceptLoop, Acceptor, LeaveAcceptor
    <2>3. CASE AcceptFailed(r)
      BY <2>3 DEF TypeOK, AcceptFailed, Acceptor, LeaveAcceptor
    <2>4. CASE SubmitAccept(r)
      BY <2>4 DEF TypeOK, SubmitAccept, Acceptor
    <2>5. CASE ParkAcceptor(r)
      BY <2>5 DEF TypeOK, ParkAcceptor, Acceptor, LeaveAcceptor
    <2> QED
      BY <2>1, <2>2, <2>3, <2>4, <2>5 DEF Accept
  <1>3. ActiveCountsHandlers'
    BY <1>1, SameCount DEF Counted
  <1>4. AcceptedOnce'
    BY <1>1 DEF AcceptedOnce
  <1>5. LateBound'
    BY <1>1 DEF LateBound
  <1> QED
    BY <1>2, <1>3, <1>4, <1>5

(* Steps of the kernel. *)
LEMMA KernelInv ==
    ASSUME IInv, (\E r \in Rings : CompleteAccept(r)) \/ (\E c \in Conns : CompleteIo(c))
    PROVE  IInv'
  <1> USE DEF IInv, appVars, loopVars
  <1>1. ASSUME NEW r \in Rings, CompleteAccept(r) PROVE IInv'
    <2>1. PICK c \in {d \in Conns : handler[d] = "none"} \cup {NoConn} :
            /\ completed' = [completed EXCEPT ![r] = @ \cup {<<r, c>>}]
            /\ handler' = IF c = NoConn THEN handler
                          ELSE [handler EXCEPT ![c] = "accepted"]
      BY <1>1 DEF CompleteAccept
    <2>2. TypeOK'
      BY <1>1, <2>1 DEF TypeOK, CompleteAccept
    <2>3. ActiveCountsHandlers'
      BY <1>1, <2>1, SameCount DEF CompleteAccept, Counted, Executing, Parked, TypeOK
    <2>4. AcceptedOnce'
      BY <2>1 DEF AcceptedOnce, TypeOK
    <2>5. LateBound'
      BY <1>1, <2>1 DEF LateBound, CompleteAccept, TypeOK
    <2> QED
      BY <2>2, <2>3, <2>4, <2>5
  <1>2. ASSUME NEW c \in Conns, CompleteIo(c) PROVE IInv'
    <2>0. UNCHANGED <<connVars, cancelled>>
      BY <1>2 DEF CompleteIo, connVars
    <2>1. completed' = [completed EXCEPT ![IoRing(c)] = @ \cup {c}]
      BY <1>2 DEF CompleteIo
    <2>2. TypeOK'
      BY <1>2, <2>1 DEF TypeOK, CompleteIo, IoRing, connVars
    <2>3. ActiveCountsHandlers'
      BY <2>0, SameCount DEF connVars, Counted
    <2>4. \A r \in Rings, d \in Conns : <<r, d>> \in completed'[r] => <<r, d>> \in completed[r]
      BY <2>1, CompletionsDiffer DEF TypeOK, IoRing
    <2>5. AcceptedOnce'
      BY <2>0, <2>4 DEF AcceptedOnce, connVars
    <2>6. LateBound'
      BY <2>0 DEF LateBound, connVars
    <2> QED
      BY <2>2, <2>3, <2>5, <2>6
  <1> QED
    BY <1>1, <1>2

(* A worker takes the completion of an accept. *)
LEMMA ResumeAcceptorInv ==
    ASSUME IInv, NEW r \in Rings, ResumeAcceptor(r)
    PROVE  IInv'
  <1> USE DEF IInv, appVars
  <1>1. PICK c \in Conns \cup {NoConn} :
          /\ <<r, c>> \in completed[r]
          /\ completed' = [completed EXCEPT ![r] = @ \ {<<r, c>>}]
          /\ IF multi /\ stopped
             THEN /\ acceptor' = [acceptor EXCEPT ![r] = "ended"]
                  /\ handler' = IF c = NoConn THEN handler
                                ELSE [handler EXCEPT ![c] = "dropped"]
                  /\ UNCHANGED <<worker, current, ring>>
             ELSE IF c = NoConn
             THEN /\ acceptor' = [acceptor EXCEPT ![r] = IF multi THEN "loop" ELSE "error"]
                  /\ Worker(r, "accept")
                  /\ UNCHANGED <<current, handler, ring>>
             ELSE /\ acceptor' = [acceptor EXCEPT ![r] = "handing"]
                  /\ handler' = [handler EXCEPT ![c] = "begin"]
                  /\ ring' = [ring EXCEPT ![c] = r]
                  /\ current' = [current EXCEPT ![r] = c]
                  /\ Worker(r, "handler")
    BY DEF ResumeAcceptor
  <1>2. UNCHANGED <<appVars, served, after, active, late, lateFile, submitted>>
    BY DEF ResumeAcceptor
  <1>3. \/ c = NoConn /\ handler' = handler
        \/ c \in Conns /\ handler' = [handler EXCEPT ![c] = "dropped"]
        \/ c \in Conns /\ handler' = [handler EXCEPT ![c] = "begin"]
    BY <1>1
  <1>4. TypeOK'
    <2>1. completed' \in [Rings -> SUBSET (Conns \cup (Rings \X (Conns \cup {NoConn})))]
      BY <1>1 DEF TypeOK
    <2>2. handler' \in [Conns -> {"none", "accepted", "dropped", "closed"}
                                   \cup Executing \cup Parked]
      BY <1>3 DEF TypeOK, Executing
    <2>3. /\ worker' \in [Rings -> {"off", "starting", "top", "poll", "accept",
                                    "handler", "exited"}]
          /\ current' \in [Rings -> Conns \cup {NoConn}]
          /\ ring' \in [Conns -> Rings]
          /\ acceptor' \in [Rings -> {"off", "loop", "error", "submit", "park",
                                      "parked", "handing", "ended"}]
      BY <1>1 DEF TypeOK, Worker
    <2> QED
      BY <1>2, <2>1, <2>2, <2>3 DEF TypeOK
  <1>5. \A d \in Conns : d = c => handler[d] = "accepted"
    BY <1>1 DEF AcceptedOnce
  <1>6. ActiveCountsHandlers'
    BY <1>2, <1>3, <1>5, SameCount DEF Counted, Executing, Parked, TypeOK
  <1>7. AcceptedOnce'
    <2>1. \A s \in Rings, d \in Conns :
            <<s, d>> \in completed'[s] => <<s, d>> \in completed[s] /\ <<s, d>> # <<r, c>>
      BY <1>1 DEF TypeOK
    <2>2. \A s \in Rings, d \in Conns : <<s, d>> \in completed'[s] => d # c
      BY <1>1, <2>1 DEF AcceptedOnce
    <2> QED
      BY <1>3, <2>1, <2>2 DEF AcceptedOnce, TypeOK
  <1>8. LateBound'
    BY <1>2, <1>3 DEF LateBound, TypeOK
  <1> QED
    BY <1>4, <1>6, <1>7, <1>8

(* A worker takes the completion of a read or a write. *)
LEMMA ResumeHandlerInv ==
    ASSUME IInv, NEW r \in Rings, NEW c \in Conns, ResumeHandler(r, c)
    PROVE  IInv'
  <1> USE DEF IInv, appVars
  <1>1. completed' = [completed EXCEPT ![r] = @ \ {c}]
    BY DEF ResumeHandler
  <1>2. UNCHANGED <<appVars, acceptor, ring, served, active, late, lateFile, submitted>>
    BY DEF ResumeHandler
  <1>3. CASE handler[c] \notin Parked
    <2>1. UNCHANGED <<handler, after, current, worker>>
      BY <1>3 DEF ResumeHandler
    <2> QED
      BY <1>1, <1>2, <2>1, SameCount DEF TypeOK, Counted, AcceptedOnce, LateBound
  <1>4. CASE handler[c] \in Parked
    <2>1. PICK result \in Results(handler[c]) :
            /\ handler' = [handler EXCEPT ![c] = Continue(c, result)]
            /\ after' = [after EXCEPT ![c] =
                  CASE result = "request" ->
                         IF served[c] < MaxRequests THEN "loop" ELSE "close"
                    [] result = "last" -> "close"
                    [] OTHER -> @]
            /\ current' = [current EXCEPT ![r] = c]
            /\ Worker(r, "handler")
      BY <1>4 DEF ResumeHandler
    <2>2. \/ Continue(c, result) \in {"write", "read", "file", "close", "loop"}
          \/ Continue(c, result) = "sendfile" /\ handler[c] = "waiting"
      BY <1>4, ContinueExecutes DEF TypeOK
    <2>3. TypeOK'
      <3>1. completed' \in [Rings -> SUBSET (Conns \cup (Rings \X (Conns \cup {NoConn})))]
        BY <1>1 DEF TypeOK
      <3>2. handler' \in [Conns -> {"none", "accepted", "dropped", "closed"}
                                     \cup Executing \cup Parked]
        <4>1. Continue(c, result) \in Executing
          BY <2>2 DEF Executing
        <4> QED
          BY <2>1, <4>1 DEF TypeOK
      <3>3. after' \in [Conns -> {"loop", "close"}]
        BY <2>1 DEF TypeOK
      <3>4. /\ worker' \in [Rings -> {"off", "starting", "top", "poll", "accept",
                                      "handler", "exited"}]
            /\ current' \in [Rings -> Conns \cup {NoConn}]
        BY <2>1 DEF TypeOK, Worker
      <3> QED
        BY <1>2, <3>1, <3>2, <3>3, <3>4 DEF TypeOK
    <2>4. ActiveCountsHandlers'
      <3>1. handler'[c] = Continue(c, result) /\ \A d \in Conns : d # c => handler'[d] = handler[d]
        BY <2>1 DEF TypeOK
      <3>2. Continue(c, result) \in Executing \ {"begin"}
        BY <2>2 DEF Executing
      <3> QED
        BY <1>2, <1>4, <3>1, <3>2, SameCount DEF Counted
    <2>5. AcceptedOnce'
      BY <1>1, <1>4, <2>1 DEF AcceptedOnce, TypeOK, Parked
    <2>6. LateBound'
      <3>1. handler'[c] = Continue(c, result) /\ \A d \in Conns : d # c => handler'[d] = handler[d]
        BY <2>1 DEF TypeOK
      <3> QED
        BY <1>2, <2>2, <3>1 DEF LateBound
    <2> QED
      BY <2>3, <2>4, <2>5, <2>6
  <1> QED
    BY <1>3, <1>4

(* A worker executes a connection coroutine. *)
LEMMA HandleInv ==
    ASSUME IInv, NEW r \in Rings, NEW c \in Conns, Handle(r, c)
    PROVE  IInv'
  <1> USE DEF IInv, appVars, loopVars, opVars, Runs, Handler
  <1>1. AcceptedOnce'
    <2>1. /\ completed' = completed
          /\ \A d \in Conns : handler[d] = "accepted" => handler'[d] = "accepted"
      BY DEF Handle, Begin, NextRequest, CheckRead, CheckWrite, SubmitRead, SubmitWrite,
             Submit, ParkRead, ParkWrite, Park, CheckFile, SendFile, SubmitWait, ParkWait,
             Close, DestroyFrame, TypeOK
    <2> QED
      BY <2>1 DEF AcceptedOnce
  <1>2. CASE Begin(r, c)
    <2> USE <1>2 DEF Begin
    <2>1. TypeOK' /\ LateBound'
      BY DEF TypeOK, LateBound, Executing
    <2>2. Counted' = Counted \cup {c} /\ c \notin Counted
      BY DEF Counted, Executing, Parked, TypeOK
    <2>3. ActiveCountsHandlers'
      BY <2>2, CountedFinite, FS_AddElement DEF ActiveCountsHandlers
    <2> QED
      BY <1>1, <2>1, <2>3
  <1>3. CASE NextRequest(r, c)
    <2> USE <1>3 DEF NextRequest
    <2>1. TypeOK'
      BY DEF TypeOK, Executing
    <2>2. ActiveCountsHandlers'
      BY SameCount DEF Counted, Executing, Parked, TypeOK
    <2>3. LateBound'
      BY DEF LateBound, TypeOK
    <2> QED
      BY <1>1, <2>1, <2>2, <2>3
  <1>4. CASE CheckRead(r, c) \/ CheckWrite(r, c)
    <2> USE <1>4 DEF CheckRead, CheckWrite
    <2>1. TypeOK'
      BY DEF TypeOK, Executing
    <2>2. ActiveCountsHandlers'
      BY SameCount DEF Counted, Executing, Parked, TypeOK
    <2>3. LateBound'
      BY DEF LateBound, TypeOK
    <2> QED
      BY <1>1, <2>1, <2>2, <2>3
  <1>5. CASE SubmitRead(r, c) \/ SubmitWrite(r, c)
    <2> USE <1>5 DEF SubmitRead, SubmitWrite, Submit
    <2>1. TypeOK'
      BY DEF TypeOK, Executing
    <2>2. ActiveCountsHandlers'
      BY SameCount DEF Counted, Executing, Parked, TypeOK
    <2>3. LateBound'
      BY DEF LateBound, TypeOK
    <2> QED
      BY <1>1, <2>1, <2>2, <2>3
  <1>6. CASE ParkRead(r, c) \/ ParkWrite(r, c) \/ ParkWait(r, c)
    <2> USE <1>6 DEF ParkRead, ParkWrite, ParkWait, Park, LeaveHandler, Worker
    <2>1. TypeOK'
      BY DEF TypeOK, Executing, Parked
    <2>2. ActiveCountsHandlers'
      BY SameCount DEF Counted, Executing, Parked, TypeOK
    <2>3. LateBound'
      BY DEF LateBound, TypeOK
    <2> QED
      BY <1>1, <2>1, <2>2, <2>3
  <1>7. CASE Close(r, c)
    <2> USE <1>7 DEF Close, DestroyFrame, LeaveHandler, Worker
    <2>1. c \in Counted /\ Counted' = Counted \ {c}
      BY DEF Counted, Executing, Parked, TypeOK
    <2>2. active > 0
      BY <2>1, CountedFinite, FS_EmptySet DEF ActiveCountsHandlers
    <2>3. ActiveCountsHandlers'
      BY <2>1, CountedFinite, FS_RemoveElement DEF ActiveCountsHandlers
    <2>4. TypeOK'
      BY <2>2 DEF TypeOK
    <2>5. LateBound'
      BY DEF LateBound, TypeOK
    <2> QED
      BY <1>1, <2>3, <2>4, <2>5
  <1>8. CASE CheckFile(r, c) \/ SendFile(r, c)
    <2>1. /\ UNCHANGED <<appVars, loopVars, ring, served, after, active, late, lateFile, opVars>>
          /\ \E at \in {"sendfile", "fileSubmit", "loop", "close"} :
                /\ handler' = [handler EXCEPT ![c] = at]
                /\ at = "sendfile" => handler[c] = "file" /\ ~cancelled
                /\ at = "fileSubmit" => handler[c] = "sendfile"
          /\ handler[c] \in {"file", "sendfile"}
      BY <1>8 DEF CheckFile, SendFile, TypeOK
    <2>2. TypeOK'
      BY <2>1 DEF TypeOK, Executing
    <2>3. ActiveCountsHandlers'
      BY <2>1, SameCount DEF Counted, Executing, Parked, TypeOK
    <2>4. LateBound'
      BY <2>1 DEF LateBound, TypeOK
    <2> QED
      BY <1>1, <2>2, <2>3, <2>4
  <1>9. CASE SubmitWait(r, c)
    <2> USE <1>9 DEF SubmitWait
    <2>1. TypeOK'
      BY DEF TypeOK, Executing
    <2>2. ActiveCountsHandlers'
      BY SameCount DEF Counted, Executing, Parked, TypeOK
    <2>3. LateBound'
      BY DEF LateBound, TypeOK
    <2> QED
      BY <1>1, <2>1, <2>2, <2>3
  <1> QED
    BY <1>2, <1>3, <1>4, <1>5, <1>6, <1>7, <1>8, <1>9 DEF Handle

LEMMA NextInv == IInv /\ [Next]_vars => IInv'
  <1> SUFFICES ASSUME IInv, [Next]_vars PROVE IInv'
    OBVIOUS
  <1>1. CASE UNCHANGED vars
    BY <1>1, SameCount DEF vars, appVars, loopVars, connVars, opVars, IInv, TypeOK,
                           Counted, AcceptedOnce, LateBound
  <1>2. CASE Main \/ Call \/ Control
    BY <1>2, AppInv
  <1>3. ASSUME NEW r \in Rings,
               FirstTest(r) \/ EndBatch(r) \/ Accept(r)
        PROVE  IInv'
    BY <1>3, LoopInv
  <1>4. ASSUME NEW r \in Rings, NEW c \in Conns, Handle(r, c) PROVE IInv'
    BY <1>4, HandleInv
  <1>5. ASSUME NEW r \in Rings, ResumeAcceptor(r) PROVE IInv'
    BY <1>5, ResumeAcceptorInv
  <1>6. ASSUME NEW r \in Rings, NEW c \in Conns, ResumeHandler(r, c) PROVE IInv'
    BY <1>6, ResumeHandlerInv
  <1>7. CASE (\E r \in Rings : CompleteAccept(r)) \/ (\E c \in Conns : CompleteIo(c))
    BY <1>7, KernelInv
  <1> QED
    BY <1>1, <1>2, <1>3, <1>4, <1>5, <1>6, <1>7 DEF Next, Finished, Execute

(* At every moment of every execution IInv holds. *)
THEOREM Invariance == Safety => []IInv
  BY InitInv, NextInv, PTL DEF Safety

(* Type correctness of the server: in particular the count never wraps. *)
THEOREM TypeCorrect == Safety => []TypeOK
  BY Invariance, PTL DEF IInv

(* The number that shutdown() waits on is the number of live handlers. *)
THEOREM CountCorrect == Safety => []ActiveCountsHandlers
  BY Invariance, PTL DEF IInv

(* Cancellation stops each connection after one more read or write, or     *)
(* after the rest of the file it is sending.                               *)
THEOREM CancellationStopsHandlers == Safety => []OneLateOperation
  <1>1. IInv => OneLateOperation
    BY DEF IInv, LateBound, OneLateOperation
  <1> QED
    BY <1>1, Invariance, PTL

-----------------------------------------------------------------------------
(* No coroutine is lost *)

(* A coroutine that has submitted its operation. *)
Submitted(c) == handler[c] \in Parked \cup {"readPark", "writePark", "filePark"}

(* NoHandlerLost for one connection, one ring at a time. *)
Owned(c) ==
    /\ \A r \in Rings :
          c \in completed[r] <=> Submitted(c) /\ c \notin submitted /\ r = ring[c]
    /\ c \in submitted => Submitted(c)
    /\ handler[c] \in Executing <=> worker[ring[c]] = "handler" /\ current[ring[c]] = c
    /\ \A r \in Rings \ {ring[c]} : current[r] # c

(* A worker has a current connection while it executes a handler, only. *)
WorkerKnows == \A r \in Rings : worker[r] = "handler" <=> current[r] # NoConn

(* The workers do nothing before run() of the event loop starts them. *)
NotStarted ==
    main \in {"listen", "accept", "start"} => \A r \in Rings : worker[r] = "off"

OwnerInv ==
    /\ \A c \in Conns : Owned(c)
    /\ WorkerKnows
    /\ NotStarted

LEMMA OwnedIsNotLost == TypeOK => (NoHandlerLost <=> \A c \in Conns : Owned(c))
  <1> SUFFICES ASSUME TypeOK, NEW c \in Conns
               PROVE  {r \in Rings : c \in completed[r]}
                         = (IF Submitted(c) /\ c \notin submitted THEN {ring[c]} ELSE {})
                      <=> \A r \in Rings : c \in completed[r] <=>
                             Submitted(c) /\ c \notin submitted /\ r = ring[c]
    BY DEF NoHandlerLost, Owned, Submitted
  <1>1. ring[c] \in Rings
    BY DEF TypeOK
  <1> QED
    BY <1>1

LEMMA InitOwner == Init => OwnerInv
  BY DEF Init, OwnerInv, Owned, Submitted, WorkerKnows, NotStarted, Executing, Parked

(* Steps of the callers of run(), stop() and shutdown(). *)
LEMMA AppOwner ==
    ASSUME IInv, OwnerInv, Main \/ Call \/ Control
    PROVE  OwnerInv'
  <1> USE DEF OwnerInv, connVars, opVars, loopVars
  <1>1. UNCHANGED <<connVars, opVars, current>>
    BY DEF Main, EnableMultiAccept, ListenOnce, RunLoop, Join, Call, CallStop,
           CallShutdown, Control, StopCancels, CloseListener, Drained,
           DrainTimeout, ForceClose, StopLoop
  <1>2. CASE RunLoop
    <2>1. \A r \in Rings : worker[r] = "off" /\ worker'[r] # "handler"
      BY <1>2 DEF RunLoop, NotStarted
    <2>2. main' = "join"
      BY <1>2 DEF RunLoop
    <2>3. WorkerKnows' /\ NotStarted'
      BY <1>1, <2>1, <2>2 DEF WorkerKnows, NotStarted
    <2>4. ASSUME NEW c \in Conns PROVE Owned(c)'
      <3>1. ring[c] \in Rings /\ ring'[c] = ring[c]
        BY <1>1 DEF IInv, TypeOK
      <3> QED
        BY <1>1, <2>1, <3>1 DEF Owned, Submitted
    <2> QED
      BY <2>3, <2>4
  <1>3. CASE ~RunLoop
    <2>1. /\ worker' = worker
          /\ main' \in {"listen", "accept", "start"} =>
                main \in {"listen", "accept", "start"}
      BY <1>3 DEF Main, EnableMultiAccept, ListenOnce, Join, Call, CallStop,
             CallShutdown, Control, StopCancels, CloseListener, Drained,
             DrainTimeout, ForceClose, StopLoop
    <2> QED
      BY <1>1, <2>1 DEF Owned, Submitted, WorkerKnows, NotStarted
  <1> QED
    BY <1>2, <1>3

(* Steps of a worker that touch no connection. *)
LEMMA LoopOwner ==
    ASSUME IInv, OwnerInv, NEW r \in Rings, FirstTest(r) \/ EndBatch(r) \/ Accept(r)
    PROVE  OwnerInv'
  <1> USE DEF IInv, OwnerInv, appVars, connVars, opVars, loopVars
  <1>1. /\ UNCHANGED <<connVars, completed, current>>
        /\ submitted' \in {submitted, submitted \cup {r}}
    BY DEF FirstTest, EndBatch, Accept, AcceptLoop, AcceptFailed, SubmitAccept,
           ParkAcceptor
  <1>2. \A s \in Rings : worker'[s] = "handler" <=> worker[s] = "handler"
    BY DEF FirstTest, EndBatch, Worker, Accept, AcceptLoop, AcceptFailed, SubmitAccept,
           ParkAcceptor, LeaveAcceptor, TypeOK
  <1>3. WorkerKnows'
    BY <1>1, <1>2 DEF WorkerKnows
  <1>4. NotStarted'
    BY DEF NotStarted, FirstTest, EndBatch, Worker, Accept, AcceptLoop, AcceptFailed,
           SubmitAccept, ParkAcceptor, LeaveAcceptor, InAcceptor, TypeOK
  <1>5. ASSUME NEW c \in Conns PROVE Owned(c)'
    <2>1. ring[c] \in Rings /\ (c \in submitted' <=> c \in submitted)
      BY <1>1 DEF TypeOK
    <2> QED
      BY <1>1, <1>2, <2>1 DEF Owned, Submitted
  <1> QED
    BY <1>3, <1>4, <1>5

(* Steps of the kernel: an operation moves to the ring it was made on. *)
LEMMA KernelOwner ==
    ASSUME IInv, OwnerInv,
           (\E r \in Rings : CompleteAccept(r)) \/ (\E c \in Conns : CompleteIo(c))
    PROVE  OwnerInv'
  <1> USE DEF IInv, OwnerInv, appVars, loopVars
  <1>1. UNCHANGED <<main, worker, current, ring>>
    BY DEF CompleteAccept, CompleteIo, connVars
  <1>2. WorkerKnows' /\ NotStarted'
    BY <1>1 DEF WorkerKnows, NotStarted
  <1>3. ASSUME NEW r \in Rings, CompleteAccept(r), NEW d \in Conns PROVE Owned(d)'
    <2>1. PICK c \in {e \in Conns : handler[e] = "none"} \cup {NoConn} :
            /\ completed' = [completed EXCEPT ![r] = @ \cup {<<r, c>>}]
            /\ handler' = IF c = NoConn THEN handler
                          ELSE [handler EXCEPT ![c] = "accepted"]
      BY <1>3 DEF CompleteAccept
    <2>2. \A s \in Rings : d \in completed'[s] <=> d \in completed[s]
      BY <2>1, CompletionsDiffer DEF TypeOK
    <2>3. d \in submitted' <=> d \in submitted
      BY <1>3 DEF CompleteAccept
    <2>4. \/ handler'[d] = handler[d]
          \/ handler[d] = "none" /\ handler'[d] = "accepted"
      BY <2>1 DEF TypeOK
    <2> QED
      BY <1>1, <2>2, <2>3, <2>4 DEF Owned, Submitted, Executing, Parked
  <1>4. ASSUME NEW c \in Conns, CompleteIo(c), NEW d \in Conns PROVE Owned(d)'
    <2>1. /\ c \in submitted /\ submitted' = submitted \ {c}
          /\ completed' = [completed EXCEPT ![ring[c]] = @ \cup {c}]
          /\ handler' = handler
      BY <1>4 DEF CompleteIo, IoRing, connVars
    <2>2. ring[c] \in Rings
      BY DEF TypeOK
    <2>3. \A s \in Rings :
            d \in completed'[s] <=> d \in completed[s] \/ (d = c /\ s = ring[c])
      BY <2>1, <2>2 DEF TypeOK
    <2> QED
      BY <1>1, <2>1, <2>3 DEF Owned, Submitted
  <1> QED
    BY <1>2, <1>3, <1>4

(* A worker takes the completion of an accept: the coroutine of the        *)
(* connection is new, and the worker had none.                             *)
LEMMA ResumeAcceptorOwner ==
    ASSUME IInv, OwnerInv, NEW r \in Rings, ResumeAcceptor(r)
    PROVE  OwnerInv'
  <1> USE DEF IInv, OwnerInv, appVars
  <1>1. PICK c \in Conns \cup {NoConn} :
          /\ <<r, c>> \in completed[r]
          /\ completed' = [completed EXCEPT ![r] = @ \ {<<r, c>>}]
          /\ \/ /\ handler' = IF c = NoConn THEN handler
                              ELSE [handler EXCEPT ![c] = "dropped"]
                /\ UNCHANGED <<worker, current, ring>>
             \/ /\ c = NoConn
                /\ worker' = [worker EXCEPT ![r] = "accept"]
                /\ UNCHANGED <<current, handler, ring>>
             \/ /\ c # NoConn
                /\ handler' = [handler EXCEPT ![c] = "begin"]
                /\ ring' = [ring EXCEPT ![c] = r]
                /\ current' = [current EXCEPT ![r] = c]
                /\ worker' = [worker EXCEPT ![r] = "handler"]
    BY DEF ResumeAcceptor, Worker
  <1>2. worker[r] = "poll" /\ UNCHANGED <<main, submitted>>
    BY DEF ResumeAcceptor
  <1>3. current[r] = NoConn
    BY <1>2 DEF WorkerKnows
  <1>4. WorkerKnows'
    BY <1>1, <1>2, <1>3 DEF WorkerKnows, TypeOK
  <1>5. NotStarted'
    BY <1>2 DEF NotStarted
  <1>6. \A d \in Conns : d = c => handler[d] = "accepted"
    BY <1>1 DEF AcceptedOnce
  <1>7. ASSUME NEW d \in Conns PROVE Owned(d)'
    <2>1. \A s \in Rings : d \in completed'[s] <=> d \in completed[s]
      BY <1>1, CompletionsDiffer DEF TypeOK
    <2>2. CASE d # c
      <3>1. handler'[d] = handler[d] /\ ring'[d] = ring[d] /\ ring[d] \in Rings
        BY <1>1, <2>2 DEF TypeOK
      <3>2. \A s \in Rings : current'[s] = d <=> current[s] = d
        BY <1>1, <1>3, <2>2 DEF TypeOK
      <3>3. \A s \in Rings : worker'[s] = worker[s] \/ (s = r /\ current'[s] # d)
        BY <1>1, <1>3, <2>2 DEF TypeOK
      <3>4. handler[d] \in Executing <=>
               worker'[ring[d]] = "handler" /\ current'[ring[d]] = d
        BY <1>2, <1>3, <3>1, <3>2, <3>3 DEF Owned
      <3> QED
        BY <1>2, <2>1, <3>1, <3>2, <3>4 DEF Owned, Submitted
    <2>3. CASE d = c
      <3>1. handler[d] = "accepted" /\ ring[d] \in Rings
        BY <1>6, <2>3 DEF TypeOK
      <3>2. /\ d \notin submitted
            /\ \A s \in Rings : d \notin completed[s]
            /\ \A s \in Rings : current[s] # d
        BY <3>1 DEF Owned, Submitted, Executing, Parked, WorkerKnows
      <3>3. CASE handler' = [handler EXCEPT ![c] = "dropped"]
                 /\ UNCHANGED <<worker, current, ring>>
        BY <1>2, <2>1, <2>3, <3>2, <3>3 DEF Owned, Submitted, Executing, Parked, TypeOK
      <3>4. CASE /\ handler' = [handler EXCEPT ![c] = "begin"]
                 /\ ring' = [ring EXCEPT ![c] = r]
                 /\ current' = [current EXCEPT ![r] = c]
                 /\ worker' = [worker EXCEPT ![r] = "handler"]
        <4>1. /\ handler'[d] = "begin" /\ ring'[d] = r
              /\ current'[r] = d /\ worker'[r] = "handler"
              /\ \A s \in Rings \ {r} : current'[s] # d
          BY <2>3, <3>2, <3>4 DEF TypeOK
        <4> QED
          BY <1>2, <2>1, <3>2, <4>1 DEF Owned, Submitted, Executing, Parked
      <3> QED
        BY <1>1, <2>3, <3>3, <3>4
    <2> QED
      BY <2>2, <2>3
  <1> QED
    BY <1>4, <1>5, <1>7

(* A worker takes the completion of a read or a write: the coroutine it    *)
(* resumes has parked itself, since its worker is the one that resumes.    *)
LEMMA ResumeHandlerOwner ==
    ASSUME IInv, OwnerInv, NEW r \in Rings, NEW c \in Conns, ResumeHandler(r, c)
    PROVE  OwnerInv'
  <1> USE DEF IInv, OwnerInv, appVars
  <1>1. /\ worker[r] = "poll" /\ c \in completed[r]
        /\ completed' = [completed EXCEPT ![r] = @ \ {c}]
        /\ UNCHANGED <<main, ring, submitted>>
    BY DEF ResumeHandler
  <1>2. current[r] = NoConn
    BY <1>1 DEF WorkerKnows
  <1>3. ring[c] = r /\ Submitted(c) /\ c \notin submitted
    BY <1>1 DEF Owned
  <1>4. handler[c] \in Parked
    BY <1>1, <1>3 DEF Owned, Submitted, Executing
  <1>5. PICK result \in Results(handler[c]) :
          /\ handler' = [handler EXCEPT ![c] = Continue(c, result)]
          /\ current' = [current EXCEPT ![r] = c]
          /\ worker' = [worker EXCEPT ![r] = "handler"]
    BY <1>4 DEF ResumeHandler, Worker
  <1>6. Continue(c, result) \in Executing \ {"readPark", "writePark", "filePark"}
    BY <1>4, ContinueExecutes DEF TypeOK, Executing
  <1>7. WorkerKnows' /\ NotStarted'
    BY <1>1, <1>5 DEF WorkerKnows, NotStarted, TypeOK
  <1>8. ASSUME NEW d \in Conns PROVE Owned(d)'
    <2>1. CASE d = c
      <3>1. \A s \in Rings : d \notin completed'[s]
        BY <1>1, <1>3, <2>1 DEF Owned, TypeOK
      <3>2. /\ handler'[d] \in Executing \ {"readPark", "writePark", "filePark"}
            /\ current'[r] = d /\ worker'[r] = "handler"
            /\ \A s \in Rings \ {r} : current'[s] = current[s]
        BY <1>5, <1>6, <2>1 DEF TypeOK
      <3> QED
        BY <1>1, <1>3, <2>1, <3>1, <3>2 DEF Owned, Submitted, Executing, Parked
    <2>2. CASE d # c
      <3>1. /\ handler'[d] = handler[d] /\ ring[d] \in Rings
            /\ \A s \in Rings : d \in completed'[s] <=> d \in completed[s]
        BY <1>1, <1>5, <2>2 DEF TypeOK
      <3>2. \A s \in Rings : current'[s] = d <=> current[s] = d
        BY <1>2, <1>5, <2>2 DEF TypeOK
      <3>3. \A s \in Rings : worker'[s] = worker[s] \/ (s = r /\ current'[s] # d)
        BY <1>5, <2>2 DEF TypeOK
      <3>4. handler[d] \in Executing <=>
               worker'[ring[d]] = "handler" /\ current'[ring[d]] = d
        BY <1>1, <1>2, <3>1, <3>2, <3>3 DEF Owned
      <3> QED
        BY <1>1, <3>1, <3>2, <3>4 DEF Owned, Submitted
    <2> QED
      BY <2>1, <2>2
  <1> QED
    BY <1>7, <1>8

(* A worker executes a connection coroutine, which stays its own or is     *)
(* left parked, with its operation, or ended.                              *)
LEMMA HandleOwner ==
    ASSUME IInv, OwnerInv, NEW r \in Rings, NEW c \in Conns, Handle(r, c)
    PROVE  OwnerInv'
  <1> USE DEF IInv, OwnerInv, appVars, loopVars, opVars, Runs, Handler
  <1>1. /\ worker[r] = "handler" /\ current[r] = c
        /\ UNCHANGED <<main, ring, completed>>
        /\ \A d \in Conns : d # c => handler'[d] = handler[d]
        /\ \A d \in Conns : d # c => (d \in submitted' <=> d \in submitted)
    BY DEF Handle, Begin, NextRequest, CheckRead, CheckWrite, SubmitRead, SubmitWrite,
           Submit, ParkRead, ParkWrite, Park, CheckFile, SendFile, SubmitWait, ParkWait,
           Close, DestroyFrame, TypeOK
  <1>2. ring[c] = r
    BY <1>1 DEF Owned
  <1>3. NotStarted'
    BY <1>1 DEF NotStarted
  <1>4. \/ UNCHANGED <<worker, current>>
        \/ \E at \in {"accept", "poll"} :
              /\ worker' = [worker EXCEPT ![r] = at]
              /\ current' = [current EXCEPT ![r] = NoConn]
    BY DEF Handle, Begin, NextRequest, CheckRead, CheckWrite, SubmitRead, SubmitWrite,
           Submit, ParkRead, ParkWrite, Park, CheckFile, SendFile, SubmitWait, ParkWait,
           Close, LeaveHandler, Worker
  <1>5. WorkerKnows'
    BY <1>4 DEF WorkerKnows, TypeOK
  <1>6. ASSUME NEW d \in Conns, d # c PROVE Owned(d)'
    <2>1. ring[d] \in Rings
      BY DEF TypeOK
    <2>2. \A s \in Rings : current'[s] = d <=> current[s] = d
      BY <1>1, <1>4, <1>6 DEF TypeOK
    <2>3. \A s \in Rings : worker'[s] = worker[s] \/ (s = r /\ current'[s] # d)
      BY <1>4 DEF TypeOK
    <2>4. handler[d] \in Executing <=>
             worker'[ring[d]] = "handler" /\ current'[ring[d]] = d
      BY <1>1, <1>6, <2>1, <2>2, <2>3 DEF Owned
    <2> QED
      BY <1>1, <1>6, <2>1, <2>2, <2>4 DEF Owned, Submitted
  <1>7. Owned(c)'
    <2>1. CASE /\ UNCHANGED <<worker, current, submitted>>
               /\ handler[c] \in Executing \ {"readPark", "writePark", "filePark"}
               /\ handler'[c] \in Executing \ {"readPark", "writePark", "filePark"}
      BY <1>1, <1>2, <2>1 DEF Owned, Submitted, Executing, Parked
    <2>2. CASE SubmitRead(r, c) \/ SubmitWrite(r, c) \/ SubmitWait(r, c)
      <3>1. /\ handler[c] \in {"readSubmit", "writeSubmit", "fileSubmit"}
            /\ handler'[c] \in {"readPark", "writePark", "filePark"}
            /\ submitted' = submitted \cup {c}
            /\ UNCHANGED <<worker, current>>
        BY <2>2 DEF SubmitRead, SubmitWrite, Submit, SubmitWait, TypeOK
      <3> QED
        BY <1>1, <1>2, <3>1 DEF Owned, Submitted, Executing, Parked
    <2>3. CASE ParkRead(r, c) \/ ParkWrite(r, c) \/ ParkWait(r, c)
      <3>1. /\ handler[c] \in {"readPark", "writePark", "filePark"}
            /\ handler'[c] \in Parked
            /\ worker'[r] # "handler"
            /\ current'[r] = NoConn
            /\ UNCHANGED submitted
        BY <2>3 DEF ParkRead, ParkWrite, ParkWait, Park, LeaveHandler, Worker, TypeOK, Parked
      <3> QED
        BY <1>1, <1>2, <1>4, <3>1 DEF Owned, Submitted, Executing, Parked, TypeOK
    <2>4. CASE Close(r, c)
      <3>1. /\ handler[c] = "close" /\ handler'[c] = "closed"
            /\ worker'[r] # "handler"
            /\ current'[r] = NoConn
            /\ UNCHANGED submitted
        BY <2>4 DEF Close, DestroyFrame, LeaveHandler, Worker, TypeOK
      <3> QED
        BY <1>1, <1>2, <1>4, <3>1 DEF Owned, Submitted, Executing, Parked, TypeOK
    <2>5. CASE Begin(r, c) \/ NextRequest(r, c) \/ CheckRead(r, c) \/ CheckWrite(r, c)
      BY <2>1, <2>5 DEF Begin, NextRequest, CheckRead, CheckWrite, TypeOK, Executing
    <2>6. CASE CheckFile(r, c) \/ SendFile(r, c)
      <3>1. /\ handler[c] \in {"file", "sendfile"}
            /\ handler'[c] \in {"sendfile", "fileSubmit", "loop", "close"}
            /\ UNCHANGED <<worker, current, submitted>>
        BY <2>6 DEF CheckFile, SendFile, TypeOK
      <3> QED
        BY <2>1, <3>1 DEF Executing
    <2> QED
      BY <2>2, <2>3, <2>4, <2>5, <2>6 DEF Handle
  <1> QED
    BY <1>3, <1>5, <1>6, <1>7

LEMMA NextOwner == IInv /\ OwnerInv /\ [Next]_vars => OwnerInv'
  <1> SUFFICES ASSUME IInv, OwnerInv, [Next]_vars PROVE OwnerInv'
    OBVIOUS
  <1>1. CASE UNCHANGED vars
    BY <1>1 DEF vars, appVars, loopVars, connVars, opVars, OwnerInv, Owned, Submitted,
                WorkerKnows, NotStarted
  <1>2. CASE Main \/ Call \/ Control
    BY <1>2, AppOwner
  <1>3. ASSUME NEW r \in Rings,
               FirstTest(r) \/ EndBatch(r) \/ Accept(r)
        PROVE  OwnerInv'
    BY <1>3, LoopOwner
  <1>4. ASSUME NEW r \in Rings, NEW c \in Conns, Handle(r, c) PROVE OwnerInv'
    BY <1>4, HandleOwner
  <1>5. ASSUME NEW r \in Rings, ResumeAcceptor(r) PROVE OwnerInv'
    BY <1>5, ResumeAcceptorOwner
  <1>6. ASSUME NEW r \in Rings, NEW c \in Conns, ResumeHandler(r, c) PROVE OwnerInv'
    BY <1>6, ResumeHandlerOwner
  <1>7. CASE (\E r \in Rings : CompleteAccept(r)) \/ (\E c \in Conns : CompleteIo(c))
    BY <1>7, KernelOwner
  <1> QED
    BY <1>1, <1>2, <1>3, <1>4, <1>5, <1>6, <1>7 DEF Next, Finished, Execute

(* No connection coroutine is lost or resumed twice, with any number of    *)
(* rings and connections: a parked one waits for one operation, on its own *)
(* ring, and an executing one is executed by the worker of its ring alone. *)
THEOREM HandlersOwned == Safety => []NoHandlerLost
  <1>1. Safety => []OwnerInv
    BY InitOwner, NextOwner, Invariance, PTL DEF Safety
  <1>2. IInv /\ OwnerInv => NoHandlerLost
    BY OwnedIsNotLost DEF IInv, OwnerInv
  <1> QED
    BY <1>1, <1>2, Invariance, PTL

(* The branch of poll_and_resume() that would lose a completion, because   *)
(* its coroutine has not parked itself yet, is never taken.                *)
NoCompletionLost ==
    [][\A r \in Rings, c \in Conns : ResumeHandler(r, c) => handler[c] \in Parked]_vars

(* UringAwaiter stores its continuation after the submission, and still no *)
(* completion finds it missing: the one thread that could take the         *)
(* completion is the one that is about to store the continuation.          *)
THEOREM NoResumeIsLost == Safety => NoCompletionLost
  <1>1. ASSUME OwnerInv, NEW r \in Rings, NEW c \in Conns, ResumeHandler(r, c)
        PROVE  handler[c] \in Parked
    BY <1>1 DEF OwnerInv, Owned, Submitted, Executing, ResumeHandler
  <1>2. Safety => []OwnerInv
    BY InitOwner, NextOwner, Invariance, PTL DEF Safety
  <1>3. OwnerInv => [\A r \in Rings, c \in Conns :
                       ResumeHandler(r, c) => handler[c] \in Parked]_vars
    BY <1>1
  <1> QED
    BY <1>2, <1>3, PTL DEF NoCompletionLost

-----------------------------------------------------------------------------
(* TLS connections.                                                        *)

(* Sequences, under names that the provers leave alone.                    *)
Cat(s, t) == s \o t
First(s) == Head(s)
Rest(s) == Tail(s)

(* What is on its way to the server, and to the client.                    *)
In(c) == Cat(rbio[c], toServer[c])
Out(c) == Cat(toClient[c], wbio[c])

(* What may be on its way at each point of the protocol.                   *)
Nil == <<>>
One(m) == <<m>>
Two(m, n) == <<m, n>>
AfterHello(v) == IF v = "1.2" THEN "finished" ELSE "ready"
AfterStep(s) == IF s = "hello" THEN "finished" ELSE "up"
Answer(v, s) == IF s = "hello" THEN One("server hello")
                ELSE IF v = "1.3" THEN Nil ELSE One("server finished")
FlowOf(v, cl, owed, s, in, out) ==
    \/ cl = "off" /\ owed = "none" /\ s = "hello" /\ in = Nil /\ out = Nil
    \/ cl = "hello" /\ owed = "none" /\ s = "hello" /\ in = One("hello") /\ out = Nil
    \/ cl = "hello" /\ owed = "none" /\ s = "finished" /\ in = Nil /\ out = One("server hello")
    \/ cl = "finished" /\ owed = "none" /\ v = "1.2" /\ s = "finished"
       /\ in = One("finished") /\ out = Nil
    \/ cl = "finished" /\ owed = "none" /\ s = "up" /\ in = Nil /\ out = One("server finished")
    \/ cl = "ready" /\ owed = "none" /\ s = "finished" /\ in = One("finished") /\ out = Nil
    \/ cl = "ready" /\ owed = "one" /\ s = "finished" /\ in = Two("finished", "request")
       /\ out = Nil
    \/ cl = "ready" /\ owed = "none" /\ s = "up" /\ in = Nil
       /\ (out = Nil \/ out = One("server finished"))
    \/ cl = "ready" /\ owed = "one" /\ s = "up" /\ in = One("request")
       /\ (out = Nil \/ out = One("server finished"))
    \/ cl = "ready" /\ owed = "one" /\ s = "up" /\ in = Nil
       /\ (out = One("response") \/ out = Two("server finished", "response"))

(* And what of it is in the BIOs.                                          *)
AtServer(s, h, rb, wb) ==
    /\ s # "up" => h = "none"
    /\ h # "ended"
    /\ h = "fill" => rb = Nil
    /\ h # "flush" => wb = Nil \/ wb = One("server hello") \/ wb = One("server finished")

Owed(c) == IF requests[c] = answered[c] THEN "none" ELSE "one"
Flow(c) ==
    ~T!Gone(c) =>
        /\ requests[c] = answered[c] \/ requests[c] = answered[c] + 1
        /\ FlowOf(version[c], client[c], Owed(c), ssl[c], In(c), Out(c))
        /\ AtServer(ssl[c], tls_handler[c], rbio[c], wbio[c])

(* Every connection is queued once, or served, or has its coroutine.       *)
Awaited ==
    /\ serving = NoClient <=> loop = "accept"
    /\ \A i \in DOMAIN backlog :
          /\ client[backlog[i]] # "off" /\ tls_handler[backlog[i]] = "none"
          /\ ssl[backlog[i]] = "hello" /\ serving # backlog[i]
          /\ \A j \in DOMAIN backlog : backlog[i] = backlog[j] => i = j
    /\ \A c \in Clients :
          /\ serving = c => client[c] # "off" /\ tls_handler[c] = "none"
          /\ client[c] = "off" => tls_handler[c] = "none" /\ ssl[c] = "hello"
          /\ client[c] # "off" /\ tls_handler[c] = "none" /\ serving # c =>
                /\ \E i \in DOMAIN backlog : backlog[i] = c
                /\ ssl[c] = "hello"

Waiting ==
    /\ loop \in {"flush", "fill"} => rbio[serving] = Nil /\ ssl[serving] # "up"
    /\ loop = "fill" => wbio[serving] = Nil

TlsInv == T!TypeOK /\ Awaited /\ Waiting /\ \A c \in Clients : Flow(c)

-----------------------------------------------------------------------------
(* Sequences.                                                              *)
LEMMA CatProperties ==
    \A S : \A s, t \in Seq(S) :
        /\ Cat(s, t) \in Seq(S) /\ Len(Cat(s, t)) = Len(s) + Len(t)
        /\ \A i \in 1 .. Len(s) + Len(t) :
              Cat(s, t)[i] = IF i <= Len(s) THEN s[i] ELSE t[i - Len(s)]
<1> SUFFICES ASSUME NEW S, NEW s \in Seq(S), NEW t \in Seq(S)
             PROVE  /\ s \o t \in Seq(S) /\ Len(s \o t) = Len(s) + Len(t)
                    /\ \A i \in 1 .. Len(s) + Len(t) :
                          (s \o t)[i] = IF i <= Len(s) THEN s[i] ELSE t[i - Len(s)]
  BY Zenon DEF Cat
<1> QED
  BY ConcatProperties

LEMMA CatNil ==
    \A S : \A s \in Seq(S) : Cat(s, Nil) = s /\ Cat(Nil, s) = s
<1> SUFFICES ASSUME NEW S, NEW s \in Seq(S) PROVE s \o <<>> = s /\ <<>> \o s = s
  BY Zenon DEF Cat, Nil
<1> QED
  BY ConcatEmptySeq

LEMMA FilledSame ==
    ASSUME NEW S, NEW a \in Seq(S), NEW t \in Seq(S), NEW n \in 1 .. Len(t)
    PROVE  /\ Cat(a, SubSeq(t, 1, n)) \in Seq(S) /\ SubSeq(t, n + 1, Len(t)) \in Seq(S)
           /\ Cat(Cat(a, SubSeq(t, 1, n)), SubSeq(t, n + 1, Len(t))) = Cat(a, t)
<1>1. PICK k \in Nat, l \in Nat : k = Len(a) /\ l = Len(t)
  OBVIOUS
<1>2. n \in 1 .. l
  BY <1>1
<1> DEFINE u == SubSeq(t, 1, n)  w == SubSeq(t, n + 1, l)
<1>3. u \in Seq(S) /\ Len(u) = n /\ \A i \in 1 .. n : u[i] = t[i]
  <2>1. \A i \in 1 .. n : i \in 1 .. l
    BY <1>2
  <2>2. \A i \in 1 .. n : t[i] \in S
    BY <1>1, <2>1, ElementOfSeq
  <2>3. 1 \in Int /\ n \in Int
    BY <1>2
  <2>4. /\ SubSeq(t, 1, n) \in Seq(S)
        /\ Len(SubSeq(t, 1, n)) = IF 1 <= n THEN n - 1 + 1 ELSE 0
        /\ \A i \in 1 .. n - 1 + 1 : SubSeq(t, 1, n)[i] = t[1 + i - 1]
    BY <2>2, <2>3, SubSeqProperties
  <2>5. 1 <= n /\ n - 1 + 1 = n /\ \A i \in 1 .. n : 1 + i - 1 = i
    BY <1>2
  <2> QED
    BY <2>4, <2>5
<1>4. w \in Seq(S) /\ Len(w) = l - n /\ \A i \in 1 .. l - n : w[i] = t[n + i]
  <2>1. \A i \in n + 1 .. l : i \in 1 .. l
    BY <1>2
  <2>2. \A i \in n + 1 .. l : t[i] \in S
    BY <1>1, <2>1, ElementOfSeq
  <2>3. n + 1 \in Int /\ l \in Int
    BY <1>2
  <2>4. /\ SubSeq(t, n + 1, l) \in Seq(S)
        /\ Len(SubSeq(t, n + 1, l)) = IF n + 1 <= l THEN l - (n + 1) + 1 ELSE 0
        /\ \A i \in 1 .. l - (n + 1) + 1 : SubSeq(t, n + 1, l)[i] = t[n + 1 + i - 1]
    BY <2>2, <2>3, SubSeqProperties
  <2>5. /\ l - (n + 1) + 1 = l - n /\ ~(n + 1 <= l) => l - n = 0
        /\ \A i \in 1 .. l - n : n + 1 + i - 1 = n + i
    BY <1>2
  <2> QED
    BY <2>4, <2>5
<1> HIDE DEF u, w
<1> DEFINE p == Cat(a, u)
<1>6. /\ p \in Seq(S) /\ Len(p) = k + n
      /\ \A i \in 1 .. k + n : p[i] = IF i <= k THEN a[i] ELSE u[i - k]
  <2>1. u \in Seq(S) /\ a \in Seq(S)
    BY <1>3
  <2>2. /\ p \in Seq(S) /\ Len(p) = Len(a) + Len(u)
        /\ \A i \in 1 .. Len(a) + Len(u) : p[i] = IF i <= Len(a) THEN a[i] ELSE u[i - Len(a)]
    BY <2>1, CatProperties, Zenon
  <2> HIDE DEF p
  <2> QED
    BY <1>1, <1>3, <2>2
<1> HIDE DEF p
<1>7. \A i \in 1 .. k : p[i] = a[i]
  <2>1. \A i \in 1 .. k : i \in 1 .. k + n /\ i <= k
    BY <1>2
  <2> QED
    BY <1>6, <2>1
<1>8. ASSUME NEW i \in 1 .. n PROVE p[k + i] = t[i]
  <2>1. k + i \in 1 .. k + n /\ ~(k + i <= k) /\ k + i - k = i
    BY <1>2
  <2>2. p[k + i] = u[k + i - k]
    BY <1>6, <2>1
  <2>3. u[i] = t[i]
    BY <1>3
  <2> QED
    BY <2>1, <2>2, <2>3
<1> DEFINE x == Cat(p, w)  y == Cat(a, t)
<1>9. /\ x \in Seq(S) /\ Len(x) = k + n + (l - n)
      /\ \A i \in 1 .. k + n + (l - n) : x[i] = IF i <= k + n THEN p[i] ELSE w[i - (k + n)]
  <2>1. /\ x \in Seq(S) /\ Len(x) = Len(p) + Len(w)
        /\ \A i \in 1 .. Len(p) + Len(w) : x[i] = IF i <= Len(p) THEN p[i] ELSE w[i - Len(p)]
    <3>1. p \in Seq(S) /\ w \in Seq(S)
      BY <1>4, <1>6
    <3> QED
      BY <3>1, CatProperties, Zenon
  <2> HIDE DEF x
  <2> QED
    BY <1>4, <1>6, <2>1
<1>10. /\ y \in Seq(S) /\ Len(y) = k + l
      /\ \A i \in 1 .. k + l : y[i] = IF i <= k THEN a[i] ELSE t[i - k]
  <2>1. /\ y \in Seq(S) /\ Len(y) = Len(a) + Len(t)
        /\ \A i \in 1 .. Len(a) + Len(t) : y[i] = IF i <= Len(a) THEN a[i] ELSE t[i - Len(a)]
    BY CatProperties, Zenon
  <2> HIDE DEF y
  <2> QED
    BY <1>1, <2>1
<1> HIDE DEF x, y
<1>11. k + n + (l - n) = k + l
  OBVIOUS
<1>12. ASSUME NEW i \in 1 .. k + l PROVE x[i] = y[i]
  <2>1. CASE i <= k
    <3>1. i \in 1 .. k /\ i <= k + n
      BY <2>1
    <3> QED
      BY <1>7, <1>9, <1>10, <1>11, <2>1, <3>1
  <2>2. CASE ~(i <= k) /\ i <= k + n
    <3>1. i - k \in 1 .. n /\ k + (i - k) = i
      BY <2>2
    <3>2. p[k + (i - k)] = t[i - k]
      BY <1>8, <3>1
    <3>3. x[i] = p[i]
      BY <1>9, <1>11, <2>2
    <3> QED
      BY <1>10, <2>2, <3>1, <3>2, <3>3
  <2>3. CASE ~(i <= k + n)
    <3>1. i - (k + n) \in 1 .. l - n /\ n + (i - (k + n)) = i - k /\ ~(i <= k)
      BY <2>3
    <3>2. x[i] = w[i - (k + n)]
      BY <1>9, <1>11, <2>3
    <3>3. w[i - (k + n)] = t[n + (i - (k + n))]
      BY <1>4, <3>1
    <3> QED
      BY <1>10, <3>1, <3>2, <3>3
  <2> QED
    BY <2>1, <2>2, <2>3
<1>13. x = y
  BY <1>9, <1>10, <1>11, <1>12, SeqEqual
<1> QED
  BY <1>1, <1>4, <1>6, <1>13, Zenon DEF x, y, p, u, w

LEMMA TakenFirst ==
    \A S : \A a, b \in Seq(S) :
        a # Nil => /\ First(a) \in S /\ Rest(a) \in Seq(S) /\ Cat(a, b) # Nil
                   /\ First(Cat(a, b)) = First(a) /\ Rest(Cat(a, b)) = Cat(Rest(a), b)
<1> SUFFICES ASSUME NEW S, NEW a \in Seq(S), NEW b \in Seq(S), a # <<>>
             PROVE  /\ First(a) \in S /\ Rest(a) \in Seq(S) /\ Cat(a, b) # Nil
                    /\ First(Cat(a, b)) = First(a) /\ Rest(Cat(a, b)) = Cat(Rest(a), b)
  BY Zenon DEF Nil
<1>1. Head(a) \in S /\ Tail(a) \in Seq(S)
  BY HeadTailProperties
<1>2. a \o b \in Seq(S) /\ a \o b # <<>>
  BY ConcatProperties, ConcatEqualIffEmpty
<1>3. PICK m \in Nat, n \in Nat : m = Len(a) /\ n = Len(b)
  OBVIOUS
<1>4. m > 0
  BY <1>3
<1>5. Len(a \o b) = m + n
       /\ \A i \in 1 .. m + n : (a \o b)[i] = IF i <= m THEN a[i] ELSE b[i - m]
  BY <1>3, ConcatProperties
<1>6. Head(a \o b) = Head(a)
  <2>1. 1 \in 1 .. m + n /\ 1 <= m
    BY <1>4
  <2>2. (a \o b)[1] = a[1]
    BY <1>5, <2>1
  <2> QED
    BY <1>2, <2>2
<1>7. /\ Tail(a \o b) \in Seq(S) /\ Len(Tail(a \o b)) = m + n - 1
      /\ \A i \in 1 .. m + n - 1 : Tail(a \o b)[i] = (a \o b)[i + 1]
  <2>1. /\ Tail(a \o b) \in Seq(S) /\ Len(Tail(a \o b)) = Len(a \o b) - 1
        /\ \A i \in 1 .. Len(Tail(a \o b)) : Tail(a \o b)[i] = (a \o b)[i + 1]
    BY <1>2, HeadTailProperties
  <2> QED
    BY <1>5, <2>1
<1>8. /\ Len(Tail(a)) = m - 1
      /\ \A i \in 1 .. m - 1 : Tail(a)[i] = a[i + 1]
  <2>1. /\ Len(Tail(a)) = Len(a) - 1
        /\ \A i \in 1 .. Len(Tail(a)) : Tail(a)[i] = a[i + 1]
    BY HeadTailProperties
  <2> QED
    BY <1>3, <2>1
<1>9. /\ Tail(a) \o b \in Seq(S) /\ Len(Tail(a) \o b) = m - 1 + n
      /\ \A i \in 1 .. m - 1 + n :
           (Tail(a) \o b)[i] = IF i <= m - 1 THEN Tail(a)[i] ELSE b[i - (m - 1)]
  <2>1. /\ Tail(a) \o b \in Seq(S) /\ Len(Tail(a) \o b) = Len(Tail(a)) + Len(b)
        /\ \A i \in 1 .. Len(Tail(a)) + Len(b) :
             (Tail(a) \o b)[i] = IF i <= Len(Tail(a)) THEN Tail(a)[i] ELSE b[i - Len(Tail(a))]
    BY <1>1, ConcatProperties
  <2> QED
    BY <1>3, <1>8, <2>1
<1>10. ASSUME NEW i \in 1 .. m + n - 1 PROVE Tail(a \o b)[i] = (Tail(a) \o b)[i]
  <2>1. i + 1 \in 1 .. m + n /\ i \in 1 .. m - 1 + n
    BY <1>4
  <2>2. Tail(a \o b)[i] = IF i + 1 <= m THEN a[i + 1] ELSE b[i + 1 - m]
    BY <1>5, <1>7, <2>1
  <2>3. (Tail(a) \o b)[i] = IF i <= m - 1 THEN Tail(a)[i] ELSE b[i - (m - 1)]
    BY <1>9, <2>1
  <2>4. CASE i <= m - 1
    <3>1. i + 1 <= m /\ i \in 1 .. m - 1
      BY <2>4
    <3> QED
      BY <1>8, <2>2, <2>3, <2>4, <3>1
  <2>5. CASE ~(i <= m - 1)
    <3>1. ~(i + 1 <= m) /\ i + 1 - m = i - (m - 1)
      BY <2>5
    <3> QED
      BY <2>2, <2>3, <2>5, <3>1
  <2> QED
    BY <2>4, <2>5
<1>11. m + n - 1 = m - 1 + n
  OBVIOUS
<1>12. Tail(a \o b) = Tail(a) \o b
  BY <1>7, <1>9, <1>10, <1>11, SeqEqual
<1> QED
  BY <1>1, <1>2, <1>6, <1>12, Zenon DEF Cat, First, Rest, Nil

LEMMA AddedLast ==
    \A S : \A a, b \in Seq(S) : \A m \in S :
        Append(b, m) \in Seq(S) /\ Cat(a, Append(b, m)) = Append(Cat(a, b), m)
<1> SUFFICES ASSUME NEW S, NEW a \in Seq(S), NEW b \in Seq(S), NEW m \in S
             PROVE  Append(b, m) \in Seq(S) /\ Cat(a, Append(b, m)) = Append(Cat(a, b), m)
  BY Zenon
<1>1. <<m>> \in Seq(S) /\ a \o b \in Seq(S) /\ Append(b, m) \in Seq(S)
  BY ConcatProperties
<1>2. Append(b, m) = b \o <<m>> /\ Append(a \o b, m) = (a \o b) \o <<m>>
  BY <1>1, AppendIsConcat
<1> QED
  BY <1>1, <1>2, ConcatAssociative DEF Cat

LEMMA SentFirst ==
    \A a, b \in Seq(T!ToServer) :
        a # Nil => /\ First(a) \in T!ToServer /\ Rest(a) \in Seq(T!ToServer) /\ Cat(a, b) # Nil
                   /\ First(Cat(a, b)) = First(a) /\ Rest(Cat(a, b)) = Cat(Rest(a), b)
<1>1. PICK S : S = T!ToServer
  OBVIOUS
<1>2. ASSUME NEW a \in Seq(S), NEW b \in Seq(S), a # Nil
      PROVE  /\ First(a) \in S /\ Rest(a) \in Seq(S) /\ Cat(a, b) # Nil
             /\ First(Cat(a, b)) = First(a) /\ Rest(Cat(a, b)) = Cat(Rest(a), b)
  BY <1>2, TakenFirst
<1> QED
  BY <1>1, <1>2

LEMMA AnsweredFirst ==
    \A a, b \in Seq(T!ToClient) :
        a # Nil => /\ First(a) \in T!ToClient /\ Rest(a) \in Seq(T!ToClient) /\ Cat(a, b) # Nil
                   /\ First(Cat(a, b)) = First(a) /\ Rest(Cat(a, b)) = Cat(Rest(a), b)
<1>1. PICK S : S = T!ToClient
  OBVIOUS
<1>2. ASSUME NEW a \in Seq(S), NEW b \in Seq(S), a # Nil
      PROVE  /\ First(a) \in S /\ Rest(a) \in Seq(S) /\ Cat(a, b) # Nil
             /\ First(Cat(a, b)) = First(a) /\ Rest(Cat(a, b)) = Cat(Rest(a), b)
  BY <1>2, TakenFirst
<1> QED
  BY <1>1, <1>2

LEMMA SentLast ==
    \A a, b \in Seq(T!ToServer) : \A m \in T!ToServer :
        Cat(a, Append(b, m)) = Append(Cat(a, b), m)
<1>1. PICK S : S = T!ToServer
  OBVIOUS
<1>2. ASSUME NEW a \in Seq(S), NEW b \in Seq(S), NEW m \in S
      PROVE  Cat(a, Append(b, m)) = Append(Cat(a, b), m)
  BY AddedLast
<1> QED
  BY <1>1, <1>2

LEMMA AnsweredLast ==
    \A a, b \in Seq(T!ToClient) : \A m \in T!ToClient :
        Cat(a, Append(b, m)) = Append(Cat(a, b), m)
<1>1. PICK S : S = T!ToClient
  OBVIOUS
<1>2. ASSUME NEW a \in Seq(S), NEW b \in Seq(S), NEW m \in S
      PROVE  Cat(a, Append(b, m)) = Append(Cat(a, b), m)
  BY AddedLast
<1> QED
  BY <1>1, <1>2

-----------------------------------------------------------------------------
(* The steps of the protocol, in what is on its way.                       *)
LEMMA ShortTails ==
    /\ \A x : First(One(x)) = x /\ Rest(One(x)) = Nil /\ One(x) # Nil /\ Append(Nil, x) = One(x)
    /\ \A x, y : /\ First(Two(x, y)) = x /\ Rest(Two(x, y)) = One(y)
                 /\ Two(x, y) # Nil /\ Append(One(x), y) = Two(x, y)
<1> SUFFICES ASSUME NEW x, NEW y
             PROVE  /\ First(One(x)) = x /\ Rest(One(x)) = Nil /\ One(x) # Nil
                    /\ Append(Nil, x) = One(x)
                    /\ First(Two(x, y)) = x /\ Rest(Two(x, y)) = One(y)
                    /\ Two(x, y) # Nil /\ Append(One(x), y) = Two(x, y)
  BY Zenon
<1>1. First(One(x)) = x /\ Rest(One(x)) = Nil
  BY DEF One, Nil, First, Rest
<1>2. First(Two(x, y)) = x /\ Rest(Two(x, y)) = One(y)
  BY DEF One, Two, First, Rest
<1>3. Append(Nil, x) = One(x) /\ Append(One(x), y) = Two(x, y)
  <2> DEFINE S == {x, y}
  <2>1. Nil \in Seq(S) /\ One(x) \in Seq(S) /\ x \in S /\ y \in S
    BY DEF Nil, One
  <2>2. Append(Nil, x) = Nil \o <<x>> /\ Append(One(x), y) = One(x) \o <<y>>
    BY <2>1, AppendIsConcat
  <2>3. <<x>> \in Seq(S)
    OBVIOUS
  <2>4. Nil \o <<x>> = <<x>>
    BY <2>3, ConcatEmptySeq DEF Nil
  <2>5. One(x) \o <<y>> = Two(x, y)
    <3>1. One(x) \in Seq(S) /\ <<y>> \in Seq(S) /\ Two(x, y) \in Seq(S)
      BY DEF One, Two
    <3>2. /\ Len(One(x)) = 1 /\ One(x)[1] = x /\ Len(<<y>>) = 1 /\ <<y>>[1] = y
          /\ Len(Two(x, y)) = 2 /\ Two(x, y)[1] = x /\ Two(x, y)[2] = y
      BY DEF One, Two
    <3>3. /\ One(x) \o <<y>> \in Seq(S) /\ Len(One(x) \o <<y>>) = Len(One(x)) + Len(<<y>>)
          /\ \A i \in 1 .. Len(One(x)) + Len(<<y>>) :
               (One(x) \o <<y>>)[i] = IF i <= Len(One(x)) THEN One(x)[i] ELSE <<y>>[i - Len(One(x))]
      BY <3>1, ConcatProperties
    <3> DEFINE c == One(x) \o <<y>>
    <3>4. c \in Seq(S) /\ Len(c) = 2
      BY <3>2, <3>3
    <3>5. c[1] = x /\ c[2] = y
      BY <3>2, <3>3
    <3> HIDE DEF c
    <3>6. \A i \in 1 .. Len(c) : c[i] = Two(x, y)[i]
      BY <3>2, <3>4, <3>5
    <3>7. c = Two(x, y)
      BY <3>1, <3>2, <3>4, <3>6, SeqEqual
    <3> QED
      BY <3>7 DEF c
  <2> QED
    BY <2>2, <2>4, <2>5 DEF One
<1>4. One(x) # Nil /\ Two(x, y) # Nil
  BY DEF One, Two, Nil
<1> QED
  BY <1>1, <1>2, <1>3, <1>4, Zenon

LEMMA Apart ==
    /\ \A x, y : One(x) = One(y) => x = y
    /\ \A x : One(x) # Nil
    /\ \A x, y, z : One(x) # Two(y, z) /\ Two(y, z) # Nil
<1>1. ASSUME NEW x, NEW y, One(x) = One(y) PROVE x = y
  <2>1. First(One(x)) = x /\ First(One(y)) = y
    BY ShortTails, Zenon
  <2> QED
    BY <1>1, <2>1, Zenon
<1>2. ASSUME NEW x, NEW y, NEW z PROVE One(x) # Two(y, z)
  BY DEF One, Two
<1>3. ASSUME NEW x PROVE One(x) # Nil
  BY ShortTails, Zenon
<1>4. ASSUME NEW y, NEW z PROVE Two(y, z) # Nil
  BY ShortTails, Zenon
<1> QED
  BY <1>1, <1>2, <1>3, <1>4, Zenon

LEMMA ConnectRule ==
    ASSUME NEW v, NEW cl, NEW owed, NEW s, NEW in, NEW out,
           FlowOf(v, cl, owed, s, in, out), cl = "off"
    PROVE  FlowOf(v, "hello", owed, s, Append(in, "hello"), out)
  BY ShortTails DEF FlowOf

LEMMA RequestRule ==
    ASSUME NEW v, NEW cl, NEW owed, NEW s, NEW in, NEW out,
           FlowOf(v, cl, owed, s, in, out), cl = "ready", owed = "none"
    PROVE  FlowOf(v, cl, "one", s, Append(in, "request"), out)
  BY ShortTails DEF FlowOf

LEMMA ReceiveRule ==
    ASSUME NEW v, NEW cl, NEW owed, NEW s, NEW in, NEW out,
           FlowOf(v, cl, owed, s, in, out), out # Nil
    PROVE  /\ First(out) \in {"server hello", "server finished", "response"}
           /\ First(out) = "server hello" =>
                FlowOf(v, AfterHello(v), owed, s, Append(in, "finished"), Rest(out))
           /\ First(out) = "server finished" => FlowOf(v, "ready", owed, s, in, Rest(out))
           /\ First(out) = "response" => owed = "one" /\ FlowOf(v, cl, "none", s, in, Rest(out))
<1>1. \/ out = One("server hello") \/ out = One("server finished") \/ out = One("response")
      \/ out = Two("server finished", "response")
  BY DEF FlowOf
<1>2. CASE out = One("server hello")
  <2>1. First(out) = "server hello" /\ Rest(out) = Nil
    BY <1>2, ShortTails, Zenon
  <2>2. cl = "hello" /\ owed = "none" /\ s = "finished" /\ in = Nil
    BY <1>2, Apart, Zenon DEF FlowOf
  <2>3. Append(in, "finished") = One("finished")
    BY <2>2, ShortTails, Zenon
  <2>4. FlowOf(v, AfterHello(v), owed, s, One("finished"), Nil)
    BY <2>2, Zenon DEF FlowOf, AfterHello
  <2> QED
    BY <2>1, <2>3, <2>4, Zenon
<1>3. CASE out = One("server finished")
  <2>1. First(out) = "server finished" /\ Rest(out) = Nil
    BY <1>3, ShortTails, Zenon
  <2>2. s = "up" /\ ((owed = "none" /\ in = Nil) \/ (owed = "one" /\ in = One("request")))
    <3>1. /\ out # Nil /\ out # One("server hello") /\ out # One("response")
          /\ out # Two("server finished", "response")
      BY <1>3, Apart, Zenon
    <3> QED
      BY <3>1 DEF FlowOf
  <2>3. FlowOf(v, "ready", owed, s, in, Nil)
    BY <2>2, Zenon DEF FlowOf
  <2> QED
    BY <2>1, <2>3, Zenon
<1>4. CASE out = One("response")
  <2>1. First(out) = "response" /\ Rest(out) = Nil
    BY <1>4, ShortTails, Zenon
  <2>2. owed = "one" /\ FlowOf(v, cl, "none", s, in, Nil)
    BY <1>4, Apart, Zenon DEF FlowOf
  <2> QED
    BY <2>1, <2>2, Zenon
<1>5. CASE out = Two("server finished", "response")
  <2>1. First(out) = "server finished" /\ Rest(out) = One("response")
    BY <1>5, ShortTails, Zenon
  <2>2. FlowOf(v, "ready", owed, s, in, One("response"))
    BY <1>5, Apart, Zenon DEF FlowOf
  <2> QED
    BY <2>1, <2>2, Zenon
<1> QED
  BY <1>1, <1>2, <1>3, <1>4, <1>5, Zenon

LEMMA HandshakeRule ==
    ASSUME NEW v, NEW cl, NEW owed, NEW s, NEW in, NEW out,
           FlowOf(v, cl, owed, s, in, out), s # "up", in # Nil
    PROVE  /\ out = Nil
           /\ FlowOf(v, cl, owed, AfterStep(s), Rest(in), Answer(v, s))
<1>1. out = Nil
  BY DEF FlowOf
<1>2. CASE s = "hello"
  BY <1>2, ShortTails DEF FlowOf, AfterStep, Answer
<1>3. CASE s # "hello"
  BY <1>3, ShortTails DEF FlowOf, AfterStep, Answer
<1> QED
  BY <1>1, <1>2, <1>3

LEMMA ReadRule ==
    ASSUME NEW v, NEW cl, NEW owed, NEW s, NEW in, NEW out,
           FlowOf(v, cl, owed, s, in, out), s = "up", in # Nil
    PROVE  /\ First(in) = "request"
           /\ FlowOf(v, cl, owed, s, Rest(in), Append(out, "response"))
  BY ShortTails DEF FlowOf

LEMMA OwedOnTheWay ==
    ASSUME NEW v, NEW cl, NEW owed, NEW s, NEW in, NEW out, FlowOf(v, cl, owed, s, in, out),
           in = Nil, out = Nil \/ out = One("server hello") \/ out = One("server finished")
    PROVE  owed = "none"
<1>1. in # One("request") /\ in # Two("finished", "request")
  BY Apart, Zenon
<1>2. out # One("response") /\ out # Two("server finished", "response")
  <2>1. CASE out = Nil
    BY <2>1, Apart, Zenon
  <2>2. CASE out = One("server hello")
    BY <2>2, Apart, Zenon
  <2>3. CASE out = One("server finished")
    BY <2>3, Apart, Zenon
  <2> QED
    BY <2>1, <2>2, <2>3, Zenon
<1> QED
  BY <1>1, <1>2, Zenon DEF FlowOf

LEMMA OwedAfterHello ==
    ASSUME NEW v, NEW cl, NEW owed, NEW s, NEW in, NEW out, FlowOf(v, cl, owed, s, in, out),
             s = "hello"
    PROVE  owed = "none"
BY DEF FlowOf

LEMMA HelloOnTheWay ==
    ASSUME NEW v, NEW cl, NEW owed, NEW s, NEW in, NEW out, FlowOf(v, cl, owed, s, in, out),
             cl = "hello"
    PROVE  in # Nil \/ out # Nil
BY ShortTails DEF FlowOf

-----------------------------------------------------------------------------
(* Types.                                                                  *)
LEMMA TypeClient ==
    ASSUME T!TlsAssumption, T!TypeOK, NEW c \in Clients, Flow(c), T!Client(c)
    PROVE  T!TypeOK'
<1>1. \A m \in T!ToServer : Append(toServer[c], m) \in Seq(T!ToServer)
  <2>1. toServer[c] \in Seq(T!ToServer)
    BY DEF T!TypeOK
  <2> QED
    BY <2>1, AppendProperties
<1>2. {"hello", "finished", "request", "close_notify"} \subseteq T!ToServer
  BY DEF T!ToServer
<1>3. CASE T!Connect(c)
  <2>1. Append(backlog, c) \in Seq(Clients)
    <3>1. backlog \in Seq(Clients)
      BY DEF T!TypeOK
    <3> QED
      BY <3>1, AppendProperties
  <2> QED
    BY <1>1, <1>2, <1>3, <2>1 DEF T!TypeOK, T!Connect, T!Become, T!Send
<1>4. CASE T!ClientReceives(c)
  <2>1. /\ ~T!Gone(c) /\ toClient[c] # <<>> /\ toClient' = [toClient EXCEPT ![c] = Tail(@)]
        /\ UNCHANGED <<version, requests, backlog, rbio, wbio, ssl, serving, loop, tls_handler>>
    BY <1>4 DEF T!ClientReceives
  <2>2. toClient[c] \in Seq(T!ToClient) /\ wbio[c] \in Seq(T!ToClient)
    BY DEF T!TypeOK
  <2>3. First(toClient[c]) \in T!ToClient /\ Rest(toClient[c]) \in Seq(T!ToClient)
        /\ Out(c) # Nil /\ First(Out(c)) = First(toClient[c])
    <3>1. toClient[c] # Nil
      BY <2>1 DEF Nil
    <3> QED
      BY <2>2, <3>1, AnsweredFirst, Zenon DEF Out
  <2>4. toClient' \in [Clients -> Seq(T!ToClient)]
    <3>1. toClient' = [toClient EXCEPT ![c] = Rest(toClient[c])]
      BY <2>1 DEF Rest
    <3> QED
      BY <2>3, <3>1 DEF T!TypeOK
  <2>5. CASE First(toClient[c]) = "server hello"
    <3>1. /\ T!Send(c, "finished") /\ UNCHANGED answered
          /\ T!Become(c, IF version[c] = "1.2" THEN "finished" ELSE "ready")
      BY <1>4, <2>5, Zenon DEF T!ClientReceives, First
    <3> QED
      BY <1>1, <1>2, <2>1, <2>4, <3>1 DEF T!TypeOK, T!Become, T!Send
  <2>6. CASE First(toClient[c]) = "server finished"
    <3>1. T!Become(c, "ready") /\ UNCHANGED <<toServer, answered>>
      BY <1>4, <2>6, Zenon DEF T!ClientReceives, First
    <3> QED
      BY <2>1, <2>4, <3>1 DEF T!TypeOK, T!Become
  <2>7. CASE First(toClient[c]) = "response"
    <3>1. answered' = [answered EXCEPT ![c] = @ + 1] /\ UNCHANGED <<client, toServer>>
      BY <1>4, <2>7, Zenon DEF T!ClientReceives, First
    <3>2. FlowOf(version[c], client[c], Owed(c), ssl[c], In(c), Out(c))
          /\ (requests[c] = answered[c] \/ requests[c] = answered[c] + 1)
      BY <2>1 DEF Flow
    <3>3. Owed(c) = "one"
      <4>1. Out(c) # Nil /\ First(Out(c)) = "response"
        BY <2>3, <2>7, Zenon
      <4>2. FlowOf(version[c], client[c], Owed(c), ssl[c], In(c), Out(c))
        BY <3>2, Zenon
      <4>3. First(Out(c)) = "response" => Owed(c) = "one"
        BY <4>1, <4>2, ReceiveRule, Zenon
      <4> QED
        BY <4>1, <4>3, Zenon
    <3>4. requests[c] = answered[c] + 1
      BY <3>2, <3>3 DEF Owed
    <3>5. answered[c] + 1 \in 0 .. MaxRequests
      <4>1. requests[c] \in 0 .. MaxRequests
        BY DEF T!TypeOK
      <4> QED
        BY <3>4, <4>1
    <3> QED
      BY <2>1, <2>4, <3>1, <3>5 DEF T!TypeOK
  <2> QED
    BY <2>3, <2>5, <2>6, <2>7 DEF T!ToClient
<1>5. CASE T!Request(c)
  <2>1. requests[c] + 1 \in 0 .. MaxRequests
    <3>1. requests[c] \in 0 .. MaxRequests /\ MaxRequests \in Nat /\ requests[c] < MaxRequests
      BY <1>5 DEF T!TypeOK, T!Request, T!TlsAssumption
    <3> QED
      BY <3>1
  <2> QED
    BY <1>1, <1>2, <1>5, <2>1 DEF T!TypeOK, T!Request, T!Send
<1>6. CASE T!Leave(c)
  <2>1. <<>> \in Seq(T!ToClient)
    OBVIOUS
  <2>2. toClient' = [toClient EXCEPT ![c] = <<>>] /\ client' = [client EXCEPT ![c] = "left"]
    BY <1>6 DEF T!Leave, T!Become
  <2>3. toServer' \in [Clients -> Seq(T!ToServer)]
    <3>1. /\ "close_notify" \in T!ToServer
          /\ \/ toServer' = toServer
             \/ toServer' = [toServer EXCEPT ![c] = Append(@, "close_notify")]
      BY <1>6 DEF T!Leave, T!Send, T!ToServer
    <3>2. Append(toServer[c], "close_notify") \in Seq(T!ToServer)
      BY <1>1, <3>1
    <3>3. toServer \in [Clients -> Seq(T!ToServer)]
      BY DEF T!TypeOK
    <3> QED
      BY <3>1, <3>2, <3>3
  <2>4. toClient' \in [Clients -> Seq(T!ToClient)]
    BY <2>1, <2>2 DEF T!TypeOK
  <2>5. client' \in [Clients -> {"off", "hello", "finished", "ready", "left"}]
    BY <2>2 DEF T!TypeOK
  <2> QED
    BY <1>6, <2>3, <2>4, <2>5 DEF T!TypeOK, T!Leave
<1> QED
  BY <1>3, <1>4, <1>5, <1>6 DEF T!Client

LEMMA FillTyped ==
    ASSUME T!TypeOK, NEW c \in Clients, T!Fill(c)
    PROVE  /\ rbio' \in [Clients -> Seq(T!ToServer)]
               /\ toServer' \in [Clients -> Seq(T!ToServer)]
           /\ Cat(rbio'[c], toServer'[c]) = In(c)
           /\ \A d \in Clients \ {c} : rbio'[d] = rbio[d] /\ toServer'[d] = toServer[d]
<1>1. PICK n \in 1 .. Len(toServer[c]) :
          /\ rbio' = [rbio EXCEPT ![c] = @ \o SubSeq(toServer[c], 1, n)]
          /\ toServer' = [toServer EXCEPT ![c] = SubSeq(@, n + 1, Len(@))]
  BY DEF T!Fill
<1>2. rbio[c] \in Seq(T!ToServer) /\ toServer[c] \in Seq(T!ToServer)
      /\ rbio \in [Clients -> Seq(T!ToServer)] /\ toServer \in [Clients -> Seq(T!ToServer)]
  BY DEF T!TypeOK
<1> DEFINE u == Cat(rbio[c], SubSeq(toServer[c], 1, n))
           w == SubSeq(toServer[c], n + 1, Len(toServer[c]))
<1>3. u \in Seq(T!ToServer) /\ w \in Seq(T!ToServer) /\ Cat(u, w) = In(c)
  <2>1. toServer[c] \in Seq(T!ToServer) /\ n \in 1 .. Len(toServer[c])
    BY <1>2
  <2> QED
    BY <1>2, <2>1, FilledSame DEF In
<1>4. rbio' = [rbio EXCEPT ![c] = u] /\ toServer' = [toServer EXCEPT ![c] = w]
  BY <1>1 DEF Cat
<1> HIDE DEF u, w
<1>5. rbio'[c] = u /\ toServer'[c] = w
  BY <1>2, <1>4
<1>6. Cat(rbio'[c], toServer'[c]) = In(c)
  BY <1>3, <1>5, Zenon
<1> QED
  BY <1>2, <1>3, <1>4, <1>6

LEMMA FlushTyped ==
    ASSUME T!TypeOK, NEW c \in Clients, T!FlushChunk(c)
    PROVE  /\ toClient' \in [Clients -> Seq(T!ToClient)]
               /\ wbio' \in [Clients -> Seq(T!ToClient)]
           /\ wbio'[c] = Nil /\ (~T!Gone(c) => Cat(toClient'[c], wbio'[c]) = Out(c))
           /\ \A d \in Clients \ {c} : toClient'[d] = toClient[d] /\ wbio'[d] = wbio[d]
<1>1. toClient' = [toClient EXCEPT ![c] = IF T!Gone(c) THEN <<>> ELSE toClient[c] \o wbio[c]]
      /\ wbio' = [wbio EXCEPT ![c] = <<>>]
  BY DEF T!FlushChunk
<1>2. toClient[c] \in Seq(T!ToClient) /\ wbio[c] \in Seq(T!ToClient)
      /\ toClient \in [Clients -> Seq(T!ToClient)] /\ wbio \in [Clients -> Seq(T!ToClient)]
  BY DEF T!TypeOK
<1> DEFINE u == Cat(toClient[c], wbio[c])
<1>3. u \in Seq(T!ToClient) /\ <<>> \in Seq(T!ToClient)
  <2>1. u \in Seq(T!ToClient)
    BY <1>2, CatProperties, Zenon
  <2> QED
    BY <2>1
<1>4. Cat(u, <<>>) = u
  BY <1>3, CatNil, Zenon DEF Nil
<1>5. toClient' = [toClient EXCEPT ![c] = IF T!Gone(c) THEN <<>> ELSE u]
  BY <1>1 DEF Cat
<1>6. u = Out(c)
  BY DEF Out
<1> HIDE DEF u
<1>7. wbio'[c] = <<>> /\ (~T!Gone(c) => toClient'[c] = u)
  BY <1>1, <1>2, <1>5
<1>8. ~T!Gone(c) => Cat(toClient'[c], wbio'[c]) = Out(c)
  BY <1>4, <1>6, <1>7, Zenon
<1> QED
  BY <1>1, <1>2, <1>3, <1>5, <1>7, <1>8 DEF Nil

LEMMA TypeAcceptLoop ==
    ASSUME T!TlsAssumption, T!TypeOK, Awaited, T!AcceptLoop
    PROVE  T!TypeOK'
<1>1. ASSUME loop # "accept" PROVE serving \in Clients
  BY <1>1 DEF T!TypeOK, Awaited
<1>2. CASE T!Accept
  <2>1. backlog \in Seq(Clients) /\ backlog # <<>>
    BY <1>2 DEF T!TypeOK, T!Accept
  <2>2. Head(backlog) \in Clients /\ Tail(backlog) \in Seq(Clients)
    BY <2>1, HeadTailProperties
  <2> QED
    BY <1>2, <2>2 DEF T!TypeOK, T!Accept
<1>3. CASE T!DoHandshake
  <2>1. loop = "handshake" /\ serving \in Clients
    BY <1>1, <1>3 DEF T!DoHandshake
  <2>2. CASE rbio[serving] = <<>>
    BY <1>3, <2>2 DEF T!TypeOK, T!DoHandshake, T!clientVars
  <2>3. CASE rbio[serving] # <<>>
    <3> DEFINE answer == IF ssl[serving] = "hello" THEN <<"server hello">>
                         ELSE IF version[serving] = "1.3" THEN <<>> ELSE <<"server finished">>
    <3>1. answer \in Seq(T!ToClient)
      <4>1. <<"server hello">> \in Seq(T!ToClient) /\ <<"server finished">> \in Seq(T!ToClient)
            /\ <<>> \in Seq(T!ToClient)
        BY DEF T!ToClient
      <4> QED
        BY <4>1
    <3>2. /\ rbio' = [rbio EXCEPT ![serving] = Tail(@)]
          /\ wbio' = [wbio EXCEPT ![serving] = @ \o answer]
          /\ ssl' = [ssl EXCEPT ![serving] = IF @ = "hello" THEN "finished" ELSE "up"]
          /\ UNCHANGED <<loop, T!clientVars, toServer, toClient, serving, tls_handler>>
      BY <1>3, <2>3 DEF T!DoHandshake
    <3> HIDE DEF answer
    <3>3. wbio[serving] \in Seq(T!ToClient) /\ rbio[serving] \in Seq(T!ToServer)
      BY <2>1 DEF T!TypeOK
    <3>4. wbio[serving] \o answer \in Seq(T!ToClient) /\ Tail(rbio[serving]) \in Seq(T!ToServer)
      BY <2>3, <3>1, <3>3, ConcatProperties, HeadTailProperties
    <3>5. wbio' \in [Clients -> Seq(T!ToClient)] /\ rbio' \in [Clients -> Seq(T!ToServer)]
      <4>1. wbio' = [wbio EXCEPT ![serving] = wbio[serving] \o answer]
            /\ rbio' = [rbio EXCEPT ![serving] = Tail(rbio[serving])]
        BY <3>2
      <4> QED
        BY <3>4, <4>1 DEF T!TypeOK
    <3> QED
      BY <3>2, <3>5 DEF T!TypeOK, T!clientVars
  <2> QED
    BY <2>2, <2>3
<1>4. CASE T!HandshakeDone
  BY <1>1, <1>4 DEF T!TypeOK, T!HandshakeDone, T!NextAccept, T!clientVars
<1>5. CASE T!HandshakeFlush
  <2>1. serving \in Clients
    BY <1>1, <1>5 DEF T!HandshakeFlush
  <2>2. CASE wbio[serving] = <<>>
    BY <1>5, <2>2 DEF T!TypeOK, T!HandshakeFlush, T!clientVars
  <2>3. CASE wbio[serving] # <<>>
    BY <1>5, <2>1, <2>3, FlushTyped DEF T!TypeOK, T!HandshakeFlush, T!clientVars
  <2> QED
    BY <2>2, <2>3
<1>6. CASE T!HandshakeFill
  <2>1. serving \in Clients
    BY <1>1, <1>6 DEF T!HandshakeFill
  <2> QED
    BY <1>6, <2>1, FillTyped DEF T!TypeOK, T!HandshakeFill, T!clientVars
<1>7. CASE T!HandshakeFails
  BY <1>1, <1>7 DEF T!TypeOK, T!HandshakeFails, T!NextAccept, T!clientVars
<1> QED
  BY <1>2, <1>3, <1>4, <1>5, <1>6, <1>7 DEF T!AcceptLoop

LEMMA TypeHandle ==
    ASSUME T!TypeOK, NEW c \in Clients, T!Handle(c)
    PROVE  T!TypeOK'
<1>1. CASE T!SslRead(c)
  <2>1. CASE rbio[c] = <<>>
    BY <1>1, <2>1 DEF T!TypeOK, T!SslRead, T!Handler, T!clientVars
  <2>2. CASE rbio[c] # <<>>
    <3>1. wbio[c] \in Seq(T!ToClient) /\ rbio[c] \in Seq(T!ToServer)
           /\ "response" \in T!ToClient
      BY DEF T!TypeOK, T!ToClient
    <3>2. Tail(rbio[c]) \in Seq(T!ToServer) /\ Append(wbio[c], "response") \in Seq(T!ToClient)
      BY <2>2, <3>1, HeadTailProperties, AppendProperties
    <3>3. /\ rbio' = [rbio EXCEPT ![c] = Tail(rbio[c])]
          /\ \/ T!Handler(c, "flush")
                 /\ wbio' = [wbio EXCEPT ![c] = Append(wbio[c], "response")]
             \/ T!Handler(c, "ended") /\ UNCHANGED wbio
          /\ UNCHANGED <<T!clientVars, toServer, toClient, ssl, serving, loop>>
      BY <1>1, <2>2 DEF T!SslRead
    <3>4. rbio' \in [Clients -> Seq(T!ToServer)] /\ wbio' \in [Clients -> Seq(T!ToClient)]
      <4>1. rbio \in [Clients -> Seq(T!ToServer)] /\ wbio \in [Clients -> Seq(T!ToClient)]
        BY DEF T!TypeOK
      <4>2. rbio' \in [Clients -> Seq(T!ToServer)]
        BY <3>2, <3>3, <4>1
      <4>3. wbio' \in [Clients -> Seq(T!ToClient)]
        BY <3>2, <3>3, <4>1
      <4> QED
        BY <4>2, <4>3
    <3> QED
      BY <3>3, <3>4 DEF T!TypeOK, T!Handler, T!clientVars
  <2> QED
    BY <2>1, <2>2
<1>2. CASE T!ReadFill(c)
  BY <1>2, FillTyped DEF T!TypeOK, T!ReadFill, T!Handler, T!clientVars
<1>3. CASE T!WriteFlush(c)
  BY <1>3, FlushTyped DEF T!TypeOK, T!WriteFlush, T!Handler, T!clientVars
<1> QED
  BY <1>1, <1>2, <1>3 DEF T!Handle

-----------------------------------------------------------------------------
(* What is on its way.                                                     *)
LEMMA FlowAgain ==
    ASSUME NEW d, Flow(d), version'[d] = version[d], client'[d] = client[d],
           requests'[d] = requests[d], answered'[d] = answered[d], ssl'[d] = ssl[d],
           ~T!Gone(d) => In(d)' = In(d) /\ Out(d)' = Out(d),
           AtServer(ssl[d], tls_handler[d], rbio[d], wbio[d]) =>
               AtServer(ssl[d], tls_handler'[d], rbio'[d], wbio'[d])
    PROVE  Flow(d)'
<1>1. T!Gone(d)' <=> T!Gone(d)
  BY DEF T!Gone
<1>2. Owed(d)' = Owed(d)
  BY DEF Owed
<1>3. SUFFICES ASSUME ~T!Gone(d)
               PROVE  /\ requests'[d] = answered'[d] \/ requests'[d] = answered'[d] + 1
                      /\ FlowOf(version'[d], client'[d], Owed(d)', ssl'[d], In(d)', Out(d)')
                      /\ AtServer(ssl'[d], tls_handler'[d], rbio'[d], wbio'[d])
  BY <1>1, Zenon DEF Flow
<1>4. /\ requests[d] = answered[d] \/ requests[d] = answered[d] + 1
      /\ FlowOf(version[d], client[d], Owed(d), ssl[d], In(d), Out(d))
      /\ AtServer(ssl[d], tls_handler[d], rbio[d], wbio[d])
  BY <1>3, Zenon DEF Flow
<1>5. requests'[d] = answered'[d] \/ requests'[d] = answered'[d] + 1
  BY <1>4
<1> QED
  BY <1>2, <1>3, <1>4, <1>5, Zenon

LEMMA FlowSame ==
    ASSUME NEW d, Flow(d), version'[d] = version[d], client'[d] = client[d],
           requests'[d] = requests[d], answered'[d] = answered[d], ssl'[d] = ssl[d],
           toServer'[d] = toServer[d], toClient'[d] = toClient[d],
           rbio'[d] = rbio[d], wbio'[d] = wbio[d], tls_handler'[d] = tls_handler[d]
    PROVE  Flow(d)'
<1>1. In(d)' = In(d) /\ Out(d)' = Out(d)
  BY DEF In, Out
<1> QED
  BY <1>1, FlowAgain

LEMMA FlowNext ==
    ASSUME NEW d, requests'[d] = answered'[d] \/ requests'[d] = answered'[d] + 1,
           FlowOf(version'[d], client'[d], Owed(d)', ssl'[d], In(d)', Out(d)'),
           AtServer(ssl'[d], tls_handler'[d], rbio'[d], wbio'[d])
    PROVE  Flow(d)'
BY Zenon DEF Flow

LEMMA Sent ==
    ASSUME T!TypeOK, NEW c \in Clients, NEW m \in T!ToServer, T!Send(c, m), rbio' = rbio
    PROVE  In(c)' = Append(In(c), m)
<1>1. rbio[c] \in Seq(T!ToServer) /\ toServer[c] \in Seq(T!ToServer)
  BY DEF T!TypeOK
<1>2. toServer'[c] = Append(toServer[c], m)
  BY DEF T!TypeOK, T!Send
<1>3. In(c)' = Cat(rbio[c], Append(toServer[c], m))
  BY <1>2 DEF In
<1>4. Cat(rbio[c], Append(toServer[c], m)) = Append(Cat(rbio[c], toServer[c]), m)
  BY <1>1, SentLast, Zenon
<1> QED
  BY <1>3, <1>4, Zenon DEF In

LEMMA Received ==
    ASSUME T!TypeOK, NEW c \in Clients, T!ClientReceives(c)
    PROVE  \/ T!Send(c, "finished") /\ UNCHANGED answered /\ T!Become(c, AfterHello(version[c]))
           \/ T!Become(c, "ready") /\ UNCHANGED <<toServer, answered>>
           \/ answered' = [answered EXCEPT ![c] = @ + 1] /\ UNCHANGED <<client, toServer>>
<1>1. toClient[c] \in Seq(T!ToClient) /\ toClient[c] # <<>>
  BY DEF T!TypeOK, T!ClientReceives
<1>2. Head(toClient[c]) \in T!ToClient
  BY <1>1, HeadTailProperties
<1>3. \/ Head(toClient[c]) = "server hello" \/ Head(toClient[c]) = "server finished"
      \/ Head(toClient[c]) = "response"
  BY <1>2 DEF T!ToClient
<1> QED
  BY <1>3, Zenon DEF T!ClientReceives, AfterHello

LEMMA FlowClient ==
    ASSUME T!TlsAssumption, T!TypeOK, NEW c \in Clients, \A d \in Clients : Flow(d), T!Client(c)
    PROVE  \A d \in Clients : Flow(d)'
<1>1. ASSUME NEW d \in Clients, d # c PROVE Flow(d)'
  <2>1. /\ version'[d] = version[d] /\ ssl'[d] = ssl[d] /\ tls_handler'[d] = tls_handler[d]
        /\ rbio'[d] = rbio[d] /\ wbio'[d] = wbio[d]
    BY DEF T!Client, T!Connect, T!ClientReceives, T!Request, T!Leave
  <2>2. client'[d] = client[d] /\ requests'[d] = requests[d] /\ answered'[d] = answered[d]
    <3>1. CASE T!ClientReceives(c)
      BY <1>1, <3>1, Received DEF T!TypeOK, T!ClientReceives, T!Become
    <3>2. CASE T!Connect(c) \/ T!Request(c) \/ T!Leave(c)
      BY <1>1, <3>2 DEF T!TypeOK, T!Connect, T!Request, T!Leave, T!Become
    <3> QED
      BY <3>1, <3>2 DEF T!Client
  <2>3. toServer'[d] = toServer[d] /\ toClient'[d] = toClient[d]
    <3>1. CASE T!ClientReceives(c)
      <4>1. toClient' = [toClient EXCEPT ![c] = Tail(@)]
        BY <3>1 DEF T!ClientReceives
      <4> QED
        BY <1>1, <3>1, <4>1, Received DEF T!TypeOK, T!Send
    <3>2. CASE T!Connect(c) \/ T!Request(c) \/ T!Leave(c)
      BY <1>1, <3>2 DEF T!TypeOK, T!Connect, T!Request, T!Leave, T!Send
    <3> QED
      BY <3>1, <3>2 DEF T!Client
  <2> QED
    BY <2>1, <2>2, <2>3, FlowSame
<1>2. {"hello", "finished", "request"} \subseteq T!ToServer
  BY DEF T!ToServer
<1>3. /\ version'[c] = version[c] /\ ssl'[c] = ssl[c] /\ tls_handler'[c] = tls_handler[c]
      /\ rbio' = rbio /\ wbio' = wbio
  BY DEF T!Client, T!Connect, T!ClientReceives, T!Request, T!Leave
<1>4. ASSUME ~T!Gone(c)
      PROVE  /\ requests[c] = answered[c] \/ requests[c] = answered[c] + 1
             /\ FlowOf(version[c], client[c], Owed(c), ssl[c], In(c), Out(c))
             /\ AtServer(ssl'[c], tls_handler'[c], rbio'[c], wbio'[c])
  BY <1>3, <1>4 DEF Flow
<1>5. CASE T!Connect(c)
  <2>1. /\ client[c] = "off" /\ client'[c] = "hello" /\ T!Send(c, "hello")
        /\ toClient' = toClient /\ requests' = requests /\ answered' = answered
    BY <1>5 DEF T!TypeOK, T!Connect, T!Become
  <2>2. ~T!Gone(c)
    BY <2>1 DEF T!Gone
  <2>3. In(c)' = Append(In(c), "hello")
    BY <1>2, <1>3, <2>1, Sent
  <2>4. Out(c)' = Out(c) /\ Owed(c)' = Owed(c)
    BY <1>3, <2>1 DEF Out, Owed
  <2>5. FlowOf(version[c], "hello", Owed(c), ssl[c], Append(In(c), "hello"), Out(c))
    BY <1>4, <2>1, <2>2, ConnectRule
  <2>6. FlowOf(version'[c], client'[c], Owed(c)', ssl'[c], In(c)', Out(c)')
    BY <1>3, <2>1, <2>3, <2>4, <2>5, Zenon
  <2>7. requests'[c] = answered'[c] \/ requests'[c] = answered'[c] + 1
    BY <1>4, <2>1, <2>2
  <2>8. Flow(c)'
    BY <1>4, <2>2, <2>6, <2>7, FlowNext, Zenon
  <2> QED
    BY <1>1, <2>8, Zenon
<1>6. CASE T!ClientReceives(c)
  <2>1. /\ ~T!Gone(c) /\ toClient[c] # <<>> /\ toClient' = [toClient EXCEPT ![c] = Tail(@)]
        /\ requests' = requests
    BY <1>6 DEF T!ClientReceives
  <2>2. toClient[c] \in Seq(T!ToClient) /\ wbio[c] \in Seq(T!ToClient)
    BY DEF T!TypeOK
  <2>0. toClient[c] # Nil
    BY <2>1 DEF Nil
  <2>3. Out(c) # Nil /\ First(Out(c)) = First(toClient[c])
    BY <2>0, <2>2, AnsweredFirst, Zenon DEF Out
  <2>4. toClient'[c] = Rest(toClient[c])
    BY <2>1 DEF T!TypeOK, Rest
  <2>5. Rest(Cat(toClient[c], wbio[c])) = Cat(Rest(toClient[c]), wbio[c])
    BY <2>0, <2>2, AnsweredFirst, Zenon
  <2>6. Out(c)' = Rest(Out(c))
    BY <1>3, <2>4, <2>5, Zenon DEF Out
  <2>7. FlowOf(version[c], client[c], Owed(c), ssl[c], In(c), Out(c))
    BY <1>4, <2>1, Zenon
  <2> DEFINE f == First(Out(c))
  <2>8. /\ f \in {"server hello", "server finished", "response"}
        /\ f = "server hello" =>
             FlowOf(version[c], AfterHello(version[c]), Owed(c), ssl[c],
                    Append(In(c), "finished"), Rest(Out(c)))
        /\ f = "server finished" =>
             FlowOf(version[c], "ready", Owed(c), ssl[c], In(c), Rest(Out(c)))
        /\ f = "response" =>
             Owed(c) = "one"
              /\ FlowOf(version[c], client[c], "none", ssl[c], In(c), Rest(Out(c)))
    BY <2>3, <2>7, ReceiveRule, Zenon
  <2>9. f = Head(toClient[c])
    BY <2>3, Zenon DEF First
  <2> HIDE DEF f
  <2>10. CASE f = "server hello"
    <3>1. /\ T!Send(c, "finished") /\ answered' = answered
          /\ T!Become(c, AfterHello(version[c]))
      BY <1>6, <2>9, <2>10, Zenon DEF T!ClientReceives, AfterHello
    <3>2. client'[c] = AfterHello(version[c])
      BY <3>1 DEF T!TypeOK, T!Become
    <3>3. In(c)' = Append(In(c), "finished")
      BY <1>2, <1>3, <3>1, Sent
    <3>4. Owed(c)' = Owed(c)
      BY <2>1, <3>1 DEF Owed
    <3>5. FlowOf(version'[c], client'[c], Owed(c)', ssl'[c], In(c)', Out(c)')
      BY <1>3, <2>6, <2>8, <2>10, <3>2, <3>3, <3>4, Zenon
    <3>6. requests'[c] = answered'[c] \/ requests'[c] = answered'[c] + 1
      BY <1>4, <2>1, <3>1
    <3>7. Flow(c)'
      BY <1>4, <2>1, <3>5, <3>6, FlowNext, Zenon
    <3> QED
      BY <1>1, <3>7, Zenon
  <2>11. CASE f = "server finished"
    <3>1. toServer' = toServer /\ answered' = answered /\ T!Become(c, "ready")
      BY <1>6, <2>9, <2>11, Zenon DEF T!ClientReceives
    <3>2. client'[c] = "ready"
      BY <3>1 DEF T!TypeOK, T!Become
    <3>3. In(c)' = In(c) /\ Owed(c)' = Owed(c)
      BY <1>3, <2>1, <3>1 DEF In, Owed
    <3>4. FlowOf(version'[c], client'[c], Owed(c)', ssl'[c], In(c)', Out(c)')
      BY <1>3, <2>6, <2>8, <2>11, <3>2, <3>3, Zenon
    <3>5. requests'[c] = answered'[c] \/ requests'[c] = answered'[c] + 1
      BY <1>4, <2>1, <3>1
    <3>6. Flow(c)'
      BY <1>4, <2>1, <3>4, <3>5, FlowNext, Zenon
    <3> QED
      BY <1>1, <3>6, Zenon
  <2>12. CASE f = "response"
    <3>1. toServer' = toServer /\ client' = client
          /\ answered' = [answered EXCEPT ![c] = @ + 1]
      BY <1>6, <2>9, <2>12, Zenon DEF T!ClientReceives
    <3>2. In(c)' = In(c)
      BY <1>3, <3>1 DEF In
    <3>3. Owed(c) = "one"
      BY <2>8, <2>12, Zenon
    <3>4. requests[c] = answered[c] + 1
      BY <1>4, <2>1, <3>3 DEF Owed
    <3>5. requests'[c] = answered'[c]
      BY <2>1, <3>1, <3>4 DEF T!TypeOK
    <3>6. Owed(c)' = "none"
      BY <3>5 DEF Owed
    <3>7. FlowOf(version'[c], client'[c], Owed(c)', ssl'[c], In(c)', Out(c)')
      BY <1>3, <2>6, <2>8, <2>12, <3>1, <3>2, <3>6, Zenon
    <3>8. Flow(c)'
      BY <1>4, <2>1, <3>5, <3>7, FlowNext, Zenon
    <3> QED
      BY <1>1, <3>8, Zenon
  <2> QED
    BY <2>8, <2>10, <2>11, <2>12, Zenon
<1>7. CASE T!Request(c)
  <2>1. /\ client[c] = "ready" /\ client' = client /\ T!Send(c, "request")
        /\ toClient' = toClient /\ answered' = answered
        /\ requests[c] = answered[c] /\ requests' = [requests EXCEPT ![c] = @ + 1]
    BY <1>7 DEF T!Request
  <2>2. ~T!Gone(c)
    BY <2>1 DEF T!Gone
  <2>3. In(c)' = Append(In(c), "request")
    BY <1>2, <1>3, <2>1, Sent
  <2>4. Out(c)' = Out(c) /\ Owed(c) = "none"
    BY <1>3, <2>1 DEF Out, Owed
  <2>5. requests'[c] = answered'[c] + 1 /\ requests'[c] # answered'[c]
    <3>1. requests'[c] = requests[c] + 1 /\ requests[c] \in Nat
      <4>1. requests \in [Clients -> 0 .. MaxRequests] /\ MaxRequests \in Nat
        BY DEF T!TypeOK, T!TlsAssumption
      <4>2. requests' = [requests EXCEPT ![c] = requests[c] + 1]
        BY <2>1
      <4> QED
        BY <4>1, <4>2
    <3>2. answered'[c] = requests[c]
      BY <2>1
    <3> QED
      BY <3>1, <3>2
  <2>6. Owed(c)' = "one"
    BY <2>5 DEF Owed
  <2>7. FlowOf(version[c], client[c], Owed(c), ssl[c], In(c), Out(c))
    BY <1>4, <2>2, Zenon
  <2>8. FlowOf(version[c], client[c], "one", ssl[c], Append(In(c), "request"), Out(c))
    BY <2>1, <2>4, <2>7, RequestRule, Zenon
  <2>9. FlowOf(version'[c], client'[c], Owed(c)', ssl'[c], In(c)', Out(c)')
    BY <1>3, <2>1, <2>3, <2>4, <2>6, <2>8, Zenon
  <2>10. Flow(c)'
    BY <1>4, <2>2, <2>5, <2>9, FlowNext, Zenon
  <2> QED
    BY <1>1, <2>10, Zenon
<1>8. CASE T!Leave(c)
  <2>1. T!Gone(c)'
    BY <1>8 DEF T!TypeOK, T!Leave, T!Become, T!Gone
  <2>2. Flow(c)'
    BY <2>1 DEF Flow
  <2> QED
    BY <1>1, <2>2, Zenon
<1> QED
  BY <1>5, <1>6, <1>7, <1>8 DEF T!Client

LEMMA Read ==
    ASSUME T!TypeOK, NEW c \in Clients, rbio[c] # <<>>
    PROVE  /\ In(c) # Nil /\ First(In(c)) = First(rbio[c])
           /\ Rest(In(c)) = Cat(Rest(rbio[c]), toServer[c])
<1>1. rbio[c] \in Seq(T!ToServer) /\ toServer[c] \in Seq(T!ToServer)
  BY DEF T!TypeOK
<1>2. rbio[c] # Nil
  BY DEF Nil
<1> QED
  BY <1>1, <1>2, SentFirst, Zenon DEF In

LEMMA HandshakeStep ==
    ASSUME T!TypeOK, Awaited, T!DoHandshake, rbio[serving] # <<>>
    PROVE  /\ serving \in Clients /\ ssl[serving] # "up"
           /\ ssl' = [ssl EXCEPT ![serving] = AfterStep(ssl[serving])]
           /\ rbio' = [rbio EXCEPT ![serving] = Rest(rbio[serving])]
           /\ wbio' = [wbio EXCEPT ![serving] = Cat(@, Answer(version[serving], ssl[serving]))]
           /\ Answer(version[serving], ssl[serving]) \in Seq(T!ToClient)
           /\ UNCHANGED <<loop, version, client, requests, answered, backlog, toServer,
                          toClient,
                          serving, tls_handler>>
<1>1. serving \in Clients
  BY DEF T!TypeOK, Awaited, T!DoHandshake
<1>2. Answer(version[serving], ssl[serving]) \in Seq(T!ToClient)
  <2>1. <<"server hello">> \in Seq(T!ToClient) /\ <<"server finished">> \in Seq(T!ToClient)
        /\ <<>> \in Seq(T!ToClient)
    BY DEF T!ToClient
  <2> QED
    BY <2>1 DEF Answer, One, Nil
<1>3. Answer(version[serving], ssl[serving]) =
          IF ssl[serving] = "hello" THEN <<"server hello">>
          ELSE IF version[serving] = "1.3" THEN <<>> ELSE <<"server finished">>
  BY DEF Answer, One, Nil
<1>4. wbio' = [wbio EXCEPT ![serving] = Cat(@, Answer(version[serving], ssl[serving]))]
  BY <1>3, Zenon DEF T!DoHandshake, Cat
<1>5. ssl' = [ssl EXCEPT ![serving] = AfterStep(ssl[serving])]
  BY DEF T!DoHandshake, AfterStep
<1>6. rbio' = [rbio EXCEPT ![serving] = Rest(rbio[serving])]
  BY DEF T!DoHandshake, Rest
<1>7. /\ ssl[serving] # "up"
      /\ UNCHANGED <<loop, version, client, requests, answered, backlog, toServer, toClient,
                     serving, tls_handler>>
  BY DEF T!DoHandshake, T!clientVars
<1> QED
  BY <1>1, <1>2, <1>4, <1>5, <1>6, <1>7, Zenon

LEMMA FlowHandshake ==
    ASSUME T!TypeOK, Awaited, \A d \in Clients : Flow(d), T!DoHandshake
    PROVE  \A d \in Clients : Flow(d)'
<1>1. CASE rbio[serving] = <<>>
  <2>1. UNCHANGED <<version, client, requests, answered, ssl, toServer, toClient, rbio, wbio,
                    tls_handler>>
    BY <1>1 DEF T!DoHandshake, T!clientVars
  <2> QED
    BY <2>1, FlowSame
<1>2. CASE rbio[serving] # <<>>
  <2>0. PICK c \in Clients : c = serving
    BY <1>2, HandshakeStep, Zenon
  <2> DEFINE answer == Answer(version[c], ssl[c])
  <2>1. /\ c \in Clients /\ ssl[c] # "up"
        /\ ssl' = [ssl EXCEPT ![c] = AfterStep(ssl[c])]
        /\ rbio' = [rbio EXCEPT ![c] = Rest(rbio[c])]
        /\ wbio' = [wbio EXCEPT ![c] = Cat(@, answer)]
        /\ answer \in Seq(T!ToClient)
        /\ UNCHANGED <<version, client, requests, answered, toServer, toClient, tls_handler>>
    BY <1>2, <2>0, HandshakeStep, Zenon
  <2> HIDE DEF answer
  <2>2. ASSUME NEW d \in Clients, d # c PROVE Flow(d)'
    <3>1. ssl'[d] = ssl[d] /\ rbio'[d] = rbio[d] /\ wbio'[d] = wbio[d]
      BY <2>1, <2>2 DEF T!TypeOK
    <3> QED
      BY <2>1, <3>1, FlowSame
  <2>3. CASE T!Gone(c)
    <3>1. Flow(c)'
      BY <2>1, <2>3 DEF Flow, T!Gone
    <3> QED
      BY <2>1, <2>2, <3>1, Zenon
  <2>4. CASE ~T!Gone(c)
    <3>1. /\ requests[c] = answered[c] \/ requests[c] = answered[c] + 1
          /\ FlowOf(version[c], client[c], Owed(c), ssl[c], In(c), Out(c))
          /\ AtServer(ssl[c], tls_handler[c], rbio[c], wbio[c])
      BY <2>1, <2>4, Zenon DEF Flow
    <3>2. /\ rbio[c] \in Seq(T!ToServer) /\ toServer[c] \in Seq(T!ToServer) /\ rbio[c] # <<>>
          /\ toClient[c] \in Seq(T!ToClient) /\ wbio[c] \in Seq(T!ToClient)
      BY <1>2, <2>0, <2>1 DEF T!TypeOK
    <3>3. In(c) # Nil /\ Rest(In(c)) = Cat(Rest(rbio[c]), toServer[c])
      BY <3>2, Read, Zenon
    <3>4. /\ rbio'[c] = Rest(rbio[c]) /\ wbio'[c] = Cat(wbio[c], answer)
          /\ ssl'[c] = AfterStep(ssl[c])
      BY <2>1 DEF T!TypeOK
    <3>5. In(c) # Nil /\ In(c)' = Rest(In(c))
      BY <2>1, <3>3, <3>4, Zenon DEF In
    <3>6. Out(c) = Nil /\ FlowOf(version[c], client[c], Owed(c), AfterStep(ssl[c]),
            Rest(In(c)), answer)
      BY <2>1, <3>1, <3>5, HandshakeRule, Zenon DEF answer
    <3>7. toClient[c] = Nil /\ wbio[c] = Nil
      <4>1. toClient[c] \o wbio[c] = <<>>
        BY <3>6, Zenon DEF Out, Cat, Nil
      <4> QED
        BY <3>2, <4>1, ConcatEqualIffEmpty DEF Nil
    <3>8. Cat(Nil, answer) = answer
      BY <2>1, ConcatEmptySeq DEF Cat, Nil
    <3>9. wbio'[c] = answer /\ Out(c)' = answer
      BY <2>1, <3>4, <3>7, <3>8, Zenon DEF Out
    <3>10. Owed(c)' = Owed(c)
      BY <2>1 DEF Owed
    <3>11. FlowOf(version'[c], client'[c], Owed(c)', ssl'[c], In(c)', Out(c)')
      BY <2>1, <3>4, <3>5, <3>6, <3>9, <3>10, Zenon
    <3>12. tls_handler'[c] = "none"
      BY <2>1, <3>1 DEF AtServer
    <3>13. answer = Nil \/ answer = One("server hello") \/ answer = One("server finished")
      BY Zenon DEF answer, Answer
    <3>14. AtServer(ssl'[c], tls_handler'[c], rbio'[c], wbio'[c])
      <4>1. wbio'[c] = Nil \/ wbio'[c] = One("server hello") \/ wbio'[c] = One("server finished")
        BY <3>9, <3>13, Zenon
      <4> QED
        BY <3>12, <4>1, Zenon DEF AtServer
    <3>15. requests'[c] = answered'[c] \/ requests'[c] = answered'[c] + 1
      BY <2>1, <3>1
    <3>16. Flow(c)'
      BY <3>11, <3>14, <3>15, FlowNext, Zenon
    <3> QED
      BY <2>1, <2>2, <3>16, Zenon
  <2> QED
    BY <2>3, <2>4
<1> QED
  BY <1>1, <1>2

LEMMA FlowFilled ==
    ASSUME T!TypeOK, NEW c \in Clients, \A d \in Clients : Flow(d), T!Fill(c),
             tls_handler[c] # "flush",
           NEW h, h \notin {"fill", "flush", "ended"}, tls_handler[c] = "none" => h = "none",
           \A d \in Clients : tls_handler'[d] = IF d = c THEN h ELSE tls_handler[d],
           UNCHANGED <<version, client, requests, answered, toClient, wbio, ssl>>
    PROVE  \A d \in Clients : Flow(d)'
<1>1. ASSUME NEW d \in Clients, d # c PROVE Flow(d)'
  BY <1>1, FillTyped, FlowSame
<1>2. In(c)' = In(c) /\ Out(c)' = Out(c)
  <2>1. Cat(rbio'[c], toServer'[c]) = In(c)
    BY FillTyped
  <2> QED
    BY <2>1, Zenon DEF In, Out
<1>3. tls_handler'[c] = h
  OBVIOUS
<1>4. AtServer(ssl[c], tls_handler[c], rbio[c], wbio[c])
       => AtServer(ssl[c], tls_handler'[c], rbio'[c], wbio'[c])
  <2>1. wbio'[c] = wbio[c]
    OBVIOUS
  <2> QED
    BY <1>3, <2>1 DEF AtServer
<1>5. Flow(c)'
  BY <1>2, <1>4, FlowAgain
<1> QED
  BY <1>1, <1>5, Zenon

LEMMA FlowFlushed ==
    ASSUME T!TypeOK, NEW c \in Clients, \A d \in Clients : Flow(d), T!FlushChunk(c),
           UNCHANGED <<version, client, requests, answered, toServer, rbio, ssl, tls_handler>>
    PROVE  \A d \in Clients : Flow(d)'
<1>1. ASSUME NEW d \in Clients, d # c PROVE Flow(d)'
  BY <1>1, FlushTyped, FlowSame
<1>2. ASSUME ~T!Gone(c) PROVE In(c)' = In(c) /\ Out(c)' = Out(c)
  <2>1. Cat(toClient'[c], wbio'[c]) = Out(c)
    BY <1>2, FlushTyped
  <2> QED
    BY <2>1, Zenon DEF In, Out
<1>3. AtServer(ssl[c], tls_handler[c], rbio[c], wbio[c])
       => AtServer(ssl[c], tls_handler'[c], rbio'[c], wbio'[c])
  <2>1. wbio'[c] = Nil
    BY FlushTyped
  <2> QED
    BY <2>1 DEF AtServer
<1>4. Flow(c)'
  BY <1>2, <1>3, FlowAgain
<1> QED
  BY <1>1, <1>4, Zenon

LEMMA FlowEnded ==
    ASSUME T!TypeOK, NEW c \in Clients, \A d \in Clients : Flow(d), T!Gone(c),
           tls_handler' = [tls_handler EXCEPT ![c] = "ended"],
           UNCHANGED <<version, client, requests, answered, toServer, toClient, rbio, wbio,
                       ssl>>
    PROVE  \A d \in Clients : Flow(d)'
<1>1. ASSUME NEW d \in Clients, d # c PROVE Flow(d)'
  <2>1. tls_handler'[d] = tls_handler[d]
    BY <1>1 DEF T!TypeOK
  <2> QED
    BY <2>1, FlowSame
<1>2. Flow(c)'
  BY DEF Flow, T!Gone
<1> QED
  BY <1>1, <1>2, Zenon

LEMMA FlowAcceptLoop ==
    ASSUME T!TypeOK, Awaited, \A d \in Clients : Flow(d), T!AcceptLoop
    PROVE  \A d \in Clients : Flow(d)'
<1>1. ASSUME loop # "accept" PROVE serving \in Clients /\ tls_handler[serving] = "none"
  BY <1>1 DEF T!TypeOK, Awaited
<1>2. CASE T!Accept
  BY <1>2, FlowSame DEF T!Accept
<1>3. CASE T!DoHandshake
  BY <1>3, FlowHandshake
<1>4. CASE T!HandshakeDone
  <2>1. /\ serving \in Clients /\ tls_handler[serving] = "none" /\ ssl[serving] = "up"
        /\ tls_handler' = [tls_handler EXCEPT ![serving] = "read"]
        /\ UNCHANGED <<version, client, requests, answered, toServer, toClient, rbio, wbio,
                       ssl>>
    BY <1>1, <1>4 DEF T!HandshakeDone, T!clientVars
  <2>2. ASSUME NEW d \in Clients, d # serving PROVE Flow(d)'
    <3>1. tls_handler'[d] = tls_handler[d]
      BY <2>1, <2>2 DEF T!TypeOK
    <3> QED
      BY <2>1, <3>1, FlowSame
  <2>3. ASSUME NEW c \in Clients, c = serving PROVE Flow(c)'
    <3>1. tls_handler'[c] = "read" /\ ssl[c] = "up" /\ tls_handler[c] = "none"
      BY <2>1, <2>3 DEF T!TypeOK
    <3>2. AtServer(ssl[c], tls_handler[c], rbio[c], wbio[c])
          => AtServer(ssl[c], tls_handler'[c], rbio'[c], wbio'[c])
      BY <2>1, <3>1 DEF AtServer
    <3>3. In(c)' = In(c) /\ Out(c)' = Out(c)
      BY <2>1 DEF In, Out
    <3> QED
      BY <2>1, <3>2, <3>3, FlowAgain
  <2> QED
    BY <2>2, <2>3, Zenon
<1>5. CASE T!HandshakeFlush
  <2>1. serving \in Clients
        /\ UNCHANGED <<version, client, requests, answered, toServer, rbio, ssl, tls_handler>>
    BY <1>1, <1>5 DEF T!HandshakeFlush, T!clientVars
  <2>2. CASE T!FlushChunk(serving)
    BY <2>1, <2>2, FlowFlushed
  <2>3. CASE UNCHANGED <<toClient, wbio>>
    BY <2>1, <2>3, FlowSame
  <2> QED
    BY <1>5, <2>2, <2>3 DEF T!HandshakeFlush
<1>6. CASE T!HandshakeFill
  <2>1. /\ serving \in Clients /\ T!Fill(serving) /\ tls_handler[serving] = "none"
        /\ UNCHANGED <<version, client, requests, answered, toClient, wbio, ssl, tls_handler>>
    BY <1>1, <1>6 DEF T!HandshakeFill, T!clientVars
  <2>2. PICK c \in Clients : c = serving
    BY <2>1, Zenon
  <2>3. \A d \in Clients : tls_handler'[d] = IF d = c THEN "none" ELSE tls_handler[d]
    BY <2>1, <2>2
  <2>4. "none" \notin {"fill", "flush", "ended"} /\ tls_handler[c] # "flush" /\ T!Fill(c)
    BY <2>1, <2>2
  <2> QED
    BY <2>1, <2>3, <2>4, FlowFilled
<1>7. CASE T!HandshakeFails
  <2>1. /\ serving \in Clients /\ T!Gone(serving)
        /\ tls_handler' = [tls_handler EXCEPT ![serving] = "ended"]
        /\ UNCHANGED <<version, client, requests, answered, toServer, toClient, rbio, wbio,
                       ssl>>
    BY <1>1, <1>7 DEF T!HandshakeFails, T!FillFails, T!clientVars
  <2> QED
    BY <2>1, FlowEnded
<1> QED
  BY <1>2, <1>3, <1>4, <1>5, <1>6, <1>7 DEF T!AcceptLoop

LEMMA Handling ==
    ASSUME T!TypeOK, NEW c \in Clients, T!Handle(c)
    PROVE  /\ tls_handler[c] # "none" /\ tls_handler'[c] # "none"
           /\ \A d \in Clients \ {c} :
                 tls_handler'[d] = tls_handler[d] /\ rbio'[d] = rbio[d] /\ wbio'[d] = wbio[d]
           /\ UNCHANGED <<client, ssl, backlog, serving, loop>>
<1>1. CASE T!SslRead(c)
  <2>1. UNCHANGED <<client, ssl, backlog, serving, loop>> /\ tls_handler[c] = "read"
    BY <1>1 DEF T!SslRead, T!clientVars
  <2>2. \E h \in {"fill", "flush", "ended"} : tls_handler' = [tls_handler EXCEPT ![c] = h]
    BY <1>1 DEF T!SslRead, T!Handler
  <2>3. \/ rbio' = rbio /\ wbio' = wbio
        \/ /\ rbio' = [rbio EXCEPT ![c] = Tail(@)]
           /\ wbio' = wbio \/ wbio' = [wbio EXCEPT ![c] = Append(@, "response")]
    BY <1>1 DEF T!SslRead
  <2>4. \A d \in Clients \ {c} : rbio'[d] = rbio[d] /\ wbio'[d] = wbio[d]
    BY <2>3 DEF T!TypeOK
  <2>5. tls_handler'[c] # "none" /\ \A d \in Clients \ {c} : tls_handler'[d] = tls_handler[d]
    BY <2>2 DEF T!TypeOK
  <2> QED
    BY <2>1, <2>4, <2>5
<1>2. CASE T!ReadFill(c)
  <2>1. UNCHANGED <<client, ssl, backlog, serving, loop, wbio>> /\ tls_handler[c] = "fill"
    BY <1>2 DEF T!ReadFill, T!clientVars
  <2>2. \E h \in {"read", "ended"} : tls_handler' = [tls_handler EXCEPT ![c] = h]
    BY <1>2 DEF T!ReadFill, T!Handler
  <2>3. T!Fill(c) \/ rbio' = rbio
    BY <1>2 DEF T!ReadFill
  <2>4. \A d \in Clients \ {c} : rbio'[d] = rbio[d]
    BY <2>3, FillTyped
  <2>5. tls_handler'[c] # "none" /\ \A d \in Clients \ {c} : tls_handler'[d] = tls_handler[d]
    BY <2>2 DEF T!TypeOK
  <2> QED
    BY <2>1, <2>4, <2>5
<1>3. CASE T!WriteFlush(c)
  <2>1. UNCHANGED <<client, ssl, backlog, serving, loop, rbio>> /\ tls_handler[c] = "flush"
    BY <1>3 DEF T!WriteFlush, T!clientVars
  <2>2. \E h \in {"read", "flush", "ended"} : tls_handler' = [tls_handler EXCEPT ![c] = h]
    <3>1. CASE tls_handler' = tls_handler
      <4>1. tls_handler' = [tls_handler EXCEPT ![c] = "flush"]
        BY <2>1, <3>1 DEF T!TypeOK
      <4> QED
        BY <4>1
    <3>2. CASE T!Handler(c, "read") \/ T!Handler(c, "ended")
      BY <3>2 DEF T!Handler
    <3> QED
      BY <1>3, <3>1, <3>2 DEF T!WriteFlush
  <2>3. T!FlushChunk(c) \/ wbio' = wbio
    BY <1>3 DEF T!WriteFlush
  <2>4. \A d \in Clients \ {c} : wbio'[d] = wbio[d]
    BY <2>3, FlushTyped
  <2>5. tls_handler'[c] # "none" /\ \A d \in Clients \ {c} : tls_handler'[d] = tls_handler[d]
    BY <2>2 DEF T!TypeOK
  <2> QED
    BY <2>1, <2>4, <2>5
<1> QED
  BY <1>1, <1>2, <1>3 DEF T!Handle

LEMMA FlowHandle ==
    ASSUME T!TypeOK, NEW c \in Clients, \A d \in Clients : Flow(d), T!Handle(c)
    PROVE  \A d \in Clients : Flow(d)'
<1>1. CASE T!SslRead(c)
  <2>1. /\ tls_handler[c] = "read"
        /\ UNCHANGED <<version, client, requests, answered, toServer, toClient, ssl>>
    BY <1>1 DEF T!SslRead, T!clientVars
  <2>2. ASSUME NEW d \in Clients, d # c PROVE Flow(d)'
    <3>1. tls_handler'[d] = tls_handler[d] /\ rbio'[d] = rbio[d] /\ wbio'[d] = wbio[d]
      BY <2>2, Handling
    <3> QED
      BY <2>1, <3>1, FlowSame
  <2>3. CASE T!Gone(c)
    <3>1. Flow(c)'
      BY <2>1, <2>3 DEF Flow, T!Gone
    <3> QED
      BY <2>2, <3>1, Zenon
  <2>4. CASE ~T!Gone(c) /\ rbio[c] = <<>>
    <3>1. tls_handler'[c] = "fill" /\ rbio' = rbio /\ wbio' = wbio
      BY <1>1, <2>4 DEF T!TypeOK, T!SslRead, T!Handler
    <3>2. In(c)' = In(c) /\ Out(c)' = Out(c)
      BY <2>1, <3>1 DEF In, Out
    <3>3. ASSUME AtServer(ssl[c], tls_handler[c], rbio[c], wbio[c])
          PROVE  AtServer(ssl[c], tls_handler'[c], rbio'[c], wbio'[c])
      BY <2>1, <2>4, <3>1, <3>3 DEF AtServer, Nil
    <3>4. Flow(c)'
      BY <2>1, <3>2, <3>3, FlowAgain
    <3> QED
      BY <2>2, <3>4, Zenon
  <2>5. CASE ~T!Gone(c) /\ rbio[c] # <<>>
    <3>1. /\ requests[c] = answered[c] \/ requests[c] = answered[c] + 1
          /\ FlowOf(version[c], client[c], Owed(c), ssl[c], In(c), Out(c))
          /\ AtServer(ssl[c], tls_handler[c], rbio[c], wbio[c])
      BY <2>5, Zenon DEF Flow
    <3>2. ssl[c] = "up"
      BY <2>1, <3>1 DEF AtServer
    <3>3. /\ rbio[c] \in Seq(T!ToServer) /\ toServer[c] \in Seq(T!ToServer)
          /\ toClient[c] \in Seq(T!ToClient) /\ wbio[c] \in Seq(T!ToClient)
              /\ "response" \in T!ToClient
      BY DEF T!TypeOK, T!ToClient
    <3>4. /\ In(c) # Nil /\ First(In(c)) = First(rbio[c])
          /\ Rest(In(c)) = Cat(Rest(rbio[c]), toServer[c])
      BY <2>5, Read, Zenon
    <3>6. First(In(c)) = "request"
          /\ FlowOf(version[c], client[c], Owed(c), ssl[c], Rest(In(c)), Append(Out(c),
               "response"))
      BY <3>1, <3>2, <3>4, ReadRule, Zenon
    <3>7. Head(rbio[c]) = "request"
      BY <3>4, <3>6, Zenon DEF First
    <3>8. /\ rbio' = [rbio EXCEPT ![c] = Tail(@)] /\ T!Handler(c, "flush")
          /\ wbio' = [wbio EXCEPT ![c] = Append(@, "response")]
      BY <1>1, <2>5, <3>7, Zenon DEF T!SslRead
    <3>9. rbio'[c] = Rest(rbio[c]) /\ tls_handler'[c] = "flush"
           /\ wbio'[c] = Append(wbio[c], "response")
      BY <3>8 DEF T!TypeOK, T!Handler, Rest
    <3>10. In(c)' = Rest(In(c))
      BY <2>1, <3>4, <3>9, Zenon DEF In
    <3>11. Cat(toClient[c], Append(wbio[c], "response")) = Append(Cat(toClient[c], wbio[c]),
             "response")
      BY <3>3, AnsweredLast, Zenon
    <3>12. Out(c)' = Append(Out(c), "response")
      BY <2>1, <3>9, <3>11, Zenon DEF Out
    <3>13. Owed(c)' = Owed(c)
      BY <2>1 DEF Owed
    <3>14. FlowOf(version'[c], client'[c], Owed(c)', ssl'[c], In(c)', Out(c)')
      BY <2>1, <3>6, <3>10, <3>12, <3>13, Zenon
    <3>15. AtServer(ssl'[c], tls_handler'[c], rbio'[c], wbio'[c])
      BY <2>1, <3>2, <3>9, Zenon DEF AtServer
    <3>16. requests'[c] = answered'[c] \/ requests'[c] = answered'[c] + 1
      BY <2>1, <3>1
    <3>17. Flow(c)'
      BY <3>14, <3>15, <3>16, FlowNext, Zenon
    <3> QED
      BY <2>2, <3>17, Zenon
  <2> QED
    BY <2>3, <2>4, <2>5
<1>2. CASE T!ReadFill(c)
  <2>1. tls_handler[c] = "fill"
        /\ UNCHANGED <<version, client, requests, answered, toClient, wbio, ssl>>
    BY <1>2 DEF T!ReadFill, T!clientVars
  <2>2. CASE T!Fill(c) /\ T!Handler(c, "read")
    <3>1. \A d \in Clients : tls_handler'[d] = IF d = c THEN "read" ELSE tls_handler[d]
      BY <2>2 DEF T!TypeOK, T!Handler
    <3>2. "read" \notin {"fill", "flush", "ended"} /\ tls_handler[c] # "flush"
           /\ tls_handler[c] # "none"
      BY <2>1
    <3> QED
      BY <2>1, <2>2, <3>1, <3>2, FlowFilled
  <2>3. CASE T!FillFails(c) /\ T!Handler(c, "ended") /\ UNCHANGED <<rbio, toServer>>
    BY <2>1, <2>3, FlowEnded DEF T!FillFails, T!Handler
  <2> QED
    BY <1>2, <2>2, <2>3 DEF T!ReadFill
<1>3. CASE T!WriteFlush(c)
  <2>1. tls_handler[c] = "flush"
        /\ UNCHANGED <<version, client, requests, answered, toServer, rbio, ssl>>
    BY <1>3 DEF T!WriteFlush, T!clientVars
  <2>2. CASE wbio[c] = <<>> /\ T!Handler(c, "read") /\ UNCHANGED <<toClient, wbio>>
    <3>1. ASSUME NEW d \in Clients, d # c PROVE Flow(d)'
      <4>1. tls_handler'[d] = tls_handler[d]
        BY <2>2, <3>1 DEF T!TypeOK, T!Handler
      <4> QED
        BY <2>1, <2>2, <4>1, FlowSame
    <3>2. tls_handler'[c] = "read" /\ wbio'[c] = Nil /\ rbio'[c] = rbio[c]
      BY <2>1, <2>2 DEF T!TypeOK, T!Handler, Nil
    <3>3. In(c)' = In(c) /\ Out(c)' = Out(c)
      BY <2>1, <2>2 DEF In, Out
    <3>4. ASSUME AtServer(ssl[c], tls_handler[c], rbio[c], wbio[c])
          PROVE  AtServer(ssl[c], tls_handler'[c], rbio'[c], wbio'[c])
      BY <2>1, <3>2, <3>4 DEF AtServer
    <3>5. Flow(c)'
      BY <2>1, <3>3, <3>4, FlowAgain
    <3> QED
      BY <3>1, <3>5, Zenon
  <2>3. CASE T!FlushChunk(c) /\ UNCHANGED tls_handler
    BY <2>1, <2>3, FlowFlushed
  <2>4. CASE T!Gone(c) /\ T!Handler(c, "ended") /\ UNCHANGED <<toClient, wbio>>
    BY <2>1, <2>4, FlowEnded DEF T!Handler
  <2> QED
    BY <1>3, <2>2, <2>3, <2>4 DEF T!WriteFlush
<1> QED
  BY <1>1, <1>2, <1>3 DEF T!Handle

-----------------------------------------------------------------------------
(* The queue of connections.                                               *)
LEMMA Queue ==
    ASSUME T!TypeOK
    PROVE  /\ backlog \in Seq(Clients) /\ Len(backlog) \in Nat
               /\ DOMAIN backlog = 1 .. Len(backlog)
           /\ \A i \in DOMAIN backlog : backlog[i] \in Clients
<1>1. backlog \in Seq(Clients)
  BY DEF T!TypeOK
<1> QED
  BY <1>1, LenProperties, ElementOfSeq

LEMMA NotBefore ==
    ASSUME T!TypeOK, NEW c \in Clients, Flow(c), ~T!Gone(c), toClient[c] # <<>>
    PROVE  client[c] # "off"
<1>1. toClient[c] \in Seq(T!ToClient) /\ wbio[c] \in Seq(T!ToClient)
  BY DEF T!TypeOK
<1>2. Out(c) # Nil
  <2>1. toClient[c] # Nil
    BY DEF Nil
  <2> QED
    BY <1>1, <2>1, AnsweredFirst, Zenon DEF Out
<1>3. FlowOf(version[c], client[c], Owed(c), ssl[c], In(c), Out(c))
  BY Zenon DEF Flow
<1>4. ASSUME NEW v, NEW cl, NEW owed, NEW s, NEW in, NEW out,
             FlowOf(v, cl, owed, s, in, out), out # Nil
      PROVE  cl # "off"
  BY <1>4 DEF FlowOf
<1> QED
  BY <1>2, <1>3, <1>4, Zenon

LEMMA AwaitedClient ==
    ASSUME T!TypeOK, Awaited, NEW c \in Clients, Flow(c), T!Client(c)
    PROVE  Awaited'
<1>1. UNCHANGED <<serving, loop, tls_handler, ssl>>
  BY DEF T!Client, T!Connect, T!ClientReceives, T!Request, T!Leave
<1>2. CASE T!Connect(c)
  <2>1. /\ client[c] = "off" /\ client' = [client EXCEPT ![c] = "hello"]
        /\ backlog' = Append(backlog, c)
    BY <1>2 DEF T!Connect, T!Become
  <2>2. tls_handler[c] = "none" /\ ssl[c] = "hello" /\ serving # c
        /\ \A i \in DOMAIN backlog : backlog[i] # c
    BY <2>1 DEF Awaited
  <2>3. PICK n \in Nat : n = Len(backlog) /\ DOMAIN backlog = 1 .. n
    BY Queue
  <2>4. /\ DOMAIN backlog' = 1 .. n + 1 /\ backlog'[n + 1] = c
        /\ \A i \in 1 .. n : backlog'[i] = backlog[i]
    <3>1. backlog \in Seq(Clients)
      BY DEF T!TypeOK
    <3>2. /\ Append(backlog, c) \in Seq(Clients) /\ Len(Append(backlog, c)) = n + 1
          /\ Append(backlog, c)[n + 1] = c
          /\ \A i \in 1 .. n : Append(backlog, c)[i] = backlog[i]
      BY <2>3, <3>1, AppendProperties
    <3> QED
      BY <2>1, <3>2
  <2>5. \A i \in 1 .. n + 1 : i \in 1 .. n \/ i = n + 1
    OBVIOUS
  <2>6. n + 1 \in 1 .. n + 1 /\ n + 1 \notin 1 .. n /\ \A i \in 1 .. n : i \in 1 .. n + 1
    OBVIOUS
  <2>7. \A i \in 1 .. n : backlog[i] \in Clients
    BY <2>3, Queue
  <2>8. client'[c] = "hello" /\ \A d \in Clients \ {c} : client'[d] = client[d]
    BY <2>1 DEF T!TypeOK
  <2>9. ASSUME NEW i \in DOMAIN backlog'
        PROVE  /\ client'[backlog'[i]] # "off" /\ tls_handler'[backlog'[i]] = "none"
               /\ ssl'[backlog'[i]] = "hello" /\ serving' # backlog'[i]
    <3>1. CASE i \in 1 .. n
      <4>1. backlog'[i] = backlog[i] /\ backlog[i] \in Clients /\ backlog[i] # c
        BY <2>2, <2>3, <2>4, <2>7, <3>1
      <4>2. /\ client[backlog[i]] # "off" /\ tls_handler[backlog[i]] = "none"
            /\ ssl[backlog[i]] = "hello" /\ serving # backlog[i]
        BY <2>3, <3>1 DEF Awaited
      <4> QED
        BY <1>1, <2>8, <4>1, <4>2
    <3>2. CASE i = n + 1
      <4>1. backlog'[i] = c
        BY <2>4, <3>2
      <4> QED
        BY <1>1, <2>2, <2>8, <4>1
    <3> QED
      BY <2>4, <2>5, <3>1, <3>2
  <2>10. ASSUME NEW i \in DOMAIN backlog', NEW j \in DOMAIN backlog', backlog'[i] = backlog'[j]
         PROVE  i = j
    <3>1. CASE i \in 1 .. n /\ j \in 1 .. n
      BY <2>3, <2>4, <2>10, <3>1 DEF Awaited
    <3>2. CASE i = n + 1 /\ j \in 1 .. n
      BY <2>2, <2>3, <2>4, <2>10, <3>2
    <3>3. CASE i \in 1 .. n /\ j = n + 1
      BY <2>2, <2>3, <2>4, <2>10, <3>3
    <3>4. CASE i = n + 1 /\ j = n + 1
      BY <3>4
    <3> QED
      BY <2>4, <2>5, <3>1, <3>2, <3>3, <3>4
  <2>11. ASSUME NEW d \in Clients
         PROVE  /\ serving' = d => client'[d] # "off" /\ tls_handler'[d] = "none"
                /\ client'[d] = "off" => tls_handler'[d] = "none" /\ ssl'[d] = "hello"
    <3>1. CASE d = c
      BY <1>1, <2>2, <2>8, <3>1
    <3>2. CASE d # c
      BY <1>1, <2>8, <3>2 DEF Awaited
    <3> QED
      BY <3>1, <3>2
  <2>12. ASSUME NEW d \in Clients, client'[d] # "off", tls_handler'[d] = "none", serving' # d
         PROVE  (\E i \in DOMAIN backlog' : backlog'[i] = d) /\ ssl'[d] = "hello"
    <3>1. CASE d = c
      BY <1>1, <2>2, <2>4, <2>6, <3>1
    <3>2. CASE d # c
      <4>1. client[d] # "off" /\ tls_handler[d] = "none" /\ serving # d
        BY <1>1, <2>8, <2>12, <3>2
      <4>2. PICK i \in DOMAIN backlog : backlog[i] = d
        BY <4>1 DEF Awaited
      <4>3. ssl[d] = "hello"
        BY <4>1 DEF Awaited
      <4>4. i \in DOMAIN backlog' /\ backlog'[i] = d
        BY <2>3, <2>4, <2>6, <4>2
      <4> QED
        BY <1>1, <4>3, <4>4
    <3> QED
      BY <3>1, <3>2
  <2>13. serving' = NoClient <=> loop' = "accept"
    BY <1>1 DEF Awaited
  <2> QED
    BY <2>9, <2>10, <2>11, <2>12, <2>13 DEF Awaited
<1>3. CASE T!ClientReceives(c) \/ T!Request(c) \/ T!Leave(c)
  <2>1. backlog' = backlog
    BY <1>3 DEF T!ClientReceives, T!Request, T!Leave
  <2>2. client'[c] # "off" /\ client[c] # "off"
         /\ \A d \in Clients \ {c} : client'[d] = client[d]
    <3>1. CASE T!ClientReceives(c)
      <4>1. client[c] # "off"
        BY <3>1, NotBefore DEF T!ClientReceives
      <4> QED
        BY <3>1, <4>1, Received DEF T!TypeOK, T!Become, AfterHello
    <3> QED
      BY <1>3, <3>1 DEF T!TypeOK, T!Request, T!Leave, T!Become
  <2>3. \A d \in Clients : client'[d] = "off" <=> client[d] = "off"
    BY <2>2
  <2>4. \A i \in DOMAIN backlog : backlog[i] \in Clients
    BY Queue
  <2> QED
    BY <1>1, <2>1, <2>3, <2>4 DEF Awaited
<1> QED
  BY <1>2, <1>3 DEF T!Client

LEMMA AwaitedServed ==
    ASSUME T!TlsAssumption, T!TypeOK, Awaited, serving \in Clients, NEW h, h # "none",
           tls_handler' = [tls_handler EXCEPT ![serving] = h], T!NextAccept,
           UNCHANGED <<client, ssl, backlog>>
    PROVE  Awaited'
<1>1. serving' = NoClient /\ loop' = "accept"
  BY DEF T!NextAccept
<1>2. tls_handler'[serving] = h
       /\ \A d \in Clients \ {serving} : tls_handler'[d] = tls_handler[d]
  BY DEF T!TypeOK
<1>3. \A i \in DOMAIN backlog : backlog[i] \in Clients /\ backlog[i] # serving
  BY Queue DEF Awaited
<1>4. client[serving] # "off"
  BY DEF Awaited
<1>6. ASSUME NEW i \in DOMAIN backlog'
      PROVE  /\ client'[backlog'[i]] # "off" /\ tls_handler'[backlog'[i]] = "none"
             /\ ssl'[backlog'[i]] = "hello"
             /\ \A j \in DOMAIN backlog' : backlog'[i] = backlog'[j] => i = j
  BY <1>2, <1>3 DEF Awaited
<1>7. ASSUME NEW d \in Clients
      PROVE  /\ client'[d] = "off" => tls_handler'[d] = "none" /\ ssl'[d] = "hello"
             /\ client'[d] # "off" /\ tls_handler'[d] = "none" =>
                  (\E i \in DOMAIN backlog' : backlog'[i] = d) /\ ssl'[d] = "hello"
  BY <1>2, <1>4 DEF Awaited
<1>8. NoClient \notin Clients
  BY DEF T!TlsAssumption
<1> QED
  BY <1>1, <1>3, <1>6, <1>7, <1>8 DEF Awaited

LEMMA AwaitedAcceptLoop ==
    ASSUME T!TlsAssumption, T!TypeOK, Awaited, T!AcceptLoop
    PROVE  Awaited'
<1>1. NoClient \notin Clients
  BY DEF T!TlsAssumption
<1>2. ASSUME loop # "accept" PROVE serving \in Clients /\ serving # NoClient
  BY <1>2 DEF T!TypeOK, Awaited
<1>3. CASE T!Accept
  <2>1. /\ loop = "accept" /\ backlog # <<>> /\ serving' = Head(backlog)
            /\ backlog' = Tail(backlog)
        /\ loop' = "handshake" /\ UNCHANGED <<client, ssl, tls_handler>>
    BY <1>3 DEF T!Accept
  <2>2. PICK n \in Nat : n = Len(backlog) /\ DOMAIN backlog = 1 .. n
    BY Queue
  <2>3. backlog \in Seq(Clients)
    BY Queue
  <2>4. n > 0 /\ serving' = backlog[1]
    BY <2>1, <2>2, <2>3
  <2>5. /\ DOMAIN backlog' = 1 .. n - 1 /\ \A i \in 1 .. n - 1 : backlog'[i] = backlog[i + 1]
    <3>1. /\ Tail(backlog) \in Seq(Clients) /\ Len(Tail(backlog)) = Len(backlog) - 1
          /\ \A i \in 1 .. Len(Tail(backlog)) : Tail(backlog)[i] = backlog[i + 1]
      BY <2>1, <2>3, HeadTailProperties
    <3>2. DOMAIN Tail(backlog) = 1 .. Len(Tail(backlog))
      BY <3>1, LenProperties
    <3> QED
      BY <2>1, <2>2, <3>1, <3>2
  <2>6. 1 \in 1 .. n /\ \A i \in 1 .. n - 1 : i + 1 \in 1 .. n /\ i + 1 # 1
    BY <2>4
  <2>7. \A i, j \in 1 .. n - 1 : i + 1 = j + 1 => i = j
    OBVIOUS
  <2>8. \A i \in 1 .. n : i = 1 \/ (i - 1 \in 1 .. n - 1 /\ i - 1 + 1 = i)
    OBVIOUS
  <2>9. serving' \in Clients /\ serving = NoClient
    BY <2>1, <2>2, <2>4, <2>6, Queue DEF Awaited
  <2>10. \A i \in 1 .. n :
           /\ client[backlog[i]] # "off" /\ tls_handler[backlog[i]] = "none"
               /\ ssl[backlog[i]] = "hello"
           /\ \A j \in 1 .. n : backlog[i] = backlog[j] => i = j
    BY <2>2 DEF Awaited
  <2>11. ASSUME NEW i \in DOMAIN backlog'
         PROVE  /\ client'[backlog'[i]] # "off" /\ tls_handler'[backlog'[i]] = "none"
                /\ ssl'[backlog'[i]] = "hello" /\ serving' # backlog'[i]
                /\ \A j \in DOMAIN backlog' : backlog'[i] = backlog'[j] => i = j
    <3>1. i \in 1 .. n - 1 /\ i + 1 \in 1 .. n /\ i + 1 # 1 /\ backlog'[i] = backlog[i + 1]
      BY <2>5, <2>6
    <3>2. serving' # backlog[i + 1]
      BY <2>4, <2>6, <2>10, <3>1
    <3>3. ASSUME NEW j \in DOMAIN backlog', backlog'[i] = backlog'[j] PROVE i = j
      <4>1. j \in 1 .. n - 1 /\ j + 1 \in 1 .. n /\ backlog'[j] = backlog[j + 1]
        BY <2>5, <2>6
      <4>2. i + 1 = j + 1
        BY <2>10, <3>1, <3>3, <4>1
      <4> QED
        BY <2>7, <3>1, <4>1, <4>2
    <3> QED
      BY <2>1, <2>10, <3>1, <3>2, <3>3
  <2>12. ASSUME NEW d \in Clients
         PROVE  /\ serving' = d => client'[d] # "off" /\ tls_handler'[d] = "none"
                /\ client'[d] = "off" => tls_handler'[d] = "none" /\ ssl'[d] = "hello"
    BY <2>1, <2>4, <2>6, <2>10 DEF Awaited
  <2>13. ASSUME NEW d \in Clients, client'[d] # "off", tls_handler'[d] = "none", serving' # d
         PROVE  (\E i \in DOMAIN backlog' : backlog'[i] = d) /\ ssl'[d] = "hello"
    <3>1. serving # d
      BY <1>1, <2>9
    <3>2. ssl[d] = "hello" /\ \E i \in DOMAIN backlog : backlog[i] = d
      BY <2>1, <2>13, <3>1 DEF Awaited
    <3>3. PICK i \in 1 .. n : backlog[i] = d
      BY <2>2, <3>2
    <3>4. i # 1
      BY <2>4, <2>13, <3>3
    <3>5. i - 1 \in DOMAIN backlog' /\ backlog'[i - 1] = d
      <4>1. i - 1 \in 1 .. n - 1 /\ i - 1 + 1 = i
        BY <2>8, <3>4
      <4>2. backlog'[i - 1] = backlog[i - 1 + 1]
        BY <2>5, <4>1
      <4> QED
        BY <2>5, <3>3, <4>1, <4>2
    <3> QED
      BY <2>1, <3>2, <3>5
  <2> QED
    BY <1>1, <2>1, <2>9, <2>11, <2>12, <2>13 DEF Awaited
<1>4. CASE T!DoHandshake
  <2>1. /\ loop' # "accept" /\ loop # "accept"
            /\ UNCHANGED <<client, backlog, serving, tls_handler>>
        /\ \A d \in Clients : d # serving => ssl'[d] = ssl[d]
    <3>1. loop = "handshake"
      BY <1>4 DEF T!DoHandshake
    <3>2. UNCHANGED <<client, backlog, serving, tls_handler>>
      BY <1>4 DEF T!DoHandshake, T!clientVars
    <3>3. CASE rbio[serving] = <<>>
      BY <1>4, <3>1, <3>2, <3>3 DEF T!DoHandshake
    <3>4. CASE rbio[serving] # <<>>
      <4>1. loop' = loop /\ ssl' = [ssl EXCEPT ![serving] = AfterStep(ssl[serving])]
        BY <1>4, <3>4, HandshakeStep
      <4> QED
        BY <3>1, <3>2, <4>1 DEF T!TypeOK
    <3> QED
      BY <3>3, <3>4
  <2>2. \A i \in DOMAIN backlog : backlog[i] \in Clients
    BY Queue
  <2> QED
    BY <2>1, <2>2 DEF Awaited
<1>5. CASE T!HandshakeDone
  <2>1. /\ serving \in Clients /\ tls_handler' = [tls_handler EXCEPT ![serving] = "read"]
            /\ T!NextAccept
        /\ UNCHANGED <<client, ssl, backlog>>
    BY <1>2, <1>5 DEF T!HandshakeDone, T!clientVars
  <2> QED
    BY <2>1, AwaitedServed
<1>6. CASE T!HandshakeFlush \/ T!HandshakeFill
  <2>1. loop' # "accept" /\ loop # "accept"
         /\ UNCHANGED <<client, ssl, backlog, serving, tls_handler>>
    BY <1>6 DEF T!HandshakeFlush, T!HandshakeFill, T!clientVars
  <2> QED
    BY <2>1 DEF Awaited
<1>7. CASE T!HandshakeFails
  <2>1. /\ serving \in Clients /\ tls_handler' = [tls_handler EXCEPT ![serving] = "ended"]
            /\ T!NextAccept
        /\ UNCHANGED <<client, ssl, backlog>>
    BY <1>2, <1>7 DEF T!HandshakeFails, T!clientVars
  <2> QED
    BY <2>1, AwaitedServed
<1> QED
  BY <1>3, <1>4, <1>5, <1>6, <1>7 DEF T!AcceptLoop

LEMMA AwaitedHandle ==
    ASSUME T!TypeOK, Awaited, NEW c \in Clients, T!Handle(c)
    PROVE  Awaited'
<1>1. /\ tls_handler[c] # "none" /\ tls_handler'[c] # "none"
      /\ \A d \in Clients \ {c} : tls_handler'[d] = tls_handler[d]
      /\ UNCHANGED <<client, ssl, backlog, serving, loop>>
  BY Handling
<1>2. /\ serving # c /\ client[c] # "off"
      /\ \A i \in DOMAIN backlog : backlog[i] \in Clients /\ backlog[i] # c
  BY <1>1, Queue DEF Awaited
<1> QED
  BY <1>1, <1>2 DEF Awaited

LEMMA WaitingAcceptLoop ==
    ASSUME T!TypeOK, Awaited, Waiting, T!AcceptLoop
    PROVE  Waiting'
<1>1. CASE T!DoHandshake
  <2>1. serving' = serving /\ loop = "handshake" /\ ssl[serving] # "up"
    BY <1>1 DEF T!DoHandshake
  <2>2. CASE rbio[serving] = <<>>
    BY <1>1, <2>1, <2>2 DEF T!DoHandshake, Waiting, Nil
  <2>3. CASE rbio[serving] # <<>>
    BY <1>1, <2>1, <2>3 DEF T!DoHandshake, Waiting
  <2> QED
    BY <2>2, <2>3
<1>2. CASE T!Accept \/ T!HandshakeDone \/ T!HandshakeFill \/ T!HandshakeFails
  BY <1>2 DEF T!Accept, T!HandshakeDone, T!HandshakeFill, T!HandshakeFails, T!NextAccept,
       Waiting
<1>3. CASE T!HandshakeFlush
  <2>1. loop = "flush" /\ UNCHANGED <<rbio, ssl, serving>>
    BY <1>3 DEF T!HandshakeFlush
  <2>2. CASE wbio[serving] = <<>>
    BY <1>3, <2>1, <2>2 DEF T!HandshakeFlush, Waiting, Nil
  <2>3. CASE wbio[serving] # <<>>
    BY <1>3, <2>1, <2>3 DEF T!HandshakeFlush, Waiting
  <2> QED
    BY <2>2, <2>3
<1> QED
  BY <1>1, <1>2, <1>3 DEF T!AcceptLoop

LEMMA WaitingHandle ==
    ASSUME T!TypeOK, Awaited, Waiting, NEW c \in Clients, T!Handle(c)
    PROVE  Waiting'
<1>1. /\ tls_handler[c] # "none" /\ UNCHANGED <<ssl, serving, loop>>
      /\ \A d \in Clients \ {c} : rbio'[d] = rbio[d] /\ wbio'[d] = wbio[d]
  BY Handling
<1>2. ASSUME loop \in {"flush", "fill"} PROVE serving \in Clients \ {c}
  BY <1>1, <1>2 DEF T!TypeOK, Awaited
<1> QED
  BY <1>1, <1>2 DEF Waiting

-----------------------------------------------------------------------------
LEMMA TlsInit ==
    ASSUME T!TlsAssumption, T!Init
    PROVE  TlsInv
<1>1. T!TypeOK
  <2>1. <<>> \in Seq(T!ToServer) /\ <<>> \in Seq(T!ToClient) /\ <<>> \in Seq(Clients)
    OBVIOUS
  <2>2. 0 \in 0 .. MaxRequests
    BY DEF T!TlsAssumption
  <2> QED
    BY <2>1, <2>2 DEF T!Init, T!TypeOK
<1>2. Awaited
  <2>1. serving = NoClient /\ loop = "accept" /\ NoClient \notin Clients
    BY DEF T!Init, T!TlsAssumption
  <2>2. DOMAIN backlog = {}
    <3>1. <<>> \in Seq(Clients) /\ Len(<<>>) = 0
      BY EmptySeq
    <3>2. DOMAIN <<>> = 1 .. 0
      BY <3>1, LenProperties
    <3>3. backlog = <<>>
      BY DEF T!Init
    <3>4. 1 .. 0 = {}
      OBVIOUS
    <3> QED
      BY <3>2, <3>3, <3>4, Zenon
  <2> QED
    BY <2>1, <2>2 DEF T!Init, Awaited
<1>3. Waiting
  BY DEF T!Init, Waiting
<1>4. ASSUME NEW c \in Clients PROVE Flow(c)
  <2>1. requests[c] = answered[c] /\ client[c] = "off" /\ ssl[c] = "hello"
         /\ tls_handler[c] = "none"
    BY DEF T!Init
  <2>2. /\ rbio[c] = <<>> /\ toServer[c] = <<>> /\ toClient[c] = <<>> /\ wbio[c] = <<>>
    BY DEF T!Init
  <2>3. <<>> \o <<>> = <<>>
    <3>1. <<>> \in Seq(Clients)
      OBVIOUS
    <3> QED
      BY <3>1, ConcatEmptySeq
  <2>4. In(c) = Nil /\ Out(c) = Nil
    BY <2>2, <2>3, Zenon DEF In, Out, Cat, Nil
  <2>5. Owed(c) = "none"
    BY <2>1 DEF Owed
  <2>6. FlowOf(version[c], client[c], Owed(c), ssl[c], In(c), Out(c))
    BY <2>1, <2>4, <2>5, Zenon DEF FlowOf
  <2>7. AtServer(ssl[c], tls_handler[c], rbio[c], wbio[c])
    BY <2>1, <2>2 DEF AtServer, Nil
  <2> QED
    BY <2>1, <2>6, <2>7, Zenon DEF Flow
<1> QED
  BY <1>1, <1>2, <1>3, <1>4 DEF TlsInv

LEMMA TlsStep ==
    ASSUME T!TlsAssumption, TlsInv, [T!Next]_(T!vars)
    PROVE  TlsInv'
<1>1. T!TypeOK /\ Awaited /\ Waiting /\ \A d \in Clients : Flow(d)
  BY DEF TlsInv
<1>2. CASE T!AcceptLoop
  BY <1>1, <1>2, TypeAcceptLoop, AwaitedAcceptLoop, WaitingAcceptLoop, FlowAcceptLoop DEF TlsInv
<1>3. ASSUME NEW c \in Clients, T!Handle(c) PROVE TlsInv'
  BY <1>1, <1>3, TypeHandle, AwaitedHandle, WaitingHandle, FlowHandle DEF TlsInv
<1>4. ASSUME NEW c \in Clients, T!Client(c) PROVE TlsInv'
  <2>1. T!TypeOK' /\ Awaited' /\ \A d \in Clients : Flow(d)'
    BY <1>1, <1>4, TypeClient, AwaitedClient, FlowClient
  <2>2. UNCHANGED <<loop, serving, rbio, wbio, ssl>>
    BY <1>4 DEF T!Client, T!Connect, T!ClientReceives, T!Request, T!Leave
  <2>3. Waiting'
    BY <1>1, <2>2 DEF Waiting
  <2> QED
    BY <2>1, <2>3 DEF TlsInv
<1>5. CASE UNCHANGED T!vars
  <2>1. UNCHANGED <<version, client, requests, answered, toServer, toClient, rbio, wbio, ssl,
                    backlog,
                    serving, loop, tls_handler>>
    BY <1>5 DEF T!vars
  <2>2. \A d \in Clients : Flow(d)'
    BY <1>1, <2>1, FlowSame
  <2>3. T!TypeOK'
    BY <1>1, <2>1 DEF T!TypeOK
  <2>4. Awaited' /\ Waiting'
    BY <1>1, <2>1 DEF Awaited, Waiting
  <2> QED
    BY <2>2, <2>3, <2>4 DEF TlsInv
<1> QED
  BY <1>2, <1>3, <1>4, <1>5 DEF T!Next

LEMMA IdleAnswered ==
    ASSUME T!TlsAssumption, TlsInv
    PROVE  T!TlsAnswered
<1> SUFFICES ASSUME T!Idle, NEW c \in Clients, ~T!Gone(c) PROVE requests[c] = answered[c]
  BY DEF T!TlsAnswered
<1>1. /\ T!TypeOK /\ Awaited /\ Waiting
      /\ FlowOf(version[c], client[c], Owed(c), ssl[c], In(c), Out(c))
      /\ AtServer(ssl[c], tls_handler[c], rbio[c], wbio[c])
  BY DEF TlsInv, Flow
<1>2. toClient[c] = Nil /\ tls_handler[c] # "flush" /\ tls_handler[c] # "ended"
      /\ (tls_handler[c] = "none" \/ (tls_handler[c] = "fill" /\ toServer[c] = Nil))
  BY <1>1 DEF T!Idle, Nil, AtServer
<1>3. Cat(Nil, Nil) = Nil /\ Cat(Nil, wbio[c]) = wbio[c]
  <2>1. wbio \in [Clients -> Seq(T!ToClient)]
    BY <1>1 DEF T!TypeOK
  <2>2. wbio[c] \in Seq(T!ToClient) /\ <<>> \in Seq(T!ToClient)
    BY <2>1
  <2> QED
    BY <2>2, ConcatEmptySeq DEF Cat, Nil
<1>4. wbio[c] = Nil \/ wbio[c] = One("server hello") \/ wbio[c] = One("server finished")
  BY <1>1, <1>2 DEF AtServer
<1>5. Out(c) = Nil \/ Out(c) = One("server hello") \/ Out(c) = One("server finished")
  BY <1>2, <1>3, <1>4, Zenon DEF Out
<1>6. CASE tls_handler[c] = "fill"
  <2>1. In(c) = Nil
    BY <1>1, <1>2, <1>3, <1>6, Zenon DEF In, AtServer
  <2>2. Owed(c) = "none"
    BY <1>1, <1>5, <2>1, OwedOnTheWay, Zenon
  <2> QED
    BY <2>2 DEF Owed
<1>7. CASE tls_handler[c] = "none"
  <2>1. CASE client[c] # "off" /\ serving = c
    <3>1. loop = "fill" /\ toServer[c] = Nil
      BY <1>1, <2>1 DEF T!Idle, Awaited, Nil, T!TlsAssumption
    <3>2. rbio[c] = Nil
      BY <1>1, <2>1, <3>1 DEF Waiting
    <3>3. In(c) = Nil
      BY <1>3, <3>1, <3>2, Zenon DEF In
    <3>4. Owed(c) = "none"
      BY <1>1, <1>5, <3>3, OwedOnTheWay, Zenon
    <3> QED
      BY <3>4 DEF Owed
  <2>2. CASE client[c] = "off" \/ serving # c
    <3>1. ssl[c] = "hello"
      BY <1>1, <1>7, <2>2 DEF Awaited
    <3>2. Owed(c) = "none"
      BY <1>1, <3>1, OwedAfterHello, Zenon
    <3> QED
      BY <3>2 DEF Owed
  <2>3. serving = c => client[c] # "off"
    BY <1>1 DEF Awaited
  <2> QED
    BY <2>1, <2>2, <2>3
<1> QED
  BY <1>2, <1>6, <1>7

LEMMA IdleReached ==
    ASSUME T!TlsAssumption, TlsInv
    PROVE  T!HandshakeReached
<1> SUFFICES ASSUME T!Idle, NEW c \in Clients, client[c] # "off", tls_handler[c] = "none",
                      serving = NoClient
             PROVE  FALSE
  BY DEF T!HandshakeReached
<1>1. Awaited
  BY DEF TlsInv
<1>2. backlog = <<>>
  BY <1>1 DEF Awaited, T!Idle
<1>3. c # serving => \E i \in DOMAIN backlog : backlog[i] = c
  BY <1>1 DEF Awaited
<1>4. serving # c
  BY DEF T!TlsAssumption
<1> QED
  BY <1>2, <1>3, <1>4

LEMMA IdleHello ==
    ASSUME T!TlsAssumption, TlsInv
    PROVE  T!HelloAnswered
<1> SUFFICES ASSUME T!Idle, NEW c \in Clients, client[c] = "hello", serving = c
             PROVE  FALSE
  BY DEF T!HelloAnswered
<1>1. /\ T!TypeOK /\ Awaited /\ Waiting /\ ~T!Gone(c)
      /\ FlowOf(version[c], client[c], Owed(c), ssl[c], In(c), Out(c))
  BY DEF TlsInv, Flow, T!Gone
<1>2. loop = "fill" /\ toServer[c] = Nil /\ rbio[c] = Nil /\ wbio[c] = Nil /\ toClient[c] = Nil
  <2>1. loop = "fill" /\ toServer[c] = Nil /\ toClient[c] = Nil
    BY <1>1 DEF T!Idle, Awaited, Nil, T!TlsAssumption
  <2> QED
    BY <1>1, <2>1 DEF Waiting
<1>3. Cat(Nil, Nil) = Nil
  <2>1. <<>> \in Seq(T!ToClient)
    OBVIOUS
  <2> QED
    BY <2>1, ConcatEmptySeq DEF Cat, Nil
<1>4. In(c) = Nil /\ Out(c) = Nil
  BY <1>2, <1>3, Zenon DEF In, Out
<1> QED
  BY <1>1, <1>4, HelloOnTheWay, Zenon

(* A server that nothing keeps busy has answered every request of a client *)
(* that is still there, has begun every handshake or performs one, and     *)
(* does not owe that one the answer to its hello.                          *)
THEOREM TlsServed ==
    ASSUME T!TlsAssumption
    PROVE  T!Spec => [](T!TypeOK /\ T!TlsAnswered /\ T!HandshakeReached /\ T!HelloAnswered)
<1>1. T!Init => TlsInv
  BY TlsInit
<1>2. TlsInv /\ [T!Next]_(T!vars) => TlsInv'
  BY TlsStep
<1>3. TlsInv => T!TypeOK /\ T!TlsAnswered /\ T!HandshakeReached /\ T!HelloAnswered
  BY IdleAnswered, IdleReached, IdleHello DEF TlsInv
<1> QED
  BY <1>1, <1>2, <1>3, PTL DEF T!Spec
=============================================================================
