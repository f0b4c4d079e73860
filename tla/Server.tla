------------------------------- MODULE Server -------------------------------
(***************************************************************************)
(* The life of a server on Linux: App::run(), stop() and shutdown()        *)
(* (src/core/app.cpp), the io_uring event loop with one ring and one       *)
(* worker thread per ring (src/net/io_uring/uring_context.cpp), the accept *)
(* coroutines and one App::handle_connection() coroutine per connection.   *)
(*                                                                         *)
(* A step is one access to state that several threads share.  A coroutine  *)
(* is run by a thread until it parks itself on an operation it submitted;  *)
(* the worker of the ring resumes it when it takes the completion from the *)
(* ring's queue.  The kernel and the clients behind it complete submitted  *)
(* operations in any order, with any result, or never.                     *)
(*                                                                         *)
(* Left out: the bytes of requests and responses, the user's handlers      *)
(* (they run inline, without suspending), TLS, and upgrades to WebSocket   *)
(* and HTTP/2.                                                             *)
(***************************************************************************)
EXTENDS Naturals, FiniteSets

CONSTANTS
    Rings,         \* the rings, and the worker threads that own them
    Ring0,         \* the ring that the single listener uses
    Conns,         \* the connections that clients may open
    NoConn,
    MaxRequests    \* MAX_REQUESTS_PER_CONNECTION

ASSUME ServerAssumption ==
    /\ Ring0 \in Rings
    /\ IsFiniteSet(Conns)
    /\ NoConn \notin Conns
    /\ Conns \cap Rings = {}
    /\ MaxRequests \in Nat \ {0}

(* The completion of an accept is not mistaken for one of a read or write. *)
ASSUME CompletionsDiffer == Conns \cap (Rings \X (Conns \cup {NoConn})) = {}

VARIABLES
    main,        \* where the thread that called App::run() is
    multi,       \* multi_accept_enabled_
    control,     \* where the thread that calls stop() or shutdown() is
    order,       \* what it called: "stop", "drain", "drainForce" or "none"
    cancelled,   \* cancel_source_
    stopped,     \* stopped_
    listening,   \* listener_ is set and open
    active,      \* active_connections_
    worker,      \* where each worker thread is
    current,     \* the connection whose coroutine each worker runs
    acceptor,    \* where the accept coroutine of each ring is
    handler,     \* where the coroutine of each connection is
    ring,        \* ring_index_ of each connection
    served,      \* request_count of each connection
    after,       \* where each handler goes when its response is out
    submitted,   \* operations the kernel has: a ring (accept) or a connection
    completed,   \* completions each ring holds: a connection, or <<ring, accepted>>
    late,        \* history: reads and writes a handler submitted after cancellation
    lateFile     \* history: 1 if it submitted waits of a file transmission after it

appVars == <<main, multi, control, order, cancelled, stopped, listening>>
loopVars == <<worker, current, acceptor>>
connVars == <<handler, ring, served, after, active, late, lateFile>>
opVars == <<submitted, completed>>
vars == <<appVars, loopVars, connVars, opVars>>

(* How the kernel may complete a read and a write.  What matters of a read *)
(* is what parse_request() makes of it: a request that keeps the           *)
(* connection alive, one whose answer is the last (it says "Connection:    *)
(* close", or it is malformed and answered with 400), part of a request,   *)
(* or the end of the stream.  A write may be the last one of a response,   *)
(* or of the headers of a response whose body is a file.                   *)
ReadResults == {"request", "last", "partial", "eof"}
WriteResults == {"all", "headers", "short", "failed"}

(* Pcs of a handler that a worker is executing, and of one that is parked: *)
(* on a read, on a write, or in a file transmission whose socket is full.  *)
Executing == {"begin", "loop", "read", "readSubmit", "readPark",
              "write", "writeSubmit", "writePark",
              "file", "sendfile", "fileSubmit", "filePark", "close"}
Parked == {"reading", "writing", "waiting"}

Init ==
    /\ main = "listen" /\ multi = FALSE
    /\ control = "idle" /\ order = "none"
    /\ cancelled = FALSE /\ stopped = FALSE /\ listening = FALSE
    /\ worker = [r \in Rings |-> "off"]
    /\ current = [r \in Rings |-> NoConn]
    /\ acceptor = [r \in Rings |-> "off"]
    /\ handler = [c \in Conns |-> "none"]
    /\ ring = [c \in Conns |-> Ring0]
    /\ served = [c \in Conns |-> 0]
    /\ after = [c \in Conns |-> "loop"]
    /\ active = 0
    /\ late = [c \in Conns |-> 0] /\ lateFile = [c \in Conns |-> 0]
    /\ submitted = {}
    /\ completed = [r \in Rings |-> {}]

-----------------------------------------------------------------------------
(* App::run() on the main thread *)

EnableMultiAccept ==
    /\ main = "listen"
    /\ main' = "start"
    /\ multi' = TRUE
    /\ UNCHANGED <<control, order, cancelled, stopped, listening, loopVars, connVars, opVars>>

(* The fall-back: one listener, whose accept coroutine main starts itself. *)
ListenOnce ==
    /\ main = "listen"
    /\ main' = "accept"
    /\ listening' = TRUE
    /\ acceptor' = [acceptor EXCEPT ![Ring0] = "loop"]
    /\ UNCHANGED <<multi, control, order, cancelled, stopped, worker, current, connVars, opVars>>

(* UringContext::run(): the flag is reset, then the workers are started. *)
RunLoop ==
    /\ main = "start"
    /\ main' = "join"
    /\ stopped' = FALSE
    /\ worker' = [r \in Rings |-> IF multi THEN "starting" ELSE "top"]
    /\ acceptor' = IF multi THEN [r \in Rings |-> "loop"] ELSE acceptor
    /\ UNCHANGED <<multi, control, order, cancelled, listening, current, connVars, opVars>>

Join ==
    /\ main = "join"
    /\ \A r \in Rings : worker[r] = "exited"
    /\ main' = "returned"
    /\ UNCHANGED <<multi, control, order, cancelled, stopped, listening,
                   loopVars, connVars, opVars>>

Main == EnableMultiAccept \/ ListenOnce \/ RunLoop \/ Join

-----------------------------------------------------------------------------
(* App::stop() and App::shutdown() on another thread, once io_ctx_ is set *)

CallStop ==
    /\ control = "idle"
    /\ main \in {"start", "join"}
    /\ order' = "stop"
    /\ control' = "cancel"
    /\ UNCHANGED <<main, multi, cancelled, stopped, listening, loopVars, connVars, opVars>>

(* force_close_after_timeout is the caller's choice. *)
CallShutdown ==
    /\ control = "idle"
    /\ main \in {"start", "join"}
    /\ order' \in {"drain", "drainForce"}
    /\ control' = "close"
    /\ UNCHANGED <<main, multi, cancelled, stopped, listening, loopVars, connVars, opVars>>

StopCancels ==
    /\ control = "cancel"
    /\ cancelled' = TRUE
    /\ control' = "close"
    /\ UNCHANGED <<main, multi, order, stopped, listening, loopVars, connVars, opVars>>

(* listener_ is null when multi-accept is enabled: nothing is closed then. *)
CloseListener ==
    /\ control = "close"
    /\ listening' = FALSE
    /\ control' = IF order = "stop" THEN "stopLoop" ELSE "drain"
    /\ UNCHANGED <<main, multi, order, cancelled, stopped, loopVars, connVars, opVars>>

Drained ==
    /\ control = "drain"
    /\ active = 0
    /\ control' = "force"
    /\ UNCHANGED <<main, multi, order, cancelled, stopped, listening,
                   loopVars, connVars, opVars>>

DrainTimeout ==
    /\ control = "drain"
    /\ active > 0
    /\ control' = "force"
    /\ UNCHANGED <<main, multi, order, cancelled, stopped, listening,
                   loopVars, connVars, opVars>>

ForceClose ==
    /\ control = "force"
    /\ cancelled' = (cancelled \/ (order = "drainForce" /\ active > 0))
    /\ control' = "stopLoop"
    /\ UNCHANGED <<main, multi, order, stopped, listening, loopVars, connVars, opVars>>

StopLoop ==
    /\ control = "stopLoop"
    /\ stopped' = TRUE
    /\ control' = "done"
    /\ UNCHANGED <<main, multi, order, cancelled, listening, loopVars, connVars, opVars>>

Call == CallStop \/ CallShutdown

Control ==
    \/ StopCancels \/ CloseListener \/ Drained \/ DrainTimeout
    \/ ForceClose \/ StopLoop

-----------------------------------------------------------------------------
(* Worker threads: worker_loop() and poll_and_resume() *)

Worker(r, at) == worker' = [worker EXCEPT ![r] = at]

(* while (!stopped_), before the first poll. *)
FirstTest(r) ==
    /\ worker[r] = "top"
    /\ Worker(r, IF stopped THEN "exited" ELSE "poll")
    /\ UNCHANGED <<appVars, current, acceptor, connVars, opVars>>

(* Mutant: the worker tests the token of the application, not stopped_. *)
EndBatchIfCancelled(r) ==
    /\ worker[r] = "poll"
    /\ Worker(r, IF cancelled THEN "exited" ELSE "poll")
    /\ UNCHANGED <<appVars, current, acceptor, connVars, opVars>>

(* The queue is empty (the wait ends after 1 us) or the batch has reached *)
(* its limit: while (!stopped_) is tested again.                          *)
EndBatch(r) ==
    /\ worker[r] = "poll"
    /\ Worker(r, IF stopped THEN "exited" ELSE "poll")
    /\ UNCHANGED <<appVars, current, acceptor, connVars, opVars>>

(* The result of the zero-length send that a file transmission waits for   *)
(* is not looked at.                                                       *)
Results(at) ==
    CASE at = "reading" -> ReadResults
      [] at = "writing" -> WriteResults
      [] at = "waiting" -> {"any"}

(* Where a handler continues when its operation completes. *)
Continue(c, result) ==
    CASE result \in {"request", "last", "short"} -> "write"
      [] result = "headers" -> "file"
      [] result = "any" -> "sendfile"
      [] result = "partial" -> "read"
      [] result \in {"eof", "failed"} -> "close"
      [] result = "all" -> after[c]

(* A completion is taken off the queue and its coroutine resumed: unless   *)
(* the coroutine has not yet parked itself; then the completion is lost.   *)
(* Its result, the kernel's choice, is left open until it is looked at.    *)
ResumeHandler(r, c) ==
    /\ worker[r] = "poll"
    /\ c \in completed[r]
    /\ completed' = [completed EXCEPT ![r] = @ \ {c}]
    /\ IF handler[c] \in Parked
       THEN \E result \in Results(handler[c]) :
            /\ handler' = [handler EXCEPT ![c] = Continue(c, result)]
            /\ after' = [after EXCEPT ![c] =
                  CASE result = "request" ->
                         IF served[c] < MaxRequests THEN "loop" ELSE "close"
                    [] result = "last" -> "close"
                    [] OTHER -> @]
            /\ current' = [current EXCEPT ![r] = c]
            /\ Worker(r, "handler")
       ELSE UNCHANGED <<handler, after, current, worker>>
    /\ UNCHANGED <<appVars, acceptor, ring, served, active, late, lateFile, submitted>>

(* The accept coroutine goes on with a connection or with an error.  The   *)
(* per-ring one first looks whether the loop was stopped, and then drops   *)
(* the connection.                                                         *)
ResumeAcceptor(r) ==
    /\ worker[r] = "poll"
    /\ acceptor[r] = "parked"
    /\ \E c \in Conns \cup {NoConn} :
        /\ <<r, c>> \in completed[r]
        /\ completed' = [completed EXCEPT ![r] = @ \ {<<r, c>>}]
        /\ IF multi /\ stopped
           THEN /\ acceptor' = [acceptor EXCEPT ![r] = "ended"]
                /\ handler' = IF c = NoConn THEN handler
                              ELSE [handler EXCEPT ![c] = "dropped"]
                /\ UNCHANGED <<worker, current, ring>>
           ELSE IF c = NoConn
           THEN /\ acceptor' = [acceptor EXCEPT ![r] = IF multi THEN "loop" ELSE "error"]
                /\ Worker(r, "accept")
                /\ UNCHANGED <<current, handler, ring>>
           ELSE /\ acceptor' = [acceptor EXCEPT ![r] = "handing"]
                /\ handler' = [handler EXCEPT ![c] = "begin"]
                /\ ring' = [ring EXCEPT ![c] = r]
                /\ current' = [current EXCEPT ![r] = c]
                /\ Worker(r, "handler")
    /\ UNCHANGED <<appVars, served, after, active, late, lateFile, submitted>>

-----------------------------------------------------------------------------
(* Accept coroutines *)

(* The thread that executes the accept coroutine of ring r: its worker, or *)
(* main while it starts the single one.                                    *)
InAcceptor(r) ==
    \/ worker[r] \in {"starting", "accept"}
    \/ main = "accept" /\ r = Ring0

(* The coroutine suspends or ends: its thread goes on. *)
LeaveAcceptor(r) ==
    /\ main' = IF main = "accept" THEN "start" ELSE main
    /\ worker' = [worker EXCEPT ![r] =
          CASE @ = "starting" -> "top" [] @ = "accept" -> "poll" [] OTHER -> @]

Acceptor(r, at) == acceptor' = [acceptor EXCEPT ![r] = at]

(* UringContext::accept_loop(), and the loop of App::run(), whose          *)
(* async_accept() fails at once when the listener is closed.               *)
AcceptLoop(r) ==
    /\ InAcceptor(r)
    /\ acceptor[r] = "loop"
    /\ IF (IF multi THEN stopped ELSE cancelled)
       THEN Acceptor(r, "ended") /\ LeaveAcceptor(r)
       ELSE /\ Acceptor(r, IF multi \/ listening THEN "submit" ELSE "error")
            /\ UNCHANGED <<main, worker>>
    /\ UNCHANGED <<multi, control, order, cancelled, stopped, listening, current,
                   connVars, opVars>>

(* Mutant: a failed accept is retried without going through the queue. *)
AcceptRetried(r) ==
    /\ InAcceptor(r)
    /\ acceptor[r] = "error"
    /\ cancelled
    /\ Acceptor(r, "ended") /\ LeaveAcceptor(r)
    /\ UNCHANGED <<multi, control, order, cancelled, stopped, listening, current,
                   connVars, opVars>>

AcceptFailed(r) ==
    /\ InAcceptor(r)
    /\ acceptor[r] = "error"
    /\ IF cancelled
       THEN Acceptor(r, "ended") /\ LeaveAcceptor(r)
       ELSE Acceptor(r, "loop") /\ UNCHANGED <<main, worker>>
    /\ UNCHANGED <<multi, control, order, cancelled, stopped, listening, current,
                   connVars, opVars>>

SubmitAccept(r) ==
    /\ InAcceptor(r)
    /\ acceptor[r] = "submit"
    /\ submitted' = submitted \cup {r}
    /\ Acceptor(r, "park")
    /\ UNCHANGED <<appVars, worker, current, connVars, completed>>

ParkAcceptor(r) ==
    /\ InAcceptor(r)
    /\ acceptor[r] = "park"
    /\ Acceptor(r, "parked")
    /\ LeaveAcceptor(r)
    /\ UNCHANGED <<multi, control, order, cancelled, stopped, listening, current,
                   connVars, opVars>>

Accept(r) == AcceptLoop(r) \/ AcceptFailed(r) \/ SubmitAccept(r) \/ ParkAcceptor(r)

-----------------------------------------------------------------------------
(* App::handle_connection(), one coroutine per connection *)

Runs(r, c, at) == worker[r] = "handler" /\ current[r] = c /\ handler[c] = at

Handler(c, at) == handler' = [handler EXCEPT ![c] = at]

(* The handler suspends or ends: the worker goes back to the accept        *)
(* coroutine that called it, or to the queue.                              *)
LeaveHandler(r) ==
    /\ current' = [current EXCEPT ![r] = NoConn]
    /\ Worker(r, IF acceptor[r] = "handing" THEN "accept" ELSE "poll")
    /\ acceptor' = [acceptor EXCEPT ![r] = IF @ = "handing" THEN "loop" ELSE @]

Begin(r, c) ==
    /\ Runs(r, c, "begin")
    /\ active' = active + 1
    /\ Handler(c, "loop")
    /\ UNCHANGED <<appVars, loopVars, ring, served, after, late, lateFile, opVars>>

NextRequest(r, c) ==
    /\ Runs(r, c, "loop")
    /\ IF cancelled \/ served[c] = MaxRequests
       THEN Handler(c, "close") /\ UNCHANGED served
       ELSE Handler(c, "read") /\ served' = [served EXCEPT ![c] = @ + 1]
    /\ UNCHANGED <<appVars, loopVars, ring, after, active, late, lateFile, opVars>>

(* async_read() and async_write() look at the token before they submit. *)
CheckRead(r, c) ==
    /\ Runs(r, c, "read")
    /\ Handler(c, IF cancelled THEN "close" ELSE "readSubmit")
    /\ UNCHANGED <<appVars, loopVars, ring, served, after, active, late, lateFile, opVars>>

(* Mutant: only reads look at the token. *)
WriteUnchecked(r, c) ==
    /\ Runs(r, c, "write")
    /\ Handler(c, "writeSubmit")
    /\ UNCHANGED <<appVars, loopVars, ring, served, after, active, late, lateFile, opVars>>

CheckWrite(r, c) ==
    /\ Runs(r, c, "write")
    /\ Handler(c, IF cancelled THEN "close" ELSE "writeSubmit")
    /\ UNCHANGED <<appVars, loopVars, ring, served, after, active, late, lateFile, opVars>>

Submit(r, c, from, to) ==
    /\ Runs(r, c, from)
    /\ submitted' = submitted \cup {c}
    /\ late' = [late EXCEPT ![c] = IF cancelled THEN @ + 1 ELSE @]
    /\ Handler(c, to)
    /\ UNCHANGED <<appVars, loopVars, ring, served, after, active, lateFile, completed>>

Park(r, c, from, to) ==
    /\ Runs(r, c, from)
    /\ Handler(c, to)
    /\ LeaveHandler(r)
    /\ UNCHANGED <<appVars, ring, served, after, active, late, lateFile, opVars>>

SubmitRead(r, c) == Submit(r, c, "readSubmit", "readPark")
ParkRead(r, c) == Park(r, c, "readPark", "reading")
SubmitWrite(r, c) == Submit(r, c, "writeSubmit", "writePark")
ParkWrite(r, c) == Park(r, c, "writePark", "writing")

(* send_file_zero_copy() and async_transmit_file(): the file is opened and *)
(* the token looked at, once.                                              *)
CheckFile(r, c) ==
    /\ Runs(r, c, "file")
    /\ \E opened \in BOOLEAN :
          Handler(c, IF opened /\ ~cancelled THEN "sendfile" ELSE "close")
    /\ UNCHANGED <<appVars, loopVars, ring, served, after, active, late, lateFile, opVars>>

(* The calls of sendfile() up to one that would block: all is sent (or the *)
(* file has ended), it failed, or the socket is full.  Only the sockets of *)
(* multi-accept are non-blocking: on others the worker is in sendfile()    *)
(* until the client has read enough.                                       *)
SendFile(r, c) ==
    /\ Runs(r, c, "sendfile")
    /\ \E at \in {after[c], "close"} \cup (IF multi THEN {"fileSubmit"} ELSE {}) :
          Handler(c, at)
    /\ UNCHANGED <<appVars, loopVars, ring, served, after, active, late, lateFile, opVars>>

(* A wait is submitted whenever the socket is full, whatever the token. *)
SubmitWait(r, c) ==
    /\ Runs(r, c, "fileSubmit")
    /\ submitted' = submitted \cup {c}
    /\ lateFile' = [lateFile EXCEPT ![c] = IF cancelled THEN 1 ELSE @]
    /\ Handler(c, "filePark")
    /\ UNCHANGED <<appVars, loopVars, ring, served, after, active, late, completed>>

ParkWait(r, c) == Park(r, c, "filePark", "waiting")

(* The coroutine's frame is destroyed, and what it held with it. *)
DestroyFrame(c) ==
    /\ Handler(c, "closed")
    /\ served' = [served EXCEPT ![c] = 0]
    /\ after' = [after EXCEPT ![c] = "loop"]
    /\ late' = [late EXCEPT ![c] = 0] /\ lateFile' = [lateFile EXCEPT ![c] = 0]

(* Mutant: the count goes down on a clean end only, not when cancelled. *)
CloseWithoutGuard(r, c) ==
    /\ Runs(r, c, "close")
    /\ active' = IF cancelled THEN active ELSE active - 1
    /\ DestroyFrame(c)
    /\ LeaveHandler(r)
    /\ UNCHANGED <<appVars, ring, opVars>>

(* Mutant: the count goes down by hand and again in the guard. *)
CloseTwice(r, c) ==
    /\ Runs(r, c, "close")
    /\ active' = active - 2
    /\ DestroyFrame(c)
    /\ LeaveHandler(r)
    /\ UNCHANGED <<appVars, ring, opVars>>

(* The socket is closed, the guard counts down, the frame goes. *)
Close(r, c) ==
    /\ Runs(r, c, "close")
    /\ active' = active - 1
    /\ DestroyFrame(c)
    /\ LeaveHandler(r)
    /\ UNCHANGED <<appVars, ring, opVars>>

Handle(r, c) ==
    \/ Begin(r, c) \/ NextRequest(r, c)
    \/ CheckRead(r, c) \/ SubmitRead(r, c) \/ ParkRead(r, c)
    \/ CheckWrite(r, c) \/ SubmitWrite(r, c) \/ ParkWrite(r, c)
    \/ CheckFile(r, c) \/ SendFile(r, c) \/ SubmitWait(r, c) \/ ParkWait(r, c)
    \/ Close(r, c)

-----------------------------------------------------------------------------
(* The kernel, on behalf of the clients *)

(* Mutant: the overload of submit_sqe() that takes no ring index. *)
DefaultRing(c) == Ring0

(* The ring a connection's operations are submitted to. *)
IoRing(c) == ring[c]

(* A client connects, or the accept fails.  Closing the listener does not  *)
(* take back an accept that is already submitted.                          *)
CompleteAccept(r) ==
    /\ r \in submitted
    /\ submitted' = submitted \ {r}
    /\ \E c \in {d \in Conns : handler[d] = "none"} \cup {NoConn} :
        /\ completed' = [completed EXCEPT ![r] = @ \cup {<<r, c>>}]
        /\ handler' = IF c = NoConn THEN handler
                      ELSE [handler EXCEPT ![c] = "accepted"]
    /\ UNCHANGED <<appVars, loopVars, ring, served, after, active, late, lateFile>>

CompleteIo(c) ==
    /\ c \in submitted
    /\ submitted' = submitted \ {c}
    /\ completed' = [completed EXCEPT ![IoRing(c)] = @ \cup {c}]
    /\ UNCHANGED <<appVars, loopVars, connVars>>

-----------------------------------------------------------------------------
(* run() has returned and stop() or shutdown() too. *)
Finished == main = "returned" /\ control = "done" /\ UNCHANGED vars

(* What worker r does between two visits to its queue. *)
Execute(r) == FirstTest(r) \/ Accept(r) \/ \E c \in Conns : Handle(r, c)

Next ==
    \/ Main \/ Call \/ Control \/ Finished
    \/ \E r \in Rings :
          \/ Execute(r) \/ EndBatch(r) \/ CompleteAccept(r)
          \/ ResumeAcceptor(r) \/ \E c \in Conns : ResumeHandler(r, c)
    \/ \E c \in Conns : CompleteIo(c)

Safety == Init /\ [][Next]_vars

(* The worker is in a sendfile() that returns when the client reads. *)
Blocked(r) == ~multi /\ \E c \in Conns : Runs(r, c, "sendfile")

(***************************************************************************)
(* Every thread that can run is run.  A worker at its queue takes each     *)
(* completion in turn, and leaves the queue after 512 at the latest.       *)
(* Clients owe nothing: they may never connect, send or read, so a worker  *)
(* may be blocked in sendfile() for ever.                                  *)
(***************************************************************************)
Fairness ==
    /\ WF_vars(Main)
    /\ WF_vars(Control)
    /\ \A r \in Rings :
          /\ WF_vars(Execute(r) /\ ~Blocked(r))
          /\ SF_vars(EndBatch(r))
          /\ SF_vars(ResumeAcceptor(r))
          /\ \A c \in Conns : SF_vars(ResumeHandler(r, c))

Spec == Safety /\ Fairness

-----------------------------------------------------------------------------
(* Properties *)

TypeOK ==
    /\ main \in {"listen", "accept", "start", "join", "returned"}
    /\ control \in {"idle", "cancel", "close", "drain", "force", "stopLoop", "done"}
    /\ order \in {"none", "stop", "drain", "drainForce"}
    /\ multi \in BOOLEAN /\ cancelled \in BOOLEAN
    /\ stopped \in BOOLEAN /\ listening \in BOOLEAN
    /\ active \in Nat
    /\ worker \in [Rings -> {"off", "starting", "top", "poll", "accept", "handler", "exited"}]
    /\ current \in [Rings -> Conns \cup {NoConn}]
    /\ acceptor \in [Rings -> {"off", "loop", "error", "submit", "park", "parked",
                               "handing", "ended"}]
    /\ handler \in [Conns -> {"none", "accepted", "dropped", "closed"} \cup Executing \cup Parked]
    /\ ring \in [Conns -> Rings]
    /\ served \in [Conns -> 0..MaxRequests]
    /\ after \in [Conns -> {"loop", "close"}]
    /\ late \in [Conns -> Nat] /\ lateFile \in [Conns -> {0, 1}]
    /\ submitted \subseteq Rings \cup Conns
    /\ completed \in [Rings -> SUBSET (Conns \cup (Rings \X (Conns \cup {NoConn})))]

(* The connections whose coroutine is past its first line. *)
Counted == {c \in Conns : handler[c] \in (Executing \ {"begin"}) \cup Parked}

(***************************************************************************)
(* active_connections(), which shutdown() waits on, is the number of       *)
(* connection coroutines alive, whichever of its ways out each one takes   *)
(* and whichever threads run them.                                         *)
(***************************************************************************)
ActiveCountsHandlers == active = Cardinality(Counted)

(***************************************************************************)
(* No connection coroutine is lost or resumed twice.  One that is parked   *)
(* has exactly one operation, with the kernel or completed on its own      *)
(* ring.  One that executes is executed by the worker of its ring alone,   *)
(* so no completion is taken between the submission and the suspension     *)
(* (UringAwaiter stores the continuation only after the submission).       *)
(***************************************************************************)
NoHandlerLost ==
    \A c \in Conns :
        LET done == {r \in Rings : c \in completed[r]}
            asked == handler[c] \in Parked \cup {"readPark", "writePark", "filePark"}
        IN  /\ done = IF asked /\ c \notin submitted THEN {ring[c]} ELSE {}
            /\ c \in submitted => asked
            /\ handler[c] \in Executing <=>
                  worker[ring[c]] = "handler" /\ current[ring[c]] = c
            /\ \A r \in Rings \ {ring[c]} : current[r] # c

(***************************************************************************)
(* Once cancellation is requested a connection does at most one more       *)
(* thing, the one whose check of the token was already made: a read, a     *)
(* write, or the rest of a file.  Reads and writes are one submission.     *)
(* What is left of a file is sent to its end, and its waits for the socket *)
(* are not bounded, because async_transmit_file() looks at the token only  *)
(* before the first byte; so they count as one, and nothing comes before   *)
(* or after them.                                                          *)
(***************************************************************************)
OneLateOperation == \A c \in Conns : late[c] + lateFile[c] <= 1

(***************************************************************************)
(* run() returns after the loop was stopped, provided that cancellation    *)
(* was requested too (as stop() does) or that the rings accept by          *)
(* themselves, and that the stop came after the loop was started.  Without *)
(* either, the accept coroutine of App::run() never leaves its loop after  *)
(* shutdown() has closed the listener, and keeps the worker with it.       *)
(* Clients must read: a worker blocked in sendfile() for ever is never     *)
(* joined.                                                                 *)
(***************************************************************************)
ClientsRead == \A r \in Rings : []<>~Blocked(r)
LoopStopped == main = "join" /\ stopped /\ (cancelled \/ multi)
StopEndsRun == ClientsRead => (LoopStopped ~> main = "returned")

(***************************************************************************)
(* A connection whose operation has completed goes on, whatever the other  *)
(* connections of its ring do, as long as the loop is not stopped and its  *)
(* listener not closed, and no client leaves a worker in sendfile().       *)
(***************************************************************************)
MayGoOn(c) == handler[c] \in Parked /\ c \notin submitted
GoesOn(c) == handler[c] \notin Parked \/ stopped \/ (~multi /\ ~listening)
Responsive == ClientsRead => \A c \in Conns : MayGoOn(c) ~> GoesOn(c)

HandedOver == \E c \in Conns : handler[c] # "begin" /\ handler'[c] = "begin"

ListenerClosedByShutdown == order \in {"drain", "drainForce"} /\ control # "close"

(***************************************************************************)
(* What app.hpp says of shutdown(): it "stops accepting".  After the step  *)
(* that closes the listener no connection is handed to a handler.          *)
(***************************************************************************)
ShutdownStopsAccepting == [][ListenerClosedByShutdown => ~HandedOver]_vars
=============================================================================
