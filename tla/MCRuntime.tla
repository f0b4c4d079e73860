------------------------------ MODULE MCRuntime ------------------------------
(***************************************************************************)
(* The parts that every coroutine relies on: the cancellation token,       *)
(* tasks, and the event loops of Linux, macOS and Windows.  They share no  *)
(* state, so a behaviour is one of a single component; the others stay as  *)
(* they are initially.                                                     *)
(*                                                                         *)
(* Cancellation: two threads race to cancel while three register a         *)
(* callback each: enough for a loser of the race, a callback registered    *)
(* before it, one that sees the flag at once and one that sees it only     *)
(* under the lock.                                                         *)
(* Server: one ring that serves two connections.                           *)
(* Task: a child that suspends up to twice.                                *)
(* Kqueue: two workers; the accept coroutine and a connection's.           *)
(* Iocp: one worker and one callback, posted or timed.                     *)
(***************************************************************************)
EXTENDS Cancellation

CONSTANTS
    Rings, Ring0, Conn1, Conn2,
    NoConn, NoOne, NoCallback, Never   \* what is in none of the sets

VARIABLES
    component,
    main, multi, control, order, srv_cancelled, stopped, listening, active, worker, current,
    acceptor, handler, ring, served, after, submitted, completed, late,
    lateFile,
    mode, owner, frame, outcome, at, parks, ready, on_complete, finished, blocked, cv, dangling,
    kq_phase, kq_stopped, queue, pending, armed, kq_ready, batch, kq_at, on, co, kq_ops,
    io_phase, io_stopped, stopping, port, io_callbacks, posting, timers, noting, due, deadline,
    tm, wk, inKernel, io_ops, clock, expiry, io_runs

serverVars == <<main, multi, control, order, srv_cancelled, stopped, listening, active, worker,
    current, acceptor, handler, ring, served, after, submitted, completed, late,
    lateFile>>
taskVars == <<mode, owner, frame, outcome, at, parks, ready, on_complete, finished, blocked, cv,
    dangling>>
kqueueVars == <<kq_phase, kq_stopped, queue, pending, armed, kq_ready, batch, kq_at, on, co, kq_ops>>
iocpVars == <<io_phase, io_stopped, stopping, port, io_callbacks, posting, timers, noting, due,
    deadline, tm, wk, inKernel, io_ops, clock, expiry, io_runs>>

Conns == {Conn1, Conn2}
Workers == {"w1", "w2"}
Coros == {"accept", "conn"}

S == INSTANCE Server WITH MaxRequests <- 1, cancelled <- srv_cancelled
T == INSTANCE Task WITH Main <- "main", Loop <- "loop", MaxParks <- 2
K == INSTANCE Kqueue WITH Main <- "main", Acceptor <- "accept", MaxOps <- 2,
        Target <- [c \in Coros |-> IF c = "accept" THEN "listen" ELSE "read"],
        phase <- kq_phase, stopped <- kq_stopped, ready <- kq_ready, at <- kq_at, ops <- kq_ops
I == INSTANCE Iocp WITH Workers <- {"w1"}, Coros <- {}, Callbacks <- {"f"},
        MaxClock <- 1, MaxOps <- 1, phase <- io_phase, stopped <- io_stopped,
        callbacks <- io_callbacks, ops <- io_ops, runs <- io_runs

ASSUME RuntimeAssumption == T!TaskAssumption /\ K!KqueueAssumption /\ I!IocpAssumption

MCInit ==
    /\ component \in {"cancellation", "server", "task", "kqueue", "iocp"}
    /\ Init /\ S!Init /\ T!Init /\ K!Init /\ I!Init
    /\ component # "task" => mode = "sync_wait"

Only(c) == component = c /\ component' = c
InCancellation == Only("cancellation") /\ UNCHANGED <<serverVars, taskVars, kqueueVars, iocpVars>>
InServer == Only("server") /\ UNCHANGED <<vars, taskVars, kqueueVars, iocpVars>>
InTask == Only("task") /\ UNCHANGED <<vars, serverVars, kqueueVars, iocpVars>>
InKqueue == Only("kqueue") /\ UNCHANGED <<vars, serverVars, taskVars, iocpVars>>
InIocp == Only("iocp") /\ UNCHANGED <<vars, serverVars, taskVars, kqueueVars>>

MCNext ==
    \/ InCancellation /\ Next
    \/ InServer /\ S!Next
    \/ InTask /\ T!Next
    \/ InKqueue /\ K!Next
    \/ InIocp /\ I!Next

mcvars == <<component, vars, serverVars, taskVars, kqueueVars, iocpVars>>

(* The fairness of the components.                                         *)
MCFairness ==
    /\ \A t \in Cancellers : WF_mcvars(InCancellation /\ Cancel(t))
    /\ \A t \in Registrars : WF_mcvars(InCancellation /\ Register(t))
    /\ WF_mcvars(InServer /\ S!Main)
    /\ WF_mcvars(InServer /\ S!Control)
    /\ WF_mcvars(InServer /\ S!Execute(Ring0) /\ ~S!Blocked(Ring0))
    /\ SF_mcvars(InServer /\ S!EndBatch(Ring0))
    /\ SF_mcvars(InServer /\ S!ResumeAcceptor(Ring0))
    /\ \A c \in Conns : SF_mcvars(InServer /\ S!ResumeHandler(Ring0, c))
    /\ \A th \in {"main", "loop"} : WF_mcvars(InTask /\ T!Step(th))
    /\ WF_mcvars(InTask /\ T!Resume)
    /\ WF_mcvars(InTask /\ T!Owner)
    /\ \A w \in Workers : WF_mcvars(InKqueue /\ K!Worker(w))
    /\ WF_mcvars(InKqueue /\ K!MainThread)
    /\ WF_mcvars(InIocp /\ I!Timer) /\ WF_mcvars(InIocp /\ I!Tick)
    /\ WF_mcvars(InIocp /\ I!StopWakes) /\ WF_mcvars(InIocp /\ I!Owner)
    /\ WF_mcvars(InIocp /\ I!Worker("w1"))
    /\ WF_mcvars(InIocp /\ I!Wake("f")) /\ WF_mcvars(InIocp /\ I!NotifyTimer("f"))

MCSpec == MCInit /\ [][MCNext]_mcvars /\ MCFairness

-----------------------------------------------------------------------------
(* The properties of the instances; their modules say what they mean.      *)

(* kqueue: each operation is waited for in one place, so that no coroutine *)
(* is resumed twice.                                                       *)
WaitsInOnePlace == K!TypeOK /\ K!WaitsInOnePlace

(* sync_wait() has the task's outcome.                                     *)
SyncWaitHasOutcome == T!TypeOK /\ T!SyncWaitHasOutcome

(* The calls that wait return: App::run() once the loop is stopped,        *)
(* sync_wait() (and a task that is let go ends too), and the destructor of *)
(* IocpContext.  S!ClientsRead: no client leaves a worker in sendfile().   *)
CallBegun == S!LoopStopped \/ owner # "call" \/ io_phase = "stop"
CallDone == main = "returned" \/ T!AllDone \/ io_phase = "gone"
CallsReturn == S!ClientsRead => (CallBegun ~> CallDone)

(* Whatever waits for something that has happened goes on, unless the loop *)
(* stops: a connection for its completion, a coroutine for I/O that is     *)
(* possible, a callback for its time.                                      *)
Nth(i, first, second) == IF i = 1 THEN first ELSE second
MayGoOn(i) ==
    \/ component = "server" /\ S!MayGoOn(Nth(i, Conn1, Conn2))
    \/ component = "kqueue" /\ K!MayGoOn(Nth(i, "accept", "conn"))
    \/ component = "iocp" /\ I!MayGoOn("f")
GoesOn(i) ==
    \/ component = "server" /\ S!GoesOn(Nth(i, Conn1, Conn2))
    \/ component = "kqueue" /\ K!GoesOn(Nth(i, "accept", "conn"))
    \/ component = "iocp" /\ I!GoesOn("f")
EachGoesOn == S!ClientsRead => \A i \in {1, 2} : MayGoOn(i) ~> GoesOn(i)
=============================================================================
