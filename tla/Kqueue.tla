------------------------------- MODULE Kqueue -------------------------------
(***************************************************************************)
(* KqueueContext (src/net/kqueue/kqueue_context.cpp): workers that share   *)
(* one kqueue.  A coroutine's registration waits in a buffer of the thread *)
(* it runs on until that thread calls kevent() again; any worker may then  *)
(* take its event, do the I/O and resume it.                               *)
(***************************************************************************)
EXTENDS Naturals, Sequences, FiniteSets

CONSTANTS
    Workers,   \* the threads run() starts
    Main,      \* the thread that calls App::run()
    Coros,     \* coroutines that do I/O
    Acceptor,  \* the one of them that accepts connections
    Target,    \* per coroutine: the descriptor and the filter it waits for
    NoOne,     \* no coroutine
    MaxOps     \* a bound: the operations of a coroutine

KqueueAssumption ==
    /\ Main \notin Workers /\ Acceptor \in Coros /\ NoOne \notin Coros
    /\ DOMAIN Target = Coros /\ MaxOps \in Nat

VARIABLES
    phase,     \* of the main thread: "start", "run" (in run()) or "returned"
    stopped,   \* stopped_
    queue,     \* callbacks_: a posted callback starts the coroutine it names
    pending,   \* per thread: pending_changes_
    armed,     \* per target: the udata of the kernel's knote
    ready,     \* the targets on which I/O is possible
    batch,     \* per worker: the events it has taken and not yet handled
    at,        \* per worker: where worker_thread() is
    on,        \* per thread: the coroutines on its stack, the running one first
    co,        \* per coroutine: its state
    ops        \* per coroutine: the operations it has begun

vars == <<phase, stopped, queue, pending, armed, ready, batch, at, on, co, ops>>

Threads == Workers \cup {Main}
Targets == {Target[c] : c \in Coros}

TypeOK ==
    /\ phase \in {"start", "run", "returned"} /\ stopped \in BOOLEAN
    /\ queue \in Seq(Coros)
    /\ pending \in [Threads -> Seq(Coros)]
    /\ armed \in [Targets -> Coros \cup {NoOne}]
    /\ ready \subseteq Targets
    /\ batch \in [Workers -> SUBSET Coros]
    /\ at \in [Workers -> {"test", "poll", "events", "callback", "ended"}]
    /\ on \in [Threads -> Seq(Coros)]
    /\ co \in [Coros -> {"new", "posted", "runs", "registered", "parked", "ended"}]
    /\ ops \in [Coros -> 0..MaxOps]

Init ==
    /\ phase = "start" /\ stopped = FALSE /\ queue = <<>>
    /\ pending = [th \in Threads |-> <<>>]
    /\ armed = [t \in Targets |-> NoOne]
    /\ ready = {}
    /\ batch = [w \in Workers |-> {}]
    /\ at = [w \in Workers |-> "ended"]
    /\ on = [th \in Threads |-> <<>>]
    /\ co = [c \in Coros |-> "new"]
    /\ ops = [c \in Coros |-> 0]

-----------------------------------------------------------------------------
(* Coroutines.                                                             *)

Runs(th, c) == on[th] # <<>> /\ Head(on[th]) = c /\ co[c] = "runs"
Begin(th, c) ==
    /\ co' = [co EXCEPT ![c] = "runs"]
    /\ on' = [on EXCEPT ![th] = <<c>> \o @]
Leave(th) == on' = [on EXCEPT ![th] = Tail(@)]

(* register_read_op(), register_write_op(), register_accept_op(): into the *)
(* buffer of the thread.                                                   *)
Register(th, c) ==
    /\ Runs(th, c) /\ ops[c] < MaxOps
    /\ pending' = [pending EXCEPT ![th] = Append(@, c)]
    /\ co' = [co EXCEPT ![c] = "registered"]
    /\ ops' = [ops EXCEPT ![c] = @ + 1]
    /\ UNCHANGED <<phase, stopped, queue, armed, ready, batch, at, on>>

(* KqueueAwaiter::await_suspend(): the continuation is stored.             *)
Suspend(th, c) ==
    /\ on[th] # <<>> /\ Head(on[th]) = c /\ co[c] = "registered"
    /\ co' = [co EXCEPT ![c] = "parked"]
    /\ Leave(th)
    /\ UNCHANGED <<phase, stopped, queue, pending, armed, ready, batch, at, ops>>

(* The accept coroutine starts a connection's: it runs until it suspends.  *)
Spawn(th, c) ==
    /\ Runs(th, Acceptor) /\ ops[Acceptor] > 0 /\ co[c] = "new"
    /\ Begin(th, c)
    /\ UNCHANGED <<phase, stopped, queue, pending, armed, ready, batch, at, ops>>

End(th, c) ==
    /\ Runs(th, c)
    /\ co' = [co EXCEPT ![c] = "ended"]
    /\ Leave(th)
    /\ UNCHANGED <<phase, stopped, queue, pending, armed, ready, batch, at, ops>>

Execute(th) ==
    \E c \in Coros : Register(th, c) \/ Suspend(th, c) \/ Spawn(th, c) \/ End(th, c)

-----------------------------------------------------------------------------
(* The main thread and others.                                             *)

(* App::run() starts the accept coroutine before it enters the loop ...    *)
StartAcceptor ==
    /\ phase = "start" /\ on[Main] = <<>> /\ co[Acceptor] = "new"
    /\ Begin(Main, Acceptor)
    /\ UNCHANGED <<phase, stopped, queue, pending, armed, ready, batch, at, ops>>

(* ... and run() starts the workers and joins them.                        *)
EnterRun ==
    /\ phase = "start" /\ on[Main] = <<>>
    /\ phase' = "run" /\ stopped' = FALSE
    /\ at' = [w \in Workers |-> "test"]
    /\ UNCHANGED <<queue, pending, armed, ready, batch, on, co, ops>>

Join ==
    /\ phase = "run" /\ \A w \in Workers : at[w] = "ended"
    /\ phase' = "returned"
    /\ UNCHANGED <<stopped, queue, pending, armed, ready, batch, at, on, co, ops>>

(* post(), also as the end of schedule()'s sleeping thread.                *)
Post(c) ==
    /\ co[c] = "new"
    /\ queue' = Append(queue, c)
    /\ co' = [co EXCEPT ![c] = "posted"]
    /\ UNCHANGED <<phase, stopped, pending, armed, ready, batch, at, on, ops>>

Stop ==
    /\ phase = "run" /\ ~stopped
    /\ stopped' = TRUE
    /\ UNCHANGED <<phase, queue, pending, armed, ready, batch, at, on, co, ops>>

(* The kernel: I/O becomes possible.                                       *)
BecomeReady(t) ==
    /\ t \notin ready
    /\ ready' = ready \cup {t}
    /\ UNCHANGED <<phase, stopped, queue, pending, armed, batch, at, on, co, ops>>

-----------------------------------------------------------------------------
(* A worker.                                                               *)

Goto(w, l) == at' = [at EXCEPT ![w] = l]

Test(w) ==
    /\ at[w] = "test" /\ on[w] = <<>>
    /\ Goto(w, IF stopped THEN "ended" ELSE "poll")
    /\ UNCHANGED <<phase, stopped, queue, pending, armed, ready, batch, on, co, ops>>

(* EV_ADD for a target that has a knote replaces its udata.                *)
Added(t, changes) ==
    LET adds == {i \in DOMAIN changes : Target[changes[i]] = t}
    IN  IF adds = {} THEN armed[t]
        ELSE changes[CHOOSE i \in adds : \A j \in adds : j <= i]

(* Mutant: without EV_ONESHOT the kernel keeps what it has reported.       *)
PollRepeatedly(w) ==
    /\ at[w] = "poll"
    /\ LET knotes == [t \in Targets |-> Added(t, pending[w])]
       IN  /\ batch' = [batch EXCEPT ![w] = {knotes[t] : t \in ready} \ {NoOne}]
           /\ armed' = knotes
    /\ pending' = [pending EXCEPT ![w] = <<>>]
    /\ Goto(w, "events")
    /\ UNCHANGED <<phase, stopped, queue, ready, on, co, ops>>

(* kevent(): submits the buffer and returns what is ready, EV_ONESHOT.     *)
Poll(w) ==
    /\ at[w] = "poll"
    /\ LET knotes == [t \in Targets |-> Added(t, pending[w])]
       IN  /\ batch' = [batch EXCEPT ![w] = {knotes[t] : t \in ready} \ {NoOne}]
           /\ armed' = [t \in Targets |-> IF t \in ready THEN NoOne ELSE knotes[t]]
    /\ pending' = [pending EXCEPT ![w] = <<>>]
    /\ Goto(w, "events")
    /\ UNCHANGED <<phase, stopped, queue, ready, on, co, ops>>

(* The I/O, after which there may or may not be more to do, and            *)
(* continuation.resume(), if a continuation has been stored.               *)
HandleEvent(w) ==
    /\ at[w] = "events" /\ on[w] = <<>>
    /\ \E c \in batch[w] :
        /\ batch' = [batch EXCEPT ![w] = @ \ {c}]
        /\ \E more \in SUBSET {Target[c]} : ready' = (ready \ {Target[c]}) \cup more
        /\ IF co[c] = "parked" THEN Begin(w, c) ELSE UNCHANGED <<co, on>>
    /\ UNCHANGED <<phase, stopped, queue, pending, armed, at, ops>>

EventsDone(w) ==
    /\ at[w] = "events" /\ on[w] = <<>> /\ batch[w] = {}
    /\ Goto(w, "callback")
    /\ UNCHANGED <<phase, stopped, queue, pending, armed, ready, batch, on, co, ops>>

(* process_callbacks(): at most one per iteration.                         *)
RunCallback(w) ==
    /\ at[w] = "callback"
    /\ Goto(w, "test")
    /\ IF queue = <<>> THEN UNCHANGED <<queue, co, on>>
       ELSE queue' = Tail(queue) /\ Begin(w, Head(queue))
    /\ UNCHANGED <<phase, stopped, pending, armed, ready, batch, ops>>

Worker(w) ==
    Test(w) \/ Poll(w) \/ HandleEvent(w) \/ EventsDone(w) \/ RunCallback(w) \/ Execute(w)

MainThread == StartAcceptor \/ Execute(Main) \/ EnterRun \/ Join

Next ==
    \/ \E w \in Workers : Worker(w)
    \/ MainThread
    \/ \E c \in Coros : Post(c)
    \/ Stop
    \/ \E t \in Targets : BecomeReady(t)
    \/ phase = "returned" /\ UNCHANGED vars

(* Threads run, and kevent() returns after 100 ms at the latest.           *)
Fairness == (\A w \in Workers : WF_vars(Worker(w))) /\ WF_vars(MainThread)

Spec == Init /\ [][Next]_vars /\ Fairness

-----------------------------------------------------------------------------
Buffered(th) == {pending[th][i] : i \in DOMAIN pending[th]}

(* No other coroutine waits for the same descriptor and filter.            *)
Alone(c) == \A d \in Coros \ {c} : Target[d] # Target[c]

(* A coroutine that waits for I/O is in one place: a thread's buffer, the  *)
(* kernel or the events of one worker; one that does not wait is in none.  *)
(* So no coroutine is resumed twice, although every worker may take its    *)
(* event and the continuation is stored after the registration.            *)
WaitsInOnePlace ==
    \A c \in Coros : Alone(c) =>
        Cardinality({th \in Threads : c \in Buffered(th)})
        + Cardinality({t \in Targets : armed[t] = c})
        + Cardinality({w \in Workers : c \in batch[w]})
        = IF co[c] \in {"registered", "parked"} THEN 1 ELSE 0

(* A coroutine that waits for I/O that is possible goes on, unless the     *)
(* loop stops.  What the main thread has registered is never submitted,    *)
(* and one of two that wait for the same target may wait for ever.         *)
MayGoOn(c) == Alone(c) /\ co[c] = "parked" /\ Target[c] \in ready /\ c \notin Buffered(Main)
GoesOn(c) == co[c] # "parked" \/ stopped
ReadyResumes == \A c \in Coros : MayGoOn(c) ~> GoesOn(c)

(* A client that has connected wakes the accept coroutine of App::run(),   *)
(* unless the loop stops.  The code does not keep this: the coroutine      *)
(* begins on the main thread, whose buffer nobody submits.                 *)
AcceptsConnections ==
    (phase = "run" /\ co[Acceptor] = "parked" /\ Target[Acceptor] \in ready)
        ~> (co[Acceptor] # "parked" \/ stopped)
=============================================================================
