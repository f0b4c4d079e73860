-------------------------------- MODULE Iocp --------------------------------
(***************************************************************************)
(* IocpContext (src/net/iocp/iocp_context.cpp): workers that take          *)
(* completions from one port, callbacks posted beside the port, and a      *)
(* thread that posts the callbacks of timers when they are due.  A resumed *)
(* coroutine runs to its next operation in one step.                       *)
(***************************************************************************)
EXTENDS Naturals, Sequences, FiniteSets

CONSTANTS
    Workers,    \* the threads run() starts
    Coros,      \* coroutines that do I/O
    Callbacks,  \* the callbacks of post() and schedule()
    NoCallback,
    Never,      \* the deadline of a wait without one
    MaxClock,   \* a bound: the ticks of the clock
    MaxOps      \* a bound: the operations of a coroutine

IocpAssumption ==
    /\ NoCallback \notin Callbacks /\ Never \notin Nat
    /\ MaxClock \in Nat /\ MaxOps \in Nat
    /\ IsFiniteSet(Workers) /\ IsFiniteSet(Callbacks)
    /\ "callback" \notin Coros /\ "stop" \notin Coros

VARIABLES
    phase,     \* of the owner: "start", "run", "returned", then ~IocpContext()
    stopped,   \* stopped_
    stopping,  \* a stop() has set the flag and not yet done the rest
    port,      \* completions queued at the port: a coroutine, "callback" or "stop"
    callbacks, \* callbacks_
    posting,   \* callbacks between their push and the wake-up of a worker
    timers,    \* timers_, as pairs of expiry and callback
    noting,    \* callbacks between their push into timers_ and the notification
    due,       \* the callback the timer thread holds
    deadline,  \* until when the timer thread waits
    tm,        \* where timer_thread_proc() is
    wk,        \* per worker: where worker_thread() is
    inKernel,  \* the coroutines whose operation is under way
    ops,       \* per coroutine: the operations it has begun
    clock,
    expiry,    \* (ghost) per callback: when it may run, Never before it is handed over
    runs       \* (ghost) per callback: how often it has run

vars == <<phase, stopped, stopping, port, callbacks, posting, timers, noting, due, deadline, tm,
          wk, inKernel, ops, clock, expiry, runs>>
timerVars == <<timers, noting, due, deadline, tm>>
ownerVars == <<phase, stopped, stopping>>
coroVars == <<inKernel, ops>>

TypeOK ==
    /\ phase \in {"start", "run", "returned", "stop", "lock", "notify", "join", "gone"}
    /\ stopped \in BOOLEAN /\ stopping \in BOOLEAN
    /\ port \in Seq(Coros \cup {"callback", "stop"})
    /\ callbacks \in Seq(Callbacks)
    /\ timers \subseteq Nat \X Callbacks
    /\ posting \subseteq Callbacks /\ noting \subseteq Callbacks
    /\ due \in Callbacks \cup {NoCallback}
    /\ deadline \in Nat \cup {Never}
    /\ tm \in {"test", "lock", "block", "wait", "post", "ended"}
    /\ wk \in [Workers -> {"off", "test", "get", "pop"}]
    /\ inKernel \subseteq Coros /\ ops \in [Coros -> 0..MaxOps]
    /\ clock \in 0..MaxClock
    /\ expiry \in [Callbacks -> Nat \cup {Never}] /\ runs \in [Callbacks -> Nat]

Init ==
    /\ phase = "start" /\ stopped = FALSE /\ stopping = FALSE
    /\ port = <<>> /\ callbacks = <<>> /\ posting = {}
    /\ timers = {} /\ noting = {} /\ due = NoCallback /\ deadline = Never /\ tm = "test"
    /\ wk = [w \in Workers |-> "off"]
    /\ inKernel = {} /\ ops = [c \in Coros |-> 0]
    /\ clock = 0
    /\ expiry = [f \in Callbacks |-> Never] /\ runs = [f \in Callbacks |-> 0]

Alive == phase \in {"start", "run"}

-----------------------------------------------------------------------------
(* post() and schedule(), called by any thread.                            *)

(* Mutant: the callback is pushed and nobody woken.                        *)
PostUnwoken(f) ==
    /\ Alive /\ expiry[f] = Never
    /\ callbacks' = Append(callbacks, f)
    /\ expiry' = [expiry EXCEPT ![f] = clock]
    /\ UNCHANGED <<ownerVars, timerVars, coroVars, posting, port, wk, clock, runs>>

(* The callback is pushed under callback_mutex_ ...                        *)
Post(f) ==
    /\ Alive /\ expiry[f] = Never
    /\ callbacks' = Append(callbacks, f)
    /\ posting' = posting \cup {f}
    /\ expiry' = [expiry EXCEPT ![f] = clock]
    /\ UNCHANGED <<ownerVars, timerVars, coroVars, port, wk, clock, runs>>

(* ... and then a worker is woken.                                         *)
Wake(f) ==
    /\ f \in posting
    /\ posting' = posting \ {f}
    /\ port' = Append(port, "callback")
    /\ UNCHANGED <<ownerVars, timerVars, coroVars, callbacks, wk, clock, expiry, runs>>

(* timer_mutex_ is held by the timer thread while it is about to block.    *)
Schedule(f, delay) ==
    /\ Alive /\ expiry[f] = Never /\ tm # "block"
    /\ clock + delay <= MaxClock
    /\ expiry' = [expiry EXCEPT ![f] = clock + delay]
    /\ timers' = timers \cup {<<clock + delay, f>>}
    /\ noting' = noting \cup {f}
    /\ UNCHANGED <<ownerVars, coroVars, port, callbacks, posting, due, deadline, tm, wk, clock, runs>>

Woken == IF tm = "wait" THEN "test" ELSE tm

NotifyTimer(f) ==
    /\ f \in noting
    /\ noting' = noting \ {f}
    /\ tm' = Woken
    /\ UNCHANGED <<ownerVars, coroVars, port, callbacks, posting, timers, due, deadline, wk, clock,
                   expiry, runs>>

-----------------------------------------------------------------------------
(* timer_thread_proc().                                                    *)

TimerTest ==
    /\ tm = "test"
    /\ tm' = IF stopped THEN "ended" ELSE "lock"
    /\ UNCHANGED <<ownerVars, coroVars, port, callbacks, posting, timers, noting, due, deadline,
                   wk, clock, expiry, runs>>

Earliest(t) == t \in timers /\ \A u \in timers : t[1] <= u[1]

(* Mutant: a timer fires a tick early.                                     *)
DueEarly(t) == t[1] <= clock + 1

Due(t) == t[1] <= clock

(* Under the lock: take a timer that is due, or decide to wait, for ever   *)
(* or until the earliest expiry.                                           *)
TimerLook ==
    /\ tm = "lock"
    /\ \/ /\ timers = {}
          /\ tm' = (IF stopped THEN "test" ELSE "block") /\ deadline' = Never
          /\ UNCHANGED <<timers, due>>
       \/ \E t \in timers :
            /\ Earliest(t)
            /\ IF Due(t)
               THEN timers' = timers \ {t} /\ due' = t[2] /\ tm' = "post" /\ UNCHANGED deadline
               ELSE tm' = "block" /\ deadline' = t[1] /\ UNCHANGED <<timers, due>>
    /\ UNCHANGED <<ownerVars, coroVars, port, callbacks, posting, noting, wk, clock, expiry, runs>>

TimerPost ==
    /\ tm = "post"
    /\ callbacks' = Append(callbacks, due)
    /\ posting' = posting \cup {due}
    /\ due' = NoCallback /\ tm' = "test"
    /\ UNCHANGED <<ownerVars, coroVars, port, timers, noting, deadline, wk, clock, expiry, runs>>

(* The wait gives up the lock; a notification that came before is lost.    *)
TimerBlock ==
    /\ tm = "block"
    /\ tm' = "wait"
    /\ UNCHANGED <<ownerVars, coroVars, port, callbacks, posting, timers, noting, due, deadline,
                   wk, clock, expiry, runs>>

TimerTimeout ==
    /\ tm = "wait" /\ deadline # Never /\ deadline <= clock
    /\ tm' = "test"
    /\ UNCHANGED <<ownerVars, coroVars, port, callbacks, posting, timers, noting, due, deadline,
                   wk, clock, expiry, runs>>

Timer == TimerTest \/ TimerLook \/ TimerPost \/ TimerBlock \/ TimerTimeout

Tick ==
    /\ clock < MaxClock
    /\ clock' = clock + 1
    /\ UNCHANGED <<ownerVars, timerVars, coroVars, port, callbacks, posting, wk, expiry, runs>>

-----------------------------------------------------------------------------
(* A worker.                                                               *)

Goto(w, l) == wk' = [wk EXCEPT ![w] = l]

WorkerTest(w) ==
    /\ wk[w] = "test"
    /\ Goto(w, IF stopped THEN "off" ELSE "get")
    /\ UNCHANGED <<ownerVars, timerVars, coroVars, port, callbacks, posting, clock, expiry, runs>>

(* GetQueuedCompletionStatus() times out after 100 ms.                     *)
GetNothing(w) ==
    /\ wk[w] = "get" /\ port = <<>>
    /\ Goto(w, "test")
    /\ UNCHANGED <<ownerVars, timerVars, coroVars, port, callbacks, posting, clock, expiry, runs>>

(* await_suspend(): the continuation is stored before the operation is     *)
(* begun.                                                                  *)
StartOperation(c) ==
    /\ ops[c] < MaxOps
    /\ inKernel' = inKernel \cup {c}
    /\ ops' = [ops EXCEPT ![c] = @ + 1]

(* A completion of an operation resumes its coroutine, which may begin     *)
(* another.                                                                *)
GetCompletion(w) ==
    /\ wk[w] = "get" /\ port # <<>>
    /\ port' = Tail(port)
    /\ Goto(w, IF Head(port) = "callback" THEN "pop" ELSE "test")
    /\ \/ UNCHANGED coroVars
       \/ Head(port) \in Coros /\ StartOperation(Head(port))
    /\ UNCHANGED <<ownerVars, timerVars, callbacks, posting, clock, expiry, runs>>

PopCallback(w) ==
    /\ wk[w] = "pop"
    /\ Goto(w, "test")
    /\ IF callbacks = <<>> THEN UNCHANGED <<callbacks, runs>>
       ELSE /\ callbacks' = Tail(callbacks)
            /\ runs' = [runs EXCEPT ![Head(callbacks)] = @ + 1]
    /\ UNCHANGED <<ownerVars, timerVars, coroVars, port, posting, clock, expiry>>

Worker(w) == WorkerTest(w) \/ GetNothing(w) \/ GetCompletion(w) \/ PopCallback(w)

(* A coroutine begins its first operation on the thread that starts it.    *)
Begin(c) ==
    /\ Alive /\ ops[c] = 0
    /\ StartOperation(c)
    /\ UNCHANGED <<ownerVars, timerVars, port, callbacks, posting, wk, clock, expiry, runs>>

(* The kernel.                                                             *)
Complete(c) ==
    /\ c \in inKernel
    /\ inKernel' = inKernel \ {c}
    /\ port' = Append(port, c)
    /\ UNCHANGED <<ownerVars, timerVars, ops, callbacks, posting, wk, clock, expiry, runs>>

-----------------------------------------------------------------------------
(* run(), stop() and the destructor.                                       *)

EnterRun ==
    /\ phase = "start"
    /\ phase' = "run" /\ stopped' = FALSE
    /\ wk' = [w \in Workers |-> "test"]
    /\ UNCHANGED <<timerVars, coroVars, stopping, port, callbacks, posting, clock, expiry, runs>>

Join ==
    /\ phase = "run" /\ \A w \in Workers : wk[w] = "off"
    /\ phase' = "returned"
    /\ UNCHANGED <<timerVars, coroVars, stopped, stopping, port, callbacks, posting, wk, clock,
                   expiry, runs>>

(* stop() sets the flag, without a lock ...                                *)
Stop ==
    /\ Alive /\ ~stopping /\ ~stopped
    /\ stopped' = TRUE /\ stopping' = TRUE
    /\ UNCHANGED <<timerVars, coroVars, phase, port, callbacks, posting, wk, clock, expiry, runs>>

Wakes == [i \in 1..Cardinality(Workers) |-> "stop"]

(* ... wakes the workers and notifies the timer thread.                    *)
StopWakes ==
    /\ stopping
    /\ stopping' = FALSE
    /\ port' = port \o Wakes
    /\ tm' = Woken
    /\ UNCHANGED <<coroVars, phase, stopped, callbacks, posting, timers, noting, due, deadline, wk,
                   clock, expiry, runs>>

(* ~IocpContext(): stop(), the workers have been joined, the port is       *)
(* closed, the flag is set again under the lock, then notified.            *)
Destroy ==
    /\ UNCHANGED <<coroVars, callbacks, posting, timers, noting, due, deadline, wk, clock, expiry, runs>>
    /\ \/ /\ phase = "returned" /\ ~stopping /\ posting = {} /\ noting = {}
          /\ phase' = "stop" /\ stopped' = TRUE
          /\ UNCHANGED <<stopping, port, tm>>
       \/ /\ phase = "stop" /\ phase' = "lock" /\ tm' = Woken
          /\ UNCHANGED <<stopped, stopping, port>>
       \/ /\ phase = "lock" /\ tm # "block"
          /\ phase' = "notify" /\ stopped' = TRUE
          /\ UNCHANGED <<stopping, port, tm>>
       \/ /\ phase = "notify" /\ phase' = "join" /\ tm' = Woken
          /\ UNCHANGED <<stopped, stopping, port>>
       \/ /\ phase = "join" /\ tm = "ended"
          /\ phase' = "gone"
          /\ UNCHANGED <<stopped, stopping, port, tm>>

Owner == EnterRun \/ Join \/ Destroy

Next ==
    \/ \E f \in Callbacks : Post(f) \/ Wake(f) \/ NotifyTimer(f) \/ \E d \in 0..MaxClock : Schedule(f, d)
    \/ Timer \/ Tick
    \/ \E w \in Workers : Worker(w)
    \/ \E c \in Coros : Begin(c) \/ Complete(c)
    \/ Stop \/ StopWakes \/ Owner
    \/ phase = "gone" /\ UNCHANGED vars

(* Threads run, time passes, and calls that have begun go on.              *)
Fairness ==
    /\ WF_vars(Timer) /\ WF_vars(Tick) /\ WF_vars(StopWakes) /\ WF_vars(Owner)
    /\ \A w \in Workers : WF_vars(Worker(w))
    /\ \A f \in Callbacks : WF_vars(Wake(f)) /\ WF_vars(NotifyTimer(f))

Spec == Init /\ [][Next]_vars /\ Fairness

-----------------------------------------------------------------------------
(* Each callback that waits has a wake-up under way for it: none is left   *)
(* in callbacks_ with every worker asleep, and no worker is woken for      *)
(* nothing.                                                                *)
EachCallbackWoken ==
    Len(callbacks) = Cardinality({i \in DOMAIN port : port[i] = "callback"})
                     + Cardinality(posting) + Cardinality({w \in Workers : wk[w] = "pop"})

(* A callback that has been handed over runs once, never before it is due, *)
(* and in the end, unless the loop stops.                                  *)
RunsOnceWhenDue ==
    [][\A f \in Callbacks :
        runs'[f] # runs[f] => runs[f] = 0 /\ expiry[f] # Never /\ expiry[f] <= clock]_vars

MayGoOn(f) == phase = "run" /\ expiry[f] # Never
GoesOn(f) == runs[f] > 0 \/ stopped \/ tm = "ended"
RunsInTheEnd == \A f \in Callbacks : MayGoOn(f) ~> GoesOn(f)

(* The destructor returns, although stop() may notify the timer thread     *)
(* between its test of the flag and its wait.                              *)
DestructorReturns == phase = "stop" ~> phase = "gone"
=============================================================================
