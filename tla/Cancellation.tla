---------------------------- MODULE Cancellation ----------------------------
(***************************************************************************)
(* detail::CancellationState (include/coroute/coro/cancellation.hpp): one  *)
(* shared flag, one mutex and one vector of callbacks, used at the same    *)
(* time by threads that call CancellationSource::cancel() and threads that *)
(* call CancellationToken::on_cancel().                                    *)
(*                                                                         *)
(* One step per atomic access or critical section.  A thread makes one     *)
(* call; a registering thread's callback is named after the thread.  The   *)
(* vector is the set of the callbacks it holds: the order in which they    *)
(* run is left open.  What a callback does is external and is one step.    *)
(***************************************************************************)
EXTENDS Naturals, FiniteSets

CONSTANTS
    Cancellers,   \* threads that call cancel()
    Registrars,   \* threads that call on_cancel(), and their callbacks
    NoThread      \* the owner of a mutex that is free

ASSUME ThreadAssumption ==
    /\ Cancellers \cap Registrars = {}
    /\ NoThread \notin Cancellers \cup Registrars

Threads == Cancellers \cup Registrars

VARIABLES
    cancelled,   \* cancelled_
    mutex,       \* the thread that holds mutex_
    callbacks,   \* callbacks_
    cbs,         \* cbs, the local vector of each cancel() call
    pc,          \* where each thread is
    runs         \* how often each callback has run

vars == <<cancelled, mutex, callbacks, cbs, pc, runs>>

CancelPcs == {"cas", "lock", "take", "run", "true", "false"}
RegisterPcs == {"check", "runNow", "lock", "recheck", "runLocked", "true", "false"}

TypeOK ==
    /\ cancelled \in BOOLEAN
    /\ mutex \in Threads \cup {NoThread}
    /\ callbacks \in SUBSET Registrars
    /\ cbs \in [Cancellers -> SUBSET Registrars]
    /\ pc \in [Threads -> CancelPcs \cup RegisterPcs]
    /\ \A t \in Cancellers : pc[t] \in CancelPcs
    /\ \A t \in Registrars : pc[t] \in RegisterPcs
    /\ runs \in [Registrars -> Nat]

Init ==
    /\ cancelled = FALSE
    /\ mutex = NoThread
    /\ callbacks = {}
    /\ cbs = [t \in Cancellers |-> {}]
    /\ pc = [t \in Threads |-> IF t \in Cancellers THEN "cas" ELSE "check"]
    /\ runs = [r \in Registrars |-> 0]

Goto(t, label) == pc' = [pc EXCEPT ![t] = label]

RunCallback(cb) == runs' = [runs EXCEPT ![cb] = @ + 1]

(* The lock_guard of either function: taken in one step, when it is free. *)
Lock(t, next) ==
    /\ pc[t] = "lock"
    /\ mutex = NoThread
    /\ mutex' = t
    /\ Goto(t, next)
    /\ UNCHANGED <<cancelled, callbacks, cbs, runs>>

-----------------------------------------------------------------------------
(* cancel() *)

(* Mutant: the flag is stored, not compared: every caller goes on. *)
StoreFlag(t) ==
    /\ pc[t] = "cas"
    /\ cancelled' = TRUE
    /\ Goto(t, "lock")
    /\ UNCHANGED <<mutex, callbacks, cbs, runs>>

CompareExchange(t) ==
    /\ pc[t] = "cas"
    /\ cancelled' = TRUE
    /\ Goto(t, IF cancelled THEN "false" ELSE "lock")
    /\ UNCHANGED <<mutex, callbacks, cbs, runs>>

(* Mutant: the vector is copied instead of moved. *)
CopyCallbacks(t) ==
    /\ pc[t] = "take"
    /\ cbs' = [cbs EXCEPT ![t] = callbacks]
    /\ mutex' = NoThread
    /\ Goto(t, "run")
    /\ UNCHANGED <<cancelled, callbacks, runs>>

TakeCallbacks(t) ==
    /\ pc[t] = "take"
    /\ cbs' = [cbs EXCEPT ![t] = callbacks]
    /\ callbacks' = {}
    /\ mutex' = NoThread
    /\ Goto(t, "run")
    /\ UNCHANGED <<cancelled, runs>>

RunNext(t) ==
    /\ pc[t] = "run"
    /\ \E cb \in cbs[t] :
          /\ RunCallback(cb)
          /\ cbs' = [cbs EXCEPT ![t] = @ \ {cb}]
    /\ UNCHANGED <<cancelled, mutex, callbacks, pc>>

ReturnTrue(t) ==
    /\ pc[t] = "run"
    /\ cbs[t] = {}
    /\ Goto(t, "true")
    /\ UNCHANGED <<cancelled, mutex, callbacks, cbs, runs>>

(* Mutant: cancel() enters the critical section of the other function. *)
EnterOtherSection(t) == Lock(t, "recheck")

CancelLock(t) == Lock(t, "take")

Cancel(t) ==
    \/ CompareExchange(t)
    \/ CancelLock(t)
    \/ TakeCallbacks(t)
    \/ RunNext(t)
    \/ ReturnTrue(t)

-----------------------------------------------------------------------------
(* register_callback() *)

CheckCancelled(t) ==
    /\ pc[t] = "check"
    /\ Goto(t, IF cancelled THEN "runNow" ELSE "lock")
    /\ UNCHANGED <<cancelled, mutex, callbacks, cbs, runs>>

(* Mutant: a late registration is refused without running the callback. *)
RefuseSilently(t) ==
    /\ pc[t] = "runNow"
    /\ Goto(t, "false")
    /\ UNCHANGED <<cancelled, mutex, callbacks, cbs, runs>>

RunImmediately(t) ==
    /\ pc[t] = "runNow"
    /\ RunCallback(t)
    /\ Goto(t, "false")
    /\ UNCHANGED <<cancelled, mutex, callbacks, cbs>>

RegisterLock(t) == Lock(t, "recheck")

PushCallback(t) ==
    /\ pc[t] = "recheck"
    /\ ~cancelled
    /\ callbacks' = callbacks \cup {t}
    /\ mutex' = NoThread
    /\ Goto(t, "true")
    /\ UNCHANGED <<cancelled, cbs, runs>>

RecheckCancelled(t) ==
    /\ pc[t] = "recheck"
    /\ cancelled
    /\ Goto(t, "runLocked")
    /\ UNCHANGED <<cancelled, mutex, callbacks, cbs, runs>>

(* The callback runs before the lock_guard goes out of scope. *)
RunUnderLock(t) ==
    /\ pc[t] = "runLocked"
    /\ RunCallback(t)
    /\ mutex' = NoThread
    /\ Goto(t, "false")
    /\ UNCHANGED <<cancelled, callbacks, cbs>>

Register(t) ==
    \/ CheckCancelled(t)
    \/ RunImmediately(t)
    \/ RegisterLock(t)
    \/ PushCallback(t)
    \/ RecheckCancelled(t)
    \/ RunUnderLock(t)

-----------------------------------------------------------------------------
Returned(t) == pc[t] \in {"true", "false"}

(* Every call has returned: nothing is left to do. *)
Finished == (\A t \in Threads : Returned(t)) /\ UNCHANGED vars

Next ==
    \/ \E t \in Cancellers : Cancel(t)
    \/ \E t \in Registrars : Register(t)
    \/ Finished

Safety == Init /\ [][Next]_vars

(* The operating system runs every thread that can run. *)
Fairness ==
    /\ \A t \in Cancellers : WF_vars(Cancel(t))
    /\ \A t \in Registrars : WF_vars(Register(t))

Spec == Safety /\ Fairness

-----------------------------------------------------------------------------
(* Properties *)

(* The cancel() call that won the compare-exchange. *)
Winner(t) == pc[t] \in {"lock", "take", "run", "true"}

Moved(r) == \E t \in Cancellers : r \in cbs[t]

(***************************************************************************)
(* A callback is in one place at a time and is never dropped: while        *)
(* register_callback() is deciding it has not run; if the call returned    *)
(* false it ran once, in that call; if it returned true it waits in        *)
(* callbacks_, or was moved to the winner's cbs, or has run once.  Nothing *)
(* waits in callbacks_ after the winner emptied it.                        *)
(***************************************************************************)
NoCallbackLost ==
    \A r \in Registrars :
        /\ r \in callbacks =>
              /\ pc[r] = "true" /\ runs[r] = 0 /\ ~Moved(r)
              /\ \A t \in Cancellers : pc[t] \notin {"run", "true"}
        /\ Moved(r) => pc[r] = "true" /\ runs[r] = 0
        /\ pc[r] \notin {"true", "false"} => runs[r] = 0
        /\ pc[r] = "false" => cancelled /\ runs[r] = 1
        /\ pc[r] = "true" => r \in callbacks \/ Moved(r) \/ runs[r] = 1

(***************************************************************************)
(* The one cancel() that returns true returns after every callback whose   *)
(* registration returned true has run: its caller may release what those   *)
(* callbacks use.  (A cancel() that returns false promises nothing.)       *)
(***************************************************************************)
CancelReturnsAfterCallbacks ==
    \A t \in Cancellers :
        pc[t] = "true" =>
            /\ \A u \in Cancellers \ {t} : ~Winner(u)
            /\ \A r \in Registrars : pc[r] = "true" => runs[r] = 1

(* The state and on_cancel() implement the promise of the token. *)
Promise == INSTANCE AbstractCancellation WITH
    Callbacks <- Registrars,
    requested <- cancelled,
    submitted <- {r \in Registrars : pc[r] # "check"},
    delivered <- {r \in Registrars : runs[r] > 0}

PromiseKept == Promise!AbsSpec
=============================================================================
