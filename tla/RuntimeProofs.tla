--------------------------- MODULE RuntimeProofs ----------------------------
(***************************************************************************)
(* Cancellation, for every set of cancelling and registering threads: no   *)
(* callback is lost or runs twice, cancel() returns after the callbacks it *)
(* owes, and every step is a step of AbstractCancellation or a stutter.  The *)
(* invariant that is inductive adds to the two properties what keeps them  *)
(* true: who holds the mutex, that one cancel() wins, that nobody acts on a *)
(* cancellation that was not requested, and that only the winner while it  *)
(* runs the callbacks has any in its local vector.                         *)
(*                                                                         *)
(* Task, for any number of suspensions: sync_wait() returns an outcome,    *)
(* and what is used after it is destroyed is what sync_wait() destroyed.   *)
(***************************************************************************)
EXTENDS Cancellation, TLAPS

CONSTANTS Main, Loop, MaxParks      \* of Task

VARIABLES mode, owner, frame, outcome, at, parks, ready, on_complete, finished, blocked, cv,
    dangling

T == INSTANCE Task

-----------------------------------------------------------------------------
MutexOwner ==
    \A t \in Threads : mutex = t <=> pc[t] \in {"take", "recheck", "runLocked"}

OneWinner == \A t, u \in Cancellers : Winner(t) /\ Winner(u) => t = u

ActsOnRequest ==
    /\ \A t \in Cancellers : pc[t] # "cas" => cancelled
    /\ \A r \in Registrars : pc[r] \in {"runNow", "runLocked"} => cancelled

CallbacksInHand == \A t \in Cancellers : cbs[t] # {} => pc[t] = "run"

IInv ==
    /\ TypeOK
    /\ MutexOwner
    /\ OneWinner
    /\ ActsOnRequest
    /\ CallbacksInHand
    /\ NoCallbackLost

USE ThreadAssumption

(* No thread has called anything yet, so every part of IInv is immediate. *)
LEMMA InitInv == Init => IInv
  <1> SUFFICES ASSUME Init PROVE IInv
    OBVIOUS
  <1> USE DEF Init, Threads
  <1>1. TypeOK
    BY DEF TypeOK, CancelPcs, RegisterPcs
  <1>2. MutexOwner
    BY DEF MutexOwner
  <1>3. OneWinner
    BY DEF OneWinner, Winner
  <1>4. ActsOnRequest /\ CallbacksInHand
    BY DEF ActsOnRequest, CallbacksInHand
  <1>5. NoCallbackLost
    BY DEF NoCallbackLost, Moved
  <1> QED
    BY <1>1, <1>2, <1>3, <1>4, <1>5 DEF IInv

(* A step of a cancel() call keeps the invariant. *)
LEMMA CancelInv ==
    ASSUME IInv, NEW t \in Cancellers, Cancel(t)
    PROVE  IInv'
  <1> USE DEF IInv, TypeOK, CancelPcs, RegisterPcs, Threads, Goto
  <1>1. CASE CompareExchange(t)
    <2> USE <1>1 DEF CompareExchange
    <2>1. TypeOK' /\ MutexOwner'
      BY DEF MutexOwner
    <2>2. OneWinner'
      BY DEF OneWinner, Winner, ActsOnRequest
    <2>3. ActsOnRequest' /\ CallbacksInHand'
      BY DEF ActsOnRequest, CallbacksInHand
    <2>4. NoCallbackLost'
      BY DEF NoCallbackLost, Moved
    <2> QED
      BY <2>1, <2>2, <2>3, <2>4
  <1>2. CASE CancelLock(t)
    <2> USE <1>2 DEF CancelLock, Lock
    <2>1. TypeOK' /\ MutexOwner'
      BY DEF MutexOwner
    <2>2. OneWinner'
      BY DEF OneWinner, Winner
    <2>3. ActsOnRequest' /\ CallbacksInHand'
      BY DEF ActsOnRequest, CallbacksInHand
    <2>4. NoCallbackLost'
      BY DEF NoCallbackLost, Moved
    <2> QED
      BY <2>1, <2>2, <2>3, <2>4
  <1>3. CASE TakeCallbacks(t)
    <2> USE <1>3 DEF TakeCallbacks
    <2>1. TypeOK' /\ MutexOwner'
      BY DEF MutexOwner
    <2>2. OneWinner'
      BY DEF OneWinner, Winner
    <2>3. ActsOnRequest' /\ CallbacksInHand'
      BY DEF ActsOnRequest, CallbacksInHand
    <2>4. NoCallbackLost'
      (* Before the step nobody holds callbacks in hand: t is the winner *)
      (* and is not yet running any.                                     *)
      <3>1. \A u \in Cancellers : cbs[u] = {}
        BY DEF CallbacksInHand, OneWinner, Winner
      <3>2. \A r \in Registrars : Moved(r)' <=> r \in callbacks
        BY <3>1 DEF Moved
      <3> QED
        BY <3>1, <3>2 DEF NoCallbackLost, Moved
    <2> QED
      BY <2>1, <2>2, <2>3, <2>4
  <1>4. CASE RunNext(t)
    <2> USE <1>4 DEF RunNext, RunCallback
    <2>0. PICK cb \in cbs[t] :
             /\ runs' = [runs EXCEPT ![cb] = @ + 1]
             /\ cbs' = [cbs EXCEPT ![t] = @ \ {cb}]
      OBVIOUS
    <2>1. cb \in Registrars /\ Moved(cb)
      BY DEF Moved
    <2>2. TypeOK' /\ MutexOwner'
      BY <2>0, <2>1 DEF MutexOwner
    <2>3. OneWinner'
      BY DEF OneWinner, Winner
    <2>4. ActsOnRequest' /\ CallbacksInHand'
      BY <2>0 DEF ActsOnRequest, CallbacksInHand
    <2>5. NoCallbackLost'
      <3>1. \A u \in Cancellers : u # t => cbs[u] = {}
        BY DEF CallbacksInHand, OneWinner, Winner
      <3>2. \A r \in Registrars : Moved(r)' <=> (Moved(r) /\ r # cb)
        BY <2>0, <3>1 DEF Moved
      <3>3. runs[cb] = 0 /\ pc[cb] = "true" /\ cb \notin callbacks
        BY <2>1 DEF NoCallbackLost
      <3>4. \A r \in Registrars : runs'[r] = IF r = cb THEN 1 ELSE runs[r]
        BY <2>0, <2>1, <3>3
      <3> QED
        BY <2>1, <3>2, <3>3, <3>4 DEF NoCallbackLost
    <2> QED
      BY <2>2, <2>3, <2>4, <2>5
  <1>5. CASE ReturnTrue(t)
    <2> USE <1>5 DEF ReturnTrue
    <2>1. TypeOK' /\ MutexOwner'
      BY DEF MutexOwner
    <2>2. OneWinner'
      BY DEF OneWinner, Winner
    <2>3. ActsOnRequest' /\ CallbacksInHand'
      BY DEF ActsOnRequest, CallbacksInHand
    <2>4. NoCallbackLost'
      BY DEF NoCallbackLost, Moved
    <2> QED
      BY <2>1, <2>2, <2>3, <2>4
  <1> QED
    BY <1>1, <1>2, <1>3, <1>4, <1>5 DEF Cancel

(* A step of an on_cancel() call keeps the invariant. *)
LEMMA RegisterInv ==
    ASSUME IInv, NEW t \in Registrars, Register(t)
    PROVE  IInv'
  <1> USE DEF IInv, TypeOK, CancelPcs, RegisterPcs, Threads, Goto
  <1>1. OneWinner'
    BY DEF OneWinner, Winner, Register, CheckCancelled, RunImmediately,
           RegisterLock, Lock, PushCallback, RecheckCancelled, RunUnderLock
  <1>2. CallbacksInHand'
    BY DEF CallbacksInHand, Register, CheckCancelled, RunImmediately,
           RegisterLock, Lock, PushCallback, RecheckCancelled, RunUnderLock
  <1>3. CASE CheckCancelled(t)
    <2> USE <1>3 DEF CheckCancelled
    <2>1. TypeOK' /\ MutexOwner'
      BY DEF MutexOwner
    <2>2. ActsOnRequest'
      BY DEF ActsOnRequest
    <2>3. NoCallbackLost'
      BY DEF NoCallbackLost, Moved
    <2> QED
      BY <1>1, <1>2, <2>1, <2>2, <2>3
  <1>4. CASE RunImmediately(t)
    <2> USE <1>4 DEF RunImmediately, RunCallback
    <2>1. TypeOK' /\ MutexOwner'
      BY DEF MutexOwner
    <2>2. ActsOnRequest'
      BY DEF ActsOnRequest
    <2>3. NoCallbackLost'
      BY <2>2 DEF NoCallbackLost, Moved, ActsOnRequest
    <2> QED
      BY <1>1, <1>2, <2>1, <2>2, <2>3
  <1>5. CASE RegisterLock(t)
    <2> USE <1>5 DEF RegisterLock, Lock
    <2>1. TypeOK' /\ MutexOwner'
      BY DEF MutexOwner
    <2>2. ActsOnRequest'
      BY DEF ActsOnRequest
    <2>3. NoCallbackLost'
      BY DEF NoCallbackLost, Moved
    <2> QED
      BY <1>1, <1>2, <2>1, <2>2, <2>3
  <1>6. CASE PushCallback(t)
    <2> USE <1>6 DEF PushCallback
    <2>1. TypeOK' /\ MutexOwner'
      BY DEF MutexOwner
    <2>2. ActsOnRequest'
      BY DEF ActsOnRequest
    <2>3. NoCallbackLost'
      (* Cancellation has not been requested, so no winner has emptied *)
      (* callbacks_ yet.                                               *)
      <3>1. \A u \in Cancellers : pc[u] = "cas"
        BY DEF ActsOnRequest
      <3> QED
        BY <3>1 DEF NoCallbackLost, Moved
    <2> QED
      BY <1>1, <1>2, <2>1, <2>2, <2>3
  <1>7. CASE RecheckCancelled(t)
    <2> USE <1>7 DEF RecheckCancelled
    <2>1. TypeOK' /\ MutexOwner'
      BY DEF MutexOwner
    <2>2. ActsOnRequest'
      BY DEF ActsOnRequest
    <2>3. NoCallbackLost'
      BY DEF NoCallbackLost, Moved
    <2> QED
      BY <1>1, <1>2, <2>1, <2>2, <2>3
  <1>8. CASE RunUnderLock(t)
    <2> USE <1>8 DEF RunUnderLock, RunCallback
    <2>1. TypeOK' /\ MutexOwner'
      BY DEF MutexOwner
    <2>2. ActsOnRequest'
      BY DEF ActsOnRequest
    <2>3. NoCallbackLost'
      BY DEF NoCallbackLost, Moved, ActsOnRequest
    <2> QED
      BY <1>1, <1>2, <2>1, <2>2, <2>3
  <1> QED
    BY <1>3, <1>4, <1>5, <1>6, <1>7, <1>8 DEF Register

LEMMA NextInv == IInv /\ [Next]_vars => IInv'
  <1> SUFFICES ASSUME IInv, [Next]_vars PROVE IInv'
    OBVIOUS
  <1>1. ASSUME NEW t \in Cancellers, Cancel(t) PROVE IInv'
    BY <1>1, CancelInv
  <1>2. ASSUME NEW t \in Registrars, Register(t) PROVE IInv'
    BY <1>2, RegisterInv
  <1>3. CASE UNCHANGED vars
    BY <1>3 DEF vars, IInv, TypeOK, MutexOwner, OneWinner, Winner,
                ActsOnRequest, CallbacksInHand, NoCallbackLost, Moved
  <1> QED
    BY <1>1, <1>2, <1>3 DEF Next, Finished

(* At every moment of every execution IInv holds. *)
THEOREM Invariance == Spec => []IInv
  BY InitInv, NextInv, PTL DEF Spec, Safety

(* Type correctness of CancellationState. *)
THEOREM TypeCorrect == Spec => []TypeOK
  BY Invariance, PTL DEF IInv

(* No callback is lost or runs twice, whatever the interleaving of cancel() *)
(* and register_callback().                                                 *)
THEOREM CallbacksAccounted == Spec => []NoCallbackLost
  BY Invariance, PTL DEF IInv

(* cancel() that returns true has run everything that was registered. *)
THEOREM CancelSynchronous == Spec => []CancelReturnsAfterCallbacks
  <1>1. IInv => CancelReturnsAfterCallbacks
    <2> SUFFICES ASSUME IInv, NEW t \in Cancellers, pc[t] = "true"
                 PROVE  /\ \A u \in Cancellers \ {t} : ~Winner(u)
                        /\ \A r \in Registrars : pc[r] = "true" => runs[r] = 1
      BY DEF CancelReturnsAfterCallbacks
    <2>1. \A u \in Cancellers \ {t} : ~Winner(u)
      BY DEF IInv, OneWinner, Winner
    <2>2. \A r \in Registrars : ~Moved(r)
      BY <2>1 DEF IInv, CallbacksInHand, Moved, Winner
    <2> QED
      BY <2>1, <2>2 DEF IInv, NoCallbackLost
  <1> QED
    BY <1>1, Invariance, PTL

(* Each step of the code is a Request, Submit or Deliver step of the *)
(* abstract token, or changes nothing the token shows.               *)
THEOREM ImplementsPromise == Spec => Promise!AbsSafety
  <1>1. Init => Promise!AbsInit
    BY DEF Init, Threads, Promise!AbsInit
  <1>2. ASSUME IInv, [Next]_vars
        PROVE  [Promise!AbsNext]_Promise!absVars
    <2> USE <1>2 DEF IInv, TypeOK, Threads, Goto, Promise!AbsNext, Promise!absVars
    <2>1. ASSUME NEW t \in Cancellers, Cancel(t)
          PROVE  Promise!Request \/ (\E r \in Registrars : Promise!Deliver(r))
                   \/ UNCHANGED Promise!absVars
      <3>1. {r \in Registrars : pc'[r] # "check"} = {r \in Registrars : pc[r] # "check"}
        BY <2>1 DEF Cancel, CompareExchange, CancelLock, Lock, TakeCallbacks,
                    RunNext, ReturnTrue
      <3>2. CASE CompareExchange(t)
        BY <3>1, <3>2 DEF CompareExchange, Promise!Request
      <3>3. CASE CancelLock(t) \/ TakeCallbacks(t) \/ ReturnTrue(t)
        BY <3>1, <3>3 DEF CancelLock, Lock, TakeCallbacks, ReturnTrue
      <3>4. CASE RunNext(t)
        <4>1. PICK cb \in cbs[t] : runs' = [runs EXCEPT ![cb] = @ + 1]
          BY <3>4 DEF RunNext, RunCallback
        <4>2. cb \in Registrars /\ runs[cb] = 0 /\ pc[cb] = "true" /\ cancelled
          BY <3>4 DEF NoCallbackLost, Moved, ActsOnRequest, RunNext
        <4>3. {r \in Registrars : runs'[r] > 0} = {r \in Registrars : runs[r] > 0} \cup {cb}
          BY <4>1, <4>2
        <4>4. Promise!Deliver(cb)
          BY <3>1, <3>4, <4>2, <4>3 DEF Promise!Deliver, RunNext
        <4> QED
          BY <4>2, <4>4
      <3> QED
        BY <2>1, <3>2, <3>3, <3>4 DEF Cancel
    <2>2. ASSUME NEW t \in Registrars, Register(t)
          PROVE  Promise!Submit(t) \/ Promise!Deliver(t) \/ UNCHANGED Promise!absVars
      <3> USE <2>2
      <3>1. CASE CheckCancelled(t)
        <4>1. {r \in Registrars : pc'[r] # "check"}
                = {r \in Registrars : pc[r] # "check"} \cup {t}
          BY <3>1 DEF CheckCancelled
        <4> QED
          BY <3>1, <4>1 DEF CheckCancelled, Promise!Submit
      <3>2. CASE RunImmediately(t) \/ RunUnderLock(t)
        <4>1. runs[t] = 0 /\ cancelled /\ pc[t] # "check"
          BY <3>2 DEF RunImmediately, RunUnderLock, NoCallbackLost, ActsOnRequest
        <4>2. /\ runs' = [runs EXCEPT ![t] = @ + 1]
              /\ pc' = [pc EXCEPT ![t] = "false"]
              /\ cancelled' = cancelled
          BY <3>2 DEF RunImmediately, RunUnderLock, RunCallback
        <4>3. {r \in Registrars : runs'[r] > 0} = {r \in Registrars : runs[r] > 0} \cup {t}
          BY <4>1, <4>2
        <4>4. {r \in Registrars : pc'[r] # "check"} = {r \in Registrars : pc[r] # "check"}
          BY <4>1, <4>2
        <4>5. Promise!Deliver(t)
          BY <4>1, <4>2, <4>3, <4>4 DEF Promise!Deliver
        <4> QED
          BY <4>5
      <3>3. CASE RegisterLock(t) \/ PushCallback(t) \/ RecheckCancelled(t)
        <4>1. {r \in Registrars : pc'[r] # "check"} = {r \in Registrars : pc[r] # "check"}
          BY <3>3 DEF RegisterLock, Lock, PushCallback, RecheckCancelled
        <4> QED
          BY <3>3, <4>1 DEF RegisterLock, Lock, PushCallback, RecheckCancelled
      <3> QED
        BY <2>2, <3>1, <3>2, <3>3 DEF Register
    <2>3. CASE UNCHANGED vars
      BY <2>3 DEF vars
    <2> QED
      BY <1>2, <2>1, <2>2, <2>3 DEF Next, Finished
  <1> QED
    BY <1>1, <1>2, Invariance, PTL DEF Spec, Safety, Promise!AbsSafety

-----------------------------------------------------------------------------
(* Tasks.  The chain of the two coroutines goes on in one place at a time, *)
(* what the owner waits for is set by the root when it has its outcome, and *)
(* the owner of sync_wait() destroys nothing before it returns.            *)

(* The chain of the two tasks goes on in one place: before its start, on   *)
(* one of the threads, or in the event loop.                               *)
OneStrand ==
    /\ \A th, u \in T!Threads : at[th] # T!Idle /\ at[u] # T!Idle => th = u
    /\ ready \/ owner = "call" => \A th \in T!Threads : at[th] = T!Idle
    /\ ready => owner # "call"

(* How far the tasks are, by where the chain is.                           *)
TaskOutcomes ==
    /\ owner = "call" => frame["child"] = "created" /\ outcome["root"] = "none"
    /\ outcome["child"] = "none" <=> frame["child"] \in {"created", "live"}
    /\ ready => frame["child"] = "live" /\ outcome["root"] = "none"
    /\ \A th \in T!Threads :
         /\ at[th].task = "child" =>
              /\ outcome["root"] = "none"
              /\ frame["child"] = IF at[th].step = "body" THEN "live" ELSE "final"
              /\ at[th].step # "notify"
         /\ at[th] = T!Exec("root", "body") =>
              outcome["root"] = "none" /\ frame["child"] \in {"created", "final"}
         /\ at[th].task = "root" /\ at[th].step # "body" => outcome["root"] # "none"
    /\ outcome["root"] # "none" => outcome["root"] = outcome["child"]

(* The flag is set by the root, and nothing else lets the owner pass.      *)
TaskFlagged ==
    /\ finished => outcome["root"] # "none"
    /\ mode = "sync_wait" /\ owner \in {"clear", "done"} => finished

(* What the owner destroys, and when.                                      *)
TaskAlive ==
    /\ owner \in {"wait", "clear"} => mode = "sync_wait"
    /\ on_complete => mode = "sync_wait"
    /\ \A th \in T!Threads :
         at[th] = T!Exec("root", "notify") => mode = "sync_wait"
    /\ mode = "sync_wait" /\ owner \notin {"call", "done"} => cv
    /\ mode = "sync_wait" /\ owner # "done" => frame["root"] # "destroyed"
    /\ \A th \in T!Threads :
         mode = "start_detached" /\ at[th] # T!Idle => frame["root"] # "destroyed"
    /\ mode = "start_detached" /\ ready => frame["root"] # "destroyed"

(* What is used after it is destroyed is what sync_wait() destroyed when   *)
(* it returned.                                                            *)
DanglesAfterReturn == dangling => mode = "sync_wait" /\ owner = "done"

TaskIInv == T!TypeOK /\ OneStrand /\ TaskOutcomes /\ TaskFlagged /\ TaskAlive /\ DanglesAfterReturn

LEMMA TaskSteps ==
    /\ \A t, s : T!Exec(t, s).task = t /\ T!Exec(t, s).step = s
    /\ T!Idle.task = "none" /\ T!Idle.step = "idle"
    /\ \A t \in T!Tasks : \A s : T!Exec(t, s) # T!Idle
    /\ \A t, s, q, r : T!Exec(t, s) = T!Exec(q, r) <=> t = q /\ s = r
    /\ \A t \in T!Tasks : \A s \in {"body", "on_complete", "notify", "detached"} :
         T!Exec(t, s) \in [task : T!Tasks, step : {"body", "on_complete", "notify", "detached"}]
    /\ Main \in T!Threads /\ Loop \in T!Threads
  BY DEF T!Exec, T!Idle, T!Tasks, T!Threads

LEMMA TaskInitInv ==
    ASSUME T!TaskAssumption
    PROVE  T!Init => TaskIInv
<1> SUFFICES ASSUME T!Init PROVE TaskIInv
  OBVIOUS
<1> USE DEF T!Init
<1>1. T!TypeOK
  <2>1. parks \in 0 .. MaxParks
    BY DEF T!TaskAssumption
  <2> QED
    BY <2>1 DEF T!TypeOK, T!Tasks
<1>2. OneStrand
  BY DEF OneStrand
<1>3. TaskOutcomes
  <2>1. \A th \in T!Threads : 
             at[th] = T!Idle /\ at[th].task = "none" /\ at[th] # T!Exec("root", "body")
    BY TaskSteps DEF T!Tasks
  <2>2. /\ frame["child"] = "created" /\ ~ready
        /\ outcome["child"] = "none" /\ outcome["root"] = "none"
    BY DEF T!Tasks
  <2> QED
    BY <2>1, <2>2 DEF TaskOutcomes
<1>4. TaskFlagged
  BY DEF TaskFlagged
<1>5. TaskAlive
  BY TaskSteps DEF TaskAlive, T!Tasks
<1> QED
  BY <1>1, <1>2, <1>3, <1>4, <1>5 DEF TaskIInv, DanglesAfterReturn

LEMMA TaskAwaitChildInv ==
    ASSUME T!TaskAssumption, TaskIInv, NEW th \in T!Threads, T!AwaitChild(th)
    PROVE  TaskIInv'
<1>0. T!TypeOK /\ OneStrand /\ TaskOutcomes /\ TaskFlagged /\ TaskAlive /\ DanglesAfterReturn
  BY DEF TaskIInv
<1>1. /\ at[th] = T!Exec("root", "body") /\ frame["child"] = "created"
      /\ frame' = [frame EXCEPT !["child"] = "live"]
      /\ at' = [at EXCEPT ![th] = T!Exec("child", "body")]
      /\ UNCHANGED <<mode, owner, outcome, parks, ready, on_complete, finished, blocked, cv,
                     dangling>>
  BY DEF T!AwaitChild
<1>2. /\ at'[th] = T!Exec("child", "body")
      /\ \A u \in T!Threads \ {th} : at'[u] = at[u] /\ at[u] = T!Idle
      /\ frame'["child"] = "live" /\ frame'["root"] = frame["root"]
  BY <1>0, <1>1, TaskSteps DEF T!TypeOK, OneStrand, T!Tasks
<1>3. T!TypeOK'
  BY <1>0, <1>1 DEF T!TypeOK, T!Tasks, T!Exec
<1>4. OneStrand'
  BY <1>0, <1>1, <1>2, TaskSteps DEF OneStrand, T!Tasks
<1>5. TaskOutcomes'
  BY <1>0, <1>1, <1>2, TaskSteps DEF TaskOutcomes, OneStrand, T!Tasks
<1>6. TaskFlagged'
  BY <1>0, <1>1 DEF TaskFlagged
<1>7. TaskAlive'
  BY <1>0, <1>1, <1>2, TaskSteps DEF TaskAlive, T!Tasks
<1>8. DanglesAfterReturn'
  BY <1>0, <1>1 DEF DanglesAfterReturn
<1> QED
  BY <1>3, <1>4, <1>5, <1>6, <1>7, <1>8 DEF TaskIInv

LEMMA TaskParkInv ==
    ASSUME T!TaskAssumption, TaskIInv, NEW th \in T!Threads, T!Park(th)
    PROVE  TaskIInv'
<1>0. T!TypeOK /\ OneStrand /\ TaskOutcomes /\ TaskFlagged /\ TaskAlive /\ DanglesAfterReturn
  BY DEF TaskIInv
<1>1. /\ at[th] = T!Exec("child", "body") /\ parks < MaxParks
      /\ parks' = parks + 1
      /\ at' = [at EXCEPT ![th] = T!Idle]
      /\ ready' = TRUE
      /\ UNCHANGED <<mode, owner, frame, outcome, on_complete, finished, blocked, cv, dangling>>
  BY DEF T!Park
<1>2. \A u \in T!Threads : at'[u] = T!Idle
  BY <1>0, <1>1, TaskSteps DEF T!TypeOK, OneStrand, T!Tasks, TaskOutcomes
<1>3. T!TypeOK'
  <2>1. parks' \in 0 .. MaxParks
    BY <1>0, <1>1 DEF T!TypeOK, T!TaskAssumption
  <2>2. at' \in [T!Threads -> {T!Idle} \cup
                  [task : T!Tasks, step : {"body", "on_complete", "notify", "detached"}]]
    BY <1>0, <1>1 DEF T!TypeOK
  <2> QED
    BY <1>0, <1>1, <2>1, <2>2 DEF T!TypeOK
<1>4. OneStrand'
  BY <1>0, <1>1, <1>2, TaskSteps DEF OneStrand, T!Tasks
<1>5. TaskOutcomes'
  BY <1>0, <1>1, <1>2, TaskSteps DEF TaskOutcomes, OneStrand, T!Tasks
<1>6. TaskFlagged'
  BY <1>0, <1>1, <1>2, TaskSteps DEF TaskFlagged, TaskOutcomes, T!Tasks
<1>7. TaskAlive'
  BY <1>0, <1>1, <1>2, TaskSteps DEF TaskAlive, T!Tasks
<1>8. DanglesAfterReturn'
  BY <1>0, <1>1, <1>2, TaskSteps DEF DanglesAfterReturn, TaskAlive, TaskOutcomes, T!Tasks
<1> QED
  BY <1>3, <1>4, <1>5, <1>6, <1>7, <1>8 DEF TaskIInv

LEMMA TaskResumeInv ==
    ASSUME T!TaskAssumption, TaskIInv, T!Resume
    PROVE  TaskIInv'
<1>0. T!TypeOK /\ OneStrand /\ TaskOutcomes /\ TaskFlagged /\ TaskAlive /\ DanglesAfterReturn
  BY DEF TaskIInv
<1>1. /\ at[Loop] = T!Idle /\ ready
      /\ ready' = FALSE
      /\ at' = [at EXCEPT ![Loop] = T!Exec("child", "body")]
      /\ UNCHANGED <<mode, owner, frame, outcome, parks, on_complete, finished, blocked, cv,
                     dangling>>
  BY DEF T!Resume
<1>2. /\ Loop \in T!Threads /\ at'[Loop] = T!Exec("child", "body")
      /\ \A u \in T!Threads \ {Loop} : at'[u] = at[u] /\ at[u] = T!Idle
  BY <1>0, <1>1, TaskSteps DEF T!TypeOK, OneStrand, T!Tasks, TaskOutcomes
<1>3. T!TypeOK'
  BY <1>0, <1>1, TaskSteps DEF T!TypeOK, T!Tasks
<1>4. OneStrand'
  BY <1>0, <1>1, <1>2, TaskSteps DEF OneStrand, T!Tasks
<1>5. TaskOutcomes'
  BY <1>0, <1>1, <1>2, TaskSteps DEF TaskOutcomes, OneStrand, T!Tasks
<1>6. TaskFlagged'
  BY <1>0, <1>1, <1>2, TaskSteps DEF TaskFlagged, TaskOutcomes, T!Tasks
<1>7. TaskAlive'
  BY <1>0, <1>1, <1>2, TaskSteps DEF TaskAlive, T!Tasks
<1>8. DanglesAfterReturn'
  BY <1>0, <1>1, <1>2, TaskSteps DEF DanglesAfterReturn, TaskAlive, TaskOutcomes, T!Tasks
<1> QED
  BY <1>3, <1>4, <1>5, <1>6, <1>7, <1>8 DEF TaskIInv

LEMMA TaskChildReturnsInv ==
    ASSUME T!TaskAssumption, TaskIInv, NEW th \in T!Threads, T!ChildReturns(th)
    PROVE  TaskIInv'
<1>0. T!TypeOK /\ OneStrand /\ TaskOutcomes /\ TaskFlagged /\ TaskAlive /\ DanglesAfterReturn
  BY DEF TaskIInv
<1>1. /\ at[th] = T!Exec("child", "body")
      /\ \E r \in {"value", "exception"} : outcome' = [outcome EXCEPT !["child"] = r]
      /\ frame' = [frame EXCEPT !["child"] = "final"]
      /\ at' = [at EXCEPT ![th] = T!Exec("child", "on_complete")]
      /\ UNCHANGED <<mode, owner, parks, ready, on_complete, finished, blocked, cv, dangling>>
  BY DEF T!ChildReturns
<1>2. /\ at'[th] = T!Exec("child", "on_complete")
      /\ \A u \in T!Threads \ {th} : at'[u] = at[u] /\ at[u] = T!Idle
      /\ outcome'["child"] # "none" /\ outcome'["root"] = outcome["root"]
      /\ frame'["child"] = "final" /\ frame'["root"] = frame["root"]
  BY <1>0, <1>1, TaskSteps DEF T!TypeOK, OneStrand, T!Tasks, TaskOutcomes
<1>3. T!TypeOK'
  BY <1>0, <1>1, TaskSteps DEF T!TypeOK, T!Tasks
<1>4. OneStrand'
  BY <1>0, <1>1, <1>2, TaskSteps DEF OneStrand, T!Tasks
<1>5. TaskOutcomes'
  BY <1>0, <1>1, <1>2, TaskSteps DEF TaskOutcomes, OneStrand, T!Tasks
<1>6. TaskFlagged'
  BY <1>0, <1>1, <1>2, TaskSteps DEF TaskFlagged, TaskOutcomes, T!Tasks
<1>7. TaskAlive'
  BY <1>0, <1>1, <1>2, TaskSteps DEF TaskAlive, T!Tasks
<1>8. DanglesAfterReturn'
  BY <1>0, <1>1, <1>2, TaskSteps DEF DanglesAfterReturn, TaskAlive, TaskOutcomes, T!Tasks
<1> QED
  BY <1>3, <1>4, <1>5, <1>6, <1>7, <1>8 DEF TaskIInv

LEMMA TaskRootReturnsInv ==
    ASSUME T!TaskAssumption, TaskIInv, NEW th \in T!Threads, T!RootReturns(th)
    PROVE  TaskIInv'
<1>0. T!TypeOK /\ OneStrand /\ TaskOutcomes /\ TaskFlagged /\ TaskAlive /\ DanglesAfterReturn
  BY DEF TaskIInv
<1>1. /\ at[th] = T!Exec("root", "body") /\ frame["child"] = "final"
      /\ outcome' = [outcome EXCEPT !["root"] = outcome["child"]]
      /\ frame' = [frame EXCEPT !["child"] = "destroyed", !["root"] = "final"]
      /\ at' = [at EXCEPT ![th] = T!Exec("root", "on_complete")]
      /\ UNCHANGED <<mode, owner, parks, ready, on_complete, finished, blocked, cv, dangling>>
  BY DEF T!RootReturns
<1>2. /\ at'[th] = T!Exec("root", "on_complete")
      /\ \A u \in T!Threads \ {th} : at'[u] = at[u] /\ at[u] = T!Idle
      /\ outcome["child"] # "none" /\ outcome'["root"] = outcome["child"]
      /\ outcome'["child"] = outcome["child"]
      /\ frame'["child"] = "destroyed" /\ frame'["root"] = "final"
  BY <1>0, <1>1, TaskSteps DEF T!TypeOK, OneStrand, T!Tasks, TaskOutcomes
<1>3. T!TypeOK'
  BY <1>0, <1>1, TaskSteps DEF T!TypeOK, T!Tasks
<1>4. OneStrand'
  BY <1>0, <1>1, <1>2, TaskSteps DEF OneStrand, T!Tasks
<1>5. TaskOutcomes'
  BY <1>0, <1>1, <1>2, TaskSteps DEF TaskOutcomes, OneStrand, T!Tasks
<1>6. TaskFlagged'
  BY <1>0, <1>1, <1>2, TaskSteps DEF TaskFlagged, TaskOutcomes, T!Tasks
<1>7. TaskAlive'
  <2>1. \A u \in T!Threads : at'[u] # T!Exec("root", "notify")
    BY <1>2, TaskSteps DEF T!Tasks
  <2> QED
    BY <1>0, <1>1, <1>2, <2>1 DEF TaskAlive
<1>8. DanglesAfterReturn'
  BY <1>0, <1>1, <1>2, TaskSteps DEF DanglesAfterReturn, TaskAlive, TaskOutcomes, T!Tasks
<1> QED
  BY <1>3, <1>4, <1>5, <1>6, <1>7, <1>8 DEF TaskIInv

LEMMA TaskNotifyInv ==
    ASSUME T!TaskAssumption, TaskIInv, NEW th \in T!Threads, T!Notify(th)
    PROVE  TaskIInv'
<1>0. T!TypeOK /\ OneStrand /\ TaskOutcomes /\ TaskFlagged /\ TaskAlive /\ DanglesAfterReturn
  BY DEF TaskIInv
<1>1. /\ at[th] = T!Exec("root", "notify")
      /\ blocked' = FALSE
      /\ dangling' = (dangling \/ ~cv)
      /\ at' = [at EXCEPT ![th] = T!Exec("root", "detached")]
      /\ UNCHANGED <<mode, owner, frame, outcome, parks, ready, on_complete, finished, cv>>
  BY DEF T!Notify
<1>2. /\ at'[th] = T!Exec("root", "detached")
      /\ \A u \in T!Threads \ {th} : at'[u] = at[u] /\ at[u] = T!Idle
      /\ owner # "call"
  BY <1>0, <1>1, TaskSteps DEF T!TypeOK, OneStrand, T!Tasks, TaskOutcomes
<1>3. T!TypeOK'
  BY <1>0, <1>1, TaskSteps DEF T!TypeOK, T!Tasks
<1>4. OneStrand'
  BY <1>0, <1>1, <1>2, TaskSteps DEF OneStrand, T!Tasks
<1>5. TaskOutcomes'
  BY <1>0, <1>1, <1>2, TaskSteps DEF TaskOutcomes, OneStrand, T!Tasks
<1>6. TaskFlagged'
  BY <1>0, <1>1, <1>2, TaskSteps DEF TaskFlagged, TaskOutcomes, T!Tasks
<1>7. TaskAlive'
  BY <1>0, <1>1, <1>2, TaskSteps DEF TaskAlive, T!Tasks
<1>8. DanglesAfterReturn'
  BY <1>0, <1>1, <1>2, TaskSteps DEF DanglesAfterReturn, TaskAlive, TaskOutcomes, T!Tasks
<1> QED
  BY <1>3, <1>4, <1>5, <1>6, <1>7, <1>8 DEF TaskIInv

LEMMA TaskStartInv ==
    ASSUME T!TaskAssumption, TaskIInv, T!Start
    PROVE  TaskIInv'
<1>0. T!TypeOK /\ OneStrand /\ TaskOutcomes /\ TaskFlagged /\ TaskAlive /\ DanglesAfterReturn
  BY DEF TaskIInv
<1>1. /\ owner = "call" /\ owner' = "resumed"
      /\ frame' = [frame EXCEPT !["root"] = "live"]
      /\ at' = [at EXCEPT ![Main] = T!Exec("root", "body")]
      /\ on_complete' = (mode = "sync_wait") /\ cv' = (mode = "sync_wait")
      /\ UNCHANGED <<mode, outcome, parks, ready, finished, blocked, dangling>>
  BY DEF T!Start
<1>2. /\ at'[Main] = T!Exec("root", "body")
      /\ \A u \in T!Threads \ {Main} : at'[u] = at[u] /\ at[u] = T!Idle
      /\ frame'["child"] = frame["child"] /\ frame'["root"] = "live"
  BY <1>0, <1>1, TaskSteps DEF T!TypeOK, OneStrand, T!Tasks, TaskOutcomes
<1>3. T!TypeOK'
  BY <1>0, <1>1, TaskSteps DEF T!TypeOK, T!Tasks
<1>4. OneStrand'
  BY <1>0, <1>1, <1>2, TaskSteps DEF OneStrand, T!Tasks
<1>5. TaskOutcomes'
  BY <1>0, <1>1, <1>2, TaskSteps DEF TaskOutcomes, OneStrand, T!Tasks
<1>6. TaskFlagged'
  BY <1>0, <1>1, <1>2, TaskSteps DEF TaskFlagged, TaskOutcomes, T!Tasks
<1>7. TaskAlive'
  <2>1. \A u \in T!Threads : at'[u] # T!Exec("root", "notify")
    BY <1>2, TaskSteps DEF T!Tasks
  <2>2. (mode = "sync_wait" => cv') /\ (on_complete' => mode = "sync_wait")
    BY <1>1
  <2> QED
    BY <1>0, <1>1, <1>2, <2>1, <2>2 DEF TaskAlive
<1>8. DanglesAfterReturn'
  BY <1>0, <1>1, <1>2, TaskSteps DEF DanglesAfterReturn, TaskAlive, TaskOutcomes, T!Tasks
<1> QED
  BY <1>3, <1>4, <1>5, <1>6, <1>7, <1>8 DEF TaskIInv

LEMMA TaskResumedInv ==
    ASSUME T!TaskAssumption, TaskIInv, T!Resumed
    PROVE  TaskIInv'
<1>0. T!TypeOK /\ OneStrand /\ TaskOutcomes /\ TaskFlagged /\ TaskAlive /\ DanglesAfterReturn
  BY DEF TaskIInv
<1>1. /\ owner = "resumed"
      /\ owner' = IF mode = "sync_wait" THEN "wait" ELSE "done"
      /\ UNCHANGED <<mode, frame, outcome, at, parks, ready, on_complete, finished, blocked,
                     cv, dangling>>
  BY DEF T!Resumed
<1>2. mode \in {"sync_wait", "start_detached"}
  BY <1>0, <1>1, TaskSteps DEF T!TypeOK, OneStrand, T!Tasks, TaskOutcomes
<1>3. T!TypeOK'
  BY <1>0, <1>1, TaskSteps DEF T!TypeOK, T!Tasks
<1>4. OneStrand'
  BY <1>0, <1>1, <1>2, TaskSteps DEF OneStrand, T!Tasks
<1>5. TaskOutcomes'
  BY <1>0, <1>1, <1>2, TaskSteps DEF TaskOutcomes, OneStrand, T!Tasks
<1>6. TaskFlagged'
  BY <1>0, <1>1, <1>2, TaskSteps DEF TaskFlagged, TaskOutcomes, T!Tasks
<1>7. TaskAlive'
  BY <1>0, <1>1, <1>2, TaskSteps DEF TaskAlive, T!Tasks
<1>8. DanglesAfterReturn'
  BY <1>0, <1>1, <1>2, TaskSteps DEF DanglesAfterReturn, TaskAlive, TaskOutcomes, T!Tasks
<1> QED
  BY <1>3, <1>4, <1>5, <1>6, <1>7, <1>8 DEF TaskIInv

LEMMA TaskReturnInv ==
    ASSUME T!TaskAssumption, TaskIInv, T!Return
    PROVE  TaskIInv'
<1>0. T!TypeOK /\ OneStrand /\ TaskOutcomes /\ TaskFlagged /\ TaskAlive /\ DanglesAfterReturn
  BY DEF TaskIInv
<1>1. /\ owner = "clear" /\ owner' = "done"
      /\ on_complete' = FALSE /\ cv' = FALSE
      /\ frame' = [frame EXCEPT !["root"] = "destroyed"]
      /\ dangling' = (dangling \/ frame["root"] = "destroyed")
      /\ UNCHANGED <<mode, outcome, at, parks, ready, finished, blocked>>
  BY DEF T!Return
<1>2. frame'["child"] = frame["child"] /\ frame'["root"] = "destroyed"
  BY <1>0, <1>1, TaskSteps DEF T!TypeOK, OneStrand, T!Tasks, TaskOutcomes
<1>3. T!TypeOK'
  BY <1>0, <1>1, TaskSteps DEF T!TypeOK, T!Tasks
<1>4. OneStrand'
  BY <1>0, <1>1, <1>2, TaskSteps DEF OneStrand, T!Tasks
<1>5. TaskOutcomes'
  BY <1>0, <1>1, <1>2, TaskSteps DEF TaskOutcomes, OneStrand, T!Tasks
<1>6. TaskFlagged'
  BY <1>0, <1>1, <1>2, TaskSteps DEF TaskFlagged, TaskOutcomes, T!Tasks
<1>7. TaskAlive'
  BY <1>0, <1>1, <1>2, TaskSteps DEF TaskAlive, T!Tasks
<1>8. DanglesAfterReturn'
  BY <1>0, <1>1, <1>2, TaskSteps DEF DanglesAfterReturn, TaskAlive, TaskOutcomes, T!Tasks
<1> QED
  BY <1>3, <1>4, <1>5, <1>6, <1>7, <1>8 DEF TaskIInv

LEMMA TaskWaitInv ==
    ASSUME T!TaskAssumption, TaskIInv, T!Wait \/ T!WakeSpuriously
    PROVE  TaskIInv'
<1>0. T!TypeOK /\ OneStrand /\ TaskOutcomes /\ TaskFlagged /\ TaskAlive /\ DanglesAfterReturn
  BY DEF TaskIInv
<1>1. /\ UNCHANGED <<mode, frame, outcome, at, parks, ready, on_complete, finished, cv,
                     dangling>>
      /\ owner' = owner \/ (owner = "wait" /\ owner' = "clear" /\ finished)
      /\ blocked' \in BOOLEAN
  BY <1>0 DEF T!Wait, T!WakeSpuriously, T!TypeOK
<1>2. T!TypeOK'
  BY <1>0, <1>1 DEF T!TypeOK
<1>3. OneStrand' /\ TaskOutcomes'
  BY <1>0, <1>1 DEF OneStrand, TaskOutcomes
<1>4. TaskFlagged' /\ TaskAlive' /\ DanglesAfterReturn'
  BY <1>0, <1>1 DEF TaskFlagged, TaskAlive, DanglesAfterReturn
<1> QED
  BY <1>2, <1>3, <1>4 DEF TaskIInv

(* The callback of the root, and the last steps of the child without one.  *)
LEMMA TaskOnCompleteInv ==
    ASSUME T!TaskAssumption, TaskIInv, NEW th \in T!Threads, T!OnComplete(th)
    PROVE  TaskIInv'
<1>0. T!TypeOK /\ OneStrand /\ TaskOutcomes /\ TaskFlagged /\ TaskAlive /\ DanglesAfterReturn
  BY DEF TaskIInv
<1>1. PICK t \in T!Tasks :
        /\ at[th] = T!Exec(t, "on_complete")
        /\ IF t = "root" /\ on_complete
           THEN finished' = TRUE /\ at' = [at EXCEPT ![th] = T!Exec(t, "notify")]
           ELSE at' = [at EXCEPT ![th] = T!Exec(t, "detached")] /\ UNCHANGED finished
        /\ dangling' = (dangling \/ frame[t] = "destroyed")
        /\ UNCHANGED <<mode, owner, frame, outcome, parks, ready, on_complete, blocked, cv>>
  BY DEF T!OnComplete, T!Uses
<1>2. /\ \A u \in T!Threads \ {th} : at'[u] = at[u] /\ at[u] = T!Idle
      /\ owner # "call" /\ ~ready
      /\ at[th].task = t /\ at[th].step = "on_complete"
  BY <1>0, <1>1, TaskSteps DEF T!TypeOK, OneStrand
<1>3. CASE t = "root" /\ on_complete
  <2>1. /\ finished' /\ at'[th] = T!Exec("root", "notify") /\ mode = "sync_wait"
        /\ outcome["root"] # "none"
    BY <1>0, <1>1, <1>2, <1>3 DEF T!TypeOK, TaskAlive, TaskOutcomes
  <2>2. T!TypeOK'
    BY <1>0, <1>1, <1>3, TaskSteps DEF T!TypeOK
  <2>3. OneStrand'
    BY <1>0, <1>1, <1>2 DEF OneStrand
  <2>4. TaskOutcomes'
    BY <1>0, <1>1, <1>2, <2>1, TaskSteps DEF TaskOutcomes, T!Tasks
  <2>5. TaskFlagged'
    BY <1>0, <1>1, <2>1 DEF TaskFlagged
  <2>6. TaskAlive'
    BY <1>0, <1>1, <1>2, <2>1, TaskSteps DEF TaskAlive, T!Tasks
  <2>7. DanglesAfterReturn'
    BY <1>0, <1>1, <1>3, <2>1 DEF DanglesAfterReturn, TaskAlive
  <2> QED
    BY <2>2, <2>3, <2>4, <2>5, <2>6, <2>7 DEF TaskIInv
<1>4. CASE ~(t = "root" /\ on_complete)
  <2>1. /\ at'[th] = T!Exec(t, "detached") /\ finished' = finished
    BY <1>0, <1>1, <1>4 DEF T!TypeOK
  <2>2. T!TypeOK'
    BY <1>0, <1>1, <1>4, TaskSteps DEF T!TypeOK
  <2>3. OneStrand'
    BY <1>0, <1>1, <1>2 DEF OneStrand
  <2>4. TaskOutcomes'
    BY <1>0, <1>1, <1>2, <2>1, TaskSteps DEF TaskOutcomes, T!Tasks
  <2>5. TaskFlagged'
    BY <1>0, <1>1, <2>1 DEF TaskFlagged
  <2>6. TaskAlive'
    <3>1. \A u \in T!Threads : at'[u] # T!Exec("root", "notify")
      BY <1>2, <2>1, TaskSteps DEF T!Tasks
    <3>2. at[th] # T!Idle
      BY <1>1, TaskSteps
    <3> QED
      BY <1>0, <1>1, <1>2, <2>1, <3>1, <3>2, TaskSteps DEF TaskAlive
  <2>7. DanglesAfterReturn'
    <3>1. CASE t = "child"
      BY <1>0, <1>1, <1>2, <3>1 DEF DanglesAfterReturn, TaskOutcomes
    <3>2. CASE t = "root"
      <4>1. mode = "start_detached" => frame["root"] # "destroyed"
        BY <1>0, <1>1, TaskSteps DEF TaskAlive
      <4>2. mode \in {"sync_wait", "start_detached"}
        BY <1>0 DEF T!TypeOK
      <4> QED
        BY <1>0, <1>1, <3>2, <4>1, <4>2 DEF DanglesAfterReturn, TaskAlive
    <3> QED
      BY <3>1, <3>2 DEF T!Tasks
  <2> QED
    BY <2>2, <2>3, <2>4, <2>5, <2>6, <2>7 DEF TaskIInv
<1> QED
  BY <1>3, <1>4

LEMMA TaskFinalTransferInv ==
    ASSUME T!TaskAssumption, TaskIInv, NEW th \in T!Threads, T!FinalTransfer(th)
    PROVE  TaskIInv'
<1>0. T!TypeOK /\ OneStrand /\ TaskOutcomes /\ TaskFlagged /\ TaskAlive /\ DanglesAfterReturn
  BY DEF TaskIInv
<1>1. PICK t \in T!Tasks :
        /\ at[th] = T!Exec(t, "detached")
        /\ dangling' = (dangling \/ frame[t] = "destroyed")
        /\ IF t = "root" /\ mode = "start_detached"
           THEN frame' = [frame EXCEPT ![t] = "destroyed"]
           ELSE UNCHANGED frame
        /\ at' = [at EXCEPT ![th] = IF t = "child" THEN T!Exec("root", "body") ELSE T!Idle]
        /\ UNCHANGED <<mode, owner, outcome, parks, ready, on_complete, finished, blocked, cv>>
  BY DEF T!FinalTransfer, T!Uses
<1>2. /\ \A u \in T!Threads \ {th} : at'[u] = at[u] /\ at[u] = T!Idle
      /\ at'[th] = IF t = "child" THEN T!Exec("root", "body") ELSE T!Idle
      /\ owner # "call" /\ ~ready
      /\ at[th].task = t /\ at[th].step = "detached" /\ at[th] # T!Idle
      /\ frame'["child"] = frame["child"]
  BY <1>0, <1>1, TaskSteps DEF T!TypeOK, OneStrand, T!Tasks
<1>3. mode \in {"sync_wait", "start_detached"}
  BY <1>0 DEF T!TypeOK
<1>4. T!TypeOK'
  <2>1. at' \in [T!Threads -> {T!Idle} \cup
                  [task : T!Tasks, step : {"body", "on_complete", "notify", "detached"}]]
    BY <1>0, <1>1, TaskSteps DEF T!TypeOK, T!Tasks
  <2>2. frame' \in [T!Tasks -> {"created", "live", "final", "destroyed"}]
    BY <1>0, <1>1 DEF T!TypeOK
  <2> QED
    BY <1>0, <1>1, <2>1, <2>2 DEF T!TypeOK
<1>5. OneStrand'
  BY <1>0, <1>1, <1>2 DEF OneStrand
<1>6. TaskFlagged'
  BY <1>0, <1>1 DEF TaskFlagged
<1>7. CASE t = "child"
  <2>1. at'[th] = T!Exec("root", "body") /\ frame' = frame /\ frame["child"] = "final"
        /\ outcome["root"] = "none"
    BY <1>0, <1>1, <1>2, <1>7 DEF TaskOutcomes
  <2>2. TaskOutcomes'
    BY <1>0, <1>1, <1>2, <2>1, TaskSteps DEF TaskOutcomes, T!Tasks
  <2>3. TaskAlive'
    <3>1. \A u \in T!Threads : at'[u] # T!Exec("root", "notify")
      BY <1>2, <2>1, TaskSteps DEF T!Tasks
    <3> QED
      BY <1>0, <1>1, <1>2, <2>1, <3>1 DEF TaskAlive
  <2>4. DanglesAfterReturn'
    BY <1>0, <1>1, <1>7, <2>1 DEF DanglesAfterReturn
  <2> QED
    BY <1>4, <1>5, <1>6, <2>2, <2>3, <2>4 DEF TaskIInv
<1>8. CASE t = "root"
  <2>1. \A u \in T!Threads : at'[u] = T!Idle
    BY <1>2, <1>8
  <2>2. TaskOutcomes'
    BY <1>0, <1>1, <1>2, <2>1, TaskSteps DEF TaskOutcomes, T!Tasks
  <2>3. TaskAlive'
    <3>1. \A u \in T!Threads : at'[u] # T!Exec("root", "notify")
      BY <2>1, TaskSteps DEF T!Tasks
    <3>2. mode = "sync_wait" => frame' = frame
      BY <1>1
    <3> QED
      BY <1>0, <1>1, <1>2, <1>3, <2>1, <3>1, <3>2 DEF TaskAlive
  <2>4. DanglesAfterReturn'
    BY <1>0, <1>1, <1>2, <1>3, <1>8 DEF DanglesAfterReturn, TaskAlive
  <2> QED
    BY <1>4, <1>5, <1>6, <2>2, <2>3, <2>4 DEF TaskIInv
<1> QED
  BY <1>7, <1>8 DEF T!Tasks

LEMMA TaskNextInv ==
    ASSUME T!TaskAssumption, TaskIInv, [T!Next]_(T!vars)
    PROVE  TaskIInv'
<1>1. CASE UNCHANGED T!vars
  BY <1>1 DEF T!vars, TaskIInv, T!TypeOK, OneStrand, TaskOutcomes, TaskFlagged, TaskAlive,
     DanglesAfterReturn
<1>2. ASSUME NEW th \in T!Threads, T!Step(th) PROVE TaskIInv'
  BY <1>2, TaskAwaitChildInv, TaskParkInv, TaskChildReturnsInv, TaskRootReturnsInv,
     TaskOnCompleteInv, TaskNotifyInv,
     TaskFinalTransferInv DEF T!Step
<1>3. CASE T!Owner \/ T!WakeSpuriously \/ T!Resume
  BY <1>3, TaskStartInv, TaskResumedInv, TaskWaitInv, TaskReturnInv, TaskResumeInv DEF T!Owner
<1> QED
  BY <1>1, <1>2, <1>3 DEF T!Next

(* sync_wait() does not return, and does not clear its state, before the   *)
(* root task has returned or thrown; the outcome is the one of its child,  *)
(* whichever thread completes it and whatever wakes the owner meanwhile.   *)
THEOREM SyncWaitWaits ==
    ASSUME T!TaskAssumption
    PROVE  T!Spec => [](T!TypeOK /\ T!SyncWaitHasOutcome)
<1>1. T!Init => TaskIInv
  BY TaskInitInv
<1>2. TaskIInv /\ [T!Next]_(T!vars) => TaskIInv'
  BY TaskNextInv
<1>3. TaskIInv => T!TypeOK /\ T!SyncWaitHasOutcome
  BY DEF TaskIInv, TaskFlagged, TaskOutcomes, T!SyncWaitHasOutcome
<1> QED
  BY <1>1, <1>2, <1>3, PTL DEF T!Spec

(* The two coroutines are executed by one thread at a time.  The final     *)
(* awaiter of the root uses nothing that start_detached() or the parent has *)
(* destroyed, and nothing of sync_wait() before that has returned: after it, *)
(* notify_one() may still be about to touch the condition variable.        *)
THEOREM DanglesAfterReturnOnly ==
    ASSUME T!TaskAssumption
    PROVE  T!Spec => [](OneStrand /\ DanglesAfterReturn)
<1>1. T!Init => TaskIInv
  BY TaskInitInv
<1>2. TaskIInv /\ [T!Next]_(T!vars) => TaskIInv'
  BY TaskNextInv
<1>3. TaskIInv => OneStrand /\ DanglesAfterReturn
  BY DEF TaskIInv
<1> QED
  BY <1>1, <1>2, <1>3, PTL DEF T!Spec

=============================================================================
