-------------------------------- MODULE Task --------------------------------
(***************************************************************************)
(* The coroutine type of src/include/coroute/coro/task.hpp: a task that    *)
(* awaits another one, which suspends on the event loop; the thread that   *)
(* owns the task waits for it with sync_wait() or lets it go with          *)
(* start_detached().  The steps of the final awaiter are separate, because *)
(* the owner may run between any two of them when the task completes on    *)
(* another thread.                                                         *)
(***************************************************************************)
EXTENDS Naturals

CONSTANTS
    Main,     \* the thread that owns the root task
    Loop,     \* the thread of the event loop
    MaxParks  \* how many times the child may suspend on the event loop

TaskAssumption == Main # Loop /\ MaxParks \in Nat

VARIABLES
    mode,       \* what the owner calls: "sync_wait" or "start_detached"
    owner,      \* where the owner is in that call
    frame,      \* per task: "created", "live", "final" or "destroyed"
    outcome,    \* per task: value_ or exception_, "none" until it returns
    at,         \* per thread: the task it executes and where, or Idle
    parks,      \* how often the child has suspended
    ready,      \* the child is suspended and its operation has completed
    on_complete,\* on_complete_ of the root is set
    finished,   \* the flag sync_wait() waits for
    blocked,    \* the owner is blocked on the condition variable
    cv,         \* the condition variable of sync_wait() exists
    dangling    \* (ghost) a destroyed object was used

vars == <<mode, owner, frame, outcome, at, parks, ready, on_complete, finished, blocked, cv,
          dangling>>

Threads == {Main, Loop}
Tasks == {"root", "child"}
Idle == [task |-> "none", step |-> "idle"]
Exec(t, s) == [task |-> t, step |-> s]

TypeOK ==
    /\ mode \in {"sync_wait", "start_detached"}
    /\ owner \in {"call", "resumed", "wait", "clear", "done"}
    /\ frame \in [Tasks -> {"created", "live", "final", "destroyed"}]
    /\ outcome \in [Tasks -> {"none", "value", "exception"}]
    /\ at \in [Threads -> {Idle} \cup [task : Tasks, step : {"body", "on_complete", "notify", "detached"}]]
    /\ parks \in 0..MaxParks
    /\ {ready, on_complete, finished, blocked, cv, dangling} \subseteq BOOLEAN

Init ==
    /\ mode \in {"sync_wait", "start_detached"}
    /\ owner = "call"
    /\ frame = [t \in Tasks |-> "created"]
    /\ outcome = [t \in Tasks |-> "none"]
    /\ at = [th \in Threads |-> Idle]
    /\ parks = 0
    /\ ready = FALSE /\ on_complete = FALSE /\ finished = FALSE
    /\ blocked = FALSE /\ cv = FALSE /\ dangling = FALSE

-----------------------------------------------------------------------------
(* The bodies.                                                             *)

(* The root awaits the child: Awaiter::await_suspend() stores the          *)
(* continuation and transfers to the child.                                *)
AwaitChild(th) ==
    /\ at[th] = Exec("root", "body") /\ frame["child"] = "created"
    /\ frame' = [frame EXCEPT !["child"] = "live"]
    /\ at' = [at EXCEPT ![th] = Exec("child", "body")]
    /\ UNCHANGED <<mode, owner, outcome, parks, ready, on_complete, finished, blocked, cv, dangling>>

(* The child submits an operation and suspends; control returns to         *)
(* whoever resumed it.                                                     *)
Park(th) ==
    /\ at[th] = Exec("child", "body") /\ parks < MaxParks
    /\ parks' = parks + 1
    /\ at' = [at EXCEPT ![th] = Idle]
    /\ ready' = TRUE
    /\ UNCHANGED <<mode, owner, frame, outcome, on_complete, finished, blocked, cv, dangling>>

(* The event loop resumes the child.                                       *)
Resume ==
    /\ at[Loop] = Idle /\ ready
    /\ ready' = FALSE
    /\ at' = [at EXCEPT ![Loop] = Exec("child", "body")]
    /\ UNCHANGED <<mode, owner, frame, outcome, parks, on_complete, finished, blocked, cv, dangling>>

(* return_value() or unhandled_exception(); check_cancellation() throws    *)
(* as any body may.                                                        *)
ChildReturns(th) ==
    /\ at[th] = Exec("child", "body")
    /\ \E r \in {"value", "exception"} : outcome' = [outcome EXCEPT !["child"] = r]
    /\ frame' = [frame EXCEPT !["child"] = "final"]
    /\ at' = [at EXCEPT ![th] = Exec("child", "on_complete")]
    /\ UNCHANGED <<mode, owner, parks, ready, on_complete, finished, blocked, cv, dangling>>

(* await_resume() takes the child's result or rethrows, the awaited        *)
(* temporary destroys the child, and the root returns the same.            *)
RootReturns(th) ==
    /\ at[th] = Exec("root", "body") /\ frame["child"] = "final"
    /\ outcome' = [outcome EXCEPT !["root"] = outcome["child"]]
    /\ frame' = [frame EXCEPT !["child"] = "destroyed", !["root"] = "final"]
    /\ at' = [at EXCEPT ![th] = Exec("root", "on_complete")]
    /\ UNCHANGED <<mode, owner, parks, ready, on_complete, finished, blocked, cv, dangling>>

-----------------------------------------------------------------------------
(* FinalAwaiter::await_suspend().                                          *)

(* A task whose frame the owner has destroyed in the meantime: the memory  *)
(* is read as it was.                                                      *)
Uses(t) == dangling' = (dangling \/ frame[t] = "destroyed")

(* The callback of sync_wait(): under the lock, finished = true.           *)
OnComplete(th) ==
    \E t \in Tasks :
        /\ at[th] = Exec(t, "on_complete")
        /\ IF t = "root" /\ on_complete
           THEN finished' = TRUE /\ at' = [at EXCEPT ![th] = Exec(t, "notify")]
           ELSE at' = [at EXCEPT ![th] = Exec(t, "detached")] /\ UNCHANGED finished
        /\ Uses(t)
        /\ UNCHANGED <<mode, owner, frame, outcome, parks, ready, on_complete, blocked, cv>>

(* The rest of the callback, after the lock is released: notify_one().     *)
Notify(th) ==
    /\ at[th] = Exec("root", "notify")
    /\ blocked' = FALSE
    /\ dangling' = (dangling \/ ~cv)
    /\ at' = [at EXCEPT ![th] = Exec("root", "detached")]
    /\ UNCHANGED <<mode, owner, frame, outcome, parks, ready, on_complete, finished, cv>>

(* A detached task destroys itself; the child goes on with the root; the   *)
(* root of sync_wait() has no continuation.                                *)
FinalTransfer(th) ==
    \E t \in Tasks :
        /\ at[th] = Exec(t, "detached")
        /\ Uses(t)
        /\ IF t = "root" /\ mode = "start_detached"
           THEN frame' = [frame EXCEPT ![t] = "destroyed"]
           ELSE UNCHANGED frame
        /\ at' = [at EXCEPT ![th] = IF t = "child" THEN Exec("root", "body") ELSE Idle]
        /\ UNCHANGED <<mode, owner, outcome, parks, ready, on_complete, finished, blocked, cv>>

-----------------------------------------------------------------------------
(* The owner.                                                              *)

(* sync_wait(): the callback is installed and the task resumed, on this    *)
(* thread, until it suspends or ends.  start_detached(): the same without  *)
(* the callback.                                                           *)
Start ==
    /\ owner = "call"
    /\ owner' = "resumed"
    /\ frame' = [frame EXCEPT !["root"] = "live"]
    /\ at' = [at EXCEPT ![Main] = Exec("root", "body")]
    /\ on_complete' = (mode = "sync_wait") /\ cv' = (mode = "sync_wait")
    /\ UNCHANGED <<mode, outcome, parks, ready, finished, blocked, dangling>>

(* Mutant: the first return of resume() is taken for the task's end.       *)
ResumedUnwaited ==
    /\ owner = "resumed" /\ at[Main] = Idle
    /\ owner' = IF mode = "sync_wait" THEN "clear" ELSE "done"
    /\ UNCHANGED <<mode, frame, outcome, at, parks, ready, on_complete, finished, blocked, cv, dangling>>

(* resume() returns.                                                       *)
Resumed ==
    /\ owner = "resumed" /\ at[Main] = Idle
    /\ owner' = IF mode = "sync_wait" THEN "wait" ELSE "done"
    /\ UNCHANGED <<mode, frame, outcome, at, parks, ready, on_complete, finished, blocked, cv, dangling>>

(* cv.wait(lock, predicate): the flag is tested under the lock, which a    *)
(* false test gives up by blocking.                                        *)
Wait ==
    /\ owner = "wait" /\ ~blocked
    /\ IF finished
       THEN owner' = "clear" /\ UNCHANGED blocked
       ELSE blocked' = TRUE /\ UNCHANGED owner
    /\ UNCHANGED <<mode, frame, outcome, at, parks, ready, on_complete, finished, cv, dangling>>

(* A condition variable may wake for no reason.                            *)
WakeSpuriously ==
    /\ blocked
    /\ blocked' = FALSE
    /\ UNCHANGED <<mode, owner, frame, outcome, at, parks, ready, on_complete, finished, cv, dangling>>

(* on_complete_ = nullptr, the result is moved out; then the condition     *)
(* variable goes with the call and the frame with the Task.                *)
Return ==
    /\ owner = "clear"
    /\ owner' = "done"
    /\ on_complete' = FALSE /\ cv' = FALSE
    /\ frame' = [frame EXCEPT !["root"] = "destroyed"]
    /\ dangling' = (dangling \/ frame["root"] = "destroyed")
    /\ UNCHANGED <<mode, outcome, at, parks, ready, finished, blocked>>

-----------------------------------------------------------------------------
Step(th) ==
    \/ AwaitChild(th) \/ Park(th) \/ ChildReturns(th) \/ RootReturns(th)
    \/ OnComplete(th) \/ Notify(th) \/ FinalTransfer(th)

Owner == Start \/ Resumed \/ Wait \/ Return

Ended == owner = "done" /\ \A th \in Threads : at[th] = Idle

Next ==
    \/ \E th \in Threads : Step(th)
    \/ Resume
    \/ Owner \/ WakeSpuriously
    \/ Ended /\ ~ready /\ UNCHANGED vars

(* The threads run, and an operation that has completed is resumed.        *)
Fairness ==
    /\ \A th \in Threads : WF_vars(Step(th))
    /\ WF_vars(Resume)
    /\ WF_vars(Owner)

Spec == Init /\ [][Next]_vars /\ Fairness

-----------------------------------------------------------------------------
(* sync_wait() returns no earlier than the task, whatever wakes its        *)
(* condition variable, and with what the task it awaited returned or       *)
(* threw.                                                                  *)
SyncWaitHasOutcome ==
    mode = "sync_wait" /\ owner \in {"clear", "done"} =>
        outcome["root"] # "none" /\ outcome["root"] = outcome["child"]

(* A task that is waited for or let go ends, its owner does too, and both  *)
(* frames are destroyed, on whichever thread the last step happens.        *)
AllDone == owner = "done" /\ \A t \in Tasks : frame[t] = "destroyed"
TaskEnds == owner # "call" ~> AllDone

(* Nothing of a task or of the call that waits for it is used after it is  *)
(* destroyed.  The code does not keep this: sync_wait() may return between *)
(* the two steps of its callback, and then the task's last steps find the  *)
(* condition variable and the frame gone.                                  *)
NoDanglingUse == ~dangling
=============================================================================
