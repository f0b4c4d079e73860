------------------------ MODULE AbstractCancellation ------------------------
(***************************************************************************)
(* What a CancellationToken promises to the code that calls on_cancel():   *)
(* a callback handed to the token runs once, never before cancellation was *)
(* requested, and does run once cancellation has been requested.  Threads, *)
(* the mutex and the vector of callbacks are not visible here.             *)
(***************************************************************************)
CONSTANT Callbacks

VARIABLES
    requested,   \* cancellation has been requested
    submitted,   \* callbacks handed to on_cancel()
    delivered    \* callbacks that have run

absVars == <<requested, submitted, delivered>>

AbsInit ==
    /\ requested = FALSE
    /\ submitted = {}
    /\ delivered = {}

Request ==
    /\ ~requested
    /\ requested' = TRUE
    /\ UNCHANGED <<submitted, delivered>>

Submit(cb) ==
    /\ cb \notin submitted
    /\ submitted' = submitted \cup {cb}
    /\ UNCHANGED <<requested, delivered>>

Deliver(cb) ==
    /\ requested
    /\ cb \in submitted \ delivered
    /\ delivered' = delivered \cup {cb}
    /\ UNCHANGED <<requested, submitted>>

AbsNext == Request \/ \E cb \in Callbacks : Submit(cb) \/ Deliver(cb)

AbsSafety == AbsInit /\ [][AbsNext]_absVars

AbsSpec == AbsSafety /\ \A cb \in Callbacks : WF_absVars(Deliver(cb))
=============================================================================
