------------------------------ MODULE Sessions ------------------------------
(***************************************************************************)
(* MemorySessionStore and SessionMiddleware (src/core/session.cpp).        *)
(* Requests that present the same cookie share one Session object, also    *)
(* while they are suspended in their handlers; the store keeps a pointer   *)
(* to an object until the session is destroyed, expires or is cleaned up,  *)
(* and requests may keep theirs for longer.                                *)
(*                                                                         *)
(* A call of the store holds its mutex and is one step.  So is each access *)
(* of a handler to its session: the accesses of two threads at once are    *)
(* undefined behaviour and left out.  auto_save is on, its default.        *)
(***************************************************************************)
EXTENDS Naturals

CONSTANTS
    Requests,   \* each may create one session, whose id is named after it
    NoEntry,    \* what the store has for the id of no session
    MaxAge,     \* options_.max_age and default_max_age_
    Rolling,    \* options_.rolling
    MaxTime     \* bound: the clock

VARIABLES
    now,        \* system_clock
    store,      \* sessions_, by id
    heap,       \* the Session objects
    pc,         \* where each request is in the middleware
    sess,       \* the object each request has in its context
    issued,     \* ids in cookies that clients have
    content,    \* ghost: by id, what handlers have put into the session
    written,    \* ghost: by id, when they did last
    gone        \* ghost: ids that were in the store and were erased

storeVars == <<store, gone>>
handlerVars == <<heap, content, written>>
vars == <<now, storeVars, pc, sess, issued, handlerVars>>

(* A new session is in its own object; save() may have to make another.    *)
Objects == Requests \X {"new", "copy"}

Session == [id : Requests, data : SUBSET Requests, modified : BOOLEAN,
            is_new : BOOLEAN, last_accessed : Nat]

Entry == [session : Objects, expires : Nat]

ASSUME SessionsAssumption ==
    /\ MaxAge \in Nat /\ MaxTime \in Nat /\ Rolling \in BOOLEAN
    /\ NoEntry \notin Entry

TypeOK ==
    /\ now \in 0 .. MaxTime
    /\ store \in [Requests -> Entry \cup {NoEntry}]
    /\ heap \in [Objects -> Session]
    /\ pc \in [Requests -> {"idle", "handler", "returned", "threw"}]
    /\ sess \in [Requests -> Objects]
    /\ issued \subseteq Requests
    /\ content \in [Requests -> SUBSET Requests]
    /\ written \in [Requests -> Nat]
    /\ gone \subseteq Requests

NewSession(id) ==
    [id |-> id, data |-> {}, modified |-> FALSE, is_new |-> TRUE, last_accessed |-> now]

Init ==
    /\ now = 0
    /\ store = [id \in Requests |-> NoEntry]
    /\ heap = [o \in Objects |-> NewSession(o[1])]
    /\ pc = [r \in Requests |-> "idle"]
    /\ sess = [r \in Requests |-> <<r, "new">>]
    /\ issued = {}
    /\ content = [id \in Requests |-> {}]
    /\ written = [id \in Requests |-> 0]
    /\ gone = {}

Id(r) == heap[sess[r]].id

-----------------------------------------------------------------------------
(* The store *)

(* Mutant: the entry stays in the map, without its session.                *)
EraseSession(ids) ==
    /\ store' = [id \in Requests |->
                    IF id \in ids THEN [session |-> NoEntry, expires |-> 0] ELSE store[id]]
    /\ gone' = gone \cup ids

Erase(ids) ==
    LET present == {id \in ids : store[id] # NoEntry} IN
    /\ store' = [id \in Requests |-> IF id \in present THEN NoEntry ELSE store[id]]
    /\ gone' = gone \cup present

Loadable(id) == store[id] # NoEntry /\ store[id].expires >= now

(* Mutant: a session that is loaded counts as saved.                       *)
TouchSaved(o) ==
    heap' = [heap EXCEPT ![o].last_accessed = now, ![o].modified = FALSE]

Touch(o) == heap' = [heap EXCEPT ![o].last_accessed = now]

(* Mutant: every save() makes a new object.                                *)
SaveTargetNew(r) == <<r, "copy">>

(* The object that save() copies the session of r to.                      *)
SaveTarget(r) ==
    IF store[Id(r)] = NoEntry THEN <<r, "copy">> ELSE store[Id(r)].session

(* The object of r itself stays modified when it is not the target.        *)
Save(r) ==
    /\ heap' = [heap EXCEPT ![SaveTarget(r)] = [heap[sess[r]] EXCEPT !.modified = FALSE]]
    /\ store' = [store EXCEPT ![Id(r)] =
                    [session |-> SaveTarget(r), expires |-> now + MaxAge]]

(* cleanup(); nothing in the library calls it, the application may.        *)
Cleanup ==
    /\ \E age \in 0 .. MaxAge :
          Erase({id \in Requests : store[id] # NoEntry
                     /\ heap[store[id].session].last_accessed + age < now})
    /\ UNCHANGED <<now, pc, sess, issued, handlerVars>>

-----------------------------------------------------------------------------
(* The middleware *)

(* Mutant: a session that is not found is created anew under its old id.   *)
CreateAs(r, id) ==
    heap' = [heap EXCEPT ![<<r, "new">>] = NewSession(id)]

Create(r, id) ==
    heap' = [heap EXCEPT ![<<r, "new">>] = NewSession(r)]

(* A request with a cookie whose session is there.                         *)
BeginLoaded(r, id) ==
    /\ Loadable(id)
    /\ Touch(store[id].session)
    /\ sess' = [sess EXCEPT ![r] = store[id].session]
    /\ UNCHANGED storeVars

(* One whose session is gone, or has expired and is erased.                *)
BeginMissing(r, id) ==
    /\ ~Loadable(id)
    /\ Erase({id})
    /\ Create(r, id)
    /\ UNCHANGED sess

(* A request without a cookie.                                             *)
BeginNew(r) ==
    /\ Create(r, r)
    /\ UNCHANGED <<storeVars, sess>>

Begin(r) ==
    /\ pc[r] = "idle"
    /\ \/ \E id \in issued : BeginLoaded(r, id) \/ BeginMissing(r, id)
       \/ BeginNew(r)
    /\ pc' = [pc EXCEPT ![r] = "handler"]
    /\ UNCHANGED <<now, issued, content, written>>

(* The handler sets a key of its own, or removes keys.                     *)
Modify(r, data, update) ==
    /\ pc[r] = "handler"
    /\ heap' = [heap EXCEPT ![sess[r]].data = data, ![sess[r]].modified = TRUE]
    /\ content' = [content EXCEPT ![Id(r)] = update]
    /\ written' = [written EXCEPT ![Id(r)] = now]
    /\ UNCHANGED <<now, storeVars, pc, sess, issued>>

Set(r) == Modify(r, heap[sess[r]].data \cup {r}, content[Id(r)] \cup {r})

(* remove() and clear() do nothing when there is nothing to remove.        *)
Remove(r) ==
    \E keys \in SUBSET heap[sess[r]].data \ {{}} :
        Modify(r, heap[sess[r]].data \ keys, content[Id(r)] \ keys)

(* destroy_session(), called by the handler.                               *)
Destroy(r) ==
    /\ pc[r] = "handler"
    /\ Erase({Id(r)})
    /\ UNCHANGED <<now, pc, sess, issued, handlerVars>>

(* The cookie is set for a new session, or for a rolling one that is not   *)
(* (clients keep the cookie they have, so the second adds none).           *)
Issue(r) ==
    issued' = IF \/ sess[r] = <<r, "new">>
                 \/ Rolling /\ ~heap[sess[r]].is_new
              THEN issued \cup {Id(r)} ELSE issued

(* The handler returns: the session is saved if it was modified.           *)
Finish(r) ==
    /\ pc[r] = "handler"
    /\ pc' = [pc EXCEPT ![r] = "returned"]
    /\ \/ heap[sess[r]].modified /\ Save(r)
       \/ ~heap[sess[r]].modified /\ UNCHANGED <<heap, store>>
    /\ Issue(r)
    /\ UNCHANGED <<now, sess, content, written, gone>>

(* It throws: the rest of the middleware is skipped.                       *)
Throw(r) ==
    /\ pc[r] = "handler"
    /\ pc' = [pc EXCEPT ![r] = "threw"]
    /\ UNCHANGED <<now, storeVars, sess, issued, handlerVars>>

Tick ==
    /\ now < MaxTime
    /\ now' = now + 1
    /\ UNCHANGED <<storeVars, pc, sess, issued, handlerVars>>

-----------------------------------------------------------------------------
Next ==
    \/ Tick \/ Cleanup
    \/ \E r \in Requests :
          Begin(r) \/ Set(r) \/ Remove(r) \/ Destroy(r) \/ Finish(r) \/ Throw(r)

Spec == Init /\ [][Next]_vars

-----------------------------------------------------------------------------
(* Properties *)

Holds(r, id) == pc[r] = "handler" /\ Id(r) = id

Stored(id) == store[id] # NoEntry

(***************************************************************************)
(* A session is one thing: every request that has it, and the store, have  *)
(* what handlers have put into it, whichever of them saved it and when,    *)
(* and once its creator has returned it is not lost.  This holds until it  *)
(* is erased; after that a request that kept its object may bring it back, *)
(* beside others' objects, and updates may be lost.                        *)
(***************************************************************************)
UpdatesKept ==
    \A id \in Requests \ gone :
        /\ \A r \in Requests : Holds(r, id) => heap[sess[r]].data = content[id]
        /\ Stored(id) => heap[store[id].session].data = content[id]
        /\ id \in issued /\ content[id] # {} => Stored(id)

(***************************************************************************)
(* A session lives for MaxAge after it was last written to, at least: only *)
(* what still has to be saved is kept for less.  (The flag is shared by    *)
(* the requests that have the object, and one saves for another.)          *)
(***************************************************************************)
WritesRenew ==
    \A id \in Requests \ gone :
        Stored(id) /\ ~heap[store[id].session].modified =>
            store[id].expires >= written[id] + MaxAge

(***************************************************************************)
(* A session that was destroyed or expired, and that no request has any    *)
(* more, never comes back, although cookies that name it may: an id that   *)
(* is not found is not used again.                                         *)
(***************************************************************************)
Dead(id) == id \in gone /\ ~Stored(id) /\ \A r \in Requests : ~Holds(r, id)

DeadStaysDead == [][\A id \in Requests : Dead(id) => Dead(id)']_vars

(***************************************************************************)
(* "Rolling sessions (extend expiry on each request)": a rolling session   *)
(* that no request is using lives for MaxAge after it was last accessed.   *)
(***************************************************************************)
RollingExtends ==
    Rolling => \A id \in Requests \ gone :
        Stored(id) /\ (\A r \in Requests : ~Holds(r, id)) =>
            store[id].expires >= heap[store[id].session].last_accessed + MaxAge
=============================================================================
