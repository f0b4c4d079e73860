-------------------------------- MODULE Pools --------------------------------
(***************************************************************************)
(* The pools of src/include/coroute/util/object_pool.hpp and               *)
(* src/include/coroute/net/connection_pool.hpp: objects handed out under a *)
(* mutex, reset outside it when they come back (if the pool was given a    *)
(* function that resets), and counted in an atomic beside it.              *)
(***************************************************************************)
EXTENDS Integers, Sequences, FiniteSets

CONSTANTS
    Users,      \* the threads that use the pools
    Objects,    \* the identities objects may have
    Nothing,    \* no object: a null unique_ptr
    MaxSize,    \* config_.max_size, max_size_
    Modulus,    \* 2^w of the counters (a bound: they are size_t)
    MaxCalls    \* a bound: how often a thread acquires

PoolsAssumption ==
    /\ Nothing \notin Objects
    /\ MaxSize \in Nat /\ Modulus \in Nat \ {0} /\ MaxCalls \in Nat
    /\ IsFiniteSet(Users)

VARIABLES
    pool,       \* pool_: the objects in it, the back last
    held,       \* per thread: the object of its handle, or Nothing
    pcs,        \* per thread: "idle", or where release() is
    calls,      \* per thread: how often it has acquired
    active_count,
    dirty,      \* the objects whose state is not that of a new one
    enable_reuse, \* config_.enable_reuse
    resets,     \* reset_func_ or resetter_ is set: by default it is not
    counted,    \* (ghost) the objects out whose acquisition was counted
    skew        \* (ghost) counted objects gone for good, less uncounted ones come back

config == <<enable_reuse, resets>>
vars == <<pool, held, pcs, calls, active_count, dirty, config, counted, skew>>

InPool == {pool[i] : i \in DOMAIN pool}
Out == {held[u] : u \in Users} \ {Nothing}
Fresh == Objects \ (InPool \cup Out)

TypeOK ==
    /\ pool \in Seq(Objects) /\ Len(pool) <= MaxSize
    /\ held \in [Users -> Objects \cup {Nothing}]
    /\ pcs \in [Users -> {"idle", "count", "reset", "push"}]
    /\ calls \in [Users -> 0..MaxCalls]
    /\ active_count \in 0..(Modulus - 1)
    /\ enable_reuse \in BOOLEAN /\ resets \in BOOLEAN /\ skew \in Int
    /\ dirty \subseteq Objects /\ counted \subseteq Objects

Init ==
    /\ pool = <<>>
    /\ held = [u \in Users |-> Nothing]
    /\ pcs = [u \in Users |-> "idle"]
    /\ calls = [u \in Users |-> 0]
    /\ active_count = 0 /\ skew = 0 /\ enable_reuse \in BOOLEAN /\ resets \in BOOLEAN
    /\ dirty = {} /\ counted = {}

One(condition) == IF condition THEN 1 ELSE 0

CanAcquire(u) == pcs[u] = "idle" /\ held[u] = Nothing /\ calls[u] < MaxCalls

(* acquire(), pool not empty: the back of pool_, counted in active_count_. *)
AcquirePooled(u) ==
    /\ CanAcquire(u) /\ pool # <<>>
    /\ LET o == pool[Len(pool)]
       IN  /\ held' = [held EXCEPT ![u] = o]
           /\ counted' = counted \cup {o}
    /\ pool' = SubSeq(pool, 1, Len(pool) - 1)
    /\ active_count' = (active_count + 1) % Modulus
    /\ calls' = [calls EXCEPT ![u] = @ + 1]
    /\ UNCHANGED <<pcs, dirty, skew, config>>

(* acquire(), pool empty: ObjectPool makes an object; ConnectionPool       *)
(* returns null and its caller makes the connection.  Neither is counted.  *)
AcquireNew(u) ==
    /\ CanAcquire(u) /\ pool = <<>>
    /\ \E o \in Fresh :
        /\ held' = [held EXCEPT ![u] = o]
        /\ dirty' = dirty \ {o}
    /\ calls' = [calls EXCEPT ![u] = @ + 1]
    /\ UNCHANGED <<pool, pcs, active_count, config, counted, skew>>

(* The holder uses the object.                                             *)
Use(u) ==
    /\ pcs[u] = "idle" /\ held[u] # Nothing
    /\ dirty' = dirty \cup {held[u]}
    /\ UNCHANGED <<pool, held, pcs, calls, active_count, config, counted, skew>>

(* The handle goes: PooledObject or PooledConnection returns its object.   *)
(* Without reuse it is destroyed, and stays counted.                       *)
Release(u) ==
    /\ pcs[u] = "idle" /\ held[u] # Nothing
    /\ IF enable_reuse
       THEN pcs' = [pcs EXCEPT ![u] = "count"] /\ UNCHANGED <<held, dirty, counted, skew>>
       ELSE /\ held' = [held EXCEPT ![u] = Nothing] /\ dirty' = dirty \ {held[u]}
            /\ counted' = counted \ {held[u]} /\ skew' = skew + One(held[u] \in counted)
            /\ UNCHANGED pcs
    /\ UNCHANGED <<pool, calls, active_count, config>>

(* release() of a handle: the object leaves the pool for good.             *)
Detach(u) ==
    /\ pcs[u] = "idle" /\ held[u] # Nothing
    /\ held' = [held EXCEPT ![u] = Nothing]
    /\ counted' = counted \ {held[u]}
    /\ dirty' = dirty \ {held[u]}
    /\ skew' = skew + One(held[u] \in counted)
    /\ UNCHANGED <<pool, pcs, calls, active_count, config>>

(* active_count_.fetch_sub(1), whether or not it was counted.              *)
CountRelease(u) ==
    /\ pcs[u] = "count"
    /\ active_count' = (active_count - 1) % Modulus
    /\ counted' = counted \ {held[u]}
    /\ skew' = skew - One(held[u] \notin counted)
    /\ pcs' = [pcs EXCEPT ![u] = "reset"]
    /\ UNCHANGED <<pool, held, calls, dirty, config>>

(* Mutant: nothing resets the object.                                      *)
ResetNothing(u) ==
    /\ pcs[u] = "reset"
    /\ pcs' = [pcs EXCEPT ![u] = "push"]
    /\ UNCHANGED <<pool, held, calls, active_count, dirty, config, counted, skew>>

(* reset_func_ or resetter_, outside the lock, if there is one.            *)
Reset(u) ==
    /\ pcs[u] = "reset"
    /\ dirty' = IF resets THEN dirty \ {held[u]} ELSE dirty
    /\ pcs' = [pcs EXCEPT ![u] = "push"]
    /\ UNCHANGED <<pool, held, calls, active_count, config, counted, skew>>

(* Under the lock: back into the pool, or destroyed if it is full.         *)
Push(u) ==
    /\ pcs[u] = "push"
    /\ pool' = IF Len(pool) < MaxSize THEN Append(pool, held[u]) ELSE pool
    /\ held' = [held EXCEPT ![u] = Nothing]
    /\ pcs' = [pcs EXCEPT ![u] = "idle"]
    /\ UNCHANGED <<calls, active_count, dirty, config, counted, skew>>

(* reserve(), populate(): new objects up to the limit.  clear(): none.     *)
Populate ==
    /\ pool = <<>> /\ MaxSize > 0
    /\ \E o \in Fresh : pool' = <<o>> /\ dirty' = dirty \ {o}
    /\ UNCHANGED <<held, pcs, calls, active_count, config, counted, skew>>

Clear ==
    /\ pool # <<>>
    /\ pool' = <<>>
    /\ UNCHANGED <<held, pcs, calls, active_count, dirty, config, counted, skew>>

Next ==
    \/ \E u \in Users :
        \/ AcquirePooled(u) \/ AcquireNew(u) \/ Use(u) \/ Release(u) \/ Detach(u)
        \/ CountRelease(u) \/ Reset(u) \/ Push(u)
    \/ Populate \/ Clear
    \/ (\A u \in Users : pcs[u] = "idle") /\ UNCHANGED vars

Spec == Init /\ [][Next]_vars

-----------------------------------------------------------------------------
(* What waits in a pool that was given a reset function has been reset: no *)
(* thread is handed an object with another one's data, though resetting    *)
(* happens outside the lock.  Without the function, which is the default,  *)
(* an object comes out as its last user left it.                           *)
CleanInPool == resets => InPool \cap dirty = {}

(* An object has one place: no two handles hold it, and none does while    *)
(* the pool has it.                                                        *)
OnePlace ==
    /\ \A i, j \in DOMAIN pool : i # j => pool[i] # pool[j]
    /\ \A u, v \in Users : u # v /\ held[u] # Nothing => held[u] # held[v]
    /\ InPool \cap Out = {}

(* What active_count() says: the number of objects out that were counted   *)
(* when they were handed out and whose release has not passed the counter, *)
(* and one more for each of these that was detached or not reused, and one *)
(* less for each object that comes back though the pool did not count it   *)
(* (an empty pool counts none).  With fewer of the former than of the      *)
(* latter it falls below zero, and wraps around.                           *)
ActiveCountsOut == active_count = (Cardinality(counted) + skew) % Modulus
=============================================================================
