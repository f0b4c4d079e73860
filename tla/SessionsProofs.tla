--------------------------- MODULE SessionsProofs ---------------------------
(* Proofs about module Sessions, for any set of requests, any clock and    *)
(* any MaxAge.                                                             *)
EXTENDS Sessions, TLAPS

Creating(r) == pc[r] = "handler" /\ sess[r] = <<r, "new">>

(* The id and the copy of a request that has not begun are not in use.     *)
Unused ==
    \A r \in Requests :
        /\ pc[r] = "idle" =>
              /\ ~Stored(r) /\ r \notin issued /\ r \notin gone /\ content[r] = {}
              /\ \A q \in Requests : ~Holds(q, r)
        /\ pc[r] \in {"idle", "handler"} =>
              /\ \A q \in Requests : sess[q] # <<r, "copy">>
              /\ \A id \in Requests : Stored(id) => store[id].session # <<r, "copy">>

(* A request has a session it created, or a copy from the store.           *)
Owned ==
    \A r \in Requests :
        \/ sess[r] = <<r, "new">> /\ (pc[r] = "handler" => Id(r) = r)
        \/ pc[r] # "idle" /\ \E q \in Requests : sess[r] = <<q, "copy">>

(* The store has copies, each under its own id.                            *)
Filed ==
    \A id \in Requests : Stored(id) =>
        /\ heap[store[id].session].id = id
        /\ \E q \in Requests : store[id].session = <<q, "copy">>

(* Until it is erased there is one object of a session: its creator's, and *)
(* once that is saved the one in the store.                                *)
OneObject ==
    \A id \in Requests \ gone : \A r \in Requests : Holds(r, id) =>
        \/ Stored(id) /\ sess[r] = store[id].session
        \/ ~Stored(id) /\ r = id /\ Creating(r)

(* What is in it, and what is still to be saved.                           *)
Contents ==
    \A id \in Requests \ gone :
        /\ Stored(id) => heap[store[id].session].data = content[id]
        /\ Creating(id) =>
              /\ heap[<<id, "new">>].data = content[id]
              /\ ~heap[<<id, "new">>].modified => content[id] = {}

Issued ==
    \A id \in issued \ gone :
        /\ ~Creating(id)
        /\ content[id] # {} => Stored(id)

Renewed ==
    \A id \in Requests :
        /\ written[id] <= now
        /\ id \notin gone /\ Stored(id) /\ ~heap[store[id].session].modified =>
              store[id].expires >= written[id] + MaxAge

IInv ==
    /\ TypeOK /\ Unused /\ Owned /\ Filed
    /\ OneObject /\ Contents /\ Issued /\ Renewed

-----------------------------------------------------------------------------
(* What each update does to the objects *)

Same(o) == heap'[o] = heap[o]

LEMMA Modified ==
    ASSUME TypeOK, NEW o \in Objects, NEW data \in SUBSET Requests,
           heap' = [heap EXCEPT ![o].data = data, ![o].modified = TRUE]
    PROVE  /\ heap' \in [Objects -> Session]
           /\ heap'[o].id = heap[o].id
           /\ heap'[o].data = data
           /\ heap'[o].modified = TRUE
           /\ \A p \in Objects \ {o} : Same(p)
<1>1. heap \in [Objects -> Session]
  BY DEF TypeOK
<1>2. /\ heap' = [p \in Objects |->
                    IF p = o THEN [heap[o] EXCEPT !.data = data, !.modified = TRUE]
                    ELSE heap[p]]
      /\ heap[o] \in Session
  BY <1>1
<1>3. [heap[o] EXCEPT !.data = data, !.modified = TRUE] \in Session
  BY <1>2 DEF Session
<1> QED
  BY <1>1, <1>2, <1>3 DEF Session, Same

LEMMA Touched ==
    ASSUME TypeOK, NEW o \in Objects, Touch(o)
    PROVE  /\ heap' \in [Objects -> Session]
           /\ \A p \in Objects : /\ heap'[p].id = heap[p].id
                                 /\ heap'[p].data = heap[p].data
                                 /\ heap'[p].modified = heap[p].modified
<1>1. heap \in [Objects -> Session] /\ now \in Nat
  BY DEF TypeOK
<1>2. heap' = [p \in Objects |->
                  IF p = o THEN [heap[o] EXCEPT !.last_accessed = now] ELSE heap[p]]
  BY <1>1 DEF Touch
<1>3. \A p \in Objects : heap[p] \in Session
  BY <1>1
<1> QED
  BY <1>1, <1>2, <1>3 DEF Session

LEMMA Created ==
    ASSUME TypeOK, NEW r \in Requests, NEW id \in Requests, Create(r, id)
    PROVE  /\ heap' \in [Objects -> Session]
           /\ heap'[<<r, "new">>].id = r
           /\ heap'[<<r, "new">>].data = {}
           /\ \A p \in Objects \ {<<r, "new">>} : Same(p)
<1>1. heap \in [Objects -> Session] /\ now \in Nat /\ <<r, "new">> \in Objects
  BY DEF TypeOK, Objects
<1>2. NewSession(r) \in Session /\ NewSession(r).id = r /\ NewSession(r).data = {}
  BY <1>1 DEF NewSession, Session
<1>3. heap' = [heap EXCEPT ![<<r, "new">>] = NewSession(r)]
  BY DEF Create
<1> QED
  BY <1>1, <1>2, <1>3 DEF Same

LEMMA Saved ==
    ASSUME TypeOK, NEW r \in Requests, Save(r)
    PROVE  /\ SaveTarget(r) \in Objects
           /\ heap' \in [Objects -> Session]
           /\ heap'[SaveTarget(r)].id = Id(r)
           /\ heap'[SaveTarget(r)].data = heap[sess[r]].data
           /\ \A p \in Objects \ {SaveTarget(r)} : Same(p)
           /\ store' \in [Requests -> Entry \cup {NoEntry}]
           /\ store'[Id(r)] = [session |-> SaveTarget(r), expires |-> now + MaxAge]
           /\ \A id \in Requests \ {Id(r)} : store'[id] = store[id]
<1>1. /\ heap \in [Objects -> Session] /\ now \in Nat /\ MaxAge \in Nat
      /\ store \in [Requests -> Entry \cup {NoEntry}]
      /\ sess[r] \in Objects /\ <<r, "copy">> \in Objects
  BY SessionsAssumption DEF TypeOK, Objects
<1>2. heap[sess[r]] \in Session /\ Id(r) \in Requests
  BY <1>1 DEF Session, Id
<1>3. SaveTarget(r) \in Objects
  BY <1>1, <1>2 DEF SaveTarget, Entry
<1>4. /\ [heap[sess[r]] EXCEPT !.modified = FALSE] \in Session
      /\ [heap[sess[r]] EXCEPT !.modified = FALSE].id = Id(r)
      /\ [heap[sess[r]] EXCEPT !.modified = FALSE].data = heap[sess[r]].data
  BY <1>2 DEF Session, Id
<1>5. heap' = [heap EXCEPT ![SaveTarget(r)] = [heap[sess[r]] EXCEPT !.modified = FALSE]]
  BY DEF Save
<1>6. [session |-> SaveTarget(r), expires |-> now + MaxAge] \in Entry
  BY <1>1, <1>3 DEF Entry
<1> QED
  BY <1>1, <1>2, <1>3, <1>4, <1>5, <1>6 DEF Same, Save

(* Sessions leave the store for gone, or stay.                             *)
Shrinks ==
    /\ store' \in [Requests -> Entry \cup {NoEntry}]
    /\ gone \subseteq gone' /\ gone' \subseteq Requests
    /\ \A id \in Requests :
          \/ store'[id] = store[id] /\ (id \in gone' => id \in gone)
          \/ Stored(id) /\ store'[id] = NoEntry /\ id \in gone'

LEMMA Erased ==
    ASSUME TypeOK, NEW ids \in SUBSET Requests, Erase(ids)
    PROVE  Shrinks
BY DEF TypeOK, Erase, Shrinks, Stored

-----------------------------------------------------------------------------
(* Each action preserves the invariant *)

(* Handlers write to the one object there is, or to one of a session that  *)
(* was erased.                                                             *)
LEMMA ModifyPreserves ==
    ASSUME IInv, NEW r \in Requests,
           NEW data \in SUBSET Requests, NEW update \in SUBSET Requests,
           heap[sess[r]].data = content[Id(r)] => data = update,
           Modify(r, data, update)
    PROVE  IInv'
<1> DEFINE o == sess[r]
           id == Id(r)
<1>0. /\ TypeOK /\ Unused /\ Owned /\ Filed
      /\ OneObject /\ Contents /\ Issued /\ Renewed
  BY DEF IInv
<1>1. /\ pc[r] = "handler"
      /\ UNCHANGED <<now, store, gone, pc, sess, issued>>
      /\ content' = [content EXCEPT ![id] = update]
      /\ written' = [written EXCEPT ![id] = now]
  BY DEF Modify, storeVars
<1>2. o \in Objects /\ id \in Requests
  BY <1>0 DEF TypeOK, Session, Id
<1>3. /\ heap' \in [Objects -> Session]
      /\ heap'[o].id = id
      /\ heap'[o].data = data
      /\ heap'[o].modified = TRUE
      /\ \A p \in Objects \ {o} : heap'[p] = heap[p]
  BY <1>0, <1>2, Modified DEF Modify, Same, Id
<1>4. \A p \in Objects : heap'[p].id = heap[p].id
  BY <1>2, <1>3 DEF Id
<1>5. \A q \in Requests : Id(q)' = Id(q) /\ (\A k \in Requests : Holds(q, k)' <=> Holds(q, k))
  BY <1>0, <1>1, <1>4 DEF Id, Holds, TypeOK
<1>6. /\ content'[id] = update /\ written'[id] = now
      /\ \A k \in Requests \ {id} : content'[k] = content[k] /\ written'[k] = written[k]
  BY <1>0, <1>1, <1>2 DEF TypeOK
<1>7. TypeOK'
  BY <1>0, <1>1, <1>2, <1>3 DEF TypeOK
<1>8. Unused'
  <2>1. ASSUME NEW k \in Requests, pc[k] = "idle"
        PROVE  content'[k] = {}
    <3>1. ~Holds(r, k)
      BY <1>0, <2>1 DEF Unused
    <3>2. k # id
      BY <1>1, <3>1 DEF Holds
    <3> QED
      BY <1>0, <1>6, <2>1, <3>2 DEF Unused
  <2> QED
    BY <1>0, <1>1, <1>5, <2>1 DEF Unused, Stored
<1>9. Owned'
  BY <1>0, <1>1, <1>5 DEF Owned
<1>10. Filed'
  BY <1>0, <1>1, <1>4 DEF Filed, Stored, TypeOK, Entry
<1>11. OneObject'
  BY <1>0, <1>1, <1>5 DEF OneObject, Stored, Creating
<1>12. Contents'
  <2> SUFFICES ASSUME NEW k \in Requests \ gone
               PROVE  /\ Stored(k) => heap'[store[k].session].data = content'[k]
                      /\ Creating(k) =>
                           /\ heap'[<<k, "new">>].data = content'[k]
                           /\ ~heap'[<<k, "new">>].modified => content'[k] = {}
    BY <1>1 DEF Contents, Stored, Creating
  <2>1. CASE k = id
    <3>1. Holds(r, k)
      BY <1>1, <2>1 DEF Holds
    <3>2. CASE Stored(k) /\ o = store[k].session
      <4>1. heap[o].data = content[id]
        BY <1>0, <2>1, <3>2 DEF Contents
      <4>2. ~Creating(k)
        BY <1>0, <3>2, <3>1 DEF OneObject, Creating, Holds, Owned, Filed
      <4> QED
        BY <1>3, <1>6, <2>1, <3>2, <4>1, <4>2
    <3>3. CASE ~Stored(k) /\ r = k /\ Creating(k)
      <4>1. o = <<k, "new">>
        BY <3>3 DEF Creating
      <4>2. heap[o].data = content[id]
        BY <1>0, <2>1, <3>3, <4>1 DEF Contents
      <4> QED
        BY <1>3, <1>6, <2>1, <3>3, <4>1, <4>2
    <3> QED
      BY <1>0, <3>1, <3>2, <3>3 DEF OneObject
  <2>2. CASE k # id
    <3>1. ASSUME Stored(k) PROVE store[k].session \in Objects \ {o}
      BY <1>0, <2>2, <3>1 DEF Filed, Id, TypeOK, Entry, Stored
    <3>2. ASSUME Creating(k) PROVE <<k, "new">> \in Objects \ {o}
      <4>1. k # r
        BY <1>0, <1>1, <2>2, <3>2 DEF Creating, Owned, Id
      <4> QED
        BY <1>0, <4>1 DEF Owned, Objects
    <3> QED
      BY <1>0, <1>3, <1>6, <2>2, <3>1, <3>2 DEF Contents
  <2> QED
    BY <2>1, <2>2
<1>13. Issued'
  <2>1. ASSUME id \in issued \ gone PROVE Stored(id)
    BY <1>0, <1>1, <1>2, <2>1 DEF Issued, OneObject, Holds
  <2> QED
    BY <1>0, <1>1, <1>6, <2>1 DEF Issued, Creating, Stored
<1>14. Renewed'
  <2> SUFFICES ASSUME NEW k \in Requests
               PROVE  /\ written'[k] <= now
                      /\ k \notin gone /\ Stored(k) /\ ~heap'[store[k].session].modified =>
                           store[k].expires >= written'[k] + MaxAge
    BY <1>1 DEF Renewed, Stored
  <2>1. CASE k = id
    <3>1. ASSUME k \notin gone, Stored(k) PROVE store[k].session = o
      BY <1>0, <1>1, <2>1, <3>1 DEF OneObject, Holds
    <3> QED
      BY <1>0, <1>3, <1>6, <2>1, <3>1 DEF TypeOK
  <2>2. CASE k # id
    <3>1. ASSUME Stored(k) PROVE store[k].session \in Objects \ {o}
      BY <1>0, <2>2, <3>1 DEF Filed, Id, TypeOK, Entry, Stored
    <3> QED
      BY <1>0, <1>3, <1>6, <2>2, <3>1 DEF Renewed
  <2> QED
    BY <2>1, <2>2
<1> QED
  BY <1>7, <1>8, <1>9, <1>10, <1>11, <1>12, <1>13, <1>14 DEF IInv

LEMMA SetPreserves ==
    ASSUME IInv, NEW r \in Requests, Set(r)
    PROVE  IInv'
<1>1. heap[sess[r]].data \in SUBSET Requests /\ Id(r) \in Requests
  BY DEF IInv, TypeOK, Session, Id
<1>2. content[Id(r)] \in SUBSET Requests
  BY <1>1 DEF IInv, TypeOK
<1> QED
  BY <1>1, <1>2, ModifyPreserves DEF Set

LEMMA RemovePreserves ==
    ASSUME IInv, NEW r \in Requests, Remove(r)
    PROVE  IInv'
<1>1. heap[sess[r]].data \in SUBSET Requests /\ Id(r) \in Requests
  BY DEF IInv, TypeOK, Session, Id
<1>2. content[Id(r)] \in SUBSET Requests
  BY <1>1 DEF IInv, TypeOK
<1>3. PICK keys \in SUBSET heap[sess[r]].data \ {{}} :
         Modify(r, heap[sess[r]].data \ keys, content[Id(r)] \ keys)
  BY DEF Remove
<1>4. /\ heap[sess[r]].data \ keys \in SUBSET Requests
      /\ content[Id(r)] \ keys \in SUBSET Requests
  BY <1>1, <1>2
<1> QED
  BY <1>3, <1>4, ModifyPreserves

(* What a step that only erases leaves alone.                              *)
LEMMA ErasePreserves ==
    ASSUME IInv, NEW ids \in SUBSET Requests, Erase(ids),
           UNCHANGED <<now, pc, sess, issued, handlerVars>>
    PROVE  IInv'
<1>0. /\ TypeOK /\ Unused /\ Owned /\ Filed
      /\ OneObject /\ Contents /\ Issued /\ Renewed
  BY DEF IInv
<1>1. UNCHANGED <<now, pc, sess, issued, heap, content, written>>
  BY DEF handlerVars
<1>2. Shrinks
  BY <1>0, Erased
<1>3. \A id \in Requests : Stored(id)' => Stored(id) /\ store'[id] = store[id]
  BY <1>2 DEF Shrinks, Stored
<1>4. /\ gone \subseteq gone'
      /\ \A id \in Requests \ gone' : id \notin gone /\ store'[id] = store[id]
  BY <1>2 DEF Shrinks
<1>5. /\ \A q \in Requests : Id(q)' = Id(q)
      /\ \A q \in Requests, k \in Requests : Holds(q, k)' = Holds(q, k)
  BY <1>1 DEF Id, Holds
<1>6. TypeOK'
  BY <1>0, <1>1, <1>2 DEF TypeOK, Shrinks
<1>7. Unused'
  <2>1. ASSUME NEW k \in Requests, pc[k] = "idle"
        PROVE  k \notin gone' /\ ~Stored(k)'
    BY <1>0, <1>2, <1>3, <2>1 DEF Unused, Shrinks
  <2> QED
    BY <1>0, <1>1, <1>3, <1>5, <2>1 DEF Unused
<1>8. Owned'
  BY <1>0, <1>1, <1>5 DEF Owned
<1>9. Filed'
  BY <1>0, <1>1, <1>3 DEF Filed
<1>10. OneObject'
  BY <1>0, <1>1, <1>4, <1>5 DEF OneObject, Stored, Creating
<1>11. Contents'
  BY <1>0, <1>1, <1>4 DEF Contents, Stored, Creating
<1>12. Issued'
  BY <1>0, <1>1, <1>4 DEF Issued, Stored, Creating, TypeOK
<1>13. Renewed'
  BY <1>0, <1>1, <1>4 DEF Renewed, Stored
<1> QED
  BY <1>6, <1>7, <1>8, <1>9, <1>10, <1>11, <1>12, <1>13 DEF IInv

LEMMA DestroyPreserves ==
    ASSUME IInv, NEW r \in Requests, Destroy(r)
    PROVE  IInv'
<1>1. {Id(r)} \in SUBSET Requests
  BY DEF IInv, TypeOK, Session, Id
<1> QED
  BY <1>1, ErasePreserves DEF Destroy

LEMMA CleanupPreserves ==
    ASSUME IInv, Cleanup
    PROVE  IInv'
BY ErasePreserves DEF Cleanup

LEMMA ThrowPreserves ==
    ASSUME IInv, NEW r \in Requests, Throw(r)
    PROVE  IInv'
<1>0. /\ TypeOK /\ Unused /\ Owned /\ Filed
      /\ OneObject /\ Contents /\ Issued /\ Renewed
  BY DEF IInv
<1>1. /\ pc[r] = "handler" /\ pc' = [pc EXCEPT ![r] = "threw"]
      /\ UNCHANGED <<now, store, gone, sess, issued, heap, content, written>>
  BY DEF Throw, storeVars, handlerVars
<1>2. \A q \in Requests : /\ Id(q)' = Id(q) /\ Stored(q)' = Stored(q)
                          /\ Creating(q)' => Creating(q)
                          /\ pc'[q] = "idle" <=> pc[q] = "idle"
                          /\ pc'[q] = "handler" => pc[q] = "handler"
  BY <1>0, <1>1 DEF Id, Stored, Creating, TypeOK
<1>3. \A q \in Requests, k \in Requests : Holds(q, k)' => Holds(q, k) /\ q # r
  BY <1>0, <1>1, <1>2 DEF Holds, TypeOK
<1>4. TypeOK'
  BY <1>0, <1>1 DEF TypeOK
<1>5. Unused'
  BY <1>0, <1>1, <1>2, <1>3 DEF Unused
<1>6. Owned'
  BY <1>0, <1>1, <1>2 DEF Owned
<1>7. Filed'
  BY <1>0, <1>1, <1>2 DEF Filed
<1>8. OneObject'
  BY <1>0, <1>1, <1>2, <1>3 DEF OneObject, Creating, TypeOK
<1>9. Contents'
  BY <1>0, <1>1, <1>2 DEF Contents
<1>10. Issued'
  BY <1>0, <1>1, <1>2 DEF Issued, TypeOK
<1>11. Renewed'
  BY <1>0, <1>1, <1>2 DEF Renewed
<1> QED
  BY <1>4, <1>5, <1>6, <1>7, <1>8, <1>9, <1>10, <1>11 DEF IInv

LEMMA TickPreserves ==
    ASSUME IInv, Tick
    PROVE  IInv'
<1>0. /\ TypeOK /\ Unused /\ Owned /\ Filed
      /\ OneObject /\ Contents /\ Issued /\ Renewed
  BY DEF IInv
<1>1. /\ now < MaxTime /\ now' = now + 1
      /\ UNCHANGED <<store, gone, pc, sess, issued, heap, content, written>>
  BY DEF Tick, storeVars, handlerVars
<1>2. TypeOK'
  BY <1>0, <1>1, SessionsAssumption DEF TypeOK
<1>3. Renewed'
  BY <1>0, <1>1, SessionsAssumption DEF Renewed, TypeOK, Stored
<1>4. Unused' /\ Owned' /\ Filed'
  BY <1>0, <1>1 DEF Unused, Owned, Filed, Stored, Holds, Id
<1>5. OneObject' /\ Contents' /\ Issued'
  BY <1>0, <1>1 DEF OneObject, Contents, Issued, Stored, Holds, Id, Creating
<1> QED
  BY <1>2, <1>3, <1>4, <1>5 DEF IInv

(* The three ways into the handler differ in what they do to the objects   *)
(* and the store, and in the session that the request gets.                *)
LEMMA LoadedPreserves ==
    ASSUME IInv, NEW r \in Requests, pc[r] = "idle", NEW id \in issued,
           BeginLoaded(r, id),
           pc' = [pc EXCEPT ![r] = "handler"],
           UNCHANGED <<now, issued, content, written>>
    PROVE  IInv'
<1> DEFINE o == store[id].session
<1>0. /\ TypeOK /\ Unused /\ Owned /\ Filed
      /\ OneObject /\ Contents /\ Issued /\ Renewed
  BY DEF IInv
<1>1. /\ Stored(id) /\ id \in Requests
      /\ sess' = [sess EXCEPT ![r] = o]
      /\ UNCHANGED <<store, gone>>
  BY <1>0 DEF BeginLoaded, Loadable, Stored, storeVars, TypeOK
<1>2. o \in Objects /\ heap[o].id = id /\ \E q \in Requests : o = <<q, "copy">>
  BY <1>0, <1>1 DEF TypeOK, Stored, Entry, Filed
<1>3. /\ heap' \in [Objects -> Session]
      /\ \A p \in Objects : /\ heap'[p].id = heap[p].id
                            /\ heap'[p].data = heap[p].data
                            /\ heap'[p].modified = heap[p].modified
  BY <1>0, <1>2, Touched DEF BeginLoaded
<1>4. /\ pc'[r] = "handler" /\ sess'[r] = o /\ Id(r)' = id
      /\ \A q \in Requests \ {r} :
            /\ pc'[q] = pc[q] /\ sess'[q] = sess[q] /\ Id(q)' = Id(q)
      /\ \A k \in Requests : Stored(k)' = Stored(k)
  BY <1>0, <1>1, <1>2, <1>3 DEF TypeOK, Id, Stored
<1>5. \A q \in Requests, k \in Requests :
         Holds(q, k)' <=> IF q = r THEN k = id ELSE Holds(q, k)
  BY <1>4 DEF Holds
<1>6. \A k \in Requests : Creating(k)' => Creating(k) /\ k # r
  BY <1>2, <1>4 DEF Creating
<1>7. TypeOK'
  BY <1>0, <1>1, <1>2, <1>3 DEF TypeOK
<1>8. Unused'
  <2>1. \A k \in Requests : pc'[k] = "idle" => pc[k] = "idle" /\ k # id
    BY <1>0, <1>1, <1>4 DEF Unused
  <2>2. \A k \in Requests : pc'[k] \in {"idle", "handler"} => pc[k] \in {"idle", "handler"}
    BY <1>4
  <2>3. \A k \in Requests : pc'[k] \in {"idle", "handler"} => o # <<k, "copy">>
    BY <1>0, <1>1, <2>2 DEF Unused
  <2> QED
    BY <1>0, <1>1, <1>4, <1>5, <2>1, <2>2, <2>3 DEF Unused
<1>9. Owned'
  BY <1>0, <1>2, <1>4 DEF Owned
<1>10. Filed'
  BY <1>0, <1>1, <1>3, <1>4 DEF Filed, TypeOK, Entry, Stored
<1>11. OneObject'
  <2>1. \A k \in Requests : Creating(k) => Creating(k)' \/ k = r
    BY <1>4 DEF Creating
  <2>2. ~Creating(r)
    BY DEF Creating
  <2> QED
    BY <1>0, <1>1, <1>4, <1>5, <2>1, <2>2 DEF OneObject
<1>12. Contents'
  <2>1. \A k \in Requests : <<k, "new">> \in Objects
    BY DEF Objects
  <2>2. \A k \in Requests : Stored(k) => store[k].session \in Objects
    BY <1>0 DEF TypeOK, Entry, Stored
  <2>3. ASSUME NEW k \in Requests \ gone, Stored(k)
        PROVE  heap'[store[k].session].data = content[k]
    BY <1>0, <1>3, <2>2, <2>3 DEF Contents
  <2>4. ASSUME NEW k \in Requests \ gone, Creating(k)
        PROVE  /\ heap'[<<k, "new">>].data = content[k]
               /\ ~heap'[<<k, "new">>].modified => content[k] = {}
    BY <1>0, <1>3, <2>1, <2>4 DEF Contents
  <2> QED
    BY <1>1, <1>4, <1>6, <2>3, <2>4 DEF Contents
<1>13. Issued'
  BY <1>0, <1>1, <1>4, <1>6 DEF Issued, TypeOK
<1>14. Renewed'
  <2>1. \A k \in Requests : Stored(k) => store[k].session \in Objects
    BY <1>0 DEF TypeOK, Entry, Stored
  <2> QED
    BY <1>0, <1>1, <1>3, <1>4, <2>1 DEF Renewed
<1> QED
  BY <1>7, <1>8, <1>9, <1>10, <1>11, <1>12, <1>13, <1>14 DEF IInv

(* A request that creates its session finds its own object unused, also    *)
(* if it erased one that had expired.                                      *)
LEMMA CreatePreserves ==
    ASSUME IInv, NEW r \in Requests, pc[r] = "idle", NEW k \in Requests,
           Create(r, k), Shrinks,
           pc' = [pc EXCEPT ![r] = "handler"],
           UNCHANGED <<now, sess, issued, content, written>>
    PROVE  IInv'
<1> DEFINE o == <<r, "new">>
<1>0. /\ TypeOK /\ Unused /\ Owned /\ Filed
      /\ OneObject /\ Contents /\ Issued /\ Renewed
  BY DEF IInv
<1>1. UNCHANGED <<now, sess, issued, content, written>>
  OBVIOUS
<1>2. /\ heap' \in [Objects -> Session]
      /\ heap'[o].id = r
      /\ heap'[o].data = {}
      /\ \A p \in Objects \ {o} : heap'[p] = heap[p]
  BY <1>0, Created DEF Same
<1>3. sess[r] = o /\ ~Stored(r) /\ r \notin gone /\ r \notin issued /\ content[r] = {}
  BY <1>0 DEF Owned, Unused
<1>4. \A q \in Requests \ {r} : sess[q] \in Objects \ {o}
  BY <1>0 DEF Owned, TypeOK
<1>5. \A id \in Requests : Stored(id) => store[id].session \in Objects \ {o}
  BY <1>0 DEF Filed, TypeOK, Entry, Stored
<1>6. /\ pc'[r] = "handler" /\ Id(r)' = r
      /\ \A q \in Requests \ {r} : pc'[q] = pc[q] /\ Id(q)' = Id(q)
  BY <1>0, <1>1, <1>2, <1>3, <1>4 DEF TypeOK, Id
<1>7. /\ \A q \in Requests, id \in Requests :
            Holds(q, id)' <=> IF q = r THEN id = r ELSE Holds(q, id)
      /\ \A q \in Requests : Creating(q)' <=> q = r \/ Creating(q)
  BY <1>1, <1>3, <1>6 DEF Holds, Creating
<1>8. /\ \A id \in Requests : Stored(id)' => Stored(id) /\ store'[id] = store[id]
      /\ \A id \in Requests \ gone' :
            id \notin gone /\ store'[id] = store[id] /\ Stored(id)' = Stored(id)
      /\ gone \subseteq gone'
      /\ \A id \in Requests : ~Stored(id) /\ id \notin gone => id \notin gone'
  BY DEF Shrinks, Stored
<1>9. TypeOK'
  BY <1>0, <1>1, <1>2 DEF TypeOK, Shrinks
<1>10. Unused'
  <2>1. \A q \in Requests : pc'[q] = "idle" => pc[q] = "idle" /\ q # r
    BY <1>6
  <2>2. \A q \in Requests : pc'[q] \in {"idle", "handler"} => pc[q] \in {"idle", "handler"}
    BY <1>6
  <2> QED
    BY <1>0, <1>1, <1>7, <1>8, <2>1, <2>2 DEF Unused
<1>11. Owned'
  BY <1>0, <1>1, <1>3, <1>6 DEF Owned
<1>12. Filed'
  BY <1>0, <1>1, <1>2, <1>5, <1>8 DEF Filed
<1>13. OneObject'
  <2>1. \A q \in Requests : ~Holds(q, r)
    BY <1>0 DEF Unused
  <2> QED
    BY <1>0, <1>1, <1>3, <1>7, <1>8, <2>1 DEF OneObject
<1>14. Contents'
  <2> SUFFICES ASSUME NEW id \in Requests \ gone'
               PROVE  /\ Stored(id)' => heap'[store'[id].session].data = content[id]
                      /\ Creating(id)' =>
                           /\ heap'[<<id, "new">>].data = content[id]
                           /\ ~heap'[<<id, "new">>].modified => content[id] = {}
    BY <1>1 DEF Contents
  <2>1. CASE id = r
    BY <1>2, <1>3, <1>8, <2>1
  <2>2. CASE id # r
    <3>1. <<id, "new">> \in Objects \ {o}
      BY <2>2 DEF Objects
    <3> QED
      BY <1>0, <1>2, <1>5, <1>7, <1>8, <2>2, <3>1 DEF Contents
  <2> QED
    BY <2>1, <2>2
<1>15. Issued'
  BY <1>0, <1>1, <1>3, <1>7, <1>8 DEF Issued, TypeOK
<1>16. Renewed'
  BY <1>0, <1>1, <1>2, <1>5, <1>8 DEF Renewed
<1> QED
  BY <1>9, <1>10, <1>11, <1>12, <1>13, <1>14, <1>15, <1>16 DEF IInv

LEMMA BeginPreserves ==
    ASSUME IInv, NEW r \in Requests, Begin(r)
    PROVE  IInv'
<1>1. /\ pc[r] = "idle" /\ pc' = [pc EXCEPT ![r] = "handler"]
      /\ UNCHANGED <<now, issued, content, written>>
  BY DEF Begin
<1>2. TypeOK /\ issued \subseteq Requests
  BY DEF IInv, TypeOK
<1>3. CASE BeginNew(r)
  <2>1. Shrinks
    BY <1>2, <1>3 DEF BeginNew, storeVars, Shrinks, TypeOK
  <2> QED
    BY <1>1, <1>3, <2>1, CreatePreserves DEF BeginNew
<1>4. ASSUME NEW id \in issued, BeginMissing(r, id)
      PROVE  IInv'
  <2>1. id \in Requests /\ {id} \in SUBSET Requests
    BY <1>2
  <2>2. Shrinks
    BY <1>2, <1>4, <2>1, Erased DEF BeginMissing
  <2> QED
    BY <1>1, <1>4, <2>1, <2>2, CreatePreserves DEF BeginMissing
<1>5. ASSUME NEW id \in issued, BeginLoaded(r, id)
      PROVE  IInv'
  BY <1>1, <1>5, LoadedPreserves
<1> QED
  BY <1>3, <1>4, <1>5 DEF Begin

(* Where save() copies to: the object of this session in the store, or one *)
(* that nobody has.                                                        *)
LEMMA TargetUnshared ==
    ASSUME IInv, NEW r \in Requests, pc[r] = "handler"
    PROVE  /\ Stored(Id(r)) =>
                 /\ SaveTarget(r) = store[Id(r)].session
                 /\ heap[SaveTarget(r)].id = Id(r)
           /\ ~Stored(Id(r)) =>
                 /\ SaveTarget(r) = <<r, "copy">>
                 /\ \A q \in Requests : sess[q] # SaveTarget(r)
           /\ \A id \in Requests \ {Id(r)} :
                 Stored(id) => store[id].session # SaveTarget(r)
           /\ \E q \in Requests : SaveTarget(r) = <<q, "copy">>
<1>0. Unused /\ Filed /\ TypeOK
  BY DEF IInv
<1>1. Id(r) \in Requests
  BY <1>0 DEF TypeOK, Session, Id
<1>2. CASE Stored(Id(r))
  BY <1>0, <1>1, <1>2 DEF SaveTarget, Stored, Filed
<1>3. CASE ~Stored(Id(r))
  BY <1>0, <1>1, <1>3 DEF SaveTarget, Stored, Unused
<1> QED
  BY <1>2, <1>3

(* While the creator of a session has it nobody else does.                 *)
LEMMA CreatorAlone ==
    ASSUME IInv, NEW k \in Requests \ gone, Creating(k), NEW r \in Requests, Holds(r, k)
    PROVE  r = k /\ ~Stored(k)
<1>0. Owned /\ Filed /\ OneObject
  BY DEF IInv
<1>1. Holds(k, k)
  BY <1>0 DEF Owned, Creating, Holds
<1>2. ~(Stored(k) /\ sess[k] = store[k].session)
  BY <1>0 DEF Filed, Creating
<1>3. ~Stored(k)
  BY <1>0, <1>1, <1>2 DEF OneObject
<1> QED
  BY <1>0, <1>3 DEF OneObject

LEMMA FinishPreserves ==
    ASSUME IInv, NEW r \in Requests, Finish(r)
    PROVE  IInv'
<1> DEFINE o == sess[r]
           t == SaveTarget(r)
<1>0. /\ TypeOK /\ Unused /\ Owned /\ Filed
      /\ OneObject /\ Contents /\ Issued /\ Renewed
  BY DEF IInv
<1>1. /\ pc[r] = "handler" /\ pc' = [pc EXCEPT ![r] = "returned"]
      /\ UNCHANGED <<now, sess, content, written, gone>>
  BY DEF Finish
<1>2. o \in Objects /\ Id(r) \in Requests /\ Holds(r, Id(r))
  BY <1>0, <1>1 DEF TypeOK, Session, Id, Holds
<1>id. PICK id \in Requests : id = Id(r) /\ Holds(r, id)
  BY <1>2
<1>3. /\ Stored(id) => t = store[id].session /\ heap[t].id = id
      /\ ~Stored(id) => t = <<r, "copy">> /\ \A q \in Requests : sess[q] # t
      /\ \A k \in Requests \ {id} : Stored(k) => store[k].session # t
      /\ \E q \in Requests : t = <<q, "copy">>
  BY <1>1, <1>id, TargetUnshared
<1>4. /\ pc'[r] = "returned"
      /\ \A q \in Requests \ {r} : pc'[q] = pc[q]
  BY <1>0, <1>1 DEF TypeOK
<1>5. /\ issued \subseteq issued' /\ issued' \subseteq issued \cup {id}
  BY <1>id DEF Finish, Issue
<1>6. ASSUME Save(r)
      PROVE  /\ heap' \in [Objects -> Session]
             /\ store' \in [Requests -> Entry \cup {NoEntry}]
             /\ t \in Objects /\ heap'[t].id = id /\ heap'[t].data = heap[o].data
             /\ \A p \in Objects \ {t} : heap'[p] = heap[p]
             /\ Stored(id)' /\ store'[id].session = t
             /\ store'[id].expires = now + MaxAge
             /\ \A k \in Requests \ {id} : store'[k] = store[k] /\ Stored(k)' = Stored(k)
  <2>1. /\ t \in Objects
        /\ heap' \in [Objects -> Session]
        /\ heap'[t].id = id
        /\ heap'[t].data = heap[o].data
        /\ \A p \in Objects \ {t} : heap'[p] = heap[p]
        /\ store' \in [Requests -> Entry \cup {NoEntry}]
        /\ store'[id] = [session |-> t, expires |-> now + MaxAge]
        /\ \A k \in Requests \ {id} : store'[k] = store[k]
    BY <1>0, <1>id, <1>6, Saved DEF Same
  <2>2. now \in Nat /\ MaxAge \in Nat /\ NoEntry \notin Entry
    BY <1>0, SessionsAssumption DEF TypeOK
  <2>3. store'[id] \in Entry
    BY <2>1, <2>2 DEF Entry
  <2> HIDE DEF t, o
  <2>4. store'[id] # NoEntry
    BY <2>2, <2>3
  <2>5. Stored(id)'
    BY <2>4 DEF Stored
  <2>6. \A k \in Requests \ {id} : Stored(k)' = Stored(k)
    BY <2>1 DEF Stored
  <2>7. store'[id].session = t /\ store'[id].expires = now + MaxAge
    BY <2>1
  <2> QED
    BY <2>1, <2>5, <2>6, <2>7
<1> HIDE DEF t
<1>7. CASE heap[o].modified /\ Save(r)
  <2>1. \A q \in Requests : sess[q] \in Objects /\ heap'[sess[q]].id = heap[sess[q]].id
    BY <1>0, <1>3, <1>6, <1>7 DEF TypeOK
  <2>2. \A q \in Requests : Id(q)' = Id(q)
    BY <1>1, <2>1 DEF Id
  <2>3. \A q \in Requests, k \in Requests : Holds(q, k)' <=> Holds(q, k) /\ q # r
    BY <1>4, <2>2 DEF Holds
  <2>4. \A q \in Requests : Creating(q)' <=> Creating(q) /\ q # r
    BY <1>1, <1>4 DEF Creating
  <2>5. \A k \in Requests : Stored(k) => store[k].session \in Objects
    BY <1>0 DEF TypeOK, Entry, Stored
  <2>6. \A k \in Requests : <<k, "new">> \in Objects \ {t}
    <3>1. PICK q \in Requests : t = <<q, "copy">>
      BY <1>3
    <3> QED
      BY <3>1 DEF Objects
  <2>7. TypeOK'
    BY <1>0, <1>1, <1>2, <1>id, <1>5, <1>6, <1>7 DEF TypeOK
  <2>8. Unused'
    <3>1. pc[id] # "idle"
      BY <1>0, <1>2, <1>id DEF Unused
    <3>2. \A k \in Requests : pc'[k] = "idle" => pc[k] = "idle" /\ k # id
      BY <1>4, <3>1
    <3>3. \A k \in Requests : pc'[k] \in {"idle", "handler"} =>
             pc[k] \in {"idle", "handler"} /\ k # r
      BY <1>4
    <3>4. \A k \in Requests : pc'[k] \in {"idle", "handler"} => t # <<k, "copy">>
      BY <1>0, <1>2, <1>id, <1>3, <3>3 DEF Unused
    <3>5. ASSUME NEW k \in Requests, pc'[k] = "idle"
          PROVE  /\ ~Stored(k)' /\ k \notin issued' /\ k \notin gone' /\ content'[k] = {}
                 /\ \A q \in Requests : ~Holds(q, k)'
      BY <1>0, <1>1, <1>5, <1>6, <1>7, <2>3, <3>2, <3>5 DEF Unused
    <3>6. ASSUME NEW k \in Requests, pc'[k] \in {"idle", "handler"}
          PROVE  /\ \A q \in Requests : sess'[q] # <<k, "copy">>
                 /\ \A m \in Requests : Stored(m)' => store'[m].session # <<k, "copy">>
      <4>1. /\ \A q \in Requests : sess[q] # <<k, "copy">>
            /\ \A m \in Requests : Stored(m) => store[m].session # <<k, "copy">>
            /\ t # <<k, "copy">>
        BY <1>0, <3>3, <3>4, <3>6 DEF Unused
      <4>2. ASSUME NEW m \in Requests, Stored(m)'
            PROVE  store'[m].session # <<k, "copy">>
        <5>1. CASE m = id
          BY <1>6, <1>7, <4>1, <5>1
        <5>2. CASE m # id
          BY <1>6, <1>7, <4>1, <4>2, <5>2
        <5> QED
          BY <5>1, <5>2
      <4> QED
        BY <1>1, <4>1, <4>2
    <3> QED
      BY <3>5, <3>6 DEF Unused
  <2>9. Owned'
    BY <1>0, <1>1, <1>4, <2>2 DEF Owned
  <2>10. Filed'
    <3> SUFFICES ASSUME NEW k \in Requests, Stored(k)'
                 PROVE  /\ heap'[store'[k].session].id = k
                        /\ \E q \in Requests : store'[k].session = <<q, "copy">>
      BY DEF Filed
    <3>1. CASE k = id
      BY <1>3, <1>6, <1>7, <3>1
    <3>2. CASE k # id
      BY <1>0, <1>3, <1>6, <1>7, <2>5, <3>2 DEF Filed
    <3> QED
      BY <3>1, <3>2
  <2>11. OneObject'
    <3> SUFFICES ASSUME NEW k \in Requests \ gone, NEW q \in Requests, Holds(q, k), q # r
                 PROVE  \/ Stored(k)' /\ sess[q] = store'[k].session
                        \/ ~Stored(k)' /\ q = k /\ Creating(q)'
      BY <1>1, <2>3 DEF OneObject
    <3>1. CASE k = id
      <4>1. CASE Stored(id)
        <5>1. sess[q] = t
          BY <1>0, <1>3, <3>1, <4>1 DEF OneObject
        <5> QED
          BY <1>6, <1>7, <3>1, <5>1
      <4>2. CASE ~Stored(id)
        BY <1>0, <1>2, <1>id, <3>1, <4>2 DEF OneObject
      <4> QED
        BY <4>1, <4>2
    <3>2. CASE k # id
      BY <1>0, <1>6, <1>7, <2>4, <3>2 DEF OneObject
    <3> QED
      BY <3>1, <3>2
  <2>12. Contents'
    <3> SUFFICES ASSUME NEW k \in Requests \ gone
                 PROVE  /\ Stored(k)' => heap'[store'[k].session].data = content[k]
                        /\ Creating(k)' =>
                             /\ heap'[<<k, "new">>].data = content[k]
                             /\ ~heap'[<<k, "new">>].modified => content[k] = {}
      BY <1>1 DEF Contents
    <3>1. Creating(k)' => /\ heap'[<<k, "new">>].data = content[k]
                          /\ ~heap'[<<k, "new">>].modified => content[k] = {}
      BY <1>0, <1>6, <1>7, <2>4, <2>6 DEF Contents
    <3>2. CASE k = id
      <4>1. heap[o].data = content[id]
        <5>1. CASE Stored(id) /\ o = store[id].session
          BY <1>0, <3>2, <5>1 DEF Contents
        <5>2. CASE r = id /\ Creating(r)
          BY <1>0, <3>2, <5>2 DEF Contents, Creating
        <5> QED
          BY <1>0, <1>2, <1>id, <3>2, <5>1, <5>2 DEF OneObject
      <4> QED
        BY <1>6, <1>7, <3>1, <3>2, <4>1
    <3>3. CASE k # id
      BY <1>0, <1>3, <1>6, <1>7, <2>5, <3>1, <3>3 DEF Contents
    <3> QED
      BY <3>2, <3>3
  <2>13. Issued'
    <3> SUFFICES ASSUME NEW k \in issued' \ gone
                 PROVE  ~Creating(k)' /\ (content[k] # {} => Stored(k)')
      BY <1>1 DEF Issued
    <3>1. CASE k = id
      <4>1. Creating(id) => id = r
        BY <1>1, <1>2, <1>id, <3>1, CreatorAlone
      <4>2. ~Creating(k)'
        BY <1>2, <1>id, <2>4, <3>1, <4>1
      <4>3. Stored(k)'
        BY <1>6, <1>7, <3>1
      <4> QED
        BY <4>2, <4>3
    <3>2. CASE k # id
      BY <1>0, <1>5, <1>6, <1>7, <2>4, <3>2 DEF Issued, TypeOK
    <3> QED
      BY <3>1, <3>2
  <2>14. Renewed'
    <3> SUFFICES ASSUME NEW k \in Requests
                 PROVE  /\ written[k] <= now
                        /\ k \notin gone /\ Stored(k)' /\ ~heap'[store'[k].session].modified =>
                             store'[k].expires >= written[k] + MaxAge
      BY <1>1 DEF Renewed
    <3>1. written[k] <= now
      BY <1>0 DEF Renewed
    <3>2. CASE k = id
      BY <1>0, <1>6, <1>7, <3>1, <3>2, SessionsAssumption DEF TypeOK
    <3>3. CASE k # id
      BY <1>0, <1>3, <1>6, <1>7, <2>5, <3>3 DEF Renewed
    <3> QED
      BY <3>2, <3>3
  <2> QED
    BY <2>7, <2>8, <2>9, <2>10, <2>11, <2>12, <2>13, <2>14 DEF IInv
<1>8. CASE ~heap[o].modified /\ UNCHANGED <<heap, store>>
  <2>1. /\ \A q \in Requests : Id(q)' = Id(q) /\ Stored(q)' = Stored(q)
        /\ \A q \in Requests : Creating(q)' <=> Creating(q) /\ q # r
    BY <1>1, <1>4, <1>8 DEF Id, Stored, Creating
  <2>2. \A q \in Requests, k \in Requests : Holds(q, k)' <=> Holds(q, k) /\ q # r
    BY <1>4, <2>1 DEF Holds
  <2>3. TypeOK'
    BY <1>0, <1>1, <1>2, <1>id, <1>5, <1>8 DEF TypeOK
  <2>4. Unused'
    <3>1. pc[id] # "idle"
      BY <1>0, <1>2, <1>id DEF Unused
    <3>2. \A k \in Requests : pc'[k] = "idle" => pc[k] = "idle" /\ k # id
      BY <1>4, <3>1
    <3>3. \A k \in Requests : pc'[k] \in {"idle", "handler"} => pc[k] \in {"idle", "handler"}
      BY <1>4
    <3> QED
      BY <1>0, <1>1, <1>5, <1>8, <2>1, <2>2, <3>2, <3>3 DEF Unused
  <2>5. Owned' /\ Filed'
    BY <1>0, <1>1, <1>4, <1>8, <2>1 DEF Owned, Filed
  <2>6. OneObject'
    BY <1>0, <1>1, <1>8, <2>1, <2>2 DEF OneObject
  <2>7. Contents'
    BY <1>0, <1>1, <1>8, <2>1 DEF Contents
  <2>8. Issued'
    <3> SUFFICES ASSUME NEW k \in issued' \ gone
                 PROVE  ~Creating(k)' /\ (content[k] # {} => Stored(k))
      BY <1>1, <1>8 DEF Issued, Stored
    <3>1. CASE k = id
      <4>1. Creating(id) => id = r
        BY <1>1, <1>2, <1>id, <3>1, CreatorAlone
      <4>2. Stored(id) \/ content[id] = {}
        BY <1>0, <1>2, <1>id, <1>8, <3>1 DEF OneObject, Contents, Creating
      <4> QED
        BY <1>2, <1>id, <2>1, <3>1, <4>1, <4>2
    <3>2. CASE k # id
      BY <1>0, <1>5, <2>1, <3>2 DEF Issued, TypeOK
    <3> QED
      BY <3>1, <3>2
  <2>9. Renewed'
    BY <1>0, <1>1, <1>8, <2>1 DEF Renewed
  <2> QED
    BY <2>3, <2>4, <2>5, <2>6, <2>7, <2>8, <2>9 DEF IInv
<1> QED
  BY <1>7, <1>8 DEF Finish

-----------------------------------------------------------------------------
LEMMA InitInvariant == Init => IInv
<1> SUFFICES ASSUME Init
             PROVE  IInv
  OBVIOUS
<1>1. /\ \A o \in Objects : NewSession(o[1]) \in Session /\ NewSession(o[1]).id = o[1]
                            /\ NewSession(o[1]).data = {}
      /\ \A r \in Requests : <<r, "new">> \in Objects
  BY DEF Init, NewSession, Session, Objects
<1>2. TypeOK
  BY <1>1, SessionsAssumption DEF Init, TypeOK
<1>3. Unused /\ Filed
  BY DEF Init, Unused, Filed, Stored, Holds
<1>4. Owned /\ OneObject
  BY DEF Init, Owned, OneObject, Holds
<1>5. Contents /\ Issued
  BY DEF Init, Contents, Issued, Creating, Stored
<1>6. Renewed
  <2>1. \A id \in Requests : ~Stored(id) /\ written[id] = 0 /\ now = 0
    BY DEF Init, Stored
  <2> QED
    BY <2>1, 0 <= 0 DEF Renewed
<1> QED
  BY <1>2, <1>3, <1>4, <1>5, <1>6 DEF IInv

LEMMA StepInvariant == IInv /\ [Next]_vars => IInv'
<1> SUFFICES ASSUME IInv, [Next]_vars
             PROVE  IInv'
  OBVIOUS
<1>1. CASE Tick
  BY <1>1, TickPreserves
<1>2. CASE Cleanup
  BY <1>2, CleanupPreserves
<1>3. ASSUME NEW r \in Requests,
             Begin(r) \/ Set(r) \/ Remove(r) \/ Destroy(r) \/ Finish(r) \/ Throw(r)
      PROVE  IInv'
  BY <1>3, BeginPreserves, SetPreserves, RemovePreserves, DestroyPreserves,
     FinishPreserves, ThrowPreserves
<1>4. CASE UNCHANGED vars
  BY <1>4 DEF vars, storeVars, handlerVars, IInv, TypeOK, Unused, Owned, Filed,
     OneObject, Contents, Issued, Renewed, Stored, Holds, Id, Creating
<1> QED
  BY <1>1, <1>2, <1>3, <1>4 DEF Next

(* The state of the store and of every request stays well formed.          *)
THEOREM Invariance == Spec => []IInv
  BY InitInvariant, StepInvariant, PTL DEF Spec

(* Every variable keeps its type, for any requests.                        *)
THEOREM TypeCorrect == Spec => []TypeOK
<1>1. IInv => TypeOK
  BY DEF IInv
<1> QED
  BY <1>1, Invariance, PTL

(* However many requests share a session, in whatever order they write to  *)
(* it and return: until it is erased each of them and the store have all   *)
(* of it.                                                                  *)
THEOREM SessionShared == Spec => []UpdatesKept
<1>1. IInv => UpdatesKept
  <2> SUFFICES ASSUME IInv, NEW id \in Requests \ gone
               PROVE  /\ \A r \in Requests : Holds(r, id) => heap[sess[r]].data = content[id]
                      /\ Stored(id) => heap[store[id].session].data = content[id]
                      /\ id \in issued /\ content[id] # {} => Stored(id)
    BY DEF UpdatesKept
  <2>1. ASSUME NEW r \in Requests, Holds(r, id)
        PROVE  heap[sess[r]].data = content[id]
    <3>1. CASE Stored(id) /\ sess[r] = store[id].session
      BY <3>1 DEF IInv, Contents
    <3>2. CASE r = id /\ Creating(r)
      BY <3>2 DEF IInv, Contents, Creating
    <3> QED
      BY <2>1, <3>1, <3>2 DEF IInv, OneObject
  <2> QED
    BY <2>1 DEF IInv, Contents, Issued
<1> QED
  BY <1>1, Invariance, PTL

(* A session lives for MaxAge after the last write that was saved.         *)
THEOREM SessionRenewed == Spec => []WritesRenew
<1>1. IInv => WritesRenew
  BY DEF IInv, Renewed, WritesRenew
<1> QED
  BY <1>1, Invariance, PTL

-----------------------------------------------------------------------------
(* Dead sessions *)

LEMMA DeadBegin ==
    ASSUME IInv, NEW k \in Requests, Dead(k), NEW r \in Requests, Begin(r)
    PROVE  Dead(k)'
<1>0. TypeOK /\ Unused /\ Owned /\ Filed
  BY DEF IInv
<1>1. /\ pc[r] = "idle" /\ pc' = [pc EXCEPT ![r] = "handler"]
      /\ k \in gone /\ ~Stored(k) /\ k # r
      /\ issued \subseteq Requests
  BY <1>0 DEF Begin, Dead, Unused, TypeOK
<1>2. \A q \in Requests \ {r} : pc'[q] = pc[q] /\ ~Holds(q, k)
  BY <1>0, <1>1 DEF TypeOK, Dead
<1>3. ASSUME NEW id \in issued, BeginLoaded(r, id)
      PROVE  Dead(k)'
  <2>1. /\ Stored(id) /\ id \in Requests /\ id # k
        /\ store[id].session \in Objects /\ heap[store[id].session].id = id
    BY <1>0, <1>1, <1>3 DEF BeginLoaded, Loadable, Stored, TypeOK, Entry, Filed
  <2>2. \A p \in Objects : heap'[p].id = heap[p].id
    BY <1>0, <1>3, <2>1, Touched DEF BeginLoaded
  <2>3. sess'[r] = store[id].session /\ \A q \in Requests \ {r} : sess'[q] = sess[q]
    BY <1>0, <1>3 DEF BeginLoaded, TypeOK
  <2>4. \A q \in Requests : ~Holds(q, k)'
    BY <1>0, <1>2, <2>1, <2>2, <2>3 DEF Holds, Id, TypeOK
  <2> QED
    BY <1>1, <1>3, <2>4 DEF Dead, BeginLoaded, storeVars, Stored
<1>4. ASSUME NEW id \in Requests, Create(r, id), sess' = sess, Shrinks
      PROVE  Dead(k)'
  <2>1. /\ heap'[<<r, "new">>].id = r
        /\ \A p \in Objects \ {<<r, "new">>} : heap'[p] = heap[p]
    BY <1>0, <1>4, Created DEF Same
  <2>2. sess[r] = <<r, "new">> /\ \A q \in Requests \ {r} : sess[q] \in Objects \ {<<r, "new">>}
    BY <1>0, <1>1 DEF Owned, TypeOK
  <2>3. \A q \in Requests : ~Holds(q, k)'
    BY <1>1, <1>2, <1>4, <2>1, <2>2 DEF Holds, Id
  <2> QED
    BY <1>1, <1>4, <2>3 DEF Dead, Shrinks, Stored
<1>5. CASE BeginNew(r)
  <2>1. Shrinks
    BY <1>0, <1>5 DEF BeginNew, storeVars, Shrinks, TypeOK
  <2> QED
    BY <1>4, <1>5, <2>1 DEF BeginNew
<1>6. ASSUME NEW id \in issued, BeginMissing(r, id)
      PROVE  Dead(k)'
  <2>1. {id} \in SUBSET Requests
    BY <1>1
  <2>2. Shrinks
    BY <1>0, <1>6, <2>1, Erased DEF BeginMissing
  <2> QED
    BY <1>1, <1>4, <1>6, <2>2 DEF BeginMissing
<1> QED
  BY <1>3, <1>5, <1>6 DEF Begin

LEMMA DeadModify ==
    ASSUME IInv, NEW k \in Requests, Dead(k), NEW r \in Requests, Set(r) \/ Remove(r)
    PROVE  Dead(k)'
<1>0. TypeOK
  BY DEF IInv
<1>1. \E data, update \in SUBSET Requests : Modify(r, data, update)
  <2>1. heap[sess[r]].data \in SUBSET Requests /\ Id(r) \in Requests
    BY <1>0 DEF TypeOK, Session, Id
  <2>2. content[Id(r)] \in SUBSET Requests
    BY <1>0, <2>1 DEF TypeOK
  <2>3. CASE Set(r)
    BY <2>1, <2>2, <2>3 DEF Set
  <2>4. CASE Remove(r)
    <3>1. PICK keys \in SUBSET heap[sess[r]].data \ {{}} :
             Modify(r, heap[sess[r]].data \ keys, content[Id(r)] \ keys)
      BY <2>4 DEF Remove
    <3>2. /\ heap[sess[r]].data \ keys \in SUBSET Requests
          /\ content[Id(r)] \ keys \in SUBSET Requests
      BY <2>1, <2>2
    <3> QED
      BY <3>1, <3>2
  <2> QED
    BY <2>3, <2>4
<1>2. PICK data \in SUBSET Requests, update \in SUBSET Requests : Modify(r, data, update)
  BY <1>1
<1>3. sess[r] \in Objects
  BY <1>0 DEF TypeOK
<1>4. \A p \in Objects : heap'[p].id = heap[p].id
  BY <1>0, <1>2, <1>3, Modified DEF Modify, Same
<1>5. UNCHANGED <<store, gone, pc, sess>>
  BY <1>2 DEF Modify, storeVars
<1>6. \A q \in Requests : ~Holds(q, k)'
  BY <1>0, <1>4, <1>5 DEF Dead, Holds, Id, TypeOK
<1> QED
  BY <1>5, <1>6 DEF Dead, Stored

LEMMA DeadFinish ==
    ASSUME IInv, NEW k \in Requests, Dead(k), NEW r \in Requests, Finish(r)
    PROVE  Dead(k)'
<1>0. TypeOK
  BY DEF IInv
<1>1. pc[r] = "handler" /\ UNCHANGED <<sess, gone>> /\ Id(r) \in Requests
  BY <1>0 DEF Finish, TypeOK, Session, Id
<1>2. \A q \in Requests : pc'[q] = "handler" => pc[q] = "handler" /\ q # r
  BY <1>0 DEF Finish, TypeOK
<1>3. k # Id(r)
  BY <1>1 DEF Dead, Holds
<1>4. CASE Save(r)
  <2>1. /\ \A p \in Objects \ {SaveTarget(r)} : heap'[p] = heap[p]
        /\ heap'[SaveTarget(r)].id = Id(r)
        /\ store'[k] = store[k]
    BY <1>0, <1>3, <1>4, Saved DEF Same
  <2>2. \A q \in Requests : sess[q] \in Objects /\ heap'[sess[q]].id = heap[sess[q]].id
    BY <1>0, <1>1, <2>1, TargetUnshared DEF TypeOK
  <2>3. \A q \in Requests : ~Holds(q, k)'
    BY <1>1, <1>2, <2>2 DEF Dead, Holds, Id
  <2> QED
    BY <1>1, <2>1, <2>3 DEF Dead, Stored
<1>5. CASE UNCHANGED <<heap, store>>
  BY <1>1, <1>2, <1>5 DEF Dead, Holds, Id, Stored
<1> QED
  BY <1>4, <1>5 DEF Finish

LEMMA DeadErase ==
    ASSUME TypeOK, NEW k \in Requests, Dead(k), NEW ids \in SUBSET Requests, Erase(ids),
           UNCHANGED <<pc, sess, heap>>
    PROVE  Dead(k)'
<1>1. Shrinks
  BY Erased
<1>2. \A q \in Requests : ~Holds(q, k)'
  BY DEF Dead, Holds, Id
<1> QED
  BY <1>1, <1>2 DEF Dead, Shrinks, Stored

(* An id that was erased and that no request has is never used again.      *)
THEOREM DeadForever == Spec => DeadStaysDead
<1>1. ASSUME IInv, [Next]_vars, NEW k \in Requests, Dead(k)
      PROVE  Dead(k)'
  <2>0. TypeOK
    BY <1>1 DEF IInv
  <2>1. CASE Tick
    BY <1>1, <2>1 DEF Tick, storeVars, handlerVars, Dead, Holds, Id, Stored
  <2>2. CASE Cleanup
    <3>1. PICK ids \in SUBSET Requests : Erase(ids)
      BY <2>2 DEF Cleanup
    <3> QED
      BY <1>1, <2>0, <2>2, <3>1, DeadErase DEF Cleanup, handlerVars
  <2>3. ASSUME NEW r \in Requests, Begin(r) \/ Set(r) \/ Remove(r) \/ Finish(r)
        PROVE  Dead(k)'
    BY <1>1, <2>3, DeadBegin, DeadModify, DeadFinish
  <2>4. ASSUME NEW r \in Requests, Destroy(r)
        PROVE  Dead(k)'
    <3>1. {Id(r)} \in SUBSET Requests
      BY <2>0 DEF TypeOK, Session, Id
    <3> QED
      BY <1>1, <2>0, <2>4, <3>1, DeadErase DEF Destroy, handlerVars
  <2>5. ASSUME NEW r \in Requests, Throw(r)
        PROVE  Dead(k)'
    <3>1. \A q \in Requests : pc'[q] = "handler" => pc[q] = "handler"
      BY <2>0, <2>5 DEF Throw, TypeOK
    <3> QED
      BY <1>1, <2>5, <3>1 DEF Throw, storeVars, handlerVars, Dead, Holds, Id, Stored
  <2>6. CASE UNCHANGED vars
    BY <1>1, <2>6 DEF vars, storeVars, handlerVars, Dead, Holds, Id, Stored
  <2> QED
    BY <1>1, <2>1, <2>2, <2>3, <2>4, <2>5, <2>6 DEF Next
<1>2. IInv /\ [Next]_vars => [\A id \in Requests : Dead(id) => Dead(id)']_vars
  BY <1>1
<1> QED
  BY <1>2, Invariance, PTL DEF Spec, DeadStaysDead
=============================================================================
