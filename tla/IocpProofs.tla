------------------------------ MODULE IocpProofs ------------------------------
(***************************************************************************)
(* For any workers, coroutines and callbacks: each callback of IocpContext *)
(* has one wake-up under way, and runs once and not before it is due.      *)
(*                                                                         *)
(* The count of the wake-ups is inductive together with the places of the  *)
(* callbacks: one that is posted was posted by nobody before, so the set   *)
(* of those whose wake-up is still to be sent grows with the queue.        *)
(***************************************************************************)
EXTENDS Iocp, SequenceTheorems, FunctionTheorems, FiniteSetTheorems, TLAPS

LEMMA SequenceFacts ==
    /\ \A s \in Seq(Callbacks) : /\ Len(s) \in Nat /\ (s = <<>> <=> Len(s) = 0)
                                 /\ \A i \in 1 .. Len(s) : s[i] \in Callbacks
    /\ \A s \in Seq(Callbacks) : s # <<>> =>
          /\ 1 \in 1 .. Len(s) /\ Head(s) = s[1] /\ s[1] \in Callbacks
          /\ Tail(s) \in Seq(Callbacks) /\ Len(Tail(s)) = Len(s) - 1
          /\ \A i \in 1 .. Len(Tail(s)) : Tail(s)[i] = s[i + 1]
    /\ \A s \in Seq(Callbacks), f \in Callbacks :
          /\ Append(s, f) \in Seq(Callbacks) /\ Len(Append(s, f)) = Len(s) + 1
          /\ Append(s, f)[Len(s) + 1] = f
          /\ \A i \in 1 .. Len(s) : Append(s, f)[i] = s[i]
    /\ <<>> \in Seq(Callbacks) /\ Len(<<>>) = 0
<1>1. \A s \in Seq(Callbacks) : /\ Len(s) \in Nat /\ (s = <<>> <=> Len(s) = 0)
                                /\ \A i \in 1 .. Len(s) : s[i] \in Callbacks
  BY LenProperties, EmptySeq, ElementOfSeq
<1>2. ASSUME NEW s \in Seq(Callbacks), s # <<>>
      PROVE  /\ 1 \in 1 .. Len(s) /\ Head(s) = s[1] /\ s[1] \in Callbacks
             /\ Tail(s) \in Seq(Callbacks) /\ Len(Tail(s)) = Len(s) - 1
             /\ \A i \in 1 .. Len(Tail(s)) : Tail(s)[i] = s[i + 1]
  <2>1. PICK n \in Nat \ {0} : n = Len(s)
    BY <1>1, <1>2
  <2>2. 1 \in 1 .. n
    OBVIOUS
  <2>3. /\ Head(s) = s[1] /\ Tail(s) \in Seq(Callbacks) /\ Len(Tail(s)) = Len(s) - 1
        /\ \A i \in 1 .. Len(Tail(s)) : Tail(s)[i] = s[i + 1]
    BY <1>2, HeadTailProperties
  <2> QED
    BY <1>1, <2>1, <2>2, <2>3
<1> QED
  BY <1>1, <1>2, AppendProperties, EmptySeq

-----------------------------------------------------------------------------
(* The wake-ups in the port.                                               *)

Completions == Coros \cup {"callback", "stop"}
Calls(p) == {i \in DOMAIN p : p[i] = "callback"}

LEMMA CallsCount ==
    ASSUME NEW p \in Seq(Completions)
    PROVE  IsFiniteSet(Calls(p)) /\ Cardinality(Calls(p)) \in Nat
<1>1. PICK n \in Nat : n = Len(p) /\ DOMAIN p = 1 .. n
  BY LenProperties
<1>2. IsFiniteSet(1 .. n) /\ Calls(p) \subseteq 1 .. n
  BY <1>1, FS_Interval DEF Calls
<1> QED
  BY <1>2, FS_Subset, FS_CardinalityType

LEMMA CallsAppend ==
    ASSUME NEW p \in Seq(Completions), NEW e \in Completions
    PROVE  Cardinality(Calls(Append(p, e)))
             = Cardinality(Calls(p)) + (IF e = "callback" THEN 1 ELSE 0)
<1>1. PICK n \in Nat : n = Len(p) /\ DOMAIN p = 1 .. n
  BY LenProperties
<1>2. /\ DOMAIN Append(p, e) = 1 .. n + 1 /\ Append(p, e)[n + 1] = e
      /\ \A i \in 1 .. n : Append(p, e)[i] = p[i]
  <2>1. Append(p, e) \in Seq(Completions) /\ Len(Append(p, e)) = n + 1
    BY <1>1, AppendProperties
  <2> QED
    BY <1>1, <2>1, AppendProperties, LenProperties
<1>3. /\ n + 1 \notin 1 .. n /\ n + 1 \in 1 .. n + 1
      /\ \A i : i \in 1 .. n + 1 <=> i \in 1 .. n \/ i = n + 1
  OBVIOUS
<1>4. n + 1 \notin Calls(p)
  BY <1>1, <1>3 DEF Calls
<1>5. CASE e = "callback"
  <2>1. Calls(Append(p, e)) = Calls(p) \cup {n + 1}
    BY <1>1, <1>2, <1>3, <1>5 DEF Calls
  <2>2. Cardinality(Calls(p) \cup {n + 1}) = Cardinality(Calls(p)) + 1
    BY <1>4, CallsCount, FS_AddElement
  <2> QED
    BY <1>5, <2>1, <2>2
<1>6. CASE e # "callback"
  <2>1. Calls(Append(p, e)) = Calls(p)
    BY <1>1, <1>2, <1>3, <1>6 DEF Calls
  <2> QED
    BY <1>6, <2>1, CallsCount
<1> QED
  BY <1>5, <1>6

LEMMA CallsTail ==
    ASSUME NEW p \in Seq(Completions), p # <<>>
    PROVE  Cardinality(Calls(p))
             = Cardinality(Calls(Tail(p))) + (IF Head(p) = "callback" THEN 1 ELSE 0)
<1>1. PICK n \in Nat : n + 1 = Len(p) /\ DOMAIN p = 1 .. n + 1
  <2>1. PICK l \in Nat \ {0} : l = Len(p) /\ DOMAIN p = 1 .. l
    BY LenProperties, EmptySeq
  <2>2. l - 1 \in Nat /\ (l - 1) + 1 = l
    OBVIOUS
  <2> QED
    BY <2>1, <2>2
<1>2. /\ Tail(p) \in Seq(Completions) /\ Head(p) = p[1] /\ DOMAIN Tail(p) = 1 .. n
      /\ \A i \in 1 .. n : Tail(p)[i] = p[i + 1]
  <2>1. /\ Tail(p) \in Seq(Completions) /\ Head(p) = p[1] /\ Len(Tail(p)) = Len(p) - 1
        /\ \A i \in 1 .. Len(Tail(p)) : Tail(p)[i] = p[i + 1]
    BY HeadTailProperties
  <2>2. (n + 1) - 1 = n
    OBVIOUS
  <2> QED
    BY <1>1, <2>1, <2>2, LenProperties
<1>3. /\ 1 \in 1 .. n + 1 /\ \A i \in 1 .. n : i + 1 \in 1 .. n + 1 /\ i + 1 # 1 /\ i \in Int
      /\ \A i \in 1 .. n + 1 : i = 1 \/ (i - 1 \in 1 .. n /\ (i - 1) + 1 = i)
      /\ \A i, j \in 1 .. n : i + 1 = j + 1 => i = j
  OBVIOUS
<1>4. PICK R : R = Calls(p) \ {1}
  OBVIOUS
<1>5. Cardinality(R) = Cardinality(Calls(Tail(p)))
  <2>1. PICK g : g = [i \in Calls(Tail(p)) |-> i + 1]
    OBVIOUS
  <2>2. \A i \in Calls(Tail(p)) : i \in 1 .. n /\ i + 1 \in R
    BY <1>1, <1>2, <1>3, <1>4 DEF Calls
  <2>3. \A j \in R : j - 1 \in Calls(Tail(p)) /\ (j - 1) + 1 = j
    BY <1>1, <1>2, <1>3, <1>4 DEF Calls
  <2>4. g \in Bijection(Calls(Tail(p)), R)
    <3>1. g \in [Calls(Tail(p)) -> R]
      BY <2>1, <2>2
    <3>2. \A i, j \in Calls(Tail(p)) : g[i] = g[j] => i = j
      BY <1>3, <2>1, <2>2
    <3>3. \A j \in R : \E i \in Calls(Tail(p)) : g[i] = j
      BY <2>1, <2>3
    <3> QED
      BY <3>1, <3>2, <3>3, Fun_IsBij
  <2>5. IsFiniteSet(Calls(Tail(p)))
    BY <1>2, CallsCount
  <2>6. ExistsBijection(Calls(Tail(p)), R)
    BY <2>4 DEF ExistsBijection
  <2> QED
    BY <2>5, <2>6, FS_Bijection
<1>6. CASE Head(p) = "callback"
  <2>1. 1 \in Calls(p)
    BY <1>1, <1>2, <1>3, <1>6 DEF Calls
  <2>2. Cardinality(R) = Cardinality(Calls(p)) - 1
    BY <1>4, <2>1, CallsCount, FS_RemoveElement
  <2> QED
    BY <1>5, <1>6, <2>2, CallsCount
<1>7. CASE Head(p) # "callback"
  <2>1. R = Calls(p)
    BY <1>2, <1>4, <1>7 DEF Calls
  <2> QED
    BY <1>5, <1>7, <2>1, CallsCount
<1> QED
  BY <1>6, <1>7

(* stop() puts no callback's wake-up into the port.                        *)
LEMMA CallsWakes ==
    ASSUME IocpAssumption, NEW p \in Seq(Completions)
    PROVE  /\ p \o Wakes \in Seq(Completions)
           /\ Cardinality(Calls(p \o Wakes)) = Cardinality(Calls(p))
<1>1. PICK m \in Nat : m = Cardinality(Workers)
  BY FS_CardinalityType DEF IocpAssumption
<1>2. Wakes = [i \in 1 .. m |-> "stop"]
  BY <1>1 DEF Wakes
<1>3. Wakes \in Seq(Completions) /\ Len(Wakes) = m
  <2>1. \A i \in 1 .. m : Wakes[i] \in Completions
    BY <1>2 DEF Completions
  <2> QED
    BY <1>2, <2>1
<1>4. PICK n \in Nat : n = Len(p) /\ DOMAIN p = 1 .. n
  BY LenProperties
<1>5. /\ p \o Wakes \in Seq(Completions) /\ Len(p \o Wakes) = n + m
      /\ \A i \in 1 .. n + m : (p \o Wakes)[i] = IF i <= n THEN p[i] ELSE Wakes[i - n]
  BY <1>3, <1>4, ConcatProperties
<1>6. DOMAIN (p \o Wakes) = 1 .. n + m
  BY <1>5, LenProperties
<1>7. \A i \in 1 .. n : i \in 1 .. n + m /\ i <= n
  OBVIOUS
<1>8. \A i \in 1 .. n + m : i \in 1 .. n \/ (~ (i <= n) /\ i - n \in 1 .. m)
  OBVIOUS
<1>9. \A i \in 1 .. n + m : i \notin 1 .. n => (p \o Wakes)[i] = "stop"
  BY <1>2, <1>5, <1>8
<1>10. \A i \in 1 .. n : (p \o Wakes)[i] = p[i]
  BY <1>5, <1>7
<1>11. Calls(p \o Wakes) = Calls(p)
  BY <1>4, <1>6, <1>7, <1>9, <1>10 DEF Calls
<1> QED
  BY <1>5, <1>11

-----------------------------------------------------------------------------
(* The workers that have been woken for a callback and not yet taken it.   *)

Popping == {w \in Workers : wk[w] = "pop"}

LEMMA SetCounts ==
    ASSUME IocpAssumption, TypeOK
    PROVE  /\ IsFiniteSet(Popping) /\ Cardinality(Popping) \in Nat
           /\ IsFiniteSet(posting) /\ Cardinality(posting) \in Nat
           /\ IsFiniteSet(Calls(port)) /\ Cardinality(Calls(port)) \in Nat
           /\ Len(callbacks) \in Nat
<1>1. IsFiniteSet(Popping) /\ IsFiniteSet(posting)
  BY FS_Subset DEF Popping, TypeOK, IocpAssumption
<1>2. IsFiniteSet(Calls(port)) /\ Cardinality(Calls(port)) \in Nat
  BY CallsCount DEF TypeOK, Completions
<1>3. Len(callbacks) \in Nat
  BY LenProperties DEF TypeOK
<1> QED
  BY <1>1, <1>2, <1>3, FS_CardinalityType

(* A worker moves: whom it leaves and whom it joins.                       *)
LEMMA PoppingMoves ==
    ASSUME IocpAssumption, TypeOK, NEW w \in Workers, NEW l, Goto(w, l)
    PROVE  Cardinality(Popping') + (IF wk[w] = "pop" THEN 1 ELSE 0)
             = Cardinality(Popping) + (IF l = "pop" THEN 1 ELSE 0)
<1>1. /\ wk'[w] = l /\ \A v \in Workers : v # w => wk'[v] = wk[v]
  BY DEF Goto, TypeOK
<1>2. PICK R : R = Popping \ {w}
  OBVIOUS
<1>3. /\ Popping = IF wk[w] = "pop" THEN R \cup {w} ELSE R
      /\ Popping' = IF l = "pop" THEN R \cup {w} ELSE R
  BY <1>1, <1>2 DEF Popping
<1>4. IsFiniteSet(R) /\ Cardinality(R) \in Nat
  BY <1>2, SetCounts, FS_Subset, FS_CardinalityType
<1>5. Cardinality(R \cup {w}) = Cardinality(R) + 1
  BY <1>2, <1>4, FS_AddElement
<1> QED
  BY <1>3, <1>4, <1>5

(* The count, by its parts.                                                *)
Counted ==
    Len(callbacks) = Cardinality(Calls(port)) + Cardinality(posting) + Cardinality(Popping)

LEMMA CountedIs == Counted <=> EachCallbackWoken
BY DEF Counted, EachCallbackWoken, Calls, Popping

-----------------------------------------------------------------------------
(* A callback waits in one place: in the heap of timers, in the hands of   *)
(* the timer thread or in the queue, and it has not run yet.               *)

InQueue(f) == \E i \in 1 .. Len(callbacks) : callbacks[i] = f
Unposted(f) == ~InQueue(f) /\ f \notin posting /\ runs[f] = 0

Fresh ==
    \A f \in Callbacks : expiry[f] = Never =>
        Unposted(f) /\ due # f /\ \A t \in timers : t[2] # f

Timed == \A t \in timers : Unposted(t[2]) /\ due # t[2] /\ expiry[t[2]] = t[1]

Held ==
    /\ tm = "post" => due # NoCallback
    /\ due # NoCallback => Unposted(due) /\ expiry[due] # Never /\ expiry[due] <= clock

Queued ==
    /\ \A i \in 1 .. Len(callbacks) :
          runs[callbacks[i]] = 0 /\ expiry[callbacks[i]] # Never /\ expiry[callbacks[i]] <= clock
    /\ \A i, j \in 1 .. Len(callbacks) : callbacks[i] = callbacks[j] => i = j

Places == Fresh /\ Timed /\ Held /\ Queued

(* Before run() there are no workers.                                      *)
Started == phase = "start" => \A w \in Workers : wk[w] = "off"

IInv == TypeOK /\ Places /\ Started /\ Counted

(* A step that hands over, takes and runs no callback.                     *)
LEMMA SamePlaces ==
    ASSUME TypeOK, Places, UNCHANGED <<timers, due, callbacks, expiry, runs>>,
           posting' \subseteq posting, clock' \in Nat, clock <= clock',
           tm' = "post" => tm = "post"
    PROVE  Places'
<1>1. \A f : Unposted(f) => Unposted(f)'
  BY DEF Unposted, InQueue
<1>2. Fresh' /\ Timed'
  BY <1>1 DEF Places, Fresh, Timed
<1>3. \A f \in Callbacks : expiry[f] # Never => expiry[f] \in Nat
  BY DEF TypeOK
<1>4. clock \in Nat /\ \A n \in Nat : n <= clock => n <= clock'
  BY DEF TypeOK
<1>5. Held'
  <2>1. ASSUME due # NoCallback
        PROVE  Unposted(due)' /\ expiry[due] # Never /\ expiry[due] <= clock'
    <3>1. due \in Callbacks /\ Unposted(due) /\ expiry[due] # Never /\ expiry[due] <= clock
      BY <2>1 DEF Places, Held, TypeOK
    <3> QED
      BY <1>1, <1>3, <1>4, <3>1
  <2> QED
    BY <2>1 DEF Places, Held
<1>6. Queued'
  <2>1. ASSUME NEW i \in 1 .. Len(callbacks)
        PROVE  /\ runs[callbacks[i]] = 0 /\ expiry[callbacks[i]] # Never
               /\ expiry[callbacks[i]] <= clock'
    <3>1. /\ runs[callbacks[i]] = 0 /\ expiry[callbacks[i]] # Never
          /\ expiry[callbacks[i]] <= clock /\ callbacks[i] \in Callbacks
      BY SequenceFacts DEF Places, Queued, TypeOK
    <3> QED
      BY <1>3, <1>4, <3>1
  <2> QED
    BY <2>1 DEF Places, Queued
<1> QED
  BY <1>2, <1>5, <1>6 DEF Places

(* A callback joins the queue.                                             *)
LEMMA AppendPlaces ==
    ASSUME TypeOK, NEW f \in Callbacks, callbacks' = Append(callbacks, f)
    PROVE  /\ \A g : InQueue(g)' <=> InQueue(g) \/ g = f
           /\ \A g \in Callbacks : \A i \in 1 .. Len(callbacks') :
                 callbacks'[i] = g => InQueue(g) \/ g = f
           /\ (\A i, j \in 1 .. Len(callbacks) : callbacks[i] = callbacks[j] => i = j)
                /\ ~InQueue(f) =>
                 \A i, j \in 1 .. Len(callbacks') : callbacks'[i] = callbacks'[j] => i = j
<1>1. PICK n \in Nat : n = Len(callbacks)
  BY LenProperties DEF TypeOK
<1>2. /\ Len(callbacks') = n + 1 /\ callbacks'[n + 1] = f
      /\ \A i \in 1 .. n : callbacks'[i] = callbacks[i]
  BY <1>1, SequenceFacts DEF TypeOK
<1>3. /\ \A i \in 1 .. n + 1 : i \in 1 .. n \/ i = n + 1
      /\ n + 1 \in 1 .. n + 1 /\ \A i \in 1 .. n : i \in 1 .. n + 1
  OBVIOUS
<1>4. \A g : InQueue(g)' <=> InQueue(g) \/ g = f
  BY <1>1, <1>2, <1>3 DEF InQueue
<1>5. \A g \in Callbacks : \A i \in 1 .. Len(callbacks') :
         callbacks'[i] = g => InQueue(g) \/ g = f
  BY <1>4 DEF InQueue
<1>6. ASSUME \A i, j \in 1 .. n : callbacks[i] = callbacks[j] => i = j, ~InQueue(f)
      PROVE  \A i, j \in 1 .. n + 1 : callbacks'[i] = callbacks'[j] => i = j
  <2>1. \A i \in 1 .. n : callbacks'[i] # f
    BY <1>1, <1>2, <1>6 DEF InQueue
  <2>2. \A i, j \in 1 .. n : callbacks'[i] = callbacks'[j] => i = j
    BY <1>2, <1>6
  <2> QED
    BY <1>2, <1>3, <2>1, <2>2
<1> QED
  BY <1>1, <1>2, <1>4, <1>5, <1>6

(* A callback that has not run goes into the queue, from wherever it was.  *)
LEMMA QueuePlaces ==
    ASSUME IocpAssumption, TypeOK, Places, NEW f \in Callbacks, callbacks' = Append(callbacks, f),
           posting' = posting \cup {f}, UNCHANGED <<timers, clock, runs>>,
           Unposted(f), \A t \in timers : t[2] # f,
           expiry'[f] # Never, expiry'[f] <= clock,
           \A g \in Callbacks : g # f => expiry'[g] = expiry[g],
           due' # f, due' \in {due, NoCallback}, tm' = "post" => due' # NoCallback
    PROVE  Places'
<1>1. \A g : g # f /\ Unposted(g) => Unposted(g)'
  BY AppendPlaces DEF Unposted
<1>2. \A t \in timers : t[2] \in Callbacks
  BY DEF TypeOK
<1>3. Fresh'
  <2>1. ASSUME NEW g \in Callbacks, expiry'[g] = Never
        PROVE  Unposted(g)' /\ due' # g /\ \A t \in timers : t[2] # g
    <3>1. g # f /\ expiry[g] = Never
      BY <2>1
    <3>2. Unposted(g) /\ due # g /\ \A t \in timers : t[2] # g
      BY <3>1 DEF Places, Fresh
    <3>3. due' # g
      <4>1. CASE due' = due
        BY <3>2, <4>1
      <4>2. CASE due' = NoCallback /\ due' # due
        BY <2>1, <4>2 DEF IocpAssumption
      <4> QED
        BY <4>1, <4>2
    <3> QED
      BY <1>1, <3>1, <3>2, <3>3
  <2> QED
    BY <2>1 DEF Fresh
<1>4. Timed'
  <2>1. ASSUME NEW t \in timers
        PROVE  Unposted(t[2])' /\ due' # t[2] /\ expiry'[t[2]] = t[1]
    <3>1. t[2] \in Callbacks /\ t[2] # NoCallback /\ t[2] # f
      BY <1>2 DEF IocpAssumption
    <3>2. Unposted(t[2]) /\ due # t[2] /\ expiry[t[2]] = t[1]
      BY DEF Places, Timed
    <3> QED
      BY <1>1, <3>1, <3>2
  <2> QED
    BY <2>1 DEF Timed
<1>5. Held'
  <2>1. ASSUME due' # NoCallback
        PROVE  Unposted(due)' /\ expiry'[due'] # Never /\ expiry'[due'] <= clock
    <3>1. PICK d \in Callbacks : d = due /\ d = due' /\ d # f
      BY <2>1 DEF TypeOK
    <3>2. Unposted(d) /\ expiry[d] # Never /\ expiry[d] <= clock
      BY <2>1, <3>1 DEF Places, Held
    <3>3. Unposted(d)'
      BY <1>1, <3>1, <3>2
    <3>4. Unposted(due)'
      BY <3>1, <3>3 DEF Unposted, InQueue
    <3> QED
      BY <3>1, <3>2, <3>4
  <2> QED
    BY <2>1 DEF Held
<1>6. Queued'
  <2>1. ASSUME NEW i \in 1 .. Len(callbacks')
        PROVE  /\ runs[callbacks'[i]] = 0 /\ expiry'[callbacks'[i]] # Never
               /\ expiry'[callbacks'[i]] <= clock
    <3>1. callbacks'[i] \in Callbacks
      BY SequenceFacts DEF TypeOK
    <3>2. CASE callbacks'[i] = f
      BY <3>2 DEF Unposted
    <3>3. CASE callbacks'[i] # f
      <4>1. PICK j \in 1 .. Len(callbacks) : callbacks[j] = callbacks'[i]
        BY <3>1, <3>3, AppendPlaces DEF InQueue
      <4> QED
        BY <3>1, <3>3, <4>1 DEF Places, Queued
    <3> QED
      BY <3>2, <3>3
  <2>2. \A i, j \in 1 .. Len(callbacks') : callbacks'[i] = callbacks'[j] => i = j
    BY AppendPlaces DEF Places, Queued, Unposted
  <2> QED
    BY <2>1, <2>2 DEF Queued
<1> QED
  BY <1>3, <1>4, <1>5, <1>6 DEF Places

LEMMA PostPlaces ==
    ASSUME IocpAssumption, TypeOK, Places, NEW f \in Callbacks, Post(f)
    PROVE  Places'
<1>1. /\ expiry[f] = Never /\ callbacks' = Append(callbacks, f) /\ posting' = posting \cup {f}
      /\ UNCHANGED <<timers, due, tm, clock, runs>>
  BY DEF Post, timerVars
<1>2. expiry'[f] = clock /\ \A g \in Callbacks : g # f => expiry'[g] = expiry[g]
  BY DEF Post, TypeOK
<1>3. Unposted(f) /\ due # f /\ \A t \in timers : t[2] # f
  BY <1>1 DEF Places, Fresh
<1>4. clock \in Nat /\ clock # Never /\ clock <= clock
  BY DEF TypeOK, IocpAssumption
<1>5. tm' = "post" => due' # NoCallback
  BY <1>1 DEF Places, Held
<1> QED
  BY <1>1, <1>2, <1>3, <1>4, <1>5, QueuePlaces

LEMMA TimerPostPlaces ==
    ASSUME IocpAssumption, TypeOK, Places, TimerPost
    PROVE  Places'
<1>1. /\ tm = "post" /\ callbacks' = Append(callbacks, due) /\ posting' = posting \cup {due}
      /\ due' = NoCallback /\ tm' = "test" /\ UNCHANGED <<timers, clock, expiry, runs>>
  BY DEF TimerPost
<1>2. due # NoCallback /\ due \in Callbacks
  BY <1>1 DEF Places, Held, TypeOK
<1>3. Unposted(due) /\ expiry[due] # Never /\ expiry[due] <= clock
  BY <1>2 DEF Places, Held
<1>4. \A t \in timers : t[2] # due
  BY DEF Places, Timed
<1> QED
  BY <1>1, <1>2, <1>3, <1>4, QueuePlaces

LEMMA SchedulePlaces ==
    ASSUME IocpAssumption, TypeOK, Places, NEW f \in Callbacks, NEW d \in Nat, Schedule(f, d)
    PROVE  Places'
<1>1. PICK e \in Nat : /\ e = clock + d /\ e # Never
                       /\ timers' = timers \cup {<<e, f>>}
  BY DEF Schedule, TypeOK, IocpAssumption
<1>2. /\ expiry[f] = Never /\ UNCHANGED <<due, tm, callbacks, posting, clock, runs>>
  BY DEF Schedule
<1>3. expiry'[f] = e /\ \A g \in Callbacks : g # f => expiry'[g] = expiry[g]
  BY <1>1 DEF Schedule, TypeOK
<1>4. Unposted(f) /\ due # f /\ ~InQueue(f) /\ \A t \in timers : t[2] # f
  BY <1>2 DEF Places, Fresh, Unposted
<1>5. \A g : Unposted(g)' <=> Unposted(g)
  BY <1>2 DEF Unposted, InQueue
<1>6. \A t \in timers : t[2] \in Callbacks
  BY DEF TypeOK
<1>7. \A t \in timers' : t \in timers \/ (t[1] = e /\ t[2] = f)
  BY <1>1
<1>8. Fresh'
  <2>1. e # Never
    BY <1>1
  <2> QED
    BY <1>2, <1>3, <1>5, <1>7, <2>1 DEF Places, Fresh
<1>9. Timed'
  BY <1>2, <1>3, <1>4, <1>5, <1>6, <1>7 DEF Places, Timed
<1>10. Held'
  <2>1. ASSUME due # NoCallback
        PROVE  Unposted(due)' /\ expiry'[due] # Never /\ expiry'[due] <= clock
    <3>1. PICK g \in Callbacks : g = due /\ g = due' /\ g # f
      BY <1>2, <1>4, <2>1 DEF TypeOK
    <3>2. Unposted(g) /\ expiry[g] # Never /\ expiry[g] <= clock
      BY <2>1, <3>1 DEF Places, Held
    <3>3. Unposted(due)'
      BY <1>2, <3>1, <3>2 DEF Unposted, InQueue
    <3> QED
      BY <1>3, <3>1, <3>2, <3>3
  <2> QED
    BY <1>2, <2>1 DEF Places, Held
<1>11. Queued'
  <2>1. \A i \in 1 .. Len(callbacks) : callbacks[i] \in Callbacks /\ callbacks[i] # f
    BY <1>4, SequenceFacts DEF InQueue, TypeOK
  <2> QED
    BY <1>2, <1>3, <2>1 DEF Places, Queued
<1> QED
  BY <1>8, <1>9, <1>10, <1>11 DEF Places

(* The timer thread takes the first callback that is due.                  *)
LEMMA TakePlaces ==
    ASSUME IocpAssumption, TypeOK, Places, NEW t \in timers, Due(t),
           timers' = timers \ {t}, due' = t[2],
           UNCHANGED <<callbacks, posting, clock, expiry, runs>>
    PROVE  Places'
<1>1. /\ t[2] \in Callbacks /\ t[1] \in Nat /\ Never \notin Nat /\ NoCallback \notin Callbacks
      /\ \A u \in timers : u = <<u[1], u[2]>>
  BY DEF TypeOK, IocpAssumption
<1>2. Unposted(t[2]) /\ expiry[t[2]] = t[1] /\ t[1] <= clock
  BY DEF Places, Timed, Due
<1>3. \A g : Unposted(g)' <=> Unposted(g)
  BY DEF Unposted, InQueue
<1>4. \A u \in timers' : u \in timers /\ u[2] # t[2]
  BY <1>1 DEF Places, Timed
<1>5. Fresh'
  BY <1>1, <1>2, <1>3 DEF Places, Fresh
<1>6. Timed'
  BY <1>3, <1>4 DEF Places, Timed
<1>7. Held'
  BY <1>1, <1>2, <1>3 DEF Held
<1>8. Queued'
  BY DEF Places, Queued
<1> QED
  BY <1>5, <1>6, <1>7, <1>8 DEF Places

(* A worker takes the first callback of the queue and runs it.             *)
LEMMA PopPlaces ==
    ASSUME TypeOK, Places, NEW w \in Workers, PopCallback(w)
    PROVE  Places'
<1>1. UNCHANGED <<timers, due, tm, posting, clock, expiry>>
  BY DEF PopCallback, timerVars
<1>2. CASE callbacks = <<>>
  <2>1. UNCHANGED <<callbacks, runs>>
    BY <1>2 DEF PopCallback
  <2>2. clock \in Nat /\ clock <= clock
    BY DEF TypeOK
  <2> QED
    BY <1>1, <2>1, <2>2, SamePlaces
<1>3. CASE callbacks # <<>>
  <2>1. PICK n \in Nat : n + 1 = Len(callbacks)
    <3>1. PICK l \in Nat \ {0} : l = Len(callbacks)
      BY <1>3, SequenceFacts DEF TypeOK
    <3>2. l - 1 \in Nat /\ (l - 1) + 1 = l
      OBVIOUS
    <3> QED
      BY <3>1, <3>2
  <2>2. PICK f \in Callbacks : f = callbacks[1] /\ f = Head(callbacks)
    BY <1>3, SequenceFacts DEF TypeOK
  <2>3. callbacks' = Tail(callbacks) /\ \A g \in Callbacks : g # f => runs'[g] = runs[g]
    BY <1>3, <2>2 DEF PopCallback, TypeOK
  <2>4. /\ \A i \in 1 .. n : i + 1 \in 1 .. n + 1 /\ i + 1 # 1
        /\ \A i, j \in 1 .. n : i + 1 = j + 1 => i = j
        /\ (n + 1) - 1 = n /\ 1 \in 1 .. n + 1
    OBVIOUS
  <2>5. Len(callbacks') = n /\ \A i \in 1 .. n : callbacks'[i] = callbacks[i + 1]
    BY <1>3, <2>1, <2>3, <2>4, SequenceFacts DEF TypeOK
  <2>6. InQueue(f) /\ \A g : InQueue(g)' => InQueue(g) /\ g # f
    BY <2>1, <2>2, <2>4, <2>5 DEF InQueue, Places, Queued
  <2>7. \A g \in Callbacks : Unposted(g) => Unposted(g)' /\ g # f
    BY <1>1, <2>3, <2>6 DEF Unposted
  <2>8. Fresh' /\ Timed' /\ Held'
    BY <1>1, <2>7 DEF Places, Fresh, Timed, Held, TypeOK
  <2>9. Queued'
    <3>1. ASSUME NEW i \in 1 .. n
          PROVE  /\ runs'[callbacks'[i]] = 0 /\ expiry[callbacks'[i]] # Never
                 /\ expiry[callbacks'[i]] <= clock
      <4>1. i + 1 \in 1 .. Len(callbacks) /\ callbacks'[i] = callbacks[i + 1]
        BY <2>1, <2>4, <2>5
      <4>2. callbacks[i + 1] # f /\ callbacks[i + 1] \in Callbacks
        BY <2>1, <2>2, <2>4, <4>1, SequenceFacts DEF Places, Queued, TypeOK
      <4> QED
        BY <2>3, <4>1, <4>2 DEF Places, Queued
    <3>2. \A i, j \in 1 .. n : callbacks'[i] = callbacks'[j] => i = j
      BY <2>1, <2>4, <2>5 DEF Places, Queued
    <3> QED
      BY <1>1, <2>5, <3>1, <3>2 DEF Queued
  <2> QED
    BY <2>8, <2>9 DEF Places
<1> QED
  BY <1>2, <1>3

-----------------------------------------------------------------------------
(* Types. *)

WorkerTypes == wk \in [Workers -> {"off", "test", "get", "pop"}]

LEMMA PortTypes ==
    ASSUME TypeOK, NEW e \in Completions
    PROVE  /\ Append(port, e) \in Seq(Coros \cup {"callback", "stop"})
           /\ port # <<>> => /\ Tail(port) \in Seq(Coros \cup {"callback", "stop"})
                             /\ Head(port) \in Completions
BY AppendProperties, HeadTailProperties, EmptySeq DEF TypeOK, Completions

LEMMA WorkerStepTypes ==
    ASSUME IocpAssumption, TypeOK, NEW w \in Workers, Worker(w)
    PROVE  TypeOK'
<1>1. CASE WorkerTest(w) \/ GetNothing(w)
  <2>1. WorkerTypes'
    BY <1>1 DEF WorkerTest, GetNothing, Goto, TypeOK, WorkerTypes
  <2> QED
    BY <1>1, <2>1 DEF WorkerTest, GetNothing, TypeOK, WorkerTypes, ownerVars, timerVars, coroVars
<1>2. CASE GetCompletion(w)
  <2>1. WorkerTypes'
    BY <1>2 DEF GetCompletion, Goto, TypeOK, WorkerTypes
  <2>2. port' \in Seq(Coros \cup {"callback", "stop"})
    <3>1. "stop" \in Completions
      BY DEF Completions
    <3> QED
      BY <1>2, <3>1, PortTypes DEF GetCompletion
  <2>3. inKernel' \subseteq Coros /\ ops' \in [Coros -> 0 .. MaxOps]
    <3>1. CASE UNCHANGED coroVars
      BY <3>1 DEF coroVars, TypeOK
    <3>2. CASE Head(port) \in Coros /\ StartOperation(Head(port))
      <4>1. PICK c \in Coros : StartOperation(c)
        BY <3>2
      <4>2. ops[c] + 1 \in 0 .. MaxOps
        BY <4>1 DEF StartOperation, TypeOK, IocpAssumption
      <4>3. ops \in [Coros -> 0 .. MaxOps] /\ ops' = [ops EXCEPT ![c] = ops[c] + 1]
        BY <4>1 DEF StartOperation, TypeOK
      <4> QED
        BY <4>1, <4>2, <4>3 DEF StartOperation, TypeOK
    <3> QED
      BY <1>2, <3>1, <3>2 DEF GetCompletion
  <2>4. UNCHANGED <<ownerVars, timerVars, callbacks, posting, clock, expiry, runs>>
    BY <1>2 DEF GetCompletion
  <2> QED
    BY <2>1, <2>2, <2>3, <2>4 DEF TypeOK, WorkerTypes, ownerVars, timerVars
<1>3. CASE PopCallback(w)
  <2>1. WorkerTypes'
    BY <1>3 DEF PopCallback, Goto, TypeOK, WorkerTypes
  <2>2. callbacks' \in Seq(Callbacks) /\ runs' \in [Callbacks -> Nat]
    <3>1. CASE callbacks = <<>>
      BY <1>3, <3>1 DEF PopCallback, TypeOK
    <3>2. CASE callbacks # <<>>
      <4>1. Head(callbacks) \in Callbacks /\ Tail(callbacks) \in Seq(Callbacks)
        BY <3>2, SequenceFacts DEF TypeOK
      <4>2. callbacks' = Tail(callbacks) /\ runs' = [runs EXCEPT ![Head(callbacks)] = @ + 1]
        BY <1>3, <3>2 DEF PopCallback
      <4> QED
        BY <4>1, <4>2 DEF TypeOK
    <3> QED
      BY <3>1, <3>2
  <2>3. UNCHANGED <<ownerVars, timerVars, coroVars, port, posting, clock, expiry>>
    BY <1>3 DEF PopCallback
  <2> QED
    BY <2>1, <2>2, <2>3 DEF TypeOK, WorkerTypes, ownerVars, timerVars, coroVars
<1> QED
  BY <1>1, <1>2, <1>3 DEF Worker

LEMMA HandOverTypes ==
    ASSUME IocpAssumption, TypeOK, NEW f \in Callbacks,
           Post(f) \/ Wake(f) \/ NotifyTimer(f) \/ \E d \in 0 .. MaxClock : Schedule(f, d)
    PROVE  TypeOK'
<1> USE DEF ownerVars, timerVars, coroVars
<1>1. CASE Post(f)
  <2>1. callbacks' \in Seq(Callbacks)
    BY <1>1, SequenceFacts DEF Post, TypeOK
  <2>2. expiry' \in [Callbacks -> Nat \cup {Never}]
    BY <1>1 DEF Post, TypeOK
  <2> QED
    BY <1>1, <2>1, <2>2 DEF Post, TypeOK
<1>2. CASE Wake(f)
  <2>1. "callback" \in Completions
    BY DEF Completions
  <2>2. port' \in Seq(Coros \cup {"callback", "stop"})
    BY <1>2, <2>1, PortTypes DEF Wake
  <2> QED
    BY <1>2, <2>2 DEF Wake, TypeOK
<1>3. CASE NotifyTimer(f)
  BY <1>3 DEF NotifyTimer, Woken, TypeOK
<1>4. CASE \E d \in 0 .. MaxClock : Schedule(f, d)
  <2>1. PICK d \in 0 .. MaxClock : Schedule(f, d)
    BY <1>4
  <2>2. clock + d \in Nat
    BY DEF TypeOK, IocpAssumption
  <2>3. expiry' \in [Callbacks -> Nat \cup {Never}] /\ timers' \subseteq Nat \X Callbacks
    BY <2>1, <2>2 DEF Schedule, TypeOK
  <2> QED
    BY <2>1, <2>3 DEF Schedule, TypeOK
<1> QED
  BY <1>1, <1>2, <1>3, <1>4

LEMMA TimerTypes ==
    ASSUME IocpAssumption, TypeOK, Places, Timer
    PROVE  TypeOK'
<1> USE DEF ownerVars, timerVars, coroVars
<1>1. CASE TimerTest \/ TimerBlock \/ TimerTimeout
  BY <1>1 DEF TimerTest, TimerBlock, TimerTimeout, TypeOK
<1>2. CASE TimerLook
  <2>1. UNCHANGED <<ownerVars, coroVars, port, callbacks, posting, noting, wk, clock, expiry, runs>>
    BY <1>2 DEF TimerLook
  <2>2. /\ timers' \subseteq Nat \X Callbacks /\ due' \in Callbacks \cup {NoCallback}
        /\ deadline' \in Nat \cup {Never}
        /\ tm' \in {"test", "lock", "block", "wait", "post", "ended"}
    BY <1>2 DEF TimerLook, Earliest, Due, TypeOK
  <2> QED
    BY <2>1, <2>2 DEF TypeOK
<1>3. CASE TimerPost
  <2>1. due \in Callbacks
    BY <1>3 DEF TimerPost, Places, Held, TypeOK
  <2>2. callbacks' \in Seq(Callbacks)
    BY <1>3, <2>1, SequenceFacts DEF TimerPost, TypeOK
  <2> QED
    BY <1>3, <2>1, <2>2 DEF TimerPost, TypeOK
<1> QED
  BY <1>1, <1>2, <1>3 DEF Timer

LEMMA CoroutineTypes ==
    ASSUME IocpAssumption, TypeOK, NEW c \in Coros, Begin(c) \/ Complete(c)
    PROVE  TypeOK'
<1> USE DEF ownerVars, timerVars, coroVars
<1>1. CASE Begin(c)
  <2>1. ops[c] + 1 \in 0 .. MaxOps
    BY <1>1 DEF Begin, StartOperation, TypeOK, IocpAssumption
  <2>2. ops \in [Coros -> 0 .. MaxOps] /\ ops' = [ops EXCEPT ![c] = ops[c] + 1]
    BY <1>1 DEF Begin, StartOperation, TypeOK
  <2>3. ops' \in [Coros -> 0 .. MaxOps]
    BY <2>1, <2>2
  <2> QED
    BY <1>1, <2>3 DEF Begin, StartOperation, TypeOK
<1>2. CASE Complete(c)
  <2>1. c \in Completions
    BY DEF Completions
  <2>2. port' \in Seq(Coros \cup {"callback", "stop"})
    BY <1>2, <2>1, PortTypes DEF Complete
  <2> QED
    BY <1>2, <2>2 DEF Complete, TypeOK
<1> QED
  BY <1>1, <1>2

LEMMA OwnerTypes ==
    ASSUME IocpAssumption, TypeOK, Owner \/ Stop \/ StopWakes \/ Tick
    PROVE  TypeOK'
<1> USE DEF ownerVars, timerVars, coroVars
<1>1. CASE EnterRun
  <2>1. WorkerTypes'
    BY <1>1 DEF EnterRun, WorkerTypes
  <2> QED
    BY <1>1, <2>1 DEF EnterRun, TypeOK, WorkerTypes
<1>2. CASE Join \/ Stop
  BY <1>2 DEF Join, Stop, TypeOK
<1>3. CASE Tick
  <2>1. clock' \in 0 .. MaxClock
    BY <1>3 DEF Tick, TypeOK, IocpAssumption
  <2> QED
    BY <1>3, <2>1 DEF Tick, TypeOK
<1>4. CASE StopWakes
  <2>1. port' \in Seq(Coros \cup {"callback", "stop"})
    BY <1>4, CallsWakes DEF StopWakes, TypeOK, Completions
  <2> QED
    BY <1>4, <2>1 DEF StopWakes, Woken, TypeOK
<1>5. CASE Destroy
  BY <1>5 DEF Destroy, Woken, TypeOK
<1> QED
  BY <1>1, <1>2, <1>3, <1>4, <1>5 DEF Owner

LEMMA TypesInductive ==
    ASSUME IocpAssumption, TypeOK, Places, [Next]_vars
    PROVE  TypeOK'
<1>1. CASE UNCHANGED vars
  BY <1>1 DEF vars, TypeOK
<1> QED
  BY <1>1, WorkerStepTypes, HandOverTypes, TimerTypes, CoroutineTypes, OwnerTypes DEF Next

-----------------------------------------------------------------------------
(* Places, step by step.                                                   *)

LEMMA PlacesInductive ==
    ASSUME IocpAssumption, TypeOK, Places, [Next]_vars
    PROVE  Places'
<1>1. PICK n \in Nat : n = clock /\ n <= n /\ n <= n + 1 /\ n + 1 \in Nat
  BY DEF TypeOK
<1>2. ASSUME UNCHANGED <<timers, due, callbacks, posting, clock, expiry, runs>>,
             tm' = "post" => tm = "post"
      PROVE  Places'
  BY <1>1, <1>2, SamePlaces
<1> USE DEF ownerVars, timerVars, coroVars
<1>3. ASSUME NEW f \in Callbacks,
             Post(f) \/ Wake(f) \/ NotifyTimer(f) \/ \E d \in 0 .. MaxClock : Schedule(f, d)
      PROVE  Places'
  <2>1. CASE Post(f)
    BY <2>1, PostPlaces
  <2>2. CASE Wake(f)
    <3>1. /\ UNCHANGED <<timers, due, callbacks, clock, expiry, runs, tm>>
          /\ posting' \subseteq posting
      BY <2>2 DEF Wake
    <3> QED
      BY <1>1, <3>1, SamePlaces
  <2>3. CASE NotifyTimer(f)
    BY <1>2, <2>3 DEF NotifyTimer, Woken
  <2>4. CASE \E d \in 0 .. MaxClock : Schedule(f, d)
    <3>1. PICK d \in 0 .. MaxClock : Schedule(f, d)
      BY <2>4
    <3>2. d \in Nat
      BY DEF IocpAssumption
    <3> QED
      BY <3>1, <3>2, SchedulePlaces
  <2> QED
    BY <1>3, <2>1, <2>2, <2>3, <2>4
<1>4. CASE Timer
  <2>1. CASE TimerTest \/ TimerBlock \/ TimerTimeout
    BY <1>2, <2>1 DEF TimerTest, TimerBlock, TimerTimeout
  <2>2. CASE TimerLook
    <3>1. UNCHANGED <<callbacks, posting, clock, expiry, runs>>
      BY <2>2 DEF TimerLook
    <3>2. CASE \E t \in timers : Due(t) /\ timers' = timers \ {t} /\ due' = t[2]
      BY <3>1, <3>2, TakePlaces
    <3>3. CASE UNCHANGED <<timers, due>> /\ tm' # "post"
      BY <1>2, <3>1, <3>3
    <3> QED
      BY <2>2, <3>2, <3>3 DEF TimerLook
  <2>3. CASE TimerPost
    BY <2>3, TimerPostPlaces
  <2> QED
    BY <1>4, <2>1, <2>2, <2>3 DEF Timer
<1>5. CASE Tick
  <2>1. clock' = n + 1 /\ UNCHANGED <<timers, due, callbacks, posting, expiry, runs, tm>>
    BY <1>1, <1>5 DEF Tick
  <2> QED
    BY <1>1, <2>1, SamePlaces
<1>6. ASSUME NEW w \in Workers, Worker(w)
      PROVE  Places'
  <2>1. CASE WorkerTest(w) \/ GetNothing(w) \/ GetCompletion(w)
    BY <1>2, <2>1 DEF WorkerTest, GetNothing, GetCompletion
  <2> QED
    BY <1>6, <2>1, PopPlaces DEF Worker
<1>7. ASSUME NEW c \in Coros, Begin(c) \/ Complete(c)
      PROVE  Places'
  BY <1>2, <1>7 DEF Begin, Complete
<1>8. CASE Stop \/ StopWakes \/ Owner
  BY <1>2, <1>8 DEF Stop, StopWakes, Owner, EnterRun, Join, Destroy, Woken
<1>9. CASE UNCHANGED vars
  BY <1>2, <1>9 DEF vars
<1> QED
  BY <1>3, <1>4, <1>5, <1>6, <1>7, <1>8, <1>9 DEF Next

LEMMA StartedInductive ==
    ASSUME TypeOK, Started, [Next]_vars
    PROVE  Started'
<1> USE DEF ownerVars
<1>1. ASSUME NEW w \in Workers, Worker(w)
      PROVE  Started'
  <2>1. phase' = phase /\ wk[w] # "off"
    BY <1>1 DEF Worker, WorkerTest, GetNothing, GetCompletion, PopCallback
  <2> QED
    BY <2>1 DEF Started
<1>2. CASE \E f \in Callbacks : \/ Post(f) \/ Wake(f) \/ NotifyTimer(f)
                                \/ \E d \in 0 .. MaxClock : Schedule(f, d)
  BY <1>2 DEF Post, Wake, NotifyTimer, Schedule, Started
<1>3. CASE Timer \/ Tick
  BY <1>3 DEF Timer, TimerTest, TimerLook, TimerPost, TimerBlock, TimerTimeout, Tick, Started
<1>4. CASE \E c \in Coros : Begin(c) \/ Complete(c)
  BY <1>4 DEF Begin, Complete, Started
<1>5. CASE Stop \/ StopWakes
  BY <1>5 DEF Stop, StopWakes, Started
<1>6. CASE Owner
  BY <1>6 DEF Owner, EnterRun, Join, Destroy, Started
<1>7. CASE UNCHANGED vars
  BY <1>7 DEF vars, Started
<1> QED
  BY <1>1, <1>2, <1>3, <1>4, <1>5, <1>6, <1>7 DEF Next

-----------------------------------------------------------------------------
(* The count, step by step.                                                *)

LEMMA SameCount ==
    ASSUME Counted, UNCHANGED <<callbacks, port, posting, wk>>
    PROVE  Counted'
BY DEF Counted, Calls, Popping

(* A callback is pushed: one more waits, and one more wake-up is to come.  *)
LEMMA PushCounted ==
    ASSUME IocpAssumption, TypeOK, Counted, NEW f \in Callbacks, f \notin posting,
           callbacks' = Append(callbacks, f), posting' = posting \cup {f}, UNCHANGED <<port, wk>>
    PROVE  Counted'
<1>1. Len(callbacks') = Len(callbacks) + 1
  BY SequenceFacts DEF TypeOK
<1>2. Cardinality(posting') = Cardinality(posting) + 1
  BY SetCounts, FS_AddElement
<1>3. Calls(port)' = Calls(port) /\ Popping' = Popping
  BY DEF Calls, Popping
<1> QED
  BY <1>1, <1>2, <1>3, SetCounts DEF Counted

(* The wake-up reaches the port.                                           *)
LEMMA WakeCounted ==
    ASSUME IocpAssumption, TypeOK, Counted, NEW f \in Callbacks, Wake(f)
    PROVE  Counted'
<1>1. Cardinality(posting') = Cardinality(posting) - 1
  BY SetCounts, FS_RemoveElement DEF Wake
<1>2. Cardinality(Calls(port)') = Cardinality(Calls(port)) + 1
  <2>1. port \in Seq(Completions) /\ "callback" \in Completions
    BY DEF TypeOK, Completions
  <2> QED
    BY <2>1, CallsAppend DEF Wake, Calls
<1>3. Len(callbacks') = Len(callbacks) /\ Popping' = Popping
  BY DEF Wake, Popping
<1> QED
  BY <1>1, <1>2, <1>3, SetCounts DEF Counted

LEMMA WorkerCounted ==
    ASSUME IocpAssumption, TypeOK, Counted, NEW w \in Workers, Worker(w)
    PROVE  Counted'
<1>1. CASE WorkerTest(w) \/ GetNothing(w)
  <2>1. PICK l \in {"off", "get", "test"} : Goto(w, l) /\ wk[w] # "pop"
    BY <1>1 DEF WorkerTest, GetNothing
  <2>2. Cardinality(Popping') = Cardinality(Popping)
    <3>1. IsFiniteSet(Popping') /\ Cardinality(Popping') \in Nat
      BY WorkerStepTypes, SetCounts, FS_Subset, FS_CardinalityType DEF Popping, IocpAssumption
    <3> QED
      BY <2>1, <3>1, PoppingMoves, SetCounts
  <2>3. UNCHANGED <<callbacks, port, posting>>
    BY <1>1 DEF WorkerTest, GetNothing
  <2> QED
    BY <2>2, <2>3 DEF Counted, Calls
<1>2. CASE GetCompletion(w)
  <2>1. /\ wk[w] = "get" /\ port # <<>> /\ port' = Tail(port)
        /\ UNCHANGED <<callbacks, posting>>
        /\ Goto(w, IF Head(port) = "callback" THEN "pop" ELSE "test")
    BY <1>2 DEF GetCompletion
  <2>2. PICK a \in Nat : a = IF Head(port) = "callback" THEN 1 ELSE 0
    OBVIOUS
  <2>3. Cardinality(Popping') + 0 = Cardinality(Popping) + a
    BY <2>1, <2>2, PoppingMoves
  <2>4. Cardinality(Calls(port)) = Cardinality(Calls(port)') + a
    <3>1. port \in Seq(Completions)
      BY DEF TypeOK, Completions
    <3> QED
      BY <2>1, <2>2, <3>1, CallsTail DEF Calls
  <2>5. Cardinality(Popping') \in Nat /\ Cardinality(Calls(port)') \in Nat
    <3>1. TypeOK'
      BY WorkerStepTypes
    <3>2. IsFiniteSet(Popping')
      BY FS_Subset DEF Popping, IocpAssumption
    <3>3. port' \in Seq(Completions)
      BY <3>1 DEF TypeOK, Completions
    <3> QED
      BY <3>2, <3>3, CallsCount, FS_CardinalityType DEF Calls
  <2> QED
    BY <2>1, <2>2, <2>3, <2>4, <2>5, SetCounts DEF Counted
<1>3. CASE PopCallback(w)
  <2>1. wk[w] = "pop" /\ Goto(w, "test") /\ UNCHANGED <<port, posting>>
    BY <1>3 DEF PopCallback
  <2>2. Cardinality(Popping') + 1 = Cardinality(Popping) /\ Cardinality(Popping') \in Nat
    <3>1. IsFiniteSet(Popping') /\ Cardinality(Popping') \in Nat
      BY FS_Subset, FS_CardinalityType DEF Popping, IocpAssumption
    <3>2. Cardinality(Popping') + 1 = Cardinality(Popping) + 0
      BY <2>1, PoppingMoves
    <3> QED
      BY <3>1, <3>2, SetCounts
  <2>3. callbacks # <<>>
    <3>1. Len(callbacks) # 0
      BY <2>2, SetCounts DEF Counted
    <3> QED
      BY <3>1, SequenceFacts DEF TypeOK
  <2>4. Len(callbacks') = Len(callbacks) - 1
    BY <1>3, <2>3, SequenceFacts DEF PopCallback, TypeOK
  <2>5. Calls(port)' = Calls(port) /\ posting' = posting
    BY <2>1 DEF Calls
  <2> QED
    BY <2>2, <2>4, <2>5, SetCounts DEF Counted
<1> QED
  BY <1>1, <1>2, <1>3 DEF Worker

(* A completion of an operation and the wake-ups of stop() are no          *)
(* callback's.                                                             *)
LEMMA PortCounted ==
    ASSUME IocpAssumption, TypeOK, Counted, (\E c \in Coros : Complete(c)) \/ StopWakes
    PROVE  Counted'
<1>1. UNCHANGED <<callbacks, posting, wk>>
  BY DEF Complete, StopWakes
<1>2. Cardinality(Calls(port)') = Cardinality(Calls(port))
  <2>1. port \in Seq(Completions)
    BY DEF TypeOK, Completions
  <2>2. CASE \E c \in Coros : Complete(c)
    <3>1. PICK c \in Coros : port' = Append(port, c)
      BY <2>2 DEF Complete
    <3>2. c \in Completions /\ c # "callback"
      BY DEF Completions, IocpAssumption
    <3>3. Cardinality(Calls(port)') = Cardinality(Calls(port)) + 0
      BY <2>1, <3>1, <3>2, CallsAppend DEF Calls
    <3> QED
      BY <3>3, SetCounts
  <2>3. CASE StopWakes
    BY <2>1, <2>3, CallsWakes DEF StopWakes, Calls
  <2> QED
    BY <2>2, <2>3
<1> QED
  BY <1>1, <1>2 DEF Counted, Popping

LEMMA CountInductive ==
    ASSUME IocpAssumption, IInv, [Next]_vars
    PROVE  Counted'
<1>1. TypeOK /\ Places /\ Started /\ Counted
  BY DEF IInv
<1> USE DEF ownerVars, timerVars, coroVars
<1>2. ASSUME NEW f \in Callbacks,
             Post(f) \/ Wake(f) \/ NotifyTimer(f) \/ \E d \in 0 .. MaxClock : Schedule(f, d)
      PROVE  Counted'
  <2>1. CASE Post(f)
    <3>1. f \notin posting
      BY <1>1, <2>1 DEF Post, Places, Fresh, Unposted
    <3> QED
      BY <1>1, <2>1, <3>1, PushCounted DEF Post
  <2>2. CASE Wake(f)
    BY <1>1, <2>2, WakeCounted
  <2>3. CASE NotifyTimer(f) \/ \E d \in 0 .. MaxClock : Schedule(f, d)
    BY <1>1, <2>3, SameCount DEF NotifyTimer, Schedule
  <2> QED
    BY <1>2, <2>1, <2>2, <2>3
<1>3. CASE Timer
  <2>1. CASE TimerPost
    <3>1. due \in Callbacks /\ due \notin posting
      BY <1>1, <2>1 DEF TimerPost, Places, Held, Unposted, TypeOK
    <3> QED
      BY <1>1, <2>1, <3>1, PushCounted DEF TimerPost
  <2>2. CASE TimerTest \/ TimerLook \/ TimerBlock \/ TimerTimeout
    BY <1>1, <2>2, SameCount DEF TimerTest, TimerLook, TimerBlock, TimerTimeout
  <2> QED
    BY <1>3, <2>1, <2>2 DEF Timer
<1>4. ASSUME NEW c \in Coros, Begin(c) \/ Complete(c)
      PROVE  Counted'
  BY <1>1, <1>4, SameCount, PortCounted DEF Begin
<1>5. CASE Tick \/ Stop
  BY <1>1, <1>5, SameCount DEF Tick, Stop
<1>6. CASE Owner
  <2>1. CASE EnterRun
    <3>1. Popping = {} /\ Popping' = {}
      BY <1>1, <2>1 DEF EnterRun, Started, Popping
    <3> QED
      BY <1>1, <2>1, <3>1 DEF EnterRun, Counted, Calls
  <2>2. CASE Join
    BY <1>1, <2>2, SameCount DEF Join
  <2>3. CASE Destroy
    BY <1>1, <2>3, SameCount DEF Destroy
  <2> QED
    BY <1>6, <2>1, <2>2, <2>3 DEF Owner
<1>7. CASE UNCHANGED vars
  BY <1>1, <1>7, SameCount DEF vars
<1> QED
  BY <1>1, <1>2, <1>3, <1>4, <1>5, <1>6, <1>7, WorkerCounted, PortCounted DEF Next

-----------------------------------------------------------------------------
LEMMA Starts ==
    ASSUME IocpAssumption, Init
    PROVE  IInv
<1>1. TypeOK
  <2>1. <<>> \in Seq(Callbacks) /\ <<>> \in Seq(Coros \cup {"callback", "stop"})
    BY EmptySeq
  <2>2. 0 \in 0 .. MaxOps /\ 0 \in 0 .. MaxClock
    BY DEF IocpAssumption
  <2>3. WorkerTypes /\ ops \in [Coros -> 0 .. MaxOps]
    BY <2>2 DEF Init, WorkerTypes
  <2>4. expiry \in [Callbacks -> Nat \cup {Never}] /\ runs \in [Callbacks -> Nat]
    BY DEF Init
  <2> QED
    BY <2>1, <2>2, <2>3, <2>4 DEF Init, TypeOK, WorkerTypes
<1>2. Places
  <2>1. Len(callbacks) = 0 /\ 1 .. 0 = {}
    BY EmptySeq DEF Init
  <2> QED
    BY <2>1 DEF Init, Places, Fresh, Timed, Held, Queued, Unposted, InQueue, IocpAssumption
<1>3. Started
  BY DEF Init, Started
<1>4. Counted
  <2>1. Calls(port) = {} /\ Popping = {} /\ posting = {} /\ Len(callbacks) = 0
    BY EmptySeq DEF Init, Calls, Popping
  <2> QED
    BY <2>1, FS_EmptySet DEF Counted
<1> QED
  BY <1>1, <1>2, <1>3, <1>4 DEF IInv

LEMMA Inductive ==
    ASSUME IocpAssumption, IInv, [Next]_vars
    PROVE  IInv'
<1>1. TypeOK /\ Places /\ Started /\ Counted
  BY DEF IInv
<1> QED
  BY <1>1, TypesInductive, PlacesInductive, StartedInductive, CountInductive DEF IInv

(* Every variable of IocpContext keeps its type.                           *)
THEOREM TypeCorrect == ASSUME IocpAssumption PROVE Spec => []TypeOK
<1>1. Init => IInv
  BY Starts
<1>2. IInv /\ [Next]_vars => IInv'
  BY Inductive
<1>3. IInv => TypeOK
  BY DEF IInv
<1> QED
  BY <1>1, <1>2, <1>3, PTL DEF Spec

(* The callbacks in callbacks_ are as many as the wake-ups under way for   *)
(* them: a worker that a wake-up reaches finds a callback, and no callback *)
(* is left in the queue while every worker sleeps.                         *)
THEOREM CallbacksWoken == ASSUME IocpAssumption PROVE Spec => []EachCallbackWoken
<1>1. Init => IInv
  BY Starts
<1>2. IInv /\ [Next]_vars => IInv'
  BY Inductive
<1>3. IInv => EachCallbackWoken
  BY CountedIs DEF IInv
<1> QED
  BY <1>1, <1>2, <1>3, PTL DEF Spec

(* A callback given to post() or schedule() runs once at most, and never   *)
(* before its expiry.                                                      *)
THEOREM RunOnceWhenDue == ASSUME IocpAssumption PROVE Spec => RunsOnceWhenDue
<1>1. Init => IInv
  BY Starts
<1>2. IInv /\ [Next]_vars => IInv'
  BY Inductive
<1>3. ASSUME IInv, Next, NEW f \in Callbacks, runs'[f] # runs[f]
      PROVE  runs[f] = 0 /\ expiry[f] # Never /\ expiry[f] <= clock
  <2>1. PICK w \in Workers : PopCallback(w) /\ callbacks # <<>>
    BY <1>3 DEF Next, vars, Post, Wake, NotifyTimer, Schedule, Timer, TimerTest, TimerLook,
                TimerPost, TimerBlock, TimerTimeout, Tick, Worker, WorkerTest, GetNothing,
                GetCompletion, PopCallback, Begin, Complete, Stop, StopWakes, Owner, EnterRun,
                Join, Destroy
  <2>2. /\ 1 \in 1 .. Len(callbacks) /\ Head(callbacks) = callbacks[1]
    BY <1>3, <2>1, SequenceFacts DEF IInv, TypeOK
  <2>3. f = callbacks[1]
    BY <1>3, <2>1, <2>2 DEF PopCallback, IInv, TypeOK
  <2> QED
    BY <1>3, <2>2, <2>3 DEF IInv, Places, Queued
<1>4. IInv /\ [Next]_vars
        => [\A f \in Callbacks :
              runs'[f] # runs[f] => runs[f] = 0 /\ expiry[f] # Never /\ expiry[f] <= clock]_vars
  BY <1>3
<1> QED
  BY <1>1, <1>2, <1>4, PTL DEF Spec, RunsOnceWhenDue
=============================================================================
