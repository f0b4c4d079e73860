----------------------------- MODULE KqueueProofs -----------------------------
(***************************************************************************)
(* For any workers, coroutines and targets: a coroutine that waits on a    *)
(* kqueue is in one place, so one worker resumes it, once.                 *)
(*                                                                         *)
(* This is inductive with what the stacks of the threads hold, where a     *)
(* registration is until its continuation is stored, what a worker has in  *)
(* its hands in each part of its loop, and that a coroutine is posted      *)
(* once.                                                                   *)
(***************************************************************************)
EXTENDS Kqueue, SequenceTheorems, FiniteSetTheorems, WellFoundedInduction, TLAPS

(* A set of positions in a sequence has a last one.                        *)
LEMMA LastPosition ==
    ASSUME NEW n \in Nat, NEW A, A \subseteq 1 .. n, A # {}
    PROVE  \E i \in A : \A j \in A : j <= i
<1>1. PICK T : T = {k \in Nat : n - k \in A}
  OBVIOUS
<1>2. PICK a \in A : TRUE
  OBVIOUS
<1>3. n - a \in Nat /\ n - (n - a) = a
  BY <1>2
<1>4. T \subseteq Nat /\ T # {}
  BY <1>1, <1>2, <1>3
<1>5. PICK x \in T : \A y \in T : <<y, x>> \notin OpToRel(<, Nat)
  BY <1>4, NatLessThanWellFounded, WFMin
<1>6. \A y \in T : ~ (y < x)
  BY <1>4, <1>5 DEF OpToRel
<1>7. x \in Nat /\ n - x \in A
  BY <1>1, <1>5
<1>8. ASSUME NEW j \in A PROVE j <= n - x
  <2>1. j \in 1 .. n /\ n - j \in Nat /\ n - (n - j) = j
    BY <1>8
  <2>2. n - j \in T
    BY <1>1, <2>1
  <2>3. ~ (n - j < x)
    BY <1>6, <2>2
  <2> QED
    BY <1>7, <2>1, <2>3
<1> QED
  BY <1>7, <1>8

LEMMA SequenceFacts ==
    /\ \A s \in Seq(Coros) : /\ Len(s) \in Nat /\ (s = <<>> <=> Len(s) = 0)
                             /\ \A i \in 1 .. Len(s) : s[i] \in Coros
                             /\ DOMAIN s = 1 .. Len(s)
    /\ \A s \in Seq(Coros) : s # <<>> =>
          /\ 1 \in 1 .. Len(s) /\ Head(s) = s[1] /\ s[1] \in Coros
          /\ Tail(s) \in Seq(Coros) /\ Len(Tail(s)) = Len(s) - 1
          /\ \A i \in 1 .. Len(Tail(s)) : Tail(s)[i] = s[i + 1]
    /\ \A s \in Seq(Coros), c \in Coros :
          /\ Append(s, c) \in Seq(Coros) /\ Len(Append(s, c)) = Len(s) + 1
          /\ Append(s, c)[Len(s) + 1] = c
          /\ \A i \in 1 .. Len(s) : Append(s, c)[i] = s[i]
    /\ <<>> \in Seq(Coros) /\ Len(<<>>) = 0
<1>1. \A s \in Seq(Coros) : /\ Len(s) \in Nat /\ (s = <<>> <=> Len(s) = 0)
                            /\ \A i \in 1 .. Len(s) : s[i] \in Coros
                            /\ DOMAIN s = 1 .. Len(s)
  BY LenProperties, EmptySeq, ElementOfSeq
<1>2. ASSUME NEW s \in Seq(Coros), s # <<>>
      PROVE  /\ 1 \in 1 .. Len(s) /\ Head(s) = s[1] /\ s[1] \in Coros
             /\ Tail(s) \in Seq(Coros) /\ Len(Tail(s)) = Len(s) - 1
             /\ \A i \in 1 .. Len(Tail(s)) : Tail(s)[i] = s[i + 1]
  <2>1. PICK n \in Nat \ {0} : n = Len(s)
    BY <1>1, <1>2
  <2>2. 1 \in 1 .. n
    OBVIOUS
  <2>3. /\ Head(s) = s[1] /\ Tail(s) \in Seq(Coros) /\ Len(Tail(s)) = Len(s) - 1
        /\ \A i \in 1 .. Len(Tail(s)) : Tail(s)[i] = s[i + 1]
    BY <1>2, HeadTailProperties
  <2> QED
    BY <1>1, <2>1, <2>2, <2>3
<1> QED
  BY <1>1, <1>2, AppendProperties, EmptySeq

(* A coroutine on top of a stack.                                          *)
LEMMA PushFacts ==
    ASSUME NEW s \in Seq(Coros), NEW c \in Coros
    PROVE  /\ <<c>> \o s \in Seq(Coros) /\ Len(<<c>> \o s) = Len(s) + 1
           /\ (<<c>> \o s)[1] = c
           /\ \A i \in 1 .. Len(s) : (<<c>> \o s)[i + 1] = s[i]
<1>1. <<c>> \in Seq(Coros) /\ Len(<<c>>) = 1 /\ <<c>>[1] = c
  OBVIOUS
<1>2. PICK n \in Nat : n = Len(s)
  BY LenProperties
<1>3. /\ <<c>> \o s \in Seq(Coros) /\ Len(<<c>> \o s) = 1 + n
      /\ \A i \in 1 .. 1 + n : (<<c>> \o s)[i] = IF i <= 1 THEN <<c>>[i] ELSE s[i - 1]
  BY <1>1, <1>2, ConcatProperties
<1>4. (<<c>> \o s)[1] = c
  <2>1. 1 \in 1 .. 1 + n
    OBVIOUS
  <2> QED
    BY <1>1, <1>3, <2>1
<1>5. ASSUME NEW i \in 1 .. n PROVE (<<c>> \o s)[i + 1] = s[i]
  <2>1. i + 1 \in 1 .. 1 + n /\ ~ (i + 1 <= 1) /\ (i + 1) - 1 = i
    OBVIOUS
  <2> QED
    BY <1>3, <2>1
<1> QED
  BY <1>2, <1>3, <1>4, <1>5

(* What a worker's buffer makes of the kernel's note for a target: that of *)
(* the last of its changes for the target, if there is any.                *)
LEMMA AddedIs ==
    ASSUME NEW t, NEW s \in Seq(Coros)
    PROVE  \/ /\ Added(t, s) = armed[t]
              /\ \A i \in 1 .. Len(s) : Target[s[i]] # t
           \/ \E i \in 1 .. Len(s) : Target[s[i]] = t /\ Added(t, s) = s[i]
<1>1. PICK n \in Nat : n = Len(s) /\ DOMAIN s = 1 .. n
  BY LenProperties
<1>2. PICK A : A = {i \in 1 .. n : Target[s[i]] = t}
  OBVIOUS
<1>3. Added(t, s) = IF A = {} THEN armed[t] ELSE s[CHOOSE i \in A : \A j \in A : j <= i]
  <2>1. A = {i \in DOMAIN s : Target[s[i]] = t}
    BY <1>1, <1>2
  <2> QED
    BY <2>1 DEF Added
<1>4. CASE A = {}
  BY <1>1, <1>2, <1>3, <1>4
<1>5. CASE A # {}
  <2>1. \E i \in A : \A j \in A : j <= i
    BY <1>2, <1>5, LastPosition
  <2>2. PICK k : k = CHOOSE i \in A : \A j \in A : j <= i
    OBVIOUS
  <2>3. k \in A
    BY <2>1, <2>2
  <2>4. Added(t, s) = s[k]
    BY <1>3, <1>5, <2>2, Zenon
  <2>5. k \in 1 .. Len(s) /\ Target[s[k]] = t
    BY <1>1, <1>2, <2>3
  <2> QED
    BY <2>4, <2>5
<1> QED
  BY <1>4, <1>5

-----------------------------------------------------------------------------
(* Types. *)

(* The kernel's notes after a call of kevent() by worker w.                *)
LEMMA KnoteTypes ==
    ASSUME TypeOK, NEW w \in Workers, NEW t \in Targets
    PROVE  Added(t, pending[w]) \in Coros \cup {NoOne}
<1>1. pending[w] \in Seq(Coros) /\ armed[t] \in Coros \cup {NoOne}
  BY DEF TypeOK, Threads
<1>2. \A i \in 1 .. Len(pending[w]) : pending[w][i] \in Coros
  BY <1>1, SequenceFacts
<1>3. \/ Added(t, pending[w]) = armed[t]
      \/ \E i \in 1 .. Len(pending[w]) : Added(t, pending[w]) = pending[w][i]
  BY <1>1, AddedIs
<1> QED
  BY <1>1, <1>2, <1>3

LEMMA StackTypes ==
    ASSUME TypeOK, NEW th \in Threads
    PROVE  /\ on[th] \in Seq(Coros) /\ pending[th] \in Seq(Coros)
           /\ \A c \in Coros : [on EXCEPT ![th] = <<c>> \o @] \in [Threads -> Seq(Coros)]
           /\ on[th] # <<>> => [on EXCEPT ![th] = Tail(@)] \in [Threads -> Seq(Coros)]
           /\ \A c \in Coros : [pending EXCEPT ![th] = Append(@, c)] \in [Threads -> Seq(Coros)]
           /\ [pending EXCEPT ![th] = <<>>] \in [Threads -> Seq(Coros)]
<1>1. on[th] \in Seq(Coros) /\ pending[th] \in Seq(Coros)
  BY DEF TypeOK
<1>2. \A c \in Coros : <<c>> \o on[th] \in Seq(Coros)
  BY <1>1, PushFacts
<1>3. on[th] # <<>> => Tail(on[th]) \in Seq(Coros)
  BY <1>1, SequenceFacts
<1>4. <<>> \in Seq(Coros) /\ \A c \in Coros : Append(pending[th], c) \in Seq(Coros)
  BY <1>1, SequenceFacts
<1>5. on \in [Threads -> Seq(Coros)] /\ pending \in [Threads -> Seq(Coros)]
  BY DEF TypeOK
<1> QED
  BY <1>1, <1>2, <1>3, <1>4, <1>5

CoroTypes == co \in [Coros -> {"new", "posted", "runs", "registered", "parked", "ended"}]

LEMMA BeginTypes ==
    ASSUME TypeOK, NEW th \in Threads, NEW c \in Coros, Begin(th, c)
    PROVE  CoroTypes' /\ on' \in [Threads -> Seq(Coros)]
<1>1. on' \in [Threads -> Seq(Coros)]
  BY StackTypes DEF Begin
<1>2. CoroTypes'
  BY DEF Begin, TypeOK, CoroTypes
<1> QED
  BY <1>1, <1>2

LEMMA ExecuteTypes ==
    ASSUME KqueueAssumption, TypeOK, NEW th \in Threads, Execute(th)
    PROVE  TypeOK'
<1>1. PICK c \in Coros : Register(th, c) \/ Suspend(th, c) \/ Spawn(th, c) \/ End(th, c)
  BY DEF Execute
<1>2. CASE Register(th, c)
  <2>1. pending' \in [Threads -> Seq(Coros)]
    BY <1>2, StackTypes DEF Register
  <2>2. ops' \in [Coros -> 0 .. MaxOps]
    <3>1. ops[c] \in Nat /\ ops[c] < MaxOps /\ MaxOps \in Nat
      BY <1>2 DEF Register, TypeOK, KqueueAssumption
    <3>2. ops[c] + 1 \in 0 .. MaxOps
      BY <3>1
    <3>3. ops \in [Coros -> 0 .. MaxOps] /\ ops' = [ops EXCEPT ![c] = ops[c] + 1]
      BY <1>2 DEF Register, TypeOK
    <3> QED
      BY <3>2, <3>3
  <2>3. CoroTypes'
    BY <1>2 DEF Register, TypeOK, CoroTypes
  <2>4. UNCHANGED <<phase, stopped, queue, armed, ready, batch, at, on>>
    BY <1>2 DEF Register
  <2> QED
    BY <2>1, <2>2, <2>3, <2>4 DEF TypeOK, CoroTypes
<1>3. CASE Suspend(th, c) \/ End(th, c)
  <2>1. on' \in [Threads -> Seq(Coros)]
    <3>1. on[th] # <<>> /\ on' = [on EXCEPT ![th] = Tail(@)]
      BY <1>3 DEF Suspend, End, Runs, Leave
    <3> QED
      BY <3>1, StackTypes
  <2>2. CoroTypes'
    BY <1>3 DEF Suspend, End, TypeOK, CoroTypes
  <2> QED
    BY <1>3, <2>1, <2>2 DEF Suspend, End, TypeOK, CoroTypes
<1>4. CASE Spawn(th, c)
  <2>1. CoroTypes' /\ on' \in [Threads -> Seq(Coros)]
    BY <1>4, BeginTypes DEF Spawn
  <2> QED
    BY <1>4, <2>1 DEF Spawn, TypeOK, CoroTypes
<1> QED
  BY <1>1, <1>2, <1>3, <1>4

LEMMA WorkerTypes ==
    ASSUME KqueueAssumption, TypeOK, NEW w \in Workers, Worker(w)
    PROVE  TypeOK'
<1>t. w \in Threads
  BY DEF Threads
<1>1. CASE Test(w) \/ EventsDone(w)
  <2>1. at' \in [Workers -> {"test", "poll", "events", "callback", "ended"}]
    BY <1>1 DEF Test, EventsDone, Goto, TypeOK
  <2> QED
    BY <1>1, <2>1 DEF Test, EventsDone, TypeOK
<1>2. CASE Poll(w)
  <2>1. PICK k : k = [t \in Targets |-> Added(t, pending[w])]
    OBVIOUS
  <2>2. \A t \in Targets : k[t] \in Coros \cup {NoOne}
    BY <2>1, KnoteTypes
  <2>3. /\ batch' = [batch EXCEPT ![w] = {k[t] : t \in ready} \ {NoOne}]
        /\ armed' = [t \in Targets |-> IF t \in ready THEN NoOne ELSE k[t]]
        /\ pending' = [pending EXCEPT ![w] = <<>>] /\ Goto(w, "events")
        /\ UNCHANGED <<phase, stopped, queue, ready, on, co, ops>>
    BY <1>2, <2>1 DEF Poll
  <2>4. armed' \in [Targets -> Coros \cup {NoOne}]
    BY <2>2, <2>3
  <2>5. {k[t] : t \in ready} \ {NoOne} \in SUBSET Coros
    BY <2>2 DEF TypeOK
  <2>6. batch' \in [Workers -> SUBSET Coros]
    BY <2>3, <2>5 DEF TypeOK
  <2>7. pending' \in [Threads -> Seq(Coros)]
    BY <1>t, <2>3, StackTypes
  <2>8. at' \in [Workers -> {"test", "poll", "events", "callback", "ended"}]
    BY <2>3 DEF Goto, TypeOK
  <2> QED
    BY <2>3, <2>4, <2>6, <2>7, <2>8 DEF TypeOK
<1>3. CASE HandleEvent(w)
  <2>1. PICK c \in batch[w] :
          /\ batch' = [batch EXCEPT ![w] = @ \ {c}]
          /\ \E more \in SUBSET {Target[c]} : ready' = (ready \ {Target[c]}) \cup more
          /\ IF co[c] = "parked" THEN Begin(w, c) ELSE UNCHANGED <<co, on>>
    BY <1>3 DEF HandleEvent
  <2>2. c \in Coros
    BY <2>1 DEF TypeOK
  <2>3. batch' \in [Workers -> SUBSET Coros]
    BY <2>1 DEF TypeOK
  <2>4. ready' \subseteq Targets
    BY <2>1, <2>2 DEF TypeOK, Targets
  <2>5. CoroTypes' /\ on' \in [Threads -> Seq(Coros)]
    BY <1>t, <2>1, <2>2, BeginTypes DEF TypeOK, CoroTypes
  <2> QED
    BY <1>3, <2>3, <2>4, <2>5 DEF HandleEvent, TypeOK, CoroTypes
<1>4. CASE RunCallback(w)
  <2>1. at' \in [Workers -> {"test", "poll", "events", "callback", "ended"}]
    BY <1>4 DEF RunCallback, Goto, TypeOK
  <2>2. queue \in Seq(Coros)
    BY DEF TypeOK
  <2>3. CASE queue = <<>>
    BY <1>4, <2>1, <2>3 DEF RunCallback, TypeOK
  <2>4. CASE queue # <<>>
    <3>1. Head(queue) \in Coros /\ Tail(queue) \in Seq(Coros)
      BY <2>2, <2>4, SequenceFacts
    <3>2. CoroTypes' /\ on' \in [Threads -> Seq(Coros)] /\ queue' = Tail(queue)
      BY <1>t, <1>4, <2>4, <3>1, BeginTypes DEF RunCallback
    <3> QED
      BY <1>4, <2>1, <3>1, <3>2 DEF RunCallback, TypeOK, CoroTypes
  <2> QED
    BY <2>3, <2>4
<1> QED
  BY <1>t, <1>1, <1>2, <1>3, <1>4, ExecuteTypes DEF Worker

LEMMA TypesInductive ==
    ASSUME KqueueAssumption, TypeOK, [Next]_vars
    PROVE  TypeOK'
<1>1. CASE \E w \in Workers : Worker(w)
  BY <1>1, WorkerTypes
<1>2. CASE MainThread
  <2>m. Main \in Threads /\ Acceptor \in Coros
    BY DEF Threads, KqueueAssumption
  <2>1. CASE StartAcceptor
    <3>1. CoroTypes' /\ on' \in [Threads -> Seq(Coros)]
      BY <2>m, <2>1, BeginTypes DEF StartAcceptor
    <3> QED
      BY <2>1, <3>1 DEF StartAcceptor, TypeOK, CoroTypes
  <2>2. CASE Execute(Main)
    BY <2>m, <2>2, ExecuteTypes
  <2>3. CASE EnterRun \/ Join
    BY <2>3 DEF EnterRun, Join, TypeOK
  <2> QED
    BY <1>2, <2>1, <2>2, <2>3 DEF MainThread
<1>3. CASE \E c \in Coros : Post(c)
  <2>1. PICK c \in Coros : Post(c)
    BY <1>3
  <2>2. queue' \in Seq(Coros)
    BY <2>1, SequenceFacts DEF Post, TypeOK
  <2>3. CoroTypes'
    BY <2>1 DEF Post, TypeOK, CoroTypes
  <2> QED
    BY <2>1, <2>2, <2>3 DEF Post, TypeOK, CoroTypes
<1>4. CASE Stop \/ \E t \in Targets : BecomeReady(t)
  BY <1>4 DEF Stop, BecomeReady, TypeOK
<1>5. CASE UNCHANGED vars
  BY <1>5 DEF vars, TypeOK
<1> QED
  BY <1>1, <1>2, <1>3, <1>4, <1>5 DEF Next

-----------------------------------------------------------------------------
(* The stacks of the threads: what is on one executes, at one place, and   *)
(* only the top of a stack can be between its registration and the storing *)
(* of its continuation.                                                    *)

Executing(c) == co[c] \in {"runs", "registered"}

Stacks ==
    /\ \A th \in Threads : \A i \in 1 .. Len(on[th]) :
          Executing(on[th][i]) /\ (co[on[th][i]] = "registered" => i = 1)
    /\ \A th, u \in Threads : \A i \in 1 .. Len(on[th]), j \in 1 .. Len(on[u]) :
          on[th][i] = on[u][j] => th = u /\ i = j

(* A registration whose continuation is not stored waits in the buffer of  *)
(* the thread that made it.                                                *)
Registering ==
    \A c \in Coros : co[c] = "registered" =>
        \E th \in Threads : on[th] # <<>> /\ on[th][1] = c /\ c \in Buffered(th)

(* A worker calls kevent() and takes a callback with an empty stack, and   *)
(* has events to handle in one part of its loop only; before run() there   *)
(* is no worker.                                                           *)
Loops ==
    \A w \in Workers :
        /\ phase = "start" => at[w] = "ended"
        /\ at[w] \in {"poll", "callback", "ended"} => on[w] = <<>>
        /\ at[w] # "events" => batch[w] = {}

(* A coroutine is posted once.                                             *)
Posted ==
    /\ \A i \in 1 .. Len(queue) : co[queue[i]] = "posted"
    /\ \A i, j \in 1 .. Len(queue) : queue[i] = queue[j] => i = j

(* Those that execute are other coroutines than those that do not.         *)
LEMMA NotOnStack ==
    ASSUME Stacks, NEW c, ~Executing(c), NEW th \in Threads, NEW i \in 1 .. Len(on[th])
    PROVE  on[th][i] # c
BY DEF Stacks

(* Coroutine c is put on top of the stack of a thread.                     *)
LEMMA BeginStacks ==
    ASSUME TypeOK, Stacks, NEW th \in Threads, NEW c \in Coros, ~Executing(c), Begin(th, c),
           on[th] = <<>> \/ co[on[th][1]] = "runs"
    PROVE  Stacks'
<1>1. PICK n \in Nat : n = Len(on[th]) /\ on[th] \in Seq(Coros)
  BY LenProperties DEF TypeOK
<1>2. /\ on'[th] = <<c>> \o on[th] /\ \A u \in Threads : u # th => on'[u] = on[u]
      /\ co'[c] = "runs" /\ \A d \in Coros : d # c => co'[d] = co[d]
  BY DEF Begin, TypeOK
<1>3. Len(on'[th]) = n + 1 /\ on'[th][1] = c /\ \A i \in 1 .. n : on'[th][i + 1] = on[th][i]
  BY <1>1, <1>2, PushFacts
<1>4. \A u \in Threads : \A i \in 1 .. Len(on[u]) :
         on[u][i] \in Coros /\ on[u][i] # c /\ Executing(on[u][i])
           /\ (co[on[u][i]] = "registered" => i = 1)
  <2>1. \A u \in Threads : on[u] \in Seq(Coros)
    BY DEF TypeOK
  <2> QED
    BY <2>1, SequenceFacts, NotOnStack DEF Stacks
<1>5. \A i \in 1 .. n : co[on[th][i]] = "runs"
  <2> SUFFICES ASSUME NEW i \in 1 .. n PROVE co[on[th][i]] = "runs"
    OBVIOUS
  <2>1. co[on[th][i]] = "runs" \/ (co[on[th][i]] = "registered" /\ i = 1)
    BY <1>1, <1>4 DEF Executing
  <2>2. on[th] # <<>>
    BY <1>1, SequenceFacts
  <2> QED
    BY <2>1, <2>2
<1>6. \A i \in 1 .. n + 1 : i = 1 \/ (i - 1 \in 1 .. n /\ (i - 1) + 1 = i)
  BY <1>1
<1>7. \A i \in 1 .. n + 1 : i = 1 \/ on'[th][i] = on[th][i - 1]
  BY <1>3, <1>6
<1>8. ASSUME NEW u \in Threads, NEW i \in 1 .. Len(on'[u])
      PROVE  Executing(on[u][i])' /\ (co'[on'[u][i]] = "registered" => i = 1)
  <2>1. CASE u # th
    <3>1. on'[u] = on[u] /\ i \in 1 .. Len(on[u])
      BY <1>2, <2>1
    <3>2. on[u][i] \in Coros /\ on[u][i] # c /\ Executing(on[u][i])
          /\ (co[on[u][i]] = "registered" => i = 1)
      BY <1>4, <3>1, Zenon
    <3>3. co'[on[u][i]] = co[on[u][i]]
      BY <1>2, <3>2
    <3> QED
      BY <3>1, <3>2, <3>3 DEF Executing
  <2>2. CASE u = th /\ i = 1
    BY <1>2, <1>3, <2>2 DEF Executing
  <2>3. CASE u = th /\ i # 1
    <3>1. i - 1 \in 1 .. n /\ on'[th][i] = on[th][i - 1]
      BY <1>3, <1>6, <1>7, <1>8, <2>3
    <3>2. co'[on[th][i - 1]] = "runs"
      BY <1>1, <1>2, <1>4, <1>5, <3>1
    <3> QED
      BY <2>3, <3>1, <3>2 DEF Executing
  <2> QED
    BY <2>1, <2>2, <2>3
<1>9. ASSUME NEW u \in Threads, NEW v \in Threads, NEW i \in 1 .. Len(on'[u]),
             NEW j \in 1 .. Len(on'[v]), on'[u][i] = on'[v][j]
      PROVE  u = v /\ i = j
  <2>o. \A x \in Threads : \A k \in 1 .. Len(on'[x]) : on'[x][k] = c <=> x = th /\ k = 1
    <3> SUFFICES ASSUME NEW x \in Threads, NEW k \in 1 .. Len(on'[x])
                 PROVE  on'[x][k] = c <=> x = th /\ k = 1
      OBVIOUS
    <3>1. CASE x # th
      BY <1>2, <1>4, <3>1
    <3>2. CASE x = th /\ k = 1
      BY <1>3, <3>2
    <3>3. CASE x = th /\ k # 1
      <4>1. k - 1 \in 1 .. n /\ on'[th][k] = on[th][k - 1]
        BY <1>3, <1>6, <1>7, <3>3
      <4> QED
        BY <1>1, <1>4, <3>3, <4>1
    <3> QED
      BY <3>1, <3>2, <3>3
  <2>1. CASE on'[u][i] = c
    BY <1>9, <2>o, <2>1
  <2>2. CASE on'[u][i] # c
    <3>d. \A x \in Threads : \A k \in 1 .. Len(on'[x]) : on'[x][k] # c =>
             \E m \in 1 .. Len(on[x]) : /\ on'[x][k] = on[x][m]
                                        /\ k = IF x = th THEN m + 1 ELSE m
      <4> SUFFICES ASSUME NEW x \in Threads, NEW k \in 1 .. Len(on'[x]), on'[x][k] # c
                   PROVE  \E m \in 1 .. Len(on[x]) : /\ on'[x][k] = on[x][m]
                                                     /\ k = IF x = th THEN m + 1 ELSE m
        OBVIOUS
      <4>1. CASE x # th
        BY <1>2, <4>1
      <4>2. CASE x = th
        <5>1. k - 1 \in 1 .. n /\ (k - 1) + 1 = k /\ on'[th][k] = on[th][k - 1]
          BY <1>3, <1>6, <1>7, <4>2
        <5> QED
          BY <1>1, <4>2, <5>1
      <4> QED
        BY <4>1, <4>2
    <3>1. PICK m \in 1 .. Len(on[u]) : on'[u][i] = on[u][m] /\ i = IF u = th THEN m + 1 ELSE m
      BY <2>2, <3>d
    <3>2. PICK k \in 1 .. Len(on[v]) : on'[v][j] = on[v][k] /\ j = IF v = th THEN k + 1 ELSE k
      BY <1>9, <2>2, <3>d
    <3>3. u = v /\ m = k
      <4>1. on[u][m] = on[v][k]
        BY <1>9, <3>1, <3>2
      <4> QED
        BY <4>1, Zenon DEF Stacks
    <3> QED
      BY <3>1, <3>2, <3>3
  <2> QED
    BY <2>1, <2>2
<1> QED
  BY <1>8, <1>9, Zenon DEF Stacks

(* Coroutine c leaves the top of the stack of a thread, for a state in     *)
(* which it does not execute.                                              *)
LEMMA LeaveStacks ==
    ASSUME TypeOK, Stacks, NEW th \in Threads, NEW c \in Coros, on[th] # <<>>,
           Head(on[th]) = c, Leave(th), NEW state, co' = [co EXCEPT ![c] = state]
    PROVE  Stacks'
<1>1. PICK n \in Nat : n + 1 = Len(on[th]) /\ on[th] \in Seq(Coros)
  <2>1. PICK l \in Nat \ {0} : l = Len(on[th]) /\ on[th] \in Seq(Coros)
    BY SequenceFacts DEF TypeOK
  <2>2. l - 1 \in Nat /\ (l - 1) + 1 = l
    OBVIOUS
  <2> QED
    BY <2>1, <2>2
<1>2. /\ on'[th] = Tail(on[th]) /\ \A u \in Threads : u # th => on'[u] = on[u]
      /\ \A d \in Coros : d # c => co'[d] = co[d]
  BY DEF Leave, TypeOK
<1>3. /\ Len(on'[th]) = n /\ on[th][1] = c /\ 1 \in 1 .. Len(on[th])
      /\ \A i \in 1 .. n : on'[th][i] = on[th][i + 1] /\ i + 1 \in 1 .. Len(on[th]) /\ i + 1 # 1
  <2>1. /\ Len(Tail(on[th])) = (n + 1) - 1 /\ on[th][1] = c /\ 1 \in 1 .. Len(on[th])
        /\ \A i \in 1 .. Len(Tail(on[th])) : Tail(on[th])[i] = on[th][i + 1]
    BY <1>1, SequenceFacts
  <2>2. (n + 1) - 1 = n /\ \A i \in 1 .. n : i + 1 \in 1 .. n + 1 /\ i + 1 # 1
    OBVIOUS
  <2> QED
    BY <1>1, <1>2, <2>1, <2>2
<1>4. \A u \in Threads : \A i \in 1 .. Len(on'[u]) :
         \E m \in 1 .. Len(on[u]) : on'[u][i] = on[u][m] /\ m = IF u = th THEN i + 1 ELSE i
  <2> SUFFICES ASSUME NEW u \in Threads, NEW i \in 1 .. Len(on'[u])
               PROVE  \E m \in 1 .. Len(on[u]) : /\ on'[u][i] = on[u][m]
                                                 /\ m = IF u = th THEN i + 1 ELSE i
    OBVIOUS
  <2>1. CASE u # th
    BY <1>2, <2>1
  <2>2. CASE u = th
    BY <1>3, <2>2
  <2> QED
    BY <2>1, <2>2
<1>5. \A u \in Threads : \A m \in 1 .. Len(on[u]) :
         /\ on[u][m] \in Coros /\ Executing(on[u][m])
         /\ co[on[u][m]] = "registered" => m = 1
         /\ on[u][m] = c => u = th /\ m = 1
  <2>1. \A u \in Threads : on[u] \in Seq(Coros)
    BY DEF TypeOK
  <2> QED
    BY <1>3, <2>1, SequenceFacts DEF Stacks
<1>6. ASSUME NEW u \in Threads, NEW i \in 1 .. Len(on'[u])
      PROVE  Executing(on[u][i])' /\ (co'[on'[u][i]] = "registered" => i = 1)
  <2>1. PICK m \in 1 .. Len(on[u]) : on'[u][i] = on[u][m] /\ m = IF u = th THEN i + 1 ELSE i
    BY <1>4
  <2>2. /\ on[u][m] \in Coros /\ Executing(on[u][m])
        /\ co[on[u][m]] = "registered" => m = 1
        /\ on[u][m] = c => u = th /\ m = 1
    BY <1>5
  <2>3. i \in Nat /\ i # 0
    <3>1. on'[u] \in Seq(Coros)
      <4>1. on' \in [Threads -> Seq(Coros)]
        BY StackTypes DEF Leave
      <4> QED
        BY <4>1
    <3>2. Len(on'[u]) \in Nat
      BY <3>1, LenProperties
    <3> QED
      BY <3>2
  <2>4. on[u][m] # c
    BY <2>1, <2>2, <2>3
  <2>5. co'[on[u][m]] = co[on[u][m]]
    BY <1>2, <2>2, <2>4
  <2>6. m = 1 => i = 1
    BY <2>1, <2>3
  <2> QED
    BY <2>1, <2>2, <2>5, <2>6 DEF Executing
<1>7. ASSUME NEW u \in Threads, NEW v \in Threads, NEW i \in 1 .. Len(on'[u]),
             NEW j \in 1 .. Len(on'[v]), on'[u][i] = on'[v][j]
      PROVE  u = v /\ i = j
  <2>1. PICK m \in 1 .. Len(on[u]) : on'[u][i] = on[u][m] /\ m = IF u = th THEN i + 1 ELSE i
    BY <1>4
  <2>2. PICK k \in 1 .. Len(on[v]) : on'[v][j] = on[v][k] /\ k = IF v = th THEN j + 1 ELSE j
    BY <1>4
  <2>3. u = v /\ m = k
    <3>1. on[u][m] = on[v][k]
      BY <1>7, <2>1, <2>2
    <3>2. \A i1 \in 1 .. Len(on[u]), j1 \in 1 .. Len(on[v]) :
            on[u][i1] = on[v][j1] => u = v /\ i1 = j1
      BY Zenon DEF Stacks
    <3> QED
      BY <2>1, <2>2, <3>1, <3>2, Zenon
  <2> QED
    BY <2>1, <2>2, <2>3
<1> QED
  BY <1>6, <1>7, Zenon DEF Stacks

(* The coroutine on top of a stack registers an operation.                 *)
LEMMA RegisterStacks ==
    ASSUME TypeOK, Stacks, NEW th \in Threads, NEW c \in Coros, Register(th, c)
    PROVE  Stacks'
<1>1. on[th] # <<>> /\ Head(on[th]) = c /\ UNCHANGED on
  BY DEF Register, Runs
<1>2. co'[c] = "registered" /\ \A d \in Coros : d # c => co'[d] = co[d]
  BY DEF Register, TypeOK
<1>3. on[th][1] = c /\ 1 \in 1 .. Len(on[th])
  BY <1>1, SequenceFacts DEF TypeOK
<1>4. ASSUME NEW u \in Threads, NEW i \in 1 .. Len(on[u])
      PROVE  Executing(on[u][i])' /\ (co'[on'[u][i]] = "registered" => i = 1)
  <2>1. on[u][i] \in Coros
    BY SequenceFacts DEF TypeOK
  <2>2. Executing(on[u][i]) /\ (co[on[u][i]] = "registered" => i = 1)
    BY DEF Stacks
  <2>3. on[u][i] = c => i = 1
    BY <1>3 DEF Stacks
  <2> QED
    BY <1>1, <1>2, <2>1, <2>2, <2>3 DEF Executing
<1> QED
  BY <1>1, <1>4 DEF Stacks

(* What happens to a coroutine that does not execute, and goes on not to.  *)
LEMMA ElsewhereStacks ==
    ASSUME TypeOK, Stacks, UNCHANGED on, \A d \in Coros : Executing(d) => co'[d] = co[d]
    PROVE  Stacks'
<1>1. ASSUME NEW u \in Threads, NEW i \in 1 .. Len(on[u])
      PROVE  Executing(on[u][i])' /\ (co'[on'[u][i]] = "registered" => i = 1)
  <2>1. on[u][i] \in Coros
    BY SequenceFacts DEF TypeOK
  <2>2. Executing(on[u][i]) /\ (co[on[u][i]] = "registered" => i = 1)
    BY DEF Stacks
  <2> QED
    BY <2>1, <2>2 DEF Executing
<1> QED
  BY <1>1 DEF Stacks

-----------------------------------------------------------------------------
(* Where a coroutine that waits is, if it is alone with its target.        *)

Waiting(c) == co[c] \in {"registered", "parked"}

Nowhere(c) ==
    /\ \A u \in Threads : c \notin Buffered(u)
    /\ armed[Target[c]] # c
    /\ \A v \in Workers : c \notin batch[v]

InBuffer(c, th) ==
    /\ \A u \in Threads : c \in Buffered(u) <=> u = th
    /\ armed[Target[c]] # c
    /\ \A v \in Workers : c \notin batch[v]

InKernel(c) ==
    /\ \A u \in Threads : c \notin Buffered(u)
    /\ armed[Target[c]] = c
    /\ \A v \in Workers : c \notin batch[v]

InBatch(c, w) ==
    /\ \A u \in Threads : c \notin Buffered(u)
    /\ armed[Target[c]] # c
    /\ \A v \in Workers : c \in batch[v] <=> v = w

Somewhere(c) ==
    InKernel(c) \/ (\E th \in Threads : InBuffer(c, th)) \/ (\E w \in Workers : InBatch(c, w))

Located ==
    \A c \in Coros : Alone(c) => (Waiting(c) /\ Somewhere(c)) \/ (~Waiting(c) /\ Nowhere(c))

(* The kernel's note for a target is of a coroutine that waits for it.     *)
Knotes == \A t \in Targets : armed[t] # NoOne => Target[armed[t]] = t

IInv == TypeOK /\ Stacks /\ Registering /\ Loops /\ Posted /\ Knotes /\ Located

(* A step that moves no operation.                                         *)
LEMMA SameLocated ==
    ASSUME Located, Knotes, UNCHANGED <<pending, armed, batch>>,
           \A c \in Coros : Waiting(c)' <=> Waiting(c)
    PROVE  Located' /\ Knotes'
BY DEF Located, Knotes, Somewhere, Nowhere, InBuffer, InKernel, InBatch, Buffered

(* What is in a thread's buffer once a coroutine has registered.           *)
LEMMA RegisterBuffered ==
    ASSUME TypeOK, NEW th \in Threads, NEW c \in Coros, Register(th, c)
    PROVE  \A u \in Threads : \A d : d \in Buffered(u)' <=> d \in Buffered(u) \/ (u = th /\ d = c)
<1>1. PICK n \in Nat : n = Len(pending[th]) /\ pending[th] \in Seq(Coros)
  BY LenProperties DEF TypeOK
<1>2. /\ pending'[th] = Append(pending[th], c)
      /\ \A u \in Threads : u # th => pending'[u] = pending[u]
  BY DEF Register, TypeOK
<1>3. /\ DOMAIN pending[th] = 1 .. n /\ DOMAIN pending'[th] = 1 .. n + 1
      /\ pending'[th][n + 1] = c
      /\ \A i \in 1 .. n : pending'[th][i] = pending[th][i]
  <2>1. pending'[th] \in Seq(Coros) /\ Len(pending'[th]) = n + 1
    BY <1>1, <1>2, SequenceFacts
  <2> QED
    BY <1>1, <1>2, <2>1, SequenceFacts
<1>4. \A i \in 1 .. n + 1 : i \in 1 .. n \/ i = n + 1
  OBVIOUS
<1>5. n + 1 \in 1 .. n + 1 /\ \A i \in 1 .. n : i \in 1 .. n + 1
  OBVIOUS
<1>6. \A d : d \in Buffered(th)' <=> d \in Buffered(th) \/ d = c
  BY <1>3, <1>4, <1>5 DEF Buffered
<1> QED
  BY <1>2, <1>6 DEF Buffered

LEMMA RegisterLocated ==
    ASSUME TypeOK, Located, Knotes, NEW th \in Threads, NEW c \in Coros, Register(th, c)
    PROVE  Located' /\ Knotes'
<1>1. /\ UNCHANGED <<armed, batch>> /\ ~Waiting(c) /\ Waiting(c)'
      /\ \A d \in Coros : d # c => (Waiting(d)' <=> Waiting(d))
  BY DEF Register, Runs, TypeOK, Waiting
<1>2. \A u \in Threads : \A d : d \in Buffered(u)' <=> d \in Buffered(u) \/ (u = th /\ d = c)
  BY RegisterBuffered
<1>3. ASSUME NEW d \in Coros, Alone(d)
      PROVE  (Waiting(d)' /\ Somewhere(d)') \/ (~Waiting(d)' /\ Nowhere(d)')
  <2>1. CASE d = c
    <3>1. Nowhere(c)
      BY <1>1, <1>3, <2>1 DEF Located
    <3>2. InBuffer(c, th)'
      BY <1>1, <1>2, <3>1 DEF Nowhere, InBuffer
    <3> QED
      BY <1>1, <2>1, <3>2 DEF Somewhere
  <2>2. CASE d # c
    <3>1. \A u \in Threads : d \in Buffered(u)' <=> d \in Buffered(u)
      BY <1>2, <2>2
    <3>2. (Waiting(d) /\ Somewhere(d)) \/ (~Waiting(d) /\ Nowhere(d))
      BY <1>3 DEF Located
    <3>3. (Nowhere(d) => Nowhere(d)') /\ (InKernel(d) => InKernel(d)')
      BY <1>1, <3>1 DEF Nowhere, InKernel
    <3>4. \A u \in Threads : InBuffer(d, u) => InBuffer(d, u)'
      BY <1>1, <3>1 DEF InBuffer
    <3>5. \A w \in Workers : InBatch(d, w) => InBatch(d, w)'
      BY <1>1, <3>1 DEF InBatch
    <3>6. Somewhere(d) => Somewhere(d)'
      BY <3>3, <3>4, <3>5 DEF Somewhere
    <3> QED
      BY <1>1, <2>2, <3>2, <3>3, <3>6
  <2> QED
    BY <2>1, <2>2
<1>4. \A d : Alone(d)' <=> Alone(d)
  BY DEF Alone
<1> QED
  BY <1>1, <1>3, <1>4 DEF Located, Knotes

(* An event of a coroutine is handled by the one worker that has it: the   *)
(* coroutine has stored its continuation and is resumed.                   *)
LEMMA HandleLocated ==
    ASSUME TypeOK, Located, Registering, Knotes, NEW w \in Workers, HandleEvent(w)
    PROVE  Located' /\ Knotes'
<1>1. PICK c \in batch[w] :
        /\ batch' = [batch EXCEPT ![w] = @ \ {c}]
        /\ IF co[c] = "parked" THEN Begin(w, c) ELSE UNCHANGED <<co, on>>
  BY DEF HandleEvent
<1>2. c \in Coros /\ UNCHANGED <<pending, armed>>
  BY <1>1 DEF HandleEvent, TypeOK
<1>3. \A v \in Workers : \A d : d \in batch'[v] <=> d \in batch[v] /\ ~ (v = w /\ d = c)
  BY <1>1 DEF TypeOK
<1>4. /\ \A u \in Threads : \A d : d \in Buffered(u)' <=> d \in Buffered(u)
      /\ \A d : Alone(d)' <=> Alone(d)
  BY <1>2 DEF Buffered, Alone
<1>5. \A d \in Coros : d # c => (Waiting(d)' <=> Waiting(d))
  BY <1>1, <1>2 DEF Begin, TypeOK, Waiting
<1>6. ASSUME NEW d \in Coros, Alone(d)
      PROVE  (Waiting(d)' /\ Somewhere(d)') \/ (~Waiting(d)' /\ Nowhere(d)')
  <2>1. (Waiting(d) /\ Somewhere(d)) \/ (~Waiting(d) /\ Nowhere(d))
    BY <1>6 DEF Located
  <2>2. CASE d = c
    <3>1. Waiting(c) /\ InBatch(c, w)
      BY <1>1, <2>1, <2>2 DEF Nowhere, Somewhere, InBuffer, InKernel, InBatch
    <3>2. co[c] # "registered"
      BY <1>2, <3>1 DEF Registering, InBatch
    <3>3. co[c] = "parked"
      BY <3>1, <3>2 DEF Waiting
    <3>4. co'[c] = "runs"
      BY <1>1, <1>2, <3>3 DEF Begin, TypeOK
    <3>5. Nowhere(c)'
      BY <1>2, <1>3, <1>4, <3>1 DEF Nowhere, InBatch
    <3> QED
      BY <2>2, <3>4, <3>5 DEF Waiting
  <2>3. CASE d # c
    <3>1. \A v \in Workers : d \in batch'[v] <=> d \in batch[v]
      BY <1>3, <2>3
    <3>2. (Nowhere(d) => Nowhere(d)') /\ (InKernel(d) => InKernel(d)')
      BY <1>2, <1>4, <3>1 DEF Nowhere, InKernel
    <3>3. \A u \in Threads : InBuffer(d, u) => InBuffer(d, u)'
      BY <1>2, <1>4, <3>1 DEF InBuffer
    <3>4. \A v \in Workers : InBatch(d, v) => InBatch(d, v)'
      BY <1>2, <1>4, <3>1 DEF InBatch
    <3>5. Somewhere(d) => Somewhere(d)'
      BY <3>2, <3>3, <3>4 DEF Somewhere
    <3> QED
      BY <1>5, <2>1, <2>3, <3>2, <3>5
  <2> QED
    BY <2>2, <2>3
<1> QED
  BY <1>2, <1>4, <1>6 DEF Located, Knotes

(* kevent() takes what is in the worker's buffer to the kernel, and from   *)
(* there to the worker what is ready; the rest stays where it is.          *)
LEMMA PollLocated ==
    ASSUME KqueueAssumption, TypeOK, Located, Loops, Knotes, NEW w \in Workers, Poll(w)
    PROVE  Located' /\ Knotes'
<1>0. w \in Threads /\ NoOne \notin Coros
  BY DEF Threads, KqueueAssumption
<1>1. PICK k : k = [t \in Targets |-> Added(t, pending[w])]
  OBVIOUS
<1>2. /\ batch' = [batch EXCEPT ![w] = {k[t] : t \in ready} \ {NoOne}]
      /\ armed' = [t \in Targets |-> IF t \in ready THEN NoOne ELSE k[t]]
      /\ pending' = [pending EXCEPT ![w] = <<>>]
      /\ at[w] = "poll" /\ UNCHANGED co
  BY <1>1 DEF Poll
<1>3. batch[w] = {}
  BY <1>2 DEF Loops
<1>4. pending[w] \in Seq(Coros) /\ DOMAIN pending[w] = 1 .. Len(pending[w])
  BY <1>0, SequenceFacts DEF TypeOK
<1>5. \A t \in Targets :
         \/ k[t] = armed[t] /\ \A i \in 1 .. Len(pending[w]) : Target[pending[w][i]] # t
         \/ \E i \in 1 .. Len(pending[w]) : Target[pending[w][i]] = t /\ k[t] = pending[w][i]
  BY <1>1, <1>4, AddedIs
<1>6. \A t \in Targets : k[t] # NoOne => Target[k[t]] = t
  BY <1>5 DEF Knotes
<1>7. Knotes'
  BY <1>2, <1>6 DEF Knotes
<1>8. /\ \A d : d \notin Buffered(w)'
      /\ \A u \in Threads : u # w => \A d : d \in Buffered(u)' <=> d \in Buffered(u)
  <2>1. pending'[w] = <<>> /\ \A u \in Threads : u # w => pending'[u] = pending[u]
    BY <1>0, <1>2 DEF TypeOK
  <2>2. DOMAIN pending'[w] = {}
    BY <2>1, EmptySeq, LenProperties
  <2> QED
    BY <2>1, <2>2 DEF Buffered
<1>9. \A v \in Workers : v # w => batch'[v] = batch[v]
  BY <1>2 DEF TypeOK
<1>10. ASSUME NEW c \in Coros, Alone(c)
       PROVE  (Waiting(c)' /\ Somewhere(c)') \/ (~Waiting(c)' /\ Nowhere(c)')
  <2>1. Target[c] \in Targets
    BY DEF Targets
  <2>2. k[Target[c]] = c <=> c \in Buffered(w) \/ armed[Target[c]] = c
    <3>1. \A i \in 1 .. Len(pending[w]) : pending[w][i] \in Coros
      BY <1>4, SequenceFacts
    <3>2. c \in Buffered(w) <=> \E i \in 1 .. Len(pending[w]) : pending[w][i] = c
      BY <1>4 DEF Buffered
    <3>3. CASE k[Target[c]] = armed[Target[c]]
                 /\ \A i \in 1 .. Len(pending[w]) : Target[pending[w][i]] # Target[c]
      BY <3>2, <3>3
    <3>4. CASE \E i \in 1 .. Len(pending[w]) :
                 Target[pending[w][i]] = Target[c] /\ k[Target[c]] = pending[w][i]
      <4>1. PICK i \in 1 .. Len(pending[w]) :
                 Target[pending[w][i]] = Target[c] /\ k[Target[c]] = pending[w][i]
        BY <3>4
      <4>2. pending[w][i] = c
        BY <1>10, <3>1, <4>1 DEF Alone
      <4> QED
        BY <3>2, <4>1, <4>2
    <3> QED
      BY <1>5, <2>1, <3>3, <3>4
  <2>3. c \in batch'[w] <=> Target[c] \in ready /\ k[Target[c]] = c
    <3>1. batch'[w] = {k[t] : t \in ready} \ {NoOne}
      BY <1>2 DEF TypeOK
    <3>2. c # NoOne /\ ready \subseteq Targets
      BY <1>0 DEF TypeOK
    <3>3. \A t \in ready : k[t] = c => t = Target[c]
      BY <1>6, <3>2
    <3> QED
      BY <3>1, <3>2, <3>3
  <2>4. armed'[Target[c]] = c <=> Target[c] \notin ready /\ k[Target[c]] = c
    BY <1>0, <1>2, <2>1
  <2>5. Waiting(c)' <=> Waiting(c)
    BY <1>2 DEF Waiting
  <2>6. Nowhere(c) => Nowhere(c)'
    BY <1>0, <1>8, <1>9, <2>2, <2>3, <2>4 DEF Nowhere
  <2>7. InKernel(c) \/ InBuffer(c, w) => InKernel(c)' \/ InBatch(c, w)'
    BY <1>0, <1>8, <1>9, <2>2, <2>3, <2>4 DEF InKernel, InBuffer, InBatch
  <2>8. \A th \in Threads : th # w /\ InBuffer(c, th) => InBuffer(c, th)'
    BY <1>0, <1>8, <1>9, <2>2, <2>3, <2>4 DEF InBuffer
  <2>9. \A v \in Workers : InBatch(c, v) => InBatch(c, v)'
    BY <1>0, <1>3, <1>8, <1>9, <2>2, <2>3, <2>4 DEF InBatch
  <2>10. Somewhere(c) => Somewhere(c)'
    BY <2>7, <2>8, <2>9 DEF Somewhere
  <2> QED
    BY <1>10, <2>5, <2>6, <2>10 DEF Located
<1>11. \A d : Alone(d)' <=> Alone(d)
  BY DEF Alone
<1> QED
  BY <1>7, <1>10, <1>11 DEF Located

-----------------------------------------------------------------------------
(* Registrations whose continuation is not stored.                         *)

LEMMA BeginRegistering ==
    ASSUME TypeOK, Registering, NEW th \in Threads, NEW c \in Coros, Begin(th, c),
           on[th] = <<>> \/ co[on[th][1]] = "runs", UNCHANGED pending
    PROVE  Registering'
<1>1. /\ co'[c] = "runs" /\ \A d \in Coros : d # c => co'[d] = co[d]
      /\ \A u \in Threads : u # th => on'[u] = on[u]
  BY DEF Begin, TypeOK
<1>2. ASSUME NEW d \in Coros, co'[d] = "registered"
      PROVE  \E u \in Threads : on'[u] # <<>> /\ on'[u][1] = d /\ d \in Buffered(u)'
  <2>1. co[d] = "registered"
    BY <1>1, <1>2
  <2>2. PICK u \in Threads : on[u] # <<>> /\ on[u][1] = d /\ d \in Buffered(u)
    BY <2>1 DEF Registering
  <2>3. u # th
    BY <2>1, <2>2
  <2> QED
    BY <1>1, <2>2, <2>3 DEF Buffered
<1> QED
  BY <1>2 DEF Registering

LEMMA LeaveRegistering ==
    ASSUME TypeOK, Registering, NEW th \in Threads, NEW c \in Coros, on[th] # <<>>,
           Head(on[th]) = c, Leave(th), NEW state, state # "registered",
           co' = [co EXCEPT ![c] = state], UNCHANGED pending
    PROVE  Registering'
<1>1. /\ co'[c] = state /\ \A d \in Coros : d # c => co'[d] = co[d]
      /\ \A u \in Threads : u # th => on'[u] = on[u]
  BY DEF Leave, TypeOK
<1>2. on[th][1] = c
  BY SequenceFacts DEF TypeOK
<1>3. ASSUME NEW d \in Coros, co'[d] = "registered"
      PROVE  \E u \in Threads : on'[u] # <<>> /\ on'[u][1] = d /\ d \in Buffered(u)'
  <2>1. d # c /\ co[d] = "registered"
    BY <1>1, <1>3
  <2>2. PICK u \in Threads : on[u] # <<>> /\ on[u][1] = d /\ d \in Buffered(u)
    BY <2>1 DEF Registering
  <2>3. u # th
    BY <1>2, <2>1, <2>2
  <2> QED
    BY <1>1, <2>2, <2>3 DEF Buffered
<1> QED
  BY <1>3 DEF Registering

LEMMA RegisterRegistering ==
    ASSUME TypeOK, Registering, NEW th \in Threads, NEW c \in Coros, Register(th, c)
    PROVE  Registering'
<1>1. /\ on[th] # <<>> /\ Head(on[th]) = c /\ UNCHANGED on
      /\ \A d \in Coros : d # c => co'[d] = co[d]
  BY DEF Register, Runs, TypeOK
<1>2. on[th][1] = c
  BY <1>1, SequenceFacts DEF TypeOK
<1>3. \A u \in Threads : \A d : d \in Buffered(u)' <=> d \in Buffered(u) \/ (u = th /\ d = c)
  BY RegisterBuffered
<1>4. ASSUME NEW d \in Coros, co'[d] = "registered"
      PROVE  \E u \in Threads : on'[u] # <<>> /\ on'[u][1] = d /\ d \in Buffered(u)'
  <2>1. CASE d = c
    BY <1>1, <1>2, <1>3, <2>1
  <2>2. CASE d # c
    <3>1. PICK u \in Threads : on[u] # <<>> /\ on[u][1] = d /\ d \in Buffered(u)
      BY <1>1, <1>4, <2>2 DEF Registering
    <3> QED
      BY <1>1, <1>3, <3>1
  <2> QED
    BY <2>1, <2>2
<1> QED
  BY <1>4 DEF Registering

(* A worker that calls kevent() has an empty stack.                        *)
LEMMA PollRegistering ==
    ASSUME TypeOK, Registering, Loops, NEW w \in Workers, Poll(w)
    PROVE  Registering'
<1>1. on[w] = <<>> /\ UNCHANGED on /\ UNCHANGED co
  BY DEF Poll, Loops
<1>2. \A u \in Threads : u # w => pending'[u] = pending[u]
  BY DEF Poll, TypeOK
<1>3. ASSUME NEW d \in Coros, co'[d] = "registered"
      PROVE  \E u \in Threads : on'[u] # <<>> /\ on'[u][1] = d /\ d \in Buffered(u)'
  <2>1. PICK u \in Threads : on[u] # <<>> /\ on[u][1] = d /\ d \in Buffered(u)
    BY <1>1, <1>3 DEF Registering
  <2>2. u # w
    BY <1>1, <2>1
  <2> QED
    BY <1>1, <1>2, <2>1, <2>2 DEF Buffered
<1> QED
  BY <1>3 DEF Registering

(* A step that neither moves nor registers.                                *)
LEMMA SameRegistering ==
    ASSUME Registering, UNCHANGED on, UNCHANGED pending,
           \A d \in Coros : co'[d] = "registered" => co[d] = "registered"
    PROVE  Registering'
BY DEF Registering, Buffered

-----------------------------------------------------------------------------
(* Posted coroutines and the workers' loops.                               *)

LEMMA SamePosted ==
    ASSUME TypeOK, Posted, UNCHANGED queue,
           \A d \in Coros : co[d] = "posted" => co'[d] = "posted"
    PROVE  Posted'
<1>1. \A i \in 1 .. Len(queue) : queue[i] \in Coros
  BY SequenceFacts DEF TypeOK
<1> QED
  BY <1>1 DEF Posted

LEMMA PostPosted ==
    ASSUME TypeOK, Posted, NEW c \in Coros, Post(c)
    PROVE  Posted'
<1>1. PICK n \in Nat : n = Len(queue) /\ queue \in Seq(Coros)
  BY LenProperties DEF TypeOK
<1>2. /\ Len(queue') = n + 1 /\ queue'[n + 1] = c
      /\ \A i \in 1 .. n : queue'[i] = queue[i] /\ queue[i] \in Coros
  BY <1>1, SequenceFacts DEF Post
<1>3. co[c] = "new" /\ co'[c] = "posted" /\ \A d \in Coros : d # c => co'[d] = co[d]
  BY DEF Post, TypeOK
<1>4. \A i \in 1 .. n : queue[i] # c /\ co'[queue[i]] = "posted"
  BY <1>1, <1>2, <1>3 DEF Posted
<1>5. \A i \in 1 .. n + 1 : i \in 1 .. n \/ i = n + 1
  OBVIOUS
<1>6. \A i \in 1 .. n + 1 : co'[queue'[i]] = "posted"
  BY <1>2, <1>3, <1>4, <1>5
<1>7. \A i, j \in 1 .. n + 1 : queue'[i] = queue'[j] => i = j
  <2>1. \A i, j \in 1 .. n : queue'[i] = queue'[j] => i = j
    BY <1>1, <1>2 DEF Posted
  <2>2. \A i \in 1 .. n : queue'[i] # queue'[n + 1]
    BY <1>2, <1>4
  <2> QED
    BY <1>5, <2>1, <2>2
<1> QED
  BY <1>2, <1>6, <1>7 DEF Posted

LEMMA CallbackPosted ==
    ASSUME TypeOK, Posted, NEW w \in Workers, RunCallback(w)
    PROVE  Posted'
<1>1. CASE queue = <<>>
  BY <1>1, SamePosted DEF RunCallback
<1>2. CASE queue # <<>>
  <2>1. PICK n \in Nat : n + 1 = Len(queue) /\ queue \in Seq(Coros)
    <3>1. PICK l \in Nat \ {0} : l = Len(queue) /\ queue \in Seq(Coros)
      BY <1>2, SequenceFacts DEF TypeOK
    <3>2. l - 1 \in Nat /\ (l - 1) + 1 = l
      OBVIOUS
    <3> QED
      BY <3>1, <3>2
  <2>2. queue' = Tail(queue) /\ co' = [co EXCEPT ![queue[1]] = "runs"]
    BY <1>2, <2>1, SequenceFacts DEF RunCallback, Begin
  <2>3. /\ \A i \in 1 .. n : i + 1 \in 1 .. n + 1 /\ i + 1 # 1
        /\ \A i, j \in 1 .. n : i + 1 = j + 1 => i = j
        /\ (n + 1) - 1 = n /\ 1 \in 1 .. n + 1
    OBVIOUS
  <2>4. Len(queue') = n /\ \A i \in 1 .. n : queue'[i] = queue[i + 1]
    BY <1>2, <2>1, <2>2, <2>3, SequenceFacts
  <2>5. \A i \in 1 .. n + 1 : queue[i] \in Coros /\ co[queue[i]] = "posted"
    BY <2>1, SequenceFacts DEF Posted
  <2>6. \A i \in 1 .. n : queue[i + 1] # queue[1]
    BY <2>1, <2>3 DEF Posted
  <2>7. \A i \in 1 .. n : co'[queue'[i]] = "posted"
    BY <2>2, <2>3, <2>4, <2>5, <2>6 DEF TypeOK
  <2>8. \A i, j \in 1 .. n : queue'[i] = queue'[j] => i = j
    BY <2>1, <2>3, <2>4 DEF Posted
  <2> QED
    BY <2>4, <2>7, <2>8 DEF Posted
<1> QED
  BY <1>1, <1>2

(* What runs on a thread disturbs no worker's loop.                        *)
LEMMA ExecuteLoops ==
    ASSUME TypeOK, Loops, NEW th \in Threads, on[th] # <<>>, UNCHANGED at, UNCHANGED batch,
           UNCHANGED phase,
           \A u \in Threads : u # th => on'[u] = on[u]
    PROVE  Loops'
<1>1. \A w \in Workers : on'[w] = on[w] \/ at[w] \notin {"poll", "callback", "ended"}
  BY DEF Loops, Threads
<1> QED
  BY <1>1 DEF Loops

-----------------------------------------------------------------------------
(* The invariant, action by action.                                        *)

LEMMA ExecuteInv ==
    ASSUME KqueueAssumption, IInv, NEW th \in Threads, Execute(th)
    PROVE  IInv'
<1> USE DEF IInv
<1>1. PICK c \in Coros : Register(th, c) \/ Suspend(th, c) \/ Spawn(th, c) \/ End(th, c)
  BY DEF Execute
<1>2. TypeOK' /\ on[th] # <<>> /\ on[th] \in Seq(Coros)
  <2>1. on[th] # <<>>
    BY <1>1 DEF Register, Suspend, Spawn, End, Runs
  <2> QED
    BY <2>1, ExecuteTypes DEF TypeOK
<1>3. Head(on[th]) = on[th][1]
  BY <1>2, SequenceFacts
<1>4. CASE Register(th, c)
  <2>1. Loops'
    BY <1>4 DEF Register, Loops
  <2>2. Posted'
    <3>1. UNCHANGED queue /\ \A d \in Coros : co[d] = "posted" => co'[d] = "posted"
      BY <1>4 DEF Register, Runs, TypeOK
    <3> QED
      BY <3>1, SamePosted
  <2> QED
    BY <1>2, <1>4, <2>1, <2>2, RegisterStacks, RegisterRegistering, RegisterLocated
<1>5. CASE Suspend(th, c)
  <2>1. /\ Head(on[th]) = c /\ co[c] = "registered" /\ co' = [co EXCEPT ![c] = "parked"]
        /\ Leave(th) /\ UNCHANGED <<queue, pending, armed, batch, at, phase>>
    BY <1>5 DEF Suspend
  <2>2. /\ co'[c] = "parked" /\ \A d \in Coros : d # c => co'[d] = co[d]
        /\ \A u \in Threads : u # th => on'[u] = on[u]
    BY <2>1 DEF Leave, TypeOK
  <2>3. /\ \A d \in Coros : co[d] = "posted" => co'[d] = "posted"
        /\ \A d \in Coros : Waiting(d)' <=> Waiting(d)
    BY <2>1, <2>2 DEF Waiting
  <2>4. Stacks'
    BY <1>2, <2>1, LeaveStacks
  <2>5. Registering'
    <3>1. UNCHANGED pending /\ "parked" # "registered"
      BY <2>1
    <3> QED
      BY <1>2, <2>1, <3>1, LeaveRegistering
  <2>6. Loops' /\ Posted' /\ Located' /\ Knotes'
    BY <1>2, <2>1, <2>2, <2>3, ExecuteLoops, SamePosted, SameLocated
  <2> QED
    BY <1>2, <2>4, <2>5, <2>6
<1>6. CASE Spawn(th, c)
  <2>1. /\ Runs(th, Acceptor) /\ co[c] = "new" /\ Begin(th, c)
        /\ UNCHANGED <<queue, pending, armed, batch, at, phase>>
    BY <1>6 DEF Spawn
  <2>2. co[on[th][1]] = "runs"
    BY <1>3, <2>1 DEF Runs
  <2>3. /\ co'[c] = "runs" /\ \A d \in Coros : d # c => co'[d] = co[d]
        /\ \A u \in Threads : u # th => on'[u] = on[u]
    BY <2>1 DEF Begin, TypeOK
  <2>4. /\ \A d \in Coros : co[d] = "posted" => co'[d] = "posted"
        /\ \A d \in Coros : Waiting(d)' <=> Waiting(d)
        /\ ~Executing(c)
    BY <2>1, <2>3 DEF Waiting, Executing
  <2>5. Stacks' /\ Registering'
    BY <2>1, <2>2, <2>4, BeginStacks, BeginRegistering
  <2>6. Loops' /\ Posted' /\ Located' /\ Knotes'
    BY <1>2, <2>1, <2>3, <2>4, ExecuteLoops, SamePosted, SameLocated
  <2> QED
    BY <1>2, <2>5, <2>6
<1>7. CASE End(th, c)
  <2>1. /\ Head(on[th]) = c /\ co[c] = "runs" /\ co' = [co EXCEPT ![c] = "ended"]
        /\ Leave(th) /\ UNCHANGED <<queue, pending, armed, batch, at, phase>>
    BY <1>7 DEF End, Runs
  <2>2. /\ co'[c] = "ended" /\ \A d \in Coros : d # c => co'[d] = co[d]
        /\ \A u \in Threads : u # th => on'[u] = on[u]
    BY <2>1 DEF Leave, TypeOK
  <2>3. /\ \A d \in Coros : co[d] = "posted" => co'[d] = "posted"
        /\ \A d \in Coros : Waiting(d)' <=> Waiting(d)
    BY <2>1, <2>2 DEF Waiting
  <2>4. Stacks'
    BY <1>2, <2>1, LeaveStacks
  <2>5. Registering'
    <3>1. UNCHANGED pending /\ "ended" # "registered"
      BY <2>1
    <3> QED
      BY <1>2, <2>1, <3>1, LeaveRegistering
  <2>6. Loops' /\ Posted' /\ Located' /\ Knotes'
    BY <1>2, <2>1, <2>2, <2>3, ExecuteLoops, SamePosted, SameLocated
  <2> QED
    BY <1>2, <2>4, <2>5, <2>6
<1> QED
  BY <1>1, <1>4, <1>5, <1>6, <1>7

(* A step that changes no coroutine, stack, buffer, note or event.         *)
LEMMA QuietInv ==
    ASSUME IInv, TypeOK', Loops', UNCHANGED <<queue, pending, armed, batch>>,
           UNCHANGED on, UNCHANGED co
    PROVE  IInv'
<1>1. /\ UNCHANGED queue /\ UNCHANGED pending /\ UNCHANGED <<pending, armed, batch>>
      /\ \A d \in Coros : co'[d] = co[d] /\ (Waiting(d)' <=> Waiting(d))
  BY DEF Waiting
<1>2. Stacks' /\ Registering'
  BY <1>1, ElsewhereStacks, SameRegistering DEF IInv
<1>3. Posted' /\ Located' /\ Knotes'
  BY <1>1, SamePosted, SameLocated DEF IInv
<1> QED
  BY <1>2, <1>3 DEF IInv

LEMMA WorkerInv ==
    ASSUME KqueueAssumption, IInv, NEW w \in Workers, Worker(w)
    PROVE  IInv'
<1>0. w \in Threads /\ TypeOK'
  BY WorkerTypes DEF Threads, IInv
<1>1. CASE Test(w) \/ EventsDone(w)
  <2>1. Loops'
    BY <1>1 DEF Test, EventsDone, Goto, Loops, IInv, TypeOK
  <2> QED
    BY <1>0, <1>1, <2>1, QuietInv DEF Test, EventsDone
<1>2. CASE Poll(w)
  <2>1. Loops'
    BY <1>2 DEF Poll, Goto, Loops, IInv, TypeOK
  <2>2. UNCHANGED on /\ UNCHANGED co /\ UNCHANGED queue
    BY <1>2 DEF Poll
  <2>3. Stacks' /\ Posted'
    BY <2>2, ElsewhereStacks, SamePosted DEF IInv
  <2> QED
    BY <1>0, <1>2, <2>1, <2>3, PollRegistering, PollLocated DEF IInv
<1>3. CASE HandleEvent(w)
  <2>1. PICK c \in batch[w] :
          /\ batch' = [batch EXCEPT ![w] = @ \ {c}]
          /\ IF co[c] = "parked" THEN Begin(w, c) ELSE UNCHANGED <<co, on>>
    BY <1>3 DEF HandleEvent
  <2>2. /\ at[w] = "events" /\ on[w] = <<>> /\ c \in Coros
        /\ UNCHANGED at /\ UNCHANGED pending /\ UNCHANGED queue /\ UNCHANGED phase
    BY <1>3, <2>1 DEF HandleEvent, IInv, TypeOK
  <2>3. \A v \in Workers : v # w => batch'[v] = batch[v] /\ on'[v] = on[v]
    BY <2>1 DEF Begin, IInv, TypeOK, Threads
  <2>4. Loops'
    BY <2>2, <2>3 DEF Loops, IInv
  <2>5. Located' /\ Knotes'
    BY <1>3, HandleLocated DEF IInv
  <2>6. CASE co[c] = "parked"
    <3>1. Begin(w, c) /\ ~Executing(c)
      BY <2>1, <2>6 DEF Executing
    <3>2. Stacks' /\ Registering'
      BY <1>0, <2>2, <3>1, BeginStacks, BeginRegistering DEF IInv
    <3>3. \A d \in Coros : co[d] = "posted" => co'[d] = "posted"
      BY <2>2, <2>6, <3>1 DEF Begin, IInv, TypeOK
    <3> QED
      BY <1>0, <2>2, <2>4, <2>5, <3>2, <3>3, SamePosted DEF IInv
  <2>7. CASE co[c] # "parked"
    <3>1. UNCHANGED on /\ UNCHANGED co
      BY <2>1, <2>7
    <3>2. Stacks' /\ Registering' /\ Posted'
      BY <2>2, <3>1, ElsewhereStacks, SameRegistering, SamePosted DEF IInv
    <3> QED
      BY <1>0, <2>4, <2>5, <3>2 DEF IInv
  <2> QED
    BY <2>6, <2>7
<1>4. CASE RunCallback(w)
  <2>1. /\ at[w] = "callback" /\ on[w] = <<>> /\ batch[w] = {}
        /\ UNCHANGED pending /\ UNCHANGED <<pending, armed, batch>> /\ UNCHANGED phase
    BY <1>4 DEF RunCallback, IInv, Loops
  <2>2. /\ at'[w] = "test" /\ \A v \in Workers : v # w => at'[v] = at[v] /\ on'[v] = on[v]
    BY <1>4 DEF RunCallback, Goto, Begin, IInv, TypeOK, Threads
  <2>3. Loops'
    BY <2>1, <2>2 DEF Loops, IInv
  <2>4. Posted'
    BY <1>4, CallbackPosted DEF IInv
  <2>5. CASE queue = <<>>
    <3>1. UNCHANGED on /\ UNCHANGED co /\ \A d \in Coros : Waiting(d)' <=> Waiting(d)
      BY <1>4, <2>5 DEF RunCallback, Waiting
    <3>2. Stacks' /\ Registering' /\ Located' /\ Knotes'
      BY <2>1, <3>1, ElsewhereStacks, SameRegistering, SameLocated DEF IInv
    <3> QED
      BY <1>0, <2>3, <2>4, <3>2 DEF IInv
  <2>6. CASE queue # <<>>
    <3>1. PICK c \in Coros : c = Head(queue) /\ c = queue[1] /\ 1 \in 1 .. Len(queue)
      BY <2>6, SequenceFacts DEF IInv, TypeOK
    <3>2. Begin(w, c)
      BY <1>4, <2>6, <3>1 DEF RunCallback
    <3>3. co[c] = "posted"
      BY <3>1 DEF Posted, IInv
    <3>4. ~Executing(c) /\ \A d \in Coros : Waiting(d)' <=> Waiting(d)
      BY <3>2, <3>3 DEF Begin, Executing, Waiting, IInv, TypeOK
    <3>5. Stacks' /\ Registering'
      BY <1>0, <2>1, <3>2, <3>4, BeginStacks, BeginRegistering DEF IInv
    <3>6. Located' /\ Knotes'
      BY <2>1, <3>4, SameLocated DEF IInv
    <3> QED
      BY <1>0, <2>3, <2>4, <3>5, <3>6 DEF IInv
  <2> QED
    BY <2>5, <2>6
<1> QED
  BY <1>0, <1>1, <1>2, <1>3, <1>4, ExecuteInv DEF Worker

LEMMA MainInv ==
    ASSUME KqueueAssumption, IInv, MainThread
    PROVE  IInv'
<1>0. TypeOK' /\ Main \in Threads /\ Main \notin Workers /\ Acceptor \in Coros
  <2>1. [Next]_vars
    BY DEF Next
  <2> QED
    BY <2>1, TypesInductive DEF IInv, Threads, KqueueAssumption
<1>1. CASE StartAcceptor
  <2>1. /\ on[Main] = <<>> /\ co[Acceptor] = "new" /\ Begin(Main, Acceptor)
        /\ UNCHANGED at /\ UNCHANGED queue /\ UNCHANGED pending /\ UNCHANGED phase
        /\ UNCHANGED <<pending, armed, batch>>
    BY <1>1 DEF StartAcceptor
  <2>2. \A w \in Workers : on'[w] = on[w]
    BY <1>0, <2>1 DEF Begin, IInv, TypeOK, Threads
  <2>3. Loops'
    BY <2>1, <2>2 DEF Loops, IInv
  <2>4. /\ ~Executing(Acceptor) /\ \A d \in Coros : Waiting(d)' <=> Waiting(d)
        /\ \A d \in Coros : co[d] = "posted" => co'[d] = "posted"
    BY <2>1 DEF Begin, Executing, Waiting, IInv, TypeOK
  <2>5. Stacks' /\ Registering'
    BY <1>0, <2>1, <2>4, BeginStacks, BeginRegistering DEF IInv
  <2>6. Posted' /\ Located' /\ Knotes'
    BY <2>1, <2>4, SamePosted, SameLocated DEF IInv
  <2> QED
    BY <1>0, <2>3, <2>5, <2>6 DEF IInv
<1>2. CASE Execute(Main)
  BY <1>0, <1>2, ExecuteInv
<1>3. CASE EnterRun
  <2>1. Loops'
    BY <1>3, <1>0 DEF EnterRun, Loops, IInv, TypeOK, Threads
  <2> QED
    BY <1>0, <1>3, <2>1, QuietInv DEF EnterRun
<1>4. CASE Join
  <2>1. Loops'
    BY <1>4 DEF Join, Loops, IInv
  <2> QED
    BY <1>0, <1>4, <2>1, QuietInv DEF Join
<1> QED
  BY <1>1, <1>2, <1>3, <1>4 DEF MainThread

LEMMA IInvInductive ==
    ASSUME KqueueAssumption, IInv, [Next]_vars
    PROVE  IInv'
<1>0. TypeOK'
  BY TypesInductive DEF IInv
<1>1. CASE \E w \in Workers : Worker(w)
  BY <1>1, WorkerInv
<1>2. CASE MainThread
  BY <1>2, MainInv
<1>3. CASE \E c \in Coros : Post(c)
  <2>1. PICK c \in Coros : Post(c)
    BY <1>3
  <2>2. /\ UNCHANGED on /\ UNCHANGED pending /\ UNCHANGED <<pending, armed, batch>>
        /\ UNCHANGED <<at, phase>> /\ co[c] = "new"
        /\ co'[c] = "posted" /\ \A d \in Coros : d # c => co'[d] = co[d]
    BY <2>1 DEF Post, IInv, TypeOK
  <2>3. /\ \A d \in Coros : Executing(d) => co'[d] = co[d]
        /\ \A d \in Coros : co'[d] = "registered" => co[d] = "registered"
        /\ \A d \in Coros : Waiting(d)' <=> Waiting(d)
    BY <2>2 DEF Executing, Waiting
  <2>4. Stacks' /\ Registering'
    BY <2>2, <2>3, ElsewhereStacks, SameRegistering DEF IInv
  <2>5. Loops'
    BY <2>2 DEF Loops, IInv
  <2>6. Posted' /\ Located' /\ Knotes'
    BY <2>1, <2>2, <2>3, PostPosted, SameLocated DEF IInv
  <2> QED
    BY <1>0, <2>4, <2>5, <2>6 DEF IInv
<1>4. CASE Stop \/ \E t \in Targets : BecomeReady(t)
  <2>1. /\ UNCHANGED <<queue, pending, armed, batch>> /\ UNCHANGED on /\ UNCHANGED co
        /\ UNCHANGED <<at, phase>>
    BY <1>4 DEF Stop, BecomeReady
  <2>2. Loops'
    BY <2>1 DEF Loops, IInv
  <2> QED
    BY <1>0, <2>1, <2>2, QuietInv
<1>5. CASE UNCHANGED vars
  <2>1. /\ UNCHANGED <<queue, pending, armed, batch>> /\ UNCHANGED on /\ UNCHANGED co
        /\ UNCHANGED <<at, phase>>
    BY <1>5 DEF vars
  <2>2. Loops'
    BY <2>1 DEF Loops, IInv
  <2> QED
    BY <1>0, <2>1, <2>2, QuietInv
<1> QED
  BY <1>1, <1>2, <1>3, <1>4, <1>5 DEF Next

LEMMA InitInv ==
    ASSUME KqueueAssumption, Init
    PROVE  IInv
<1>1. <<>> \in Seq(Coros) /\ Len(<<>>) = 0 /\ DOMAIN <<>> = {} /\ 0 \in 0 .. MaxOps
  BY SequenceFacts DEF KqueueAssumption
<1>2. TypeOK
  BY <1>1 DEF Init, TypeOK
<1>3. \A i \in 1 .. 0 : FALSE
  OBVIOUS
<1>4. Stacks
  BY <1>1, <1>3 DEF Init, Stacks
<1>5. Registering /\ Loops
  BY DEF Init, Registering, Loops, Threads
<1>6. Posted
  BY <1>1, <1>3 DEF Init, Posted
<1>7. Knotes
  BY DEF Init, Knotes
<1>8. \A c \in Coros : ~Waiting(c) /\ Nowhere(c)
  <2> SUFFICES ASSUME NEW c \in Coros PROVE ~Waiting(c) /\ Nowhere(c)
    OBVIOUS
  <2>1. ~Waiting(c)
    BY DEF Init, Waiting
  <2>2. Target[c] \in Targets /\ c # NoOne
    BY DEF Targets, KqueueAssumption
  <2>3. armed[Target[c]] # c
    BY <2>2 DEF Init
  <2>4. \A u \in Threads : c \notin Buffered(u)
    BY <1>1 DEF Init, Buffered
  <2>5. \A v \in Workers : c \notin batch[v]
    BY DEF Init
  <2> QED
    BY <2>1, <2>3, <2>4, <2>5 DEF Nowhere
<1>9. Located
  BY <1>8 DEF Located
<1> QED
  BY <1>2, <1>4, <1>5, <1>6, <1>7, <1>9 DEF IInv

(* How many places an operation is in.                                     *)
LEMMA OnePlace ==
    ASSUME KqueueAssumption, IInv
    PROVE  WaitsInOnePlace
<1> SUFFICES ASSUME NEW c \in Coros, Alone(c)
             PROVE  Cardinality({th \in Threads : c \in Buffered(th)})
                      + Cardinality({t \in Targets : armed[t] = c})
                      + Cardinality({w \in Workers : c \in batch[w]})
                      = IF Waiting(c) THEN 1 ELSE 0
  BY DEF WaitsInOnePlace, Waiting
<1>1. PICK B, K, E : /\ B = {th \in Threads : c \in Buffered(th)}
                     /\ K = {t \in Targets : armed[t] = c}
                     /\ E = {w \in Workers : c \in batch[w]}
  OBVIOUS
<1>s. SUFFICES Cardinality(B) + Cardinality(K) + Cardinality(E) = IF Waiting(c) THEN 1 ELSE 0
  BY <1>1
<1>2. Target[c] \in Targets /\ K \subseteq {Target[c]}
  BY <1>1 DEF Targets, IInv, Knotes, KqueueAssumption
<1>3. /\ Cardinality({}) = 0 /\ \A x : Cardinality({x}) = 1
  BY FS_EmptySet, FS_Singleton
<1>4. (Waiting(c) /\ Somewhere(c)) \/ (~Waiting(c) /\ Nowhere(c))
  BY DEF IInv, Located
<1>5. CASE ~Waiting(c) /\ Nowhere(c)
  <2>1. B = {} /\ K = {} /\ E = {}
    BY <1>1, <1>2, <1>5 DEF Nowhere
  <2>2. Cardinality(B) = 0 /\ Cardinality(K) = 0 /\ Cardinality(E) = 0
    BY <1>3, <2>1
  <2> QED
    BY <1>5, <2>2
<1>6. CASE Waiting(c) /\ InKernel(c)
  <2>1. B = {} /\ K = {Target[c]} /\ E = {}
    BY <1>1, <1>2, <1>6 DEF InKernel
  <2>2. Cardinality(B) = 0 /\ Cardinality(K) = 1 /\ Cardinality(E) = 0
    BY <1>3, <2>1
  <2> QED
    BY <1>6, <2>2
<1>7. CASE Waiting(c) /\ \E th \in Threads : InBuffer(c, th)
  <2>1. PICK th \in Threads : InBuffer(c, th)
    BY <1>7
  <2>2. B = {th} /\ K = {} /\ E = {}
    BY <1>1, <1>2, <2>1 DEF InBuffer
  <2>3. Cardinality(B) = 1 /\ Cardinality(K) = 0 /\ Cardinality(E) = 0
    BY <1>3, <2>2
  <2> QED
    BY <1>7, <2>3
<1>8. CASE Waiting(c) /\ \E w \in Workers : InBatch(c, w)
  <2>1. PICK w \in Workers : InBatch(c, w)
    BY <1>8
  <2>2. B = {} /\ K = {} /\ E = {w}
    BY <1>1, <1>2, <2>1 DEF InBatch
  <2>3. Cardinality(B) = 0 /\ Cardinality(K) = 0 /\ Cardinality(E) = 1
    BY <1>3, <2>2
  <2> QED
    BY <1>8, <2>3
<1> QED
  BY <1>4, <1>5, <1>6, <1>7, <1>8 DEF Somewhere

-----------------------------------------------------------------------------
(* Every variable of the kqueue loop keeps its type, whatever the threads, *)
(* the callbacks and the kernel do.                                        *)
THEOREM TypeCorrect ==
    ASSUME KqueueAssumption
    PROVE  Spec => []TypeOK
<1>1. Init => IInv
  BY InitInv
<1>2. IInv /\ [Next]_vars => IInv'
  BY IInvInductive
<1>3. IInv => TypeOK
  BY DEF IInv
<1> QED
  BY <1>1, <1>2, <1>3, PTL DEF Spec

(* A coroutine that is alone in waiting for its descriptor and filter is   *)
(* in one place while it waits - the buffer of a thread, the kernel or the *)
(* events one worker has taken - and in none otherwise: no two workers     *)
(* resume it, and none resumes it before await_suspend() has stored its    *)
(* continuation, although any worker may take its event.                   *)
THEOREM WaitsOnce ==
    ASSUME KqueueAssumption
    PROVE  Spec => []WaitsInOnePlace
<1>1. Init => IInv
  BY InitInv
<1>2. IInv /\ [Next]_vars => IInv'
  BY IInvInductive
<1>3. IInv => WaitsInOnePlace
  BY OnePlace
<1> QED
  BY <1>1, <1>2, <1>3, PTL DEF Spec
=============================================================================
