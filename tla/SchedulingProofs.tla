-------------------------- MODULE SchedulingProofs --------------------------
(***************************************************************************)
(* What a task needs before it runs: a place in the executor and the locks  *)
(* of the paths it writes.                                                  *)
(*                                                                          *)
(* About AdmissionScheduler: first what its operators do (taking an item    *)
(* out of the queue, counting the units of memory, the order of             *)
(* examination), then that every callback, and every step of a pass, keeps  *)
(* SchedulerSafe, one part of the invariant after another; the order in     *)
(* which items start follows from what the pass has found (PassOver).       *)
(*                                                                          *)
(* About WriteScopeLocks: what overlaps, then the records, which need no    *)
(* mutex to stay, then that a scan misses nobody as long as one attempt at  *)
(* a time is in the mutex, and when that is so.                             *)
(***************************************************************************)
EXTENDS AdmissionScheduler, HostFiles, FiniteSetTheorems, FunctionTheorems, SequenceTheorems,
        WellFoundedInduction, TLAPS

\* What the parts of SchedulerSafe need of one another and of the signals: the
\* items that occupy capacity are finitely many, an item whose function returned
\* was answered, a queued item is not cancelled, only running items have timed
\* out, and shutdown has emptied a queue that accepts nothing more.
Bookkeeping ==
  /\ IsFiniteSet(Occupying)
  /\ settling \subseteq answered
  /\ Queued \cap cancelled = {}
  /\ timedOut \subseteq running
  /\ stop # "no" => ~accepting /\ queue = <<>>

\* What the pass in progress has found: an item it has examined and left in the
\* queue waits for a reason, and one that waits for capacity still does not fit.
PassOver ==
  pumping =>
    \A j \in Queued \ scan :
      reason[j] # "none" /\ (reason[j] = "capacity" => ~Fits(j))

IInv == SchedulerSafe /\ Bookkeeping /\ PassOver

-----------------------------------------------------------------------------
(* The queue *)

Distinct(q) == \A m, n \in DOMAIN q : q[m] = q[n] => m = n

\* A set of natural numbers that is not empty has a least one.
LEMMA LeastElement ==
  ASSUME NEW I \in SUBSET Nat, I # {}
  PROVE  \E n \in I : \A k \in I : n <= k
<1> DEFINE R == OpToRel(<, Nat)
<1>1. \A k, n \in Nat : k < n => <<k, n>> \in R BY DEF OpToRel
<1>2. IsWellFoundedOn(R, Nat) BY NatLessThanWellFounded
<1> HIDE DEF R
<1>3. PICK n \in I : \A k \in I : ~(<<k, n>> \in R) BY <1>2, WFMin
<1>4. \A k \in I : ~(k < n) BY <1>1, <1>3
<1>5. n \in Nat /\ \A k \in I : k \in Nat OBVIOUS
<1>6. \A k \in I : n <= k BY <1>4, <1>5
<1>7. QED BY <1>6

\* The first place of an element is one of its places.
LEMMA FirstPlace ==
  ASSUME NEW S, NEW q \in Seq(S), NEW i \in Range(q)
  PROVE  \E n \in 1..Len(q) : q[n] = i /\ RemoveFirst(q, i) = RemoveAt(q, n)
<1> DEFINE I == {k \in 1..Len(q) : q[k] = i}
<1>1. Len(q) \in Nat /\ DOMAIN q = 1..Len(q) BY LenProperties
<1>2. PICK m \in 1..Len(q) : q[m] = i BY <1>1 DEF Range
<1>3. I \in SUBSET Nat /\ m \in I BY <1>1, <1>2
<1>4. \E n \in I : \A k \in I : n <= k
  <2> HIDE DEF I
  <2>1. QED BY <1>3, LeastElement
<1>5. Min(I) \in I BY <1>4 DEF Min
<1>6. SelectInSeq(q, LAMBDA v : v = i) = Min(I) BY <1>3 DEF SelectInSeq
<1>7. RemoveFirst(q, i) = RemoveAt(q, Min(I)) BY <1>2, <1>6 DEF RemoveFirst
<1>8. QED BY <1>5, <1>7

\* Removing at a place leaves the elements at the others.
LEMMA RemovedAt ==
  ASSUME NEW S, NEW q \in Seq(S), NEW n \in 1..Len(q)
  PROVE  /\ RemoveAt(q, n) \in Seq(S) /\ Len(RemoveAt(q, n)) = Len(q) - 1
         /\ \A k \in 1..(Len(q) - 1) :
              RemoveAt(q, n)[k] = IF k < n THEN q[k] ELSE q[k + 1]
<1> DEFINE front == SubSeq(q, 1, n - 1)  back == SubSeq(q, n + 1, Len(q))
<1>1. Len(q) \in Nat /\ \A k \in 1..Len(q) : q[k] \in S BY LenProperties, ElementOfSeq
<1>2. /\ front \in Seq(S) /\ Len(front) = n - 1
      /\ \A k \in 1..(n - 1) : front[k] = q[k]
  BY <1>1, SubSeqProperties, 1 <= n - 1 \/ n = 1
<1>3. /\ back \in Seq(S) /\ Len(back) = Len(q) - n
      /\ \A k \in 1..(Len(q) - n) : back[k] = q[n + k]
  BY <1>1, SubSeqProperties
<1>4. RemoveAt(q, n) = front \o back BY DEF RemoveAt
<1> HIDE DEF front, back
<1>5. /\ front \o back \in Seq(S) /\ Len(front \o back) = Len(front) + Len(back)
      /\ \A k \in 1..(Len(front) + Len(back)) :
           (front \o back)[k] = IF k <= Len(front) THEN front[k] ELSE back[k - Len(front)]
  BY <1>2, <1>3, ConcatProperties, Zenon
<1>6. ASSUME NEW k \in 1..(Len(q) - 1) PROVE RemoveAt(q, n)[k] = IF k < n THEN q[k] ELSE q[k + 1]
  <2>1. k \in 1..(Len(front) + Len(back)) BY <1>1, <1>2, <1>3
  <2>2. RemoveAt(q, n)[k] = IF k <= n - 1 THEN front[k] ELSE back[k - (n - 1)]
    BY <1>2, <1>4, <1>5, <2>1
  <2>3. CASE k < n
    <3>1. k <= n - 1 /\ k \in 1..(n - 1) BY <2>3
    <3>2. QED BY <1>2, <2>2, <2>3, <3>1
  <2>4. CASE ~(k < n)
    <3>1. ~(k <= n - 1) /\ k - (n - 1) \in 1..(Len(q) - n) /\ n + (k - (n - 1)) = k + 1
      BY <1>1, <2>4
    <3>2. QED BY <1>3, <2>2, <2>4, <3>1
  <2>5. QED BY <2>3, <2>4
<1>7. Len(front) + Len(back) = Len(q) - 1 BY <1>1, <1>2, <1>3
<1>8. QED BY <1>4, <1>5, <1>6, <1>7

\* Out of a queue without duplicates an item goes altogether, and nothing else.
LEMMA OutOfQueue ==
  ASSUME NEW S, NEW q \in Seq(S), Distinct(q), NEW i \in Range(q)
  PROVE  /\ RemoveFirst(q, i) \in Seq(S) /\ Distinct(RemoveFirst(q, i))
         /\ Range(RemoveFirst(q, i)) = Range(q) \ {i}
<1>1. PICK n \in 1..Len(q) : q[n] = i /\ RemoveFirst(q, i) = RemoveAt(q, n) BY FirstPlace
<1> DEFINE r == RemoveAt(q, n)
<1>2. Len(q) \in Nat /\ DOMAIN q = 1..Len(q) BY LenProperties
<1>3. /\ r \in Seq(S) /\ Len(r) = Len(q) - 1
      /\ \A k \in 1..(Len(q) - 1) : r[k] = IF k < n THEN q[k] ELSE q[k + 1]
  BY RemovedAt
<1>4. DOMAIN r = 1..(Len(q) - 1) BY <1>3, LenProperties
<1> HIDE DEF r
<1>5. Distinct(r)
  <2>1. SUFFICES ASSUME NEW k \in 1..(Len(q) - 1), NEW l \in 1..(Len(q) - 1), r[k] = r[l] PROVE k = l
    BY <1>4 DEF Distinct
  <2>2. \A a, b \in 1..Len(q) : q[a] = q[b] => a = b BY <1>2 DEF Distinct
  <2> DEFINE at(x) == IF x < n THEN x ELSE x + 1
  <2>3. at(k) \in 1..Len(q) /\ at(l) \in 1..Len(q) BY <1>2
  <2>4. q[at(k)] = q[at(l)] BY <1>3, <2>1
  <2>5. at(k) = at(l) BY <2>2, <2>3, <2>4
  <2>6. QED BY <1>2, <2>5
<1>6. Range(r) \subseteq Range(q) \ {i}
  <2>1. SUFFICES ASSUME NEW k \in 1..(Len(q) - 1) PROVE r[k] \in Range(q) /\ r[k] # i
    BY <1>4 DEF Range
  <2> DEFINE at == IF k < n THEN k ELSE k + 1
  <2>2. at \in 1..Len(q) /\ at # n /\ r[k] = q[at] BY <1>2, <1>3
  <2>3. QED BY <1>1, <1>2, <2>2 DEF Distinct, Range
<1>7. Range(q) \ {i} \subseteq Range(r)
  <2>1. SUFFICES ASSUME NEW m \in 1..Len(q), q[m] # i PROVE \E k \in 1..(Len(q) - 1) : r[k] = q[m]
    BY <1>2, <1>4 DEF Range
  <2>2. m # n BY <1>1, <2>1
  <2> DEFINE k == IF m < n THEN m ELSE m - 1
  <2>3. k \in 1..(Len(q) - 1) /\ r[k] = q[m] BY <1>2, <1>3, <2>2
  <2>4. QED BY <2>3
<1>8. QED BY <1>1, <1>3, <1>5, <1>6, <1>7 DEF r

\* A new item at the end of the queue.
LEMMA IntoQueue ==
  ASSUME NEW S, NEW q \in Seq(S), Distinct(q), NEW i \in S, i \notin Range(q)
  PROVE  /\ Append(q, i) \in Seq(S) /\ Distinct(Append(q, i))
         /\ Range(Append(q, i)) = Range(q) \cup {i}
<1>1. Len(q) \in Nat /\ DOMAIN q = 1..Len(q) BY LenProperties
<1>2. /\ Append(q, i) \in Seq(S) /\ Len(Append(q, i)) = Len(q) + 1
      /\ \A k \in 1..Len(q) : Append(q, i)[k] = q[k]
      /\ Append(q, i)[Len(q) + 1] = i
  BY AppendProperties
<1>3. DOMAIN Append(q, i) = 1..(Len(q) + 1) BY <1>2, LenProperties
<1>4. \A k \in 1..Len(q) : q[k] # i BY <1>1 DEF Range
<1>5. Distinct(Append(q, i))
  <2>1. SUFFICES ASSUME NEW m \in 1..(Len(q) + 1), NEW n \in 1..(Len(q) + 1),
                        Append(q, i)[m] = Append(q, i)[n]
                 PROVE  m = n
    BY <1>3 DEF Distinct
  <2>2. CASE m \in 1..Len(q) /\ n \in 1..Len(q) BY <1>1, <1>2, <2>1, <2>2 DEF Distinct
  <2>3. CASE m = Len(q) + 1 \/ n = Len(q) + 1 BY <1>1, <1>2, <1>4, <2>1, <2>3
  <2>4. QED BY <1>1, <2>2, <2>3
<1>6. Range(Append(q, i)) = Range(q) \cup {i} BY <1>1, <1>2, <1>3 DEF Range
<1>7. QED BY <1>2, <1>5, <1>6

-----------------------------------------------------------------------------
(* Capacity *)

\* The memory of one item more, and of one item less.
LEMMA UnitsOfOne ==
  ASSUME NEW i \in Items
  PROVE  IsFiniteSet(Units(i)) /\ Cardinality(Units(i)) = MemoryOf[i]
<1>1. MemoryOf[i] \in Nat BY ItemAssumption
<1>2. IsFiniteSet(1..MemoryOf[i]) /\ Cardinality(1..MemoryOf[i]) = MemoryOf[i]
  <2>1. 1 \in Int /\ MemoryOf[i] \in Int BY <1>1
  <2>2. /\ IsFiniteSet(1..MemoryOf[i])
        /\ Cardinality(1..MemoryOf[i]) = IF 1 > MemoryOf[i] THEN 0 ELSE MemoryOf[i] - 1 + 1
    BY <2>1, FS_Interval, Zenon
  <2>3. QED BY <1>1, <2>2
<1>3. IsFiniteSet({i}) /\ Cardinality({i}) = 1 BY FS_Singleton
<1>4. /\ IsFiniteSet({i} \X (1..MemoryOf[i]))
      /\ Cardinality({i} \X (1..MemoryOf[i])) = Cardinality({i}) * Cardinality(1..MemoryOf[i])
  BY <1>2, <1>3, FS_Product
<1>5. 1 * MemoryOf[i] = MemoryOf[i] BY <1>1
<1>6. Cardinality({i} \X (1..MemoryOf[i])) = MemoryOf[i] BY <1>2, <1>3, <1>4, <1>5
<1>7. QED BY <1>4, <1>6 DEF Units

\* Finitely many items bring finitely many units of memory.
LEMMA UnitsFinite ==
  ASSUME NEW S \in SUBSET Items, IsFiniteSet(S)
  PROVE  IsFiniteSet(UNION {Units(i) : i \in S})
<1> DEFINE f == [i \in S |-> Units(i)]
<1>1. {Units(i) : i \in S} = Range(f) BY DEF Range
<1>2. f \in Surjection(S, Range(f))
  <2>1. f \in [S -> Range(f)] BY DEF Range
  <2> HIDE DEF f
  <2>2. QED BY <2>1, Fun_RangeProperties
<1>3. IsFiniteSet(Range(f))
  <2> HIDE DEF f
  <2>1. QED BY <1>2, FS_Surjection
<1>4. \A T \in {Units(i) : i \in S} : IsFiniteSet(T) BY UnitsOfOne
<1>5. QED BY <1>1, <1>3, <1>4, FS_UNION

\* One item more brings as much memory as it asks for,
LEMMA OneMore ==
  ASSUME NEW S \in SUBSET Items, IsFiniteSet(S), NEW i \in Items \ S
  PROVE  MemoryOfAll(S \cup {i}) = MemoryOfAll(S) + MemoryOf[i]
<1> DEFINE U == UNION {Units(j) : j \in S}
<1>1. IsFiniteSet(U) /\ Cardinality(U) \in Nat BY UnitsFinite, FS_CardinalityType
<1>2. IsFiniteSet(Units(i)) /\ Cardinality(Units(i)) = MemoryOf[i] BY UnitsOfOne
<1>3. U \cap Units(i) = {} BY DEF Units
<1>4. UNION {Units(j) : j \in S \cup {i}} = U \cup Units(i) OBVIOUS
<1>5. MemoryOf[i] \in Nat BY ItemAssumption
<1>6. Cardinality(U \cup Units(i)) = Cardinality(U) + MemoryOf[i]
  <2> HIDE DEF U
  <2>1. Cardinality(U \cup Units(i)) = Cardinality(U) + Cardinality(Units(i)) - Cardinality({})
    BY <1>1, <1>2, <1>3, FS_Union
  <2>2. QED BY <1>1, <1>2, <1>5, <2>1, FS_EmptySet
<1>7. QED BY <1>4, <1>6 DEF MemoryOfAll

\* and one item less takes as much away.
LEMMA OneLess ==
  ASSUME NEW S \in SUBSET Items, IsFiniteSet(S), NEW i \in S
  PROVE  MemoryOfAll(S \ {i}) = MemoryOfAll(S) - MemoryOf[i]
<1>1. IsFiniteSet(S \ {i}) BY FS_RemoveElement
<1>2. MemoryOfAll((S \ {i}) \cup {i}) = MemoryOfAll(S \ {i}) + MemoryOf[i] BY <1>1, OneMore
<1>3. (S \ {i}) \cup {i} = S OBVIOUS
<1>4. MemoryOf[i] \in Nat BY ItemAssumption
<1>5. MemoryOfAll(S \ {i}) \in Nat /\ MemoryOfAll(S) \in Nat
  BY <1>1, UnitsFinite, FS_CardinalityType DEF MemoryOfAll
<1>6. MemoryOfAll(S) = MemoryOfAll(S \ {i}) + MemoryOf[i] BY <1>2, <1>3, Zenon
<1>7. QED BY <1>4, <1>5, <1>6

\* How many items of a set a provider serves.
ServedBy(p, S) == {i \in S : ProviderOf[i] = p}

\* One item more counts for its provider only,
LEMMA ServedOneMore ==
  ASSUME NEW S \in SUBSET Items, IsFiniteSet(S), NEW i \in Items \ S, NEW p \in Providers
  PROVE  Cardinality(ServedBy(p, S \cup {i})) =
           IF p = ProviderOf[i] THEN Cardinality(ServedBy(p, S)) + 1 ELSE Cardinality(ServedBy(p, S))
<1>1. IsFiniteSet(ServedBy(p, S)) BY FS_Subset DEF ServedBy
<1>2. CASE p = ProviderOf[i]
  <2>1. ServedBy(p, S \cup {i}) = ServedBy(p, S) \cup {i} BY <1>2 DEF ServedBy
  <2>2. i \notin ServedBy(p, S) BY DEF ServedBy
  <2>3. QED BY <1>1, <1>2, <2>1, <2>2, FS_AddElement
<1>3. CASE p # ProviderOf[i]
  <2>1. ServedBy(p, S \cup {i}) = ServedBy(p, S) BY <1>3 DEF ServedBy
  <2>2. QED BY <1>3, <2>1
<1>4. QED BY <1>2, <1>3

\* and so does one item less.
LEMMA ServedOneLess ==
  ASSUME NEW S \in SUBSET Items, IsFiniteSet(S), NEW i \in S, NEW p \in Providers
  PROVE  Cardinality(ServedBy(p, S \ {i})) =
           IF p = ProviderOf[i] THEN Cardinality(ServedBy(p, S)) - 1 ELSE Cardinality(ServedBy(p, S))
<1>1. IsFiniteSet(ServedBy(p, S)) BY FS_Subset DEF ServedBy
<1>2. CASE p = ProviderOf[i]
  <2>1. ServedBy(p, S \ {i}) = ServedBy(p, S) \ {i} BY DEF ServedBy
  <2>2. i \in ServedBy(p, S) BY <1>2 DEF ServedBy
  <2>3. Cardinality(ServedBy(p, S) \ {i}) = Cardinality(ServedBy(p, S)) - 1
    BY <1>1, <2>2, FS_RemoveElement
  <2>4. QED BY <1>2, <2>1, <2>3
<1>3. CASE p # ProviderOf[i]
  <2>1. ServedBy(p, S \ {i}) = ServedBy(p, S) BY <1>3 DEF ServedBy
  <2>2. QED BY <1>3, <2>1
<1>4. QED BY <1>2, <1>3

-----------------------------------------------------------------------------
(* The order of examination *)

\* Of two items in a queue without duplicates one only is ahead of the other.
LEMMA AheadOneWay ==
  ASSUME TypeOK, Distinct(queue), NEW i \in Items, NEW j \in Items, Ahead(i, j), Ahead(j, i)
  PROVE  FALSE
<1>1. ASSUME NEW k \in Items PROVE EffectivePriority(k) \in Int
  <2>1. MaxClock \in Nat /\ PriorityOf[k] \in Int BY ItemAssumption, CapacityAssumption
  <2>2. clock - enqueued[k] \in Int /\ PriorityOf[k] \in Int BY <2>1 DEF TypeOK
  <2>3. Aging \in Nat \ {0} BY CapacityAssumption
  <2> DEFINE w == (clock - enqueued[k]) \div Aging
  <2>4. w \in Int BY <2>2, <2>3
  <2> HIDE DEF w
  <2>5. PriorityOf[k] + w \in Int BY <2>2, <2>4
  <2>6. QED BY <2>5 DEF EffectivePriority, Lower, w
<1>2. EffectivePriority(i) = EffectivePriority(j) /\ ArrivedBefore(i, j) /\ ArrivedBefore(j, i)
  BY <1>1 DEF Ahead
<1>3. DOMAIN queue = 1..Len(queue) /\ Len(queue) \in Nat BY LenProperties DEF TypeOK
<1>4. QED BY <1>2, <1>3 DEF ArrivedBefore, Distinct

-----------------------------------------------------------------------------
(* What a step does *)

\* The queue loses an item, or all of them, or gets one at its end.
LEMMA Unqueued ==
  ASSUME IInv, NEW i \in Queued, Unqueue(i)
  PROVE  /\ queue' \in Seq(Items) /\ Distinct(queue') /\ Queued' = Queued \ {i}
         /\ enqueued' \in [Items -> 0..MaxClock] /\ reason' \in [Items -> Reasons]
         /\ i \in Items /\ queue # <<>>
<1>1. queue \in Seq(Items) /\ Distinct(queue)
  BY DEF IInv, SchedulerSafe, TypeOK, OnePlaceEach, Distinct
<1>2. queue' \in Seq(Items) /\ Distinct(queue') /\ Queued' = Queued \ {i}
  BY <1>1, OutOfQueue DEF Queued, Unqueue
<1>3. i \in Items BY <1>1, RangeOfSeq DEF Queued
<1>4. queue # <<>> BY DEF Queued, Range
<1>5. 0 \in 0..MaxClock /\ "none" \in Reasons BY CapacityAssumption DEF Reasons
<1>6. QED BY <1>2, <1>3, <1>4, <1>5 DEF Unqueue, IInv, SchedulerSafe, TypeOK

\* What run() does to the queue when it accepts an item.
LEMMA Enqueued ==
  ASSUME IInv, NEW i \in Items, i \notin Queued, Enqueue(i)
  PROVE  /\ queue' \in Seq(Items) /\ Distinct(queue') /\ Queued' = Queued \cup {i}
         /\ enqueued' \in [Items -> 0..MaxClock]
<1>1. queue \in Seq(Items) /\ Distinct(queue)
  BY DEF IInv, SchedulerSafe, TypeOK, OnePlaceEach, Distinct
<1>2. queue' \in Seq(Items) /\ Distinct(queue') /\ Queued' = Queued \cup {i}
  BY <1>1, IntoQueue DEF Queued, Enqueue
<1>3. QED BY <1>2 DEF Enqueue, IInv, SchedulerSafe, TypeOK

\* The queue of a new executor, and what shutdown() leaves of it.
LEMMA EmptyQueue ==
  <<>> \in Seq(Items) /\ Distinct(<<>>) /\ Range(<<>>) = {}
BY EmptySeq DEF Distinct, Range

\* Only items are queued.
LEMMA QueuedItems ==
  ASSUME TypeOK
  PROVE  Queued \subseteq Items
BY RangeOfSeq DEF TypeOK, Queued

\* Every queue a step leaves has distinct items.
LEMMA QueueStep ==
  ASSUME IInv, [Next]_vars
  PROVE  queue' \in Seq(Items) /\ Distinct(queue')
<1> USE DEF IInv, SchedulerSafe
<1>1. queue \in Seq(Items) /\ Distinct(queue) BY DEF TypeOK, OnePlaceEach, Distinct
<1>2. ASSUME NEW i \in Items, Run(i) PROVE queue' \in Seq(Items) /\ Distinct(queue')
  BY <1>1, <1>2, Enqueued DEF Run, Reject
<1>3. ASSUME NEW i \in Items, Cancel(i) PROVE queue' \in Seq(Items) /\ Distinct(queue')
  BY <1>1, <1>3, Unqueued DEF Cancel, RemoveQueued
<1>4. ASSUME NEW i \in Items, QueueTimer(i) \/ DropInPass(i) \/ SelectLate(i) \/ Select(i)
      PROVE  queue' \in Seq(Items) /\ Distinct(queue')
  <2>1. i \in Queued BY <1>4 DEF QueueTimer, DropInPass, SelectLate, Select, Selectable, Examines, TypeOK
  <2>2. Unqueue(i) BY <1>4 DEF QueueTimer, DropInPass, SelectLate, Select, RemoveQueued
  <2>3. QED BY <2>1, <2>2, Unqueued
<1>5. CASE Shutdown BY <1>5, EmptyQueue DEF Shutdown
<1>6. CASE UNCHANGED queue BY <1>1, <1>6
<1>7. QED
  BY <1>2, <1>3, <1>4, <1>5, <1>6
  DEF Next, Pass, EndPump, Waits, PollTimer, GraceOver, AbortWaitOver, Tick, ExecutionTimer, Returns,
      Finalize, vars

\* Capacity: taken by one item that fits, given back by one, or left alone.
Taken(i) ==
  /\ Fits(i) /\ (ScopeOf[i] # None => ~ScopeHeld(i))
  /\ Occupying' = Occupying \cup {i}
  /\ locks' = IF ScopeOf[i] # None THEN locks \cup {i} ELSE locks
  /\ active' = active + 1 /\ activeMemory' = activeMemory + MemoryOf[i]
  /\ activeBy' = [activeBy EXCEPT ![ProviderOf[i]] = @ + 1]

Freed(i) ==
  /\ Occupying' = Occupying \ {i}
  /\ locks' = locks \ {i}
  /\ active' = active - 1 /\ activeMemory' = activeMemory - MemoryOf[i]
  /\ activeBy' = [activeBy EXCEPT ![ProviderOf[i]] = @ - 1]

\* Select takes, the finally block frees, and nothing else touches the counters.
LEMMA OccupancyStep ==
  ASSUME IInv, [Next]_vars
  PROVE  \/ Occupying' = Occupying /\ UNCHANGED <<locks, book>>
         \/ \E i \in Items \ Occupying : Taken(i)
         \/ \E i \in Occupying : Freed(i)
<1> USE DEF IInv, SchedulerSafe
<1>1. ASSUME NEW i \in Items, Select(i) PROVE i \in Items \ Occupying /\ Taken(i)
  <2>1. i \in Queued BY <1>1 DEF Select, Selectable, Examines, TypeOK
  <2>2. i \notin Occupying BY <2>1 DEF OnePlaceEach, Bookkeeping, Occupying
  <2>3. QED BY <1>1, <2>2 DEF Select, Selectable, Taken, Occupying
<1>2. ASSUME NEW i \in Items, Finalize(i) PROVE i \in Occupying /\ Freed(i)
  <2>1. i \notin running BY <1>2 DEF Finalize, OnePlaceEach, Bookkeeping
  <2>2. QED BY <1>2, <2>1 DEF Finalize, Freed, Occupying
<1>3. ASSUME NEW i \in Items, Returns(i) PROVE Occupying' = Occupying /\ UNCHANGED <<locks, book>>
  BY <1>3 DEF Returns, Occupying
<1>4. CASE UNCHANGED <<running, settling, locks, book>> BY <1>4 DEF Occupying
<1>5. QED
  BY <1>1, <1>2, <1>3, <1>4
  DEF Next, Pass, EndPump, DropInPass, SelectLate, Waits, PollTimer, Shutdown, GraceOver, AbortWaitOver,
      Tick, Run, Cancel, QueueTimer, ExecutionTimer, vars

-----------------------------------------------------------------------------
(* The parts of the invariant, one after another *)

\* Every step keeps the types.
LEMMA TypeStep ==
  ASSUME IInv, [Next]_vars
  PROVE  TypeOK'
<1> USE DEF IInv, SchedulerSafe
<1>1. queue' \in Seq(Items) BY QueueStep
<1>2. ASSUME NEW i \in Items, Run(i) PROVE TypeOK'
  <2>1. CASE Reject(i) BY <1>2, <2>1 DEF Run, Reject, Settle, TypeOK, book, Queued
  <2>2. CASE Enqueue(i)
    <3>1. enqueued' \in [Items -> 0..MaxClock] BY <1>2, <2>2, Enqueued DEF Run
    <3>2. QED BY <1>1, <1>2, <2>2, <3>1 DEF Run, Enqueue, StartPump, TypeOK, book, Queued
  <2>3. QED BY <1>2, <2>1, <2>2 DEF Run
<1>3. ASSUME NEW i \in Items, Cancel(i) PROVE TypeOK'
  <2>1. CASE i \in Queued /\ RemoveQueued(i)
    <3>1. Queued' = Queued \ {i} /\ enqueued' \in [Items -> 0..MaxClock] /\ reason' \in [Items -> Reasons]
      BY <2>1, Unqueued DEF RemoveQueued
    <3>2. QED BY <1>1, <1>3, <2>1, <3>1 DEF Cancel, RemoveQueued, Settle, TypeOK, book
  <2>2. CASE i \notin Queued BY <1>3, <2>2 DEF Cancel, TypeOK, book, Queued
  <2>3. QED BY <1>3, <2>1, <2>2 DEF Cancel
<1>4. ASSUME NEW i \in Items, QueueTimer(i) \/ DropInPass(i) PROVE TypeOK'
  <2>1. i \in Queued /\ RemoveQueued(i) BY <1>4 DEF QueueTimer, DropInPass, Examines, TypeOK
  <2>2. Queued' = Queued \ {i} /\ enqueued' \in [Items -> 0..MaxClock] /\ reason' \in [Items -> Reasons]
    BY <2>1, Unqueued DEF RemoveQueued
  <2>3. QED BY <1>1, <1>4, <2>1, <2>2 DEF QueueTimer, DropInPass, RemoveQueued, Settle, TypeOK, book
<1>5. ASSUME NEW i \in Items, SelectLate(i) \/ Select(i) PROVE TypeOK'
  <2>1. i \in Queued /\ Unqueue(i) BY <1>5 DEF SelectLate, Select, Selectable, Examines, TypeOK
  <2>2. enqueued' \in [Items -> 0..MaxClock] /\ reason' \in [Items -> Reasons]
    BY <2>1, Unqueued
  <2>3. scan' \subseteq Queued' BY <1>5 DEF SelectLate, Select, StartPump, Queued
  <2>4. CASE SelectLate(i)
    <3>1. clock' \in 0..MaxClock BY <2>4, CapacityAssumption DEF SelectLate, TypeOK
    <3>2. QED BY <1>1, <2>2, <2>3, <2>4, <3>1 DEF SelectLate, StartPump, Settle, TypeOK, book
  <2>5. CASE Select(i)
    <3>1. active' \in Int /\ activeMemory' \in Int /\ activeBy' \in [Providers -> Int]
      BY <2>5, ItemAssumption DEF Select, TypeOK
    <3>2. QED BY <1>1, <2>2, <2>3, <2>5, <3>1 DEF Select, StartPump, signals, TypeOK
  <2>6. QED BY <1>5, <2>4, <2>5
<1>6. ASSUME NEW i \in Items, NEW r \in Reasons, Waits(i, r) PROVE TypeOK'
  BY <1>6 DEF Waits, TypeOK, signals, book, Queued
<1>7. CASE EndPump BY <1>7 DEF EndPump, TypeOK, signals, book, Queued
<1>8. CASE PollTimer BY <1>8 DEF PollTimer, StartPump, TypeOK, signals, book, Queued
<1>9. ASSUME NEW i \in Items, ExecutionTimer(i) PROVE TypeOK'
  BY <1>9 DEF ExecutionTimer, TypeOK, book, Queued
<1>10. ASSUME NEW i \in Items, Returns(i) PROVE TypeOK'
  BY <1>10 DEF Returns, Settle, TypeOK, book, Queued
<1>11. ASSUME NEW i \in Items, Finalize(i) PROVE TypeOK'
  <2>1. active' \in Int /\ activeMemory' \in Int /\ activeBy' \in [Providers -> Int]
    BY <1>11, ItemAssumption DEF Finalize, TypeOK
  <2>2. stop' \in {"no", "grace", "abort", "graceful", "forced"} BY <1>11 DEF Finalize, Woken, TypeOK
  <2>3. QED BY <1>11, <2>1, <2>2 DEF Finalize, StartPump, signals, TypeOK, Queued
<1>12. CASE Shutdown
  <2>1. Queued \subseteq Items BY QueuedItems
  <2>2. enqueued' \in [Items -> 0..MaxClock] /\ reason' \in [Items -> Reasons]
    BY <1>12, CapacityAssumption DEF Shutdown, Reasons
  <2>3. QED BY <1>1, <1>12, <2>1, <2>2 DEF Shutdown, Settle, TypeOK, book
<1>13. CASE GraceOver BY <1>13 DEF GraceOver, TypeOK, book, Queued
<1>14. CASE AbortWaitOver BY <1>14 DEF AbortWaitOver, TypeOK, signals, book, Queued
<1>15. CASE Tick
  <2>1. clock' \in 0..MaxClock BY <1>15, CapacityAssumption DEF Tick, TypeOK
  <2>2. QED BY <1>15, <2>1 DEF Tick, TypeOK, signals, book, Queued
<1>16. CASE UNCHANGED vars BY <1>16 DEF vars, TypeOK, signals, book, Queued
<1>17. QED
  BY <1>2, <1>3, <1>4, <1>5, <1>6, <1>7, <1>8, <1>9, <1>10, <1>11, <1>12, <1>13, <1>14, <1>15, <1>16
  DEF Next, Pass

\* Every step keeps the counters those of the items, and below the limits: taking
\* checks every limit first (capacityReasons), freeing only lowers.
LEMMA CapacityStep ==
  ASSUME IInv, [Next]_vars
  PROVE  CapacityRespected' /\ IsFiniteSet(Occupying)'
<1> DEFINE S == Occupying
           Kept == /\ active' = Cardinality(S') /\ active' <= MaxConcurrency
                   /\ activeMemory' = MemoryOfAll(S') /\ activeMemory' <= MemoryCapacity
                   /\ \A p \in Providers :
                        activeBy'[p] = Cardinality(ServedBy(p, S')) /\ activeBy'[p] <= ProviderCap[p]
                   /\ IsFiniteSet(S')
<1>1. /\ S \in SUBSET Items /\ IsFiniteSet(S) /\ Cardinality(S) \in Nat
      /\ active = Cardinality(S) /\ active <= MaxConcurrency
      /\ activeMemory = MemoryOfAll(S) /\ activeMemory <= MemoryCapacity
      /\ \A p \in Providers :
           activeBy[p] = Cardinality(ServedBy(p, S)) /\ activeBy[p] <= ProviderCap[p]
  BY FS_CardinalityType
  DEF IInv, SchedulerSafe, TypeOK, Bookkeeping, CapacityRespected, Occupying, Using, ServedBy
<1>2. activeBy \in [Providers -> Int] /\ activeMemory \in Int
  BY DEF IInv, SchedulerSafe, TypeOK
<1>3. SUFFICES Kept BY DEF CapacityRespected, Using, ServedBy
<1>4. \A p \in Providers : ProviderCap[p] \in Nat BY CapacityAssumption
<1>5. MaxConcurrency \in Nat /\ MemoryCapacity \in Nat BY CapacityAssumption
<1>6. CASE S' = S /\ UNCHANGED <<locks, book>> BY <1>1, <1>6 DEF book
<1>7. ASSUME NEW i \in Items \ S, Taken(i) PROVE Kept
  <2> DEFINE T == S \cup {i}
  <2>1. S' = T BY <1>7 DEF Taken
  <2>2. IsFiniteSet(T) /\ Cardinality(T) = Cardinality(S) + 1 BY <1>1, FS_AddElement
  <2>3. MemoryOfAll(T) = MemoryOfAll(S) + MemoryOf[i] BY <1>1, OneMore
  <2>4. \A p \in Providers :
          Cardinality(ServedBy(p, T)) =
            IF p = ProviderOf[i] THEN Cardinality(ServedBy(p, S)) + 1 ELSE Cardinality(ServedBy(p, S))
    BY <1>1, ServedOneMore
  <2>5. ProviderOf[i] \in Providers /\ MemoryOf[i] \in Nat BY ItemAssumption
  <2> HIDE DEF S, T
  <2>6. \A p \in Providers :
          activeBy'[p] = IF p = ProviderOf[i] THEN activeBy[p] + 1 ELSE activeBy[p]
    BY <1>2, <1>7, <2>5 DEF Taken
  <2>7. active < MaxConcurrency /\ active' = active + 1 BY <1>7 DEF Taken, Fits
  <2>8. activeMemory + MemoryOf[i] <= MemoryCapacity /\ activeMemory' = activeMemory + MemoryOf[i]
    BY <1>7 DEF Taken, Fits
  <2>9. activeBy[ProviderOf[i]] < ProviderCap[ProviderOf[i]] BY <1>7 DEF Taken, Fits
  <2>10. \A p \in Providers :
           activeBy'[p] = Cardinality(ServedBy(p, T)) /\ activeBy'[p] <= ProviderCap[p]
    BY <1>1, <1>2, <1>4, <2>4, <2>5, <2>6, <2>9
  <2>11. active' = Cardinality(T) /\ active' <= MaxConcurrency BY <1>1, <1>5, <2>2, <2>7
  <2>12. activeMemory' = MemoryOfAll(T) /\ activeMemory' <= MemoryCapacity BY <1>1, <2>3, <2>8
  <2>13. QED BY <2>1, <2>2, <2>10, <2>11, <2>12
<1>8. ASSUME NEW i \in S, Freed(i) PROVE Kept
  <2> DEFINE T == S \ {i}
  <2>1. S' = T BY <1>8 DEF Freed
  <2>2. IsFiniteSet(T) /\ Cardinality(T) = Cardinality(S) - 1 BY <1>1, FS_RemoveElement
  <2>3. MemoryOfAll(T) = MemoryOfAll(S) - MemoryOf[i] BY <1>1, OneLess
  <2>4. \A p \in Providers :
          Cardinality(ServedBy(p, T)) =
            IF p = ProviderOf[i] THEN Cardinality(ServedBy(p, S)) - 1 ELSE Cardinality(ServedBy(p, S))
    BY <1>1, ServedOneLess
  <2>5. ProviderOf[i] \in Providers /\ MemoryOf[i] \in Nat BY <1>1, ItemAssumption
  <2> HIDE DEF S, T
  <2>6. \A p \in Providers :
          activeBy'[p] = IF p = ProviderOf[i] THEN activeBy[p] - 1 ELSE activeBy[p]
    BY <1>2, <1>8, <2>5 DEF Freed
  <2>7. \A p \in Providers :
          activeBy'[p] = Cardinality(ServedBy(p, T)) /\ activeBy'[p] <= ProviderCap[p]
    BY <1>1, <1>2, <1>4, <2>4, <2>5, <2>6
  <2>8. active' = Cardinality(T) /\ active' <= MaxConcurrency BY <1>1, <1>5, <1>8, <2>2 DEF Freed
  <2>9. activeMemory' = MemoryOfAll(T) /\ activeMemory' <= MemoryCapacity
    BY <1>1, <1>2, <1>5, <1>8, <2>3, <2>5 DEF Freed
  <2>10. QED BY <2>1, <2>2, <2>7, <2>8, <2>9
<1>9. QED BY <1>6, <1>7, <1>8, OccupancyStep

\* Every step keeps the locks with the items that occupy capacity, one to a scope.
LEMMA LocksStep ==
  ASSUME IInv, [Next]_vars
  PROVE  LocksMatch'
<1>1. LocksMatch BY DEF IInv, SchedulerSafe
<1>2. CASE Occupying' = Occupying /\ UNCHANGED <<locks, book>> BY <1>1, <1>2 DEF LocksMatch
<1>3. ASSUME NEW i \in Items \ Occupying, Taken(i) PROVE LocksMatch'
  <2>1. locks' = {j \in Occupying' : ScopeOf[j] # None} BY <1>1, <1>3 DEF LocksMatch, Taken
  <2>2. ASSUME NEW j \in locks', NEW k \in locks', ScopeOf[j] = ScopeOf[k] PROVE j = k
    <3>1. (j \in locks \/ j = i) /\ (k \in locks \/ k = i) BY <1>3 DEF Taken
    <3>2. i \in locks' => \A l \in locks : ScopeOf[l] # ScopeOf[i]
      BY <1>1, <1>3 DEF Taken, ScopeHeld, LocksMatch
    <3>3. QED BY <1>1, <2>2, <3>1, <3>2 DEF LocksMatch
  <2>3. QED BY <2>1, <2>2 DEF LocksMatch
<1>4. ASSUME NEW i \in Occupying, Freed(i) PROVE LocksMatch' BY <1>1, <1>4 DEF LocksMatch, Freed
<1>5. QED BY <1>2, <1>3, <1>4, OccupancyStep

\* Every step keeps an item in one place: queued, running or answered.
LEMMA PlaceStep ==
  ASSUME IInv, [Next]_vars
  PROVE  OnePlaceEach' /\ (settling \subseteq answered)' /\ (Queued \cap cancelled = {})'
         /\ (timedOut \subseteq running)'
<1> DEFINE Apart == /\ Queued \cap (running \cup answered) = {} /\ running \cap answered = {}
                    /\ settling \subseteq answered /\ Queued \cap cancelled = {} /\ timedOut \subseteq running
<1>1. Apart BY DEF IInv, SchedulerSafe, OnePlaceEach, Bookkeeping
<1>2. Queued \subseteq Items BY QueuedItems DEF IInv, SchedulerSafe
<1>3. SUFFICES Apart' BY QueueStep DEF OnePlaceEach, Distinct
<1>4. ASSUME NEW i \in Items, Run(i) PROVE Apart'
  <2>1. CASE Reject(i) BY <1>1, <1>4, <2>1 DEF Run, Reject, Settle, Queued
  <2>2. CASE Enqueue(i) /\ i \notin cancelled
    <3>1. Queued' = Queued \cup {i} BY <1>4, <2>2, Enqueued DEF Run
    <3>2. QED BY <1>1, <1>4, <2>2, <3>1 DEF Run, Enqueue
  <2>3. QED BY <1>4, <2>1, <2>2 DEF Run
<1>5. ASSUME NEW i \in Items, Cancel(i) PROVE Apart'
  <2>1. CASE i \in Queued /\ RemoveQueued(i)
    <3>1. Queued' = Queued \ {i} BY <2>1, Unqueued DEF RemoveQueued
    <3>2. QED BY <1>1, <1>5, <2>1, <3>1 DEF Cancel, RemoveQueued, Settle
  <2>2. CASE i \notin Queued BY <1>1, <1>5, <2>2 DEF Cancel, Queued
  <2>3. QED BY <1>5, <2>1, <2>2 DEF Cancel
<1>6. ASSUME NEW i \in Items, QueueTimer(i) \/ DropInPass(i) \/ SelectLate(i) \/ Select(i) PROVE Apart'
  <2>1. i \in Queued /\ Unqueue(i)
    BY <1>6
    DEF QueueTimer, DropInPass, SelectLate, Select, Selectable, Examines, RemoveQueued, IInv, SchedulerSafe,
        TypeOK
  <2>2. Queued' = Queued \ {i} BY <2>1, Unqueued
  <2>3. CASE QueueTimer(i) BY <1>1, <2>1, <2>2, <2>3 DEF QueueTimer, RemoveQueued, Settle
  <2>4. CASE DropInPass(i) BY <1>1, <2>1, <2>2, <2>4 DEF DropInPass, RemoveQueued, Settle
  <2>5. CASE SelectLate(i) BY <1>1, <2>1, <2>2, <2>5 DEF SelectLate, Settle
  <2>6. CASE Select(i) BY <1>1, <2>1, <2>2, <2>6 DEF Select, signals
  <2>7. QED BY <1>6, <2>3, <2>4, <2>5, <2>6
<1>7. ASSUME NEW i \in Items, ExecutionTimer(i) PROVE Apart' BY <1>1, <1>7 DEF ExecutionTimer, Queued
<1>8. ASSUME NEW i \in Items, Returns(i) PROVE Apart' BY <1>1, <1>8 DEF Returns, Settle, Queued
<1>9. ASSUME NEW i \in Items, Finalize(i) PROVE Apart' BY <1>1, <1>9 DEF Finalize, signals, Queued
<1>10. CASE Shutdown
  <2>1. Queued' = {} BY <1>10, EmptyQueue DEF Shutdown, Queued
  <2>2. QED BY <1>1, <1>10, <2>1 DEF Shutdown, Settle
<1>11. CASE UNCHANGED <<queue, running, settling, answered, cancelled, timedOut>>
  BY <1>1, <1>11 DEF Queued
<1>12. QED
  BY <1>4, <1>5, <1>6, <1>7, <1>8, <1>9, <1>10, <1>11
  DEF Next, Pass, EndPump, Waits, PollTimer, GraceOver, AbortWaitOver, Tick, signals, vars

\* Nothing is queued any more once shutdown() has begun.
LEMMA StopStep ==
  ASSUME IInv, [Next]_vars
  PROVE  (stop # "no" => ~accepting /\ queue = <<>>)'
<1> USE DEF IInv, SchedulerSafe, Bookkeeping
<1>1. ASSUME NEW i \in Items, Run(i) PROVE stop' # "no" => ~accepting' /\ queue' = <<>>
  BY <1>1 DEF Run, Reject, Enqueue
<1>2. ASSUME NEW i \in Items, Cancel(i) PROVE stop' # "no" => ~accepting' /\ queue' = <<>>
  BY <1>2, Unqueued DEF Cancel, RemoveQueued
<1>3. ASSUME NEW i \in Items, QueueTimer(i) \/ DropInPass(i) \/ SelectLate(i) \/ Select(i)
      PROVE  stop' # "no" => ~accepting' /\ queue' = <<>>
  <2>1. i \in Queued /\ Unqueue(i)
    BY <1>3 DEF QueueTimer, DropInPass, SelectLate, Select, Selectable, Examines, RemoveQueued, TypeOK
  <2>2. queue # <<>> BY <2>1, Unqueued
  <2>3. QED BY <1>3, <2>2 DEF QueueTimer, DropInPass, SelectLate, Select
<1>4. ASSUME NEW i \in Items, Finalize(i) PROVE stop' # "no" => ~accepting' /\ queue' = <<>>
  BY <1>4 DEF Finalize, Woken
<1>5. CASE Shutdown BY <1>5 DEF Shutdown
<1>6. CASE GraceOver \/ AbortWaitOver BY <1>6 DEF GraceOver, AbortWaitOver
<1>7. CASE UNCHANGED <<accepting, queue, stop>> BY <1>7
<1>8. QED
  BY <1>1, <1>2, <1>3, <1>4, <1>5, <1>6, <1>7
  DEF Next, Pass, EndPump, Waits, PollTimer, Tick, ExecutionTimer, Returns, vars

\* A callback that leaves items queued leaves the poll timer armed: it ends a pass,
\* which arms it, or it found the timer armed and only took an item away.
LEMMA WakeupStep ==
  ASSUME IInv, [Next]_vars
  PROVE  NoLostWakeup'
<1> USE DEF IInv, SchedulerSafe, NoLostWakeup
<1>1. ASSUME NEW i \in Items, Run(i) PROVE NoLostWakeup' BY <1>1 DEF Run, Reject, Enqueue, StartPump
<1>2. ASSUME NEW i \in Items, Cancel(i) PROVE NoLostWakeup' BY <1>2, Unqueued DEF Cancel, RemoveQueued
<1>3. ASSUME NEW i \in Items, QueueTimer(i) PROVE NoLostWakeup'
  BY <1>3, Unqueued DEF QueueTimer, RemoveQueued
<1>4. ASSUME NEW i \in Items, DropInPass(i) \/ SelectLate(i) \/ Select(i) \/ \E r \in Reasons : Waits(i, r)
      PROVE  NoLostWakeup'
  BY <1>4 DEF DropInPass, SelectLate, Select, Waits, Selectable, Examines, StartPump
<1>5. CASE EndPump BY <1>5 DEF EndPump
<1>6. CASE PollTimer BY <1>6 DEF PollTimer, StartPump
<1>7. ASSUME NEW i \in Items, Finalize(i) PROVE NoLostWakeup' BY <1>7 DEF Finalize, StartPump
<1>8. CASE Shutdown BY <1>8 DEF Shutdown
<1>9. CASE UNCHANGED <<queue, poll, pumping>> BY <1>9
<1>10. QED
  BY <1>1, <1>2, <1>3, <1>4, <1>5, <1>6, <1>7, <1>8, <1>9
  DEF Next, Pass, GraceOver, AbortWaitOver, Tick, ExecutionTimer, Returns, vars

\* A running item that was cancelled or timed out has been told; what starts was
\* neither, and nothing starts once shutdown() aborts.
LEMMA AbortStep ==
  ASSUME IInv, [Next]_vars
  PROVE  AbortDelivered'
<1> USE DEF IInv, SchedulerSafe, AbortDelivered
<1>1. ASSUME NEW i \in Items, Run(i) PROVE AbortDelivered'
  BY <1>1 DEF Run, Reject, Enqueue, Settle
<1>2. ASSUME NEW i \in Items, Cancel(i) PROVE AbortDelivered'
  BY <1>2 DEF Cancel, RemoveQueued, Settle
<1>3. ASSUME NEW i \in Items, QueueTimer(i) \/ DropInPass(i) \/ SelectLate(i) PROVE AbortDelivered'
  BY <1>3 DEF QueueTimer, DropInPass, SelectLate, RemoveQueued, Settle
<1>4. ASSUME NEW i \in Items, Select(i) PROVE AbortDelivered'
  <2>1. i \in Queued BY <1>4 DEF Select, Selectable, Examines, TypeOK
  <2>2. i \notin cancelled /\ i \notin timedOut BY <2>1 DEF Bookkeeping, OnePlaceEach
  <2>3. stop = "no" BY <2>1, <1>4, Unqueued DEF Select, Bookkeeping
  <2>4. QED BY <1>4, <2>2, <2>3 DEF Select, signals
<1>5. ASSUME NEW i \in Items, ExecutionTimer(i) PROVE AbortDelivered' BY <1>5 DEF ExecutionTimer
<1>6. ASSUME NEW i \in Items, Returns(i) PROVE AbortDelivered' BY <1>6 DEF Returns, Settle
<1>7. ASSUME NEW i \in Items, Finalize(i) PROVE AbortDelivered' BY <1>7 DEF Finalize, Woken, signals
<1>8. CASE Shutdown BY <1>8 DEF Shutdown, Settle
<1>9. CASE GraceOver BY <1>9 DEF GraceOver
<1>10. CASE AbortWaitOver BY <1>10 DEF AbortWaitOver, signals
<1>11. CASE UNCHANGED <<running, signals, stop>> BY <1>11 DEF signals
<1>12. QED
  BY <1>1, <1>2, <1>3, <1>4, <1>5, <1>6, <1>7, <1>8, <1>9, <1>10, <1>11
  DEF Next, Pass, EndPump, Waits, PollTimer, Tick, vars

\* A pass that goes on has lost the item it examined last, or found a reason for it.
LEMMA PassStep ==
  ASSUME IInv, [Next]_vars
  PROVE  PassOver'
<1> USE DEF IInv, SchedulerSafe
<1>1. CASE ~pumping'  BY <1>1 DEF PassOver
<1>2. CASE scan' = Queued' BY <1>2 DEF PassOver
<1>3. ASSUME NEW i \in Items, DropInPass(i) PROVE PassOver'
  <2>1. i \in Queued /\ Unqueue(i) /\ pumping
    BY <1>3 DEF DropInPass, Examines, RemoveQueued, TypeOK
  <2>2. Queued' = Queued \ {i} BY <2>1, Unqueued
  <2>3. scan' = scan \ {i} BY <1>3 DEF DropInPass, RemoveQueued
  <2>4. \A j \in Queued' : reason'[j] = reason[j] BY <2>1, <2>2, QueuedItems DEF Unqueue, TypeOK
  <2>5. \A j \in Items : Fits(j)' <=> Fits(j) BY <1>3 DEF DropInPass, book, Fits
  <2>6. QED BY <2>1, <2>2, <2>3, <2>4, <2>5, QueuedItems DEF PassOver
<1>4. ASSUME NEW i \in Items, NEW r \in Reasons, Waits(i, r) PROVE PassOver'
  <2>1. pumping /\ Queued' = Queued /\ scan' = scan \ {i} BY <1>4 DEF Waits, Examines, Queued
  <2>2. \A j \in Items : Fits(j)' <=> Fits(j) BY <1>4 DEF Waits, book, Fits
  <2>3. reason'[i] # "none" /\ (reason'[i] = "capacity" => ~Fits(i)) BY <1>4 DEF Waits, TypeOK
  <2>4. \A j \in Items \ {i} : reason'[j] = reason[j] BY <1>4 DEF Waits, TypeOK
  <2>5. QED BY <2>1, <2>2, <2>3, <2>4, QueuedItems DEF PassOver
<1>5. ASSUME NEW i \in Items, SelectLate(i) \/ Select(i) \/ Finalize(i) PROVE PassOver'
  BY <1>2, <1>5 DEF SelectLate, Select, Finalize, StartPump, Queued
<1>6. ASSUME NEW i \in Items, Run(i) PROVE PassOver'
  BY <1>1, <1>2, <1>6 DEF Run, Reject, Enqueue, StartPump, Queued
<1>7. ASSUME NEW i \in Items, Cancel(i) \/ QueueTimer(i) \/ ExecutionTimer(i) \/ Returns(i) PROVE PassOver'
  BY <1>1, <1>7 DEF Cancel, QueueTimer, ExecutionTimer, Returns
<1>8. CASE PollTimer BY <1>2, <1>8 DEF PollTimer, StartPump, Queued
<1>9. CASE EndPump \/ Shutdown \/ GraceOver \/ AbortWaitOver \/ Tick
  BY <1>1, <1>9 DEF EndPump, Shutdown, GraceOver, AbortWaitOver, Tick
<1>10. CASE UNCHANGED vars BY <1>10 DEF vars, book, PassOver, Queued, Fits
<1>11. QED BY <1>3, <1>4, <1>5, <1>6, <1>7, <1>8, <1>9, <1>10 DEF Next, Pass

-----------------------------------------------------------------------------
(* The theorems *)

\* The invariant holds of a new executor,
LEMMA InitIInv == Init => IInv
<1> SUFFICES ASSUME Init PROVE IInv
  OBVIOUS
<1>1. Occupying = {} /\ Queued = {} BY EmptyQueue DEF Init, Occupying, Queued
<1>2. TypeOK
  <2>1. 0 \in 0..MaxClock BY CapacityAssumption
  <2>2. enqueued \in [Items -> 0..MaxClock] /\ reason \in [Items -> Reasons]
    BY <2>1 DEF Init, Reasons
  <2>3. activeBy \in [Providers -> Int] BY DEF Init
  <2>4. queue \in Seq(Items) BY EmptyQueue DEF Init
  <2>5. scan \subseteq Queued BY DEF Init
  <2>6. stop \in {"no", "grace", "abort", "graceful", "forced"} BY DEF Init
  <2>7. clock \in 0..MaxClock /\ active \in Int /\ activeMemory \in Int BY <2>1 DEF Init
  <2>8. QED BY <2>2, <2>3, <2>4, <2>5, <2>6, <2>7 DEF Init, TypeOK
<1>3. CapacityRespected
  <2>1. IsFiniteSet({}) /\ Cardinality({}) = 0 BY FS_EmptySet
  <2>2. MemoryOfAll(Occupying) = 0 BY <1>1, <2>1 DEF MemoryOfAll
  <2>3. \A p \in Providers : Using(p) = {} BY <1>1 DEF Using
  <2>4. MaxConcurrency \in Nat /\ MemoryCapacity \in Nat BY CapacityAssumption
  <2>5. \A p \in Providers : ProviderCap[p] \in Nat BY CapacityAssumption
  <2>6. active = Cardinality(Occupying) /\ active <= MaxConcurrency BY <1>1, <2>1, <2>4 DEF Init
  <2>7. ASSUME NEW p \in Providers
        PROVE  activeBy[p] = Cardinality(Using(p)) /\ activeBy[p] <= ProviderCap[p]
    <3>1. Cardinality(Using(p)) = 0 BY <2>1, <2>3, Zenon
    <3>2. activeBy[p] = 0 BY DEF Init
    <3>3. QED BY <2>5, <3>1, <3>2
  <2>8. activeMemory = MemoryOfAll(Occupying) /\ activeMemory <= MemoryCapacity
    BY <2>2, <2>4 DEF Init
  <2>9. QED BY <2>6, <2>7, <2>8 DEF CapacityRespected
<1>4. LocksMatch BY <1>1 DEF Init, LocksMatch
<1>5. OnePlaceEach BY <1>1, EmptyQueue DEF Init, OnePlaceEach, Distinct
<1>6. NoLostWakeup /\ AbortDelivered BY DEF Init, NoLostWakeup, AbortDelivered
<1>7. Bookkeeping BY <1>1, FS_EmptySet DEF Init, Bookkeeping
<1>8. PassOver BY DEF Init, PassOver
<1>9. QED BY <1>2, <1>3, <1>4, <1>5, <1>6, <1>7, <1>8 DEF IInv, SchedulerSafe

\* and every step keeps it.
LEMMA NextIInv == IInv /\ [Next]_vars => IInv'
BY TypeStep, CapacityStep, LocksStep, PlaceStep, StopStep, WakeupStep, AbortStep, PassStep
DEF IInv, SchedulerSafe, Bookkeeping

\* SchedulerSafe holds of any number of items, providers and scopes, and of any
\* limits: in every callback of run(), removeQueued(), pump() and shutdown(), and
\* in the middle of every pass, the counters are those of the items that occupy
\* capacity and below the limits, locks belong to those items and to one each, an
\* item is in one place, a queue that is not empty will be looked at again, and
\* whoever has to stop was told.
THEOREM SchedulerIsSafe == Spec => []SchedulerSafe
<1>1. IInv => SchedulerSafe BY DEF IInv
<1>2. QED BY <1>1, InitIInv, NextIInv, PTL DEF Spec

\* An item starts only when every item ahead of it in the order of nextRunnable()
\* (aged priority, then arrival) was examined in the same pass and given a
\* reason to wait, and one that waits for capacity does not fit at the start.
THEOREM StartsInOrder == Spec => OrderRespected
<1> DEFINE InOrder == \A i \in running' \ running, j \in Queued :
                        j # i /\ Ahead(j, i) =>
                          /\ reason[j] # "none" /\ j \notin scan
                          /\ reason[j] = "capacity" => ~Fits(j)
<1>1. ASSUME IInv, [Next]_vars PROVE InOrder
  <2>1. SUFFICES ASSUME NEW i \in running' \ running, NEW j \in Queued, j # i, Ahead(j, i)
                 PROVE  reason[j] # "none" /\ j \notin scan /\ (reason[j] = "capacity" => ~Fits(j))
    OBVIOUS
  <2>2. i \in Items /\ Select(i)
    BY <1>1, <2>1
    DEF Next, Pass, EndPump, DropInPass, SelectLate, Select, Waits, PollTimer, Shutdown, GraceOver,
        AbortWaitOver, Tick, Run, Cancel, QueueTimer, ExecutionTimer, Returns, Finalize, vars
  <2>3. j \in Items BY <1>1, QueuedItems DEF IInv, SchedulerSafe
  <2>4. pumping /\ \A k \in scan \ {i} : Ahead(i, k) BY <2>2 DEF Select, Selectable, Examines
  <2>5. TypeOK /\ Distinct(queue) BY <1>1 DEF IInv, SchedulerSafe, OnePlaceEach, Distinct
  <2>6. j \notin scan BY <2>1, <2>2, <2>3, <2>4, <2>5, AheadOneWay
  <2>7. QED BY <1>1, <2>4, <2>6 DEF IInv, PassOver
<1>2. QED BY <1>1, InitIInv, NextIInv, PTL DEF Spec, OrderRespected

-----------------------------------------------------------------------------
(* The write-scope locks: what overlaps *)

\* Two paths above one path are above each other.
LEMMA PrefixesOfOne ==
  ASSUME NEW S, NEW p \in Seq(S), NEW q \in Seq(S), NEW f \in Seq(S), IsPrefix(p, f), IsPrefix(q, f),
         Len(p) <= Len(q)
  PROVE  IsPrefix(p, q)
<1>1. Len(p) \in Nat /\ Len(q) \in Nat /\ Len(f) \in Nat BY LenProperties
<1>2. Len(p) <= Len(f) /\ SubSeq(p, 1, Len(p)) = SubSeq(f, 1, Len(p)) BY DEF IsPrefix
<1>3. Len(q) <= Len(f) /\ SubSeq(q, 1, Len(q)) = SubSeq(f, 1, Len(q)) BY DEF IsPrefix
<1>4. \A k \in 1..Len(q) : q[k] \in S /\ f[k] \in S BY <1>1, <1>3, ElementOfSeq
<1>5. \A k \in 1..Len(p) : p[k] \in S BY ElementOfSeq
<1>6. ASSUME NEW k \in 1..Len(p) PROVE q[k] = f[k]
  <2>1. q = SubSeq(f, 1, Len(q)) BY <1>3, SubSeqFull
  <2>2. k \in 1..Len(q) - 1 + 1 BY <1>1
  <2>3. SubSeq(f, 1, Len(q))[k] = f[1 + k - 1] BY <1>1, <1>4, <2>2, SubSeqProperties
  <2>4. QED BY <1>1, <2>1, <2>3
<1>7. ASSUME NEW k \in 1..Len(p) PROVE p[k] = f[k]
  <2>1. p = SubSeq(f, 1, Len(p)) BY <1>2, SubSeqFull
  <2>2. k \in 1..Len(p) - 1 + 1 /\ \A l \in 1..Len(p) : f[l] \in S BY <1>1, <1>4
  <2>3. SubSeq(f, 1, Len(p))[k] = f[1 + k - 1] BY <1>1, <2>2, SubSeqProperties
  <2>4. QED BY <1>1, <2>1, <2>3
<1>8. SubSeq(q, 1, Len(p)) = p
  <2>1. \A k \in 1..Len(p) : q[k] \in S BY <1>1, <1>4
  <2>2. /\ SubSeq(q, 1, Len(p)) \in Seq(S)
        /\ Len(SubSeq(q, 1, Len(p))) = IF 1 <= Len(p) THEN Len(p) - 1 + 1 ELSE 0
        /\ \A k \in 1..(Len(p) - 1 + 1) : SubSeq(q, 1, Len(p))[k] = q[1 + k - 1]
    BY <1>1, <2>1, SubSeqProperties
  <2>3. Len(SubSeq(q, 1, Len(p))) = Len(p) BY <1>1, <2>2
  <2>4. \A k \in 1..Len(p) : SubSeq(q, 1, Len(p))[k] = p[k] BY <1>1, <1>6, <1>7, <2>2
  <2>5. QED BY <2>2, <2>3, <2>4, SeqEqual
<1>9. QED BY <1>8, SubSeqFull DEF IsPrefix

\* scopesOverlap() does not mind which scope comes first.
LEMMA OverlapsBothWays ==
  ASSUME NEW c \in Calls, NEW d \in Calls
  PROVE  Conflict(c, d) <=> Conflict(d, c)
<1>1. ASSUME NEW l, NEW r, l.tree \in BOOLEAN, r.tree \in BOOLEAN PROVE Overlaps(l, r) <=> Overlaps(r, l)
  BY <1>1 DEF Overlaps
<1>2. QED BY <1>1, ScopeAssumption DEF Conflict

\* Scopes that do not overlap cover no common file.
LEMMA NothingShared ==
  ASSUME NEW c \in Calls, NEW d \in Calls, ~Conflict(c, d)
  PROVE  Covered(c) \cap Covered(d) = {}
<1>1. SUFFICES ASSUME NEW f \in Covered(c), f \in Covered(d) PROVE Conflict(c, d)
  OBVIOUS
<1>2. PICK l \in ScopesOf[c] : Covers(l, f) BY DEF Covered
<1>3. PICK r \in ScopesOf[d] : Covers(r, f) BY <1>1 DEF Covered
<1>4. l.path \in Seq(STRING) /\ l.tree \in BOOLEAN /\ r.path \in Seq(STRING) /\ r.tree \in BOOLEAN
  BY ScopeAssumption
<1> DEFINE Names == STRING \cup {"*"}
<1>5. f \in Seq(Names) /\ l.path \in Seq(Names) /\ r.path \in Seq(Names)
  <2>1. f \in Files BY DEF Covered
  <2>2. PICK s \in UNION {ScopesOf[e] : e \in Calls} : f \in {s.path, Append(s.path, "*")}
    BY <2>1 DEF Files
  <2>3. s.path \in Seq(Names) BY ScopeAssumption, SeqMonotonic
  <2>4. Append(s.path, "*") \in Seq(Names) BY <2>3, AppendProperties
  <2>5. QED BY <1>4, <2>2, <2>3, <2>4, SeqMonotonic
<1>6. \A p \in Seq(Names) : IsPrefix(p, p)
  <2>1. \A p \in Seq(Names) : Len(p) \in Nat BY LenProperties
  <2>2. QED BY <2>1 DEF IsPrefix
<1>7. CASE l.tree /\ r.tree
  <2>1. Len(l.path) \in Nat /\ Len(r.path) \in Nat BY <1>5, LenProperties
  <2>2. IsPrefix(l.path, f) /\ IsPrefix(r.path, f) BY <1>2, <1>3, <1>5, <1>6, <1>7 DEF Covers
  <2>3. Len(l.path) <= Len(r.path) => IsPrefix(l.path, r.path) BY <1>5, <2>2, PrefixesOfOne
  <2>4. Len(r.path) <= Len(l.path) => IsPrefix(r.path, l.path) BY <1>5, <2>2, PrefixesOfOne
  <2>5. IsPrefix(l.path, r.path) \/ IsPrefix(r.path, l.path) BY <2>1, <2>3, <2>4
  <2>6. QED BY <1>7, <2>5 DEF Overlaps, Within, Conflict
<1>8. CASE l.tree /\ ~r.tree
  <2>1. IsPrefix(l.path, r.path) BY <1>2, <1>3, <1>5, <1>6, <1>8 DEF Covers
  <2>2. QED BY <1>8, <2>1 DEF Overlaps, Within, Conflict
<1>9. CASE ~l.tree /\ r.tree
  <2>1. IsPrefix(r.path, l.path) BY <1>2, <1>3, <1>5, <1>6, <1>9 DEF Covers
  <2>2. QED BY <1>9, <2>1 DEF Overlaps, Within, Conflict
<1>10. CASE ~l.tree /\ ~r.tree
  <2>1. l.path = r.path BY <1>2, <1>3, <1>10 DEF Covers
  <2>2. QED BY <1>10, <2>1 DEF Overlaps, Conflict
<1>11. QED BY <1>4, <1>7, <1>8, <1>9, <1>10

-----------------------------------------------------------------------------
(* The mutex and the records *)

\* The calls of a dead process are dead, and of a living one at most one is in
\* tryAcquire, which is synchronous.
Synchronous ==
  /\ \A c \in Calls : step[c] = "dead" <=> ProcessOf[c] \notin alive
  /\ \A c, d \in Calls :
       ProcessOf[c] = ProcessOf[d] /\ step[c] \in Inside /\ step[d] \in Inside => c = d

\* A record is written by the call that created it, after it created it.
OwnRecord == \A c \in Calls :
  /\ step[c] = "write" => c \in records
  /\ step[c] \in (Inside \ {"keep"}) \cup {"idle"} => c \notin written

\* As long as no process has died, a mutex has its owner inside and is not stale,
\* so that nobody steals it.
NothingStolen == alive = Processes =>
  /\ mutex = "absent" \/ (mutex = "fresh" /\ \E c \in Calls : step[c] \in Critical)
  /\ \A c \in Calls : step[c] \notin {"stale", "remake"}
  /\ \A c \in Calls : step[c] \in Critical => mutex = "fresh"
  /\ OneInside

\* A call that scans has still to read the record of a holder whose scopes are
\* in its way, and one that writes its own record has none in its way.
Scanned == \A c, d \in Calls : c # d /\ Holds(d) =>
  /\ step[c] = "scan" => d \in todo[c] \/ ~Conflict(c, d)
  /\ step[c] = "write" \/ Holds(c) => ~Conflict(c, d)

RecordInv == LockTypeOK /\ Synchronous /\ OwnRecord /\ HeldRecordStays

\* Nobody has a lock at first.
LEMMA LockInitHolds ==
  ASSUME LockInit
  PROVE  RecordInv /\ NothingStolen /\ Scanned
<1> USE DEF LockInit
<1>1. LockTypeOK BY DEF LockTypeOK, Steps
<1>2. Synchronous BY LockAssumption DEF Synchronous, Inside
<1>3. OwnRecord /\ HeldRecordStays /\ Scanned BY DEF OwnRecord, HeldRecordStays, Scanned, Holds
<1>4. NothingStolen BY DEF NothingStolen, OneInside, Critical
<1>5. QED BY <1>1, <1>2, <1>3, <1>4 DEF RecordInv

\* Every step keeps the types.
LEMMA LockTypeStep ==
  ASSUME LockTypeOK, OwnRecord, [LockNext]_lockVars
  PROVE  LockTypeOK'
<1> USE DEF LockTypeOK, Go
<1>1. ASSUME NEW c \in Calls, Enter(c) \/ FindStale(c) \/ RemoveStale(c) \/ Remake(c) PROVE LockTypeOK'
  BY <1>1 DEF Enter, FindStale, RemoveStale, Remake, Steps, Inside
<1>2. ASSUME NEW c \in Calls, List(c) \/ Create(c) \/ Write(c) PROVE LockTypeOK'
  <2>1. CASE List(c) BY <2>1 DEF List, Steps, Inside
  <2>2. CASE Create(c) BY <2>2 DEF Create, Steps, Inside
  <2>3. CASE Write(c)
    <3>1. c \in records BY <2>3 DEF Write, OwnRecord
    <3>2. QED BY <2>3, <3>1 DEF Write, Steps, Inside
  <2>4. QED BY <1>2, <2>1, <2>2, <2>3
<1>3. ASSUME NEW c \in Calls, NEW d \in Calls, Read(c, d) PROVE LockTypeOK'
  <2>1. step' \in [Calls -> Steps] BY <1>3 DEF Read, Steps, Inside
  <2>2. todo' \in [Calls -> SUBSET Calls] BY <1>3 DEF Read
  <2>3. records' \subseteq Calls /\ written' \subseteq records' BY <1>3 DEF Read
  <2>4. QED BY <1>3, <2>1, <2>2, <2>3 DEF Read
<1>4. ASSUME NEW c \in Calls, Leave(c) \/ Release(c) \/ Expire(c) PROVE LockTypeOK'
  BY <1>4 DEF Leave, Release, Expire, Steps, Inside
<1>5. CASE Age BY <1>5 DEF Age
<1>6. ASSUME NEW p \in Processes, Crash(p) PROVE LockTypeOK' BY <1>6 DEF Crash, Steps
<1>7. CASE UNCHANGED lockVars BY <1>7 DEF lockVars
<1>8. QED BY <1>1, <1>2, <1>3, <1>4, <1>5, <1>6, <1>7 DEF LockNext, Attempt

\* tryAcquire is synchronous, and dying ends every call of the process.
LEMMA SynchronousStep ==
  ASSUME LockTypeOK, Synchronous, [LockNext]_lockVars
  PROVE  Synchronous'
<1> USE LockAssumption DEF LockTypeOK, Go
<1>1. ASSUME NEW c \in Calls, Enter(c) \/ FindStale(c) PROVE Synchronous'
  <2>1. ProcessOf[c] \in alive /\ alive' = alive BY <1>1 DEF Enter, FindStale, Alone
  <2>2. \A d \in Calls : d # c => step'[d] = step[d] BY <1>1 DEF Enter, FindStale
  <2>3. \A d \in Calls \ {c} : ProcessOf[d] = ProcessOf[c] => step[d] \notin Inside
    BY <1>1 DEF Enter, FindStale, Alone
  <2>4. step'[c] \in {"list", "stale"} BY <1>1 DEF Enter, FindStale
  <2>5. QED BY <2>1, <2>2, <2>3, <2>4 DEF Synchronous
<1>2. ASSUME NEW c \in Calls, step[c] \in Inside, alive' = alive, ProcessOf[c] \in alive,
             NEW s \in Steps \ {"dead"}, step' = step \/ step' = [step EXCEPT ![c] = s]
      PROVE  Synchronous'
  BY <1>2 DEF Synchronous
<1>3. ASSUME NEW c \in Calls, RemoveStale(c) \/ Remake(c) \/ List(c) PROVE Synchronous'
  <2>1. step[c] \in Inside /\ alive' = alive /\ ProcessOf[c] \in alive
    BY <1>3 DEF RemoveStale, Remake, List, Inside
  <2>2. \E s \in Steps \ {"dead"} : step' = [step EXCEPT ![c] = s]
    BY <1>3 DEF RemoveStale, Remake, List, Steps, Inside
  <2>3. QED BY <1>2, <2>1, <2>2
<1>4. ASSUME NEW c \in Calls, NEW d \in Calls, Read(c, d) PROVE Synchronous'
  <2>1. step[c] \in Inside /\ alive' = alive /\ ProcessOf[c] \in alive BY <1>4 DEF Read, Inside
  <2>2. step' = step \/ step' = [step EXCEPT ![c] = "refuse"] BY <1>4 DEF Read
  <2>3. "refuse" \in Steps \ {"dead"} BY DEF Steps, Inside
  <2>4. QED BY <1>2, <2>1, <2>2, <2>3
<1>5. ASSUME NEW c \in Calls, Create(c) \/ Write(c) \/ Leave(c) PROVE Synchronous'
  <2>1. step[c] \in Inside /\ alive' = alive /\ ProcessOf[c] \in alive
    BY <1>5 DEF Create, Write, Leave, Inside
  <2>2. \E s \in Steps \ {"dead"} : step' = [step EXCEPT ![c] = s]
    BY <1>5 DEF Create, Write, Leave, Steps, Inside
  <2>3. QED BY <1>2, <2>1, <2>2
<1>6. ASSUME NEW c \in Calls, Release(c) PROVE Synchronous'
  <2>1. ProcessOf[c] \in alive /\ alive' = alive /\ step' = [step EXCEPT ![c] = "released"]
    BY <1>6 DEF Release, Alone
  <2>2. "released" \notin Inside BY DEF Inside
  <2>3. QED BY <2>1, <2>2 DEF Synchronous
<1>7. ASSUME NEW c \in Calls, Expire(c) PROVE Synchronous' BY <1>7 DEF Expire, Synchronous
<1>8. CASE Age BY <1>8 DEF Age, Synchronous
<1>9. ASSUME NEW p \in Processes, Crash(p) PROVE Synchronous'
  <2>1. alive' = alive \ {p} BY <1>9 DEF Crash
  <2>2. \A c \in Calls : step'[c] = IF ProcessOf[c] = p THEN "dead" ELSE step[c] BY <1>9 DEF Crash
  <2>3. "dead" \notin Inside BY DEF Inside
  <2>4. QED BY <2>1, <2>2, <2>3 DEF Synchronous
<1>10. CASE UNCHANGED lockVars BY <1>10 DEF lockVars, Synchronous
<1>11. QED BY <1>1, <1>3, <1>4, <1>5, <1>6, <1>7, <1>8, <1>9, <1>10 DEF LockNext, Attempt

\* Who removes a record read it, complete, and it had expired or its writer was dead.
LEMMA RemovedByReading ==
  ASSUME NEW c \in Calls, NEW d \in Calls, Read(c, d)
  PROVE  /\ \A e \in Calls : e \in written \ written' =>
                e = d /\ (e \in expired \/ ProcessOf[e] \notin alive)
         /\ \A e \in Calls : e \in records \ records' => e = d /\ e \in written
         /\ written' \subseteq written /\ expired' = expired /\ alive' = alive
         /\ step' = step \/ step' = [step EXCEPT ![c] = "refuse"]
BY DEF Read, Unreadable, Reclaimable, Go

\* Each call writes its own record, once, and nobody removes it before it expires
\* or the process dies.
LEMMA RecordStep ==
  ASSUME RecordInv, [LockNext]_lockVars
  PROVE  RecordInv'
<1> USE DEF LockTypeOK, Go, RecordInv
<1>1. LockTypeOK' BY LockTypeStep
<1>2. Synchronous' BY SynchronousStep
<1>3. ASSUME NEW c \in Calls, Enter(c) \/ FindStale(c) \/ RemoveStale(c) \/ Remake(c) \/ List(c)
      PROVE  OwnRecord' /\ HeldRecordStays'
  <2>1. records' = records /\ written' = written /\ expired' = expired
    BY <1>3 DEF Enter, FindStale, RemoveStale, Remake, List
  <2>2. \A d \in Calls : d # c => step'[d] = step[d]
    BY <1>3 DEF Enter, FindStale, RemoveStale, Remake, List
  <2>3. step'[c] \in {"list", "stale", "remake", "idle", "scan"}
    BY <1>3 DEF Enter, FindStale, RemoveStale, Remake, List
  <2>4. c \notin written
    BY <1>3 DEF Enter, FindStale, RemoveStale, Remake, List, OwnRecord, Inside
  <2>5. OwnRecord' BY <2>1, <2>2, <2>3, <2>4 DEF OwnRecord, Inside
  <2>6. QED BY <2>1, <2>2, <2>3, <2>5 DEF HeldRecordStays, Holds
<1>4. ASSUME NEW c \in Calls, NEW d \in Calls, Read(c, d) PROVE OwnRecord' /\ HeldRecordStays'
  <2>1. /\ \A e \in Calls : e \in written \ written' =>
                e = d /\ (e \in expired \/ ProcessOf[e] \notin alive)
        /\ \A e \in Calls : e \in records \ records' => e = d /\ e \in written
        /\ written' \subseteq written /\ expired' = expired /\ alive' = alive
        /\ step' = step \/ step' = [step EXCEPT ![c] = "refuse"]
    BY <1>4, RemovedByReading
  <2>2. step[c] = "scan" BY <1>4 DEF Read
  <2>3. \A e \in Calls : step'[e] = step[e] \/ (e = c /\ step'[e] = "refuse") BY <2>1
  <2>4. OwnRecord' BY <2>1, <2>2, <2>3 DEF OwnRecord, Inside
  <2>5. ASSUME NEW e \in Calls, Holds(e)' PROVE e \in written'
    <3>1. step[e] \in {"keep", "holding"} /\ e \notin expired BY <2>1, <2>3, <2>5 DEF Holds
    <3>2. e \in written /\ ProcessOf[e] \in alive BY <3>1 DEF HeldRecordStays, Holds, Synchronous
    <3>3. QED BY <2>1, <3>1, <3>2
  <2>6. QED BY <2>4, <2>5 DEF HeldRecordStays
<1>5. ASSUME NEW c \in Calls, Create(c) PROVE OwnRecord' /\ HeldRecordStays'
  <2>1. step[c] = "scan" /\ records' = records \cup {c} /\ written' = written /\ expired' = expired
        /\ step' = [step EXCEPT ![c] = "write"]
    BY <1>5 DEF Create
  <2>2. QED BY <2>1 DEF OwnRecord, HeldRecordStays, Holds, Inside
<1>6. ASSUME NEW c \in Calls, Write(c) PROVE OwnRecord' /\ HeldRecordStays'
  <2>1. records' = records /\ written' = written \cup {c} /\ expired' = expired
        /\ step' = [step EXCEPT ![c] = "keep"]
    BY <1>6 DEF Write
  <2>2. QED BY <2>1 DEF OwnRecord, HeldRecordStays, Holds, Inside
<1>7. ASSUME NEW c \in Calls, Leave(c) PROVE OwnRecord' /\ HeldRecordStays'
  <2>1. records' = records /\ written' = written /\ expired' = expired
        /\ \/ step[c] = "keep" /\ step' = [step EXCEPT ![c] = "holding"]
           \/ step[c] = "refuse" /\ step' = [step EXCEPT ![c] = "idle"]
    BY <1>7 DEF Leave
  <2>2. QED BY <2>1 DEF OwnRecord, HeldRecordStays, Holds, Inside
<1>8. ASSUME NEW c \in Calls, Release(c) PROVE OwnRecord' /\ HeldRecordStays'
  <2>1. step[c] = "holding" /\ records' = records \ {c} /\ written' = written \ {c}
        /\ expired' = expired /\ step' = [step EXCEPT ![c] = "released"]
    BY <1>8 DEF Release
  <2>2. QED BY <2>1 DEF OwnRecord, HeldRecordStays, Holds, Inside
<1>9. ASSUME NEW c \in Calls, Expire(c) PROVE OwnRecord' /\ HeldRecordStays'
  BY <1>9 DEF Expire, OwnRecord, HeldRecordStays, Holds
<1>10. ASSUME Age PROVE OwnRecord' /\ HeldRecordStays'
  BY <1>10 DEF Age, OwnRecord, HeldRecordStays, Holds
<1>11. ASSUME NEW p \in Processes, Crash(p) PROVE OwnRecord' /\ HeldRecordStays'
  <2>1. \A c \in Calls : step'[c] = step[c] \/ step'[c] = "dead" BY <1>11 DEF Crash
  <2>2. records' = records /\ written' = written /\ expired' = expired BY <1>11 DEF Crash
  <2>3. QED BY <2>1, <2>2 DEF OwnRecord, HeldRecordStays, Holds, Inside
<1>12. ASSUME UNCHANGED lockVars PROVE OwnRecord' /\ HeldRecordStays'
  BY <1>12 DEF lockVars, OwnRecord, HeldRecordStays, Holds
<1>13. OwnRecord' /\ HeldRecordStays'
  BY <1>3, <1>4, <1>5, <1>6, <1>7, <1>8, <1>9, <1>10, <1>11, <1>12 DEF LockNext, Attempt
<1>14. QED BY <1>1, <1>2, <1>13

\* The record of a task that holds its locks, in a process that lives, is there until
\* the record expires: between any number of processes, whichever die or are suspended
\* in the middle of tryAcquire.
THEOREM HeldRecordsStay == LockSpec => [](LockTypeOK /\ HeldRecordStays)
<1>1. LockInit => RecordInv BY LockInitHolds
<1>2. RecordInv /\ [LockNext]_lockVars => RecordInv' BY RecordStep
<1>3. RecordInv => LockTypeOK /\ HeldRecordStays BY DEF RecordInv
<1>4. QED BY <1>1, <1>2, <1>3, PTL DEF LockSpec

-----------------------------------------------------------------------------
(* The scan of the records, as long as one call at a time is in the mutex *)

\* Nobody acquires scopes that overlap the scopes of a holder: it has read the
\* holder's record, which stays, and no record is written while it scans.
LEMMA ScannedStep ==
  ASSUME RecordInv, RecordInv', OneInside, Scanned, [LockNext]_lockVars
  PROVE  Scanned'
<1> USE DEF LockTypeOK, Go, RecordInv
<1>1. ASSUME \A d \in Calls : Holds(d)' => Holds(d),
             \A c \in Calls : (step'[c] = step[c] /\ todo'[c] = todo[c])
                              \/ (step'[c] \notin {"scan", "write", "keep", "holding"})
      PROVE  Scanned'
  <2>1. SUFFICES ASSUME NEW a \in Calls, NEW b \in Calls, a # b, Holds(b)'
                 PROVE  /\ step'[a] = "scan" => b \in todo'[a] \/ ~Conflict(a, b)
                        /\ step'[a] = "write" \/ Holds(a)' => ~Conflict(a, b)
    BY DEF Scanned
  <2>2. Holds(b) BY <1>1, <2>1
  <2>3. Holds(a)' => Holds(a) BY <1>1
  <2>4. QED BY <1>1, <2>1, <2>2, <2>3 DEF Scanned
<1>2. ASSUME NEW c \in Calls, Enter(c) \/ FindStale(c) \/ RemoveStale(c) \/ Remake(c) PROVE Scanned'
  <2>1. \A d \in Calls : d # c => step'[d] = step[d]
    BY <1>2 DEF Enter, FindStale, RemoveStale, Remake
  <2>2. step'[c] \in {"list", "stale", "remake", "idle"}
    BY <1>2 DEF Enter, FindStale, RemoveStale, Remake
  <2>3. expired' = expired /\ todo' = todo BY <1>2 DEF Enter, FindStale, RemoveStale, Remake
  <2>4. QED BY <1>1, <2>1, <2>2, <2>3 DEF Holds
<1>3. ASSUME NEW c \in Calls, List(c) PROVE Scanned'
  <2>1. /\ step[c] = "list" /\ step' = [step EXCEPT ![c] = "scan"] /\ expired' = expired
        /\ todo' = [todo EXCEPT ![c] = records]
    BY <1>3 DEF List
  <2>2. \A d \in Calls : Holds(d)' <=> Holds(d) BY <2>1 DEF Holds
  <2>3. \A d \in Calls : Holds(d) => d \in records BY DEF HeldRecordStays
  <2>4. QED BY <2>1, <2>2, <2>3 DEF Scanned, Holds
<1>4. ASSUME NEW c \in Calls, NEW e \in Calls, Read(c, e) PROVE Scanned'
  <2>1. step[c] = "scan" /\ expired' = expired BY <1>4 DEF Read
  <2>2. step' = step \/ step' = [step EXCEPT ![c] = "refuse"] BY <1>4, RemovedByReading
  <2>3. \A d \in Calls : Holds(d)' <=> Holds(d) BY <2>1, <2>2 DEF Holds
  <2>4. \A d \in Calls : d # c => step'[d] = step[d] /\ todo'[d] = todo[d] BY <1>4, <2>2 DEF Read
  <2>5. step'[c] = "scan" => todo'[c] = todo[c] \ {e} BY <1>4 DEF Read
  <2>6. step'[c] = "scan" /\ Holds(e) => ~Conflict(c, e)
    <3>1. Holds(e) => e \in written /\ e \notin expired /\ ProcessOf[e] \in alive
      BY DEF Holds, HeldRecordStays, Synchronous
    <3>2. QED BY <1>4, <3>1 DEF Read, Unreadable, Reclaimable
  <2>7. step'[c] \notin {"write", "keep", "holding"} BY <2>1, <2>2
  <2>8. QED BY <2>1, <2>3, <2>4, <2>5, <2>6, <2>7 DEF Scanned, Holds
<1>5. ASSUME NEW c \in Calls, Create(c) PROVE Scanned'
  <2>1. /\ step[c] = "scan" /\ step' = [step EXCEPT ![c] = "write"] /\ expired' = expired
        /\ todo' = todo /\ todo[c] = {}
    BY <1>5 DEF Create
  <2>2. \A d \in Calls : Holds(d)' <=> Holds(d) BY <2>1 DEF Holds
  <2>3. QED BY <2>1, <2>2 DEF Scanned, Holds
<1>6. ASSUME NEW c \in Calls, Write(c) PROVE Scanned'
  <2>1. /\ step[c] = "write" /\ step' = [step EXCEPT ![c] = "keep"] /\ expired' = expired
        /\ todo' = todo
    BY <1>6 DEF Write
  <2>2. \A d \in Calls : d # c => (Holds(d)' <=> Holds(d)) BY <2>1 DEF Holds
  <2>3. \A d \in Calls : d # c => step[d] \notin {"scan", "write"}
    BY <2>1 DEF OneInside, Critical
  <2>4. \A d \in Calls : d # c /\ Holds(d) => ~Conflict(c, d) /\ ~Conflict(d, c)
    BY <2>1, OverlapsBothWays DEF Scanned
  <2>5. \A d \in Calls : d # c => step'[d] = step[d] BY <2>1
  <2>6. step'[c] = "keep" BY <2>1
  <2>7. ASSUME NEW a \in Calls, NEW b \in Calls, a # b, Holds(b)'
        PROVE  (step'[a] = "scan" => b \in todo'[a] \/ ~Conflict(a, b))
               /\ (step'[a] = "write" \/ Holds(a)' => ~Conflict(a, b))
    <3>1. CASE a = c BY <2>2, <2>4, <2>6, <2>7, <3>1
    <3>2. CASE b = c BY <2>2, <2>3, <2>4, <2>5, <2>7, <3>2
    <3>3. CASE a # c /\ b # c BY <2>1, <2>2, <2>5, <2>7, <3>3 DEF Scanned
    <3>4. QED BY <3>1, <3>2, <3>3
  <2>8. QED BY <2>7 DEF Scanned
<1>7. ASSUME NEW c \in Calls, Leave(c) PROVE Scanned'
  <2>1. /\ expired' = expired /\ todo' = todo
        /\ \/ step[c] = "keep" /\ step' = [step EXCEPT ![c] = "holding"]
           \/ step[c] = "refuse" /\ step' = [step EXCEPT ![c] = "idle"]
    BY <1>7 DEF Leave
  <2>2. \A d \in Calls : Holds(d)' <=> Holds(d) BY <2>1 DEF Holds
  <2>3. \A d \in Calls : step'[d] \in {"scan", "write"} => step'[d] = step[d] BY <2>1
  <2>4. QED BY <2>1, <2>2, <2>3 DEF Scanned
<1>8. ASSUME NEW c \in Calls, Release(c) PROVE Scanned'
  <2>1. expired' = expired /\ todo' = todo /\ step' = [step EXCEPT ![c] = "released"]
    BY <1>8 DEF Release
  <2>2. QED BY <1>1, <2>1 DEF Holds
<1>9. ASSUME NEW c \in Calls, Expire(c) PROVE Scanned'
  <2>1. expired \subseteq expired' /\ todo' = todo /\ step' = step BY <1>9 DEF Expire
  <2>2. QED BY <1>1, <2>1 DEF Holds
<1>10. CASE Age BY <1>10 DEF Age, Scanned, Holds
<1>11. ASSUME NEW p \in Processes, Crash(p) PROVE Scanned'
  <2>1. \A c \in Calls : (step'[c] = step[c] /\ todo'[c] = todo[c]) \/ step'[c] = "dead"
    BY <1>11 DEF Crash
  <2>2. expired' = expired BY <1>11 DEF Crash
  <2>3. QED BY <1>1, <2>1, <2>2 DEF Holds
<1>12. CASE UNCHANGED lockVars BY <1>12 DEF lockVars, Scanned, Holds
<1>13. QED
  BY <1>2, <1>3, <1>4, <1>5, <1>6, <1>7, <1>8, <1>9, <1>10, <1>11, <1>12 DEF LockNext, Attempt

\* Calls whose scopes do not overlap cover no common file.
LEMMA HoldersApart ==
  ASSUME Scanned
  PROVE  ExclusiveScopes
BY NothingShared DEF Scanned, ExclusiveScopes

\* The mutex is all that the records need: whatever the number of processes, if
\* never two attempts are between taking it and giving it back, then scopes that
\* are held together cover no common file.
THEOREM MutexIsEnough == LockSpec /\ []OneInside => []ExclusiveScopes
<1>1. LockInit => RecordInv /\ Scanned BY LockInitHolds
<1>2. RecordInv /\ [LockNext]_lockVars => RecordInv' BY RecordStep
<1>3. RecordInv /\ RecordInv' /\ OneInside /\ Scanned /\ [LockNext]_lockVars => Scanned'
  BY ScannedStep
<1>4. Scanned => ExclusiveScopes BY HoldersApart
<1>5. QED BY <1>1, <1>2, <1>3, <1>4, PTL DEF LockSpec

-----------------------------------------------------------------------------
(* Two processes, none of them suspended for 10 seconds inside tryAcquire *)

AtMostTwo == \A p, q, r \in Processes : p = q \/ q = r \/ p = r

\* While both live, the mutex does not get old, for its owner is about to remove it.
LEMMA NotStolenStep ==
  ASSUME ~Stalls, LockTypeOK, Synchronous, NothingStolen, [LockNext]_lockVars
  PROVE  NothingStolen'
<1> USE DEF LockTypeOK, Go
<1>1. SUFFICES ASSUME alive' = Processes
               PROVE  /\ mutex' = "absent" \/ (mutex' = "fresh" /\ \E c \in Calls : step'[c] \in Critical)
                      /\ \A c \in Calls : step'[c] \notin {"stale", "remake"}
                      /\ \A c \in Calls : step'[c] \in Critical => mutex' = "fresh"
                      /\ OneInside'
  BY DEF NothingStolen
<1>2. ASSUME NEW p \in Processes, Crash(p) PROVE FALSE BY <1>1, <1>2 DEF Crash
<1>3. alive = Processes
  <2>1. alive' = alive
    BY <1>2 DEF LockNext, Attempt, Enter, FindStale, RemoveStale, Remake, List, Read, Create, Write,
                Leave, Release, Expire, Age, lockVars
  <2>2. QED BY <1>1, <2>1
<1>4. /\ mutex = "absent" \/ (mutex = "fresh" /\ \E c \in Calls : step[c] \in Critical)
      /\ \A c \in Calls : step[c] \notin {"stale", "remake"}
      /\ \A c \in Calls : step[c] \in Critical => mutex = "fresh"
      /\ OneInside
  BY <1>3 DEF NothingStolen
<1>5. ASSUME NEW c \in Calls, Enter(c) PROVE NothingStolen'
  <2>1. mutex = "absent" /\ mutex' = "fresh" /\ step' = [step EXCEPT ![c] = "list"]
    BY <1>5 DEF Enter
  <2>2. \A d \in Calls : step[d] \notin Critical BY <1>4, <2>1
  <2>3. "list" \in Critical BY DEF Critical
  <2>4. step'[c] = "list" /\ \A d \in Calls : d # c => step'[d] = step[d] BY <2>1
  <2>5. QED BY <1>4, <2>1, <2>2, <2>3, <2>4 DEF NothingStolen, OneInside
<1>6. ASSUME NEW c \in Calls, FindStale(c) \/ RemoveStale(c) \/ Remake(c) PROVE FALSE
  BY <1>4, <1>6 DEF FindStale, RemoveStale, Remake
<1>7. ASSUME NEW c \in Calls, step[c] \in Critical, mutex' = mutex,
             NEW s \in Critical, step' = step \/ step' = [step EXCEPT ![c] = s]
      PROVE  NothingStolen'
  <2>1. step'[c] \in Critical /\ \A d \in Calls : d # c => step'[d] = step[d] BY <1>7
  <2>2. \A d \in Calls : step'[d] \in Critical <=> step[d] \in Critical BY <1>7, <2>1
  <2>3. \A d \in Calls : step'[d] \notin {"stale", "remake"} BY <1>4, <2>1 DEF Critical
  <2>4. QED BY <1>4, <1>7, <2>1, <2>2, <2>3 DEF NothingStolen, OneInside
<1>8. ASSUME NEW c \in Calls, NEW d \in Calls, Read(c, d) PROVE NothingStolen'
  <2>1. step[c] \in Critical /\ mutex' = mutex /\ "refuse" \in Critical BY <1>8 DEF Read, Critical
  <2>2. step' = step \/ step' = [step EXCEPT ![c] = "refuse"] BY <1>8, RemovedByReading
  <2>3. QED BY <1>7, <2>1, <2>2
<1>9. ASSUME NEW c \in Calls, List(c) \/ Create(c) \/ Write(c) PROVE NothingStolen'
  <2>1. step[c] \in Critical /\ mutex' = mutex BY <1>9 DEF List, Create, Write, Critical
  <2>2. \E s \in Critical : step' = [step EXCEPT ![c] = s] BY <1>9 DEF List, Create, Write, Critical
  <2>3. QED BY <1>7, <2>1, <2>2
<1>10. ASSUME NEW c \in Calls, Leave(c) PROVE NothingStolen'
  <2>1. step[c] \in Critical /\ mutex' = "absent" BY <1>10 DEF Leave, Critical
  <2>2. \E s \in {"holding", "idle"} : step' = [step EXCEPT ![c] = s] BY <1>10 DEF Leave
  <2>3. step'[c] \notin Critical /\ step'[c] \notin {"stale", "remake"} BY <2>2 DEF Critical
  <2>4. \A d \in Calls : d # c => step'[d] = step[d] BY <2>2
  <2>5. \A d \in Calls : d # c => step'[d] \notin Critical BY <1>4, <2>1, <2>4 DEF OneInside
  <2>6. QED BY <1>4, <2>1, <2>3, <2>4, <2>5 DEF NothingStolen, OneInside
<1>11. ASSUME NEW c \in Calls, Release(c) PROVE NothingStolen'
  <2>1. mutex' = mutex /\ step[c] = "holding" /\ step' = [step EXCEPT ![c] = "released"]
    BY <1>11 DEF Release
  <2>2. \A d \in Calls : step'[d] \in Critical <=> step[d] \in Critical BY <2>1 DEF Critical
  <2>3. \A d \in Calls : step'[d] \notin {"stale", "remake"} BY <1>4, <2>1
  <2>4. QED BY <1>4, <2>1, <2>2, <2>3 DEF NothingStolen, OneInside
<1>12. ASSUME NEW c \in Calls, Expire(c) PROVE NothingStolen'
  BY <1>4, <1>12 DEF Expire, NothingStolen, OneInside
<1>13. ASSUME Age PROVE FALSE BY <1>4, <1>13 DEF Age
<1>14. ASSUME UNCHANGED lockVars PROVE NothingStolen' BY <1>4, <1>14 DEF lockVars, NothingStolen, OneInside
<1>15. NothingStolen'
  BY <1>2, <1>5, <1>6, <1>8, <1>9, <1>10, <1>11, <1>12, <1>13, <1>14 DEF LockNext, Attempt
<1>16. QED BY <1>1, <1>15 DEF NothingStolen

LockInv == RecordInv /\ NothingStolen /\ Scanned

\* Once one has died, the calls that are left belong to one process, in which
\* tryAcquire runs for one at a time.
LEMMA AloneInTheMutex ==
  ASSUME AtMostTwo, LockTypeOK, Synchronous, NothingStolen
  PROVE  OneInside
<1>1. CASE alive = Processes BY <1>1 DEF NothingStolen
<1>2. CASE alive # Processes
  <2>1. PICK p \in Processes : p \notin alive BY <1>2 DEF LockTypeOK
  <2>2. ASSUME NEW c \in Calls, NEW d \in Calls, step[c] \in Critical, step[d] \in Critical PROVE c = d
    <3>1. step[c] # "dead" /\ step[d] # "dead" /\ step[c] \in Inside /\ step[d] \in Inside
      BY <2>2 DEF Critical, Inside
    <3>2. ProcessOf[c] \in alive /\ ProcessOf[d] \in alive BY <3>1 DEF Synchronous
    <3>3. ProcessOf[c] \in Processes /\ ProcessOf[d] \in Processes BY LockAssumption
    <3>4. ProcessOf[c] = ProcessOf[d] BY <2>1, <3>2, <3>3 DEF AtMostTwo
    <3>5. QED BY <3>1, <3>4 DEF Synchronous
  <2>3. QED BY <2>2 DEF OneInside
<1>3. QED BY <1>1, <1>2

\* Between two processes that may die in any file operation, however many tasks each
\* runs and whatever scopes they ask for: one attempt at a time is in the mutex, the
\* record of a live holder stays, and scopes held together cover no common file.
THEOREM LocksAreHeld ==
  ASSUME ~Stalls, AtMostTwo
  PROVE  LockSpec => []LocksHold
<1>1. LockInit => LockInv BY LockInitHolds DEF LockInv
<1>2. LockInv /\ [LockNext]_lockVars => LockInv'
  <2>1. SUFFICES ASSUME LockInv, [LockNext]_lockVars PROVE LockInv' OBVIOUS
  <2>2. RecordInv' BY <2>1, RecordStep DEF LockInv
  <2>3. NothingStolen' BY <2>1, NotStolenStep DEF RecordInv, LockInv
  <2>4. OneInside BY <2>1, AloneInTheMutex DEF RecordInv, LockInv
  <2>5. Scanned' BY <2>1, <2>2, <2>4, ScannedStep DEF LockInv
  <2>6. QED BY <2>2, <2>3, <2>5 DEF LockInv
<1>3. LockInv => LocksHold BY AloneInTheMutex, HoldersApart DEF LocksHold, RecordInv, LockInv
<1>4. QED BY <1>1, <1>2, <1>3, PTL DEF LockSpec

\* A step of the files that is not about the locks leaves them alone.
LEMMA FilesStepsAreLockSteps == [FilesNext]_allVars => [LockNext]_lockVars
BY DEF FilesNext, About, allVars, lockVars

\* The same of the locks beside the index of the code, as the run has them.
THEOREM LocksOfTheHostAreHeld ==
  ASSUME ~Stalls, AtMostTwo
  PROVE  FilesSpec => []LocksHold
<1>1. FilesInit => LockInit BY DEF FilesInit
<1>2. [FilesNext]_allVars => [LockNext]_lockVars BY FilesStepsAreLockSteps
<1>3. FilesSpec => LockSpec BY <1>1, <1>2, PTL DEF FilesSpec, LockSpec
<1>4. LockSpec => []LocksHold BY LocksAreHeld
<1>5. QED BY <1>3, <1>4
=============================================================================
