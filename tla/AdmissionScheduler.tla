------------------------- MODULE AdmissionScheduler -------------------------
(***************************************************************************)
(* The resource-aware executor of extensions/admission-scheduler.js.       *)
(*                                                                         *)
(* JavaScript runs one callback at a time. A scheduling pass (pump) is one *)
(* callback that examines the queue item by item: the variable scan holds  *)
(* what it has still to examine, and no other callback runs meanwhile.     *)
(* Memory stands for both additive resources (memory and CPU are accounted *)
(* by the same code). What the environment decides, the dependency gate,   *)
(* free host memory and other processes' locks, is nondeterministic.       *)
(***************************************************************************)
EXTENDS Integers, Sequences, FiniteSets, SequencesExt

CONSTANTS
  Items,            \* calls of run(), each made at most once
  Providers,
  ProviderOf, MemoryOf, PriorityOf,   \* what an item asks for
  GateOf,           \* does the item have a dependency gate (canRun)?
  ScopeOf,          \* the write scope an item locks, or None
  ProviderCap, MemoryCapacity, MaxConcurrency, MaxQueue,
  Aging,            \* waiting time that raises the priority by one
  QueueTimeout,
  MaxClock,         \* bound on the modelled clock
  None

ASSUME ItemAssumption ==
  /\ ProviderOf \in [Items -> Providers]
  /\ MemoryOf \in [Items -> Nat]
  /\ PriorityOf \in [Items -> 0..9]
  /\ GateOf \in [Items -> BOOLEAN]
ASSUME CapacityAssumption ==
  /\ ProviderCap \in [Providers -> Nat]
  /\ {MemoryCapacity, MaxConcurrency, MaxQueue, MaxClock} \subseteq Nat
  /\ Aging \in Nat \ {0} /\ QueueTimeout \in Nat \ {0}

VARIABLES
  clock,
  accepting,
  queue,       \* the array this.queue: items in order of arrival
  enqueued,    \* clock when the item was queued
  reason,      \* why a queued item waits, as last reported by onWaiting
  running,     \* items whose function was started and has not returned
  settling,    \* items that have answered and still occupy their capacity
  answered,    \* items whose promise was resolved or rejected
  locks,       \* items that hold their write scope
  cancelled,   \* unanswered items whose parent signal is aborted
  timedOut,    \* running items whose execution timer fired
  aborted,     \* running items whose controller is aborted
  active, activeMemory, activeBy,   \* the executor's counters
  poll,        \* is the poll timer armed?
  pumping, scan,
  stop         \* progress of shutdown()

book == <<active, activeMemory, activeBy>>
signals == <<cancelled, timedOut, aborted>>
vars == <<clock, accepting, queue, enqueued, reason, running, settling, answered, locks,
          signals, book, poll, pumping, scan, stop>>

Occupying == running \cup settling
Queued == Range(queue)
Reasons == {"none", "capacity", "environment", "write_lock"}

TypeOK ==
  /\ clock \in 0..MaxClock
  /\ accepting \in BOOLEAN
  /\ queue \in Seq(Items)
  /\ enqueued \in [Items -> 0..MaxClock]
  /\ reason \in [Items -> Reasons]
  /\ running \subseteq Items /\ settling \subseteq Items /\ answered \subseteq Items
  /\ locks \subseteq Items
  /\ cancelled \subseteq Items /\ timedOut \subseteq Items /\ aborted \subseteq Items
  /\ active \in Int /\ activeMemory \in Int /\ activeBy \in [Providers -> Int]
  /\ poll \in BOOLEAN /\ pumping \in BOOLEAN
  /\ scan \subseteq Queued
  /\ stop \in {"no", "grace", "abort", "graceful", "forced"}

Init ==
  /\ clock = 0 /\ accepting = TRUE
  /\ queue = <<>>
  /\ running = {} /\ settling = {} /\ answered = {} /\ locks = {}
  /\ enqueued = [i \in Items |-> 0] /\ reason = [i \in Items |-> "none"]
  /\ cancelled = {} /\ timedOut = {} /\ aborted = {}
  /\ active = 0 /\ activeMemory = 0 /\ activeBy = [p \in Providers |-> 0]
  /\ poll = FALSE /\ pumping = FALSE /\ scan = {}
  /\ stop = "no"

-----------------------------------------------------------------------------
(* Helpers *)

Deadline(i) == enqueued[i] + QueueTimeout
Lower(a, b) == IF a < b THEN a ELSE b
EffectivePriority(i) == Lower(9, PriorityOf[i] + (clock - enqueued[i]) \div Aging)
ArrivedBefore(i, j) == \E m, n \in DOMAIN queue : m < n /\ queue[m] = i /\ queue[n] = j

\* The order in which a pass examines the queue.
Ahead(i, j) ==
  \/ EffectivePriority(i) > EffectivePriority(j)
  \/ EffectivePriority(i) = EffectivePriority(j) /\ ArrivedBefore(i, j)

\* Mutant: the provider limit is compared with <=.
FitsOneMore(i) ==
  /\ active < MaxConcurrency
  /\ activeBy[ProviderOf[i]] <= ProviderCap[ProviderOf[i]]
  /\ activeMemory + MemoryOf[i] <= MemoryCapacity

Fits(i) ==
  /\ active < MaxConcurrency
  /\ activeBy[ProviderOf[i]] < ProviderCap[ProviderOf[i]]
  /\ activeMemory + MemoryOf[i] <= MemoryCapacity

ScopeHeld(i) == \E j \in locks : ScopeOf[j] = ScopeOf[i]

\* Out of the array; what was only of use there is forgotten.
Unqueue(i) ==
  /\ queue' = RemoveFirst(queue, i)
  /\ enqueued' = [enqueued EXCEPT ![i] = 0]
  /\ reason' = [reason EXCEPT ![i] = "none"]

Settle(S) == answered' = answered \cup S /\ cancelled' = cancelled \ S

\* removeQueued(): out of the queue, and rejected.
RemoveQueued(i) == Unqueue(i) /\ scan' = scan \ {i} /\ Settle({i})

\* pump() starts over the whole queue.
StartPump(q) == pumping' = TRUE /\ scan' = Range(q)

-----------------------------------------------------------------------------
(* Callbacks of the clients *)

Reject(i) == Settle({i}) /\ UNCHANGED <<queue, enqueued, pumping, scan>>

Enqueue(i) ==
  /\ clock + QueueTimeout <= MaxClock   \* bound: deadlines stay within the clock
  /\ queue' = Append(queue, i)
  /\ enqueued' = [enqueued EXCEPT ![i] = clock]
  /\ StartPump(queue')
  /\ UNCHANGED <<answered, cancelled>>

Run(i) ==
  /\ ~pumping /\ i \notin Queued \cup running \cup answered
  /\ IF ~accepting \/ i \in cancelled \/ Len(queue) >= MaxQueue THEN Reject(i) ELSE Enqueue(i)
  /\ UNCHANGED <<clock, accepting, reason, running, settling, locks, timedOut, aborted, book,
                 poll, stop>>

\* The caller aborts: a queued item leaves the queue, a running one is told.
Cancel(i) ==
  /\ ~pumping /\ i \notin answered \cup cancelled
  /\ IF i \in Queued THEN RemoveQueued(i) /\ UNCHANGED aborted
     ELSE /\ cancelled' = cancelled \cup {i}
          /\ aborted' = IF i \in running THEN aborted \cup {i} ELSE aborted
          /\ UNCHANGED <<queue, enqueued, reason, scan, answered>>
  /\ UNCHANGED <<clock, accepting, running, settling, locks, timedOut, book, poll, pumping, stop>>

\* Mutant: the timer is dropped once the item has been examined.
QueueTimerUnexamined(i) ==
  /\ ~pumping /\ i \in Queued /\ clock >= Deadline(i) /\ reason[i] = "none"
  /\ RemoveQueued(i)
  /\ UNCHANGED <<clock, accepting, running, settling, locks, timedOut, aborted, book, poll,
                 pumping, stop>>

QueueTimer(i) ==
  /\ ~pumping /\ i \in Queued /\ clock >= Deadline(i)
  /\ RemoveQueued(i)
  /\ UNCHANGED <<clock, accepting, running, settling, locks, timedOut, aborted, book, poll,
                 pumping, stop>>

PollTimer ==
  /\ ~pumping /\ poll
  /\ poll' = FALSE
  /\ StartPump(queue)
  /\ UNCHANGED <<clock, accepting, queue, enqueued, reason, running, settling, answered, locks,
                 signals, book, stop>>

-----------------------------------------------------------------------------
(* One scheduling pass: nextRunnable() examines the items in order.        *)

\* Mutant: the queue is examined in order of arrival.
ExaminesArrival(i) == pumping /\ i \in scan /\ \A j \in scan \ {i} : ArrivedBefore(i, j)

Examines(i) == pumping /\ i \in scan /\ \A j \in scan \ {i} : Ahead(i, j)

\* The deadline has passed, or the item's gate, lock or observer threw.
DropInPass(i) ==
  /\ Examines(i)
  /\ clock >= Deadline(i) \/ GateOf[i]
  /\ RemoveQueued(i)
  /\ UNCHANGED <<clock, accepting, running, settling, locks, timedOut, aborted, book, poll,
                 pumping, stop>>

Waits(i, r) ==
  /\ Examines(i) /\ clock < Deadline(i)
  /\ \/ r = "capacity" /\ ~Fits(i)
     \/ r = "environment" /\ Fits(i)      \* gate closed, or host memory short
     \/ r = "write_lock" /\ Fits(i) /\ ScopeOf[i] # None
  /\ reason' = [reason EXCEPT ![i] = r]
  /\ scan' = scan \ {i}
  /\ UNCHANGED <<clock, accepting, queue, enqueued, running, settling, answered, locks, signals,
                 book, poll, pumping, stop>>

Selectable(i) ==
  /\ Examines(i) /\ clock < Deadline(i)
  /\ Fits(i)
  /\ ScopeOf[i] # None => ~ScopeHeld(i)

\* Taking the lock may outlast the deadline: it is given back at once.
SelectLate(i) ==
  /\ Selectable(i) /\ clock + 1 >= Deadline(i) /\ clock < MaxClock
  /\ clock' = clock + 1
  /\ Unqueue(i) /\ Settle({i})
  /\ StartPump(queue')
  /\ UNCHANGED <<accepting, running, settling, locks, timedOut, aborted, book, poll, stop>>

Select(i) ==
  /\ Selectable(i)
  /\ Unqueue(i)
  /\ running' = running \cup {i}
  /\ locks' = IF ScopeOf[i] # None THEN locks \cup {i} ELSE locks
  /\ active' = active + 1
  /\ activeMemory' = activeMemory + MemoryOf[i]
  /\ activeBy' = [activeBy EXCEPT ![ProviderOf[i]] = @ + 1]
  /\ StartPump(queue')
  /\ UNCHANGED <<clock, accepting, settling, answered, signals, poll, stop>>

\* Nothing (more) is runnable: the poll timer is armed if anything is queued.
EndPump ==
  /\ pumping /\ scan = {}
  /\ pumping' = FALSE
  /\ poll' = (poll \/ queue # <<>>)
  /\ UNCHANGED <<clock, accepting, queue, enqueued, reason, running, settling, answered, locks,
                 signals, book, scan, stop>>

-----------------------------------------------------------------------------
(* Execution *)

ExecutionTimer(i) ==
  /\ ~pumping /\ i \in running \ timedOut
  /\ timedOut' = timedOut \cup {i} /\ aborted' = aborted \cup {i}
  /\ UNCHANGED <<clock, accepting, queue, enqueued, reason, running, settling, answered, locks,
                 cancelled, book, poll, pumping, scan, stop>>

\* The function returns or throws, whether or not it heeds the abort signal; the
\* caller reads the answer before the executor has cleaned up.
Returns(i) ==
  /\ ~pumping /\ i \in running
  /\ running' = running \ {i} /\ settling' = settling \cup {i}
  /\ Settle({i})
  /\ timedOut' = timedOut \ {i} /\ aborted' = aborted \ {i}
  /\ UNCHANGED <<clock, accepting, queue, enqueued, reason, locks, book, poll, pumping, scan, stop>>

\* Once nothing is active, those who wait for idleness are woken.
Woken == CASE stop = "grace" -> "graceful" [] stop = "abort" -> "forced" [] OTHER -> stop

\* The finally block: lock and capacity are returned, idle waiters woken, pump.
Finalize(i) ==
  /\ ~pumping /\ i \in settling
  /\ settling' = settling \ {i}
  /\ locks' = locks \ {i}
  /\ active' = active - 1
  /\ activeMemory' = activeMemory - MemoryOf[i]
  /\ activeBy' = [activeBy EXCEPT ![ProviderOf[i]] = @ - 1]
  /\ stop' = IF active' = 0 THEN Woken ELSE stop
  /\ StartPump(queue)
  /\ UNCHANGED <<clock, accepting, queue, enqueued, reason, running, answered, signals, poll>>

-----------------------------------------------------------------------------
(* shutdown() *)

Shutdown ==
  /\ ~pumping /\ stop = "no"
  /\ accepting' = FALSE /\ poll' = FALSE
  /\ queue' = <<>> /\ scan' = {}
  /\ enqueued' = [i \in Items |-> 0] /\ reason' = [i \in Items |-> "none"]
  /\ Settle(Queued)
  /\ stop' = IF active = 0 THEN "graceful" ELSE "grace"
  /\ UNCHANGED <<clock, running, settling, locks, timedOut, aborted, book, pumping>>

GraceOver ==
  /\ ~pumping /\ stop = "grace"
  /\ stop' = "abort" /\ aborted' = aborted \cup running
  /\ UNCHANGED <<clock, accepting, queue, enqueued, reason, running, settling, answered, locks,
                 cancelled, timedOut, book, poll, pumping, scan>>

\* Mutant: the second wait has no limit.
AbortWaitUnbounded ==
  /\ ~pumping /\ stop = "abort" /\ active = 0
  /\ stop' = "forced"
  /\ UNCHANGED <<clock, accepting, queue, enqueued, reason, running, settling, answered, locks,
                 signals, book, poll, pumping, scan>>

AbortWaitOver ==
  /\ ~pumping /\ stop = "abort"
  /\ stop' = "forced"
  /\ UNCHANGED <<clock, accepting, queue, enqueued, reason, running, settling, answered, locks,
                 signals, book, poll, pumping, scan>>

Tick ==
  /\ ~pumping /\ clock < MaxClock
  /\ clock' = clock + 1
  /\ UNCHANGED <<accepting, queue, enqueued, reason, running, settling, answered, locks, signals,
                 book, poll, pumping, scan, stop>>

Pass ==
  \/ EndPump
  \/ \E i \in Items : DropInPass(i) \/ SelectLate(i) \/ Select(i) \/ \E r \in Reasons : Waits(i, r)

Next ==
  \/ Pass \/ PollTimer \/ Shutdown \/ GraceOver \/ AbortWaitOver \/ Tick
  \/ \E i \in Items :
       \/ Run(i) \/ Cancel(i) \/ QueueTimer(i)
       \/ ExecutionTimer(i) \/ Returns(i) \/ Finalize(i)

Spec == Init /\ [][Next]_vars

\* Timers that answer a queued item or a waiting shutdown.
Timers == GraceOver \/ AbortWaitOver \/ \E i \in Items : QueueTimer(i)

\* Fairness. A pass ends, the clock advances and a timer that is due fires:
\* strongly fair, because every pass disables them for a moment and the event
\* loop starves none. Functions are not assumed to return: they may ignore their
\* abort signal for ever. Nor is the poll timer assumed to fire.
FairSpec == Spec /\ WF_vars(Pass) /\ SF_vars(Tick) /\ SF_vars(Timers)

-----------------------------------------------------------------------------
(* Properties *)

\* The memory of items, counted in units: each brings as many as it asks for.
Units(i) == {i} \X (1..MemoryOf[i])
MemoryOfAll(S) == Cardinality(UNION {Units(i) : i \in S})
Using(p) == {i \in Occupying : ProviderOf[i] = p}

\* The counters are those of the items that occupy capacity, in every callback
\* and in the middle of every pass, and no limit is ever exceeded.
CapacityRespected ==
  /\ active = Cardinality(Occupying) /\ active <= MaxConcurrency
  /\ \A p \in Providers :
       activeBy[p] = Cardinality(Using(p)) /\ activeBy[p] <= ProviderCap[p]
  /\ activeMemory = MemoryOfAll(Occupying) /\ activeMemory <= MemoryCapacity

\* A write scope is held exactly by an item that occupies capacity and asked for
\* it: no lock leaks when an item is late, fails, times out or is shut down, and
\* no two items write to one scope.
LocksMatch ==
  /\ locks = {i \in Occupying : ScopeOf[i] # None}
  /\ \A i, j \in locks : ScopeOf[i] = ScopeOf[j] => i = j

\* An item is queued once at most, and queued, running and answered exclude one
\* another: what a timer, an abort or a shutdown rejected never runs.
OnePlaceEach ==
  /\ \A m, n \in DOMAIN queue : queue[m] = queue[n] => m = n
  /\ Queued \cap (running \cup answered) = {} /\ running \cap answered = {}

\* No wakeup is lost: between callbacks a non-empty queue has a poll timer.
NoLostWakeup == ~pumping /\ queue # <<>> => poll

\* Every running item that was cancelled, timed out or outlived the shutdown
\* grace period has been told, whenever that happened.
AbortDelivered ==
  /\ running \cap (cancelled \cup timedOut) \subseteq aborted
  /\ stop \in {"abort", "forced"} => running \subseteq aborted

\* What holds in every callback and in the middle of every pass of pump(),
\* whichever of timers, aborts, shutdown and finishing items came first: the
\* counters and locks match the items, each item is in one place, the queue
\* will be looked at again, and who has to stop has been told.
SchedulerSafe ==
  TypeOK /\ CapacityRespected /\ LocksMatch /\ OnePlaceEach /\ NoLostWakeup /\ AbortDelivered

\* Work is only passed over for a reason: whatever is ahead of a starting item
\* was examined before it in this pass, and one without capacity still has none.
OrderRespected ==
  [][\A i \in running' \ running, j \in Queued :
       j # i /\ Ahead(j, i) =>
         /\ reason[j] # "none" /\ j \notin scan
         /\ reason[j] = "capacity" => ~Fits(j)]_vars

\* Waiting ends, whoever never returns: no item stays in the queue for ever, even
\* behind functions that ignore their abort signal, and shutdown returns as well.
WaitsEnd ==
  /\ \A i \in Items : i \in Queued ~> i \notin Queued
  /\ stop = "grace" ~> stop \in {"graceful", "forced"}
=============================================================================
