---------------------------- MODULE TaskMonitor ----------------------------
(***************************************************************************)
(* extensions/task-monitor.js as scripts/gateway.mjs uses it: the record   *)
(* of every task of one gateway, the answers kept in memory until the      *)
(* request ledger has them on disk, the callers that wait for a task, and  *)
(* the drain that has to come before the gateway may exit.                 *)
(*                                                                         *)
(* A request has two ways in. submit_subagent makes a record at once and   *)
(* runs the task behind it; dispatch_subagent runs the task within the     *)
(* call and retains its answer when it is over. The body of an answer is   *)
(* the number of the answer (the code compares result objects by           *)
(* identity). A request always comes with the same input. Byte budgets,    *)
(* display fields, the back-off between retries and what a run does to a   *)
(* record that was dropped under it are left out.                          *)
(***************************************************************************)
EXTENDS Naturals, FiniteSets

CONSTANTS
  Requests,
  Monitored,     \* requests that are submitted
  Calls,         \* calls of dispatch_subagent
  RequestOf,     \* which request each of them carries
  Protected,     \* requests the request ledger runs at most once
  Waiters,       \* calls of wait_subagent
  MaxEntries,    \* maxEntries
  MaxAnswers,    \* bound: answers of one request
  MaxFaults,     \* bound: writes that fail
  None

ASSUME MonitorAssumption ==
  /\ Monitored \subseteq Requests /\ Protected \subseteq Requests
  /\ RequestOf \in [Calls -> Requests]
  /\ {MaxEntries, MaxAnswers} \subseteq Nat \ {0} /\ MaxFaults \in Nat

VARIABLES
  rec,        \* records: what the monitor remembers of each request
  answers,    \* how many answers each request has had
  disk,       \* result-cache/<key>.json of the ledger
  host,       \* the ledger's host verification of the request's artifact
  reserved,   \* reservations: who made the one of each request
  call,       \* what each dispatch call is doing, and its token
  waiting,    \* the request each waiter sleeps on, and what it was told
  phase,      \* of the gateway: "running", "closing", "drain", "held", "disposed"
  faults

vars == <<rec, answers, disk, host, reserved, call, waiting, phase, faults>>

Terminal == {"completed", "failed", "cancelled", "awaiting"}
States == Terminal \cup {"queued", "running", "cancelling"}
Token == Requests \cup Calls
Answer == [body : 1..MaxAnswers, state : Terminal]

\* body 0 is a null result; run is the token of the submitted run behind it.
Record == [state : States, body : 0..MaxAnswers, persisted : BOOLEAN, failed : BOOLEAN,
           write : Answer \cup {None}, run : Token \cup {None}, old : BOOLEAN]

ASSUME NoneAssumption ==
  None \notin Requests \cup Calls \cup States \cup Answer \cup Record

TypeOK ==
  /\ rec \in [Requests -> Record \cup {None}]
  /\ answers \in [Requests -> 0..MaxAnswers]
  /\ disk \in [Requests -> Answer \cup {None}]
  /\ host \in [Requests -> {"awaiting", "completed", "failed", None}]
  /\ reserved \in [Requests -> Token \cup {None}]
  /\ call \in [Calls -> {"idle", "done"} \cup Token]
  /\ waiting \in [Waiters -> [on : Requests \cup {None}, told : States \cup {None}]]
  /\ phase \in {"running", "closing", "drain", "held", "disposed"}
  /\ faults \in 0..MaxFaults

Init ==
  /\ rec = [r \in Requests |-> None] /\ answers = [r \in Requests |-> 0]
  /\ disk = [r \in Requests |-> None] /\ host = [r \in Requests |-> None]
  /\ reserved = [r \in Requests |-> None] /\ call = [c \in Calls |-> "idle"]
  /\ waiting = [w \in Waiters |-> [on |-> None, told |-> None]]
  /\ phase = "running" /\ faults = 0

-----------------------------------------------------------------------------
(* What the records say. *)

Known(rs) == {r \in Requests : rs[r] # None}
Ended(rs) == {r \in Known(rs) : rs[r].state \in Terminal}

\* Results whose only copy is in memory.
Sole(rs) == {r \in Ended(rs) : rs[r].body # 0 /\ ~rs[r].persisted}

closed == phase \in {"drain", "held", "disposed"}
accepting == ~closed /\ \A r \in Sole(rec) : ~rec[r].failed

\* Mutant: the retry is not made for a result whose write has failed.
PersistingOnce(m) ==
  IF m.persisted \/ m.body = 0 \/ m.write # None \/ m.failed THEN m
  ELSE [m EXCEPT !.write = [body |-> m.body, state |-> m.state]]

\* persistTerminal(): start writing the record's answer, one write at a time.
Persisting(m) ==
  IF m.persisted \/ m.body = 0 \/ m.write # None THEN m
  ELSE [m EXCEPT !.write = [body |-> m.body, state |-> m.state]]

\* trim(): sets of records that may be dropped. What is saved and expired
\* goes, and of the rest as much as the limit asks for.
Droppable(rs) == Ended(rs) \ Sole(rs)

Drops(rs) ==
  LET expired == {r \in Droppable(rs) : rs[r].old}
      size == Cardinality(Known(rs) \ expired)
      fresh == Droppable(rs) \ expired
      excess == IF size > MaxEntries THEN size - MaxEntries ELSE 0
      enough == IF excess > Cardinality(fresh) THEN Cardinality(fresh) ELSE excess
  IN  {expired \cup d : d \in {e \in SUBSET fresh : Cardinality(e) = enough}}
Without(rs, d) == [r \in Requests |-> IF r \in d THEN None ELSE rs[r]]
Trimmed(rs) == \E d \in Drops(rs) : rec' = Without(rs, d)

\* wakeWaiters()
Woken(r, s) ==
  [w \in Waiters |-> IF waiting[w].on = r THEN [on |-> None, told |-> s] ELSE waiting[w]]

\* reserve(): the token of the request, or a new one if it has none. For a
\* new one there has to be room: one saved record may be dropped for it.
Unrecorded(rs) == {r \in Requests : reserved[r] # None /\ rs[r] = None}
Size(rs) == Cardinality(Known(rs)) + Cardinality(Unrecorded(rs))
Roomy(rs) == Size(rs) < MaxEntries /\ Cardinality({r \in Requests : reserved[r] # None}) < MaxEntries
WithRoom ==
  LET kept == {Without(rec, d) : d \in Drops(rec)}
      makeRoom(rs) == IF Size(rs) < MaxEntries THEN {rs}
                      ELSE {Without(rs, {r}) : r \in {x \in Ended(rs) : rs[x].persisted}}
  IN  {rs \in UNION {makeRoom(k) : k \in kept} : Roomy(rs)}

\* rs is what reserve() leaves of the records, token what it returns.
Reserve(r, mine, rs, token) ==
  /\ accepting
  /\ IF reserved[r] # None THEN rs = rec /\ token = reserved[r]
                           ELSE rs \in WithRoom /\ token = mine
  /\ reserved' = [reserved EXCEPT ![r] = token]

Release(r, token) ==
  reserved' = IF reserved[r] = token THEN [reserved EXCEPT ![r] = None] ELSE reserved

-----------------------------------------------------------------------------
(* submit_subagent and the run behind it *)

Fresh(s) == [state |-> s, body |-> 0, persisted |-> FALSE, failed |-> FALSE,
             write |-> None, run |-> None, old |-> FALSE]

Busy(r) == \E c \in Calls : RequestOf[c] = r /\ call[c] \notin {"idle", "done"}
Free(r) == /\ answers[r] < MaxAnswers
           /\ r \in Protected => answers[r] = 0 /\ ~Busy(r)

Submit(r) ==
  /\ phase = "running" /\ r \in Monitored /\ rec[r] = None /\ Free(r)
  /\ \E rs \in {rec} \cup WithRoom, token \in {r, reserved[r]} :
       /\ Reserve(r, r, rs, token)
       /\ Trimmed([rs EXCEPT ![r] = [Fresh("queued") EXCEPT !.run = token]])
  /\ UNCHANGED <<answers, disk, host, call, waiting, phase, faults>>

\* The scheduler reaches the task: markRunning().
Begin(r) ==
  /\ rec[r] # None /\ rec[r].state = "queued" /\ accepting
  /\ rec' = [rec EXCEPT ![r].state = "running"]
  /\ UNCHANGED <<answers, disk, host, reserved, call, waiting, phase, faults>>

\* The run is over, with an envelope or an error. A protected task that
\* leaves an artifact registers it with the ledger in the same turn.
Settle(r, outcome) ==
  LET m == rec[r] IN
  /\ m # None /\ m.run # None /\ answers[r] < MaxAnswers
  /\ m.state = "queued" => outcome = "failed"
  /\ outcome = "awaiting" => r \in Protected
  /\ LET s == IF m.state = "cancelling" THEN "cancelled" ELSE outcome
         n == answers[r] + 1
         settled == Persisting([m EXCEPT !.state = s, !.body = n, !.run = None, !.old = FALSE])
     IN  /\ Trimmed([rec EXCEPT ![r] = settled])
         /\ answers' = [answers EXCEPT ![r] = n]
         /\ waiting' = Woken(r, s)
  /\ host' = IF outcome = "awaiting" THEN [host EXCEPT ![r] = "awaiting"] ELSE host
  /\ Release(r, m.run)
  /\ UNCHANGED <<disk, call, phase, faults>>

Cancel(r) ==
  /\ phase = "running" /\ rec[r] # None /\ rec[r].state \in {"queued", "running"}
  /\ rec' = [rec EXCEPT ![r].state = "cancelling"]
  /\ UNCHANGED <<answers, disk, host, reserved, call, waiting, phase, faults>>

-----------------------------------------------------------------------------
(* dispatch_subagent *)

Dispatch(c) ==
  LET r == RequestOf[c] IN
  /\ phase = "running" /\ call[c] = "idle" /\ Free(r)
  /\ r \in Protected => rec[r] = None
  /\ \E rs \in {rec} \cup WithRoom, token \in {c, reserved[r]} :
       /\ Reserve(r, c, rs, token)
       /\ rec' = rs /\ call' = [call EXCEPT ![c] = token]
  /\ UNCHANGED <<answers, disk, host, waiting, phase, faults>>

\* retainResult(), then release(). Nobody is woken.
Return(c, outcome) ==
  LET r == RequestOf[c]
      n == answers[r] + 1
      m == IF rec[r] = None THEN Fresh(outcome) ELSE rec[r]
      retained == Persisting([m EXCEPT !.state = outcome, !.body = n, !.persisted = FALSE,
                                       !.failed = FALSE, !.old = FALSE])
  IN
  /\ call[c] \notin {"idle", "done"} /\ answers[r] < MaxAnswers
  /\ outcome = "awaiting" => r \in Protected
  /\ Trimmed([rec EXCEPT ![r] = retained])
  /\ answers' = [answers EXCEPT ![r] = n]
  /\ host' = IF outcome = "awaiting" THEN [host EXCEPT ![r] = "awaiting"] ELSE host
  /\ Release(r, call[c]) /\ call' = [call EXCEPT ![c] = "done"]
  /\ UNCHANGED <<disk, waiting, phase, faults>>

-----------------------------------------------------------------------------
(* record_host_verification: the ledger's proof, then resolveHostVerification() *)

\* Mutant: the verdict is left to the ledger, the monitor is not told.
VerifyOnDisk(r, verdict) ==
  /\ phase = "running" /\ host[r] = "awaiting"
  /\ host' = [host EXCEPT ![r] = verdict]
  /\ UNCHANGED <<rec, answers, disk, reserved, call, waiting, phase, faults>>

Verify(r, verdict) ==
  LET m == rec[r]
      n == answers[r] + 1
      resolved == Persisting([m EXCEPT !.state = verdict, !.body = n, !.persisted = FALSE,
                                       !.old = FALSE])
  IN
  /\ phase = "running" /\ host[r] = "awaiting" /\ answers[r] < MaxAnswers
  /\ host' = [host EXCEPT ![r] = verdict]
  /\ IF m # None /\ m.state = "awaiting"
       THEN /\ Trimmed([rec EXCEPT ![r] = resolved])
            /\ answers' = [answers EXCEPT ![r] = n]
            /\ waiting' = Woken(r, verdict)
       ELSE UNCHANGED <<rec, answers, waiting>>
  /\ UNCHANGED <<disk, reserved, call, phase, faults>>

-----------------------------------------------------------------------------
(* saveMonitorResultAsync() and what follows it, the maintenance timer *)

\* finish(), then the finally handler: an answer that came meanwhile is
\* written at once, unless the monitor is closed.
WriteEnds(r, ok) ==
  LET m == rec[r]
      same == m.body = m.write.body
      done == IF ~same THEN [m EXCEPT !.write = None]
              ELSE [m EXCEPT !.write = None, !.persisted = ok, !.failed = ~ok,
                             !.body = IF ok THEN 0 ELSE @]
  IN
  /\ phase # "disposed" /\ m # None /\ m.write # None
  /\ IF ok THEN disk' = [disk EXCEPT ![r] = m.write] /\ UNCHANGED faults
           ELSE faults < MaxFaults /\ faults' = faults + 1 /\ UNCHANGED disk
  /\ Trimmed([rec EXCEPT ![r] = IF ~same /\ ~closed THEN Persisting(done) ELSE done])
  /\ UNCHANGED <<answers, host, reserved, call, waiting, phase>>

\* trim(now, true): one answer that is not saved is tried again.
Maintain(r) ==
  /\ phase # "disposed" /\ r \in Sole(rec) /\ rec[r].write = None
  /\ Trimmed([rec EXCEPT ![r] = Persisting(rec[r])])
  /\ UNCHANGED <<answers, disk, host, reserved, call, waiting, phase, faults>>

\* terminalTtlMs passes, and the timer finds out.
Expire(r) ==
  /\ phase # "disposed" /\ r \in Ended(rec) /\ ~rec[r].old
  /\ Trimmed([rec EXCEPT ![r].old = TRUE])
  /\ UNCHANGED <<answers, disk, host, reserved, call, waiting, phase, faults>>

-----------------------------------------------------------------------------
(* wait_subagent *)

\* A waiter that finds the task over, or nothing, is answered at once.
Wait(w, r) ==
  /\ ~closed /\ waiting[w] = [on |-> None, told |-> None]
  /\ rec[r] # None /\ rec[r].state \notin Terminal
  /\ waiting' = [waiting EXCEPT ![w].on = r]
  /\ UNCHANGED <<rec, answers, disk, host, reserved, call, phase, faults>>

GiveUp(w) ==
  /\ waiting[w].on # None
  /\ waiting' = [waiting EXCEPT ![w] = [on |-> None, told |-> None]]
  /\ UNCHANGED <<rec, answers, disk, host, reserved, call, phase, faults>>

-----------------------------------------------------------------------------
(* shutdown() *)

Shutdown ==
  /\ phase = "running" /\ phase' = "closing"
  /\ UNCHANGED <<rec, answers, disk, host, reserved, call, waiting, faults>>

\* drain() starts when nothing is in flight: no intake, and one more try.
Drain ==
  /\ phase \in {"closing", "held"} /\ phase' = "drain"
  /\ \A r \in Known(rec) : rec[r].run = None
  /\ \A c \in Calls : call[c] \in {"idle", "done"}
  /\ LET idle == {r \in Sole(rec) : rec[r].write = None} IN
     IF idle = {} THEN UNCHANGED rec
     ELSE \E r \in idle : rec' = [rec EXCEPT ![r] = Persisting(rec[r])]
  /\ UNCHANGED <<answers, disk, host, reserved, call, waiting, faults>>

\* The writes are over, or two seconds are. With an answer at risk the
\* gateway stays; otherwise it disposes of its modules, and close() answers
\* every waiter.
Drained ==
  /\ phase = "drain"
  /\ IF Sole(rec) # {}
       THEN phase' = "held" /\ UNCHANGED waiting
       ELSE /\ phase' = "disposed"
            /\ waiting' = [w \in Waiters |-> [waiting[w] EXCEPT !.on = None]]
  /\ UNCHANGED <<rec, answers, disk, host, reserved, call, faults>>

Next ==
  \/ \E r \in Requests :
       \/ Submit(r) \/ Begin(r) \/ Cancel(r) \/ Maintain(r) \/ Expire(r)
       \/ \E outcome \in {"completed", "failed", "awaiting"} : Settle(r, outcome)
       \/ \E verdict \in {"completed", "failed"} : Verify(r, verdict)
       \/ \E ok \in BOOLEAN : WriteEnds(r, ok)
  \/ \E c \in Calls :
       \/ Dispatch(c)
       \/ \E outcome \in {"completed", "failed", "awaiting"} : Return(c, outcome)
  \/ \E w \in Waiters : GiveUp(w) \/ \E r \in Requests : Wait(w, r)
  \/ Shutdown \/ Drain \/ Drained

Spec == Init /\ [][Next]_vars

\* The event loop finishes what it has started, and the timer goes round all
\* records that are not saved (retryCursor).
Fairness ==
  \A r \in Requests : WF_vars(\E ok \in BOOLEAN : WriteEnds(r, ok)) /\ WF_vars(Maintain(r))
FairSpec == Spec /\ Fairness

-----------------------------------------------------------------------------
(* Properties *)

OnDisk(r) == disk[r] # None /\ disk[r].body = answers[r]

\* docs/workflow-result-pressure.md: sole copies are never evicted. The last
\* answer of a request is in memory or on disk, whatever was dropped for
\* count or age, whatever write failed or came late.
SoleCopyKept ==
  \A r \in Requests : answers[r] > 0 =>
    OnDisk(r) \/ (rec[r] # None /\ rec[r].body = answers[r])

\* A record that claims to be saved is: the file holds its last answer and
\* the state it has now, not an answer or a state from before a verification.
SavedMeansCurrent ==
  \A r \in Known(rec) : rec[r].persisted =>
    disk[r] = [body |-> answers[r], state |-> rec[r].state]

\* Only a gateway that has every answer on disk disposes of its modules,
\* though writes end, fail and are retried while it drains.
DisposedIsDurable == phase = "disposed" => \A r \in Requests : answers[r] > 0 => OnDisk(r)

\* No lost wake-up: nobody sleeps on a task that is over, or forgotten.
NoSleeperLeft ==
  \A w \in Waiters : waiting[w].on # None =>
    rec[waiting[w].on] # None /\ rec[waiting[w].on].state \notin Terminal

\* The monitor and the ledger agree about an artifact: reading the answer of
\* a task that is over does not find it indeterminate. The exception is a
\* task cancelled too late, whose artifact is registered all the same.
FollowsTheHost ==
  \A r \in Ended(rec) : host[r] # None => rec[r].state \in {host[r], "cancelled"}

\* No answer is lost, and none is said to be saved that is not, whatever
\* is evicted, overtaken by a verdict, or left unwritten at shutdown.
AnswersKept == TypeOK /\ SoleCopyKept /\ SavedMeansCurrent /\ DisposedIsDurable

\* What a caller is told of a task is what became of it: it is woken when the task
\* ends, in whichever way, and an artifact has the host's verdict.
CallersToldTrue == NoSleeperLeft /\ FollowsTheHost

\* What the monitor keeps of a task and tells of it is so.
MonitorTrue == AnswersKept /\ CallersToldTrue

\* Once storage works, every answer gets to disk, by the retries alone.
EveryAnswerSaved == \A r \in Requests : (answers[r] > 0) ~> OnDisk(r)
=============================================================================
