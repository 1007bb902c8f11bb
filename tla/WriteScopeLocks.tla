-------------------------- MODULE WriteScopeLocks --------------------------
(***************************************************************************)
(* The write-scope locks of extensions/write-scope-locks.js, shared by all *)
(* gateway processes through a directory: a mutex (an empty directory that *)
(* mkdir creates and rmdir removes) and one record file per held lock.     *)
(*                                                                         *)
(* tryAcquire is synchronous, so within one process its steps are not      *)
(* interleaved with another call's; between processes every file operation *)
(* is. Clocks are abstracted to two facts: the mutex is stale (older than  *)
(* 10 s), a record is expired (its expiresAt lies in the past).            *)
(***************************************************************************)
EXTENDS Naturals, Sequences, SequencesExt

CONSTANTS
  Processes, Calls,
  ProcessOf,      \* the process that makes a call
  ScopesOf,       \* the normalized scopes of a call: [path, tree]
  Crashing,       \* the processes that may die
  Stalls          \* may a process be suspended for 10 s inside tryAcquire?

ASSUME LockAssumption ==
  /\ ProcessOf \in [Calls -> Processes]
  /\ Crashing \subseteq Processes
  /\ Stalls \in BOOLEAN
ASSUME ScopeAssumption ==
  \A c \in Calls : \A s \in ScopesOf[c] : s.path \in Seq(STRING) /\ s.tree \in BOOLEAN

VARIABLES
  alive,      \* processes that have not died
  mutex,      \* "absent", "fresh" or "stale"
  records,    \* the calls whose record file exists
  written,    \* those whose record file is complete
  expired,    \* calls past the expiresAt of the record they wrote
  step,       \* where each call is
  todo        \* the listed records that a call has still to read

lockVars == <<alive, mutex, records, written, expired, step, todo>>

Inside == {"stale", "remake", "list", "scan", "write", "keep", "refuse"}
Critical == {"list", "scan", "write", "keep", "refuse"}
Steps == Inside \cup {"idle", "holding", "released", "dead"}

LockTypeOK ==
  /\ alive \subseteq Processes
  /\ mutex \in {"absent", "fresh", "stale"}
  /\ records \subseteq Calls /\ written \subseteq records /\ expired \subseteq Calls
  /\ step \in [Calls -> Steps]
  /\ todo \in [Calls -> SUBSET Calls]

LockInit ==
  /\ alive = Processes /\ mutex = "absent"
  /\ records = {} /\ written = {} /\ expired = {}
  /\ step = [c \in Calls |-> "idle"] /\ todo = [c \in Calls |-> {}]

-----------------------------------------------------------------------------
(* scopesOverlap() *)

Within(directory, candidate) == IsPrefix(directory, candidate)

\* Mutant: only the left tree is asked whether it contains the right path.
OverlapsOneWay(left, right) ==
  IF left.tree THEN Within(left.path, right.path) ELSE left.path = right.path

Overlaps(left, right) ==
  \/ ~left.tree /\ ~right.tree /\ left.path = right.path
  \/ left.tree /\ Within(left.path, right.path)
  \/ right.tree /\ Within(right.path, left.path)

Conflict(c, d) == \E l \in ScopesOf[c], r \in ScopesOf[d] : Overlaps(l, r)

-----------------------------------------------------------------------------
(* tryAcquire() *)

Go(c, s) == step' = [step EXCEPT ![c] = s]

\* One call at a time: no other call of the process is inside.
Alone(c) ==
  /\ ProcessOf[c] \in alive
  /\ \A d \in Calls \ {c} : ProcessOf[d] = ProcessOf[c] => step[d] \notin Inside

Enter(c) ==
  /\ Alone(c) /\ step[c] = "idle" /\ mutex = "absent"
  /\ mutex' = "fresh" /\ Go(c, "list")
  /\ UNCHANGED <<alive, records, written, expired, todo>>

\* mkdir said EEXIST; a fresh mutex ends the attempt, an old one is stolen.
FindStale(c) ==
  /\ Alone(c) /\ step[c] = "idle" /\ mutex = "stale"
  /\ Go(c, "stale")
  /\ UNCHANGED <<alive, mutex, records, written, expired, todo>>

\* rmdir removes whatever mutex is there now, or fails and ends the attempt.
RemoveStale(c) ==
  /\ step[c] = "stale" /\ ProcessOf[c] \in alive
  /\ mutex' = "absent"
  /\ Go(c, IF mutex = "absent" THEN "idle" ELSE "remake")
  /\ UNCHANGED <<alive, records, written, expired, todo>>

Remake(c) ==
  /\ step[c] = "remake" /\ ProcessOf[c] \in alive
  /\ IF mutex = "absent" THEN mutex' = "fresh" /\ Go(c, "list") ELSE Go(c, "idle") /\ UNCHANGED mutex
  /\ UNCHANGED <<alive, records, written, expired, todo>>

List(c) ==
  /\ step[c] = "list" /\ ProcessOf[c] \in alive
  /\ todo' = [todo EXCEPT ![c] = records]
  /\ Go(c, "scan")
  /\ UNCHANGED <<alive, mutex, records, written, expired>>

\* A record that has gone, or that is not complete, cannot be parsed.
Unreadable(d) == d \notin written

Reclaimable(d) == d \in expired \/ ProcessOf[d] \notin alive

Read(c, d) ==
  /\ step[c] = "scan" /\ ProcessOf[c] \in alive /\ d \in todo[c]
  /\ IF ~Unreadable(d) /\ Reclaimable(d)
     THEN records' = records \ {d} /\ written' = written \ {d} /\ UNCHANGED step
     ELSE /\ IF Unreadable(d) \/ Conflict(c, d) THEN Go(c, "refuse") ELSE UNCHANGED step
          /\ UNCHANGED <<records, written>>
  /\ todo' = [todo EXCEPT ![c] = IF step'[c] = "refuse" THEN {} ELSE @ \ {d}]
  /\ UNCHANGED <<alive, mutex, expired>>

\* writeFileSync creates the file and then fills it.
Create(c) ==
  /\ step[c] = "scan" /\ ProcessOf[c] \in alive /\ todo[c] = {}
  /\ records' = records \cup {c}
  /\ Go(c, "write")
  /\ UNCHANGED <<alive, mutex, written, expired, todo>>

Write(c) ==
  /\ step[c] = "write" /\ ProcessOf[c] \in alive
  /\ written' = written \cup {c}
  /\ Go(c, "keep")
  /\ UNCHANGED <<alive, mutex, records, expired, todo>>

\* The finally block removes the mutex, whoever made it.
Leave(c) ==
  /\ step[c] \in {"keep", "refuse"} /\ ProcessOf[c] \in alive
  /\ mutex' = "absent"
  /\ Go(c, IF step[c] = "keep" THEN "holding" ELSE "idle")
  /\ UNCHANGED <<alive, records, written, expired, todo>>

\* Mutant: release leaves the record to expiry.
ReleaseLater(c) ==
  /\ Alone(c) /\ step[c] = "holding"
  /\ Go(c, "released")
  /\ UNCHANGED <<alive, mutex, records, written, expired, todo>>

Release(c) ==
  /\ Alone(c) /\ step[c] = "holding"
  /\ records' = records \ {c} /\ written' = written \ {c}
  /\ Go(c, "released")
  /\ UNCHANGED <<alive, mutex, expired, todo>>

-----------------------------------------------------------------------------
(* Environment *)

\* The mutex gets old if whoever could remove it has died or is suspended.
Age ==
  /\ mutex = "fresh"
  /\ Stalls \/ \A c \in Calls : step[c] \notin Critical
  /\ mutex' = "stale"
  /\ UNCHANGED <<alive, records, written, expired, step, todo>>

\* A holder outlives its timeout by the minute that expiresAt allows.
Expire(c) ==
  /\ c \in written \ expired /\ step[c] \in {"holding", "dead"}
  /\ expired' = expired \cup {c}
  /\ UNCHANGED <<alive, mutex, records, written, step, todo>>

Crash(p) ==
  /\ p \in alive \cap Crashing
  /\ alive' = alive \ {p}
  /\ step' = [c \in Calls |-> IF ProcessOf[c] = p THEN "dead" ELSE step[c]]
  /\ todo' = [c \in Calls |-> IF ProcessOf[c] = p THEN {} ELSE todo[c]]
  /\ UNCHANGED <<mutex, records, written, expired>>

Attempt(c) ==
  \/ Enter(c) \/ FindStale(c) \/ RemoveStale(c) \/ Remake(c)
  \/ List(c) \/ (\E d \in Calls : Read(c, d)) \/ Create(c) \/ Write(c) \/ Leave(c)

LockNext ==
  \/ \E c \in Calls : Attempt(c) \/ Release(c) \/ Expire(c)
  \/ Age
  \/ \E p \in Processes : Crash(p)

LockSpec == LockInit /\ [][LockNext]_lockVars

-----------------------------------------------------------------------------
(* Properties *)

Holds(c) == step[c] \in {"keep", "holding"} /\ c \notin expired

\* The files a scope covers among those that some scope names or a file below.
Files == UNION {{s.path, Append(s.path, "*")} : s \in UNION {ScopesOf[c] : c \in Calls}}
Covers(s, f) == (s.tree /\ IsPrefix(s.path, f)) \/ f = s.path
Covered(c) == {f \in Files : \E s \in ScopesOf[c] : Covers(s, f)}

\* Tasks that hold unexpired locks at one time cover no common file.
ExclusiveScopes ==
  \A c, d \in Calls : c # d /\ Holds(c) /\ Holds(d) => Covered(c) \cap Covered(d) = {}

\* Nobody but its holder removes the record of a live task before it expires.
HeldRecordStays == \A c \in Calls : Holds(c) => c \in written

\* At most one attempt is between taking the mutex and giving it back.
OneInside == \A c, d \in Calls : step[c] \in Critical /\ step[d] \in Critical => c = d

\* What the lock directory promises between processes that may die in any file
\* operation: one attempt at a time in the mutex, the record of a live holder
\* stays, and scopes that are held together cover no common file.
LocksHold == LockTypeOK /\ OneInside /\ HeldRecordStays /\ ExclusiveScopes

\* README: locks can be reclaimed after process exit. Records of dead or finished
\* tasks do not block a waiting task for ever: every task of a process that lives
\* gets its lock in the end.
LocksReclaimed == \A c \in Calls : []<>(step[c] \in {"holding", "released", "dead"})

\* The same, unless a process dies between creating its record and filling it.
Torn == \E c \in records \ written : step[c] = "dead"
ReclaimedUnlessTorn == []~Torn => LocksReclaimed
=============================================================================
