-------------------------- MODULE ProviderCircuit --------------------------
(***************************************************************************)
(* The circuit state of one provider/model route in                        *)
(* extensions/provider-circuit-state.js, and the two kinds of client that  *)
(* the gateway has for it: ordinary tasks and recovery probes.             *)
(*                                                                         *)
(* The state is not stored. Every question replays the log of events of    *)
(* the route (deriveState); routes do not influence each other. One        *)
(* gateway process, so that a check and the append it leads to are one     *)
(* step. A result is abstracted to the category classifyProviderResult     *)
(* gives it, "no_impact" if it is not recorded.                            *)
(***************************************************************************)
EXTENDS Naturals, Sequences, FiniteSets

LOCAL INSTANCE SequencesExt

CONSTANTS
  Tasks, Probes,
  Threshold,               \* failureThreshold
  Cooldown, Lease,         \* failureCooldownMs, halfOpenLeaseMs
  RetryDelays,             \* what a 429 answer asks for
  MaxTime, MaxEvents       \* bounds on the clock and the log

ASSUME CircuitAssumption ==
  /\ {Threshold, Cooldown, Lease} \subseteq Nat \ {0}
  /\ RetryDelays \subseteq Nat \ {0}
  /\ {MaxTime, MaxEvents} \subseteq Nat

VARIABLES
  now,
  log,     \* events: [type, category, at, until]
  task,    \* "idle" or "running"
  probe    \* is it running, and when does its lease expire (0: it has none)

vars == <<now, log, task, probe>>

Failures == {"authentication", "model_unavailable", "rate_limit", "network"}
Categories == Failures \cup {"reachable"}
Event == [type : {"outcome", "probe_lease", "probe_cancel"},
          category : Categories \cup {"none"}, at : 0..MaxTime, until : 0..MaxTime]

TypeOK ==
  /\ now \in 0..MaxTime
  /\ log \in Seq(Event) /\ Len(log) <= MaxEvents
  /\ task \in [Tasks -> {"idle", "running"}]
  /\ probe \in [Probes -> [on : BOOLEAN, lease : 0..MaxTime]]

Init ==
  /\ now = 0 /\ log = <<>>
  /\ task = [t \in Tasks |-> "idle"]
  /\ probe = [p \in Probes |-> [on |-> FALSE, lease |-> 0]]

-----------------------------------------------------------------------------
(* deriveState() *)

Outcomes(l) == SelectSeq(l, LAMBDA e : e.type = "outcome")

\* The failures since the last healthy outcome.
Trailing(l) ==
  LET o == Outcomes(l) IN
  SubSeq(o, SelectLastInSeq(o, LAMBDA e : e.category = "reachable") + 1, Len(o))

Failed(l, category) == \E n \in DOMAIN Trailing(l) : Trailing(l)[n].category = category

Latest(s, category) == s[SelectLastInSeq(s, LAMBDA e : e.category = category)]

Reason(l) ==
  CASE Failed(l, "model_unavailable") -> "model_unavailable"
    [] ~Failed(l, "model_unavailable") /\ Failed(l, "authentication") -> "authentication"
    [] ~Failed(l, "model_unavailable") /\ ~Failed(l, "authentication") ->
         IF Failed(l, "rate_limit") THEN "rate_limit"
         ELSE IF Len(Trailing(l)) >= Threshold THEN "failures" ELSE "none"

RetryAt(l) ==
  CASE Reason(l) = "rate_limit" -> Latest(Trailing(l), "rate_limit").until
    [] Reason(l) = "failures" -> Last(Trailing(l)).at + Cooldown
    [] OTHER -> 0

\* Mutant: a lease has no expiry.
InFlightForever(l) == l # <<>> /\ Last(l).type = "probe_lease"

\* The latest event is an unexpired lease.
InFlight(l) == l # <<>> /\ Last(l).type = "probe_lease" /\ Last(l).until > now

\* Mutant: a route that has cooled down is closed again.
StateCooled(l) ==
  IF InFlight(l) THEN "half-open"
  ELSE CASE Reason(l) = "none" -> "closed"
         [] Reason(l) \in {"authentication", "model_unavailable"} -> "open"
         [] OTHER -> IF now < RetryAt(l) THEN "open" ELSE "closed"

State(l) ==
  IF InFlight(l) THEN "half-open"
  ELSE CASE Reason(l) = "none" -> "closed"
         [] Reason(l) \in {"authentication", "model_unavailable"} -> "open"
         [] OTHER -> IF now < RetryAt(l) THEN "open" ELSE "half-open"

NeedsRecovery(l) == Reason(l) \in {"authentication", "model_unavailable"}
CanProbe(l) == State(l) = "closed" \/ (State(l) = "half-open" /\ ~InFlight(l))
CanRecoveryProbe(l) == ~InFlight(l) /\ (State(l) = "half-open" \/ NeedsRecovery(l))

-----------------------------------------------------------------------------
(* Events *)

LogEvent(type, category, until) ==
  /\ Len(log) < MaxEvents /\ {until, now + Cooldown} \subseteq 0..MaxTime   \* bounds
  /\ log' = Append(log, [type |-> type, category |-> category, at |-> now, until |-> until])

\* record(): any outcome that says something of the provider.
Record ==
  \/ \E k \in Categories \ {"rate_limit"} : LogEvent("outcome", k, 0)
  \/ \E d \in RetryDelays : LogEvent("outcome", "rate_limit", now + d)

-----------------------------------------------------------------------------
(* Ordinary tasks *)

\* assertTaskAllowed(), at the start of runInvocation.
StartTask(t) ==
  /\ task[t] = "idle" /\ State(log) = "closed"
  /\ task' = [task EXCEPT ![t] = "running"]
  /\ UNCHANGED <<now, log, probe>>

\* The task ends, perhaps much later, and its outcome is recorded if it has impact.
EndTask(t) ==
  /\ task[t] = "running"
  /\ task' = [task EXCEPT ![t] = "idle"]
  /\ Record \/ UNCHANGED log
  /\ UNCHANGED <<now, probe>>

-----------------------------------------------------------------------------
(* Probes *)

\* beginProbe(): a probe of a closed route needs no lease.
BeginProbe(p, recovery) ==
  /\ ~probe[p].on /\ ~InFlight(log)
  /\ State(log) = "open" => NeedsRecovery(log)
  /\ NeedsRecovery(log) => recovery
  /\ probe' = [probe EXCEPT ![p] = [on |-> TRUE, lease |-> IF State(log) = "closed" THEN 0 ELSE now + Lease]]
  /\ IF State(log) = "closed" THEN UNCHANGED log ELSE LogEvent("probe_lease", "none", now + Lease)
  /\ UNCHANGED <<now, task>>

Finish(p) == probe[p].on /\ probe' = [probe EXCEPT ![p] = [on |-> FALSE, lease |-> 0]]

\* An answer without impact counts as healthy; an error after dispatch is recorded.
EndProbe(p) == Finish(p) /\ Record /\ UNCHANGED <<now, task>>

\* An error before dispatch, or one without impact: the lease, if any, is cancelled.
CancelProbe(p) ==
  /\ Finish(p)
  /\ IF probe[p].lease > 0 THEN LogEvent("probe_cancel", "none", 0) ELSE UNCHANGED log
  /\ UNCHANGED <<now, task>>

\* The gateway is restarted: the log is a file, clients and their results are lost.
Restart ==
  /\ task' = [t \in Tasks |-> "idle"]
  /\ probe' = [p \in Probes |-> [on |-> FALSE, lease |-> 0]]
  /\ UNCHANGED <<now, log>>

Tick == now < MaxTime /\ now' = now + 1 /\ UNCHANGED <<log, task, probe>>

Next ==
  \/ \E t \in Tasks : StartTask(t) \/ EndTask(t)
  \/ \E p \in Probes :
       \/ \E recovery \in BOOLEAN : BeginProbe(p, recovery)
       \/ EndProbe(p) \/ CancelProbe(p)
  \/ Restart \/ Tick

Spec == Init /\ [][Next]_vars

\* Only time is sure to pass: clients may hang or vanish.
FairSpec == Spec /\ WF_vars(Tick)

-----------------------------------------------------------------------------
(* Properties *)

\* What the log says since the last healthy outcome, leases and cancellations aside.
Since(l) ==
  LET healthy == {n \in DOMAIN l : l[n].category = "reachable"} IN
  {n \in DOMAIN l : l[n].type = "outcome" /\ \A h \in healthy : n > h}

\* A task starts only if fewer than Threshold failures, and none that opens the
\* route at once, were recorded since the last healthy outcome, however much time
\* has passed: a cooled-down route waits for its probe.
TaskStartsClean ==
  [][\A t \in Tasks : task[t] = "idle" /\ task'[t] = "running" =>
       /\ Cardinality(Since(log)) < Threshold
       /\ \A n \in Since(log) : log[n].category = "network"]_vars

\* No lease is granted before the time the latest 429 asked for, unless a recovery
\* probe was requested explicitly for another reason.
RetryAfterHonoured ==
  [][\A n \in Since(log) :
       /\ log' # log /\ Last(log').type = "probe_lease"
       /\ log[n].category = "rate_limit"
       /\ \A m \in Since(log) : log[m].category \in {"rate_limit", "network"}
       /\ \A m \in Since(log) : log[m].category = "rate_limit" => m <= n
       => now >= log[n].until]_vars

\* A route that is not closed becomes closed only by a recorded healthy outcome:
\* neither time, nor a cancelled or expired lease, nor a restart closes it.
OnlySuccessCloses ==
  [][State(log) # "closed" /\ (State(log) = "closed")' =>
       log' # log /\ Last(log').category = "reachable"]_vars

\* A broken route is left alone: no task starts on it, no lease is granted too
\* early, and nothing but a healthy outcome closes it, in whatever order late
\* outcomes, leases, cancellations and restarts reach the log.
RouteGuarded == []TypeOK /\ TaskStartsClean /\ RetryAfterHonoured /\ OnlySuccessCloses

\* Whatever hangs or crashes, a probe is possible again and again.
Recoverable == []<>(CanProbe(log) \/ CanRecoveryProbe(log))

=============================================================================
