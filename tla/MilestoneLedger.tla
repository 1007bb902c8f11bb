-------------------------- MODULE MilestoneLedger --------------------------
(***************************************************************************)
(* One milestone: the attempts made at it and the diagnoses of its         *)
(* failures (extensions/milestone-ledger.js), together with what their     *)
(* artifacts go through: the host's verdict in the request ledger, the     *)
(* patch in the workspace (scripts/artifact-apply.mjs) and the acceptance  *)
(* receipt (emitFinalAcceptance of scripts/gateway.mjs).                   *)
(*                                                                         *)
(* One gateway at a time, that may die and be replaced at any moment, also *)
(* between two writes of one handler. Transactions of the milestone file   *)
(* are atomic. An attempt is its ordinal in the milestone. Write scopes of *)
(* attempts may be disjoint, so the scope locks keep nothing apart here. A *)
(* caller knows the previous failure it has to quote.                      *)
(***************************************************************************)
EXTENDS Naturals, Sequences, FiniteSets, SequencesExt

CONSTANTS
  T0,                          \* attempts the host's checks alone accept; the others are reviewed
  MaxAttempts, MaxDiagnoses, MaxInstance,   \* bounds
  None

ASSUME MilestoneAssumption ==
  /\ T0 \subseteq 1..MaxAttempts /\ None \notin Nat \cup BOOLEAN
  /\ MaxAttempts \in Nat /\ MaxDiagnoses \in Nat /\ MaxInstance \in Nat \ {0}

VARIABLES
  att,        \* what the milestone's file says of each attempt
  reset,      \* resetOrdinal: failures up to here no longer count
  diagnoses,
  instance,   \* which gateway is alive
  run,        \* attempts that a dispatch of this gateway is running
  final,      \* does the dispatch record of a failure say that a model started
  host,       \* the ledger's artifact record and the verdict on it
  receipt,    \* task_accepted in the request ledger
  step,       \* where apply_artifact or emitFinalAcceptance of this gateway is
  tree,       \* how often the patch was put into the workspace
  busy        \* a handler between two of its writes, which nothing but a crash can part

vars == <<att, reset, diagnoses, instance, run, final, host, receipt, step, tree, busy>>
ledger == <<final, host, receipt>>

Attempts == 1..MaxAttempts
Statuses == {"reserved", "started", "in_doubt", "failed", "awaiting-artifact", "applying",
             "applied", "verified-not-accepted", "superseded", "abandoned", "accepted"}
Attempt == [status : Statuses, by : 1..MaxInstance, started : BOOLEAN, strike : BOOLEAN,
            artifact : BOOLEAN, applyBy : 0..MaxInstance,
            supersedes : SUBSET Attempts]
Diagnosis == [pair : Attempts \X Attempts, escalate : BOOLEAN,
              after : Attempts \cup {None}, consumer : Attempts \cup {None}]

ASSUME NoneAssumption == None \notin Attempt

Idle == [at |-> "nothing", a |-> None]
At(s, a) == [at |-> s, a |-> a]

TypeOK ==
  /\ att \in [Attempts -> Attempt \cup {None}]
  /\ reset \in 0..MaxAttempts
  /\ diagnoses \in Seq(Diagnosis) /\ Len(diagnoses) <= MaxDiagnoses
  /\ instance \in 1..MaxInstance /\ run \subseteq Attempts
  /\ final \in [Attempts -> BOOLEAN \cup {None}]
  /\ host \in [Attempts -> {"none", "pending", "completed", "failed"}]
  /\ receipt \in [Attempts -> {"missing", "started", "accepted"}]
  /\ step \in [Attempts -> {"none", "check", "patch", "complete", "event", "close"}]
  /\ tree \in [Attempts -> Nat]
  /\ busy \in {Idle} \cup [at : {"artifact", "verify", "recheck", "emit"}, a : Attempts]

Init ==
  /\ att = [a \in Attempts |-> None] /\ reset = 0 /\ diagnoses = <<>>
  /\ instance = 1 /\ run = {} /\ busy = Idle
  /\ final = [a \in Attempts |-> None] /\ host = [a \in Attempts |-> "none"]
  /\ receipt = [a \in Attempts |-> "missing"]
  /\ step = [a \in Attempts |-> "none"] /\ tree = [a \in Attempts |-> 0]

-----------------------------------------------------------------------------
Made == {a \in Attempts : att[a] # None}
In(statuses) == {a \in Made : att[a].status \in statuses}
Later(a) == {b \in Made : b > a}
IsNext(a) == a \notin Made /\ 1..(a - 1) \subseteq Made

\* Failures that count: model runs since the last pass, and the last two.
Strikes == {a \in Made : att[a].strike /\ a > reset}
Pair == LET last == Max(Strikes) IN <<Max(Strikes \ {last}), last>>

\* Mutant: a third failure is allowed.
DiagnosisDueLater == Cardinality(Strikes) > 2

DiagnosisDue == Cardinality(Strikes) >= 2

Set(a, m) == att' = [att EXCEPT ![a] = m]

-----------------------------------------------------------------------------
(* dispatch of an attempt *)

\* The diagnosis that lets the next attempt through.
Releases(d) ==
  /\ d.pair = Pair /\ d.consumer = None /\ ~d.escalate
  /\ d.after \in {None, Max(Made)}

New(a) ==
  [status |-> "reserved", by |-> instance, started |-> FALSE, strike |-> FALSE,
   artifact |-> FALSE, applyBy |-> 0, supersedes |-> In({"awaiting-artifact"})]

\* Mutant: what a dead gateway left behind blocks nothing.
ReserveOverDead(a) ==
  /\ busy = Idle /\ IsNext(a)
  /\ \A b \in In({"in_doubt", "reserved", "started", "applying", "applied",
                  "verified-not-accepted"}) : att[b].by # instance
  /\ IF ~DiagnosisDue THEN UNCHANGED diagnoses
     ELSE \E i \in DOMAIN diagnoses :
            /\ Releases(diagnoses[i])
            /\ diagnoses' = [diagnoses EXCEPT ![i].consumer = a]
  /\ Set(a, New(a)) /\ run' = run \cup {a}
  /\ UNCHANGED <<reset, instance, step, tree, busy, ledger>>

Reserve(a) ==
  /\ busy = Idle /\ IsNext(a)
  /\ In({"in_doubt", "reserved", "started", "applying", "applied", "verified-not-accepted"}) = {}
  /\ IF ~DiagnosisDue THEN UNCHANGED diagnoses
     ELSE \E i \in DOMAIN diagnoses :
            /\ Releases(diagnoses[i])
            /\ diagnoses' = [diagnoses EXCEPT ![i].consumer = a]
  /\ Set(a, New(a)) /\ run' = run \cup {a}
  /\ UNCHANGED <<reset, instance, step, tree, busy, ledger>>

\* markStarted(): the attempts it was to replace are closed, those that are
\* still artifacts nobody has begun to apply.
Started(a) ==
  [b \in Attempts |->
    IF b = a THEN [att[a] EXCEPT !.status = "started", !.started = TRUE, !.supersedes = {}]
    ELSE IF att[a].status = "reserved" /\ b \in att[a].supersedes
              /\ att[b].status = "awaiting-artifact"
      THEN [att[b] EXCEPT !.status = "superseded"]
      ELSE att[b]]

ModelStarts(a) ==
  /\ busy = Idle /\ a \in run /\ att[a].status = "reserved"
  /\ att' = Started(a)
  /\ UNCHANGED <<reset, diagnoses, instance, run, step, tree, busy, ledger>>

\* The dispatch fails and it is known whether the model ran, or it is not.
RunFails(a) ==
  /\ busy = Idle /\ a \in run /\ run' = run \ {a}
  /\ \/ att' = [Started(a) EXCEPT ![a].status = "failed", ![a].strike = TRUE] /\ UNCHANGED final
     \/ /\ ~att[a].started /\ Set(a, [att[a] EXCEPT !.status = "failed"])
        /\ UNCHANGED final
     \/ /\ ~att[a].started /\ Set(a, [att[a] EXCEPT !.status = "in_doubt"])
        /\ \E proof \in BOOLEAN \cup {None} : final' = [final EXCEPT ![a] = proof]
  /\ UNCHANGED <<reset, diagnoses, instance, host, receipt, step, tree, busy>>

\* The dispatch leaves an artifact: registerHostPending(), startMilestone(),
\* registerArtifact().
RunDelivers(a) ==
  /\ busy = Idle /\ a \in run /\ run' = run \ {a}
  /\ host' = [host EXCEPT ![a] = "pending"] /\ busy' = At("artifact", a)
  /\ UNCHANGED <<att, reset, diagnoses, instance, final, receipt, step, tree>>

RegisterArtifact(a) ==
  /\ busy = At("artifact", a) /\ busy' = Idle
  /\ att' = [Started(a) EXCEPT ![a].status = "awaiting-artifact", ![a].artifact = TRUE]
  /\ UNCHANGED <<reset, diagnoses, instance, run, step, tree, ledger>>

-----------------------------------------------------------------------------
(* apply_artifact *)

\* Mutant: the intent to apply is not written down.
BeginApplySilently(a) ==
  /\ busy = Idle /\ a \in In({"awaiting-artifact"}) /\ host[a] = "pending" /\ step[a] = "none"
  /\ step' = [step EXCEPT ![a] = "check"]
  /\ UNCHANGED <<att, reset, diagnoses, instance, run, tree, busy, ledger>>

BeginApply(a) ==
  /\ busy = Idle /\ a \in In({"awaiting-artifact"}) /\ host[a] = "pending" /\ step[a] = "none"
  /\ Set(a, [att[a] EXCEPT !.status = "applying", !.applyBy = instance])
  /\ step' = [step EXCEPT ![a] = "check"]
  /\ UNCHANGED <<reset, diagnoses, instance, run, tree, busy, ledger>>

\* git apply --check
CheckPatch(a) ==
  /\ busy = Idle /\ step[a] = "check"
  /\ \/ step' = [step EXCEPT ![a] = "patch"] /\ UNCHANGED att
     \/ /\ step' = [step EXCEPT ![a] = "none"]
        /\ Set(a, [att[a] EXCEPT !.status = "awaiting-artifact"])
  /\ UNCHANGED <<reset, diagnoses, instance, run, tree, busy, ledger>>

\* git apply. If it fails the attempt stays as it is, for a person to look at.
Patch(a) ==
  /\ busy = Idle /\ step[a] = "patch"
  /\ \/ /\ tree' = [tree EXCEPT ![a] = @ + 1]
        /\ step' = [step EXCEPT ![a] = "complete"]
     \/ step' = [step EXCEPT ![a] = "none"] /\ UNCHANGED tree
  /\ UNCHANGED <<att, reset, diagnoses, instance, run, busy, ledger>>

CompleteApply(a) ==
  /\ busy = Idle /\ step[a] = "complete" /\ step' = [step EXCEPT ![a] = "none"]
  /\ att[a].status = "applying" /\ att[a].applyBy = instance
  /\ Set(a, [att[a] EXCEPT !.status = "applied"])
  /\ UNCHANGED <<reset, diagnoses, instance, run, tree, busy, ledger>>

-----------------------------------------------------------------------------
(* record_host_verification *)

\* assertVerifiable(): no later attempt is open, and this one is.
Verifiable(a) ==
  /\ Later(a) \cap In({"reserved", "started", "in_doubt", "applying"}) = {}
  /\ att[a].artifact
  /\ att[a].status \notin {"superseded", "abandoned", "accepted", "in_doubt", "applying"}

\* The ledger's verdict: what is written first stays.
RecordVerdict(a) ==
  /\ busy = Idle /\ a \in Made /\ host[a] # "none" /\ Verifiable(a)
  /\ \E verdict \in {"completed", "failed"} :
       /\ host[a] \in {"pending", verdict}
       /\ host' = [host EXCEPT ![a] = verdict]
  /\ busy' = At(IF host[a] = "completed" THEN "recheck" ELSE "verify", a)
  /\ UNCHANGED <<att, reset, diagnoses, instance, run, final, receipt, step, tree>>

\* The last attempt that a model worked on.
Latest(a) == ~\E b \in Later(a) : att[b].started

\* verify() throws: the verdict is kept, the milestone does not learn of it.
VerifyRefused(a) ==
  /\ busy \in {At("verify", a), At("recheck", a)}
  /\ att[a].status # "verified-not-accepted" /\ host[a] = "completed" /\ ~Latest(a)
  /\ busy' = Idle
  /\ UNCHANGED <<att, reset, diagnoses, instance, run, step, tree, ledger>>

VerifyFailed(a) ==
  /\ busy = At("verify", a) /\ host[a] = "failed" /\ busy' = Idle
  /\ Set(a, [att[a] EXCEPT !.status = "failed", !.strike = TRUE])
  /\ UNCHANGED <<reset, diagnoses, instance, run, step, tree, ledger>>

\* Mutant: any pass counts, however old the attempt.
VerifyPassedLate(a) ==
  /\ busy \in {At("verify", a), At("recheck", a)} /\ host[a] = "completed"
  /\ Set(a, [att[a] EXCEPT !.status = "verified-not-accepted"]) /\ reset' = a
  /\ busy' = IF busy.at = "verify" /\ a \in T0 THEN At("emit", a) ELSE Idle
  /\ UNCHANGED <<diagnoses, instance, run, step, tree, ledger>>

\* The failures so far are forgiven. Acceptance follows if this call was the
\* first to complete a T0 artifact.
VerifyPassed(a) ==
  /\ busy \in {At("verify", a), At("recheck", a)} /\ host[a] = "completed"
  /\ IF att[a].status = "verified-not-accepted" THEN UNCHANGED <<att, reset>>
     ELSE /\ Latest(a)
          /\ Set(a, [att[a] EXCEPT !.status = "verified-not-accepted"])
          /\ reset' = a
  /\ busy' = IF busy.at = "verify" /\ a \in T0 THEN At("emit", a) ELSE Idle
  /\ UNCHANGED <<diagnoses, instance, run, step, tree, ledger>>

-----------------------------------------------------------------------------
(* emitFinalAcceptance *)

\* Mutant: an old receipt counts, finished or not.
EmitAnyReceipt(a) ==
  /\ step[a] = "none" /\ att[a].status = "verified-not-accepted"
  /\ IF receipt[a] = "missing"
     THEN /\ receipt' = [receipt EXCEPT ![a] = "started"]
          /\ step' = [step EXCEPT ![a] = "event"]
     ELSE step' = [step EXCEPT ![a] = "close"] /\ UNCHANGED receipt
  /\ UNCHANGED <<att, reset, diagnoses, instance, run, final, host, tree>>

\* The receipt is claimed, or an old one is replayed; one without an end is in
\* doubt and nothing more happens.
Emit(a) ==
  /\ step[a] = "none" /\ att[a].status = "verified-not-accepted"
  /\ CASE receipt[a] = "missing" ->
            /\ receipt' = [receipt EXCEPT ![a] = "started"]
            /\ step' = [step EXCEPT ![a] = "event"]
       [] receipt[a] = "accepted" -> step' = [step EXCEPT ![a] = "close"] /\ UNCHANGED receipt
       [] OTHER -> UNCHANGED <<receipt, step>>
  /\ UNCHANGED <<att, reset, diagnoses, instance, run, final, host, tree>>

EmitVerified(a) == busy = At("emit", a) /\ busy' = Idle /\ Emit(a)

\* The post-change review of an artifact that is not T0 approves it.
Review(a) == /\ busy = Idle /\ a \in Made \ T0 /\ host[a] = "completed" /\ Emit(a)
             /\ UNCHANGED busy

AcceptanceEvent(a) ==
  /\ busy = Idle /\ step[a] = "event" /\ att[a].status = "verified-not-accepted"
  /\ receipt' = [receipt EXCEPT ![a] = "accepted"]
  /\ step' = [step EXCEPT ![a] = "close"]
  /\ UNCHANGED <<att, reset, diagnoses, instance, run, final, host, tree, busy>>

Close(a) ==
  /\ busy = Idle /\ step[a] = "close" /\ step' = [step EXCEPT ![a] = "none"]
  /\ att[a].status = "verified-not-accepted"
  /\ Set(a, [att[a] EXCEPT !.status = "accepted"])
  /\ UNCHANGED <<reset, diagnoses, instance, run, tree, busy, ledger>>

-----------------------------------------------------------------------------
(* abandon_artifact, diagnose_milestone, reconcile_milestone *)

\* Mutant: only the milestone is asked.
AbandonClaimed(a) ==
  /\ busy = Idle /\ a \in Made /\ att[a].artifact
  /\ att[a].status \in {"failed", "awaiting-artifact", "applied", "verified-not-accepted"}
  /\ Set(a, [att[a] EXCEPT !.status = "abandoned"])
  /\ UNCHANGED <<reset, diagnoses, instance, run, step, tree, busy, ledger>>

Abandon(a) ==
  /\ busy = Idle /\ a \in Made /\ att[a].artifact
  /\ ~(host[a] = "completed" /\ receipt[a] # "missing")
  /\ att[a].status \in {"failed", "awaiting-artifact", "applied", "verified-not-accepted"}
  /\ Set(a, [att[a] EXCEPT !.status = "abandoned"])
  /\ UNCHANGED <<reset, diagnoses, instance, run, step, tree, busy, ledger>>

\* A diagnosis that was spent on an attempt no model worked on may be followed
\* by another, made after that attempt.
Diagnose(escalate, after) ==
  /\ busy = Idle /\ DiagnosisDue /\ Len(diagnoses) < MaxDiagnoses
  /\ LET matching == SelectSeq(diagnoses, LAMBDA d : d.pair = Pair)
     IN IF after = None THEN matching = <<>>
        ELSE /\ matching # <<>> /\ Last(matching).consumer = after
             /\ Max(Made) = after /\ att[after].status = "failed" /\ ~att[after].started
  /\ diagnoses' = Append(diagnoses, [pair |-> Pair, escalate |-> escalate,
                                     after |-> after, consumer |-> None])
  /\ UNCHANGED <<att, reset, instance, run, step, tree, busy, ledger>>

\* Only a dispatch record that knows whether a model started releases an attempt.
Reconcile(a) ==
  /\ busy = Idle /\ a \in In({"reserved", "started", "in_doubt"}) /\ final[a] \in BOOLEAN
  /\ att[a].started => final[a]
  /\ Set(a, [att[a] EXCEPT !.status = "failed", !.started = @ \/ final[a],
                           !.strike = @ \/ final[a]])
  /\ UNCHANGED <<reset, diagnoses, instance, run, step, tree, busy, ledger>>

\* The gateway dies and another takes its place.
Restart ==
  /\ instance < MaxInstance /\ instance' = instance + 1
  /\ run' = {} /\ busy' = Idle /\ step' = [a \in Attempts |-> "none"]
  /\ UNCHANGED <<att, reset, diagnoses, tree, ledger>>

Next ==
  \/ Restart
  \/ \E a \in Attempts :
       \/ Reserve(a) \/ ModelStarts(a) \/ RunFails(a) \/ RunDelivers(a) \/ RegisterArtifact(a)
       \/ BeginApply(a) \/ CheckPatch(a) \/ Patch(a) \/ CompleteApply(a)
       \/ RecordVerdict(a) \/ VerifyRefused(a) \/ VerifyFailed(a) \/ VerifyPassed(a)
       \/ EmitVerified(a) \/ Review(a) \/ AcceptanceEvent(a) \/ Close(a)
       \/ Abandon(a) \/ Reconcile(a)
  \/ \E escalate \in BOOLEAN, after \in Attempts \cup {None} : Diagnose(escalate, after)

Spec == Init /\ [][Next]_vars

-----------------------------------------------------------------------------
(* Properties *)

\* What the milestone calls accepted has passed the host's checks and has a
\* durable acceptance receipt: the two files never disagree in that direction,
\* wherever the gateway dies (milestone-acceptance.js, accepted()).
AcceptedIsProven ==
  \A a \in In({"accepted"}) :
    host[a] = "completed" /\ receipt[a] = "accepted"

\* An artifact whose acceptance is claimed or certain is not abandoned,
\* replaced or failed: abandon() looks at the receipt, everything else at the
\* milestone.
ClaimedStaysClosed ==
  \A a \in Attempts :
    receipt[a] # "missing" => att[a].status \in {"verified-not-accepted", "accepted"}

\* While a passing attempt waits for its acceptance no later model has worked
\* on the milestone: a late pass hides no newer failure (verify(), STALE_PASS).
VerifiedIsNewest == \A a \in In({"verified-not-accepted"}) : Latest(a)

\* A patch is put into the workspace once, and an attempt whose patch is there
\* never counts as one that can be applied or silently replaced.
WorkspaceKnown ==
  \A a \in Made :
    /\ tree[a] <= 1
    /\ tree[a] = 1 => att[a].status \notin {"reserved", "started", "awaiting-artifact", "superseded"}
    /\ att[a].status = "applied" => tree[a] = 1

\* An attempt made after two failures that count was let through by a
\* diagnosis, and each diagnosis let one attempt through. Failures of host
\* checks are left out: an older artifact may fail its checks after the attempt
\* was made (reserve(), diagnose()).
AttemptsDiagnosed ==
  /\ \A a \in Made :
       Cardinality({b \in Strikes : b < a /\ ~att[b].artifact}) >= 2
         => \E i \in DOMAIN diagnoses : diagnoses[i].consumer = a
  /\ \A i, j \in DOMAIN diagnoses :
       i # j /\ diagnoses[i].consumer # None => diagnoses[i].consumer # diagnoses[j].consumer

\* The milestone file is well formed, its history of failures and diagnoses
\* included, wherever the gateway died while it was written.
WellFormed == TypeOK /\ AttemptsDiagnosed

\* An attempt of a dead gateway, or one whose run is unknown, blocks every new
\* attempt and stays as it is, until its dispatch record proves how it ended.
Doubtful(a) ==
  \/ att[a].status = "in_doubt"
  \/ att[a].status \in {"reserved", "started"} /\ att[a].by # instance
  \/ att[a].status = "applying" /\ att[a].applyBy # instance
DoubtBlocks ==
  [][\A a \in Made : Doubtful(a) =>
       /\ Made' = Made
       /\ att'[a] # att[a] => att'[a].status = "failed" /\ final[a] \in BOOLEAN]_vars

=============================================================================
