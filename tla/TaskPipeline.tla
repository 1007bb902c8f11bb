----------------------------- MODULE TaskPipeline -----------------------------
(***************************************************************************)
(* A run of tasks from dispatch to final acceptance: runInvocation(),       *)
(* emitFinalAcceptance() and record_host_verification of                    *)
(* scripts/gateway.mjs over the host records of                             *)
(* extensions/request-ledger.js and the sidecar milestone ledger.           *)
(*                                                                          *)
(* RequestLedger models the at-most-once execution below this, so a request *)
(* runs once here, and MilestoneLedger the attempts of one milestone, of    *)
(* which only the status of the artifact is kept.  A handler of the gateway *)
(* that does not await is one action; a gateway that dies in the middle of  *)
(* one leaves behind a prefix of what it writes.                            *)
(***************************************************************************)
EXTENDS StageHandoff

CONSTANTS
    Task,       \* [requests -> task records]
    Plans,      \* bounds: records [asked, host, waits, execution, shared, deaths]: the requests
                \* that are dispatched, the artifact a host follows and whether it waits or
                \* reads (HostHandoff), whether the host may execute checks, whether a
                \* second gateway works on the ledger, how often a gateway dies
    Patches     \* what a worker may deliver: records [files, lines, shared, docs]

Requests == DOMAIN Task
Writers  == {r \in Requests : Task[r].stage = "implementing"}
Reviews  == {r \in Requests : Task[r].stage \in {"pre-review", "post-review"}}

ASSUME PipelineAssumption ==
    /\ \A r \in Requests : Task[r].stage \in Stages /\ Task[r].version \in 0..2
    /\ \A r \in Requests : Task[r].version = 0 => Task[r].inputs = {}
    /\ \A r \in Requests : \A i \in Task[r].inputs : i.request \in Requests
    /\ \A r \in Writers : Task[r].tier \in {"T0", "T1", "T2"} /\ Task[r].profile \in Profiles
    /\ \A p \in Plans : p.asked \subseteq Requests /\ p.deaths \in Nat

VARIABLES
    plan, deaths,
    status,        \* of the execution of a request: idle, waiting, running, ended
    outcome,       \* outcomes/<request>.json: [state] or [state, contract]
    host,          \* host/<request>/: [state], with state "torn" while original.json is alone,
                   \* or [state, tier, contract] once pending.json is there
    attestation,   \* host/<request>/attestation.json: none, completed, failed
    verifier,      \* host/<request>/verifier.json
    milestone,     \* status of the artifact in the milestone ledger: none, started,
                   \* awaiting-artifact, failed, verified-not-accepted, accepted, abandoned
    receipt,       \* the acceptance was recorded in the request ledger
    checked,       \* proofs that another gateway has found absent and may write against
    approvals      \* history: pairs of a review that approved and the artifact it approved

records == <<outcome, host, attestation, verifier, milestone, receipt>>
vars == <<plan, deaths, status, records, checked, approvals>>

Init ==
    /\ plan \in Plans /\ deaths = 0
    /\ status = [r \in Requests |-> "idle"]
    /\ outcome = [r \in Requests |-> [state |-> "pending"]]
    /\ host = [r \in Requests |-> [state |-> "none"]]
    /\ attestation = [r \in Requests |-> "none"] /\ verifier = [r \in Requests |-> FALSE]
    /\ milestone = [r \in Requests |-> "none"] /\ receipt = [r \in Requests |-> FALSE]
    /\ checked = {} /\ approvals = {}

(************************** reading the ledger *****************************)

Pending(r) == host[r].state = "pending"

\* getEffectiveResult(): the host's verdict before the verifier's.
Effective(r) ==
    IF ~Pending(r) THEN "none"
    ELSE IF attestation[r] # "none" THEN attestation[r]
    ELSE IF verifier[r] THEN "completed" ELSE "awaiting-host-verification"

\* getOutcome().
State(r) ==
    IF Pending(r) THEN Effective(r)
    ELSE IF host[r].state = "torn" THEN "indeterminate" ELSE outcome[r].state

ContractOf(r) == IF Pending(r) THEN host[r].contract ELSE outcome[r].contract

\* Requests named as input in a stage.
InputIn(r, stage) == {i.request : i \in {j \in Task[r].inputs : j.stage = stage}}

(****************************** dispatching ********************************)

\* The artifact a post-review is about: its implementing input, or the one named.
Reviewed(r) ==
    LET inputs == InputIn(r, "implementing")
    IN  IF inputs # {} THEN CHOOSE i \in inputs : TRUE ELSE Task[r].of

Proven(i, tier) ==
    /\ i \in Writers /\ Effective(i) = "completed" /\ host[i].tier = tier

SameAnchor(r, i) ==
    /\ host[i].contract.run = Task[r].run
    /\ host[i].contract.mode = "linked" =>
          Task[r].version = 2 /\ i \in InputIn(r, "implementing") /\ host[i].contract.phase = Task[r].phase

\* References of a post-review: it names no other artifact than its input; T1
\* names its proven artifact; T2 with a direct implementing input has the
\* approved pre-review beside it.
ReviewReference(r) ==
    LET i == Reviewed(r) IN
    /\ Task[r].version = 2 /\ InputIn(r, "implementing") # {} => Task[r].of \in {"none", i}
    /\ Task[r].tier = "T1" => Proven(Task[r].of, "T1") /\ SameAnchor(r, Task[r].of)
    /\ Task[r].tier = "T2" /\ InputIn(r, "verifying") = {} =>
          /\ Proven(i, "T2") /\ SameAnchor(r, i)
          /\ \E g \in InputIn(r, "pre-review") :
                State(g) = "completed" /\ Matches(Task[r], [request |-> g, stage |-> "pre-review"], ContractOf(g))

\* A verifier without handoff stands in for a host that may not execute.
Fallback(r) == Task[r].stage = "verifying" /\ Task[r].version = 0

FallbackReference(r) ==
    LET i == Task[r].of IN
    /\ ~plan.execution /\ i \in Writers /\ Pending(i)
    /\ host[i].tier \in {"T0", "T1"} /\ host[i].contract.run = Task[r].run

VerifierReference(r) ==
    IF Fallback(r) THEN FallbackReference(r)
    ELSE \E i \in InputIn(r, "implementing") : Proven(i, "T2") /\ host[i].contract.run = Task[r].run

\* A T2 write needs an approved pre-review that planned exactly its milestone.
MilestoneBound(r) ==
    TierLevel(Task[r]) = "T2" =>
        \E g \in InputIn(r, "pre-review") :
            State(g) = "completed" /\ ContractOf(g).decision = "approve" /\ r \in Task[g].binds

\* runInvocation() before the queue.
Admissible(r) ==
    /\ ValidHandoff(Task[r])
    /\ r \in Writers => DeclaredFits(Task[r]) /\ MilestoneBound(r)
    /\ Task[r].stage = "post-review" => ReviewReference(r)
    /\ Task[r].stage = "verifying" => VerifierReference(r)

Failed      == [state |-> "failed"]
Completed(c) == [state |-> "completed", contract |-> c]

\* The result is stored and recordOutcome() derives the outcome from it.
End(r, o) == /\ status' = [status EXCEPT ![r] = "ended"]
             /\ outcome' = [outcome EXCEPT ![r] = o]

Dispatch(r) ==
    /\ r \in plan.asked /\ status[r] = "idle"
    /\ IF Admissible(r) THEN status' = [status EXCEPT ![r] = "waiting"] /\ UNCHANGED outcome
       ELSE End(r, Failed)
    /\ UNCHANGED <<plan, deaths, host, attestation, verifier, milestone, receipt, checked, approvals>>

\* dependencyGate() with prepareHandoff()'s gate: every predecessor completed
\* and is the one this task was written for.
GateOpens(r) == \A i \in Task[r].inputs :
    State(i.request) = "completed" /\ Matches(Task[r], i, ContractOf(i.request))

Start(r) ==
    /\ status[r] = "waiting" /\ GateOpens(r)
    /\ status' = [status EXCEPT ![r] = "running"]
    /\ milestone' = IF r \in Writers THEN [milestone EXCEPT ![r] = "started"] ELSE milestone
    /\ UNCHANGED <<plan, deaths, outcome, host, attestation, verifier, receipt, checked, approvals>>

\* A predecessor failed, is in doubt or does not match, or the queue timed out.
Refuse(r) ==
    /\ status[r] = "waiting" /\ End(r, Failed)
    /\ UNCHANGED <<plan, deaths, host, attestation, verifier, milestone, receipt, checked, approvals>>

(***************************** final acceptance ****************************)

\* assertMilestoneAcceptance(); an acceptance recorded before is replayed.
Acceptable(i) == milestone[i] = "verified-not-accepted" \/ (milestone[i] = "accepted" /\ receipt[i])

\* emitFinalAcceptance() past its checks: the receipt, then the milestone.
Accept(i) == /\ receipt' = [receipt EXCEPT ![i] = TRUE]
             /\ milestone' = [milestone EXCEPT ![i] = "accepted"]

(******************************* finishing *********************************)

\* A gateway that dies takes the executions it was running with it: their
\* requests are started and not finished, and stay so.
Died == /\ deaths < plan.deaths /\ deaths' = deaths + 1
        /\ status' = [r \in Requests |-> IF status[r] \in {"waiting", "running"} THEN "ended" ELSE status[r]]

Die ==
    /\ \E r \in Requests : status[r] \in {"waiting", "running"}
    /\ Died /\ UNCHANGED <<plan, records, checked, approvals>>

\* Any execution may fail; that of a writer fails its attempt.
Fail(r) ==
    /\ status[r] = "running" /\ End(r, Failed)
    /\ milestone' = IF r \in Writers THEN [milestone EXCEPT ![r] = "failed"] ELSE milestone
    /\ UNCHANGED <<plan, deaths, host, attestation, verifier, receipt, checked, approvals>>

Complete(r) ==
    /\ status[r] = "running" /\ r \notin Writers \cup Reviews /\ ~Fallback(r)
    /\ End(r, Completed(Contract(Task[r], "none")))
    /\ UNCHANGED <<plan, deaths, host, attestation, verifier, milestone, receipt, checked, approvals>>

Artifact(r) == [state |-> "pending", tier |-> TierLevel(Task[r]), contract |-> Contract(Task[r], "none")]

\* A worker delivers a patch within its tier: it waits for the host.  The
\* outcome says failed, which the host's record hides.
Deliver(r, p) ==
    /\ r \in Writers /\ status[r] = "running" /\ ~Exceeds(Task[r], p)
    /\ host' = [host EXCEPT ![r] = Artifact(r)]
    /\ milestone' = [milestone EXCEPT ![r] = "awaiting-artifact"]
    /\ End(r, Failed)
    /\ UNCHANGED <<plan, deaths, attestation, verifier, receipt, checked, approvals>>

\* The gateway dies between original.json and pending.json, or between
\* pending.json and the milestone ledger.
DeliverCut(r, p, bound) ==
    /\ r \in Writers /\ status[r] = "running" /\ ~Exceeds(Task[r], p)
    /\ host' = [host EXCEPT ![r] = IF bound THEN Artifact(r) ELSE [state |-> "torn"]]
    /\ Died
    /\ UNCHANGED <<plan, outcome, attestation, verifier, milestone, receipt, checked, approvals>>

\* What an approving review accepts: a proven artifact of its run.
AcceptedBy(r) ==
    LET i == Reviewed(r) IN
    /\ Task[r].stage = "post-review"
    /\ Proven(i, "T1") \/ (Proven(i, "T2") /\ i \in InputIn(r, "implementing"))
    /\ host[i].contract.run = Task[r].run

\* A review approves.  Requested changes end as a failure.
Approve(r) ==
    /\ r \in Reviews /\ status[r] = "running"
    /\ IF AcceptedBy(r)
       THEN /\ approvals' = approvals \cup {<<r, Reviewed(r)>>}
            /\ IF Acceptable(Reviewed(r))
               THEN Accept(Reviewed(r)) /\ End(r, Completed(Contract(Task[r], "approve")))
               ELSE End(r, Failed) /\ UNCHANGED <<receipt, milestone>>
       ELSE End(r, Completed(Contract(Task[r], "approve"))) /\ UNCHANGED <<receipt, milestone, approvals>>
    /\ UNCHANGED <<plan, deaths, host, attestation, verifier, checked>>

\* The gateway dies after the acceptance, before the outcome of the review.
ApproveCut(r) ==
    /\ r \in Reviews /\ status[r] = "running"
    /\ AcceptedBy(r) /\ Acceptable(Reviewed(r)) /\ Accept(Reviewed(r))
    /\ approvals' = approvals \cup {<<r, Reviewed(r)>>}
    /\ Died
    /\ UNCHANGED <<plan, outcome, host, attestation, verifier, checked>>

\* recordVerifierVerification(): no other proof of the artifact may be there.
VerifierMayWrite(i) ==
    ~verifier[i] /\ (attestation[i] = "none" \/ <<i, "verifier">> \in checked)

\* The fallback verifier passes.  For a T0 artifact it goes on to the
\* acceptance, which asks for a verdict in the milestone ledger.
VerifierPasses(r) ==
    LET i == Task[r].of IN
    /\ status[r] = "running" /\ Fallback(r)
    /\ IF VerifierMayWrite(i)
       THEN /\ verifier' = [verifier EXCEPT ![i] = TRUE]
            /\ LET own == attestation[i] = "none"
               IN  IF own /\ host[i].tier = "T0" /\ Acceptable(i)
                   THEN Accept(i) /\ End(r, Completed(Contract(Task[r], "none")))
                   ELSE /\ UNCHANGED <<receipt, milestone>>
                        /\ End(r, IF (own /\ host[i].tier = "T0") \/ attestation[i] = "failed" THEN Failed
                                  ELSE Completed(Contract(Task[r], "none")))
       ELSE End(r, Failed) /\ UNCHANGED <<verifier, receipt, milestone>>
    /\ UNCHANGED <<plan, deaths, host, attestation, checked, approvals>>

(*************************** the host's own checks *************************)

\* Mutant: the verifier's proof is not looked for.
HostBesideVerifier(i, verdict) == attestation[i] \in {"none", verdict}

\* Mutant: a second submission need not agree with the first.
HostMayContradict(i, verdict) == ~verifier[i] \/ <<i, "attestation">> \in checked

\* recordHostVerification(): no verifier proof, and no other verdict.
HostMayWrite(i, verdict) ==
    /\ ~verifier[i] \/ <<i, "attestation">> \in checked
    /\ attestation[i] \in {"none", verdict}

\* assertVerifiable(): the artifact is registered and not closed.
Verifiable(i) == milestone[i] \in {"awaiting-artifact", "failed", "verified-not-accepted"}

Attest(i, verdict) ==
    /\ Pending(i) /\ Verifiable(i) /\ HostMayWrite(i, verdict)
    /\ attestation' = [attestation EXCEPT ![i] = IF @ = "none" THEN verdict ELSE @]

Verdict(verdict) == IF verdict = "completed" THEN "verified-not-accepted" ELSE "failed"

\* record_host_verification: the proof, the milestone's verdict and, for a T0
\* artifact that was not completed before, the acceptance.
RecordHost(i, verdict) ==
    /\ Attest(i, verdict)
    /\ IF verdict = "completed" /\ Effective(i) # "completed" /\ host[i].tier = "T0"
       THEN Accept(i)
       ELSE milestone' = [milestone EXCEPT ![i] = Verdict(verdict)] /\ UNCHANGED receipt
    /\ UNCHANGED <<plan, deaths, status, outcome, host, verifier, checked, approvals>>

\* The gateway dies after the proof, or after the milestone's verdict.
RecordHostCut(i, verdict, proofOnly) ==
    /\ Attest(i, verdict)
    /\ milestone' = IF proofOnly THEN milestone ELSE [milestone EXCEPT ![i] = Verdict(verdict)]
    /\ Died
    /\ UNCHANGED <<plan, outcome, host, verifier, receipt, checked, approvals>>

\* Another gateway on the same ledger has found the other proof absent and
\* is about to write its own.
CheckAbsent(i, proof) ==
    /\ plan.shared /\ Pending(i)
    /\ IF proof = "attestation" THEN ~verifier[i] /\ Verifiable(i) ELSE attestation[i] = "none"
    /\ checked' = checked \cup {<<i, proof>>}
    /\ UNCHANGED <<plan, deaths, status, records, approvals>>

\* It writes after the artifact was closed meanwhile; the milestone refuses.
AttestLate(i, verdict) ==
    /\ <<i, "attestation">> \in checked /\ ~Verifiable(i) /\ attestation[i] = "none"
    /\ attestation' = [attestation EXCEPT ![i] = verdict]
    /\ UNCHANGED <<plan, deaths, status, outcome, host, verifier, milestone, receipt, checked, approvals>>

\* abandon_artifact.
Abandon(i) ==
    /\ Pending(i) /\ ~receipt[i] /\ Verifiable(i)
    /\ milestone' = [milestone EXCEPT ![i] = "abandoned"]
    /\ UNCHANGED <<plan, deaths, status, outcome, host, attestation, verifier, receipt, checked, approvals>>

(********************************* the whole *******************************)

Next ==
    \/ \E r \in Requests :
          \/ Dispatch(r) \/ Start(r) \/ Refuse(r) \/ Fail(r) \/ Complete(r)
          \/ Approve(r) \/ ApproveCut(r) \/ VerifierPasses(r)
    \/ \E r \in Writers, p \in Patches :
          Deliver(r, p) \/ \E bound \in BOOLEAN : DeliverCut(r, p, bound)
    \/ \E i \in Writers, verdict \in {"completed", "failed"} :
          RecordHost(i, verdict) \/ AttestLate(i, verdict) \/ \E proofOnly \in BOOLEAN : RecordHostCut(i, verdict, proofOnly)
    \/ \E i \in Writers : Abandon(i) \/ \E proof \in {"attestation", "verifier"} : CheckAbsent(i, proof)
    \/ Die

Spec == Init /\ [][Next]_vars

(********************************* properties ******************************)

\* getAcceptanceRecord(): a receipt counts for the proof it was written for.
Acceptance(i) ==
    IF Effective(i) # "completed" THEN "not-verified" ELSE IF receipt[i] THEN "accepted" ELSE "missing"

\* listHostOpen(): what the host still has to deal with.
ListedOpen == {i \in Writers : Pending(i) /\ Acceptance(i) # "accepted"}

\* projectTaskHandoff(): what the host is told to do next about an artifact.
Advice(i) ==
    CASE Effective(i) = "awaiting-host-verification" -> "host-verification-required"
      [] Effective(i) = "failed" -> "repair-required"
      [] OTHER -> IF Acceptance(i) = "accepted" THEN "accepted"
                  ELSE IF host[i].tier = "T0" THEN "acceptance-missing" ELSE "post-review-required"

Raced(i) == \E proof \in {"attestation", "verifier"} : <<i, proof>> \in checked

\* Final acceptance keeps the promise of its tier across all the requests of a
\* run: a durable proof always, which stands also when a second gateway checked
\* before the write, from T1 on an approving post-review of that very artifact,
\* and for T2 also an approved pre-review that planned it.
AcceptedFollowsTier == \A i \in Writers : receipt[i] =>
    /\ Effective(i) = "completed"
    /\ host[i].tier # "T0" => \E g \in Reviews : <<g, i>> \in approvals /\ Task[g].stage = "post-review"
    /\ host[i].tier = "T2" => \E g \in Reviews : /\ State(g) = "completed" /\ i \in Task[g].binds
                                                 /\ Task[g].run = Task[i].run

\* No patch of a later phase exists before a review closed the phase before it,
\* however the tasks of two runs and two phases are named as inputs.
PhasesInOrder == \A i \in Writers : host[i].state # "none" /\ Task[i].version = 2 /\ Task[i].phase > 1 =>
    \E g \in Reviews : /\ Task[g].stage = "post-review" /\ State(g) = "completed"
                       /\ Task[g].run = Task[i].run /\ Task[g].phase = Task[i].phase - 1

\* Acceptances and phases rest on what their tier asks for.
TiersHold == AcceptedFollowsTier /\ PhasesInOrder

\* What is settled about an artifact stays settled: a verdict that can be read
\* stands, whichever proof it came from, unless a second gateway checked before
\* the write; an acceptance is for ever, and what the host gave up is never accepted.
SettledStays == [][\A i \in Writers :
    /\ Effective(i) \in {"completed", "failed"} /\ ~Raced(i) => Effective(i)' = Effective(i)
    /\ receipt[i] => receipt'[i]
    /\ milestone[i] = "abandoned" => milestone'[i] = "abandoned" /\ receipt'[i] = receipt[i]]_vars

\* The request ledger and the milestone ledger, written one after the other,
\* say the same of an artifact: what a verdict or an acceptance in one demands of
\* the other survives any crash, what one calls accepted the other does not list
\* as open, and with no crash the host is never sent to a step that the other
\* ledger refuses.
LedgersAgree == \A i \in Writers :
    /\ milestone[i] = "verified-not-accepted" => attestation[i] = "completed"
    /\ milestone[i] = "accepted" => receipt[i] /\ i \notin ListedOpen
    /\ Pending(i) /\ deaths = 0 /\ ~verifier[i] /\ milestone[i] # "abandoned" =>
         milestone[i] = CASE Advice(i) = "host-verification-required" -> "awaiting-artifact"
                          [] Advice(i) = "repair-required" -> "failed"
                          [] Advice(i) = "post-review-required" -> "verified-not-accepted"
                          [] Advice(i) = "accepted" -> "accepted"
                          [] OTHER -> "none"
==============================================================================
