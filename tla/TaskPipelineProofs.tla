-------------------------- MODULE TaskPipelineProofs --------------------------
(***************************************************************************)
(* Proofs about TaskPipeline, for any tasks, patches and number of crashes,*)
(* and about HostHandoff, the pipeline with the host beside it.            *)
(*                                                                         *)
(* A request leaves an outcome or an artifact once and then keeps it       *)
(* (RequestMoves, Own), so that what a task was admitted and started for   *)
(* still holds when its artifact is accepted (Admitted, Gated): the tier   *)
(* and the phases follow by going back from input to input.  The two       *)
(* ledgers agree because every verdict is written first as a proof and then*)
(* as a milestone, and an acceptance as both (Ledgers, NoCrash).           *)
(*                                                                         *)
(* What the host does is one of the steps of the pipeline or leaves the    *)
(* ledgers alone, so that all of this holds of the whole; and what the host*)
(* is told is true. A sleeper's view changes only by what is told of or by *)
(* the list of running requests (Sleeping, Monitored).  An inspection is   *)
(* put together from reads of what stays: the proof, the approval, the     *)
(* acceptance; only what was approved may have been overruled meanwhile,   *)
(* which the last read excludes (Reviewing, Inspecting).                   *)
(***************************************************************************)
EXTENDS HostHandoff, TLAPS

NoArtifact == {[state |-> "none"], [state |-> "torn"]}
NoOutcome  == {[state |-> "pending"], Failed}
Answers(r) == {Completed(Contract(Task[r], "none")), Completed(Contract(Task[r], "approve"))}

MilestoneStates == {"none", "started", "awaiting-artifact", "failed", "verified-not-accepted",
                    "accepted", "abandoned"}

TypeOK ==
    /\ plan \in Plans /\ deaths \in Nat
    /\ status \in [Requests -> {"idle", "waiting", "running", "ended"}]
    /\ outcome \in [Requests -> NoOutcome \cup UNION {Answers(r) : r \in Requests}]
    /\ host \in [Requests -> NoArtifact \cup {Artifact(r) : r \in Requests}]
    /\ attestation \in [Requests -> {"none", "completed", "failed"}]
    /\ verifier \in [Requests -> BOOLEAN] /\ receipt \in [Requests -> BOOLEAN]
    /\ milestone \in [Requests -> MilestoneStates]

\* What a request leaves behind is its own, and is there once it has ended.
Own == \A r \in Requests :
    /\ host[r] \in NoArtifact \cup {Artifact(r)}
    /\ host[r].state # "none" => r \in Writers /\ status[r] = "ended"
    /\ outcome[r] \in NoOutcome \cup IF r \in Writers THEN {} ELSE Answers(r)
    /\ outcome[r].state # "pending" => status[r] = "ended"

\* How far the milestone of an artifact is, given its request and its proof.
Ledgers == \A i \in Requests :
    /\ milestone[i] # "none" => i \in Writers /\ status[i] \in {"running", "ended"}
    /\ status[i] = "running" => milestone[i] \in {"none", "started"}
    /\ attestation[i] # "none" \/ verifier[i] => Pending(i)
    /\ milestone[i] \in {"awaiting-artifact", "verified-not-accepted", "accepted", "abandoned"} => Pending(i)
    /\ milestone[i] \in {"verified-not-accepted", "accepted"} => attestation[i] = "completed"
    /\ receipt[i] <=> milestone[i] = "accepted"

\* Without a crash the milestone follows the proof of the host.
NoCrash == deaths = 0 => \A i \in Writers : Pending(i) /\ milestone[i] # "abandoned" =>
    /\ attestation[i] = "none" => milestone[i] = "awaiting-artifact"
    /\ attestation[i] = "failed" => milestone[i] = "failed"
    /\ attestation[i] = "completed" =>
          /\ milestone[i] \in {"verified-not-accepted", "accepted"}
          /\ host[i].tier = "T0" /\ ~verifier[i] => milestone[i] = "accepted"

\* Who writes a proof late, a verifier without handoff or another gateway,
\* has seen the artifact.
Standing ==
    /\ \A r \in Requests : status[r] \in {"waiting", "running"} /\ Fallback(r) =>
          Task[r].of \in Writers /\ Pending(Task[r].of)
    /\ \A i \in Writers : <<i, "attestation">> \in checked => Pending(i)

Ran(r) == status[r] = "running" \/ outcome[r].state = "completed" \/ host[r].state # "none"

\* A task that has started rests on completed inputs; but the verdict on an
\* artifact may be overruled.
Rests(r, i) == State(i.request) = "completed" /\ Matches(Task[r], i, ContractOf(i.request))

Gated == \A r \in Requests : Ran(r) =>
    \A i \in Task[r].inputs : i.stage # "implementing" => Rests(r, i)

\* A task was admitted before it started.
Admitted == \A r \in Requests : status[r] = "waiting" \/ Ran(r) =>
    ValidHandoff(Task[r]) /\ (r \in Writers => MilestoneBound(r))

\* From T1 on an acceptance rests on an approval of that artifact.
Approved == \A i \in Writers : receipt[i] /\ host[i].tier # "T0" =>
    \E g \in Reviews : <<g, i>> \in approvals /\ Task[g].stage = "post-review"

IInv == /\ TypeOK /\ Own /\ Ledgers /\ NoCrash /\ Standing /\ Gated /\ Admitted /\ Approved

----------------------------------------------------------------------------
(* The records of the ledger, and what the actions write into them.        *)

LEMMA Records ==
  ASSUME NEW c
  PROVE  /\ Failed.state = "failed" /\ Completed(c).state = "completed" /\ Completed(c).contract = c
         /\ Failed # Completed(c) /\ [state |-> "pending"] # Completed(c)
  BY DEF Failed, Completed

LEMMA ArtifactRecord ==
  ASSUME NEW r \in Requests
  PROVE  /\ Artifact(r).state = "pending" /\ Artifact(r).tier = TierLevel(Task[r])
         /\ Artifact(r).contract = Contract(Task[r], "none")
         /\ Artifact(r) \notin NoArtifact
  BY DEF Artifact, NoArtifact

LEMMA EndType ==
  ASSUME TypeOK, NEW r \in Requests, NEW o \in NoOutcome \cup Answers(r), End(r, o)
  PROVE  /\ status' \in [Requests -> {"idle", "waiting", "running", "ended"}]
         /\ outcome' \in [Requests -> NoOutcome \cup UNION {Answers(q) : q \in Requests}]
<1>1. o \in NoOutcome \cup UNION {Answers(q) : q \in Requests}  OBVIOUS
<1> QED  BY <1>1 DEF End, TypeOK

LEMMA DiedType ==
  ASSUME TypeOK, Died
  PROVE  deaths' \in Nat /\ status' \in [Requests -> {"idle", "waiting", "running", "ended"}]
  BY DEF Died, TypeOK

LEMMA FailedIsOutcome == Failed \in NoOutcome
  BY DEF NoOutcome


\* Every step preserves the type invariant.

LEMMA DispatchType == ASSUME TypeOK, NEW r \in Requests, Dispatch(r) PROVE TypeOK'
<1>1. CASE Admissible(r)  BY <1>1 DEF TypeOK, Dispatch
<1>2. CASE End(r, Failed)  BY <1>2, EndType, FailedIsOutcome DEF TypeOK, Dispatch
<1> QED  BY <1>1, <1>2 DEF Dispatch

LEMMA StartType == ASSUME TypeOK, NEW r \in Requests, Start(r) PROVE TypeOK'
<1>1. milestone' \in [Requests -> MilestoneStates]  BY DEF MilestoneStates, Start, TypeOK
<1> QED  BY <1>1 DEF Start, TypeOK

LEMMA RefuseType == ASSUME TypeOK, NEW r \in Requests, Refuse(r) PROVE TypeOK'
<1> QED  BY EndType, FailedIsOutcome DEF TypeOK, Refuse

LEMMA FailType == ASSUME TypeOK, NEW r \in Requests, Fail(r) PROVE TypeOK'
<1>1. milestone' \in [Requests -> MilestoneStates]  BY DEF MilestoneStates, Fail, TypeOK
<1> QED  BY <1>1, EndType, FailedIsOutcome DEF Fail, TypeOK

LEMMA CompleteType == ASSUME TypeOK, NEW r \in Requests, Complete(r) PROVE TypeOK'
<1>1. Completed(Contract(Task[r], "none")) \in Answers(r)  BY DEF Answers
<1> QED  BY <1>1, EndType DEF Complete, TypeOK

LEMMA ApproveType ==
  ASSUME TypeOK, NEW r \in Requests, Approve(r)
  PROVE  TypeOK'
<1>1. Completed(Contract(Task[r], "approve")) \in Answers(r)  BY DEF Answers
<1>2. status' \in [Requests -> {"idle", "waiting", "running", "ended"}]
      /\ outcome' \in [Requests -> NoOutcome \cup UNION {Answers(q) : q \in Requests}]
  BY <1>1, EndType, FailedIsOutcome DEF Approve
<1>3. receipt' \in [Requests -> BOOLEAN] /\ milestone' \in [Requests -> MilestoneStates]
  BY DEF Approve, Accept, TypeOK, MilestoneStates
<1> QED  BY <1>2, <1>3 DEF Approve, TypeOK

LEMMA ApproveCutType ==
  ASSUME TypeOK, NEW r \in Requests, ApproveCut(r)
  PROVE  TypeOK'
<1>1. receipt' \in [Requests -> BOOLEAN] /\ milestone' \in [Requests -> MilestoneStates]
  BY DEF ApproveCut, Accept, TypeOK, MilestoneStates
<1> QED  BY <1>1, DiedType DEF ApproveCut, TypeOK

LEMMA VerifierPassesType ==
  ASSUME TypeOK, NEW r \in Requests, VerifierPasses(r)
  PROVE  TypeOK'
<1>1. Completed(Contract(Task[r], "none")) \in Answers(r)  BY DEF Answers
<1>2. status' \in [Requests -> {"idle", "waiting", "running", "ended"}]
      /\ outcome' \in [Requests -> NoOutcome \cup UNION {Answers(q) : q \in Requests}]
  BY <1>1, EndType, FailedIsOutcome DEF VerifierPasses
<1>3. receipt' \in [Requests -> BOOLEAN] /\ milestone' \in [Requests -> MilestoneStates]
  BY DEF VerifierPasses, Accept, TypeOK, MilestoneStates
<1>4. verifier' \in [Requests -> BOOLEAN]  BY DEF VerifierPasses, TypeOK
<1> QED  BY <1>2, <1>3, <1>4 DEF VerifierPasses, TypeOK

LEMMA DeliverType ==
  ASSUME TypeOK, NEW r \in Writers, NEW p \in Patches, Deliver(r, p)
  PROVE  TypeOK'
<1>1. r \in Requests  BY DEF Writers
<1>2. host' \in [Requests -> NoArtifact \cup {Artifact(q) : q \in Requests}]
  BY <1>1 DEF Deliver, TypeOK
<1>3. milestone' \in [Requests -> MilestoneStates]  BY DEF Deliver, TypeOK, MilestoneStates
<1> QED  BY <1>1, <1>2, <1>3, EndType, FailedIsOutcome DEF Deliver, TypeOK

LEMMA DeliverCutType ==
  ASSUME TypeOK, NEW r \in Writers, NEW p \in Patches, NEW bound \in BOOLEAN, DeliverCut(r, p, bound)
  PROVE  TypeOK'
<1>1. r \in Requests /\ [state |-> "torn"] \in NoArtifact  BY DEF Writers, NoArtifact
<1>2. host' \in [Requests -> NoArtifact \cup {Artifact(q) : q \in Requests}]
  BY <1>1 DEF DeliverCut, TypeOK
<1> QED  BY <1>2, DiedType DEF DeliverCut, TypeOK

LEMMA RecordHostType ==
  ASSUME TypeOK, NEW i \in Writers, NEW verdict \in {"completed", "failed"}, RecordHost(i, verdict)
  PROVE  TypeOK'
<1>1. attestation' \in [Requests -> {"none", "completed", "failed"}]  BY DEF RecordHost, Attest, TypeOK
<1>2. receipt' \in [Requests -> BOOLEAN] /\ milestone' \in [Requests -> MilestoneStates]
  BY DEF RecordHost, Accept, Verdict, TypeOK, MilestoneStates
<1> QED  BY <1>1, <1>2 DEF RecordHost, TypeOK

LEMMA AttestLateType ==
  ASSUME TypeOK, NEW i \in Writers, NEW verdict \in {"completed", "failed"}, AttestLate(i, verdict)
  PROVE  TypeOK'
<1>1. attestation' \in [Requests -> {"none", "completed", "failed"}]  BY DEF AttestLate, TypeOK
<1> QED  BY <1>1 DEF AttestLate, TypeOK

LEMMA RecordHostCutType ==
  ASSUME TypeOK, NEW i \in Writers, NEW verdict \in {"completed", "failed"}, NEW proofOnly \in BOOLEAN, RecordHostCut(i, verdict, proofOnly)
  PROVE  TypeOK'
<1>1. attestation' \in [Requests -> {"none", "completed", "failed"}]
  BY DEF RecordHostCut, Attest, TypeOK
<1>2. milestone' \in [Requests -> MilestoneStates]
  BY DEF RecordHostCut, Verdict, TypeOK, MilestoneStates
<1> QED  BY <1>1, <1>2, DiedType DEF RecordHostCut, TypeOK

LEMMA AbandonType ==
  ASSUME TypeOK, NEW i \in Writers, Abandon(i)
  PROVE  TypeOK'
<1>1. milestone' \in [Requests -> MilestoneStates]  BY DEF Abandon, TypeOK, MilestoneStates
<1> QED  BY <1>1 DEF Abandon, TypeOK

LEMMA TypePreserved == TypeOK /\ [Next]_vars => TypeOK'
<1> SUFFICES ASSUME TypeOK, [Next]_vars PROVE TypeOK'
  OBVIOUS
<1>1. ASSUME NEW r \in Requests, \/ Dispatch(r) \/ Start(r) \/ Refuse(r) \/ Fail(r) \/ Complete(r)
                                \/ Approve(r) \/ ApproveCut(r) \/ VerifierPasses(r)
      PROVE  TypeOK'
  BY <1>1, DispatchType, StartType, RefuseType, FailType, CompleteType, ApproveType, ApproveCutType,
     VerifierPassesType
<1>2. ASSUME NEW r \in Writers, NEW p \in Patches,
             Deliver(r, p) \/ \E bound \in BOOLEAN : DeliverCut(r, p, bound)
      PROVE  TypeOK'
  BY <1>2, DeliverType, DeliverCutType
<1>3. ASSUME NEW i \in Writers, NEW verdict \in {"completed", "failed"},
             \/ RecordHost(i, verdict) \/ AttestLate(i, verdict)
             \/ \E proofOnly \in BOOLEAN : RecordHostCut(i, verdict, proofOnly)
      PROVE  TypeOK'
  BY <1>3, RecordHostType, AttestLateType, RecordHostCutType
<1>4. ASSUME NEW i \in Writers, Abandon(i) \/ \E proof \in {"attestation", "verifier"} : CheckAbsent(i, proof)
      PROVE  TypeOK'
  BY <1>4, AbandonType DEF CheckAbsent, records, TypeOK
<1>5. CASE Die  BY <1>5, DiedType DEF Die, records, TypeOK
<1>6. CASE UNCHANGED vars  BY <1>6 DEF vars, records, TypeOK
<1> QED  BY <1>1, <1>2, <1>3, <1>4, <1>5, <1>6 DEF Next

----------------------------------------------------------------------------
(* What a step may do to the records of one request.                       *)

Kept(q) == outcome'[q] = outcome[q] /\ host'[q] = host[q]

Moved(q) ==
    \/ status'[q] = status[q] /\ Kept(q)
    \/ status[q] = "idle" /\ Admissible(q) /\ status'[q] = "waiting" /\ Kept(q)
    \/ status[q] = "waiting" /\ GateOpens(q) /\ status'[q] = "running" /\ Kept(q)
    \/ /\ status[q] # "ended" /\ status'[q] = "ended"
       /\ outcome'[q] \in {outcome[q], Failed} /\ host'[q] = host[q]
    \/ /\ status[q] = "running" /\ status'[q] = "ended" /\ q \notin Writers
       /\ outcome'[q] \in Answers(q) /\ host'[q] = host[q]
    \/ /\ status[q] = "running" /\ status'[q] = "ended" /\ q \in Writers
       /\ outcome'[q] \in {outcome[q], Failed} /\ host'[q] \in {[state |-> "torn"], Artifact(q)}

LEMMA EndMoves ==
  ASSUME TypeOK, NEW r \in Requests, NEW o, End(r, o), NEW q \in Requests
  PROVE  IF q = r THEN status'[q] = "ended" /\ outcome'[q] = o
         ELSE status'[q] = status[q] /\ outcome'[q] = outcome[q]
  BY DEF End, TypeOK

LEMMA DiedMoves ==
  ASSUME TypeOK, Died, NEW q \in Requests
  PROVE  \/ status'[q] = status[q]
         \/ status[q] \in {"waiting", "running"} /\ status'[q] = "ended"
  BY DEF Died, TypeOK

LEMMA RequestMoves ==
  ASSUME TypeOK, [Next]_vars, NEW q \in Requests
  PROVE  Moved(q)
<1> USE DEF Moved, Kept
<1>1. ASSUME NEW r \in Requests, Dispatch(r)
      PROVE  Moved(q)
  <2>1. CASE Admissible(r) /\ status' = [status EXCEPT ![r] = "waiting"] /\ UNCHANGED outcome
    BY <1>1, <2>1 DEF Dispatch, TypeOK
  <2>2. CASE End(r, Failed)  BY <1>1, <2>2, EndMoves DEF Dispatch
  <2> QED  BY <1>1, <2>1, <2>2 DEF Dispatch
<1>2. ASSUME NEW r \in Requests, Start(r)
      PROVE  Moved(q)
  BY <1>2 DEF Start, TypeOK
<1>3. ASSUME NEW r \in Requests, Refuse(r) \/ Fail(r)
      PROVE  Moved(q)
  BY <1>3, EndMoves DEF Refuse, Fail
<1>4. ASSUME NEW r \in Requests, Complete(r)
      PROVE  Moved(q)
  BY <1>4, EndMoves DEF Complete, Answers
<1>5. ASSUME NEW r \in Requests, Approve(r)
      PROVE  Moved(q)
  <2>1. r \notin Writers  BY <1>5 DEF Approve, Reviews, Writers
  <2>2. End(r, Failed) \/ End(r, Completed(Contract(Task[r], "approve")))  BY <1>5 DEF Approve
  <2> QED  BY <1>5, <2>1, <2>2, EndMoves DEF Approve, Answers
<1>6. ASSUME NEW r \in Requests, VerifierPasses(r)
      PROVE  Moved(q)
  <2>1. r \notin Writers  BY <1>6 DEF VerifierPasses, Fallback, Writers
  <2>2. End(r, Failed) \/ End(r, Completed(Contract(Task[r], "none")))  BY <1>6 DEF VerifierPasses
  <2> QED  BY <1>6, <2>1, <2>2, EndMoves DEF VerifierPasses, Answers
<1>7. ASSUME NEW r \in Writers, NEW p \in Patches, Deliver(r, p)
      PROVE  Moved(q)
  <2>1. r \in Requests  BY DEF Writers
  <2>2. host'[q] = IF q = r THEN Artifact(r) ELSE host[q]  BY <1>7, <2>1 DEF Deliver, TypeOK
  <2> QED  BY <1>7, <2>1, <2>2, EndMoves DEF Deliver
<1>8. ASSUME NEW r \in Writers, NEW p \in Patches, NEW bound \in BOOLEAN, DeliverCut(r, p, bound)
      PROVE  Moved(q)
  <2>1. r \in Requests  BY DEF Writers
  <2>2. /\ q # r => host'[q] = host[q]
        /\ host'[r] \in {[state |-> "torn"], Artifact(r)}
    BY <1>8, <2>1 DEF DeliverCut, TypeOK
  <2>3. outcome'[q] = outcome[q] /\ status'[r] = "ended"
    BY <1>8, <2>1 DEF DeliverCut, Died, TypeOK
  <2>4. CASE q = r  BY <1>8, <2>2, <2>3, <2>4 DEF DeliverCut
  <2>5. CASE q # r  BY <1>8, <2>2, <2>3, <2>5, DiedMoves DEF DeliverCut
  <2> QED  BY <2>4, <2>5
<1>9. ASSUME UNCHANGED <<status, outcome, host>> \/ (Died /\ UNCHANGED <<outcome, host>>)
      PROVE  Moved(q)
  BY <1>9, DiedMoves
<1>10. ASSUME NEW r \in Requests, ApproveCut(r)
       PROVE  Moved(q)
  BY <1>9, <1>10 DEF ApproveCut
<1>11. ASSUME NEW i \in Writers, NEW verdict \in {"completed", "failed"},
              \/ RecordHost(i, verdict) \/ AttestLate(i, verdict)
              \/ \E proofOnly \in BOOLEAN : RecordHostCut(i, verdict, proofOnly)
       PROVE  Moved(q)
  BY <1>9, <1>11 DEF RecordHost, AttestLate, RecordHostCut
<1>12. ASSUME NEW i \in Writers, Abandon(i) \/ \E proof \in {"attestation", "verifier"} : CheckAbsent(i, proof)
       PROVE  Moved(q)
  BY <1>9, <1>12 DEF Abandon, CheckAbsent, records
<1>13. CASE Die \/ UNCHANGED vars  BY <1>9, <1>13 DEF Die, vars, records
<1> QED
  BY <1>1, <1>2, <1>3, <1>4, <1>5, <1>6, <1>7, <1>8, <1>10, <1>11, <1>12, <1>13 DEF Next

\* A request that has ended keeps what it has left behind.
LEMMA EndedStays ==
  ASSUME TypeOK, [Next]_vars, NEW q \in Requests, status[q] = "ended"
  PROVE  status'[q] = "ended" /\ Kept(q)
  BY RequestMoves DEF Moved

LEMMA OwnPreserved == TypeOK /\ Own /\ [Next]_vars => Own'
<1> SUFFICES ASSUME TypeOK, Own, [Next]_vars, NEW r \in Requests
             PROVE  /\ host'[r] \in NoArtifact \cup {Artifact(r)}
                    /\ host'[r].state # "none" => r \in Writers /\ status'[r] = "ended"
                    /\ outcome'[r] \in NoOutcome \cup IF r \in Writers THEN {} ELSE Answers(r)
                    /\ outcome'[r].state # "pending" => status'[r] = "ended"
  BY DEF Own
<1>1. /\ host[r] \in NoArtifact \cup {Artifact(r)}
      /\ host[r].state # "none" => r \in Writers /\ status[r] = "ended"
      /\ outcome[r] \in NoOutcome \cup IF r \in Writers THEN {} ELSE Answers(r)
      /\ outcome[r].state # "pending" => status[r] = "ended"
  BY DEF Own
<1>2. [state |-> "torn"] \in NoArtifact /\ Failed \in NoOutcome  BY DEF NoArtifact, NoOutcome
<1>3. Moved(r)  BY RequestMoves
<1> QED  BY <1>1, <1>2, <1>3 DEF Moved, Kept

\* What stands of a request that is no writer stands.
LEMMA AnswerStays ==
  ASSUME TypeOK, Own, [Next]_vars, NEW q \in Requests, q \notin Writers, State(q) = "completed"
  PROVE  State(q)' = "completed" /\ ContractOf(q)' = ContractOf(q)
<1>1. host[q].state = "none" /\ host'[q].state = "none"
  BY OwnPreserved DEF Own
<1>2. outcome[q].state = "completed"  BY <1>1 DEF State, Pending
<1>3. outcome'[q] = outcome[q]  BY <1>2, EndedStays DEF Own, Kept
<1> QED  BY <1>1, <1>2, <1>3 DEF State, ContractOf, Pending

\* The contract that stands for a request names it.
LEMMA ContractStands ==
  ASSUME TypeOK, Own, NEW q \in Requests, State(q) = "completed"
  PROVE  /\ ContractOf(q) \in {Contract(Task[q], "none"), Contract(Task[q], "approve")}
         /\ q \in Writers => ContractOf(q) = Contract(Task[q], "none")
<1>1. CASE Pending(q)
  <2>1. host[q] = Artifact(q)  BY <1>1 DEF Own, NoArtifact, Pending
  <2> QED  BY <1>1, <2>1, ArtifactRecord, OwnPreserved DEF ContractOf, Own, NoArtifact
<1>2. CASE ~Pending(q)
  <2>1. outcome[q].state = "completed"  BY <1>2 DEF State
  <2>2. outcome[q] \in Answers(q) /\ q \notin Writers  BY <2>1 DEF Own, NoOutcome, Failed
  <2> QED  BY <1>2, <2>2, Records DEF ContractOf, Answers
<1> QED  BY <1>1, <1>2

----------------------------------------------------------------------------
(* The two ledgers.                                                        *)

LedgerOf(j) ==
    /\ milestone[j] # "none" => j \in Writers /\ status[j] \in {"running", "ended"}
    /\ status[j] = "running" => milestone[j] \in {"none", "started"}
    /\ attestation[j] # "none" \/ verifier[j] => Pending(j)
    /\ milestone[j] \in {"awaiting-artifact", "verified-not-accepted", "accepted", "abandoned"} => Pending(j)
    /\ milestone[j] \in {"verified-not-accepted", "accepted"} => attestation[j] = "completed"
    /\ receipt[j] <=> milestone[j] = "accepted"

LEMMA PendingStays ==
  ASSUME Own, NEW j \in Requests, Moved(j), Pending(j)
  PROVE  j \in Writers /\ status[j] = "ended" /\ status'[j] = "ended" /\ host'[j] = host[j] /\ Pending(j)'
  BY DEF Own, Moved, Kept, Pending

LEMMA LedgerStays ==
  ASSUME Own, Ledgers, NEW j \in Requests, Moved(j),
         milestone'[j] = milestone[j], attestation'[j] = attestation[j],
         verifier'[j] = verifier[j], receipt'[j] = receipt[j]
  PROVE  LedgerOf(j)'
<1>1. LedgerOf(j)  BY DEF Ledgers, LedgerOf
<1> QED  BY <1>1, PendingStays DEF LedgerOf, Moved

LEMMA LedgerOfArtifact ==
  ASSUME Own, NEW j \in Requests, Moved(j), Pending(j),
         milestone'[j] \in {"verified-not-accepted", "accepted"} => attestation'[j] = "completed",
         receipt'[j] <=> milestone'[j] = "accepted"
  PROVE  LedgerOf(j)'
  BY PendingStays DEF LedgerOf

\* An acceptance in the two ledgers.
LEMMA AcceptLedger ==
  ASSUME TypeOK, Own, NEW i \in Requests, Accept(i), NEW j \in Requests, Moved(j),
         Pending(i), attestation'[i] = "completed", LedgerOf(j)
  PROVE  /\ j = i => LedgerOf(j)'
         /\ j # i => milestone'[j] = milestone[j] /\ receipt'[j] = receipt[j]
  BY LedgerOfArtifact DEF Accept, TypeOK

LEMMA DispatchLedger ==
  ASSUME TypeOK, Own, Ledgers, Standing, NEW j \in Requests, Moved(j),
         NEW r \in Requests, Dispatch(r)
  PROVE  LedgerOf(j)'
  BY LedgerStays DEF Dispatch

LEMMA StartLedger ==
  ASSUME TypeOK, Own, Ledgers, Standing, NEW j \in Requests, Moved(j),
         NEW r \in Requests, Start(r)
  PROVE  LedgerOf(j)'
<1>1. LedgerOf(j)  BY DEF Ledgers, LedgerOf
<1> QED  BY <1>1 DEF LedgerOf, Start, TypeOK, Pending

LEMMA RefuseLedger ==
  ASSUME TypeOK, Own, Ledgers, Standing, NEW j \in Requests, Moved(j),
         NEW r \in Requests, Refuse(r)
  PROVE  LedgerOf(j)'
  BY LedgerStays DEF Refuse

LEMMA FailLedger ==
  ASSUME TypeOK, Own, Ledgers, Standing, NEW j \in Requests, Moved(j),
         NEW r \in Requests, Fail(r)
  PROVE  LedgerOf(j)'
<1>1. LedgerOf(j)  BY DEF Ledgers, LedgerOf
<1> QED  BY <1>1 DEF LedgerOf, Fail, TypeOK, Pending, End

LEMMA CompleteLedger ==
  ASSUME TypeOK, Own, Ledgers, Standing, NEW j \in Requests, Moved(j),
         NEW r \in Requests, Complete(r)
  PROVE  LedgerOf(j)'
  BY LedgerStays DEF Complete

LEMMA ApproveLedger ==
  ASSUME TypeOK, Own, Ledgers, Standing, NEW j \in Requests, Moved(j),
         NEW r \in Requests, Approve(r)
  PROVE  LedgerOf(j)'
<1>1. LedgerOf(j)  BY DEF Ledgers, LedgerOf
<1>2. CASE receipt' = receipt /\ milestone' = milestone
  BY <1>2, LedgerStays DEF Approve
<1>3. CASE AcceptedBy(r) /\ Acceptable(Reviewed(r)) /\ Accept(Reviewed(r))
  <2>1. Reviewed(r) \in Requests  BY <1>3 DEF AcceptedBy, Proven, Writers
  <2>2. attestation[Reviewed(r)] = "completed" /\ Pending(Reviewed(r))
    BY <1>3, <2>1 DEF Acceptable, Ledgers
  <2> QED  BY <1>1, <1>3, <2>1, <2>2, AcceptLedger, LedgerStays DEF Approve
<1> QED  BY <1>2, <1>3 DEF Approve

LEMMA ApproveCutLedger ==
  ASSUME TypeOK, Own, Ledgers, Standing, NEW j \in Requests, Moved(j),
         NEW r \in Requests, ApproveCut(r)
  PROVE  LedgerOf(j)'
<1>1. LedgerOf(j)  BY DEF Ledgers, LedgerOf
<1>2. Reviewed(r) \in Requests  BY DEF ApproveCut, AcceptedBy, Proven, Writers
<1>3. attestation[Reviewed(r)] = "completed" /\ Pending(Reviewed(r))
  BY <1>2 DEF ApproveCut, Acceptable, Ledgers
<1> QED  BY <1>1, <1>2, <1>3, AcceptLedger, LedgerStays DEF ApproveCut

LEMMA VerifierPassesLedger ==
  ASSUME TypeOK, Own, Ledgers, Standing, NEW j \in Requests, Moved(j),
         NEW r \in Requests, VerifierPasses(r)
  PROVE  LedgerOf(j)'
<1>1. LedgerOf(j)  BY DEF Ledgers, LedgerOf
<1> DEFINE i == Task[r].of
<1>2. i \in Writers /\ i \in Requests /\ Pending(i)  BY DEF VerifierPasses, Standing, Writers
<1>3. verifier'[j] = verifier[j] \/ j = i  BY <1>2 DEF VerifierPasses, TypeOK
<1>4. CASE receipt' = receipt /\ milestone' = milestone
  <2>1. CASE j = i  BY <1>1, <1>2, <1>4, <2>1, LedgerOfArtifact DEF VerifierPasses, LedgerOf
  <2>2. CASE j # i  BY <1>3, <1>4, <2>2, LedgerStays DEF VerifierPasses
  <2> QED  BY <2>1, <2>2
<1>5. CASE Acceptable(i) /\ Accept(i)
  <2>1. attestation[i] = "completed"  BY <1>2, <1>5 DEF Acceptable, Ledgers
  <2> QED  BY <1>1, <1>2, <1>3, <1>5, <2>1, AcceptLedger, LedgerStays DEF VerifierPasses
<1> QED  BY <1>4, <1>5 DEF VerifierPasses

LEMMA DeliverLedger ==
  ASSUME TypeOK, Own, Ledgers, Standing, NEW j \in Requests, Moved(j),
         NEW r \in Writers, NEW p \in Patches, Deliver(r, p)
  PROVE  LedgerOf(j)'
<1>1. LedgerOf(j)  BY DEF Ledgers, LedgerOf
<1> QED  BY <1>1 DEF LedgerOf, Deliver, TypeOK, Own, Moved, Kept, Pending, Artifact

LEMMA DeliverCutLedger ==
  ASSUME TypeOK, Own, Ledgers, Standing, NEW j \in Requests, Moved(j),
         NEW r \in Writers, NEW p \in Patches, NEW bound \in BOOLEAN, DeliverCut(r, p, bound)
  PROVE  LedgerOf(j)'
  BY LedgerStays DEF DeliverCut

LEMMA RecordHostLedger ==
  ASSUME TypeOK, Own, Ledgers, Standing, NEW j \in Requests, Moved(j),
         NEW i \in Writers, NEW verdict \in {"completed", "failed"}, RecordHost(i, verdict)
  PROVE  LedgerOf(j)'
<1>1. LedgerOf(j)  BY DEF Ledgers, LedgerOf
<1>2. i \in Requests /\ Pending(i)  BY DEF Writers, RecordHost, Attest
<1>3. /\ attestation'[i] = verdict
      /\ j # i => attestation'[j] = attestation[j]
  BY <1>2 DEF RecordHost, Attest, HostMayWrite, TypeOK
<1>4. ~receipt[i]  BY <1>2 DEF RecordHost, Attest, Verifiable, Ledgers
<1>5. CASE verdict = "completed" /\ Accept(i)
  BY <1>1, <1>2, <1>3, <1>5, AcceptLedger, LedgerStays DEF RecordHost
<1>6. CASE milestone' = [milestone EXCEPT ![i] = Verdict(verdict)] /\ UNCHANGED receipt
  <2>1. /\ milestone'[i] = Verdict(verdict) /\ ~receipt'[i]
        /\ j # i => milestone'[j] = milestone[j] /\ receipt'[j] = receipt[j]
    BY <1>2, <1>4, <1>6 DEF TypeOK
  <2>2. CASE j = i
    BY <1>2, <1>3, <2>1, <2>2, LedgerOfArtifact DEF Verdict
  <2>3. CASE j # i
    BY <1>3, <2>1, <2>3, LedgerStays DEF RecordHost
  <2> QED  BY <2>2, <2>3
<1> QED  BY <1>5, <1>6 DEF RecordHost

LEMMA AttestLateLedger ==
  ASSUME TypeOK, Own, Ledgers, Standing, NEW j \in Requests, Moved(j),
         NEW i \in Writers, NEW verdict \in {"completed", "failed"}, AttestLate(i, verdict)
  PROVE  LedgerOf(j)'
<1>1. LedgerOf(j)  BY DEF Ledgers, LedgerOf
<1>2. i \in Requests  BY DEF Writers
<1>3. attestation[i] = "none" /\ attestation'[i] = verdict /\ (j # i => attestation'[j] = attestation[j])
  BY <1>2 DEF AttestLate, TypeOK
<1>4. Pending(i)  BY DEF AttestLate, Standing
<1> QED  BY <1>1, <1>2, <1>3, <1>4, LedgerStays, LedgerOfArtifact DEF AttestLate, LedgerOf

LEMMA RecordHostCutLedger ==
  ASSUME TypeOK, Own, Ledgers, Standing, NEW j \in Requests, Moved(j),
         NEW i \in Writers, NEW verdict \in {"completed", "failed"}, NEW proofOnly \in BOOLEAN, RecordHostCut(i, verdict, proofOnly)
  PROVE  LedgerOf(j)'
<1>1. LedgerOf(j)  BY DEF Ledgers, LedgerOf
<1>2. i \in Requests /\ Pending(i)  BY DEF Writers, RecordHostCut, Attest
<1>3. attestation'[i] = verdict /\ (j # i => attestation'[j] = attestation[j])
  BY <1>2 DEF RecordHostCut, Attest, HostMayWrite, TypeOK
<1>4. milestone[i] \in {"awaiting-artifact", "failed", "verified-not-accepted"} /\ ~receipt[i]
  BY <1>2 DEF RecordHostCut, Attest, Verifiable, Ledgers
<1>5. /\ milestone'[i] \in {milestone[i], Verdict(verdict)}
      /\ j # i => milestone'[j] = milestone[j]
  BY <1>2 DEF RecordHostCut, TypeOK
<1>6. milestone[i] = "verified-not-accepted" => attestation'[i] = "completed"
  BY <1>2 DEF RecordHostCut, Attest, HostMayWrite, Ledgers, TypeOK
<1>7. CASE j = i
  BY <1>2, <1>3, <1>4, <1>5, <1>6, <1>7, LedgerOfArtifact DEF Verdict, RecordHostCut
<1>8. CASE j # i
  BY <1>3, <1>5, <1>8, LedgerStays DEF RecordHostCut
<1> QED  BY <1>7, <1>8

LEMMA AbandonLedger ==
  ASSUME TypeOK, Own, Ledgers, Standing, NEW j \in Requests, Moved(j),
         NEW i \in Writers, Abandon(i)
  PROVE  LedgerOf(j)'
<1>1. LedgerOf(j)  BY DEF Ledgers, LedgerOf
<1>2. i \in Requests /\ Pending(i) /\ ~receipt[i]  BY DEF Writers, Abandon
<1>3. CASE j = i  BY <1>2, <1>3, LedgerOfArtifact DEF Abandon, TypeOK
<1>4. CASE j # i  BY <1>2, <1>4, LedgerStays DEF Abandon, TypeOK
<1> QED  BY <1>3, <1>4

LEMMA CheckAbsentLedger ==
  ASSUME TypeOK, Own, Ledgers, Standing, NEW j \in Requests, Moved(j),
         NEW i \in Writers, NEW proof \in {"attestation", "verifier"}, CheckAbsent(i, proof)
  PROVE  LedgerOf(j)'
  BY LedgerStays DEF CheckAbsent, records

LEMMA DieLedger ==
  ASSUME TypeOK, Own, Ledgers, Standing, NEW j \in Requests, Moved(j),
         Die
  PROVE  LedgerOf(j)'
  BY LedgerStays DEF Die, records

\* Every step preserves what is said of the two ledgers.
LEMMA LedgersPreserved ==
  ASSUME TypeOK, Own, Ledgers, Standing, [Next]_vars
  PROVE  Ledgers'
<1> SUFFICES ASSUME NEW j \in Requests PROVE LedgerOf(j)'
  BY DEF Ledgers, LedgerOf
<1>1. Moved(j)  BY RequestMoves
<1>2. ASSUME NEW r \in Requests, \/ Dispatch(r) \/ Start(r) \/ Refuse(r) \/ Fail(r) \/ Complete(r)
                                \/ Approve(r) \/ ApproveCut(r) \/ VerifierPasses(r)
      PROVE  LedgerOf(j)'
  BY <1>1, <1>2, DispatchLedger, StartLedger, RefuseLedger, FailLedger, CompleteLedger, ApproveLedger,
     ApproveCutLedger, VerifierPassesLedger
<1>3. ASSUME NEW r \in Writers, NEW p \in Patches,
             Deliver(r, p) \/ \E bound \in BOOLEAN : DeliverCut(r, p, bound)
      PROVE  LedgerOf(j)'
  BY <1>1, <1>3, DeliverLedger, DeliverCutLedger
<1>4. ASSUME NEW i \in Writers, NEW verdict \in {"completed", "failed"},
             \/ RecordHost(i, verdict) \/ AttestLate(i, verdict)
             \/ \E proofOnly \in BOOLEAN : RecordHostCut(i, verdict, proofOnly)
      PROVE  LedgerOf(j)'
  BY <1>1, <1>4, RecordHostLedger, AttestLateLedger, RecordHostCutLedger
<1>5. ASSUME NEW i \in Writers, Abandon(i) \/ \E proof \in {"attestation", "verifier"} : CheckAbsent(i, proof)
      PROVE  LedgerOf(j)'
  BY <1>1, <1>5, AbandonLedger, CheckAbsentLedger
<1>6. CASE Die  BY <1>1, <1>6, DieLedger
<1>7. CASE UNCHANGED vars  BY <1>1, <1>7, LedgerStays DEF vars, records
<1> QED  BY <1>2, <1>3, <1>4, <1>5, <1>6, <1>7 DEF Next

\* With no crash behind it, an artifact is where the host's proof puts it.
Followed(j) ==
    Pending(j) /\ milestone[j] # "abandoned" =>
    /\ attestation[j] = "none" => milestone[j] = "awaiting-artifact"
    /\ attestation[j] = "failed" => milestone[j] = "failed"
    /\ attestation[j] = "completed" =>
          /\ milestone[j] \in {"verified-not-accepted", "accepted"}
          /\ host[j].tier = "T0" /\ ~verifier[j] => milestone[j] = "accepted"

LEMMA StartFollowed ==
  ASSUME TypeOK, Own, Ledgers, Standing, NEW j \in Writers, Followed(j), Moved(j),
         NEW r \in Requests, Start(r)
  PROVE  Followed(j)'
<1> QED  BY PendingStays DEF Followed, Start, Pending

LEMMA FailFollowed ==
  ASSUME TypeOK, Own, Ledgers, Standing, NEW j \in Writers, Followed(j), Moved(j),
         NEW r \in Requests, Fail(r)
  PROVE  Followed(j)'
<1> QED  BY PendingStays DEF Followed, Fail, Pending

LEMMA DeliverFollowed ==
  ASSUME TypeOK, Own, Ledgers, Standing, NEW j \in Writers, Followed(j), Moved(j),
         NEW r \in Writers, NEW p \in Patches, Deliver(r, p)
  PROVE  Followed(j)'
<1> QED  BY PendingStays DEF Followed, Deliver, TypeOK, Ledgers, Pending

LEMMA ApproveFollowed ==
  ASSUME TypeOK, Own, Ledgers, Standing, NEW j \in Writers, Followed(j), Moved(j),
         NEW r \in Requests, Approve(r)
  PROVE  Followed(j)'
<1> QED  BY PendingStays DEF Followed, Approve, TypeOK, Pending, Accept, Writers, Acceptable

LEMMA VerifierPassesFollowed ==
  ASSUME TypeOK, Own, Ledgers, Standing, NEW j \in Writers, Followed(j), Moved(j),
         NEW r \in Requests, VerifierPasses(r)
  PROVE  Followed(j)'
<1> QED  BY PendingStays DEF Followed, VerifierPasses, TypeOK, Pending, Accept, Writers, Acceptable

LEMMA RecordHostFollowed ==
  ASSUME TypeOK, Own, Ledgers, Standing, NEW j \in Writers, Followed(j), Moved(j),
         NEW i \in Writers, NEW verdict \in {"completed", "failed"}, RecordHost(i, verdict)
  PROVE  Followed(j)'
<1> QED  BY PendingStays DEF Followed, RecordHost, TypeOK, Pending, Accept, Attest, Verifiable,
   Verdict, Writers, Effective, HostMayWrite

LEMMA AttestLateFollowed ==
  ASSUME TypeOK, Own, Ledgers, Standing, NEW j \in Writers, Followed(j), Moved(j),
         NEW i \in Writers, NEW verdict \in {"completed", "failed"}, AttestLate(i, verdict)
  PROVE  Followed(j)'
<1> QED  BY PendingStays DEF Followed, AttestLate, Pending, Verifiable

LEMMA AbandonFollowed ==
  ASSUME TypeOK, Own, Ledgers, Standing, NEW j \in Writers, Followed(j), Moved(j),
         NEW i \in Writers, Abandon(i)
  PROVE  Followed(j)'
<1> QED  BY PendingStays DEF Followed, Abandon, Pending

LEMMA FollowedStays ==
  ASSUME Own, NEW j \in Requests, Followed(j), Moved(j), milestone'[j] = milestone[j],
         attestation'[j] = attestation[j], verifier'[j] = verifier[j],
         host'[j] = host[j]
  PROVE  Followed(j)'
  BY DEF Followed, Pending

LEMMA NoCrashPreserved ==
  ASSUME TypeOK, Own, Ledgers, Standing, NoCrash, [Next]_vars
  PROVE  NoCrash'
<1> SUFFICES ASSUME deaths' = 0, NEW j \in Writers PROVE Followed(j)'
  BY DEF NoCrash, Followed
<1>1. j \in Requests /\ Moved(j)  BY RequestMoves DEF Writers
<1>2. deaths \in Nat /\ ~Died  BY DEF Died, TypeOK
<1>3. deaths = 0 => Followed(j)  BY DEF NoCrash, Followed
<1>4. ASSUME NEW r \in Requests, \/ Dispatch(r) \/ Start(r) \/ Refuse(r) \/ Fail(r) \/ Complete(r)
                                \/ Approve(r) \/ ApproveCut(r) \/ VerifierPasses(r)
      PROVE  Followed(j)'
  <2>1. CASE Dispatch(r) \/ Refuse(r) \/ Complete(r)
    BY <1>1, <1>3, <2>1, FollowedStays DEF Dispatch, Refuse, Complete
  <2> QED
    BY <1>1, <1>2, <1>3, <1>4, <2>1, StartFollowed, FailFollowed, ApproveFollowed, VerifierPassesFollowed
       DEF Start, Fail, Approve, VerifierPasses, ApproveCut
<1>5. ASSUME NEW r \in Writers, NEW p \in Patches,
             Deliver(r, p) \/ \E bound \in BOOLEAN : DeliverCut(r, p, bound)
      PROVE  Followed(j)'
  BY <1>1, <1>2, <1>3, <1>5, DeliverFollowed DEF Deliver, DeliverCut
<1>6. ASSUME NEW i \in Writers, NEW verdict \in {"completed", "failed"},
             \/ RecordHost(i, verdict) \/ AttestLate(i, verdict)
             \/ \E proofOnly \in BOOLEAN : RecordHostCut(i, verdict, proofOnly)
      PROVE  Followed(j)'
  BY <1>1, <1>2, <1>3, <1>6, RecordHostFollowed, AttestLateFollowed DEF RecordHost, AttestLate, RecordHostCut
<1>7. ASSUME NEW i \in Writers, Abandon(i) \/ \E proof \in {"attestation", "verifier"} : CheckAbsent(i, proof)
      PROVE  Followed(j)'
  <2>1. CASE Abandon(i)  BY <1>1, <1>3, <2>1, AbandonFollowed DEF Abandon
  <2>2. CASE \E proof \in {"attestation", "verifier"} : CheckAbsent(i, proof)
    BY <1>1, <1>3, <2>2, FollowedStays DEF CheckAbsent, records
  <2> QED  BY <1>7, <2>1, <2>2
<1>8. CASE Die \/ UNCHANGED vars
  BY <1>1, <1>2, <1>3, <1>8, FollowedStays DEF Die, vars, records
<1> QED  BY <1>4, <1>5, <1>6, <1>7, <1>8 DEF Next

----------------------------------------------------------------------------
(* Admissions and inputs.                                                  *)

\* Only another gateway looks for a proof before it writes.
LEMMA LookedAt ==
  ASSUME [Next]_vars, NEW j \in Writers, <<j, "attestation">> \in checked'
  PROVE  <<j, "attestation">> \in checked \/ Pending(j)
<1>1. ASSUME NEW i \in Writers, NEW proof \in {"attestation", "verifier"}, CheckAbsent(i, proof)
      PROVE  <<j, "attestation">> \in checked \/ Pending(j)
  BY <1>1 DEF CheckAbsent
<1>2. CASE UNCHANGED checked  BY <1>2
<1> QED
  BY <1>1, <1>2 DEF Next, Dispatch, Start, Refuse, Fail, Complete, Approve, ApproveCut, VerifierPasses,
     Deliver, DeliverCut, RecordHost, AttestLate, RecordHostCut, Abandon, Die, vars, records

LEMMA StandingPreserved ==
  ASSUME TypeOK, Own, Standing, [Next]_vars
  PROVE  Standing'
<1>1. ASSUME NEW i \in Writers, Pending(i)
      PROVE  Pending(i)'
  BY <1>1, PendingStays, RequestMoves DEF Writers
<1>2. ASSUME NEW r \in Requests, status'[r] \in {"waiting", "running"}, Fallback(r)
      PROVE  Task[r].of \in Writers /\ Pending(Task[r].of)'
  <2>1. CASE status[r] \in {"waiting", "running"}  BY <1>1, <1>2, <2>1 DEF Standing
  <2>2. CASE Admissible(r)
    <3>1. Task[r].of \in Writers /\ Pending(Task[r].of)
      BY <1>2, <2>2 DEF Admissible, Fallback, VerifierReference, FallbackReference
    <3> QED  BY <1>1, <3>1
  <2>3. Moved(r)  BY RequestMoves
  <2> QED  BY <1>2, <2>1, <2>2, <2>3 DEF Moved
<1>3. ASSUME NEW i \in Writers, <<i, "attestation">> \in checked'
      PROVE  Pending(i)'
  BY <1>1, <1>3, LookedAt DEF Standing
<1> QED  BY <1>2, <1>3 DEF Standing, Fallback

\* A binding is that of an approved plan, which stands.
LEMMA BoundStays ==
  ASSUME TypeOK, Own, [Next]_vars, NEW r \in Requests, MilestoneBound(r)
  PROVE  MilestoneBound(r)'
<1> SUFFICES ASSUME TierLevel(Task[r]) = "T2"
             PROVE  \E g \in InputIn(r, "pre-review") :
                       State(g)' = "completed" /\ ContractOf(g)'.decision = "approve" /\ r \in Task[g].binds
  BY DEF MilestoneBound
<1>1. PICK g \in InputIn(r, "pre-review") :
         State(g) = "completed" /\ ContractOf(g).decision = "approve" /\ r \in Task[g].binds
  BY DEF MilestoneBound
<1>2. g \in Requests  BY PipelineAssumption DEF InputIn
<1>3. g \notin Writers  BY <1>1, <1>2, ContractStands DEF Contract
<1> QED  BY <1>1, <1>2, <1>3, AnswerStays

\* An input of a stage that does not write, once it stands, stands.
LEMMA RestStays ==
  ASSUME TypeOK, Own, [Next]_vars, NEW r \in Requests, NEW i \in Task[r].inputs,
         i.stage # "implementing", Rests(r, i)
  PROVE  Rests(r, i)'
<1>1. i.request \in Requests  BY PipelineAssumption
<1>2. ContractOf(i.request).stage = Task[i.request].stage
  BY <1>1, ContractStands DEF Rests, Contract
<1>3. i.request \notin Writers  BY <1>2 DEF Rests, Matches, Writers
<1> QED  BY <1>1, <1>3, AnswerStays DEF Rests

LEMMA RanMoves ==
  ASSUME TypeOK, Own, NEW r \in Requests, Moved(r), Ran(r)'
  PROVE  Ran(r) \/ (status[r] = "waiting" /\ GateOpens(r))
  BY DEF Ran, Moved, Kept, Own, Answers, Failed, Completed, NoArtifact

LEMMA GatedPreserved ==
  ASSUME TypeOK, Own, Gated, [Next]_vars
  PROVE  Gated'
<1> SUFFICES ASSUME NEW r \in Requests, Ran(r)', NEW i \in Task[r].inputs, i.stage # "implementing"
             PROVE  Rests(r, i)'
  BY DEF Gated
<1>1. Moved(r)  BY RequestMoves
<1>2. Rests(r, i)  BY <1>1, RanMoves DEF Gated, GateOpens, Rests
<1> QED  BY <1>2, RestStays

LEMMA AdmittedPreserved ==
  ASSUME TypeOK, Own, Admitted, [Next]_vars
  PROVE  Admitted'
<1> SUFFICES ASSUME NEW r \in Requests, status'[r] = "waiting" \/ Ran(r)'
             PROVE  ValidHandoff(Task[r]) /\ (r \in Writers => MilestoneBound(r)')
  BY DEF Admitted
<1>1. Moved(r)  BY RequestMoves
<1>2. ValidHandoff(Task[r]) /\ (r \in Writers => MilestoneBound(r))
  BY <1>1, RanMoves DEF Moved, Admitted, Admissible
<1> QED  BY <1>2, BoundStays

----------------------------------------------------------------------------
(* Acceptances.                                                            *)

\* What a step accepts is of the first tier or was approved by a review of it.
LEMMA Accepts ==
  ASSUME TypeOK, Standing, [Next]_vars, NEW j \in Writers
  PROVE  /\ receipt[j] => receipt'[j]
         /\ \/ receipt'[j] = receipt[j]
            \/ /\ Pending(j)
               /\ \/ host[j].tier = "T0"
                  \/ \E g \in Reviews : <<g, j>> \in approvals' /\ Task[g].stage = "post-review"
         /\ approvals \subseteq approvals'
<1> DEFINE Goal == /\ receipt[j] => receipt'[j]
                   /\ \/ receipt'[j] = receipt[j]
                      \/ /\ Pending(j)
                         /\ \/ host[j].tier = "T0"
                            \/ \E g \in Reviews : <<g, j>> \in approvals' /\ Task[g].stage = "post-review"
                   /\ approvals \subseteq approvals'
<1>1. j \in Requests  BY DEF Writers
<1>2. ASSUME NEW r \in Requests, Approve(r) \/ ApproveCut(r)
      PROVE  Goal
  <2>1. CASE UNCHANGED <<receipt, approvals>>  BY <2>1
  <2>2. CASE AcceptedBy(r) /\ Accept(Reviewed(r)) /\ approvals' = approvals \cup {<<r, Reviewed(r)>>}
    <3>1. Task[r].stage = "post-review" /\ r \in Reviews  BY <2>2 DEF AcceptedBy, Reviews
    <3>2. receipt' = [receipt EXCEPT ![Reviewed(r)] = TRUE]  BY <2>2 DEF Accept
    <3>3. Pending(Reviewed(r))  BY <2>2 DEF AcceptedBy, Proven, Effective
    <3> QED  BY <1>1, <2>2, <3>1, <3>2, <3>3 DEF TypeOK
  <2>3. CASE receipt' = receipt /\ approvals \subseteq approvals'  BY <2>3
  <2> QED  BY <1>2, <2>1, <2>2, <2>3 DEF Approve, ApproveCut
<1>3. ASSUME NEW r \in Requests, VerifierPasses(r)
      PROVE  Goal
  BY <1>1, <1>3 DEF VerifierPasses, Accept, Standing, TypeOK
<1>4. ASSUME NEW i \in Writers, NEW verdict \in {"completed", "failed"}, RecordHost(i, verdict)
      PROVE  Goal
  BY <1>1, <1>4 DEF RecordHost, Attest, Accept, TypeOK
<1>5. CASE UNCHANGED <<receipt, approvals>>  BY <1>5
<1> QED
  BY <1>2, <1>3, <1>4, <1>5 DEF Next, Dispatch, Start, Refuse, Fail, Complete, Deliver, DeliverCut,
     AttestLate, RecordHostCut, Abandon, CheckAbsent, Die, vars, records

LEMMA ApprovedPreserved ==
  ASSUME TypeOK, Own, Ledgers, Standing, Approved, [Next]_vars
  PROVE  Approved'
<1> SUFFICES ASSUME NEW j \in Writers, receipt'[j], host'[j].tier # "T0"
             PROVE  \E g \in Reviews : <<g, j>> \in approvals' /\ Task[g].stage = "post-review"
  BY DEF Approved
<1>1. j \in Requests /\ Moved(j)  BY RequestMoves DEF Writers
<1>2. Pending(j)
  <2>1. CASE receipt[j]  BY <1>1, <2>1 DEF Ledgers
  <2>2. CASE ~receipt[j]  BY <1>1, <2>2, Accepts
  <2> QED  BY <2>1, <2>2
<1>3. host'[j] = host[j]  BY <1>1, <1>2, PendingStays
<1> QED  BY <1>3, Accepts DEF Approved

----------------------------------------------------------------------------
(* The invariant.                                                          *)

LEMMA InitInvariant == Init => IInv
<1> SUFFICES ASSUME Init PROVE IInv
  OBVIOUS
<1>1. TypeOK  BY PipelineAssumption DEF Init, TypeOK, NoArtifact, NoOutcome, MilestoneStates
<1>2. Own  BY DEF Init, Own, NoArtifact, NoOutcome
<1>3. Ledgers /\ NoCrash  BY DEF Init, Ledgers, NoCrash, Pending, Writers
<1>4. Standing  BY DEF Init, Standing
<1>5. Gated /\ Admitted  BY DEF Init, Gated, Admitted, Ran
<1>6. Approved  BY DEF Init, Approved, Writers
<1> QED  BY <1>1, <1>2, <1>3, <1>4, <1>5, <1>6 DEF IInv

LEMMA StepInvariant == IInv /\ [Next]_vars => IInv'
  BY TypePreserved, OwnPreserved, LedgersPreserved, NoCrashPreserved, StandingPreserved,
     GatedPreserved, AdmittedPreserved, ApprovedPreserved DEF IInv

\* The inductive invariant holds in every state of a run of tasks.
THEOREM Invariant == Spec => []IInv
<1>1. Init => IInv  BY InitInvariant
<1>2. IInv /\ [Next]_vars => IInv'  BY StepInvariant
<1> QED  BY <1>1, <1>2, PTL DEF Spec

\* Every record of the ledgers is one that the code writes.
THEOREM TypeCorrect == Spec => []TypeOK
<1>1. IInv => TypeOK  BY DEF IInv
<1> QED  BY <1>1, Invariant, PTL

\* The request ledger and the milestone ledger say the same of an artifact.
THEOREM LedgersSayTheSame == Spec => []LedgersAgree
<1>1. IInv => LedgersAgree
  <2> SUFFICES ASSUME IInv, NEW i \in Writers
               PROVE  /\ milestone[i] = "verified-not-accepted" => attestation[i] = "completed"
                      /\ milestone[i] = "accepted" => receipt[i] /\ i \notin ListedOpen
                      /\ Pending(i) /\ deaths = 0 /\ ~verifier[i] /\ milestone[i] # "abandoned" =>
                           milestone[i] = CASE Advice(i) = "host-verification-required" -> "awaiting-artifact"
                                            [] Advice(i) = "repair-required" -> "failed"
                                            [] Advice(i) = "post-review-required" -> "verified-not-accepted"
                                            [] Advice(i) = "accepted" -> "accepted"
                                            [] OTHER -> "none"
    BY DEF LedgersAgree
  <2>1. i \in Requests  BY DEF Writers
  <2>2. milestone[i] = "accepted" => Pending(i) /\ attestation[i] = "completed" /\ receipt[i]
    BY <2>1 DEF IInv, Ledgers
  <2>3. i \in ListedOpen => Acceptance(i) # "accepted"  BY DEF ListedOpen
  <2>4. milestone[i] = "accepted" => Acceptance(i) = "accepted"
    BY <2>2 DEF Acceptance, Effective
  <2>5. ASSUME Pending(i), deaths = 0, ~verifier[i], milestone[i] # "abandoned"
        PROVE  milestone[i] = CASE Advice(i) = "host-verification-required" -> "awaiting-artifact"
                                [] Advice(i) = "repair-required" -> "failed"
                                [] Advice(i) = "post-review-required" -> "verified-not-accepted"
                                [] Advice(i) = "accepted" -> "accepted"
                                [] OTHER -> "none"
    <3>1. attestation[i] \in {"none", "completed", "failed"}  BY <2>1 DEF IInv, TypeOK
    <3>2. CASE attestation[i] = "none"
      <4>1. milestone[i] = "awaiting-artifact"  BY <2>5, <3>2 DEF IInv, NoCrash
      <4>2. Advice(i) = "host-verification-required"  BY <2>5, <3>2 DEF Advice, Effective
      <4> QED  BY <4>1, <4>2
    <3>3. CASE attestation[i] = "failed"
      <4>1. milestone[i] = "failed"  BY <2>5, <3>3 DEF IInv, NoCrash
      <4>2. Advice(i) = "repair-required"  BY <2>5, <3>3 DEF Advice, Effective
      <4> QED  BY <4>1, <4>2
    <3>4. CASE attestation[i] = "completed" /\ milestone[i] = "accepted"
      <4>1. Effective(i) = "completed"  BY <2>5, <3>4 DEF Effective
      <4>2. Advice(i) = "accepted"  BY <2>4, <3>4, <4>1 DEF Advice
      <4> QED  BY <3>4, <4>2
    <3>5. CASE attestation[i] = "completed" /\ milestone[i] = "verified-not-accepted"
      <4>1. host[i].tier # "T0" /\ ~receipt[i]
        BY <2>1, <2>5, <3>5 DEF IInv, NoCrash, Ledgers
      <4>2. Effective(i) = "completed"  BY <2>5, <3>5 DEF Effective
      <4>3. Advice(i) = "post-review-required"  BY <4>1, <4>2 DEF Advice, Acceptance
      <4> QED  BY <3>5, <4>3
    <3> QED  BY <2>5, <3>1, <3>2, <3>3, <3>4, <3>5 DEF IInv, NoCrash
  <2> QED  BY <2>1, <2>2, <2>3, <2>4, <2>5 DEF IInv, Ledgers
<1> QED  BY <1>1, Invariant, PTL

----------------------------------------------------------------------------
(* Tiers and phases.                                                       *)

\* What an input of a started task stands for: a task of the same run that
\* was itself admitted and started.
LEMMA Input ==
  ASSUME IInv, NEW r \in Requests, Ran(r), NEW i \in Task[r].inputs, i.stage # "implementing"
  PROVE  /\ i.request \in Requests /\ Task[i.request].stage = i.stage
         /\ Task[i.request].run = Task[r].run /\ State(i.request) = "completed"
         /\ Task[r].version = 2 => /\ Task[i.request].version = 2 /\ Ran(i.request)
                                   /\ Task[i.request].phase = ExpectedPhase(Task[r], i)
                                   /\ Predecessors(Task[i.request])
<1> DEFINE q == i.request
<1>1. q \in Requests  BY PipelineAssumption
<1>2. Rests(r, i)  BY DEF IInv, Gated
<1>3. ContractOf(q) \in {Contract(Task[q], "none"), Contract(Task[q], "approve")}
  BY <1>1, <1>2, ContractStands DEF IInv, Rests
<1>4. /\ ContractOf(q).stage = Task[q].stage /\ ContractOf(q).run = Task[q].run
      /\ ContractOf(q).version = Task[q].version /\ ContractOf(q).phase = Task[q].phase
  BY <1>3 DEF Contract
<1>5. /\ Task[q].stage = i.stage /\ Task[q].run = Task[r].run /\ State(q) = "completed"
      /\ Task[r].version = 2 => Task[q].version = 2 /\ Task[q].phase = ExpectedPhase(Task[r], i)
  BY <1>2, <1>4 DEF Rests, Matches
<1>6. Ran(q)  BY <1>5 DEF Ran, State, Pending
<1>7. Task[q].version = 2 => Predecessors(Task[q])
  BY <1>1, <1>6 DEF IInv, Admitted, ValidHandoff
<1> QED  BY <1>1, <1>5, <1>6, <1>7

\* An acceptance has the proof, and the reviews, that its tier asks for.
LEMMA AcceptedIsProven == IInv => AcceptedFollowsTier
<1> SUFFICES ASSUME IInv, NEW i \in Writers, receipt[i]
             PROVE  /\ Effective(i) = "completed"
                    /\ host[i].tier # "T0" => \E g \in Reviews : <<g, i>> \in approvals /\ Task[g].stage = "post-review"
                    /\ host[i].tier = "T2" => \E g \in Reviews : /\ State(g) = "completed" /\ i \in Task[g].binds
                                                                 /\ Task[g].run = Task[i].run
  BY DEF AcceptedFollowsTier
<1>1. i \in Requests  BY DEF Writers
<1>2. Pending(i) /\ attestation[i] = "completed"  BY <1>1 DEF IInv, Ledgers
<1>3. Effective(i) = "completed"  BY <1>2 DEF Effective
<1>4. host[i].tier # "T0" => \E g \in Reviews : <<g, i>> \in approvals /\ Task[g].stage = "post-review"
  BY DEF IInv, Approved
<1>5. ASSUME host[i].tier = "T2"
      PROVE  \E g \in Reviews : State(g) = "completed" /\ i \in Task[g].binds /\ Task[g].run = Task[i].run
  <2>1. Ran(i)  BY <1>2 DEF Ran, Pending
  <2>2. host[i] = Artifact(i)  BY <1>1, <1>2 DEF IInv, Own, NoArtifact, Pending
  <2>3. TierLevel(Task[i]) = "T2"  BY <1>1, <1>5, <2>2, ArtifactRecord
  <2>4. MilestoneBound(i)  BY <1>1, <2>1 DEF IInv, Admitted
  <2>5. PICK j \in Task[i].inputs : j.stage = "pre-review" /\ i \in Task[j.request].binds
    BY <2>3, <2>4 DEF MilestoneBound, InputIn
  <2> QED  BY <1>1, <2>1, <2>5, Input DEF Reviews
<1> QED  BY <1>3, <1>4, <1>5

\* A patch of a later phase goes back to the review that closed the phase before.
LEMMA PhaseIsClosed == IInv => PhasesInOrder
<1> SUFFICES ASSUME IInv, NEW i \in Writers, host[i].state # "none", Task[i].version = 2, Task[i].phase > 1
             PROVE  \E g \in Reviews : /\ Task[g].stage = "post-review" /\ State(g) = "completed"
                                       /\ Task[g].run = Task[i].run /\ Task[g].phase = Task[i].phase - 1
  BY DEF PhasesInOrder
<1>1. i \in Requests /\ Ran(i) /\ Task[i].stage = "implementing"  BY DEF Writers, Ran
<1>2. Predecessors(Task[i])  BY <1>1 DEF IInv, Admitted, ValidHandoff
<1>3. PICK p \in Task[i].inputs : p.stage = "pre-review"
  BY <1>1, <1>2 DEF Predecessors, Required, StagesOf
<1> DEFINE P == p.request
<1>4. /\ P \in Requests /\ Ran(P) /\ Task[P].stage = "pre-review" /\ Task[P].version = 2
      /\ Task[P].run = Task[i].run /\ Task[P].phase = Task[i].phase /\ Predecessors(Task[P])
  BY <1>1, <1>3, Input DEF ExpectedPhase
<1> HIDE DEF P
<1>5. CASE "post-review" \in StagesOf(Task[P])
  <2>1. PICK j \in Task[P].inputs : j.stage = "post-review"  BY <1>5 DEF StagesOf
  <2>2. Cardinality(Task[P].inputs) = 1  BY <1>4, <1>5 DEF Predecessors
  <2>3. ExpectedPhase(Task[P], j) = Task[i].phase - 1  BY <1>4, <2>1, <2>2 DEF ExpectedPhase
  <2> QED  BY <1>4, <2>1, <2>3, Input DEF Reviews
<1>6. CASE "post-review" \notin StagesOf(Task[P])
  <2>1. "planned" \in StagesOf(Task[P])  BY <1>4, <1>6 DEF Predecessors, Required
  <2>2. PICK q \in Task[P].inputs : q.stage = "planned"  BY <2>1 DEF StagesOf
  <2> DEFINE Q == q.request
  <2>3. /\ Q \in Requests /\ Ran(Q) /\ Task[Q].stage = "planned" /\ Task[Q].version = 2
        /\ Task[Q].run = Task[i].run /\ Task[Q].phase = Task[i].phase /\ Predecessors(Task[Q])
    BY <1>4, <2>2, Input DEF ExpectedPhase
  <2> HIDE DEF Q
  <2>4. PICK s \in Task[Q].inputs : s.stage = "scouted"
    BY <2>3 DEF Predecessors, Required, StagesOf
  <2> DEFINE S == s.request
  <2>5. /\ S \in Requests /\ Ran(S) /\ Task[S].stage = "scouted" /\ Task[S].version = 2
        /\ Task[S].run = Task[i].run /\ Task[S].phase = Task[i].phase /\ Predecessors(Task[S])
    BY <2>3, <2>4, Input DEF ExpectedPhase
  <2> HIDE DEF S
  <2>6. Cardinality(Task[S].inputs) = 1 /\ StagesOf(Task[S]) = {"post-review"}
    BY <2>5 DEF Predecessors
  <2>7. PICK j \in Task[S].inputs : j.stage = "post-review"  BY <2>6 DEF StagesOf
  <2>8. ExpectedPhase(Task[S], j) = Task[i].phase - 1  BY <2>5, <2>6, <2>7 DEF ExpectedPhase
  <2> QED  BY <2>5, <2>7, <2>8, Input DEF Reviews
<1> QED  BY <1>5, <1>6

\* Acceptances and phases rest on what their tier asks for, whatever the
\* tasks, their inputs and the crashes.
THEOREM TiersAreHeld == Spec => []TiersHold
<1>1. IInv => TiersHold  BY AcceptedIsProven, PhaseIsClosed DEF TiersHold
<1> QED  BY <1>1, Invariant, PTL

----------------------------------------------------------------------------
(* What is settled.                                                        *)

\* A proof is written once, and none beside that of the verifier, but by a
\* gateway that checked before; what is abandoned is left alone.
Settled(j) ==
    /\ attestation[j] # "none" \/ (verifier[j] /\ ~Raced(j)) => attestation'[j] = attestation[j]
    /\ verifier[j] => verifier'[j]
    /\ receipt[j] => receipt'[j]
    /\ milestone[j] = "abandoned" => milestone'[j] = "abandoned" /\ receipt'[j] = receipt[j]

LEMMA StepSettles ==
  ASSUME IInv, [Next]_vars, NEW j \in Writers
  PROVE  Settled(j)
<1>1. j \in Requests  BY DEF Writers
<1>2. milestone[j] = "abandoned" => status[j] = "ended"
  BY <1>1 DEF IInv, Ledgers, Own, Pending
<1>3. ASSUME NEW r \in Requests, Approve(r) \/ ApproveCut(r)
      PROVE  Settled(j)
  <2>1. CASE receipt' = receipt /\ milestone' = milestone
    BY <1>3, <2>1 DEF Settled, Approve, ApproveCut
  <2>2. CASE AcceptedBy(r) /\ Acceptable(Reviewed(r)) /\ Accept(Reviewed(r))
    BY <1>1, <1>3, <2>2 DEF Settled, Approve, ApproveCut, Acceptable, Accept, IInv, TypeOK
  <2> QED  BY <1>3, <2>1, <2>2 DEF Approve, ApproveCut
<1>4. ASSUME NEW r \in Requests, VerifierPasses(r)
      PROVE  Settled(j)
  BY <1>1, <1>4 DEF Settled, VerifierPasses, Acceptable, Accept, IInv, TypeOK
<1>5. ASSUME NEW i \in Writers, NEW verdict \in {"completed", "failed"},
             RecordHost(i, verdict) \/ \E proofOnly \in BOOLEAN : RecordHostCut(i, verdict, proofOnly)
      PROVE  Settled(j)
  <2>1. i \in Requests /\ Attest(i, verdict)  BY <1>5 DEF Writers, RecordHost, RecordHostCut
  <2>2. attestation[j] # "none" \/ (verifier[j] /\ ~Raced(j)) => attestation'[j] = attestation[j]
    BY <1>1, <2>1 DEF Attest, HostMayWrite, Raced, IInv, TypeOK
  <2>3. /\ verifier' = verifier
        /\ receipt[j] => receipt'[j]
        /\ milestone[j] = "abandoned" => milestone'[j] = "abandoned" /\ receipt'[j] = receipt[j]
    BY <1>1, <1>5, <2>1 DEF RecordHost, RecordHostCut, Attest, Verifiable, Accept, IInv, TypeOK
  <2> QED  BY <2>2, <2>3 DEF Settled
<1>6. ASSUME NEW i \in Writers, NEW verdict \in {"completed", "failed"}, AttestLate(i, verdict)
      PROVE  Settled(j)
  BY <1>1, <1>6 DEF Settled, AttestLate, Raced, IInv, TypeOK, Writers
<1>7. ASSUME NEW r \in Requests, Start(r) \/ Fail(r)
      PROVE  Settled(j)
  BY <1>1, <1>2, <1>7 DEF Settled, Start, Fail, IInv, TypeOK
<1>8. ASSUME NEW r \in Writers, NEW p \in Patches, Deliver(r, p)
      PROVE  Settled(j)
  BY <1>1, <1>2, <1>8 DEF Settled, Deliver, IInv, TypeOK
<1>9. ASSUME NEW i \in Writers, Abandon(i)
      PROVE  Settled(j)
  BY <1>1, <1>9 DEF Settled, Abandon, IInv, TypeOK
<1>10. CASE UNCHANGED <<attestation, verifier, receipt, milestone>>  BY <1>10 DEF Settled
<1> QED
  BY <1>3, <1>4, <1>5, <1>6, <1>7, <1>8, <1>9, <1>10 DEF Next, Dispatch, Refuse, Complete, DeliverCut,
     CheckAbsent, Die, vars, records

\* A verdict that can be read stands, an acceptance is for ever, and what the
\* host gave up is never accepted.
THEOREM WhatIsSettledStays == Spec => SettledStays
<1>1. ASSUME IInv, [Next]_vars, NEW i \in Writers
      PROVE  /\ Effective(i) \in {"completed", "failed"} /\ ~Raced(i) => Effective(i)' = Effective(i)
             /\ receipt[i] => receipt'[i]
             /\ milestone[i] = "abandoned" => milestone'[i] = "abandoned" /\ receipt'[i] = receipt[i]
  <2>1. i \in Requests /\ Moved(i)  BY <1>1, RequestMoves DEF Writers, IInv
  <2>2. Settled(i)  BY <1>1, StepSettles
  <2>3. ASSUME Effective(i) \in {"completed", "failed"}, ~Raced(i)
        PROVE  Effective(i)' = Effective(i)
    <3>1. Pending(i) /\ Pending(i)'
      BY <1>1, <2>1, <2>3, PendingStays DEF Effective, IInv
    <3>2. attestation[i] # "none" \/ verifier[i]  BY <2>3, <3>1 DEF Effective
    <3> QED  BY <2>2, <2>3, <3>1, <3>2 DEF Effective, Settled
  <2> QED  BY <2>2, <2>3 DEF Settled
<1>2. IInv /\ [Next]_vars => [\A i \in Writers :
        /\ Effective(i) \in {"completed", "failed"} /\ ~Raced(i) => Effective(i)' = Effective(i)
        /\ receipt[i] => receipt'[i]
        /\ milestone[i] = "abandoned" => milestone'[i] = "abandoned" /\ receipt'[i] = receipt[i]]_vars
  BY <1>1
<1> QED  BY <1>2, Invariant, PTL DEF Spec, SettledStays

-----------------------------------------------------------------------------
(* The host beside the pipeline *)

Asleep == {"wait-worker", "host-verification-required", "post-review-required"}

Verdicts == {"none", "awaiting-host-verification", "completed", "failed"}

Clients ==
    [at : {"idle", "waited", "told", "page", "result", "candidate", "checked", "recorded", "prepared",
           "reviewed", "ready"},
     of : Writers \cup {"none"}, told : BOOLEAN, version : Verdicts, review : Requests \cup {"none"}]

\* The client is after an artifact, and names a review once it has one.
ClientOK ==
    /\ client \in Clients /\ sleeper = [i \in Writers |-> sleeper[i]]
    /\ client.at # "idle" => client.of \in Writers
    /\ client.at \in {"prepared", "reviewed", "ready"} => client.review \in Requests

\* The monitor has each request in one place at most, and only after its dispatch.
Monitored == \A r \in Requests :
    /\ r \in live \cup unsaved \cup saved => status[r] # "idle"
    /\ r \in unsaved => status[r] = "ended" /\ r \notin saved
    /\ r \in live => r \notin unsaved \cup saved

Sleeping == ~plan.shared => \A i \in Writers : sleeper[i] # NoView =>
    /\ sleeper[i].state \in Asleep
    /\ View(i) = sleeper[i] \/ (i \in unsaved /\ ~Pending(i))

\* A review of an artifact on its own.
Bundled(r) == Task[r].stage = "post-review" /\ Task[r].version = 0 /\ Task[r].tier = "T1"

\* Such a review was admitted for a proven artifact, which it accepts if it
\* approves, unless the proof was overruled.
Reviewing == \A r \in Requests : Bundled(r) =>
    /\ status[r] \in {"waiting", "running"} =>
          /\ Task[r].of \in Writers /\ Effective(Task[r].of) \in {"completed", "failed"}
          /\ host[Task[r].of].tier = "T1" /\ host[Task[r].of].contract.run = Task[r].run
    /\ outcome[r].state = "completed" =>
          /\ Task[r].of \in Writers
          /\ <<r, Task[r].of>> \in approvals \/ attestation[Task[r].of] = "failed"

\* What the client has read of the review and of the acceptance.
Inspecting ==
    LET r == client.review  i == client.of IN
    /\ client.at \in {"prepared", "reviewed", "ready"} => Bundled(r) /\ Task[r].of = i
    /\ client.at \in {"reviewed", "ready"} => <<r, i>> \in approvals \/ attestation[i] = "failed"
    /\ client.at = "ready" => attestation[i] = "completed" /\ receipt[i]

HInv == IInv /\ ClientOK /\ Monitored /\ Sleeping /\ Reviewing /\ Inspecting

----------------------------------------------------------------------------
(* The host's steps are steps of the pipeline.                             *)

LEMMA HostStep ==
  ASSUME ClientOK, [HostNext]_hostVars
  PROVE  [Next]_vars
<1>1. CASE Submit
  <2>1. client.of \in Writers  BY <1>1 DEF Submit, ClientOK
  <2>2. CASE RecordHost(client.of, "completed")  BY <2>1, <2>2 DEF Next
  <2>3. CASE UNCHANGED vars  BY <2>3
  <2> QED  BY <1>1, <2>2, <2>3 DEF Submit, Pipeline
<1>2. CASE Pipeline(Next)  BY <1>2 DEF Pipeline
<1>3. CASE UNCHANGED vars  BY <1>3
<1> QED
  BY <1>1, <1>2, <1>3 DEF HostNext, Settle, Save, Prepare, Wait, TimeOut, AwaitWorker, HandoffFirst, FirstPage,
     LastPage, HandoffLast, Checks, InspectReview, InspectHandoff, Abort, Turn, hostVars

\* How the monitor and the sleepers follow a step.
LEMMA ReadersMove ==
  ASSUME [HostNext]_hostVars
  PROVE  \/ Listed /\ Publish
         \/ UNCHANGED <<vars, readers>>
         \/ \E r \in Requests : Settle(r) \/ Save(r)
         \/ \E i \in Writers : Wait(i) \/ TimeOut(i)
<1>1. CASE Pipeline(Next) \/ Submit  BY <1>1 DEF Pipeline, Submit
<1> QED
  BY <1>1 DEF HostNext, Prepare, AwaitWorker, HandoffFirst, FirstPage, LastPage, HandoffLast, Checks,
     InspectReview, InspectHandoff, Abort, Turn, hostVars

LEMMA PlanStays ==
  ASSUME [Next]_vars
  PROVE  plan' = plan
  BY DEF Next, Dispatch, Start, Refuse, Fail, Complete, Approve, ApproveCut, VerifierPasses, Deliver, DeliverCut,
     RecordHost, RecordHostCut, AttestLate, Abandon, CheckAbsent, Die, vars, records

LEMMA EffectiveType ==
  ASSUME TypeOK, NEW i \in Requests
  PROVE  Effective(i) \in Verdicts
  BY DEF TypeOK, Effective, Verdicts

LEMMA SleeperStays ==
  ASSUME ClientOK, [HostNext]_hostVars
  PROVE  sleeper' = [i \in Writers |-> sleeper'[i]]
<1>1. CASE Publish  BY <1>1 DEF Publish
<1>2. CASE UNCHANGED sleeper  BY <1>2 DEF ClientOK
<1>3. ASSUME NEW i \in Writers, NEW view, sleeper' = [sleeper EXCEPT ![i] = view]
      PROVE  sleeper' = [j \in Writers |-> sleeper'[j]]
  BY <1>3 DEF ClientOK
<1> QED  BY <1>1, <1>2, <1>3, ReadersMove DEF readers, Settle, Save, Wait, TimeOut

\* What a call of the client leaves it with.
LEMMA Calls ==
  ASSUME TypeOK, ClientOK, [HostNext]_hostVars
  PROVE  /\ client' \in Clients
         /\ \/ client' = client
            \/ client' = Idle
            \/ \E i \in Writers : client'.at \in {"waited", "told"} /\ client'.of = i
            \/ /\ client.at # "idle" /\ client'.of = client.of
               /\ client'.at \in {"page", "result", "candidate", "checked", "recorded"}
            \/ \E r \in Requests : /\ Prepare(r) /\ client.at = "recorded" /\ client'.at = "prepared"
                                   /\ client'.of = client.of /\ client'.review = r
            \/ /\ InspectReview /\ client.at = "prepared" /\ client'.at = "reviewed"
               /\ client'.of = client.of /\ client'.review = client.review
            \/ /\ InspectHandoff /\ client.at = "reviewed" /\ client'.at = "ready"
               /\ client'.of = client.of /\ client'.review = client.review
<1> USE DEF ClientOK, Clients, Turn
<1>1. CASE UNCHANGED client  BY <1>1
<1>2. CASE Abort  BY <1>2 DEF Abort, Idle, Verdicts
<1>3. ASSUME NEW i \in Writers, AwaitWorker(i) \/ HandoffFirst(i)
      PROVE  client' \in Clients /\ client'.at \in {"waited", "told"} /\ client'.of = i
  BY <1>3 DEF AwaitWorker, HandoffFirst, Idle, Verdicts
<1>4. CASE HandoffLast \/ FirstPage \/ LastPage \/ Checks \/ Submit
  <2>1. client.of \in Writers /\ client.at # "idle"
    BY <1>4 DEF HandoffLast, FirstPage, LastPage, Checks, Submit
  <2>2. Digest(client.of) \in Verdicts  BY <2>1, EffectiveType DEF Digest, Writers
  <2> QED  BY <1>4, <2>1, <2>2 DEF HandoffLast, FirstPage, LastPage, Checks, Submit, Verdicts
<1>5. ASSUME NEW r \in Requests, Prepare(r)
      PROVE  /\ client' \in Clients /\ client.at = "recorded" /\ client'.at = "prepared"
             /\ client'.of = client.of /\ client'.review = r
  BY <1>5 DEF Prepare
<1>6. CASE InspectReview  BY <1>6 DEF InspectReview
<1>7. CASE InspectHandoff  BY <1>7 DEF InspectHandoff
<1> QED
  BY <1>1, <1>2, <1>3, <1>4, <1>5, <1>6, <1>7 DEF HostNext, Settle, Save, Wait, TimeOut, hostVars

LEMMA ClientOKPreserved ==
  ASSUME TypeOK, ClientOK, [HostNext]_hostVars
  PROVE  ClientOK'
<1>1. sleeper' = [i \in Writers |-> sleeper'[i]]  BY SleeperStays
<1>2. client.at # "idle" => client.of \in Writers  BY DEF ClientOK
<1>3. client' \in Clients  BY Calls
<1>4. client'.at # "idle" => client'.of \in Writers
  BY Calls DEF ClientOK, Idle
<1>5. client'.at \in {"prepared", "reviewed", "ready"} => client'.review \in Requests
  BY Calls DEF ClientOK, Idle
<1> QED  BY <1>1, <1>3, <1>4, <1>5 DEF ClientOK

----------------------------------------------------------------------------
(* The monitor and the sleepers.                                           *)

LEMMA StatusStays ==
  ASSUME TypeOK, [Next]_vars, NEW r \in Requests
  PROVE  /\ status[r] # "idle" => status'[r] # "idle"
         /\ status[r] = "ended" => status'[r] = "ended" /\ Kept(r)
  BY RequestMoves DEF Moved

LEMMA MonitoredPreserved ==
  ASSUME TypeOK, ClientOK, Monitored, [HostNext]_hostVars
  PROVE  Monitored'
<1>1. [Next]_vars  BY HostStep
<1>2. ASSUME NEW r \in Requests
      PROVE  /\ status[r] # "idle" => status'[r] # "idle"
             /\ status[r] = "ended" => status'[r] = "ended"
  BY <1>1, <1>2, StatusStays
<1>3. CASE Listed
  BY <1>2, <1>3 DEF Listed, Monitored
<1>4. CASE UNCHANGED <<vars, readers>>  BY <1>4 DEF Monitored, vars, readers
<1>5. ASSUME NEW r \in Requests, Settle(r) \/ Save(r)
      PROVE  Monitored'
  BY <1>5 DEF Settle, Save, Monitored, vars
<1>6. ASSUME NEW i \in Writers, Wait(i) \/ TimeOut(i)
      PROVE  Monitored'
  BY <1>6 DEF Wait, TimeOut, Monitored, vars
<1> QED  BY <1>3, <1>4, <1>5, <1>6, ReadersMove

\* A view is of what is told of, and of the list.
LEMMA ViewStays ==
  ASSUME NEW i \in Writers, ~Told(i), i \in live <=> i \in live'
  PROVE  View(i)' = View(i)
  BY DEF Told, View, Advice, Acceptance, Effective, Proof, State, Pending

LEMMA WorkerView ==
  ASSUME NEW i \in Writers, View(i).state \in Asleep, ~Pending(i)
  PROVE  i \in live
  BY DEF View, Asleep

LEMMA SleepingPreserved ==
  ASSUME IInv, ClientOK, Monitored, Sleeping, [HostNext]_hostVars
  PROVE  Sleeping'
<1> SUFFICES ASSUME ~plan.shared, NEW i \in Writers, sleeper'[i] # NoView
             PROVE  /\ sleeper'[i].state \in Asleep
                    /\ View(i)' = sleeper'[i] \/ (i \in unsaved' /\ ~Pending(i)')
  <2>1. plan' = plan  BY HostStep, PlanStays
  <2> QED  BY <2>1 DEF Sleeping
<1>1. i \in Requests /\ TypeOK /\ [Next]_vars  BY HostStep DEF Writers, IInv
<1>2. sleeper[i] # NoView =>
        /\ sleeper[i].state \in Asleep
        /\ View(i) = sleeper[i] \/ (i \in unsaved /\ ~Pending(i))
  BY DEF Sleeping
<1>3. CASE Listed /\ Publish
  <2>1. /\ deaths' = deaths /\ sleeper'[i] = sleeper[i]
        /\ Told(i) => View(i)' = sleeper[i]
    BY <1>3 DEF Publish
  <2>2. CASE Told(i)  BY <1>2, <2>1, <2>2
  <2>3. CASE ~Told(i) /\ View(i) = sleeper[i]
    <3>1. Pending(i) \/ i \in live  BY <1>2, <2>1, <2>3, WorkerView
    <3>2. CASE i \in live
      <4>1. i \in live'  BY <1>3, <2>1, <3>2 DEF Listed
      <4> QED  BY <1>2, <2>1, <2>3, <3>2, <4>1, ViewStays
    <3>3. CASE Pending(i)
      <4>1. Pending(i)' /\ View(i)' = View(i)
        BY <2>3, <3>3 DEF Told, View, Advice, Acceptance, Effective, Proof, Pending
      <4> QED  BY <1>2, <2>1, <2>3, <4>1
    <3> QED  BY <3>1, <3>2, <3>3
  <2>4. CASE ~Told(i) /\ i \in unsaved /\ ~Pending(i)
    <3>1. i \in unsaved'  BY <1>3, <2>1, <2>4 DEF Listed
    <3>2. ~Pending(i)'  BY <2>4 DEF Told, Pending
    <3> QED  BY <1>2, <2>1, <3>1, <3>2
  <2> QED  BY <1>2, <2>1, <2>2, <2>3, <2>4
<1>4. CASE UNCHANGED <<vars, readers>>
  BY <1>2, <1>4 DEF vars, records, readers, View, Advice, Acceptance, Effective, Proof, State, Pending
<1>5. ASSUME NEW r \in Requests, Settle(r)
      PROVE  /\ sleeper'[i].state \in Asleep
             /\ View(i)' = sleeper'[i] \/ (i \in unsaved' /\ ~Pending(i)')
  <2>1. UNCHANGED <<vars, sleeper>> /\ unsaved \subseteq unsaved'  BY <1>5 DEF Settle
  <2>2. Pending(i)' <=> Pending(i)  BY <2>1 DEF vars, records, Pending
  <2>3. CASE i = r /\ ~Pending(i)  BY <1>2, <1>5, <2>1, <2>2, <2>3 DEF Settle
  <2>4. CASE i # r \/ Pending(i)
    <3>1. View(i)' = View(i)
      BY <1>5, <2>1, <2>4 DEF Settle, vars, records, View, Advice, Acceptance, Effective, Proof, State, Pending
    <3> QED  BY <1>2, <2>1, <2>2, <3>1
  <2> QED  BY <2>3, <2>4
<1>6. ASSUME NEW r \in Requests, Save(r)
      PROVE  /\ sleeper'[i].state \in Asleep
             /\ View(i)' = sleeper'[i] \/ (i \in unsaved' /\ ~Pending(i)')
  <2>1. UNCHANGED <<vars, live>> /\ unsaved' = unsaved \ {r} /\ saved' = saved \cup {r} /\ r \in unsaved
    BY <1>6 DEF Save
  <2>2. sleeper'[i] = sleeper[i] /\ (Told(i) => View(i)' = sleeper[i])
    BY <1>6, <2>1 DEF Save, Publish
  <2>3. i = r => Told(i)  BY <1>1, <2>1 DEF Told, Monitored
  <2>4. View(i)' = View(i) /\ (Pending(i)' <=> Pending(i))
    BY <2>1 DEF vars, records, View, Advice, Acceptance, Effective, Proof, State, Pending
  <2> QED  BY <1>2, <2>1, <2>2, <2>3, <2>4
<1>7. ASSUME NEW j \in Writers, Wait(j) \/ TimeOut(j)
      PROVE  /\ sleeper'[i].state \in Asleep
             /\ View(i)' = sleeper'[i] \/ (i \in unsaved' /\ ~Pending(i)')
  <2>1. UNCHANGED <<vars, live, unsaved>>  BY <1>7 DEF Wait, TimeOut
  <2>2. View(i)' = View(i) /\ (Pending(i)' <=> Pending(i))
    BY <2>1 DEF vars, records, View, Advice, Acceptance, Effective, Proof, State, Pending
  <2>3. \/ sleeper'[i] = sleeper[i]
        \/ sleeper'[i] = View(i) /\ View(i).state \in Asleep
    BY <1>7 DEF ClientOK, Wait, TimeOut, Asleep
  <2> QED  BY <1>2, <2>1, <2>2, <2>3
<1> QED  BY <1>3, <1>4, <1>5, <1>6, <1>7, ReadersMove

----------------------------------------------------------------------------
(* The review and the inspection.                                          *)

LEMMA VerdictStays ==
  ASSUME IInv, [Next]_vars, NEW i \in Writers
  PROVE  /\ attestation[i] # "none" => attestation'[i] = attestation[i]
         /\ Effective(i) \in {"completed", "failed"} =>
               Effective(i)' \in {"completed", "failed"} /\ host'[i] = host[i]
<1>1. i \in Requests /\ TypeOK /\ TypeOK' /\ Own /\ Moved(i)
  BY TypePreserved, RequestMoves DEF IInv, Writers
<1>2. Settled(i)  BY StepSettles
<1>3. ASSUME Effective(i) \in {"completed", "failed"}
      PROVE  Effective(i)' \in {"completed", "failed"} /\ host'[i] = host[i]
  <2>1. Pending(i) /\ (attestation[i] # "none" \/ verifier[i])  BY <1>3 DEF Effective
  <2>2. Pending(i)' /\ host'[i] = host[i]  BY <1>1, <2>1, PendingStays
  <2>3. attestation'[i] # "none" \/ verifier'[i]  BY <1>2, <2>1 DEF Settled
  <2>4. attestation'[i] \in {"none", "completed", "failed"}  BY <1>1 DEF TypeOK
  <2> QED  BY <2>2, <2>3, <2>4 DEF Effective
<1> QED  BY <1>2, <1>3 DEF Settled

\* A review ends with an answer only by approving.
LEMMA Answered ==
  ASSUME TypeOK, [Next]_vars, NEW r \in Requests, r \in Reviews, outcome'[r].state = "completed"
  PROVE  outcome[r].state = "completed" \/ Approve(r)
<1>1. Failed.state # "completed"  BY DEF Failed
<1>2. ASSUME NEW q \in Requests, Dispatch(q) \/ Refuse(q) \/ Fail(q)
      PROVE  outcome[r].state = "completed"
  BY <1>1, <1>2, EndMoves DEF Dispatch, Refuse, Fail
<1>3. ASSUME NEW q \in Requests, Complete(q) \/ VerifierPasses(q) \/ (Approve(q) /\ q # r)
      PROVE  outcome[r].state = "completed"
  <2>1. q # r  BY <1>3 DEF Complete, VerifierPasses, Fallback, Reviews
  <2>2. \E o : End(q, o)  BY <1>3 DEF Complete, VerifierPasses, Approve
  <2> QED  BY <2>1, <2>2, EndMoves
<1>4. ASSUME NEW q \in Writers, NEW p \in Patches, Deliver(q, p)
      PROVE  outcome[r].state = "completed"
  BY <1>1, <1>4, EndMoves DEF Deliver, Writers
<1>5. CASE UNCHANGED outcome  BY <1>5
<1> QED
  BY <1>2, <1>3, <1>4, <1>5 DEF Next, Start, ApproveCut, DeliverCut, RecordHost, RecordHostCut, AttestLate,
     Abandon, CheckAbsent, Die, vars, records

LEMMA ReviewingPreserved ==
  ASSUME IInv, Reviewing, [Next]_vars
  PROVE  Reviewing'
<1> SUFFICES ASSUME NEW r \in Requests, Bundled(r)
             PROVE  /\ status'[r] \in {"waiting", "running"} =>
                          /\ Task[r].of \in Writers /\ Effective(Task[r].of)' \in {"completed", "failed"}
                          /\ host'[Task[r].of].tier = "T1" /\ host'[Task[r].of].contract.run = Task[r].run
                    /\ outcome'[r].state = "completed" =>
                          /\ Task[r].of \in Writers
                          /\ <<r, Task[r].of>> \in approvals' \/ attestation'[Task[r].of] = "failed"
  BY DEF Reviewing, Bundled
<1> DEFINE i == Task[r].of
<1>1. TypeOK /\ Standing /\ Moved(r) /\ r \in Reviews  BY RequestMoves DEF IInv, Reviews, Bundled
<1>2. Reviewed(r) = i  BY PipelineAssumption DEF Bundled, Reviewed, InputIn
<1>3. i \in Writers => approvals \subseteq approvals'  BY <1>1, Accepts
<1>4. status[r] \in {"waiting", "running"} =>
        /\ i \in Writers /\ Effective(i) \in {"completed", "failed"}
        /\ host[i].tier = "T1" /\ host[i].contract.run = Task[r].run
  BY DEF Reviewing
<1>5. ASSUME status'[r] \in {"waiting", "running"}
      PROVE  /\ i \in Writers /\ Effective(i)' \in {"completed", "failed"}
             /\ host'[i].tier = "T1" /\ host'[i].contract.run = Task[r].run
  <2>1. /\ i \in Writers /\ Effective(i) \in {"completed", "failed"}
        /\ host[i].tier = "T1" /\ host[i].contract.run = Task[r].run
    <3>1. CASE Admissible(r)
      BY <3>1 DEF Admissible, Bundled, ReviewReference, Proven, SameAnchor
    <3> QED  BY <1>1, <1>4, <1>5, <3>1 DEF Moved
  <2> QED  BY <2>1, VerdictStays
<1>6. ASSUME outcome'[r].state = "completed"
      PROVE  i \in Writers /\ (<<r, i>> \in approvals' \/ attestation'[i] = "failed")
  <2>1. CASE outcome[r].state = "completed"
    <3>1. i \in Writers /\ (<<r, i>> \in approvals \/ attestation[i] = "failed")
      BY <2>1 DEF Reviewing
    <3> QED  BY <1>3, <3>1, VerdictStays
  <2>2. CASE Approve(r)
    <3>1. i \in Writers /\ Effective(i) \in {"completed", "failed"}
      BY <1>4, <2>2 DEF Approve
    <3>2. CASE AcceptedBy(r)  BY <1>2, <2>2, <3>1, <3>2 DEF Approve
    <3>3. CASE ~AcceptedBy(r)
      <4>1. Effective(i) # "completed"
        BY <1>2, <1>4, <2>2, <3>3 DEF Approve, AcceptedBy, Proven, Bundled
      <4>2. attestation[i] = "failed"  BY <3>1, <4>1 DEF Effective
      <4> QED  BY <3>1, <4>2, VerdictStays
    <3> QED  BY <3>2, <3>3
  <2> QED  BY <1>1, <1>6, <2>1, <2>2, Answered
<1> QED  BY <1>5, <1>6

LEMMA InspectingPreserved ==
  ASSUME IInv, ClientOK, Reviewing, Inspecting, [HostNext]_hostVars
  PROVE  Inspecting'
<1> DEFINE r == client.review
           i == client.of
<1>1. TypeOK /\ Standing /\ Own /\ [Next]_vars  BY HostStep DEF IInv
<1>2. ASSUME client.at \in {"prepared", "reviewed", "ready"}
      PROVE  r \in Requests /\ i \in Writers /\ approvals \subseteq approvals' /\ Settled(i)
  BY <1>1, <1>2, Accepts, StepSettles DEF ClientOK
<1>3. CASE client' = client
  BY <1>2, <1>3 DEF Inspecting, Settled, Bundled
<1>4. CASE client'.at \notin {"prepared", "reviewed", "ready"}  BY <1>4 DEF Inspecting
<1>5. ASSUME NEW q \in Requests, Prepare(q), client'.at = "prepared", client'.of = i, client'.review = q
      PROVE  Inspecting'
  BY <1>5 DEF Inspecting, Prepare, ReviewFits, Bundled
<1>6. CASE InspectReview /\ client.at = "prepared" /\ client'.at = "reviewed" /\ client'.of = i /\ client'.review = r
  <2>1. Bundled(r) /\ Task[r].of = i  BY <1>6 DEF Inspecting
  <2>2. State(r) = "completed" /\ UNCHANGED <<approvals, attestation>>
    BY <1>6 DEF InspectReview, Turn, vars, records
  <2>3. r \notin Writers  BY <2>1 DEF Bundled, Writers
  <2>4. outcome[r].state = "completed"
    BY <1>1, <1>2, <1>6, <2>2, <2>3 DEF State, Pending, Own
  <2>5. <<r, i>> \in approvals \/ attestation[i] = "failed"
    BY <1>2, <1>6, <2>1, <2>4 DEF Reviewing
  <2> QED  BY <1>6, <2>1, <2>2, <2>5 DEF Inspecting, Bundled
<1>7. CASE InspectHandoff /\ client.at = "reviewed" /\ client'.at = "ready" /\ client'.of = i /\ client'.review = r
  <2>1. View(i).state = "accepted" /\ View(i).proof = "host" /\ UNCHANGED <<approvals, attestation, receipt>>
    BY <1>7 DEF InspectHandoff, Turn, vars, records
  <2>2. Pending(i) /\ Advice(i) = "accepted" /\ Proof(i) = "host"  BY <2>1 DEF View
  <2>3. attestation[i] # "none"  BY <2>2 DEF Proof
  <2>4. Acceptance(i) = "accepted"  BY <2>2 DEF Advice
  <2>5. Effective(i) = "completed" /\ receipt[i]  BY <2>4 DEF Acceptance
  <2>6. attestation[i] = "completed"  BY <2>3, <2>5 DEF Effective
  <2> QED  BY <1>7, <2>1, <2>5, <2>6 DEF Inspecting, Bundled
<1> QED  BY <1>1, <1>3, <1>4, <1>5, <1>6, <1>7, Calls DEF Idle

----------------------------------------------------------------------------
(* The whole.                                                              *)

LEMMA HostInitInvariant == HostInit => HInv
<1> SUFFICES ASSUME HostInit PROVE HInv
  OBVIOUS
<1>1. IInv  BY InitInvariant DEF HostInit
<1>2. ClientOK  BY DEF HostInit, ClientOK, Clients, Idle, Verdicts
<1>3. Monitored /\ Sleeping  BY DEF HostInit, Monitored, Sleeping
<1>4. Reviewing  BY DEF HostInit, Init, Reviewing
<1>5. Inspecting  BY DEF HostInit, Inspecting, Idle
<1> QED  BY <1>1, <1>2, <1>3, <1>4, <1>5 DEF HInv

LEMMA HostStepInvariant == HInv /\ [HostNext]_hostVars => HInv'
<1> SUFFICES ASSUME HInv, [HostNext]_hostVars PROVE HInv'
  OBVIOUS
<1>1. [Next]_vars /\ TypeOK  BY HostStep DEF HInv, IInv
<1>2. IInv'  BY <1>1, StepInvariant DEF HInv
<1>3. ClientOK' /\ Monitored'  BY <1>1, ClientOKPreserved, MonitoredPreserved DEF HInv
<1>4. Sleeping'  BY SleepingPreserved DEF HInv
<1>5. Reviewing' /\ Inspecting'  BY <1>1, ReviewingPreserved, InspectingPreserved DEF HInv
<1> QED  BY <1>2, <1>3, <1>4, <1>5 DEF HInv

\* The inductive invariant of the pipeline with its host.
THEOREM HostInvariant == HostSpec => []HInv
<1>1. HostInit => HInv  BY HostInitInvariant
<1>2. HInv /\ [HostNext]_hostVars => HInv'  BY HostStepInvariant
<1> QED  BY <1>1, <1>2, PTL DEF HostSpec

\* Whatever the host and its monitor do, the ledgers go through a run of the
\* pipeline: no call of theirs writes what the gateway's own handlers do not.
THEOREM HostRunsThePipeline == HostSpec => Spec
<1>1. HostInit => Init  BY DEF HostInit
<1>2. HInv /\ [HostNext]_hostVars => [Next]_vars  BY HostStep DEF HInv
<1> QED  BY <1>1, <1>2, HostInvariant, PTL DEF HostSpec, Spec

\* So what is proved of the pipeline holds beside any host.
THEOREM HostKeepsThePipeline == HostSpec => []TiersHold /\ []LedgersAgree /\ SettledStays
  BY HostRunsThePipeline, TiersAreHeld, LedgersSayTheSame, WhatIsSettledStays, PTL

\* The host neither sleeps through a change of what it waits for nor calls
\* ready what is not approved, proven and accepted in both ledgers.
THEOREM HostIsToldTheTruth == HostSpec => []HostSeesTrue
<1>1. HInv => SleepersFollow  BY DEF HInv, Sleeping, SleepersFollow
<1>2. HInv => InspectionTrue
  <2> SUFFICES ASSUME HInv, client.at = "ready"
               PROVE  /\ <<client.review, client.of>> \in approvals
                      /\ attestation[client.of] = "completed"
                      /\ receipt[client.of] /\ milestone[client.of] = "accepted"
    BY DEF InspectionTrue
  <2>1. client.of \in Requests  BY DEF HInv, ClientOK, Writers
  <2>2. attestation[client.of] = "completed" /\ receipt[client.of]  BY DEF HInv, Inspecting
  <2>3. <<client.review, client.of>> \in approvals  BY <2>2 DEF HInv, Inspecting
  <2>4. milestone[client.of] = "accepted"  BY <2>1, <2>2 DEF HInv, IInv, Ledgers
  <2> QED  BY <2>2, <2>3, <2>4
<1>3. HInv => HostSeesTrue  BY <1>1, <1>2 DEF HostSeesTrue
<1> QED  BY <1>3, HostInvariant, PTL
==============================================================================
