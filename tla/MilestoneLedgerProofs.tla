----------------------- MODULE MilestoneLedgerProofs -----------------------
(***************************************************************************)
(* Proofs about MilestoneLedger: for any number of attempts, diagnoses and *)
(* restarts, what the milestone file, the request ledger and the workspace *)
(* say of an attempt agrees as the properties of that module state.        *)
(*                                                                         *)
(* None of those properties is inductive. Fit(a) adds what the handlers    *)
(* know of an attempt between two of their writes and that an attempt      *)
(* without a patch has left no trace elsewhere; Newest(a) orders a passing *)
(* attempt after every model that worked. An action works on one attempt,  *)
(* so the lemma LocalKeeps leaves only that attempt to each of them.       *)
(*                                                                         *)
(* DInv adds the history of failures and diagnoses. Only two actions write *)
(* to it; of every other the lemma HistoryContinues says what it leaves as *)
(* it is, and ContinuesKeeps that this is enough.                          *)
(***************************************************************************)
EXTENDS MilestoneLedger, FiniteSetTheorems, SequenceTheorems, WellFoundedInduction, TLAPS

\* The state the first proofs speak of. reset and diagnoses are not part of it:
\* nothing they show depends on their values.
Types ==
  /\ att \in [Attempts -> Attempt \cup {None}]
  /\ instance \in 1..MaxInstance /\ run \subseteq Attempts
  /\ final \in [Attempts -> BOOLEAN \cup {None}]
  /\ host \in [Attempts -> {"none", "pending", "completed", "failed"}]
  /\ receipt \in [Attempts -> {"missing", "started", "accepted"}]
  /\ step \in [Attempts -> {"none", "check", "patch", "complete", "event", "close"}]
  /\ tree \in [Attempts -> Nat]
  /\ busy \in {Idle} \cup [at : {"artifact", "verify", "recheck", "emit"}, a : Attempts]

\* An attempt that was not made has nothing.
Unmade ==
  \A a \in Attempts \ Made :
    /\ host[a] = "none" /\ receipt[a] = "missing" /\ step[a] = "none" /\ tree[a] = 0
    /\ final[a] = None /\ a \notin run

\* Of an attempt without a patch in the workspace there is no trace there, and
\* no step of a handler works on it. Its artifact is registered only after that.
Untouched(a) ==
  /\ att[a].status \in {"reserved", "started", "in_doubt", "awaiting-artifact", "superseded"}
       => step[a] = "none" /\ tree[a] = 0
  /\ att[a].status \in {"reserved", "started", "in_doubt"} => ~att[a].artifact

\* A running dispatch is this gateway's, and there is no record of its end.
RunOpen(a) ==
  a \in run => /\ att[a].status \in {"reserved", "started"} /\ att[a].by = instance
               /\ host[a] = "none" /\ final[a] = None

\* A receipt is claimed for an artifact that passed, and kept.
Claimed(a) ==
  /\ receipt[a] # "missing" => att[a].status \in {"verified-not-accepted", "accepted"}
  /\ att[a].status = "accepted" => receipt[a] = "accepted"
  /\ att[a].status \in {"verified-not-accepted", "accepted"} => host[a] = "completed"

\* What apply_artifact and emitFinalAcceptance know at each of their steps.
StepKnows(a) ==
  /\ step[a] \in {"check", "patch", "complete"} =>
       /\ att[a].status = "applying" /\ att[a].applyBy = instance
       /\ tree[a] = IF step[a] = "complete" THEN 1 ELSE 0
  /\ step[a] \in {"event", "close"} =>
       /\ att[a].status = "verified-not-accepted"
       /\ receipt[a] = IF step[a] = "event" THEN "started" ELSE "accepted"

\* The patch is put into the workspace at most once.
Patched(a) == tree[a] <= 1 /\ (att[a].status = "applied" => tree[a] = 1)

Fit(a) ==
  /\ att[a].supersedes \subseteq Made
  /\ Untouched(a) /\ RunOpen(a) /\ Claimed(a) /\ StepKnows(a) /\ Patched(a)

\* A passing attempt comes after every model that worked or may still work.
Unworked(a) == ~att[a].started /\ att[a].status \notin {"reserved", "started", "in_doubt"}
Passing(a) == att[a].status = "verified-not-accepted"
Newest(a) ==
  /\ \A b \in Made : b > a /\ Passing(a) => Unworked(b)
  /\ \A b \in Made : a > b /\ Passing(b) => Unworked(a)

\* What a handler knows while it is between two writes.
HandlerKnows ==
  busy # Idle =>
    LET a == busy.a IN
      /\ a \in Made
      /\ busy.at = "artifact" =>
           /\ att[a].status \in {"reserved", "started"} /\ att[a].by = instance
           /\ a \notin run /\ host[a] = "pending"
      /\ busy.at \in {"verify", "recheck"} =>
           Verifiable(a) /\ host[a] \in {"completed", "failed"}
      /\ busy.at = "emit" => Passing(a)

\* The inductive invariant.
IInv ==
  /\ Types /\ Unmade /\ HandlerKnows
  /\ \A a \in Made : Fit(a) /\ Newest(a)

-----------------------------------------------------------------------------
(* An action works on one attempt *)

\* Every attempt but a is as it was, or an artifact that nobody applied and
\* that is now superseded.
OthersKept(a) ==
  \A b \in Made \ {a} :
    \/ att'[b] = att[b]
    \/ /\ att[b].status = "awaiting-artifact" /\ att'[b].status = "superseded"
       /\ att'[b].started = att[b].started /\ att'[b].artifact = att[b].artifact
       /\ att'[b].strike = att[b].strike
       /\ att'[b].by = att[b].by /\ att'[b].applyBy = att[b].applyBy
       /\ att'[b].supersedes = att[b].supersedes

\* The milestone file goes on to describe the same attempts, and a.
Keeps(a) ==
  /\ att' \in [Attempts -> Attempt \cup {None}]
  /\ Made' = Made \cup {a} /\ OthersKept(a)

\* Nothing else speaks of another attempt than a.
Local(a) ==
  /\ Keeps(a) /\ UNCHANGED instance
  /\ \A b \in Attempts \ {a} :
       /\ host'[b] = host[b] /\ receipt'[b] = receipt[b] /\ step'[b] = step[b]
       /\ final'[b] = final[b] /\ tree'[b] = tree[b] /\ (b \in run' <=> b \in run)

\* An attempt that was made has a record in the file.
LEMMA MadeRecord ==
  ASSUME Types
  PROVE  \A a \in Made : a \in Attempts /\ att[a] \in Attempt /\ att[a] # None
BY DEF Types, Made

\* What holds of the attempts an action does not work on still holds.
LEMMA LocalKeeps ==
  ASSUME IInv, NEW a \in Attempts, Local(a), Types', Fit(a)', Newest(a)', HandlerKnows'
  PROVE  IInv'
<1> USE DEF IInv, Local, Keeps
<1>1. Unmade'
  BY DEF Unmade, Types, Made
<1>2. ASSUME NEW b \in Made', b # a  PROVE Fit(b)'
  <2>1. b \in Made /\ b \in Attempts /\ Fit(b)
    BY <1>2, MadeRecord
  <2>2. /\ host'[b] = host[b] /\ receipt'[b] = receipt[b] /\ step'[b] = step[b]
        /\ final'[b] = final[b] /\ tree'[b] = tree[b] /\ (b \in run' <=> b \in run)
        /\ instance' = instance
    BY <1>2, <2>1
  <2>3. /\ att'[b].by = att[b].by /\ att'[b].applyBy = att[b].applyBy
        /\ att'[b].supersedes = att[b].supersedes /\ att'[b].artifact = att[b].artifact
        /\ \/ att'[b].status = att[b].status
           \/ att[b].status = "awaiting-artifact" /\ att'[b].status = "superseded"
    BY <1>2, <2>1 DEF OthersKept
  <2> QED
    BY <2>1, <2>2, <2>3 DEF Fit, Untouched, RunOpen, Claimed, StepKnows, Patched
<1>3. ASSUME NEW b \in Made', b # a  PROVE Newest(b)'
  <2>1. ASSUME NEW c \in Made, c # a
        PROVE  (Passing(c)' => Passing(c)) /\ (Unworked(c) => Unworked(c)')
    BY <2>1 DEF OthersKept, Passing, Unworked
  <2>2. b \in Made /\ Newest(b)
    BY <1>3
  <2> QED
    BY <1>3, <2>1, <2>2 DEF Newest
<1> QED BY <1>1, <1>2, <1>3

\* Rewriting the record of one attempt leaves the others alone.
LEMMA SetKeeps ==
  ASSUME Types, NEW a \in Attempts, NEW m \in Attempt, Set(a, m)
  PROVE  Keeps(a) /\ att'[a] = m
BY NoneAssumption DEF Types, Set, Keeps, OthersKept, Made

\* markStarted() makes an attempt started, and supersedes artifacts only.
LEMMA StartedKeeps ==
  ASSUME Types, NEW a \in Made, att[a].supersedes \subseteq Made
  PROVE  LET new == Started(a) IN
         /\ new \in [Attempts -> Attempt \cup {None}]
         /\ new[a] = [att[a] EXCEPT !.status = "started", !.started = TRUE, !.supersedes = {}]
         /\ \A b \in Attempts : new[b] = None <=> att[b] = None
         /\ \A b \in Made \ {a} :
              \/ new[b] = att[b]
              \/ /\ att[b].status = "awaiting-artifact"
                 /\ new[b] = [att[b] EXCEPT !.status = "superseded"]
<1> DEFINE m == [att[a] EXCEPT !.status = "started", !.started = TRUE, !.supersedes = {}]
<1>1. a \in Attempts /\ att[a] \in Attempt /\ att[a] # None
  BY MadeRecord
<1>2. m \in Attempt
  BY <1>1 DEF Attempt, Statuses
<1>3. \A b \in Made : [att[b] EXCEPT !.status = "superseded"] \in Attempt
  BY MadeRecord DEF Attempt, Statuses
<1>4. \A b \in Attempts : att[b] \in Attempt \cup {None}
  BY DEF Types
<1> HIDE DEF m
<1>5. Started(a) =
        [b \in Attempts |->
           IF b = a THEN m
           ELSE IF att[a].status = "reserved" /\ b \in att[a].supersedes
                     /\ att[b].status = "awaiting-artifact"
             THEN [att[b] EXCEPT !.status = "superseded"] ELSE att[b]]
  BY DEF Started, m
<1>6. Started(a) \in [Attempts -> Attempt \cup {None}]
  BY <1>2, <1>3, <1>4, <1>5
<1>7. Started(a)[a] = m
  BY <1>1, <1>5
<1>8. \A b \in Attempts : Started(a)[b] = None <=> att[b] = None
  BY <1>1, <1>2, <1>3, <1>5, NoneAssumption DEF Made
<1>9. \A b \in Made \ {a} :
        \/ Started(a)[b] = att[b]
        \/ /\ att[b].status = "awaiting-artifact"
           /\ Started(a)[b] = [att[b] EXCEPT !.status = "superseded"]
  BY <1>5 DEF Made
<1> QED BY <1>6, <1>7, <1>8, <1>9 DEF m

\* The same when the record of the attempt is rewritten at once.
LEMMA StartedThenKeeps ==
  ASSUME Types, NEW a \in Made, att[a].supersedes \subseteq Made, NEW m \in Attempt,
         att' = [Started(a) EXCEPT ![a] = m]
  PROVE  Keeps(a) /\ att'[a] = m
<1>1. a \in Attempts /\ \A b \in Made : att[b] \in Attempt
  BY MadeRecord
<1> DEFINE new == Started(a)
<1>2. /\ new \in [Attempts -> Attempt \cup {None}]
      /\ \A b \in Attempts : new[b] = None <=> att[b] = None
      /\ \A b \in Made \ {a} :
           \/ new[b] = att[b]
           \/ /\ att[b].status = "awaiting-artifact"
              /\ new[b] = [att[b] EXCEPT !.status = "superseded"]
  BY StartedKeeps
<1>3. att' = [new EXCEPT ![a] = m]
  OBVIOUS
<1> HIDE DEF new
<1>4. att' \in [Attempts -> Attempt \cup {None}] /\ att'[a] = m
  BY <1>1, <1>2, <1>3
<1>5. \A b \in Attempts \ {a} : att'[b] = new[b]
  BY <1>2, <1>3
<1>6. Made' = Made \cup {a}
  BY <1>1, <1>2, <1>4, <1>5, NoneAssumption DEF Made
<1>7. \A b \in Made \ {a} :
        att[b].status = "awaiting-artifact" /\ new[b] = [att[b] EXCEPT !.status = "superseded"]
          => /\ att'[b].status = "superseded"
             /\ att'[b].started = att[b].started /\ att'[b].artifact = att[b].artifact
             /\ att'[b].strike = att[b].strike
             /\ att'[b].by = att[b].by /\ att'[b].applyBy = att[b].applyBy
             /\ att'[b].supersedes = att[b].supersedes
  BY <1>1, <1>5 DEF Attempt, Made
<1>8. OthersKept(a)
  BY <1>2, <1>5, <1>7 DEF OthersKept, Made
<1> QED BY <1>4, <1>6, <1>8 DEF Keeps

\* Whoever is alive is one of the gateways that can be named in a record.
LEMMA InstanceTyped ==
  ASSUME Types
  PROVE  instance \in 0..MaxInstance
BY MilestoneAssumption DEF Types

-----------------------------------------------------------------------------
(* No action disturbs the invariant *)

\* The intent to apply an artifact.
LEMMA BeginApplyKeeps ==
  ASSUME IInv, NEW a \in Attempts, BeginApply(a)
  PROVE  IInv' /\ Keeps(a)
<1> DEFINE m == [att[a] EXCEPT !.status = "applying", !.applyBy = instance]
<1>1. /\ a \in Made /\ att[a] \in Attempt /\ Fit(a) /\ Newest(a)
      /\ att[a].status = "awaiting-artifact" /\ instance \in 0..MaxInstance
  BY MadeRecord, InstanceTyped, MilestoneAssumption DEF IInv, BeginApply, In
<1>2. /\ m \in Attempt
      /\ m.status = "applying" /\ m.applyBy = instance /\ m.started = att[a].started
      /\ m.supersedes = att[a].supersedes
  BY <1>1 DEF Attempt, Statuses
<1>3. Set(a, m)
  BY DEF BeginApply
<1> HIDE DEF m
<1>4. Local(a) /\ att'[a] = m
  BY <1>1, <1>2, <1>3, SetKeeps DEF IInv, Types, Local, BeginApply, ledger
<1>5. Types'
  BY <1>1, <1>4 DEF Types, IInv, Local, Keeps, BeginApply, ledger, At, Idle
<1>6. Fit(a)'
  BY <1>1, <1>2, <1>4
  DEF BeginApply, ledger, At, Idle, Local, Keeps, IInv, Types, Fit, Untouched, RunOpen,
      Claimed, StepKnows, Patched
<1>7. Newest(a)'
  BY <1>1, <1>2, <1>4 DEF Local, Keeps, OthersKept, Newest, Passing, Unworked
<1>8. HandlerKnows'
  BY DEF BeginApply, HandlerKnows, At, Idle
<1> QED BY <1>4, <1>5, <1>6, <1>7, <1>8, LocalKeeps DEF Local

\* The milestone learns that the patch is in the workspace.
LEMMA CompleteApplyKeeps ==
  ASSUME IInv, NEW a \in Attempts, CompleteApply(a)
  PROVE  IInv' /\ Keeps(a)
<1> DEFINE m == [att[a] EXCEPT !.status = "applied"]
<1>1. /\ a \in Made /\ att[a] \in Attempt /\ Fit(a) /\ Newest(a)
      /\ step[a] = "complete"
  BY MadeRecord, InstanceTyped, MilestoneAssumption DEF IInv, CompleteApply, Unmade
<1>2. /\ m \in Attempt
      /\ m.status = "applied" /\ m.started = att[a].started
      /\ m.applyBy = att[a].applyBy /\ m.supersedes = att[a].supersedes
  BY <1>1 DEF Attempt, Statuses
<1>3. Set(a, m)
  BY DEF CompleteApply
<1> HIDE DEF m
<1>4. Local(a) /\ att'[a] = m
  BY <1>1, <1>2, <1>3, SetKeeps DEF IInv, Types, Local, CompleteApply, ledger
<1>5. Types'
  BY <1>1, <1>4 DEF Types, IInv, Local, Keeps, CompleteApply, ledger, At, Idle
<1>6. Fit(a)'
  BY <1>1, <1>2, <1>4
  DEF CompleteApply, ledger, At, Idle, Local, Keeps, IInv, Types, Fit, Untouched, RunOpen,
      Claimed, StepKnows, Patched
<1>7. Newest(a)'
  BY <1>1, <1>2, <1>4 DEF Local, Keeps, OthersKept, Newest, Passing, Unworked
<1>8. HandlerKnows'
  BY DEF CompleteApply, HandlerKnows, At, Idle
<1> QED BY <1>4, <1>5, <1>6, <1>7, <1>8, LocalKeeps DEF Local

\* The milestone learns of the acceptance.
LEMMA CloseKeeps ==
  ASSUME IInv, NEW a \in Attempts, Close(a)
  PROVE  IInv' /\ Keeps(a)
<1> DEFINE m == [att[a] EXCEPT !.status = "accepted"]
<1>1. /\ a \in Made /\ att[a] \in Attempt /\ Fit(a) /\ Newest(a)
      /\ step[a] = "close"
  BY MadeRecord, InstanceTyped, MilestoneAssumption DEF IInv, Close, Unmade
<1>2. /\ m \in Attempt
      /\ m.status = "accepted" /\ m.started = att[a].started
      /\ m.applyBy = att[a].applyBy /\ m.supersedes = att[a].supersedes
  BY <1>1 DEF Attempt, Statuses
<1>3. Set(a, m)
  BY DEF Close
<1> HIDE DEF m
<1>4. Local(a) /\ att'[a] = m
  BY <1>1, <1>2, <1>3, SetKeeps DEF IInv, Types, Local, Close, ledger
<1>5. Types'
  BY <1>1, <1>4 DEF Types, IInv, Local, Keeps, Close, ledger, At, Idle
<1>6. Fit(a)'
  BY <1>1, <1>2, <1>4
  DEF Close, ledger, At, Idle, Local, Keeps, IInv, Types, Fit, Untouched, RunOpen, Claimed,
      StepKnows, Patched
<1>7. Newest(a)'
  BY <1>1, <1>2, <1>4 DEF Local, Keeps, OthersKept, Newest, Passing, Unworked
<1>8. HandlerKnows'
  BY DEF Close, HandlerKnows, At, Idle
<1> QED BY <1>4, <1>5, <1>6, <1>7, <1>8, LocalKeeps DEF Local

\* The patch goes into the workspace, or git apply fails.
LEMMA PatchKeeps ==
  ASSUME IInv, NEW a \in Attempts, Patch(a)
  PROVE  IInv' /\ Keeps(a)
<1>1. /\ a \in Made /\ att[a] \in Attempt /\ Fit(a) /\ Newest(a)
      /\ step[a] = "patch"
  BY MadeRecord DEF IInv, Patch, Unmade
<1>2. UNCHANGED att
  BY DEF Patch
<1>3. Local(a)
  BY <1>1, <1>2 DEF IInv, Types, Local, Keeps, OthersKept, Made, Patch, ledger
<1>4. Types'
  BY <1>1, <1>3 DEF Types, IInv, Local, Keeps, Patch, ledger, At, Idle
<1>5. Fit(a)'
  BY <1>1, <1>2, <1>3
  DEF Patch, ledger, At, Idle, Local, Keeps, IInv, Types, Fit, Untouched, RunOpen, Claimed,
      StepKnows, Patched
<1>6. Newest(a)'
  BY <1>1, <1>2, <1>3 DEF Local, Keeps, OthersKept, Newest, Passing, Unworked
<1>7. HandlerKnows'
  BY DEF Patch, HandlerKnows, At, Idle
<1> QED BY <1>3, <1>4, <1>5, <1>6, <1>7, LocalKeeps DEF Local

\* The receipt is completed.
LEMMA AcceptanceEventKeeps ==
  ASSUME IInv, NEW a \in Attempts, AcceptanceEvent(a)
  PROVE  IInv' /\ Keeps(a)
<1>1. /\ a \in Made /\ att[a] \in Attempt /\ Fit(a) /\ Newest(a)
      /\ step[a] = "event"
  BY MadeRecord DEF IInv, AcceptanceEvent, Unmade
<1>2. UNCHANGED att
  BY DEF AcceptanceEvent
<1>3. Local(a)
  BY <1>1, <1>2 DEF IInv, Types, Local, Keeps, OthersKept, Made, AcceptanceEvent, ledger
<1>4. Types'
  BY <1>1, <1>3 DEF Types, IInv, Local, Keeps, AcceptanceEvent, ledger, At, Idle
<1>5. Fit(a)'
  BY <1>1, <1>2, <1>3
  DEF AcceptanceEvent, ledger, At, Idle, Local, Keeps, IInv, Types, Fit, Untouched, RunOpen,
      Claimed, StepKnows, Patched
<1>6. Newest(a)'
  BY <1>1, <1>2, <1>3 DEF Local, Keeps, OthersKept, Newest, Passing, Unworked
<1>7. HandlerKnows'
  BY DEF AcceptanceEvent, HandlerKnows, At, Idle
<1> QED BY <1>3, <1>4, <1>5, <1>6, <1>7, LocalKeeps DEF Local

\* An artifact is given up.
LEMMA AbandonKeeps ==
  ASSUME IInv, NEW a \in Attempts, Abandon(a)
  PROVE  IInv' /\ Keeps(a)
<1> DEFINE m == [att[a] EXCEPT !.status = "abandoned"]
<1>1. /\ a \in Made /\ att[a] \in Attempt /\ Fit(a) /\ Newest(a)
      /\ att[a].artifact /\ att[a].status # "applying"
      /\ host[a] = "completed" => receipt[a] = "missing"
  BY MadeRecord, InstanceTyped, MilestoneAssumption DEF IInv, Abandon
<1>2. /\ m \in Attempt
      /\ m.status = "abandoned" /\ m.started = att[a].started
      /\ m.applyBy = att[a].applyBy /\ m.supersedes = att[a].supersedes
  BY <1>1 DEF Attempt, Statuses
<1>3. Set(a, m)
  BY DEF Abandon
<1> HIDE DEF m
<1>4. Local(a) /\ att'[a] = m
  BY <1>1, <1>2, <1>3, SetKeeps DEF IInv, Types, Local, Abandon, ledger
<1>5. Types'
  BY <1>1, <1>4 DEF Types, IInv, Local, Keeps, Abandon, ledger, At, Idle
<1>6. Fit(a)'
  BY <1>1, <1>2, <1>4
  DEF Abandon, ledger, At, Idle, Local, Keeps, IInv, Types, Fit, Untouched, RunOpen, Claimed,
      StepKnows, Patched
<1>7. Newest(a)'
  BY <1>1, <1>2, <1>4 DEF Local, Keeps, OthersKept, Newest, Passing, Unworked
<1>8. HandlerKnows'
  BY DEF Abandon, HandlerKnows, At, Idle
<1> QED BY <1>4, <1>5, <1>6, <1>7, <1>8, LocalKeeps DEF Local

\* The milestone learns that the checks failed.
LEMMA VerifyFailedKeeps ==
  ASSUME IInv, NEW a \in Attempts, VerifyFailed(a)
  PROVE  IInv' /\ Keeps(a)
<1> DEFINE m == [att[a] EXCEPT !.status = "failed", !.strike = TRUE]
<1>1. /\ a \in Made /\ att[a] \in Attempt /\ Fit(a) /\ Newest(a)
      /\ att[a].artifact /\ att[a].status \notin {"applying", "accepted"} /\ host[a] = "failed"
  BY MadeRecord, InstanceTyped, MilestoneAssumption
  DEF IInv, VerifyFailed, Verifiable, HandlerKnows, At, Idle
<1>2. /\ m \in Attempt
      /\ m.status = "failed" /\ m.started = att[a].started
      /\ m.applyBy = att[a].applyBy /\ m.supersedes = att[a].supersedes
  BY <1>1 DEF Attempt, Statuses
<1>3. Set(a, m)
  BY DEF VerifyFailed
<1> HIDE DEF m
<1>4. Local(a) /\ att'[a] = m
  BY <1>1, <1>2, <1>3, SetKeeps DEF IInv, Types, Local, VerifyFailed, ledger
<1>5. Types'
  BY <1>1, <1>4 DEF Types, IInv, Local, Keeps, VerifyFailed, ledger, At, Idle
<1>6. Fit(a)'
  BY <1>1, <1>2, <1>4
  DEF VerifyFailed, ledger, At, Idle, Local, Keeps, IInv, Types, Fit, Untouched, RunOpen,
      Claimed, StepKnows, Patched
<1>7. Newest(a)'
  BY <1>1, <1>2, <1>4 DEF Local, Keeps, OthersKept, Newest, Passing, Unworked
<1>8. HandlerKnows'
  BY DEF VerifyFailed, HandlerKnows, At, Idle
<1> QED BY <1>4, <1>5, <1>6, <1>7, <1>8, LocalKeeps DEF Local

\* The record of a dispatch settles an attempt.
LEMMA ReconcileKeeps ==
  ASSUME IInv, NEW a \in Attempts, Reconcile(a)
  PROVE  IInv' /\ Keeps(a)
<1> DEFINE m == [att[a] EXCEPT !.status = "failed", !.started = @ \/ final[a], !.strike = @ \/ final[a]]
<1>1. /\ a \in Made /\ att[a] \in Attempt /\ Fit(a) /\ Newest(a)
      /\ att[a].status \in {"reserved", "started", "in_doubt"}
      /\ final[a] \in BOOLEAN /\ a \notin run
  BY MadeRecord, InstanceTyped, MilestoneAssumption DEF IInv, Reconcile, In, Fit, RunOpen
<1>2. /\ m \in Attempt
      /\ m.status = "failed"
      /\ m.applyBy = att[a].applyBy /\ m.supersedes = att[a].supersedes
  BY <1>1 DEF Attempt, Statuses
<1>3. Set(a, m)
  BY DEF Reconcile
<1> HIDE DEF m
<1>4. Local(a) /\ att'[a] = m
  BY <1>1, <1>2, <1>3, SetKeeps DEF IInv, Types, Local, Reconcile, ledger
<1>5. Types'
  BY <1>1, <1>4 DEF Types, IInv, Local, Keeps, Reconcile, ledger, At, Idle
<1>6. Fit(a)'
  BY <1>1, <1>2, <1>4
  DEF Reconcile, ledger, At, Idle, Local, Keeps, IInv, Types, Fit, Untouched, RunOpen,
      Claimed, StepKnows, Patched
<1>7. Newest(a)'
  BY <1>1, <1>2, <1>4 DEF Local, Keeps, OthersKept, Newest, Passing, Unworked
<1>8. HandlerKnows'
  BY DEF Reconcile, HandlerKnows, At, Idle
<1> QED BY <1>4, <1>5, <1>6, <1>7, <1>8, LocalKeeps DEF Local

\* The milestone refuses a stale pass.
LEMMA VerifyRefusedKeeps ==
  ASSUME IInv, NEW a \in Attempts, VerifyRefused(a)
  PROVE  IInv' /\ Keeps(a)
<1>1. /\ a \in Made /\ att[a] \in Attempt /\ Fit(a) /\ Newest(a)
  BY MadeRecord DEF IInv, VerifyRefused, HandlerKnows, At, Idle
<1>2. UNCHANGED att
  BY DEF VerifyRefused
<1>3. Local(a)
  BY <1>1, <1>2 DEF IInv, Types, Local, Keeps, OthersKept, Made, VerifyRefused, ledger
<1>4. Types'
  BY <1>1, <1>3 DEF Types, IInv, Local, Keeps, VerifyRefused, ledger, At, Idle
<1>5. Fit(a)'
  BY <1>1, <1>2, <1>3
  DEF VerifyRefused, ledger, At, Idle, Local, Keeps, IInv, Types, Fit, Untouched, RunOpen,
      Claimed, StepKnows, Patched
<1>6. Newest(a)'
  BY <1>1, <1>2, <1>3 DEF Local, Keeps, OthersKept, Newest, Passing, Unworked
<1>7. HandlerKnows'
  BY DEF VerifyRefused, HandlerKnows, At, Idle
<1> QED BY <1>3, <1>4, <1>5, <1>6, <1>7, LocalKeeps DEF Local

\* The host answers for an artifact.
LEMMA RecordVerdictKeeps ==
  ASSUME IInv, NEW a \in Attempts, RecordVerdict(a)
  PROVE  IInv' /\ Keeps(a)
<1>1. /\ a \in Made /\ att[a] \in Attempt /\ Fit(a) /\ Newest(a)
      /\ host[a] # "none" /\ Verifiable(a)
  BY MadeRecord DEF IInv, RecordVerdict
<1>2. UNCHANGED att
  BY DEF RecordVerdict
<1>3. Local(a)
  BY <1>1, <1>2 DEF IInv, Types, Local, Keeps, OthersKept, Made, RecordVerdict, ledger
<1>4. Types'
  BY <1>1, <1>3 DEF Types, IInv, Local, Keeps, RecordVerdict, ledger, At, Idle
<1>5. Fit(a)'
  BY <1>1, <1>2, <1>3
  DEF RecordVerdict, ledger, At, Idle, Local, Keeps, IInv, Types, Fit, Untouched, RunOpen,
      Claimed, StepKnows, Patched
<1>6. Newest(a)'
  BY <1>1, <1>2, <1>3 DEF Local, Keeps, OthersKept, Newest, Passing, Unworked
<1>7. HandlerKnows'
  <2> USE <1>1, <1>2, <1>3
  <2>1. Made' = Made /\ (Verifiable(a) => Verifiable(a)')
    BY DEF Made, Verifiable, Later, In
  <2> QED BY <2>1
  DEF RecordVerdict, ledger, HandlerKnows, At, Idle, IInv, Types, Fit, RunOpen, Passing
<1> QED BY <1>3, <1>4, <1>5, <1>6, <1>7, LocalKeeps DEF Local

\* A dispatch leaves an artifact.
LEMMA RunDeliversKeeps ==
  ASSUME IInv, NEW a \in Attempts, RunDelivers(a)
  PROVE  IInv' /\ Keeps(a)
<1>1. /\ a \in Made /\ att[a] \in Attempt /\ Fit(a) /\ Newest(a)
      /\ a \in run /\ att[a].status \in {"reserved", "started"}
  BY MadeRecord DEF IInv, RunDelivers, Unmade, Fit, RunOpen
<1>2. UNCHANGED att
  BY DEF RunDelivers
<1>3. Local(a)
  BY <1>1, <1>2 DEF IInv, Types, Local, Keeps, OthersKept, Made, RunDelivers, ledger
<1>4. Types'
  BY <1>1, <1>3 DEF Types, IInv, Local, Keeps, RunDelivers, ledger, At, Idle
<1>5. Fit(a)'
  BY <1>1, <1>2, <1>3
  DEF RunDelivers, ledger, At, Idle, Local, Keeps, IInv, Types, Fit, Untouched, RunOpen,
      Claimed, StepKnows, Patched
<1>6. Newest(a)'
  BY <1>1, <1>2, <1>3 DEF Local, Keeps, OthersKept, Newest, Passing, Unworked
<1>7. HandlerKnows'
  <2> USE <1>1, <1>2, <1>3
  <2>1. Made' = Made /\ (Verifiable(a) => Verifiable(a)')
    BY DEF Made, Verifiable, Later, In
  <2> QED BY <2>1
  DEF RunDelivers, ledger, HandlerKnows, At, Idle, IInv, Types, Fit, RunOpen, Passing
<1> QED BY <1>3, <1>4, <1>5, <1>6, <1>7, LocalKeeps DEF Local

\* The acceptance of a reviewed artifact begins, or is repeated.
LEMMA ReviewKeeps ==
  ASSUME IInv, NEW a \in Attempts, Review(a)
  PROVE  IInv' /\ Keeps(a)
<1>1. /\ a \in Made /\ att[a] \in Attempt /\ Fit(a) /\ Newest(a)
  BY MadeRecord DEF IInv, Review
<1>2. UNCHANGED att
  BY DEF Review, Emit
<1>3. Local(a)
  BY <1>1, <1>2 DEF IInv, Types, Local, Keeps, OthersKept, Made, Review, ledger, Emit
<1>4. Types'
  BY <1>1, <1>3 DEF Types, IInv, Local, Keeps, Review, ledger, At, Idle, Emit
<1>5. Fit(a)'
  BY <1>1, <1>2, <1>3
  DEF Review, ledger, At, Idle, Local, Keeps, IInv, Types, Fit, Untouched, RunOpen, Claimed,
      StepKnows, Patched, Emit
<1>6. Newest(a)'
  BY <1>1, <1>2, <1>3 DEF Local, Keeps, OthersKept, Newest, Passing, Unworked
<1>7. HandlerKnows'
  BY DEF Review, HandlerKnows, At, Idle
<1> QED BY <1>3, <1>4, <1>5, <1>6, <1>7, LocalKeeps DEF Local

\* The acceptance of a T0 artifact begins, or is repeated.
LEMMA EmitVerifiedKeeps ==
  ASSUME IInv, NEW a \in Attempts, EmitVerified(a)
  PROVE  IInv' /\ Keeps(a)
<1>1. /\ a \in Made /\ att[a] \in Attempt /\ Fit(a) /\ Newest(a)
  BY MadeRecord DEF IInv, EmitVerified, HandlerKnows, At, Idle
<1>2. UNCHANGED att
  BY DEF EmitVerified, Emit
<1>3. Local(a)
  BY <1>1, <1>2 DEF IInv, Types, Local, Keeps, OthersKept, Made, EmitVerified, ledger, Emit
<1>4. Types'
  BY <1>1, <1>3 DEF Types, IInv, Local, Keeps, EmitVerified, ledger, At, Idle, Emit
<1>5. Fit(a)'
  BY <1>1, <1>2, <1>3
  DEF EmitVerified, ledger, At, Idle, Local, Keeps, IInv, Types, Fit, Untouched, RunOpen,
      Claimed, StepKnows, Patched, Emit
<1>6. Newest(a)'
  BY <1>1, <1>2, <1>3 DEF Local, Keeps, OthersKept, Newest, Passing, Unworked
<1>7. HandlerKnows'
  BY DEF EmitVerified, HandlerKnows, At, Idle
<1> QED BY <1>3, <1>4, <1>5, <1>6, <1>7, LocalKeeps DEF Local

\* The model of an attempt starts.
LEMMA ModelStartsKeeps ==
  ASSUME IInv, NEW a \in Attempts, ModelStarts(a)
  PROVE  IInv' /\ Keeps(a)
<1> DEFINE n == Started(a)[a]
           m == n
<1>1. /\ a \in Made /\ att[a] \in Attempt /\ Fit(a) /\ Newest(a)
      /\ a \in run /\ att[a].status = "reserved"
  BY MadeRecord DEF IInv, ModelStarts, Unmade
<1>2. n = [att[a] EXCEPT !.status = "started", !.started = TRUE, !.supersedes = {}]
  BY <1>1, StartedKeeps DEF IInv, Fit
<1> HIDE DEF n
<1>3. /\ n \in Attempt /\ n.status = "started" /\ n.supersedes = {}
      /\ n.by = att[a].by /\ n.artifact = att[a].artifact
  BY <1>1, <1>2 DEF Attempt, Statuses
<1>4. /\ m \in Attempt
      /\ m.status = "started" /\ m.supersedes = {}
      /\ m.by = att[a].by /\ m.artifact = att[a].artifact
  BY <1>3 DEF Attempt, Statuses
<1> HIDE DEF m
<1>5. att' = [Started(a) EXCEPT ![a] = m]
  BY <1>1, StartedKeeps DEF IInv, Fit, ModelStarts, n, m, Made
<1>6. Keeps(a) /\ att'[a] = m
  BY <1>1, <1>4, <1>5, StartedThenKeeps DEF IInv, Fit
<1>7. Local(a) /\ att'[a] = m
  BY <1>6 DEF IInv, Types, Local, ModelStarts, ledger
<1>8. Types'
  BY <1>1, <1>7 DEF Types, IInv, Local, Keeps, ModelStarts, ledger, At, Idle
<1>9. Fit(a)'
  BY <1>1, <1>4, <1>7
  DEF ModelStarts, ledger, At, Idle, Local, Keeps, IInv, Types, Fit, Untouched, RunOpen,
      Claimed, StepKnows, Patched
<1>10. Newest(a)'
  BY <1>1, <1>4, <1>7 DEF Local, Keeps, OthersKept, Newest, Passing, Unworked
<1>11. HandlerKnows'
  BY DEF ModelStarts, HandlerKnows, At, Idle
<1> QED BY <1>7, <1>8, <1>9, <1>10, <1>11, LocalKeeps DEF Local

\* The artifact is entered in the milestone.
LEMMA RegisterArtifactKeeps ==
  ASSUME IInv, NEW a \in Attempts, RegisterArtifact(a)
  PROVE  IInv' /\ Keeps(a)
<1> DEFINE n == Started(a)[a]
           m == [n EXCEPT !.status = "awaiting-artifact", !.artifact = TRUE]
<1>1. /\ a \in Made /\ att[a] \in Attempt /\ Fit(a) /\ Newest(a)
      /\ a \notin run /\ att[a].status \in {"reserved", "started"}
  BY MadeRecord DEF IInv, RegisterArtifact, HandlerKnows, At, Idle
<1>2. n = [att[a] EXCEPT !.status = "started", !.started = TRUE, !.supersedes = {}]
  BY <1>1, StartedKeeps DEF IInv, Fit
<1> HIDE DEF n
<1>3. /\ n \in Attempt /\ n.status = "started" /\ n.supersedes = {}
      /\ n.by = att[a].by /\ n.artifact = att[a].artifact
  BY <1>1, <1>2 DEF Attempt, Statuses
<1>4. /\ m \in Attempt
      /\ m.status = "awaiting-artifact" /\ m.supersedes = {}
  BY <1>3 DEF Attempt, Statuses
<1> HIDE DEF m
<1>5. att' = [Started(a) EXCEPT ![a] = m]
  BY <1>1, StartedKeeps DEF IInv, Fit, RegisterArtifact, n, m, Made
<1>6. Keeps(a) /\ att'[a] = m
  BY <1>1, <1>4, <1>5, StartedThenKeeps DEF IInv, Fit
<1>7. Local(a) /\ att'[a] = m
  BY <1>6 DEF IInv, Types, Local, RegisterArtifact, ledger
<1>8. Types'
  BY <1>1, <1>7 DEF Types, IInv, Local, Keeps, RegisterArtifact, ledger, At, Idle
<1>9. Fit(a)'
  BY <1>1, <1>4, <1>7
  DEF RegisterArtifact, ledger, At, Idle, Local, Keeps, IInv, Types, Fit, Untouched, RunOpen,
      Claimed, StepKnows, Patched
<1>10. Newest(a)'
  BY <1>1, <1>4, <1>7 DEF Local, Keeps, OthersKept, Newest, Passing, Unworked
<1>11. HandlerKnows'
  BY DEF RegisterArtifact, HandlerKnows, At, Idle
<1> QED BY <1>7, <1>8, <1>9, <1>10, <1>11, LocalKeeps DEF Local

\* The patch is tried: it fits, or the attempt is an artifact again.
LEMMA CheckPatchKeeps ==
  ASSUME IInv, NEW a \in Attempts, CheckPatch(a)
  PROVE  IInv' /\ Keeps(a)
<1>1. /\ a \in Made /\ att[a] \in Attempt /\ Fit(a) /\ Newest(a)
      /\ step[a] = "check"
  BY MadeRecord DEF IInv, CheckPatch, Unmade
<1> DEFINE m == [att[a] EXCEPT !.status = "awaiting-artifact"]
<1>2. /\ m \in Attempt /\ m.status = "awaiting-artifact" /\ m.started = att[a].started
      /\ m.applyBy = att[a].applyBy /\ m.supersedes = att[a].supersedes
  BY <1>1 DEF Attempt, Statuses
<1>3. \/ UNCHANGED att /\ step' = [step EXCEPT ![a] = "patch"]
      \/ Set(a, m) /\ step' = [step EXCEPT ![a] = "none"]
  BY DEF CheckPatch
<1> HIDE DEF m
<1>4. /\ Local(a)
      /\ \/ att'[a] = att[a] /\ step'[a] = "patch"
         \/ att'[a] = m /\ step'[a] = "none"
  <2>1. CASE UNCHANGED att /\ step' = [step EXCEPT ![a] = "patch"]
    BY <1>1, <2>1 DEF IInv, Types, Local, Keeps, OthersKept, Made, CheckPatch, ledger
  <2>2. CASE Set(a, m) /\ step' = [step EXCEPT ![a] = "none"]
    <3>1. Keeps(a) /\ att'[a] = m
      BY <1>1, <1>2, <2>2, SetKeeps DEF IInv
    <3> QED BY <2>2, <3>1 DEF IInv, Types, Local, CheckPatch, ledger
  <2> QED BY <1>3, <2>1, <2>2
<1>5. Types'
  BY <1>1, <1>4 DEF Types, IInv, Local, Keeps, CheckPatch, ledger, At, Idle
<1>6. Fit(a)'
  BY <1>1, <1>2, <1>4
  DEF CheckPatch, ledger, At, Idle, Local, Keeps, IInv, Types, Fit, Untouched, RunOpen,
      Claimed, StepKnows, Patched
<1>7. Newest(a)'
  BY <1>1, <1>2, <1>4 DEF Local, Keeps, OthersKept, Newest, Passing, Unworked
<1>8. HandlerKnows'
  BY DEF CheckPatch, HandlerKnows, At, Idle
<1> QED BY <1>4, <1>5, <1>6, <1>7, <1>8, LocalKeeps DEF Local

\* A new attempt is made.
LEMMA ReserveKeeps ==
  ASSUME IInv, NEW a \in Attempts, Reserve(a)
  PROVE  IInv' /\ Keeps(a)
<1> DEFINE m == New(a)
<1>1. /\ a \notin Made /\ host[a] = "none" /\ receipt[a] = "missing" /\ step[a] = "none"
      /\ tree[a] = 0 /\ final[a] = None
      /\ \A b \in Made : ~Passing(b)
  BY DEF IInv, Reserve, IsNext, Unmade, In, Passing
<1>2. /\ m \in Attempt /\ m.status = "reserved" /\ m.by = instance /\ ~m.artifact
      /\ m.supersedes \subseteq Made
  <2>1. instance \in 1..MaxInstance /\ 0 \in 0..MaxInstance
    BY MilestoneAssumption DEF IInv, Types
  <2>2. In({"awaiting-artifact"}) \subseteq Made /\ Made \subseteq Attempts
    BY DEF In, Made
  <2> QED BY <2>1, <2>2 DEF New, Attempt, Statuses
<1>3. Set(a, m)
  BY DEF Reserve
<1> HIDE DEF m
<1>4. Local(a) /\ att'[a] = m
  <2>1. Keeps(a) /\ att'[a] = m
    BY <1>2, <1>3, SetKeeps DEF IInv
  <2> QED BY <2>1 DEF IInv, Types, Local, Reserve, ledger
<1>5. Types'
  BY <1>4 DEF Types, IInv, Local, Keeps, Reserve, ledger
<1>6. Fit(a)'
  BY <1>1, <1>2, <1>4
 
  DEF Reserve, ledger, Local, Keeps, IInv, Types, Fit, Untouched, RunOpen, Claimed, StepKnows,
      Patched
<1>7. Newest(a)'
  BY <1>1, <1>2, <1>4 DEF Local, Keeps, OthersKept, Newest, Passing, Unworked
<1>8. HandlerKnows'
  BY DEF Reserve, HandlerKnows
<1> QED BY <1>4, <1>5, <1>6, <1>7, <1>8, LocalKeeps DEF Local

\* A dispatch fails, before or after its model started, or nobody knows.
LEMMA RunFailsKeeps ==
  ASSUME IInv, NEW a \in Attempts, RunFails(a)
  PROVE  IInv' /\ Keeps(a)
<1> DEFINE n == Started(a)[a]
           ran == [n EXCEPT !.status = "failed", !.strike = TRUE]
           failed == [att[a] EXCEPT !.status = "failed"]
           doubt == [att[a] EXCEPT !.status = "in_doubt"]
<1>1. /\ a \in Made /\ att[a] \in Attempt /\ Fit(a) /\ Newest(a)
      /\ a \in run /\ att[a].status \in {"reserved", "started"} /\ ~att[a].artifact
  BY MadeRecord DEF IInv, RunFails, Unmade, Fit, RunOpen, Untouched
<1>2. \/ att' = [Started(a) EXCEPT ![a].status = "failed", ![a].strike = TRUE]
      \/ Set(a, failed)
      \/ Set(a, doubt)
  BY DEF RunFails
<1>3. Keeps(a) /\ att'[a].status \in {"failed", "in_doubt"} /\ ~att'[a].artifact
      /\ att'[a].supersedes \subseteq Made
  <2>1. CASE att' = [Started(a) EXCEPT ![a].status = "failed", ![a].strike = TRUE]
    <3>1. n = [att[a] EXCEPT !.status = "started", !.started = TRUE, !.supersedes = {}]
      BY <1>1, StartedKeeps DEF IInv, Fit
    <3>2. att' = [Started(a) EXCEPT ![a] = ran]
      BY <1>1, <2>1, StartedKeeps DEF IInv, Fit, Made
    <3> HIDE DEF n
    <3>3. n \in Attempt /\ n.supersedes = {} /\ n.artifact = att[a].artifact
      BY <1>1, <3>1 DEF Attempt, Statuses
    <3>4. ran \in Attempt /\ ran.status = "failed" /\ ran.supersedes = {} /\ ran.artifact = n.artifact
      BY <3>3 DEF Attempt, Statuses
    <3> HIDE DEF ran
    <3>5. Keeps(a) /\ att'[a] = ran
      BY <1>1, <3>2, <3>4, StartedThenKeeps DEF IInv, Fit
    <3> QED BY <1>1, <3>3, <3>4, <3>5
  <2>2. ASSUME NEW m \in {failed, doubt}, Set(a, m)
        PROVE  Keeps(a) /\ att'[a].status \in {"failed", "in_doubt"} /\ ~att'[a].artifact
               /\ att'[a].supersedes \subseteq Made
    <3>1. /\ m \in Attempt /\ m.status \in {"failed", "in_doubt"}
          /\ m.artifact = att[a].artifact /\ m.supersedes = att[a].supersedes
      BY <1>1, <2>2 DEF Attempt, Statuses
    <3>2. Keeps(a) /\ att'[a] = m
      BY <2>2, <3>1, SetKeeps DEF IInv
    <3> QED BY <1>1, <3>1, <3>2 DEF Fit
  <2> QED BY <1>2, <2>1, <2>2
<1>4. Local(a)
  BY <1>3 DEF IInv, Types, Local, RunFails
<1>5. Types'
  BY <1>3 DEF Types, IInv, Keeps, RunFails
<1>6. Fit(a)'
  BY <1>1, <1>3
  DEF RunFails, Keeps, IInv, Types, Fit, Untouched, RunOpen, Claimed, StepKnows, Patched
<1>7. Newest(a)'
  BY <1>1, <1>3 DEF Keeps, OthersKept, Newest, Passing, Unworked
<1>8. HandlerKnows'
  BY DEF RunFails, HandlerKnows
<1> QED BY <1>4, <1>5, <1>6, <1>7, <1>8, LocalKeeps DEF Local

\* The milestone learns that the checks passed.
LEMMA VerifyPassedKeeps ==
  ASSUME IInv, NEW a \in Attempts, VerifyPassed(a)
  PROVE  IInv' /\ Keeps(a)
<1> DEFINE m == [att[a] EXCEPT !.status = "verified-not-accepted"]
<1>1. /\ a \in Made /\ att[a] \in Attempt /\ Fit(a) /\ Newest(a)
      /\ Verifiable(a) /\ host[a] = "completed" /\ a \notin run
  BY MadeRecord DEF IInv, VerifyPassed, HandlerKnows, At, Idle, Fit, RunOpen
<1>2. /\ m \in Attempt /\ m.status = "verified-not-accepted" /\ m.started = att[a].started
      /\ m.supersedes = att[a].supersedes /\ m.artifact = att[a].artifact
  BY <1>1 DEF Attempt, Statuses
<1>3. \/ att[a].status = "verified-not-accepted" /\ UNCHANGED att
      \/ att[a].status # "verified-not-accepted" /\ Latest(a) /\ Set(a, m)
  BY DEF VerifyPassed
<1> HIDE DEF m
<1>4. /\ Keeps(a) /\ att'[a].status = "verified-not-accepted"
      /\ att'[a].started = att[a].started /\ att'[a].supersedes = att[a].supersedes
  <2>1. CASE att[a].status = "verified-not-accepted" /\ UNCHANGED att
    BY <1>1, <2>1 DEF IInv, Types, Keeps, OthersKept, Made
  <2>2. CASE Set(a, m)
    BY <1>1, <1>2, <2>2, SetKeeps DEF IInv
  <2> QED BY <1>3, <2>1, <2>2
<1>5. Local(a)
  BY <1>4 DEF IInv, Types, Local, VerifyPassed, ledger
<1>6. Types'
  BY <1>1, <1>4 DEF Types, IInv, Keeps, VerifyPassed, ledger, At, Idle
<1>7. Fit(a)'
  <2>1. att[a].status # "verified-not-accepted" => step[a] = "none" /\ receipt[a] = "missing"
    BY <1>1 DEF IInv, Types, Fit, Claimed, StepKnows, Verifiable
  <2> QED
    BY <1>1, <1>4, <2>1
   
    DEF VerifyPassed, ledger, Keeps, IInv, Types, Fit, Untouched, RunOpen, Claimed, StepKnows,
        Patched
<1>8. Newest(a)'
  <2>1. \A b \in Made : b > a => Unworked(b)
    BY <1>1, <1>3 DEF Newest, Passing, Latest, Later, Verifiable, In, Unworked
  <2>2. \A b \in Made : a > b /\ Passing(b) => ~att[a].started
    BY <1>1 DEF Newest, Unworked
  <2> QED
    BY <1>1, <1>4, <2>1, <2>2 DEF Keeps, OthersKept, Newest, Passing, Unworked
<1>9. HandlerKnows'
  BY <1>1, <1>4 DEF VerifyPassed, HandlerKnows, Keeps, Passing, At, Idle
<1> QED BY <1>5, <1>6, <1>7, <1>8, <1>9, LocalKeeps DEF Local

\* The gateway dies and another takes its place: no handler goes on.
LEMMA RestartKeeps ==
  ASSUME IInv, Restart
  PROVE  IInv'
<1>1. UNCHANGED att /\ Made' = Made
  BY DEF Restart, Made
<1>2. Types'
  BY MilestoneAssumption DEF IInv, Types, Restart, ledger, Idle
<1>3. Unmade' /\ HandlerKnows'
  BY <1>1 DEF IInv, Types, Unmade, HandlerKnows, Restart, ledger, Made
<1>4. ASSUME NEW a \in Made  PROVE Fit(a)' /\ Newest(a)'
  <2>1. a \in Attempts /\ Fit(a) /\ Newest(a)
    BY MadeRecord DEF IInv
  <2>2. Fit(a)'
    BY <1>1, <2>1
    DEF Restart, ledger, Fit, Untouched, RunOpen, Claimed, StepKnows, Patched
  <2>3. Newest(a)'
    BY <1>1, <2>1 DEF Newest, Passing, Unworked
  <2> QED BY <2>2, <2>3
<1> QED BY <1>1, <1>2, <1>3, <1>4 DEF IInv

\* A diagnosis changes no attempt.
LEMMA StutterKeeps ==
  ASSUME IInv, UNCHANGED <<att, instance, run, final, host, receipt, step, tree, busy>>
  PROVE  IInv'
BY DEF IInv, Types, Unmade, HandlerKnows, Fit, Untouched, RunOpen, Claimed, StepKnows, Patched,
       Newest, Passing, Unworked, Verifiable, Later, In, Made

-----------------------------------------------------------------------------
(* The theorems *)

LEMMA InitEstablishes ==
  ASSUME Init
  PROVE  IInv
BY MilestoneAssumption DEF Init, IInv, Types, Unmade, HandlerKnows, Made

LEMMA NextKeeps ==
  ASSUME IInv, [Next]_vars
  PROVE  IInv'
<1>1. CASE UNCHANGED vars
  BY <1>1, StutterKeeps DEF vars
<1>2. CASE Restart
  BY <1>2, RestartKeeps
<1>3. ASSUME NEW a \in Attempts,
             \/ Reserve(a) \/ ModelStarts(a) \/ RunFails(a) \/ RunDelivers(a) \/ RegisterArtifact(a)
             \/ BeginApply(a) \/ CheckPatch(a) \/ Patch(a) \/ CompleteApply(a)
             \/ RecordVerdict(a) \/ VerifyRefused(a) \/ VerifyFailed(a) \/ VerifyPassed(a)
             \/ EmitVerified(a) \/ Review(a) \/ AcceptanceEvent(a) \/ Close(a)
             \/ Abandon(a) \/ Reconcile(a)
      PROVE  IInv'
  BY <1>3, ReserveKeeps, ModelStartsKeeps, RunFailsKeeps, RunDeliversKeeps, RegisterArtifactKeeps,
     BeginApplyKeeps, CheckPatchKeeps, PatchKeeps, CompleteApplyKeeps, RecordVerdictKeeps,
     VerifyRefusedKeeps, VerifyFailedKeeps, VerifyPassedKeeps, EmitVerifiedKeeps, ReviewKeeps,
     AcceptanceEventKeeps, CloseKeeps, AbandonKeeps, ReconcileKeeps
<1>4. ASSUME NEW escalate \in BOOLEAN, NEW after \in Attempts \cup {None}, Diagnose(escalate, after)
      PROVE  IInv'
  BY <1>4, StutterKeeps DEF Diagnose, ledger
<1> QED BY <1>1, <1>2, <1>3, <1>4 DEF Next

\* The inductive invariant holds of every reachable state.
THEOREM Invariance == Spec => []IInv
<1>1. Init => IInv
  BY InitEstablishes
<1>2. IInv /\ [Next]_vars => IInv'
  BY NextKeeps
<1> QED BY <1>1, <1>2, PTL DEF Spec

\* What the milestone calls accepted passed the host's checks and has a
\* durable receipt, for any number of attempts and restarts (accepted()).
THEOREM AcceptedProven == Spec => []AcceptedIsProven
<1>1. IInv => AcceptedIsProven
  BY DEF IInv, AcceptedIsProven, In, Fit, Claimed
<1> QED BY <1>1, Invariance, PTL

\* An attempt whose acceptance is claimed is neither abandoned, replaced nor
\* failed (abandon(), verify(), markStarted()).
THEOREM ClaimedClosed == Spec => []ClaimedStaysClosed
<1>1. IInv => ClaimedStaysClosed
  BY DEF IInv, ClaimedStaysClosed, Unmade, Fit, Claimed
<1> QED BY <1>1, Invariance, PTL

\* No model worked after the attempt whose pass still waits for acceptance
\* (verify(), STALE_PASS).
THEOREM VerifiedNewest == Spec => []VerifiedIsNewest
<1>1. IInv => VerifiedIsNewest
  BY DEF IInv, VerifiedIsNewest, In, Newest, Passing, Unworked, Latest, Later
<1> QED BY <1>1, Invariance, PTL

\* A patch reaches the workspace once, and its attempt never passes for one
\* that can be applied or replaced (beginApply(), completeApply()).
THEOREM WorkspaceAgrees == Spec => []WorkspaceKnown
<1>1. IInv => WorkspaceKnown
  BY DEF IInv, WorkspaceKnown, Fit, Untouched, Patched
<1> QED BY <1>1, Invariance, PTL

\* An attempt that blocks new ones is worked on by no handler but
\* reconcile_milestone.
LEMMA DoubtfulStep ==
  ASSUME IInv, [Next]_vars, NEW a \in Made, Doubtful(a)
  PROVE  /\ Made' = Made
         /\ att'[a] # att[a] => att'[a].status = "failed" /\ final[a] \in BOOLEAN
<1>1. a \in Attempts /\ att[a] \in Attempt /\ Fit(a) /\ HandlerKnows
  BY MadeRecord DEF IInv
<1>2. CASE UNCHANGED att
  BY <1>2 DEF Made
<1>3. ASSUME NEW b \in Attempts, Keeps(b), b \in Made, b # a  PROVE Made' = Made /\ att'[a] = att[a]
  BY <1>3 DEF Keeps, OthersKept, Doubtful
<1>4. ASSUME NEW b \in Attempts, Keeps(b), b \in Made, b = a => Reconcile(b)
      PROVE  /\ Made' = Made
             /\ att'[a] # att[a] => att'[a].status = "failed" /\ final[a] \in BOOLEAN
  <2>1. CASE b # a
    BY <1>3, <1>4, <2>1
  <2>2. CASE b = a
    <3>1. Reconcile(a) /\ Made' = Made
      BY <1>4, <2>2 DEF Keeps
    <3>2. att'[a].status = "failed"
      BY <1>1, <3>1 DEF Reconcile, Set, IInv, Types, Attempt
    <3> QED BY <3>1, <3>2 DEF Reconcile
  <2> QED BY <2>1, <2>2
<1>5. ASSUME NEW b \in Attempts, Reserve(b)  PROVE FALSE
  <2>1. \A c \in Made : att[c].status \notin {"in_doubt", "reserved", "started", "applying"}
    BY <1>5 DEF Reserve, In
  <2> QED BY <2>1 DEF Doubtful
<1>6. ASSUME NEW b \in Attempts, ModelStarts(b) \/ RunFails(b)  PROVE b \in Made /\ b # a
  BY <1>1, <1>6 DEF IInv, Unmade, Fit, RunOpen, ModelStarts, RunFails, Doubtful
<1>7. ASSUME NEW b \in Attempts, RegisterArtifact(b)  PROVE b \in Made /\ b # a
  BY <1>1, <1>7 DEF RegisterArtifact, HandlerKnows, Doubtful, At, Idle
<1>8. ASSUME NEW b \in Attempts, BeginApply(b)  PROVE b \in Made /\ b # a
  BY <1>8 DEF BeginApply, In, Doubtful
<1>9. ASSUME NEW b \in Attempts, CheckPatch(b) \/ CompleteApply(b) \/ Close(b)
      PROVE  b \in Made /\ b # a
  BY <1>1, <1>9 DEF IInv, Unmade, Fit, StepKnows, CheckPatch, CompleteApply, Close, Doubtful
<1>10. ASSUME NEW b \in Attempts, VerifyFailed(b) \/ VerifyPassed(b)  PROVE b \in Made /\ b # a
  BY <1>1, <1>10
  DEF VerifyFailed, VerifyPassed, HandlerKnows, At, Idle, Verifiable, Fit, Untouched, Doubtful
<1>11. ASSUME NEW b \in Attempts, Abandon(b)  PROVE b \in Made /\ b # a
  BY <1>11 DEF Abandon, Doubtful
<1>12. CASE Next
  <2>1. CASE Restart \/ \E escalate \in BOOLEAN, after \in Attempts \cup {None} : Diagnose(escalate, after)
    BY <1>2, <2>1 DEF Restart, Diagnose
  <2>2. ASSUME NEW b \in Attempts,
               \/ RunDelivers(b) \/ Patch(b) \/ RecordVerdict(b) \/ VerifyRefused(b)
               \/ EmitVerified(b) \/ Review(b) \/ AcceptanceEvent(b)
        PROVE  UNCHANGED att
    BY <2>2 DEF RunDelivers, Patch, RecordVerdict, VerifyRefused, EmitVerified, Review, Emit,
                AcceptanceEvent
  <2>3. ASSUME NEW b \in Attempts,
               \/ ModelStarts(b) \/ RunFails(b) \/ RegisterArtifact(b) \/ BeginApply(b)
               \/ CheckPatch(b) \/ CompleteApply(b) \/ VerifyFailed(b) \/ VerifyPassed(b)
               \/ Close(b) \/ Abandon(b)
        PROVE  Keeps(b) /\ b \in Made /\ b # a
    BY <1>6, <1>7, <1>8, <1>9, <1>10, <1>11, <2>3, ModelStartsKeeps, RunFailsKeeps,
       RegisterArtifactKeeps, BeginApplyKeeps, CheckPatchKeeps, CompleteApplyKeeps,
       VerifyFailedKeeps, VerifyPassedKeeps, CloseKeeps, AbandonKeeps
  <2>4. ASSUME NEW b \in Attempts, Reconcile(b)  PROVE Keeps(b) /\ b \in Made
    BY <2>4, ReconcileKeeps DEF Reconcile, In
  <2> QED BY <1>2, <1>4, <1>5, <1>12, <2>1, <2>2, <2>3, <2>4 DEF Next
<1> QED BY <1>2, <1>12 DEF vars

\* An attempt of a dead gateway or of unknown end blocks every new attempt and
\* stays as it is, until its dispatch record proves its end (reserve(),
\* reconcile_milestone).
THEOREM DoubtfulBlocks == Spec => DoubtBlocks
<1>1. IInv /\ [Next]_vars =>
        [\A a \in Made : Doubtful(a) =>
           /\ Made' = Made
           /\ att'[a] # att[a] => att'[a].status = "failed" /\ final[a] \in BOOLEAN]_vars
  BY DoubtfulStep
<1> QED BY <1>1, Invariance, PTL DEF Spec, DoubtBlocks
-----------------------------------------------------------------------------
(* The history of failures and diagnoses *)

Open == {"reserved", "started", "in_doubt"}

\* Attempts are numbered in the order in which they are made, one that is open is
\* the last, and an artifact is a model's.
InOrder ==
  \A a \in Made :
    /\ 1..a \subseteq Made
    /\ att[a].status \in Open => Later(a) = {}
    /\ att[a].artifact => att[a].started

\* What was forgiven last was forgiven when a model had worked; each diagnosis that
\* is spent let an attempt through.
Recorded ==
  /\ reset \in 0..MaxAttempts /\ (reset # 0 => reset \in Made /\ att[reset].started)
  /\ diagnoses \in Seq(Diagnosis) /\ Len(diagnoses) <= MaxDiagnoses
  /\ \A i \in DOMAIN diagnoses : diagnoses[i].consumer \in Made \cup {None}

DInv == InOrder /\ Recorded /\ AttemptsDiagnosed

\* A set of attempts that is not empty has a last one.
LEMMA LastAttempt ==
  ASSUME NEW S \in SUBSET Attempts, S # {}
  PROVE  Max(S) \in S /\ \A y \in S : Max(S) >= y
<1> DEFINE R == OpToRel(<, Nat)
           I == {MaxAttempts - x : x \in S}
<1>1. \A k, n \in Nat : k < n => <<k, n>> \in R BY DEF OpToRel
<1>2. IsWellFoundedOn(R, Nat) BY NatLessThanWellFounded
<1>3. MaxAttempts \in Nat /\ \A x \in S : x \in Nat /\ x <= MaxAttempts
  BY MilestoneAssumption DEF Attempts
<1>4. I \in SUBSET Nat /\ I # {} BY <1>3
<1> HIDE DEF R, I
<1>5. PICK n \in I : \A k \in I : ~(<<k, n>> \in R) BY <1>2, <1>4, WFMin
<1>6. \A k \in I : ~(k < n) BY <1>1, <1>4, <1>5
<1>7. PICK x \in S : n = MaxAttempts - x BY <1>5 DEF I
<1>8. \A y \in S : MaxAttempts - y \in I BY DEF I
<1>9. \A y \in S : x >= y BY <1>3, <1>6, <1>7, <1>8
<1>10. QED BY <1>9 DEF Max

\* Two failures that count make a pair of attempts.
LEMMA PairOfAttempts ==
  ASSUME DiagnosisDue
  PROVE  Pair \in Attempts \X Attempts
<1>1. Strikes \in SUBSET Attempts BY DEF Strikes, Made
<1>2. MaxAttempts \in Nat BY MilestoneAssumption
<1>3. IsFiniteSet(Attempts) BY <1>2, FS_Interval DEF Attempts
<1>4. IsFiniteSet(Strikes) BY <1>1, <1>3, FS_Subset
<1>5. Strikes # {} BY FS_EmptySet DEF DiagnosisDue
<1>6. Max(Strikes) \in Strikes BY <1>1, <1>5, LastAttempt
<1> DEFINE rest == Strikes \ {Max(Strikes)}
<1>7. rest # {}
  <2>1. SUFFICES ASSUME Strikes = {Max(Strikes)} PROVE FALSE BY <1>6
  <2>2. Cardinality(Strikes) = 1 BY <2>1, FS_Singleton
  <2>3. QED BY <2>2 DEF DiagnosisDue
<1>8. Max(rest) \in rest BY <1>1, <1>7, LastAttempt
<1>9. QED BY <1>1, <1>6, <1>8 DEF Pair

\* What a step does to the history when it works on attempt a: a failure is new only
\* if it leaves an artifact or is the last attempt's.
Advances(a) ==
  /\ att[a].started => att'[a].started
  /\ att[a].artifact => att'[a].artifact
  /\ att'[a].artifact => att'[a].started
  /\ att'[a].status \in Open => att[a].status \in Open
  /\ att'[a].strike => att[a].strike \/ att'[a].artifact \/ att[a].status \in Open
  /\ reset' = reset \/ (reset' = a /\ att[a].artifact /\ Latest(a))

Continues(a) ==
  /\ a \in Made /\ Made' = Made /\ diagnoses' = diagnoses /\ OthersKept(a) /\ Advances(a)

\* The history stays well formed when an attempt goes on.
LEMMA ContinuesKeeps ==
  ASSUME IInv, DInv, NEW a \in Attempts, Continues(a)
  PROVE  DInv'
<1> USE DEF DInv
<1>1. Made \subseteq Attempts /\ MaxAttempts \in Nat /\ \A b \in Attempts : b \in Nat /\ b <= MaxAttempts
  BY MilestoneAssumption DEF Made, Attempts
<1> DEFINE Kept(b) == /\ att'[b].strike = att[b].strike /\ att'[b].artifact = att[b].artifact
                      /\ att'[b].started = att[b].started
                      /\ (att'[b].status \in Open => att[b].status \in Open)
<1>0. (\A b \in Made \ {a} : Kept(b)) /\ Advances(a) BY DEF Continues, OthersKept, Open
<1>2. InOrder' BY <1>0 DEF InOrder, Continues, Later, Advances
<1>3. /\ reset' \in 0..MaxAttempts /\ reset <= reset'
      /\ (reset' # 0 => reset' \in Made' /\ att'[reset'].started)
  <2>1. CASE reset' = reset
    <3>1. reset # 0 => att'[reset].started BY <1>0 DEF Recorded, Continues, Advances
    <3>2. QED BY <1>1, <2>1, <3>1 DEF Recorded, Continues
  <2>2. CASE reset' = a /\ att[a].artifact /\ Latest(a)
    <3>1. att'[a].started /\ a \in Made' BY <1>0, <2>2 DEF Continues, Advances
    <3>2. ~(reset > a)
      <4>1. SUFFICES ASSUME reset > a PROVE FALSE OBVIOUS
      <4>2. reset \in Made /\ att[reset].started BY <1>1, <4>1 DEF Recorded
      <4>3. reset \in Later(a) BY <4>1, <4>2 DEF Later
      <4>4. QED BY <2>2, <4>2, <4>3 DEF Latest
    <3>3. QED BY <1>1, <2>2, <3>1, <3>2 DEF Recorded
  <2>3. QED BY <1>0, <2>1, <2>2 DEF Advances
<1>4. Recorded' BY <1>3 DEF Recorded, Continues
<1>5. ASSUME NEW b \in Attempts, NEW c \in Made, b < c, b \in Strikes', ~att'[b].artifact
      PROVE  b \in Strikes /\ ~att[b].artifact
  <2>1. b \in Made /\ att'[b].strike /\ b > reset' BY <1>5 DEF Strikes, Continues
  <2>2. b > reset BY <1>1, <1>3, <2>1 DEF Recorded
  <2>3. ~att[b].artifact BY <1>0, <1>5, <2>1 DEF Advances
  <2>4. att[b].status \notin Open BY <1>5, <2>1 DEF InOrder, Later
  <2>5. att[b].strike BY <1>0, <1>5, <2>1, <2>4 DEF Advances
  <2>6. QED BY <2>1, <2>2, <2>3, <2>5 DEF Strikes
<1>6. IsFiniteSet(Attempts) BY <1>1, FS_Interval DEF Attempts
<1>7. ASSUME NEW c \in Made', Cardinality({b \in Strikes' : b < c /\ ~att'[b].artifact}) >= 2
      PROVE  \E i \in DOMAIN diagnoses' : diagnoses'[i].consumer = c
  <2> DEFINE new == {b \in Strikes' : b < c /\ ~att'[b].artifact}
             old == {b \in Strikes : b < c /\ ~att[b].artifact}
  <2>1. c \in Made BY <1>7 DEF Continues
  <2>2. Strikes' \subseteq Attempts BY <1>1 DEF Strikes, Continues
  <2>3. new \in SUBSET old BY <1>5, <2>1, <2>2
  <2>4. old \in SUBSET Attempts BY <1>1 DEF Strikes
  <2>5. IsFiniteSet(old) BY <1>6, <2>4, FS_Subset
  <2>6. /\ Cardinality(new) <= Cardinality(old) /\ Cardinality(old) \in Nat
        /\ IsFiniteSet(new)
    BY <2>3, <2>5, FS_Subset, FS_CardinalityType
  <2>7. Cardinality(new) \in Nat BY <2>6, FS_CardinalityType
  <2>8. Cardinality(old) >= 2 BY <1>7, <2>6, <2>7
  <2>9. QED BY <2>1, <2>8 DEF AttemptsDiagnosed, Continues
<1>8. AttemptsDiagnosed' BY <1>7 DEF AttemptsDiagnosed, Continues
<1>9. QED BY <1>2, <1>4, <1>8

\* What dispatch, apply, verification and abandonment do to the history.
LEMMA HistoryContinues ==
  ASSUME IInv, InOrder, NEW a \in Attempts,
         \/ ModelStarts(a) \/ RunFails(a) \/ RegisterArtifact(a) \/ BeginApply(a)
         \/ CheckPatch(a) \/ CompleteApply(a) \/ VerifyFailed(a) \/ VerifyPassed(a)
         \/ Close(a) \/ Abandon(a) \/ Reconcile(a)
  PROVE  Continues(a) \/ UNCHANGED <<att, reset, diagnoses>>
<1>1. Keeps(a)
  BY ModelStartsKeeps, RunFailsKeeps, RegisterArtifactKeeps, BeginApplyKeeps, CheckPatchKeeps,
     CompleteApplyKeeps, VerifyFailedKeeps, VerifyPassedKeeps, CloseKeeps, AbandonKeeps,
     ReconcileKeeps
<1>2. a \in Made
  <2>1. CASE ModelStarts(a) \/ RunFails(a)
    BY <2>1 DEF IInv, Unmade, ModelStarts, RunFails
  <2>2. CASE RegisterArtifact(a) \/ VerifyFailed(a) \/ VerifyPassed(a)
    BY <2>2 DEF IInv, HandlerKnows, RegisterArtifact, VerifyFailed, VerifyPassed, At, Idle
  <2>3. CASE CheckPatch(a) \/ CompleteApply(a) \/ Close(a)
    BY <2>3 DEF IInv, Unmade, CheckPatch, CompleteApply, Close
  <2>4. CASE BeginApply(a) \/ Abandon(a) \/ Reconcile(a)
    BY <2>4 DEF BeginApply, Abandon, Reconcile, In
  <2> QED BY <2>1, <2>2, <2>3, <2>4
<1>3. /\ att[a] \in Attempt /\ Fit(a) /\ HandlerKnows /\ (att[a].artifact => att[a].started)
      /\ att \in [Attempts -> Attempt \cup {None}]
  BY <1>2, MadeRecord DEF IInv, InOrder, Types
<1>4. Made' = Made /\ OthersKept(a)
  BY <1>1, <1>2 DEF Keeps
<1>5. CASE ModelStarts(a) \/ RunFails(a) \/ RegisterArtifact(a)
  <2> DEFINE n == Started(a)[a]
  <2>1. n = [att[a] EXCEPT !.status = "started", !.started = TRUE, !.supersedes = {}]
    BY <1>2, <1>3, StartedKeeps DEF IInv, Fit
  <2>2. Started(a) \in [Attempts -> Attempt \cup {None}]
    BY <1>2, <1>3, StartedKeeps DEF IInv, Fit
  <2> HIDE DEF n
  <2>3. /\ n.status = "started" /\ n.started /\ n.artifact = att[a].artifact
        /\ n.strike = att[a].strike /\ n \in Attempt
    BY <1>3, <2>1 DEF Attempt, Statuses
  <2>4. att[a].status \in Open /\ diagnoses' = diagnoses /\ reset' = reset
    BY <1>3, <1>5 DEF ModelStarts, RunFails, RegisterArtifact, HandlerKnows, At, Idle, Fit, RunOpen,
                      Open
  <2>5. CASE ModelStarts(a)
    <3>1. att'[a] = n BY <2>5 DEF ModelStarts, n
    <3> QED BY <1>2, <1>3, <1>4, <2>3, <2>4, <3>1 DEF Continues, Advances
  <2>6. CASE RegisterArtifact(a)
    <3>1. att'[a] = [n EXCEPT !.status = "awaiting-artifact", !.artifact = TRUE]
      BY <2>2, <2>6 DEF RegisterArtifact, n
    <3>2. att'[a].started /\ att'[a].artifact /\ att'[a].status = "awaiting-artifact"
      BY <2>3, <3>1 DEF Attempt
    <3> QED BY <1>2, <1>3, <1>4, <2>4, <3>2 DEF Continues, Advances
  <2>7. CASE att' = [Started(a) EXCEPT ![a].status = "failed", ![a].strike = TRUE]
    <3>1. att'[a] = [n EXCEPT !.status = "failed", !.strike = TRUE]
      BY <2>2, <2>7 DEF n
    <3>2. att'[a].started /\ att'[a].artifact = att[a].artifact
      BY <2>3, <3>1 DEF Attempt
    <3> QED BY <1>2, <1>3, <1>4, <2>4, <3>2 DEF Continues, Advances
  <2>8. ASSUME NEW s \in {"failed", "in_doubt"}, Set(a, [att[a] EXCEPT !.status = s])
        PROVE  Continues(a)
    <3>1. att'[a].started = att[a].started /\ att'[a].artifact = att[a].artifact
      BY <1>3, <2>8 DEF Set, Attempt
    <3> QED BY <1>2, <1>3, <1>4, <2>4, <3>1 DEF Continues, Advances
  <2> QED BY <1>5, <2>5, <2>6, <2>7, <2>8 DEF RunFails
<1>6. ASSUME NEW s \in Statuses \ Open, NEW by \in Nat,
             \/ Set(a, [att[a] EXCEPT !.status = s])
             \/ Set(a, [att[a] EXCEPT !.status = s, !.applyBy = by]),
             diagnoses' = diagnoses,
             reset' = reset \/ (reset' = a /\ att[a].artifact /\ Latest(a))
      PROVE  Continues(a)
  <2> DEFINE Same(m) == /\ m.started = att[a].started /\ m.artifact = att[a].artifact
                        /\ m.strike = att[a].strike /\ m.status = s
  <2>1. Same(att'[a])
    <3>1. Same([att[a] EXCEPT !.status = s]) /\ Same([att[a] EXCEPT !.status = s, !.applyBy = by])
      BY <1>3 DEF Attempt
    <3>2. \/ att'[a] = [att[a] EXCEPT !.status = s]
          \/ att'[a] = [att[a] EXCEPT !.status = s, !.applyBy = by]
      BY <1>2, <1>3, <1>6 DEF Set, Made
    <3> HIDE DEF Same
    <3> QED BY <3>1, <3>2
  <2> QED BY <1>2, <1>3, <1>4, <1>6, <2>1 DEF Continues, Advances
<1>7. CASE CheckPatch(a) \/ CompleteApply(a) \/ Close(a) \/ Abandon(a) \/ BeginApply(a)
  <2>1. instance \in Nat /\ diagnoses' = diagnoses /\ reset' = reset
    BY <1>7, MilestoneAssumption
    DEF IInv, Types, CheckPatch, CompleteApply, Close, Abandon, BeginApply
  <2>2. {"awaiting-artifact", "applied", "accepted", "abandoned", "applying"} \subseteq Statuses \ Open
    BY DEF Statuses, Open
  <2>3. \/ UNCHANGED att
        \/ \E s \in {"awaiting-artifact", "applied", "accepted", "abandoned", "applying"} :
             \/ Set(a, [att[a] EXCEPT !.status = s])
             \/ Set(a, [att[a] EXCEPT !.status = s, !.applyBy = instance])
    BY <1>7 DEF CheckPatch, CompleteApply, Close, Abandon, BeginApply
  <2> QED BY <1>6, <2>1, <2>2, <2>3
<1>8. CASE VerifyPassed(a)
  <2>1. att[a].artifact /\ diagnoses' = diagnoses
    BY <1>3, <1>8 DEF VerifyPassed, HandlerKnows, At, Idle, Verifiable
  <2>2. "verified-not-accepted" \in Statuses \ Open /\ 0 \in Nat BY DEF Statuses, Open
  <2>3. \/ UNCHANGED <<att, reset>>
        \/ /\ Set(a, [att[a] EXCEPT !.status = "verified-not-accepted"])
           /\ reset' = a /\ Latest(a)
    BY <1>8 DEF VerifyPassed
  <2> QED BY <1>6, <2>1, <2>2, <2>3
<1>9. CASE VerifyFailed(a)
  <2>1. att[a].artifact BY <1>3, <1>9 DEF VerifyFailed, HandlerKnows, At, Idle, Verifiable
  <2>2. /\ att'[a].started = att[a].started /\ att'[a].artifact = att[a].artifact
        /\ att'[a].status = "failed"
    BY <1>3, <1>9 DEF VerifyFailed, Set, Attempt
  <2>3. diagnoses' = diagnoses /\ reset' = reset BY <1>9 DEF VerifyFailed
  <2> QED BY <1>2, <1>3, <1>4, <2>1, <2>2, <2>3 DEF Continues, Advances, Open
<1>10. CASE Reconcile(a)
  <2>1. att[a].status \in Open BY <1>10 DEF Reconcile, In, Open
  <2>2. /\ (att[a].started => att'[a].started) /\ att'[a].artifact = att[a].artifact
        /\ att'[a].status = "failed"
    BY <1>3, <1>10 DEF Reconcile, Set, Attempt
  <2>3. diagnoses' = diagnoses /\ reset' = reset BY <1>10 DEF Reconcile
  <2> QED BY <1>2, <1>3, <1>4, <2>1, <2>2, <2>3 DEF Continues, Advances, Open
<1> QED BY <1>5, <1>7, <1>8, <1>9, <1>10

\* A new attempt is the last, and a third after two failures spends a diagnosis.
LEMMA ReserveRecords ==
  ASSUME IInv, DInv, NEW a \in Attempts, Reserve(a)
  PROVE  DInv'
<1> USE DEF DInv
<1>1. /\ a \notin Made /\ New(a) \in Attempt /\ a \in Nat
      /\ att \in [Attempts -> Attempt \cup {None}]
  BY MilestoneAssumption DEF Reserve, IsNext, New, IInv, Types, Attempt, Statuses, Attempts, In, Made
<1>2. /\ New(a).status = "reserved" /\ ~New(a).artifact /\ ~New(a).strike
  BY DEF New
<1>3. att' = [att EXCEPT ![a] = New(a)] /\ reset' = reset BY DEF Reserve, Set
<1> HIDE DEF New
<1>4. att'[a] = New(a) /\ \A b \in Attempts \ {a} : att'[b] = att[b] BY <1>1, <1>3
<1>5. Made' = Made \cup {a} BY <1>1, <1>4, NoneAssumption DEF Made
<1>6. /\ \A b \in Made : att[b].status \notin Open
      /\ 1..(a - 1) \subseteq Made
  BY DEF Reserve, In, IsNext, Open
<1>7. 1..a \subseteq Made' /\ Later(a)' = {}
  <2>1. 1..a = 1..(a - 1) \cup {a} BY <1>1, MilestoneAssumption DEF Attempts
  <2>2. ASSUME NEW b \in Made, b > a PROVE FALSE
    <3>1. a \in 1..b BY <1>1, <2>2, MilestoneAssumption DEF Made, Attempts
    <3> QED BY <1>1, <2>2, <3>1 DEF InOrder
  <2> QED BY <1>1, <1>5, <1>6, <2>1, <2>2 DEF Later
<1>8. InOrder'
  <2>1. ASSUME NEW b \in Made
        PROVE  /\ 1..b \subseteq Made' /\ att'[b].status \notin Open
               /\ att'[b].artifact => att'[b].started
    BY <1>1, <1>4, <1>5, <1>6, <2>1 DEF InOrder, Made
  <2> QED BY <1>2, <1>4, <1>5, <1>7, <2>1 DEF InOrder
<1>9. Strikes' = Strikes
  BY <1>1, <1>2, <1>3, <1>4, <1>5 DEF Strikes, Made
<1>10. reset' # 0 => reset' \in Made' /\ att'[reset'].started
  BY <1>1, <1>3, <1>4, <1>5 DEF Recorded, Made
<1>11. IsFiniteSet(Strikes)
  <2>1. MaxAttempts \in Nat BY MilestoneAssumption
  <2>2. IsFiniteSet(Attempts) BY <2>1, FS_Interval DEF Attempts
  <2>3. Strikes \in SUBSET Attempts BY DEF Strikes, Made
  <2> QED BY <2>2, <2>3, FS_Subset
<1> DEFINE Before(c) == {b \in Strikes : b < c /\ ~att[b].artifact}
<1>12. \A c \in Attempts : Before(c)' = Before(c)
  BY <1>1, <1>4, <1>9 DEF Strikes, Made
<1>13. CASE ~DiagnosisDue
  <2>1. diagnoses' = diagnoses BY <1>13 DEF Reserve
  <2>2. ~(Cardinality(Before(a)) >= 2)
    <3>1. Before(a) \in SUBSET Strikes OBVIOUS
    <3>2. IsFiniteSet(Before(a)) /\ Cardinality(Before(a)) <= Cardinality(Strikes)
      BY <1>11, <3>1, FS_Subset
    <3>3. Cardinality(Before(a)) \in Nat /\ Cardinality(Strikes) \in Nat
      BY <1>11, <3>2, FS_CardinalityType
    <3> HIDE DEF Before
    <3> QED BY <1>13, <3>2, <3>3 DEF DiagnosisDue
  <2>3. Recorded' BY <1>3, <1>5, <1>10, <2>1 DEF Recorded
  <2>4. AttemptsDiagnosed'
    <3>1. ASSUME NEW c \in Made', Cardinality(Before(c)') >= 2
          PROVE  \E i \in DOMAIN diagnoses' : diagnoses'[i].consumer = c
      <4>1. c \in Attempts /\ Cardinality(Before(c)) >= 2 BY <1>5, <1>12, <3>1 DEF Made
      <4>2. c \in Made BY <1>5, <2>2, <4>1
      <4> QED BY <2>1, <4>1, <4>2 DEF AttemptsDiagnosed
    <3> QED BY <2>1, <3>1 DEF AttemptsDiagnosed
  <2> QED BY <1>8, <2>3, <2>4
<1>14. CASE DiagnosisDue
  <2>1. PICK i \in DOMAIN diagnoses :
          /\ diagnoses[i].consumer = None
          /\ diagnoses' = [diagnoses EXCEPT ![i].consumer = a]
    BY <1>14 DEF Reserve, Releases
  <2>2. diagnoses \in Seq(Diagnosis) /\ i \in 1..Len(diagnoses) /\ Len(diagnoses) \in Nat
    BY <2>1 DEF Recorded
  <2>3. diagnoses[i] \in Diagnosis BY <2>2
  <2> DEFINE d == [diagnoses[i] EXCEPT !.consumer = a]
  <2>4. d \in Diagnosis /\ d.consumer = a BY <2>3 DEF Diagnosis
  <2>5. diagnoses' = [diagnoses EXCEPT ![i] = d] BY <2>1
  <2> HIDE DEF d
  <2>6. /\ diagnoses' \in Seq(Diagnosis) /\ Len(diagnoses') = Len(diagnoses)
        /\ DOMAIN diagnoses' = DOMAIN diagnoses /\ diagnoses'[i] = d
        /\ \A j \in DOMAIN diagnoses \ {i} : diagnoses'[j] = diagnoses[j]
    BY <2>2, <2>4, <2>5
  <2>7. \A j \in DOMAIN diagnoses : diagnoses[j].consumer # a
    BY <1>1, MilestoneAssumption DEF Recorded
  <2>8. Recorded'
    <3>1. \A j \in DOMAIN diagnoses' : diagnoses'[j].consumer \in Made' \cup {None}
      BY <1>5, <2>4, <2>6 DEF Recorded
    <3> QED BY <1>3, <1>10, <2>6, <3>1 DEF Recorded
  <2>9. AttemptsDiagnosed'
    <3>1. ASSUME NEW c \in Made', Cardinality(Before(c)') >= 2
          PROVE  \E j \in DOMAIN diagnoses' : diagnoses'[j].consumer = c
      <4>1. c \in Attempts /\ Cardinality(Before(c)) >= 2 BY <1>5, <1>12, <3>1 DEF Made
      <4>2. CASE c = a BY <2>1, <2>4, <2>6, <4>2
      <4>3. CASE c # a
        <5>1. c \in Made BY <1>5, <4>3
        <5>2. PICK j \in DOMAIN diagnoses : diagnoses[j].consumer = c
          BY <4>1, <5>1 DEF AttemptsDiagnosed
        <5>3. j # i BY <2>1, <4>1, <5>2, MilestoneAssumption DEF Attempts
        <5> QED BY <2>6, <5>2, <5>3
      <4> QED BY <4>2, <4>3
    <3>2. ASSUME NEW j \in DOMAIN diagnoses', NEW k \in DOMAIN diagnoses',
                 j # k, diagnoses'[j].consumer # None
          PROVE  diagnoses'[j].consumer # diagnoses'[k].consumer
      BY <2>4, <2>6, <2>7, <3>2 DEF AttemptsDiagnosed
    <3> QED BY <3>1, <3>2 DEF AttemptsDiagnosed
  <2> QED BY <1>8, <2>8, <2>9
<1> QED BY <1>13, <1>14

\* A diagnosis names a pair of failures and has let nothing through yet.
LEMMA DiagnoseRecords ==
  ASSUME IInv, DInv, NEW escalate \in BOOLEAN, NEW after \in Attempts \cup {None},
         Diagnose(escalate, after)
  PROVE  DInv'
<1> USE DEF DInv
<1> DEFINE d == [pair |-> Pair, escalate |-> escalate, after |-> after, consumer |-> None]
<1>1. UNCHANGED <<att, reset>> /\ Len(diagnoses) < MaxDiagnoses
  BY DEF Diagnose
<1>2. Pair \in Attempts \X Attempts BY PairOfAttempts DEF Diagnose
<1>3. d \in Diagnosis /\ d.consumer = None BY <1>2 DEF Diagnosis
<1>4. diagnoses' = Append(diagnoses, d) BY DEF Diagnose
<1> HIDE DEF d
<1>5. diagnoses \in Seq(Diagnosis) /\ Len(diagnoses) \in Nat BY DEF Recorded
<1>6. /\ diagnoses' \in Seq(Diagnosis) /\ Len(diagnoses') = Len(diagnoses) + 1
      /\ DOMAIN diagnoses' = DOMAIN diagnoses \cup {Len(diagnoses) + 1}
      /\ \A i \in DOMAIN diagnoses : diagnoses'[i] = diagnoses[i]
      /\ diagnoses'[Len(diagnoses) + 1] = d
    BY <1>3, <1>4, <1>5
<1>7. Made' = Made /\ Strikes' = Strikes BY <1>1 DEF Made, Strikes
<1>8. InOrder' BY <1>1, <1>7 DEF InOrder, Later
<1>9. Recorded'
  <2>1. Len(diagnoses') <= MaxDiagnoses BY <1>1, <1>5, <1>6, MilestoneAssumption
  <2>2. \A i \in DOMAIN diagnoses' : diagnoses'[i].consumer \in Made' \cup {None}
    BY <1>3, <1>6, <1>7 DEF Recorded
  <2> QED BY <1>1, <1>6, <1>7, <2>1, <2>2 DEF Recorded
<1>10. AttemptsDiagnosed'
  <2> DEFINE Before(c) == {b \in Strikes : b < c /\ ~att[b].artifact}
  <2>1. \A c \in Made : Before(c)' = Before(c) BY <1>1, <1>7
  <2>2. ASSUME NEW c \in Made', Cardinality(Before(c)') >= 2
        PROVE  \E i \in DOMAIN diagnoses' : diagnoses'[i].consumer = c
    <3>1. Cardinality(Before(c)) >= 2 BY <1>7, <2>1, <2>2
    <3>2. PICK i \in DOMAIN diagnoses : diagnoses[i].consumer = c
      BY <1>7, <3>1 DEF AttemptsDiagnosed
    <3> QED BY <1>6, <3>2
  <2>3. ASSUME NEW i \in DOMAIN diagnoses', NEW j \in DOMAIN diagnoses',
               i # j, diagnoses'[i].consumer # None
        PROVE  diagnoses'[i].consumer # diagnoses'[j].consumer
    BY <1>3, <1>6, <2>3 DEF AttemptsDiagnosed
  <2> QED BY <2>2, <2>3 DEF AttemptsDiagnosed
<1> QED BY <1>8, <1>9, <1>10

\* A step that leaves the milestone's file as it is.
LEMMA HistoryUnchanged ==
  ASSUME DInv, UNCHANGED <<att, reset, diagnoses>>
  PROVE  DInv'
<1>1. Made' = Made /\ Strikes' = Strikes BY DEF Made, Strikes
<1> QED BY <1>1 DEF DInv, InOrder, Later, Recorded, AttemptsDiagnosed

\* A milestone begins without a history.
LEMMA InitHistory ==
  ASSUME Init
  PROVE  DInv
<1>1. Made = {} /\ Strikes = {} BY DEF Init, Made, Strikes
<1>2. InOrder BY <1>1 DEF InOrder
<1>3. Recorded BY <1>1, MilestoneAssumption DEF Init, Recorded
<1>4. AttemptsDiagnosed BY <1>1 DEF Init, AttemptsDiagnosed
<1> QED BY <1>2, <1>3, <1>4 DEF DInv

\* No action disturbs the history.
LEMMA NextRecords ==
  ASSUME IInv, DInv, [Next]_vars
  PROVE  DInv'
<1>1. CASE UNCHANGED vars BY <1>1, HistoryUnchanged DEF vars
<1>2. CASE Restart BY <1>2, HistoryUnchanged DEF Restart
<1>3. ASSUME NEW a \in Attempts, Reserve(a) PROVE DInv'
  BY <1>3, ReserveRecords
<1>4. ASSUME NEW a \in Attempts,
             \/ ModelStarts(a) \/ RunFails(a) \/ RegisterArtifact(a) \/ BeginApply(a)
             \/ CheckPatch(a) \/ CompleteApply(a) \/ VerifyFailed(a) \/ VerifyPassed(a)
             \/ Close(a) \/ Abandon(a) \/ Reconcile(a)
      PROVE  DInv'
  <2>1. InOrder BY DEF DInv
  <2>2. Continues(a) \/ UNCHANGED <<att, reset, diagnoses>> BY <1>4, <2>1, HistoryContinues
  <2> QED BY <2>2, ContinuesKeeps, HistoryUnchanged
<1>5. ASSUME NEW a \in Attempts,
             \/ RunDelivers(a) \/ Patch(a) \/ RecordVerdict(a) \/ VerifyRefused(a)
             \/ EmitVerified(a) \/ Review(a) \/ AcceptanceEvent(a)
      PROVE  DInv'
  <2>1. UNCHANGED <<att, reset, diagnoses>>
    BY <1>5 DEF RunDelivers, Patch, RecordVerdict, VerifyRefused, EmitVerified, Review, Emit,
                AcceptanceEvent
  <2> QED BY <2>1, HistoryUnchanged
<1>6. ASSUME NEW escalate \in BOOLEAN, NEW after \in Attempts \cup {None}, Diagnose(escalate, after)
      PROVE  DInv'
  BY <1>6, DiagnoseRecords
<1> QED BY <1>1, <1>2, <1>3, <1>4, <1>5, <1>6 DEF Next

\* The milestone file is well formed, and its history of failures and diagnoses is
\* what the rules of dispatch allow: no third attempt without a diagnosis of its
\* own (reserve(), diagnose(), verify()).
THEOREM MilestoneWellFormed == Spec => []WellFormed
<1>1. Init => IInv /\ DInv BY InitEstablishes, InitHistory
<1>2. IInv /\ DInv /\ [Next]_vars => IInv' /\ DInv' BY NextKeeps, NextRecords
<1>3. IInv /\ DInv => WellFormed BY DEF IInv, Types, DInv, Recorded, WellFormed, TypeOK
<1> QED BY <1>1, <1>2, <1>3, PTL DEF Spec

=============================================================================
