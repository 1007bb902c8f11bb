----------------------------- MODULE StageHandoff -----------------------------
(***************************************************************************)
(* The rules by which one task of a run may follow another: handoffs        *)
(* (extensions/stage-handoff.js) and the tier of a change                   *)
(* (extensions/workflow-tier.js, scripts/workflow-tier-gate.mjs).  Pure     *)
(* definitions over records; TaskPipeline applies them to the ledger.       *)
(*                                                                          *)
(* A task is a record [stage, version, run, phase, inputs, known, of, tier, *)
(* risky, profile, binds]: version is 0 for a task without handoff; run     *)
(* stands for run anchor, parent run and workspace, which the code compares *)
(* together; inputs are records [request, stage]; known says that a         *)
(* pre-review brings its scope and plan itself; of is the request a review  *)
(* or verification names; binds are the requests whose milestone it plans.  *)
(* The digest of a result is left out: a request has one result.            *)
(***************************************************************************)
EXTENDS Naturals, FiniteSets

Stages == {"compiled", "clarified", "classified", "scouted", "planned",
           "pre-review", "implementing", "verifying", "post-review"}

Required(stage) ==
    CASE stage = "clarified"    -> {"compiled"}
      [] stage = "planned"      -> {"scouted"}
      [] stage = "pre-review"   -> {"planned"}
      [] stage = "implementing" -> {"pre-review"}
      [] stage = "verifying"    -> {"implementing"}
      [] stage = "post-review"  -> {"verifying"}
      [] OTHER                  -> {}

Allowed(stage) ==
    CASE stage = "classified"   -> {"compiled", "clarified"}
      [] stage = "scouted"      -> {"compiled", "clarified", "classified"}
      [] stage = "planned"      -> {"compiled", "clarified", "classified", "scouted"}
      [] stage = "pre-review"   -> {"planned", "scouted", "post-review"}
      [] stage = "implementing" -> {"planned", "pre-review"}
      [] stage = "verifying"    -> {"implementing", "planned"}
      [] stage = "post-review"  -> {"verifying", "implementing", "pre-review"}
      [] OTHER                  -> Required(stage)

StagesOf(t) == {i.stage : i \in t.inputs}

\* Every input named once, and of a stage that may come before.
InputsFit(t) ==
    LET may == IF t.version = 2 /\ t.stage = "scouted" /\ t.phase > 1
               THEN {"post-review"} ELSE Allowed(t.stage)
    IN  /\ StagesOf(t) \subseteq may
        /\ Cardinality({i.request : i \in t.inputs}) = Cardinality(t.inputs)

\* The predecessors a stage cannot do without.
Predecessors(t) ==
    IF t.version = 1 THEN Required(t.stage) \subseteq StagesOf(t)
    ELSE /\ CASE t.stage = "scouted" ->
                  IF t.phase = 1 THEN t.inputs = {}
                  ELSE Cardinality(t.inputs) = 1 /\ StagesOf(t) = {"post-review"}
              [] t.stage = "pre-review" /\ t.phase = 1 /\ t.inputs = {} -> t.known
              [] t.stage = "pre-review" /\ t.phase > 1 /\ "post-review" \in StagesOf(t) ->
                  Cardinality(t.inputs) = 1
              [] t.stage = "post-review" /\ {"implementing", "pre-review"} \subseteq StagesOf(t) -> TRUE
              [] OTHER -> Required(t.stage) \subseteq StagesOf(t)
         /\ t.inputs = {} => t.phase = 1

\* validateHandoff().
ValidHandoff(t) == t.version > 0 => InputsFit(t) /\ Predecessors(t)

\* The phase a predecessor must belong to: a continuation rests on the review
\* that closed the phase before.
ExpectedPhase(t, input) ==
    IF /\ t.stage \in {"scouted", "pre-review"} /\ t.phase > 1
       /\ input.stage = "post-review" /\ Cardinality(t.inputs) = 1
    THEN t.phase - 1 ELSE t.phase

\* completedContract(): what a finished task leaves to those after it.
Contract(t, decision) ==
    [stage |-> t.stage, mode |-> IF t.version = 0 THEN "standalone" ELSE "linked",
     version |-> t.version, run |-> t.run, phase |-> t.phase, decision |-> decision]

\* Mutant: any phase of the run may come before.
MatchesAnyPhase(t, input, c) ==
    /\ c.mode = "linked" /\ c.run = t.run /\ c.stage = input.stage
    /\ input.stage \in {"pre-review", "post-review"} => c.decision = "approve"

\* The comparison of prepareHandoff()'s gate.
Matches(t, input, c) ==
    /\ c.mode = "linked" /\ c.run = t.run /\ c.stage = input.stage
    /\ input.stage \in {"pre-review", "post-review"} => c.decision = "approve"
    /\ t.version = 2 => c.version = 2 /\ c.phase = ExpectedPhase(t, input)

------------------------------------------------------------------------------
Tiers == <<"T0", "T1", "T2">>
Rank(tier) == CHOOSE n \in 1..3 : Tiers[n] = tier
Profiles == {"standard", "personal", "critical"}

\* The risk profile of the host shifts a tier by one at an end.
Adjusted(tier, profile) ==
    IF <<profile, tier>> \in {<<"critical", "T0">>, <<"personal", "T2">>}
    THEN "T1" ELSE tier

\* classifyWorkflowTier() of a patch [files, lines, shared, docs].
Base(p, risky) ==
    IF risky THEN "T2"
    ELSE IF ~p.docs /\ (p.files > 3 \/ p.lines > 100 \/ p.shared) THEN "T1" ELSE "T0"

Classify(p, risky, profile) == Adjusted(Base(p, risky), profile)

\* validateWriteTier(): what a write must declare before it is dispatched.
DeclaredFits(t) ==
    /\ t.risky => t.tier = "T2"
    /\ Rank(t.tier) >= Rank(Adjusted(t.tier, t.profile))
    /\ Adjusted(t.tier, t.profile) = "T2" =>
         t.version = 2 /\ t.stage = "implementing" /\ "pre-review" \in StagesOf(t)

\* The tier an artifact gets: the declared one, which the patch may not exceed.
TierLevel(t) == Adjusted(t.tier, t.profile)

Exceeds(t, p) == Rank(Classify(p, t.risky, t.profile)) > Rank(TierLevel(t))
==============================================================================
