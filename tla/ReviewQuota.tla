----------------------------- MODULE ReviewQuota -----------------------------
(***************************************************************************)
(* The durable ledger of review attempts (scripts/tier-review-policy.mjs)  *)
(* of one run anchor, and the way a gateway walks a review through it      *)
(* (scripts/gateway.mjs, dispatchInternal).                                *)
(*                                                                         *)
(* A transaction holds .review-attempts.lock from the read of the state    *)
(* file to its replacement, so it is one action; a gateway that dies       *)
(* inside one leaves the lock behind for ever (orphan).  An attempt is     *)
(* known by its place in the ledger.  A content stands for the digests of  *)
(* material, artifact and host record together; a review closes when its   *)
(* progress names the newest review of stage and phase and answers all its *)
(* blockers with changed paths.  Grants are those with a cap of six; the   *)
(* caps above are pinned to one recorded run and left                      *)
(* out.  Time is counted in units of 75 seconds.                           *)
(*                                                                         *)
(* An older runtime kept a file of its own per stage, and may go on writing *)
(* it: every load imports what it finds there, into a file that is written *)
(* before the transaction goes on, so the import is a step of its own.     *)
(***************************************************************************)
EXTENDS Naturals, FiniteSets, SequencesExt

CONSTANTS
    Plans,        \* bounds of the model: records [kinds, timeouts, closes, elapsed, spoilt,
                  \* live, max, old], what one run asks for (pairs of stage and phase), with
                  \* which time limits, closing the last review or not, how long an execution
                  \* of known time may take, how many attempts are released, undecided or lost,
                  \* how many are under way at a time, how many there are, and how many an
                  \* older runtime made
    Contents,     \* what a review may be asked about
    Decisions     \* records [verdict, blockers, cited]

Verdicts == {"approve", "changes", "reject"}
Stages   == {"pre-review", "post-review"}
Phases   == {1, 2}
Tiers    == {"T1", "T2"}

ASSUME QuotaAssumption ==
    /\ \A p \in Plans : /\ p.kinds \subseteq Stages \X Phases /\ p.timeouts \subseteq 1..12 /\ p.closes \subseteq BOOLEAN
                        /\ p.elapsed \subseteq Nat /\ p.spoilt \in Nat /\ p.live \in Nat /\ p.max \in Nat /\ p.old \in Nat
    /\ \A d \in Decisions :
          /\ d.verdict \in Verdicts
          /\ d.verdict = "approve" => d.blockers = {}

VARIABLES
    tier, granted,   \* identity of the run, and whether an exception covers its phase 2
    plan,            \* what its reviews are asked for
    attempts,        \* data.attempts
    decisions,       \* data.decisions, by place of the attempt
    timeUsed, extensionUsed,
    legacy,          \* the older runtime's files: [Stages -> sequence of statuses]
    live,            \* tickets: the attempts some gateway's call is still executing
    orphan           \* the lock was left behind by a dead process

ledger == <<attempts, decisions, timeUsed, extensionUsed>>
vars == <<tier, granted, plan, ledger, legacy, live, orphan>>

(*************************** limits and validation *************************)

\* REVIEW_QUOTA_POLICY.
Limits(t) == IF t = "T1" THEN [base |-> 1, total |-> 2, stage |-> 2, time |-> 8]
                         ELSE [base |-> 2, total |-> 5, stage |-> 3, time |-> 16]

Covered(phase) == granted /\ tier = "T2" /\ phase = 2

EffectiveReviewQuota(phase) ==
    IF Covered(phase) THEN [Limits("T2") EXCEPT !.total = 6] ELSE Limits(tier)

Charge(a) == IF a.status \in {"reserved", "started"} THEN a.reserved ELSE a.elapsed

TimeOf(as) == FoldSeq(LAMBDA a, t : t + Charge(a), 0, as)

Counted(as) == {i \in DOMAIN as : as[i].status # "released"}

InStage(as, s) == {i \in Counted(as) : as[i].stage = s}

\* An extension that the exception authorizes: the third attempt of its stage.
Authorized(as, i) ==
    Covered(as[i].phase) /\ Cardinality({j \in InStage(as, as[i].stage) : j < i}) = 2

Extensions(as) == {i \in Counted(as) : as[i].extension}

\* validateState(): what every load and every write demands of the file.
Valid(as, ds, time, used) ==
    LET ext      == Extensions(as)
        mixed    == \E i \in ext : ~Authorized(as, i)
        exempt   == ~mixed /\ \E i \in ext : Authorized(as, i)
    IN  /\ \A i \in Counted(as) :
             LET n == Cardinality({j \in InStage(as, as[i].stage) : j <= i})
             IN  (n > Limits(tier).base) = as[i].extension /\ n <= EffectiveReviewQuota(as[i].phase).stage
        /\ \A i \in DOMAIN as : as[i].started = (as[i].status \in {"started", "finished"})
        /\ time = TimeOf(as)
        /\ Cardinality(ext) <= (IF exempt THEN 2 ELSE 1)
        /\ used = (ext # {})
        /\ tier = "T1" => InStage(as, "pre-review") = {}
        /\ Cardinality(Counted(as)) <= (IF exempt THEN 6 ELSE Limits(tier).total)
        /\ \A i \in DOMAIN ds : i \in DOMAIN as /\ as[i].status = "finished"

(************************ import of the older files ************************)

\* One attempt of an older file: a charge of unknown time, no digests.
OldAttempt(s, n) ==
    LET ran == legacy[s][n] = "finished"
    IN  [stage |-> s, phase |-> 1, content |-> "none", status |-> legacy[s][n], started |-> ran,
         reserved |-> 0, elapsed |-> IF ran THEN 12 ELSE 0, extension |-> FALSE, progress |-> FALSE, old |-> n]

Imported(s) == {attempts[i].old : i \in {j \in DOMAIN attempts : attempts[j].stage = s}}

Fresh(s) ==
    LET new == SelectSeq([n \in DOMAIN legacy[s] |-> n], LAMBDA n : n \notin Imported(s))
    IN  [k \in DOMAIN new |-> OldAttempt(s, new[k])]

FreshAttempts == Fresh("pre-review") \o Fresh("post-review")

\* migrateLegacy() takes only ended attempts, within the cap of the stage.
Importable ==
    \A s \in Stages :
        LET consumed == {n \in DOMAIN legacy[s] : legacy[s][n] # "released"}
        IN  /\ \A n \in DOMAIN legacy[s] : legacy[s][n] # "started"
            /\ Cardinality(consumed) <= Limits(tier).stage
            /\ tier = "T1" /\ s = "pre-review" => consumed = {}

\* loadState() throws: what the older files hold now cannot be counted.  What
\* the ledger's own file holds was validated when it was written.
Blocked ==
    \/ ~Importable
    \/ /\ FreshAttempts # <<>>
       /\ ~Valid(attempts \o FreshAttempts, decisions, timeUsed + TimeOf(FreshAttempts), extensionUsed)

\* loadState() has nothing left to import.
Loaded == ~Blocked /\ FreshAttempts = <<>>

(***************************** rules of reserve() **************************)

History(s, p) == SelectSeq([i \in DOMAIN attempts |-> i],
    LAMBDA i : i \in InStage(attempts, s) /\ attempts[i].phase = p)

Verdict(i)  == IF i \in DOMAIN decisions THEN decisions[i].verdict ELSE "none"
Failed(i)   == Verdict(i) = "changes"
Blockers(i) == decisions[i].blockers

\* progressEligible(): the closure answers the newest review of stage and
\* phase, which failed with blockers that cite places, about other content.
ProgressEligible(in) ==
    LET h == History(in.stage, in.phase)
    IN  /\ h # <<>> /\ in.closes
        /\ attempts[Last(h)].status = "finished" /\ Failed(Last(h))
        /\ Blockers(Last(h)) # {} /\ decisions[Last(h)].cited
        /\ attempts[Last(h)].content # in.content

\* stalled(): two failed reviews in a row, the second without progress and
\* with every blocker of the first.
Stalled(in) ==
    LET h == History(in.stage, in.phase)
        older == h[Len(h) - 1]
    IN  /\ Len(h) >= 2
        /\ Failed(older) /\ Failed(Last(h)) /\ ~attempts[Last(h)].progress
        /\ Blockers(older) # {} /\ Blockers(older) \subseteq Blockers(Last(h))

ApprovedIn(in) == {i \in DOMAIN attempts : /\ Verdict(i) = "approve"
                                           /\ attempts[i].stage = in.stage
                                           /\ attempts[i].phase = in.phase}

\* An exception's slot: the third attempt of a stage, once.
AuthorizedSlot(in) ==
    /\ Covered(in.phase) /\ ApprovedIn(in) = {}
    /\ Cardinality(InStage(attempts, in.stage)) = 2
    /\ ~\E i \in InStage(attempts, in.stage) : attempts[i].extension /\ attempts[i].phase = in.phase

Extension(in) ==
    \/ AuthorizedSlot(in)
    \/ /\ ApprovedIn(in) = {} /\ ~extensionUsed /\ ProgressEligible(in)
       /\ Cardinality(InStage(attempts, in.stage)) >= Limits(tier).base

\* reserve() up to the quota check.
Admitted(in) ==
    LET used   == Cardinality(InStage(attempts, in.stage))
        total  == Cardinality(Counted(attempts))
        lim    == EffectiveReviewQuota(in.phase)
        beyond == total + 1 > Limits(tier).total \/ (Extension(in) /\ extensionUsed)
    IN  /\ tier = "T1" => in.stage = "post-review"
        /\ \A i \in ApprovedIn(in) : attempts[i].content # in.content
        /\ ~Stalled(in)
        /\ beyond => /\ AuthorizedSlot(in)
                     /\ \A i \in Extensions(attempts) : Covered(attempts[i].phase)
        /\ total < lim.total /\ used < lim.stage
        /\ used >= lim.base => Extension(in)

Min2(a, b) == IF a < b THEN a ELSE b

\* Mutant: the remaining budget does not shorten the time limit.
TimeoutUnshortened(in) == IF timeUsed < EffectiveReviewQuota(in.phase).time THEN in.timeout ELSE 0

\* The time an attempt is given; less than a unit refuses it.
Timeout(in) ==
    LET time == EffectiveReviewQuota(in.phase).time
    IN  Min2(Min2(in.timeout, 12), IF timeUsed < time THEN time - timeUsed ELSE 0)

Inputs == {[stage |-> k[1], phase |-> k[2], content |-> c, timeout |-> t, closes |-> b] :
             k \in plan.kinds, c \in Contents, t \in plan.timeouts, b \in plan.closes}

NewAttempt(in) ==
    [stage |-> in.stage, phase |-> in.phase, content |-> in.content, status |-> "reserved",
     started |-> FALSE, reserved |-> Timeout(in), elapsed |-> 0,
     extension |-> Extension(in), progress |-> ProgressEligible(in), old |-> 0]

Pending == {i \in DOMAIN attempts : attempts[i].status \in {"reserved", "started"}}

Init ==
    /\ tier \in Tiers /\ granted \in BOOLEAN /\ (granted => tier = "T2")
    /\ plan \in Plans
    /\ attempts = <<>> /\ decisions = <<>>
    /\ timeUsed = 0 /\ extensionUsed = FALSE
    /\ legacy = [s \in Stages |-> <<>>]
    /\ live = {} /\ orphan = FALSE

Spoilt == Cardinality({i \in DOMAIN attempts \ DOMAIN decisions : attempts[i].old = 0} \ live)

(******************************* transactions ******************************)

\* migrateLegacy() of any transaction, saved before the transaction goes on.
Import ==
    /\ ~orphan /\ ~Blocked /\ FreshAttempts # <<>>
    /\ attempts' = attempts \o FreshAttempts
    /\ timeUsed' = timeUsed + TimeOf(FreshAttempts)
    /\ UNCHANGED <<tier, granted, plan, legacy, decisions, extensionUsed, live, orphan>>

OldMade == Len(legacy["pre-review"]) + Len(legacy["post-review"])

\* The older runtime begins an attempt, or ends one.
OldRuntime(s) ==
    /\ \/ OldMade < plan.old /\ legacy' = [legacy EXCEPT ![s] = Append(@, "started")]
       \/ \E n \in DOMAIN legacy[s], status \in {"finished", "released"} :
             legacy[s][n] = "started" /\ legacy' = [legacy EXCEPT ![s][n] = status]
    /\ UNCHANGED <<tier, granted, plan, ledger, live, orphan>>

\* reserve() of a new request: refused while any attempt is pending.
Reserve(in) ==
    /\ ~orphan /\ Loaded /\ Cardinality(live) < plan.live /\ Len(attempts) < plan.max
    /\ Pending = {} /\ Admitted(in) /\ Timeout(in) >= 1
    /\ attempts' = Append(attempts, NewAttempt(in))
    /\ timeUsed' = timeUsed + Timeout(in)
    /\ extensionUsed' = (extensionUsed \/ Extension(in))
    /\ Valid(attempts', decisions, timeUsed', extensionUsed')
    /\ live' = live \cup {Len(attempts')}
    /\ UNCHANGED <<tier, granted, plan, legacy, decisions, orphan>>

\* markStarted(), called at the first sign of the model or when it cannot be excluded.
MarkStarted(i) ==
    /\ ~orphan /\ Loaded /\ attempts[i].status = "reserved"
    /\ attempts' = [attempts EXCEPT ![i].status = "started", ![i].started = TRUE]
    /\ UNCHANGED <<tier, granted, plan, legacy, decisions, timeUsed, extensionUsed, live, orphan>>

\* Mutant: an execution that has started can no longer be finished.
FinishBeforeStart(i, ms) ==
    LET a == attempts[i] IN
    /\ ~orphan /\ Loaded /\ attempts[i].status = "reserved" /\ Spoilt < plan.spoilt
    /\ attempts' = [attempts EXCEPT ![i].status = "released", ![i].elapsed = ms]
    /\ timeUsed' = timeUsed - a.reserved
    /\ extensionUsed' = IF a.extension THEN Extensions(attempts') # {} ELSE extensionUsed
    /\ live' = live \ {i}
    /\ UNCHANGED <<tier, granted, plan, legacy, decisions, orphan>>

\* finish(): what ran is charged, in full when its time is unknown; what never
\* started is released, and so is the extension it held.
Finish(i, ms) ==
    LET a == attempts[i] IN
    /\ ~orphan /\ Loaded /\ i \in Pending /\ (a.started \/ Spoilt < plan.spoilt)
    /\ attempts' = [attempts EXCEPT ![i].status = IF a.started THEN "finished" ELSE "released",
                                    ![i].elapsed = ms]
    /\ timeUsed' = (timeUsed + ms) - a.reserved
    /\ extensionUsed' = IF ~a.started /\ a.extension THEN Extensions(attempts') # {} ELSE extensionUsed
    /\ live' = IF a.started THEN live ELSE live \ {i}
    /\ UNCHANGED <<tier, granted, plan, legacy, decisions, orphan>>

\* recordDecision(): the gateway records a decision it could validate.
RecordDecision(i, d) ==
    /\ ~orphan /\ Loaded /\ attempts[i].status = "finished"
    /\ decisions' = decisions @@ (i :> d)
    /\ live' = live \ {i}
    /\ UNCHANGED <<tier, granted, plan, legacy, attempts, timeUsed, extensionUsed, orphan>>

\* A review whose output was not valid ends without a decision.  With the lock
\* left behind, or an older file in the way, every transaction fails and the
\* attempt stays as it is.
Leave(i) ==
    /\ orphan \/ Blocked \/ (attempts[i].status = "finished" /\ Spoilt < plan.spoilt)
    /\ live' = live \ {i}
    /\ UNCHANGED <<tier, granted, plan, legacy, ledger, orphan>>

\* A gateway dies with the calls it was executing, perhaps inside a transaction.
Crash(calls, inside) ==
    /\ calls # {} /\ Spoilt < plan.spoilt
    /\ live' = live \ calls
    /\ orphan' = (orphan \/ inside)
    /\ UNCHANGED <<tier, granted, plan, legacy, ledger>>

Charges(a) == IF a.started THEN plan.elapsed \cup {a.reserved} ELSE {0}

Work(i) ==
    \/ MarkStarted(i)
    \/ \E ms \in Charges(attempts[i]) : Finish(i, ms)
    \/ \E d \in Decisions : RecordDecision(i, d)
    \/ Leave(i)

Next ==
    \/ \E in \in Inputs : Reserve(in)
    \/ \E i \in live : Work(i)
    \/ Import \/ \E s \in Stages : OldRuntime(s)
    \/ \E calls \in SUBSET live, inside \in BOOLEAN : Crash(calls, inside)

\* A gateway that runs goes on with the review it has begun: its time limit
\* ends the execution.
Spec == Init /\ [][Next]_vars /\ WF_vars(live # {} /\ (Import \/ \E i \in live : Work(i)))

(******************************** properties *******************************)

\* The rules by which reserve() admits an attempt and the rules by which
\* validateState() accepts a file are written twice and agree: the file is
\* always one that the next load accepts, and no admitted attempt is then
\* thrown out as an inconsistent state.
RulesAgree ==
    /\ Valid(attempts, decisions, timeUsed, extensionUsed)
    /\ Pending = {} =>
         \A in \in Inputs : Admitted(in) /\ Timeout(in) >= 1 =>
            Valid(Append(attempts, NewAttempt(in)), decisions, timeUsed + Timeout(in),
                  extensionUsed \/ Extension(in))

\* Whatever was released, overran, crashed or was decided late by another
\* gateway: one attempt is pending at most, none was let in beyond the time
\* left by those before it, every attempt past the base of its stage was earned
\* by progress on a failed review or lies in the excepted phase, and what an
\* older runtime spent is counted once, and only when it has ended.
CapsKept ==
    /\ Cardinality(Pending) <= 1
    /\ \A i \in DOMAIN attempts :
         /\ attempts[i].old = 0 => TimeOf(SubSeq(attempts, 1, i - 1)) + attempts[i].reserved <= Limits(tier).time
         /\ i \in Extensions(attempts) => attempts[i].progress \/ Covered(attempts[i].phase)
         /\ attempts[i].old # 0 => /\ attempts[i].status = legacy[attempts[i].stage][attempts[i].old]
                                   /\ \A j \in DOMAIN attempts \ {i} : <<attempts[j].stage, attempts[j].old>> #
                                                                        <<attempts[i].stage, attempts[i].old>>

\* What is reserved stays within what the policy grants, by both of its readings.
QuotaHonoured == RulesAgree /\ CapsKept

\* A review under way leaves the ledger open for the next one, unless a
\* gateway died or an older file is in the way: then its attempt blocks the
\* run until an operator steps in.
ReviewsSettle == (Pending # {}) ~> (Pending = {} \/ orphan \/ Blocked \/ ~(Pending \subseteq live))
=============================================================================
