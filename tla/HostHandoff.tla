----------------------------- MODULE HostHandoff -----------------------------
(***************************************************************************)
(* The host's side of the pipeline: get_task_handoff, wait_task_handoff,    *)
(* wait_subagent and get_subagent_result of scripts/gateway.mjs, and the    *)
(* client that leads one artifact from the worker's answer to an inspection *)
(* that calls it ready for the primary's acceptance,                        *)
(* scripts/host-handoff.mjs and scripts/host-handoff-flow.mjs.              *)
(*                                                                          *)
(* The client reads in several calls, between which workers, reviews, other *)
(* hosts and crashes go on.  A document is what the reads can tell apart:   *)
(* the digest of a result is the verdict it carries, that of a proof its    *)
(* source.  Tasks are submitted; what the monitor does for tasks that are   *)
(* dispatched is in TaskMonitor.                                            *)
(***************************************************************************)
EXTENDS TaskPipeline

VARIABLES
    live,       \* requests the monitor lists as queued or running
    unsaved,    \* requests that ended whose answer is not in the result cache yet
    saved,      \* requests with an answer in the result cache
    sleeper,    \* per artifact: the view a wait_task_handoff sleeps on
    client      \* of the host: what it does, for which artifact, and what it has read

readers == <<live, unsaved, saved, sleeper>>
hostVars == <<vars, readers, client>>

NoView == [state |-> "none", proof |-> "none"]
Idle == [at |-> "idle", of |-> "none", told |-> FALSE, version |-> "none", review |-> "none"]

HostInit ==
    /\ Init
    /\ live = {} /\ unsaved = {} /\ saved = {}
    /\ sleeper = [i \in Writers |-> NoView]
    /\ client = Idle

(************************ what the gateway shows ***************************)

\* projectEffectiveResult(): the proof that decides.
Proof(i) == IF attestation[i] # "none" THEN "host" ELSE IF verifier[i] THEN "verifier" ELSE "none"

\* projectTaskHandoff().  An acceptance rests on the host's proof, which no
\* later one replaces, so a receipt is never one for another proof.
View(i) ==
    IF ~Pending(i)
    THEN [state |-> IF i \in live THEN "wait-worker"
                    ELSE IF State(i) = "failed" THEN "repair-required" ELSE "unknown",
          proof |-> "none"]
    ELSE [state |-> Advice(i), proof |-> Proof(i)]

\* Mutant: an acceptance is not published.
ToldButAcceptance(i) ==
    \/ host'[i] # host[i] \/ outcome'[i] # outcome[i] \/ attestation'[i] # attestation[i]
    \/ verifier'[i] # verifier[i] \/ i \in saved' \ saved

\* What notify() and publishHandoff() tell of: registerHostPending,
\* recordOutcome, either proof, the result cache, and the acceptance.
Told(i) ==
    \/ host'[i] # host[i] \/ outcome'[i] # outcome[i] \/ attestation'[i] # attestation[i]
    \/ verifier'[i] # verifier[i] \/ i \in saved' \ saved \/ receipt'[i] # receipt[i]

\* wake(): a sleeper is answered if the view is another one.  Nobody is told of
\* what a second gateway writes, and a gateway that dies forgets its sleepers.
Publish ==
    \E own \in IF plan.shared THEN BOOLEAN ELSE {TRUE} :
        sleeper' = [i \in Writers |->
            IF deaths' # deaths \/ (own /\ Told(i) /\ View(i)' # sleeper[i]) THEN NoView ELSE sleeper[i]]

\* Bound: the monitor's records of the artifact the host is after and of its reviews.
Watched == {r \in plan.asked : r = plan.host \/ (plan.host \in Requests /\ Task[r].of = plan.host)}

\* The monitor follows the requests: listed from the submission until the run
\* behind it is settled, which is after its outcome is recorded.
Listed ==
    /\ live' = IF deaths' # deaths THEN {}
               ELSE live \cup {r \in Watched : status[r] = "idle" /\ status'[r] # "idle"}
    /\ unsaved' = IF deaths' # deaths THEN {} ELSE unsaved
    /\ UNCHANGED saved

\* A step of the pipeline, as the monitor and the sleepers see it.
Pipeline(A) == A /\ Listed /\ Publish

Settle(r) ==
    /\ r \in live /\ status[r] = "ended"
    /\ live' = live \ {r} /\ unsaved' = unsaved \cup {r}
    /\ UNCHANGED <<vars, saved, sleeper, client>>

\* saveMonitorResultAsync() tells of the answer when it is on disk.
Save(r) ==
    /\ r \in unsaved /\ unsaved' = unsaved \ {r} /\ saved' = saved \cup {r}
    /\ UNCHANGED <<vars, live, client>> /\ Publish

\* wait_task_handoff, for the view its caller has seen last: it sleeps only
\* where something can still change.
Wait(i) ==
    /\ i = plan.host /\ plan.waits /\ sleeper[i] = NoView
    /\ View(i).state \in {"wait-worker", "host-verification-required", "post-review-required"}
    /\ sleeper' = [sleeper EXCEPT ![i] = View(i)]
    /\ UNCHANGED <<vars, live, unsaved, saved, client>>

\* The 55 seconds are over, or the caller hangs up.
TimeOut(i) ==
    /\ sleeper[i] # NoView /\ sleeper' = [sleeper EXCEPT ![i] = NoView]
    /\ UNCHANGED <<vars, live, unsaved, saved, client>>

\* getResult() of the monitor: in memory until it is saved, then on disk.
Readable(r) == r \in unsaved \cup saved

(*************************** the host's client *****************************)

Turn(now) == client' = now /\ UNCHANGED <<vars, readers>>

\* Any refusal, error or broken connection ends the client's command.
Abort == client.at \notin {"idle", "ready"} /\ Turn(Idle)

Takeable == {"host-verification-required", "post-review-required", "accepted"}

\* wait_subagent: the ledger or the monitor knows how the worker ended.
WorkerDone(i) == Effective(i) # "none" \/ Readable(i)

\* waitForHostCandidate(), of which a timeout is no step.
AwaitWorker(i) ==
    /\ client.at = "idle" /\ i = plan.host /\ ~plan.waits /\ WorkerDone(i)
    /\ Turn([Idle EXCEPT !.at = "waited", !.of = i])

\* get_task_handoff before the result: fetchHostCandidate().
HandoffFirst(i) ==
    /\ client.at = "idle" /\ i = plan.host /\ ~plan.waits /\ View(i).state \in Takeable
    /\ Turn([Idle EXCEPT !.at = "told", !.of = i, !.told = TRUE])

\* And after it: collectHostCandidate().
HandoffLast ==
    /\ client.at = "result" /\ View(client.of).state \in Takeable
    /\ Turn([client EXCEPT !.at = "candidate"])

\* get_subagent_result: the exported document changes with the verdict in it.
Digest(i) == Effective(i)

FirstPage ==
    /\ client.at \in {"waited", "told"} /\ Pending(client.of)
    /\ Turn([client EXCEPT !.at = "page", !.version = Digest(client.of)])

\* The last page, of the same digest as the first.
LastPage ==
    /\ client.at = "page" /\ Digest(client.of) = client.version
    /\ Turn([client EXCEPT !.at = IF client.told THEN "candidate" ELSE "result", !.version = "none"])

\* captureHostChecks(): every check of the host passed.
Checks == client.at = "candidate" /\ Turn([client EXCEPT !.at = "checked", !.told = FALSE])

\* record_host_verification with that evidence; the same evidence again, also
\* of an accepted artifact, is answered from the record.
Submit ==
    /\ client.at = "checked" /\ client' = [client EXCEPT !.at = "recorded"]
    /\ \/ Pipeline(RecordHost(client.of, "completed"))
       \/ attestation[client.of] = "completed" /\ UNCHANGED <<vars, readers>>

\* prepareHostReview(): a request after the change, without handoff, whose packet
\* is this artifact.
ReviewFits(r) == /\ Task[r].stage = "post-review" /\ Task[r].version = 0
                 /\ Task[r].of = client.of /\ Task[r].tier = host[client.of].tier

\* prepareReviewBundle(): a review of this artifact, for T1 only.
Prepare(r) ==
    /\ client.at = "recorded" /\ host[client.of].tier = "T1"
    /\ r \in Watched /\ ReviewFits(r)
    /\ Turn([client EXCEPT !.at = "prepared", !.review = r])

\* collectAcceptanceInspection(): the review approved, bound to this artifact's run.
InspectReview ==
    LET r == client.review IN
    /\ client.at = "prepared" /\ Readable(r) /\ State(r) = "completed"
    /\ ContractOf(r).decision = "approve" /\ ContractOf(r).run = host[client.of].contract.run
    /\ Turn([client EXCEPT !.at = "reviewed"])

\* And the handoff says accepted, under the host's own record.
InspectHandoff ==
    /\ client.at = "reviewed" /\ View(client.of) = [state |-> "accepted", proof |-> "host"]
    /\ Turn([client EXCEPT !.at = "ready"])

HostNext ==
    \/ Pipeline(Next) /\ UNCHANGED client
    \/ \E r \in Requests : Settle(r) \/ Save(r) \/ Prepare(r)
    \/ \E i \in Writers : Wait(i) \/ TimeOut(i) \/ AwaitWorker(i) \/ HandoffFirst(i)
    \/ FirstPage \/ LastPage \/ HandoffLast \/ Checks \/ Submit \/ InspectReview \/ InspectHandoff \/ Abort

HostSpec == HostInit /\ [][HostNext]_hostVars

(******************************** properties *******************************)

\* No host sleeps on a view that has changed: with one gateway, whoever waits for
\* the next state of an artifact is woken by whatever step brings it, except that
\* a worker that failed without an artifact is reported when its answer is saved.
SleepersFollow == ~plan.shared => \A i \in Writers :
    sleeper[i] # NoView /\ View(i) # sleeper[i] => i \in unsaved /\ ~Pending(i)

\* An inspection that calls an artifact ready is true of all the ledgers at once,
\* although it was put together from reads at different times: the review it names
\* approved this artifact, and it stands accepted on the host's own proof.
InspectionTrue == client.at = "ready" =>
    /\ <<client.review, client.of>> \in approvals
    /\ attestation[client.of] = "completed"
    /\ receipt[client.of] /\ milestone[client.of] = "accepted"

\* What the host is told follows what is recorded: it neither sleeps through a
\* change nor calls ready what is not.
HostSeesTrue == SleepersFollow /\ InspectionTrue
==============================================================================
