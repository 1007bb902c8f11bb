---------------------------- MODULE CheckChannel ----------------------------
(***************************************************************************)
(* The tools a sandboxed task has besides its model: checks its packet     *)
(* declared (yhwh_run_check) and semantic probes (the yhwh_lsp tools).      *)
(*                                                                         *)
(* A call goes from an extension inside pi (run-check-proxy.js, lsp-       *)
(* proxy.js) over IPC to the bootstrap (editor-pi-bootstrap.mjs), over its *)
(* output to the root broker (createCheckFrames, createProbeFrames) and    *)
(* there to runRootCheck() or to the pool of ProbePool; the answer comes   *)
(* back over two more channels, `down` and `ipc`.  What goes up is taken   *)
(* in at once: a call that waits in a pipe is a call made later.           *)
(*                                                                         *)
(* A check is attempted in the job's state file, runs in a cgroup of its   *)
(* own, is cleaned up, signed onto the output and recorded.  When the      *)
(* model has ended the broker closes, the shell of the job exports the     *)
(* tally, cleans the job up and signs the terminal record; the host (run-  *)
(* WslSandbox) takes the frames in order and decides whether they are      *)
(* evidence.  The broker may be killed, and the host may hang up, at any   *)
(* step.  Signatures and hashes stand for what they cover.                 *)
(***************************************************************************)
EXTENDS ProbePool, Sequences

CONSTANTS
    MaxChecks,      \* bound: checks the model asks for (the code's limit is 8)
    MaxCalls        \* bound: checks and probes (64) together

VARIABLES
    pi,         \* the proxies: calls made, call awaited (0: none)
    told,       \* results of checks pi received
    boot,       \* the bootstrap: calls pending, ended
    model,      \* the model command: "up", or how it ended
    down, ipc,  \* answers on their way to the bootstrap, to pi
    broker,     \* [state, check, aborted, failed, closed, probe, probesClosed, code]
    root,       \* runRootCheck(): [step, fault, clean]
    tally,      \* check-state.json: [attempts, chain, clean]
    groups,     \* checks whose cgroup exists
    job,        \* the job's shell: [state, tally, code, clean]
    host        \* [state, receipts, terminal, failed, ok]

toolVars == <<pi, told, boot, model, down, ipc>>
rootVars == <<root, tally, groups>>
endVars == <<job, host>>
chanVars == <<poolVars, toolVars, broker, rootVars, endVars>>

NoTerminal == [attempts |-> 0, chain |-> <<>>, clean |-> FALSE, code |-> "none"]

ChannelInit ==
    /\ PoolInit
    /\ pi = [checks |-> 0, check |-> 0, probes |-> 0, probe |-> 0]
    /\ told = {} /\ model = "up" /\ down = <<>> /\ ipc = <<>>
    /\ boot = [check |-> 0, probe |-> 0, ended |-> FALSE]
    /\ broker = [state |-> "up", check |-> 0, aborted |-> FALSE, failed |-> FALSE, closed |-> FALSE,
                 probe |-> 0, probesClosed |-> FALSE, code |-> "none"]
    /\ root = [step |-> "none", fault |-> FALSE, clean |-> TRUE]
    /\ tally = [attempts |-> 0, chain |-> <<>>, clean |-> TRUE]
    /\ groups = {}
    /\ job = [state |-> "running", tally |-> NoTerminal, code |-> "none", clean |-> FALSE]
    /\ host = [state |-> "open", receipts |-> <<>>, terminal |-> FALSE, failed |-> FALSE, ok |-> FALSE]

PiUp == model = "up" /\ ~boot.ended
Deaf == broker.state # "up" \/ broker.failed \/ broker.closed

\* stop() of the bootstrap and of the broker: pi is told to go.
StopBoot == boot' = [boot EXCEPT !.ended = TRUE]
\* fail() of createCheckFrames
Fail(b) == /\ broker' = [b EXCEPT !.failed = TRUE, !.aborted = TRUE] /\ StopBoot

-----------------------------------------------------------------------------
(* Calls.                                                                  *)

(* runRootCheck() up to its first await: the attempt is counted, and the   *)
(* command, the trust and the resources are looked at.                     *)
StartCheck(id) ==
    /\ broker' = [broker EXCEPT !.check = id, !.aborted = FALSE]
    /\ tally' = [tally EXCEPT !.attempts = @ + 1]
    /\ \E fault \in BOOLEAN, made \in BOOLEAN :
         /\ fault \/ made
         /\ root' = [step |-> IF fault THEN "cleaning" ELSE "copying", fault |-> fault, clean |-> TRUE]
         /\ groups' = IF made THEN groups \union {id} ELSE groups

AskCheck ==
    LET id == pi.checks + 1 IN
    /\ PiUp /\ pi.check = 0 /\ id <= MaxChecks /\ id + pi.probes <= MaxCalls
    /\ pi' = [pi EXCEPT !.checks = id, !.check = id]
    /\ IF boot.check # 0 \/ boot.probe # 0
       THEN StopBoot /\ UNCHANGED <<broker, rootVars>>
       ELSE IF Deaf THEN boot' = [boot EXCEPT !.check = id] /\ UNCHANGED <<broker, rootVars>>
       ELSE IF broker.check # 0 \/ broker.probe # 0 \/ tally.attempts + 1 # id
       THEN Fail(broker) /\ UNCHANGED rootVars
       ELSE boot' = [boot EXCEPT !.check = id] /\ StartCheck(id)
    /\ UNCHANGED <<poolVars, told, model, down, ipc, endVars>>

(* The turn is cancelled, or 130 seconds have passed: the proxy rejects the *)
(* call and forgets it, and the cancellation goes down the same way.       *)
CancelCheck ==
    /\ PiUp /\ pi.check # 0
    /\ pi' = [pi EXCEPT !.check = 0]
    /\ IF boot.check # pi.check THEN StopBoot /\ UNCHANGED broker
       ELSE IF Deaf THEN UNCHANGED <<boot, broker>>
       ELSE IF broker.check # pi.check THEN Fail(broker)
       ELSE broker' = [broker EXCEPT !.aborted = TRUE] /\ UNCHANGED boot
    /\ UNCHANGED <<poolVars, told, model, down, ipc, rootVars, endVars>>

(* Probes of one task are asked one after the other.                       *)
AskProbe(f, route) ==
    LET id == pi.probes + 1 IN
    /\ PiUp /\ pi.probe = 0 /\ id + pi.checks <= MaxCalls
    /\ pi' = [pi EXCEPT !.probes = id, !.probe = id]
    /\ IF boot.check # 0 \/ boot.probe # 0
       THEN StopBoot /\ UNCHANGED <<broker, poolVars>>
       ELSE IF Deaf THEN boot' = [boot EXCEPT !.probe = id] /\ UNCHANGED <<broker, poolVars>>
       ELSE IF broker.check # 0 \/ broker.probe # 0 THEN Fail(broker) /\ UNCHANGED poolVars
       ELSE /\ boot' = [boot EXCEPT !.probe = id]
            /\ broker' = [broker EXCEPT !.probe = id]
            /\ Begin(f, route)
    /\ UNCHANGED <<told, model, down, ipc, rootVars, endVars>>

AbortRun == /\ run' = [run EXCEPT !.aborted = @ \/ run.state \notin {"idle", "done"}]
            /\ UNCHANGED <<content, key, server, leaving, unclean, draining, pool>>

(* A cancelled probe is still waited for; one that took 70 seconds is not. *)
CancelProbe(givesUp) ==
    /\ PiUp /\ pi.probe # 0
    /\ pi' = [pi EXCEPT !.probe = IF givesUp THEN 0 ELSE @]
    /\ IF boot.probe # pi.probe THEN StopBoot /\ UNCHANGED poolVars
       ELSE /\ UNCHANGED boot
            /\ IF Deaf \/ broker.probe # pi.probe THEN UNCHANGED poolVars ELSE AbortRun
    /\ UNCHANGED <<broker, told, model, down, ipc, rootVars, endVars>>

(* The bootstrap passes an answer to the call it has pending.              *)
Relay ==
    /\ down # <<>>
    /\ down' = Tail(down)
    /\ LET m == Head(down) IN
         IF boot.ended THEN UNCHANGED <<boot, ipc>>
         ELSE IF boot[m.kind] # m.id THEN StopBoot /\ UNCHANGED ipc
         ELSE boot' = [boot EXCEPT ![m.kind] = 0] /\ ipc' = Append(ipc, m)
    /\ UNCHANGED <<poolVars, pi, told, model, broker, rootVars, endVars>>

Receive ==
    /\ model = "up" /\ ipc # <<>>
    /\ ipc' = Tail(ipc)
    /\ LET m == Head(ipc) IN
         IF pi[m.kind] # m.id THEN UNCHANGED <<pi, told>>
         ELSE /\ pi' = [pi EXCEPT ![m.kind] = 0]
              /\ told' = IF m.kind = "check" THEN told \union {[id |-> m.id, ok |-> m.ok]} ELSE told
    /\ UNCHANGED <<poolVars, boot, model, down, broker, rootVars, endVars>>

Send(kind, id, ok) ==
    down' = IF model = "up" THEN Append(down, [kind |-> kind, id |-> id, ok |-> ok]) ELSE down

ProbeDone ==
    /\ broker.state # "gone" /\ run.state = "done"
    /\ run' = IdleRun
    /\ broker' = [broker EXCEPT !.probe = 0]
    /\ IF broker.probesClosed THEN UNCHANGED down ELSE Send("probe", broker.probe, run.ok)
    /\ UNCHANGED <<content, key, server, leaving, unclean, draining, pool, pi, told, boot, model, ipc,
                   rootVars, endVars>>

-----------------------------------------------------------------------------
(* The host's createReceiptCollector().  The output is read in order and a *)
(* host that hangs up reads nothing more, so a frame is taken when written.*)

TakeCall(r) ==
    IF host.terminal \/ r.id # Len(host.receipts) + 1 THEN [host EXCEPT !.failed = TRUE]
    ELSE [host EXCEPT !.receipts = Append(@, r), !.failed = ~r.clean]

TakeTerminal(t) ==
    IF host.terminal \/ t.attempts # Len(host.receipts) \/ t.chain # host.receipts
    THEN [host EXCEPT !.failed = TRUE]
    ELSE [host EXCEPT !.terminal = TRUE, !.failed = ~t.clean \/ t.code # "clean"]

Feed(taken) == host' = IF host.failed THEN host ELSE taken

-----------------------------------------------------------------------------
(* The rest of runRootCheck().                                             *)

RootStep(step, fault) == root' = [root EXCEPT !.step = step, !.fault = @ \/ fault]
rootOnly == <<poolVars, toolVars, endVars>>

(* Mount, snapshot of the workspace, cache; the last thing looked at before *)
(* the command starts is the cancellation.                                 *)
Copy ==
    /\ root.step = "copying" /\ broker.state # "gone"
    /\ \/ RootStep("cleaning", TRUE)
       \/ ~broker.aborted /\ RootStep("running", FALSE)
    /\ UNCHANGED <<rootOnly, broker, tally, groups>>

(* The command ends, or its group is killed: cancelled, 120 seconds, output.*)
CommandEnds ==
    /\ root.step = "running" /\ broker.state # "gone"
    /\ \E fault \in BOOLEAN : (broker.aborted => fault) /\ RootStep("cleaning", fault)
    /\ UNCHANGED <<rootOnly, broker, tally, groups>>

CleanUp ==
    /\ root.step = "cleaning" /\ broker.state # "gone"
    /\ \E removed, unmounted \in BOOLEAN :
         /\ removed \/ broker.check \in groups
         /\ groups' = IF removed THEN groups \ {broker.check} ELSE groups
         /\ root' = [root EXCEPT !.step = "signing", !.clean = removed /\ unmounted]
    /\ UNCHANGED <<rootOnly, broker, tally>>

Receipt == [id |-> broker.check, ok |-> ~root.fault /\ root.clean, clean |-> root.clean]

Sign ==
    /\ root.step = "signing" /\ broker.state # "gone"
    /\ Feed(TakeCall(Receipt))
    /\ root' = [root EXCEPT !.step = "recording"]
    /\ UNCHANGED <<poolVars, toolVars, broker, tally, groups, job>>

(* The tally takes the receipt, the answer goes back, and a check that left *)
(* something behind ends the task.                                         *)
Record ==
    /\ root.step = "recording" /\ broker.state # "gone"
    /\ tally' = [tally EXCEPT !.chain = Append(@, Receipt), !.clean = @ /\ root.clean]
    /\ root' = [step |-> "none", fault |-> FALSE, clean |-> TRUE]
    /\ IF broker.closed THEN UNCHANGED down ELSE Send("check", broker.check, Receipt.ok)
    /\ LET b == [broker EXCEPT !.check = 0]
       IN IF root.clean THEN broker' = b /\ UNCHANGED boot ELSE Fail(b)
    /\ UNCHANGED <<poolVars, pi, told, model, ipc, groups, endVars>>

-----------------------------------------------------------------------------
(* The end of the model, of the broker, of the job.                        *)

ToolsGone ==
    /\ pi' = [pi EXCEPT !.check = 0, !.probe = 0]
    /\ boot' = [check |-> 0, probe |-> 0, ended |-> TRUE]
    /\ down' = <<>> /\ ipc' = <<>>

ModelEnds ==
    /\ model = "up"
    /\ \/ model' = "failed"
       \/ ~boot.ended /\ pi.check = 0 /\ pi.probe = 0 /\ model' = "clean"
    /\ ToolsGone
    /\ UNCHANGED <<poolVars, told, broker, rootVars, endVars>>

(* frames.close(): no more calls, the check in progress is cancelled...    *)
CloseChecks ==
    /\ model # "up" /\ broker.state = "up"
    /\ broker' = [broker EXCEPT !.state = "checks", !.closed = TRUE, !.aborted = TRUE]
    /\ UNCHANGED <<poolVars, toolVars, rootVars, endVars>>

(* ... and awaited; then the probe in progress is cancelled...             *)
\* Mutant: the check in progress is cancelled and not waited for.
CheckForgotten == TRUE

CheckOver == broker.check = 0
CloseProbes ==
    /\ broker.state = "checks" /\ CheckOver
    /\ broker' = [broker EXCEPT !.state = "probes", !.probesClosed = TRUE]
    /\ AbortRun
    /\ UNCHANGED <<toolVars, rootVars, endVars>>

(* ... and awaited; then the pool gives up its servers...                  *)
ClosePool ==
    /\ broker.state = "probes" /\ broker.probe = 0
    /\ broker' = [broker EXCEPT !.state = "pool"]
    /\ pool' = [pool EXCEPT !.closed = TRUE]
    /\ CloseAll
    /\ UNCHANGED <<content, unclean, run, toolVars, rootVars, endVars>>

(* ... and the broker ends with the code of the model, or with 2.          *)
BrokerEnds ==
    /\ broker.state = "pool" /\ ~draining
    /\ broker' = [broker EXCEPT !.state = "gone",
                   !.code = IF broker.failed \/ pool.broken THEN "failed" ELSE model]
    /\ UNCHANGED <<poolVars, toolVars, rootVars, endVars>>

(* Killed with everything in its group; a check's own group stays.         *)
BrokerKilled ==
    /\ broker' = [broker EXCEPT !.state = "gone", !.code = "failed", !.check = 0, !.probe = 0]
    /\ model' = IF model = "up" THEN "failed" ELSE model
    /\ ToolsGone
    /\ server' = [s \in Slots |-> NoServer] /\ leaving' = {} /\ unclean' = {} /\ draining' = FALSE
    /\ run' = IdleRun /\ key' = NoKey
    /\ root' = [step |-> "none", fault |-> FALSE, clean |-> TRUE]
    /\ UNCHANGED <<content, pool, told, tally>>

BrokerDies ==
    /\ broker.state # "gone"
    /\ BrokerKilled
    /\ UNCHANGED <<groups, endVars>>

(* cleanup_current_job() of the shell: export the tally, ...               *)
Export ==
    /\ job.state = "running" /\ broker.state = "gone"
    /\ \E code \in {broker.code, "failed"} :        \* the patch may be refused after the broker
         job' = [job EXCEPT !.state = "exported", !.code = code,
                   !.tally = [attempts |-> tally.attempts, chain |-> tally.chain,
                              clean |-> tally.clean /\ Len(tally.chain) = tally.attempts, code |-> code]]
    /\ UNCHANGED <<poolVars, toolVars, broker, rootVars, host>>

(* ... remove the job, ...                                                 *)
CleanJob ==
    /\ job.state = "exported"
    /\ \E clean \in BOOLEAN :
         /\ job' = [job EXCEPT !.state = "cleaned", !.clean = clean]
         /\ groups' = IF clean THEN {} ELSE groups
    /\ UNCHANGED <<poolVars, toolVars, broker, root, tally, host>>

(* ... and sign the terminal record, unless the node that does is missing. *)
EmitTerminal ==
    /\ job.state = "cleaned"
    /\ job' = [job EXCEPT !.state = "over"]
    /\ \/ UNCHANGED host
       \/ Feed(TakeTerminal([job.tally EXCEPT !.clean = @ /\ job.clean]))
    /\ UNCHANGED <<poolVars, toolVars, broker, rootVars>>

-----------------------------------------------------------------------------
(* The host's finish().                                                    *)

\* Mutant: what was received is accepted without the terminal record.
IsEvidenceSoFar == ~host.failed

IsEvidence == host.terminal /\ ~host.failed

(* The job is over, or the host hangs up (timeout, cancellation, an output *)
(* limit, wsl.exe died): the rest of the output is lost, and whatever still *)
(* runs is killed from outside.                                            *)
Finish ==
    /\ host.state = "open"
    /\ host' = [host EXCEPT !.state = "done", !.ok = IsEvidence]
    /\ job' = [job EXCEPT !.state = "over"]
    /\ IF broker.state = "gone" THEN UNCHANGED <<poolVars, toolVars, broker, root, tally>> ELSE BrokerKilled
    /\ groups' \in {groups, {}}

PoolStep ==
    /\ broker.state # "gone"
    /\ PoolNext \/ (model = "up" /\ \E f \in Files : Edit(f))
    /\ UNCHANGED <<toolVars, broker, rootVars, endVars>>

ChannelNext ==
    \/ AskCheck \/ CancelCheck
    \/ \E f \in Files, r \in Routes : AskProbe(f, r)
    \/ \E g \in BOOLEAN : CancelProbe(g)
    \/ Relay \/ Receive \/ ProbeDone \/ PoolStep
    \/ Copy \/ CommandEnds \/ CleanUp \/ Sign \/ Record
    \/ ModelEnds \/ CloseChecks \/ CloseProbes \/ ClosePool \/ BrokerEnds \/ BrokerDies
    \/ Export \/ CleanJob \/ EmitTerminal \/ Finish

ChannelSpec == ChannelInit /\ [][ChannelNext]_chanVars

-----------------------------------------------------------------------------
(* What the host accepts as evidence is every check that was attempted, in  *)
(* the order of the attempts, each cleaned up, and every result the model   *)
(* was given among them: no kill, hang-up or lost frame leaves evidence     *)
(* that a check the model saw fail is missing from.                        *)
EvidenceIsWhole ==
    host.ok =>
      /\ tally.attempts = Len(host.receipts)
      /\ \A i \in 1..Len(host.receipts) : host.receipts[i].id = i /\ host.receipts[i].clean
      /\ \A t \in told : \E i \in 1..Len(host.receipts) :
           host.receipts[i].id = t.id /\ host.receipts[i].ok = t.ok

(* A broker that reports the model's success has left nothing running: no   *)
(* check and no group of one, no probe, no language server, whatever was in *)
(* progress when the model ended.                                          *)
SuccessLeavesNothing ==
    broker.code = "clean" =>
      /\ root.step = "none" /\ groups = {}
      /\ run.state = "idle" /\ leaving = {} /\ Live = {}
=============================================================================
