----------------------------- MODULE SandboxJob -----------------------------
(***************************************************************************)
(* scripts/wsl-sandbox.mjs and sandbox/pi-kether-sandbox: one task that may  *)
(* write, in its sandbox.  The gateway starts wsl.exe, whose launcher there  *)
(* makes the directory of the job with a lease, runs the model, compares and *)
(* emits the patch, and removes the directory.  The gateway stops wsl.exe    *)
(* after a time limit or a cancellation and cleans up once more; and every   *)
(* gateway that starts scans for jobs whose owner is dead or whose lease has  *)
(* expired, and cleans those.                                                *)
(*                                                                           *)
(* What happens to a launcher whose wsl.exe was killed is up to the system.   *)
(* Time is counted in ticks.  Mounts, limits, the contents of files and the   *)
(* limits on output are left out, the latter but for stopping the task.       *)
(***************************************************************************)
EXTENDS Naturals

CONSTANTS
    Timeout,      \* ticks the model may run
    HostSlack,    \* what the gateway waits for beyond that (15 s in the code)
    LeaseSlack,   \* by how much the lease is longer (90 s)
    Young,        \* age below which a job without lease is left alone (120 s)
    Horizon       \* end of time: everything is old and expired

ASSUME TimeAssumption ==
    /\ {Timeout, HostSlack, LeaseSlack, Young, Horizon} \subseteq Nat \ {0}
    /\ HostSlack < LeaseSlack /\ Timeout + HostSlack < Horizon /\ Young > 1

VARIABLES
    gateway,   \* [at, killing: stop() was called, client: wsl.exe runs, why: failure or "none",
               \*  got: patch received, code]
    launcher,  \* [at, status: what the model ended with, patch: what the comparison found]
    jobDir,    \* [dir: "none", "bare" or "leased", made: tick, until: end of the lease,
               \*  torn: somebody else cleaned up under a launcher at work]
    cleaner,   \* --cleanup of the gateway: "none", "tearing", "done" or "failed"
    scan,      \* scan of another gateway: "none", "chosen" or "tearing"
    clock

jvars == <<gateway, launcher, jobDir, cleaner, scan, clock>>

JobInit ==
    /\ gateway = [at |-> "idle", killing |-> FALSE, client |-> FALSE, why |-> "none", got |-> "none", code |-> 1]
    /\ launcher = [at |-> "none", status |-> 0, patch |-> "none"]
    /\ jobDir = [dir |-> "none", made |-> 0, until |-> 0, torn |-> FALSE]
    /\ cleaner = "none" /\ scan = "none" /\ clock = 0

AtWork == launcher.at \notin {"none", "trap", "gone"}
Deadline == Timeout + HostSlack

\* Time passes for everybody, not beyond what the gateway has timed, nor while a
\* launcher only has to write its lease.
Tick ==
    /\ gateway.at # "idle" /\ clock < Horizon /\ clock' = clock + 1
    /\ gateway.at = "running" /\ ~gateway.killing => clock < Deadline
    /\ launcher.at = "bare" => clock + 1 < jobDir.made + Young
    /\ launcher.at = "model" => clock < Horizon - 1
    /\ UNCHANGED <<gateway, launcher, jobDir, cleaner, scan>>

(********************************* launcher ********************************)

Step(at) == launcher' = [launcher EXCEPT !.at = at]

MakeDir ==
    /\ launcher.at = "begin" /\ Step("bare")
    /\ jobDir' = [jobDir EXCEPT !.dir = "bare", !.made = clock]
    /\ UNCHANGED <<gateway, cleaner, scan, clock>>

WriteLease ==
    /\ launcher.at = "bare"
    /\ IF jobDir.dir = "none" THEN Step("trap") /\ UNCHANGED jobDir
       ELSE Step("leased") /\ jobDir' = [jobDir EXCEPT !.dir = "leased", !.until = clock + Timeout + LeaseSlack]
    /\ UNCHANGED <<gateway, cleaner, scan, clock>>

\* Group, folders, snapshot and credentials; folders that are gone are made again,
\* without a lease.
Prepare ==
    /\ launcher.at = "leased" /\ Step("model")
    /\ jobDir' = IF jobDir.dir = "none" THEN [jobDir EXCEPT !.dir = "bare", !.made = clock] ELSE jobDir
    /\ UNCHANGED <<gateway, cleaner, scan, clock>>

\* The model ends, is ended by timeout(1) or with its folders.
ModelOver ==
    /\ launcher.at = "model"
    /\ \E status \in IF jobDir.torn \/ jobDir.dir = "none" THEN {1} ELSE 0..1:
         launcher' = [launcher EXCEPT !.at = "compare", !.status = status]
    /\ UNCHANGED <<gateway, jobDir, cleaner, scan, clock>>

\* verify and diff read both trees; half of them may be gone by now.
Compare ==
    /\ launcher.at = "compare" /\ jobDir.dir # "none"
    /\ launcher' = [launcher EXCEPT !.at = "emit", !.patch = IF jobDir.torn THEN "torn" ELSE "whole"]
    /\ UNCHANGED <<gateway, jobDir, cleaner, scan, clock>>

\* The gateway has all of it, or part of it if wsl.exe is killed meanwhile.
Emit ==
    /\ launcher.at = "emit" /\ Step("trap")
    /\ gateway' = [gateway EXCEPT !.got = IF gateway.client THEN launcher.patch ELSE "part"]
    /\ UNCHANGED <<jobDir, cleaner, scan, clock>>

\* Any step may fail, and an exit of its own runs the trap.
Fails ==
    /\ launcher.at \in {"begin", "bare", "leased", "compare", "emit"}
    /\ launcher' = [launcher EXCEPT !.at = "trap", !.status = 1]
    /\ UNCHANGED <<gateway, jobDir, cleaner, scan, clock>>

\* cleanup_current_job: the job is removed, or the exit code says that it is not.
Trap ==
    /\ launcher.at = "trap"
    /\ \/ jobDir' = [jobDir EXCEPT !.dir = "none"] /\ Step("gone")
       \/ UNCHANGED jobDir /\ launcher' = [launcher EXCEPT !.at = "gone", !.status = 1]
    /\ UNCHANGED <<gateway, cleaner, scan, clock>>

(********************************* gateway *********************************)

\* The role, the budget of time, the credentials and the checks of the host come
\* first; any of them may end the task before it has a job.
Refused ==
    /\ gateway.at = "idle" /\ gateway' = [gateway EXCEPT !.at = "done", !.why = "not-started"]
    /\ UNCHANGED <<launcher, jobDir, cleaner, scan, clock>>

Started ==
    /\ gateway.at = "idle" /\ gateway' = [gateway EXCEPT !.at = "running", !.client = TRUE] /\ Step("begin")
    /\ UNCHANGED <<jobDir, cleaner, scan, clock>>

SpawnFails ==
    /\ gateway.at = "idle" /\ gateway' = [gateway EXCEPT !.at = "cleaning", !.why = "spawn"]
    /\ UNCHANGED <<launcher, jobDir, cleaner, scan, clock>>

Halt(why) == gateway' = [gateway EXCEPT !.killing = TRUE, !.why = why]

StopTask ==
    /\ gateway.at = "running" /\ ~gateway.killing
    /\ Halt("cancelled") \/ (clock >= Deadline /\ Halt("timeout"))
    /\ UNCHANGED <<launcher, jobDir, cleaner, scan, clock>>

\* One of the counters of output has reached its limit.
OutputLimit ==
    /\ gateway.at = "running" /\ ~gateway.killing /\ gateway.client /\ Halt("output-limit")
    /\ UNCHANGED <<launcher, jobDir, cleaner, scan, clock>>

\* taskkill ends wsl.exe; the launcher is killed, told to exit, or goes on.
ClientKilled ==
    /\ gateway.killing /\ gateway.client
    /\ gateway' = [gateway EXCEPT !.client = FALSE]
    /\ launcher' \in {launcher, [launcher EXCEPT !.at = "gone"]}
                       \cup (IF AtWork THEN {[launcher EXCEPT !.at = "trap", !.status = 1]} ELSE {})
    /\ UNCHANGED <<jobDir, cleaner, scan, clock>>

\* wsl.exe has ended, with its launcher or before it.
Closed ==
    /\ gateway.at = "running" /\ (launcher.at = "gone" \/ ~gateway.client)
    /\ gateway' = [gateway EXCEPT !.at = "cleaning", !.client = FALSE,
                                  !.code = IF gateway.client THEN launcher.status ELSE 1]
    /\ UNCHANGED <<launcher, jobDir, cleaner, scan, clock>>

\* cleanup_job, by whoever runs it: processes are killed and files removed first.
Tear == jobDir' = [jobDir EXCEPT !.torn = @ \/ (AtWork /\ jobDir.dir # "none")]

\* The directory is removed, or something in it resists.
Torn(ok) == jobDir' = IF ok THEN [jobDir EXCEPT !.dir = "none"] ELSE jobDir

CleanupAsked ==
    /\ gateway.at = "cleaning" /\ cleaner = "none" /\ cleaner' = "tearing" /\ Tear
    /\ UNCHANGED <<gateway, launcher, scan, clock>>

CleanupEnds ==
    /\ cleaner = "tearing"
    /\ \E ok \in BOOLEAN: Torn(ok) /\ cleaner' = IF ok THEN "done" ELSE "failed"
    /\ UNCHANGED <<gateway, launcher, scan, clock>>

\* A patch without its end, or whose digest or files do not agree, is none.
Unusable == gateway.got = "part"

Why(ok) == IF gateway.why # "none" THEN gateway.why ELSE IF ~ok THEN "cleanup" ELSE IF Unusable THEN "bytes" ELSE "none"

\* The result, after the cleanup or after waiting 15 s for it.
Finished ==
    /\ gateway.at = "cleaning" /\ cleaner # "none"
    /\ gateway' = [gateway EXCEPT !.at = "done", !.why = Why(cleaner = "done")]
    /\ UNCHANGED <<launcher, jobDir, cleaner, scan, clock>>

(***************************** another gateway *****************************)

Expired == clock >= jobDir.until \/ clock = Horizon
Aged == clock >= jobDir.made + Young \/ clock = Horizon

\* Mutant: a job is left alone only while it is young.
LeftAloneYoung(alive) == ~Aged

\* A lease counts while the process it names is alive, or another with its number.
LeftAlone(alive) == IF jobDir.dir = "leased" THEN alive /\ ~Expired ELSE ~Aged

\* --cleanup-orphans finds the job and looks at its lease.
ScanLooks ==
    /\ scan = "none" /\ jobDir.dir # "none"
    /\ \E reused \in BOOLEAN: ~LeftAlone(launcher.at # "gone" \/ reused)
    /\ scan' = "chosen" /\ UNCHANGED <<gateway, launcher, jobDir, cleaner, clock>>

ScanTears == scan = "chosen" /\ scan' = "tearing" /\ Tear /\ UNCHANGED <<gateway, launcher, cleaner, clock>>

\* A scan that did not clean everything keeps its gateway from running tasks.
ScanEnds ==
    /\ scan = "tearing" /\ scan' = "none" /\ (\E ok \in BOOLEAN: Torn(ok))
    /\ UNCHANGED <<gateway, launcher, cleaner, clock>>

JobNext ==
    \/ Tick \/ MakeDir \/ WriteLease \/ Prepare \/ ModelOver \/ Compare \/ Emit \/ Fails \/ Trap
    \/ Refused \/ Started \/ SpawnFails \/ StopTask \/ OutputLimit \/ ClientKilled
    \/ Closed \/ CleanupAsked \/ CleanupEnds \/ Finished
    \/ ScanLooks \/ ScanTears \/ ScanEnds

(******************************** properties *******************************)

\* No scan cleans a job its gateway still waits for; so a patch that comes with
\* success is the whole difference, and not what is left of two trees that are being
\* removed; and success leaves no directory.
JobsKept ==
    /\ jobDir.torn => gateway.killing \/ gateway.at \in {"cleaning", "done"}
    /\ gateway.at = "done" /\ gateway.why = "none" /\ gateway.code = 0
         => gateway.got = "whole" /\ jobDir.dir = "none"
==============================================================================
