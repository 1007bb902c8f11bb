---------------------------- MODULE PluginUpgrade ----------------------------
(***************************************************************************)
(* applyUpgrade() of scripts/plugin-upgrade.mjs, driven by                  *)
(* scripts/upgrade-service.mjs against the gateway of GatewayLifecycle: a   *)
(* transaction that replaces the files of an installation, with its lock,   *)
(* its journal and its rollback.                                            *)
(*                                                                          *)
(* The plan is admissible (planUpgrade() refuses the others) and the backup *)
(* is good, so a file is what it was before, what it is to be, or something *)
(* else that a third party wrote.  Any request to the gateway may be        *)
(* carried out while its reply is lost.                                     *)
(***************************************************************************)
EXTENDS GatewayStart

CONSTANTS
    Files,      \* managed files the plan changes
    Plans       \* bounds: records [edits, kills, outside, again, calls, made]: edits by others,
                \* gateways that die, gateways somebody else starts, repetitions after an upgrade
                \* that was undone, responses open at a time, constructions in a process

ASSUME PlansAssumption ==
    Plans \subseteq [edits : Nat, kills : Nat, outside : Nat, again : Nat, calls : Nat, made : Nat]

VARIABLES
    plan,       \* what is left of the bounds
    file,       \* [Files -> before, after, other]
    marker,     \* .yhwh-managed-files.json: before or after
    lock,       \* .yhwh-upgrade.lock
    step,       \* where the upgrader is
    applied,    \* files whose change was journalled
    target,     \* pid of the gateway it acts on; 0 when that is not alive
    result, journal,
    code        \* of the running gateway: [own, files], what it was started from and whether
                \* by the installation or the upgrader

disk   == <<file, marker, applied>>
beside == <<plan, starter>>
uvars  == <<plan, disk, lock, step, target, result, journal, code>>
vars   == <<gvars, starter, uvars>>

Init ==
    /\ GInit /\ plan \in Plans /\ starter = Idler
    /\ file = [f \in Files |-> "before"] /\ marker = "before" /\ lock = FALSE
    /\ step = "ready" /\ applied = {} /\ target = 0
    /\ result = "none" /\ journal = "none" /\ code = [own |-> TRUE, files |-> file]

Alive == phase # "gone"

Go(s)        == step' = s /\ UNCHANGED <<result, lock, journal>>
Note(s, why) == step' = s /\ journal' = why /\ UNCHANGED <<result, lock>>

\* The upgrade ends and releases the lock.
Return(r, why) == step' = "over" /\ result' = r /\ journal' = why /\ lock' = FALSE

\* Mutant: the lock is released all the same.
StuckUnlocked == Return("recovery-required", "recovery-required")

\* The lock stays until an operator has read the journal.
Stuck == step' = "over" /\ result' = "recovery-required" /\ journal' = "recovery-required" /\ UNCHANGED lock

(******************** pausing and stopping the gateway **********************)

\* The lock; the plan against the files; the backup and the journal.
Begin ==
    /\ step = "ready" /\ ~lock
    /\ IF \A f \in Files : file[f] = "before"
       THEN lock' = TRUE /\ journal' = "prepared" /\ applied' = {} /\ step' = "pausing" /\ UNCHANGED result
       ELSE Return("blocked", journal) /\ UNCHANGED applied
    /\ UNCHANGED <<gvars, beside, file, marker, target, code>>

\* runtime.pause(): who answers is checked, and a pause of the wrong process
\* taken back.
PauseAnswered(right) ==
    /\ step = "pausing" /\ Pause
    /\ target' = IF right THEN instance ELSE target
    /\ Go(IF right THEN "stopping" ELSE "unpausing")
    /\ UNCHANGED <<beside, disk, code>>

\* The gateway is busy or away, or its answer is lost: then it stays paused.
PauseFails ==
    /\ step = "pausing"
    /\ Pause \/ (~(phase = "running" /\ Idle) /\ UNCHANGED gvars)
    /\ Return("blocked", journal)
    /\ UNCHANGED <<beside, disk, target, code>>

\* runtime.resume(), tried again where pause() itself has failed to.
TakeBack ==
    /\ step \in {"unpausing", "resuming"}
    /\ \/ Resume /\ Return("blocked", journal)
       \/ /\ Resume \/ (phase # "maintenance" /\ UNCHANGED gvars)
          /\ IF step = "unpausing" THEN Go("resuming") ELSE Stuck
    /\ UNCHANGED <<beside, disk, target, code>>

\* Mutant: a rollback goes on without its gateway being stopped.
StopFailsLightly ==
    IF step \in {"stopping", "stop-sent", "leaving"} THEN Go("resuming") ELSE Go("restoring")

\* stop() has failed: nothing was changed yet, or the rollback ends here.
StopFails == IF step \in {"stopping", "stop-sent", "leaving"} THEN Go("resuming") ELSE Stuck

First(s, t) == IF step \in {"stopping", "stop-sent", "leaving"} THEN s ELSE t

\* runtime.stop(): a live gateway that is still the same is paused, if it was
\* not, and told to stop.
StopAsked ==
    /\ step \in {"stopping", "restopping"}
    /\ IF ~(Alive /\ instance = target) THEN Go(First("leaving", "releaving")) /\ UNCHANGED gvars
       ELSE \/ /\ AdminStop \/ (phase = "running" /\ Idle /\ Ask("admin"))
               /\ Go(First("stop-sent", "restop-sent"))
            \/ StopFails /\ UNCHANGED gvars
    /\ UNCHANGED <<beside, disk, target, code>>

StopAnswered(ok) ==
    /\ step \in {"stop-sent", "restop-sent"} /\ "admin" \notin waiting
    /\ ok => phase \in {"gone", "disposed"} /\ instance = target
    /\ IF ok THEN Go(First("leaving", "releaving")) ELSE StopFails
    /\ UNCHANGED <<gvars, beside, disk, target, code>>

\* The process is gone and nobody answers on its port; or that takes too long.
Left(ok) ==
    /\ step \in {"leaving", "releaving"}
    /\ ok = ~Alive
    /\ IF ok THEN target' = 0 ELSE UNCHANGED target
    /\ IF ~ok THEN StopFails
       ELSE IF step = "releaving" THEN Go("restoring")
       ELSE IF \A f \in Files : file[f] = "before" THEN Note("applying", "applying") ELSE Go("restopping")
    /\ UNCHANGED <<gvars, beside, disk, code>>

(*************************** changing the files ****************************)

\* The intent is journalled before the file is touched.
Apply(f) ==
    /\ step = "applying" /\ f \notin applied
    /\ IF file[f] = "before"
       THEN applied' = applied \cup {f} /\ file' = [file EXCEPT ![f] = "after"] /\ UNCHANGED step
       ELSE step' = "restopping" /\ UNCHANGED <<applied, file>>
    /\ UNCHANGED <<gvars, beside, marker, lock, target, result, journal, code>>

Applied ==
    /\ step = "applying" /\ applied = Files
    /\ IF \A f \in Files : file[f] = "after"
       THEN marker' = "after" /\ Note("starting", "checking")
       ELSE Go("restopping") /\ UNCHANGED marker
    /\ UNCHANGED <<gvars, beside, file, applied, target, code>>

Restore(f) ==
    /\ step = "restoring" /\ f \in applied /\ file[f] # "before"
    /\ IF file[f] = "after" THEN file' = [file EXCEPT ![f] = "before"] /\ Go(step)
       ELSE Stuck /\ UNCHANGED file
    /\ UNCHANGED <<gvars, beside, marker, applied, target, code>>

Restored ==
    /\ step = "restoring" /\ \A f \in applied : file[f] = "before"
    /\ marker' = "before" /\ Go("restarting")
    /\ UNCHANGED <<gvars, beside, file, applied, target, code>>

(************************** starting a gateway *****************************)

\* runtime.start(); beside another gateway the new one ends at once.
Start ==
    /\ step \in {"starting", "restarting"}
    /\ IF Alive THEN target' = 0 /\ UNCHANGED <<gvars, code>>
       ELSE Boot /\ target' = instance + 1 /\ code' = [own |-> TRUE, files |-> file]
    /\ Go(IF step = "starting" THEN "health" ELSE "rehealth")
    /\ UNCHANGED <<beside, disk>>

\* runtime.health(): the process just started answers and is ready.
Healthy ==
    /\ step \in {"health", "rehealth"} /\ Alive /\ instance = target /\ phase = "running"
    /\ IF step = "health" THEN Return("completed", "completed") ELSE Return("rolled-back", "rolled-back")
    /\ UNCHANGED <<gvars, beside, disk, target, code>>

\* It does not in time, whether it is alive or not; or it could not be started.
Unhealthy ==
    /\ step \in {"starting", "health", "restarting", "rehealth"}
    /\ IF step \in {"starting", "health"} THEN Go("restopping") ELSE Stuck
    /\ UNCHANGED <<gvars, beside, disk, target, code>>

(***************************** what may happen *****************************)

\* The upgrader dies, possibly between the journal and the file.
Dies ==
    /\ step \notin {"ready", "over", "dead"} /\ step' = "dead"
    /\ applied' \in {applied} \cup (IF step = "applying" THEN {applied \cup {f} : f \in Files} ELSE {})
    /\ UNCHANGED <<gvars, beside, file, marker, lock, target, result, journal, code>>

Spend(what) == plan[what] > 0 /\ plan' = [plan EXCEPT ![what] = @ - 1]

\* Somebody changes a managed file.
Edit(f) ==
    /\ Spend("edits") /\ file' = [file EXCEPT ![f] = "other"]
    /\ UNCHANGED <<gvars, starter, marker, applied, lock, step, target, result, journal, code>>

\* Somebody starts the gateway; the lock of the upgrade is not asked for.
StartOutside ==
    \/ /\ Spend("outside") /\ StartAsked
       /\ UNCHANGED <<disk, lock, step, target, result, journal, code>>
    \/ /\ Launched
       /\ code' = IF instance' = instance THEN code ELSE [own |-> FALSE, files |-> file]
       /\ UNCHANGED <<plan, disk, lock, step, target, result, journal>>
    \/ StartNext /\ UNCHANGED uvars

\* The upgrade is tried again; where the lock has stayed, in vain.
Again ==
    /\ Spend("again") /\ step = "over" /\ result # "completed"
    /\ step' = "ready" /\ target' = 0 /\ result' = "none"
    /\ UNCHANGED <<gvars, starter, disk, lock, journal, code>>

Gateway == \/ /\ GNext /\ UNCHANGED <<starter, uvars>>
              /\ Cardinality(sessions') <= plan.calls /\ made' <= plan.made
           \/ Spend("kills") /\ Killed /\ UNCHANGED <<starter, disk, lock, step, target, result, journal, code>>

Next ==
    \/ Gateway \/ Begin \/ PauseFails \/ TakeBack \/ StopAsked \/ Applied \/ Restored
    \/ Start \/ Healthy \/ Unhealthy \/ Dies \/ StartOutside \/ Again
    \/ \E yes \in BOOLEAN : PauseAnswered(yes) \/ StopAnswered(yes) \/ Left(yes)
    \/ \E f \in Files : Apply(f) \/ Restore(f) \/ Edit(f)

Spec == Init /\ [][Next]_vars

(******************************** properties *******************************)

Old == marker = "before" /\ \A f \in Files : file[f] # "after"
New == marker = "after" /\ \A f \in Files : file[f] # "before"

\* Without the lock the installation is all old or all new, and the result says
\* which; with it, the journal names every file that was changed.  Whatever was
\* lost, edited, killed or repeated in between.
WholeUnlessLocked ==
    /\ ~lock => Old \/ New
    /\ step = "over" => CASE result \in {"blocked", "rolled-back"} -> Old
                          [] result = "completed" -> New
                          [] OTHER -> lock
    /\ lock => \A f \in Files : file[f] = "after" => f \in applied

\* Files change only while no gateway of this installation is alive, and a
\* gateway that the upgrade starts runs from an installation in one piece.
QuietFiles == [][
    /\ (\E f \in Files : file'[f] # file[f] /\ file'[f] # "other") => ~Alive \/ ~code.own
    /\ instance' # instance /\ code'.own => Old \/ New]_vars
==============================================================================
