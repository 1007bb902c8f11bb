---------------------------- MODULE HostProcesses ----------------------------
(* What a host starts or opens and must be rid of: calls of a batch or a session, *)
(* a review by the command-line client, a task in its sandbox, or the modules of  *)
(* a gateway; and the patch that a task leaves.                                   *)
EXTENDS HeadlessHost, ReviewerCli, SandboxJob, ModuleLifecycle, ArtifactPatch

vars == <<hvars, rvars, jvars, mvars, pvars, patchVars>>

Init ==
    /\ \/ kind \in {"batch", "session", "review", "task", "modules"} /\ patch = <<>> /\ stated = TRUE
       \/ kind = "patch" /\ PatchInit
    /\ child = NoChild /\ astray = FALSE
    /\ HeadlessInit /\ ReviewInit /\ JobInit /\ ModulesInit

Next ==
    /\ UNCHANGED patchVars
    /\ \/ /\ kind \in {"batch", "session"} /\ HeadlessNext /\ UNCHANGED <<rvars, jvars, mvars>>
       \/ /\ kind = "review" /\ ReviewNext /\ UNCHANGED <<hvars, jvars, mvars>>
       \/ /\ kind \in {"batch", "session", "review"} /\ ProcessNext /\ UNCHANGED <<hvars, rvars, jvars, mvars>>
       \/ /\ kind = "task" /\ JobNext /\ UNCHANGED <<hvars, rvars, mvars, pvars>>
       \/ /\ kind = "modules" /\ ModulesNext /\ UNCHANGED <<hvars, rvars, jvars, pvars>>

Spec == Init /\ [][Next]_vars

\* What callers are told of processes, calls, reviews and tasks is so, in whatever
\* order these end, are stopped, killed and cleaned up.
ToldTrue == Accounted /\ HeadlessTold /\ ReviewTold /\ JobsKept

\* What is left in the end is in order: no module is closed under those that depend on
\* it or forgotten, and the patch a task leaves is the difference of its two trees.
LeftInOrder == ModulesCleaned /\ (kind = "patch" => PatchTold)
=============================================================================
