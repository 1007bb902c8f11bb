---------------------------- MODULE GatewayStart ----------------------------
(***************************************************************************)
(* scripts/start-gateway.mjs: a person starts a gateway.  A launcher checks *)
(* the port, spawns the gateway, waits until it is ready, and kills it when *)
(* that takes too long.  On Windows the launcher is itself run by a wrapper *)
(* (isolatedWindowsStart), which may end before it has an answer.           *)
(*                                                                          *)
(* Settings, tokens and output files are left out, but not that writing the *)
(* record may fail.                                                         *)
(***************************************************************************)
EXTENDS GatewayLifecycle

VARIABLE
    starter     \* [at: where the launcher is, of: instance it spawned or 0,
                \*  record: status in the file and, with it, the pid, told: what its caller was told]

Idler == [at |-> "idle", of |-> 0, record |-> "none", told |-> "none"]

Own == phase # "gone" /\ instance = starter.of

Over(record, told) == starter' = [starter EXCEPT !.at = "over", !.record = record, !.told = told]

\* unusedPort() and the record that comes before the process.
StartAsked ==
    /\ starter.at = "idle"
    /\ IF phase # "gone" THEN Over("none", "failed")
       ELSE starter' = [starter EXCEPT !.at = "launching", !.record = "starting"]
    /\ UNCHANGED gvars

\* spawn(): beside another gateway the process ends at once.
Launched ==
    /\ starter.at = "launching"
    /\ IF phase # "gone" THEN starter' = [starter EXCEPT !.at = "spawned"] /\ UNCHANGED gvars
       ELSE Boot /\ starter' = [starter EXCEPT !.at = "spawned", !.of = instance + 1]

\* The pid is on disk before anybody waits.
PidSaved == starter.at = "spawned" /\ starter' = [starter EXCEPT !.at = "waiting", !.record = "pid"] /\ UNCHANGED gvars

\* Who answers is the process just spawned, and it accepts calls.
SeenReady ==
    /\ starter.at = "waiting" /\ Own /\ phase = "running"
    /\ Over("ready", "ready") /\ UNCHANGED gvars

\* Mutant: a process that is not ready in time is left to itself.
StartFailsIdly ==
    /\ starter.at \in {"launching", "spawned", "waiting"}
    /\ Over("failed", "failed") /\ UNCHANGED gvars

\* The process has ended, another one or a paused one answers, nobody answers in
\* time, or a record cannot be written: the process is killed if there is one.
StartFails ==
    /\ starter.at \in {"launching", "spawned", "waiting"}
    /\ IF Own THEN starter' = [starter EXCEPT !.at = "killing"] ELSE Over("failed", "failed")
    /\ UNCHANGED gvars

\* Its exit is seen within five seconds, or it is not and comes later.
Reaped ==
    \/ /\ starter.at = "killing"
       /\ IF Own THEN Gone ELSE UNCHANGED gvars
       /\ Over("failed", "failed")
    \/ /\ starter.at = "killing" /\ Own
       /\ starter' = [starter EXCEPT !.at = "unreaped", !.record = "failed", !.told = "unknown"] /\ UNCHANGED gvars
    \/ /\ starter.at = "unreaped" /\ Own /\ Gone
       /\ UNCHANGED starter

\* The launcher dies or exceeds the time of its wrapper, which does not know more
\* and says so; the record stays as it is.
StarterLost ==
    /\ starter.at \in {"launching", "spawned", "waiting", "killing"}
    /\ starter' = [starter EXCEPT !.at = IF @ = "killing" THEN "unreaped" ELSE "over", !.told = "unknown"]
    /\ UNCHANGED gvars

StartNext == PidSaved \/ SeenReady \/ StartFails \/ Reaped \/ StarterLost

(******************************** properties *******************************)

\* Whoever is told that a start has failed has no gateway of that start left,
\* although it may become ready, be paused or be asked to stop while its launcher
\* gives up; and a start nobody knows the end of has left a record.
StartsToldTrue ==
    /\ starter.told = "failed" => ~Own
    /\ starter.told = "unknown" => starter.record # "none"
==============================================================================
