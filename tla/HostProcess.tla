----------------------------- MODULE HostProcess -----------------------------
(***************************************************************************)
(* scripts/headless-host.mjs, runProcess(): a command-line program the host *)
(* starts on Windows and must be rid of.  In a "job" a launcher owns the    *)
(* program and its descendants, which end with it; a "native" program is    *)
(* killed by taskkill, which walks the tree; nothing is said here of those   *)
(* it misses.  Output is left out but for its limit, and what handlers of   *)
(* progress do but for throwing.  A program that is created but not yet in  *)
(* its job does not run, so it counts as not started.                       *)
(***************************************************************************)
EXTENDS Naturals, Sequences

VARIABLES
    child,   \* the process of the call under way and the result of that call
    astray   \* the program of an earlier call runs on

pvars == <<child, astray>>

\* root: the program runs; killer: taskkill runs; why: the failure so far, or "none".
NoChild == [state |-> "none", what |-> "none", mode |-> "job", root |-> FALSE, killer |-> FALSE, why |-> "none", code |-> 0]

Result(why) == [NoChild EXCEPT !.state = "settled", !.why = why]

\* What a call can find when it comes back from spawn().
Spawned(what, mode) ==
    {[Result("spawn_failed") EXCEPT !.what = what],
     [NoChild EXCEPT !.state = "running", !.what = what, !.mode = mode, !.root = TRUE]}

\* The result of the call before has been read.  A call with a signal that has
\* fired starts nothing.
Launch(what, mode, aborted) ==
    /\ child.state # "running"
    /\ child' \in IF aborted THEN {[Result("cancelled") EXCEPT !.what = what]} ELSE Spawned(what, mode)
    /\ astray' = (astray \/ child.root)

\* The caller has read the result.
Taken == child' = NoChild /\ astray' = (astray \/ child.root)

\* The program ends by itself, its job with it.
Exits(code) ==
    /\ child.root
    /\ child' = [child EXCEPT !.root = FALSE, !.code = code] /\ UNCHANGED astray

\* Nobody holds the pipes any more.
Close == /\ child.state = "running" /\ ~child.root
         /\ child' = [child EXCEPT !.state = "settled"] /\ UNCHANGED astray

\* Only the first reason counts.
Stop(why) ==
    /\ child.state = "running" /\ child.why = "none"
    /\ child' = IF child.mode = "job"
                THEN [child EXCEPT !.why = why, !.root = FALSE, !.code = 1]
                ELSE [child EXCEPT !.why = why, !.killer = TRUE]
    /\ UNCHANGED astray

\* taskkill has ended the program, or it fails and the program alone is killed; the
\* call may have been over by then.
KillerEnds ==
    /\ child.killer
    /\ \/ child' = [child EXCEPT !.killer = FALSE, !.root = FALSE, !.code = 1]
       \/ /\ child.state = "running"
          /\ child' = [child EXCEPT !.killer = FALSE, !.root = FALSE, !.why = "cleanup_unverified", !.code = 1]
       \/ child.state = "settled" /\ child' = [child EXCEPT !.killer = FALSE]
    /\ UNCHANGED astray

\* Mutant: the call gives up on a process with the reason for which it stopped it.
KillTimerSilent ==
    /\ child.state = "running" /\ child.why # "none"
    /\ \E gone \in BOOLEAN: child' = [child EXCEPT !.state = "settled", !.root = @ /\ ~gone]
    /\ UNCHANGED astray

\* Three seconds after it was stopped the call gives up on the process.
KillTimer ==
    /\ child.state = "running" /\ child.why # "none"
    /\ \E gone \in BOOLEAN: child' = [child EXCEPT !.state = "settled", !.root = @ /\ ~gone,
                                                   !.why = "cleanup_unverified"]
    /\ UNCHANGED astray

ProcessNext ==
    \/ Close \/ KillerEnds \/ KillTimer
    \/ \E code \in 0..1: Exits(code)
    \/ \E why \in {"timeout", "output_limit"}: Stop(why)

\* Whoever is not told that the cleanup is unverified has nothing left running,
\* whatever the order in which the program ends, is killed and closes its pipes.
Accounted == child.state = "settled" /\ child.why # "cleanup_unverified" => ~child.root
==============================================================================
