------------------------------ MODULE ProbePool ------------------------------
(***************************************************************************)
(* The language servers a task keeps between its semantic probes           *)
(* (scripts/lsp-sandbox-broker.mjs).  createProbeSessions() owns at most   *)
(* two slots for a Python file and one for any other; every slot is a      *)
(* manager (createSingleProbeSession) with at most one server process, a   *)
(* read-only snapshot of one version of one file, and an idle timer.  The  *)
(* pool reads the file, drops its servers when file or content changed,    *)
(* and waits for them to go; the manager reads the file again, asks its    *)
(* server, and reads it a third time before it answers.                    *)
(*                                                                         *)
(* The task edits its workspace between any two of these reads.  A server  *)
(* is asked to leave ("asked", it has eight seconds), is killed ("killed") *)
(* or has already died ("dead"); only the first and the last can end       *)
(* without the acknowledgement the pool wants.                             *)
(***************************************************************************)
EXTENDS Naturals, FiniteSets

CONSTANTS
    Files,      \* files of the workspace a probe may name
    Python      \* those that get two slots

ASSUME PoolAssumption == Python \subseteq Files /\ "none" \notin Files

VARIABLES
    content,    \* [Files -> 0..1]: the version of each file in the workspace
    key,        \* the file and version the pool's slots are for
    server,     \* [Slots -> the manager's current server]
    leaving,    \* servers whose end a manager's `closing` promise waits for
    unclean,    \* slots whose manager saw an end without acknowledgement
    draining,   \* closeAll() has not settled yet
    pool,       \* [closed, broken]
    run         \* the probe in progress

poolVars == <<content, key, server, leaving, unclean, draining, pool, run>>

Slots == {"pyright", "jedi", "single"}
Routes == {"diagnostics", "symbols"}

NoKey == [file |-> "none", version |-> 0]
Now(f) == [file |-> f, version |-> content[f]]

NoServer == [state |-> "none", key |-> NoKey, timer |-> FALSE]
IdleRun == [state |-> "idle", slot |-> "single", wanted |-> NoKey,
            seen |-> NoKey, aborted |-> FALSE, ok |-> FALSE]

SlotOf(f, route) ==
    IF f \notin Python THEN "single"
    ELSE IF route = "diagnostics" THEN "pyright" ELSE "jedi"

PoolInit ==
    /\ content = [f \in Files |-> 0]
    /\ key = NoKey
    /\ server = [s \in Slots |-> NoServer]
    /\ leaving = {} /\ unclean = {} /\ draining = FALSE
    /\ pool = [closed |-> FALSE, broken |-> FALSE]
    /\ run = IdleRun

-----------------------------------------------------------------------------
(* Stopping servers.                                                       *)

(* transport.stop(force): what the manager of s starts to wait for.        *)
Stopped(s, force) ==
    IF server[s].state = "none" THEN {}
    ELSE {[slot |-> s, own |-> TRUE,
           how |-> IF server[s].state = "dead" THEN "dead"
                   ELSE IF force THEN "killed" ELSE "asked"]}

Dispose(s, force) ==
    /\ leaving' = leaving \union Stopped(s, force)
    /\ server' = [server EXCEPT ![s] = NoServer]

(* closeAll(): every manager is told to close, the slots are forgotten.    *)
CloseAll ==
    /\ leaving' = {[p EXCEPT !.own = FALSE] :
                     p \in leaving \union UNION {Stopped(s, FALSE) : s \in Slots}}
    /\ server' = [s \in Slots |-> NoServer]
    /\ key' = NoKey
    /\ draining' = TRUE

(* The child's 'close' event settles stop(), and the snapshot goes with it.*)
Acknowledged == [asked |-> BOOLEAN, killed |-> {TRUE}, dead |-> {FALSE}]

Gone(p) ==
    /\ p \in leaving
    /\ leaving' = leaving \ {p}
    /\ \E ack \in Acknowledged[p.how] :
         unclean' = IF ack THEN unclean ELSE unclean \union {p.slot}
    /\ UNCHANGED <<content, key, server, draining, pool, run>>

(* The promise of closeAll() settles when every manager's has.             *)
Drained ==
    /\ draining /\ leaving = {}
    /\ draining' = FALSE
    /\ pool' = [pool EXCEPT !.broken = @ \/ unclean # {}]
    /\ unclean' = {}
    /\ UNCHANGED <<content, key, server, leaving, run>>

IdleOut(s) ==
    /\ server[s].timer
    /\ Dispose(s, FALSE)
    /\ UNCHANGED <<content, key, unclean, draining, pool, run>>

Dies(s) ==
    /\ server[s].state = "live"
    /\ server' = [server EXCEPT ![s].state = "dead"]
    /\ UNCHANGED <<content, key, leaving, unclean, draining, pool, run>>

Edit(f) ==
    /\ content' = [content EXCEPT ![f] = 1 - @]
    /\ UNCHANGED <<key, server, leaving, unclean, draining, pool, run>>

-----------------------------------------------------------------------------
(* One probe: run() of the pool, then of the manager.                      *)

RunFails == run' = [run EXCEPT !.state = "failing"]
RunEnds(ok) == run' = [run EXCEPT !.state = "done", !.ok = ok]

(* The pool reads the file and gives up servers of anything else.          *)
Begin(f, route) ==
    /\ run.state = "idle"
    /\ IF pool.closed \/ pool.broken
       THEN run' = [IdleRun EXCEPT !.state = "done"] /\ UNCHANGED <<key, server, leaving, draining>>
       ELSE \E next \in {"draining", "failing"} :     \* the file may be unreadable
            /\ run' = [IdleRun EXCEPT !.state = next, !.slot = SlotOf(f, route), !.wanted = Now(f)]
            /\ IF next = "failing" \/ key \in {NoKey, Now(f)}
               THEN UNCHANGED <<key, server, leaving, draining>>
               ELSE CloseAll
    /\ UNCHANGED <<content, unclean, pool>>

\* Mutant: the pool goes on while its old servers are still leaving.
DrainUnawaited == TRUE

DrainAwaited == ~draining

(* After `await draining`: the slots are for this file from now on, and the *)
(* manager stops its idle timer.                                           *)
Admit ==
    /\ run.state = "draining" /\ DrainAwaited
    /\ IF pool.closed \/ pool.broken \/ run.aborted \/ run.slot \in unclean
       THEN RunFails /\ UNCHANGED <<key, server>>
       ELSE /\ run' = [run EXCEPT !.state = "admitted"]
            /\ key' = run.wanted
            /\ server' = [server EXCEPT ![run.slot].timer = FALSE]
    /\ UNCHANGED <<content, leaving, unclean, draining, pool>>

(* The manager's own `closing`: it knows nothing of its predecessors.      *)
SlotEmpty == \A p \in leaving : p.own => p.slot # run.slot

Ask(k) ==
    /\ \/ /\ run' = [run EXCEPT !.state = "asking", !.seen = k]
          /\ server' = [server EXCEPT ![run.slot] =
                           IF @.state = "none" THEN [NoServer EXCEPT !.state = "live", !.key = k] ELSE @]
       \/ server[run.slot].state = "none" /\ RunFails /\ UNCHANGED server    \* probe-launch-failed
    /\ UNCHANGED leaving

(* After `await closing`: the manager reads the file for itself and keeps,  *)
(* replaces or launches its server.                                        *)
Choose ==
    /\ run.state = "admitted" /\ SlotEmpty
    /\ LET k == Now(run.wanted.file)
           s == server[run.slot]
       IN \/ RunFails /\ Dispose(run.slot, TRUE)      \* refused, or the file is unreadable
          \/ /\ ~(pool.closed \/ run.aborted \/ run.slot \in unclean)
             /\ IF s.state # "none" /\ (s.key # k \/ s.state = "dead")
                THEN Dispose(run.slot, FALSE) /\ run' = [run EXCEPT !.state = "replacing", !.seen = k]
                ELSE Ask(k)
    /\ UNCHANGED <<content, key, unclean, draining, pool>>

(* After `await dispose()`: only a failed end stops the new server.        *)
Replace ==
    /\ run.state = "replacing" /\ SlotEmpty
    /\ IF run.slot \in unclean THEN RunFails /\ UNCHANGED <<server, leaving>> ELSE Ask(run.seen)
    /\ UNCHANGED <<content, key, unclean, draining, pool>>

(* The answer stands when the file is still what the manager saw, and what *)
(* the pool wanted.                                                        *)
Answer ==
    /\ run.state = "asking" /\ server[run.slot].state = "live" /\ ~run.aborted
    /\ IF Now(run.seen.file) = run.seen /\ run.seen = run.wanted
       THEN RunEnds(TRUE) /\ server' = [server EXCEPT ![run.slot].timer = TRUE] /\ UNCHANGED leaving
       ELSE /\ RunFails
            /\ IF Now(run.seen.file) # run.seen THEN Dispose(run.slot, TRUE) ELSE UNCHANGED <<server, leaving>>
    /\ UNCHANGED <<content, key, unclean, draining, pool>>

(* A failed query, a probe timeout, a cancellation or a dead server.       *)
AskFails ==
    /\ run.state = "asking"
    /\ RunFails
    /\ Dispose(run.slot, TRUE)
    /\ UNCHANGED <<content, key, unclean, draining, pool>>

(* `await dispose(true)`, then `await closeAll()`, then the failure.       *)
Collapse ==
    /\ run.state = "failing" /\ SlotEmpty
    /\ CloseAll
    /\ run' = [run EXCEPT !.state = "collapsing"]
    /\ UNCHANGED <<content, unclean, pool>>

Collapsed ==
    /\ run.state = "collapsing" /\ ~draining
    /\ RunEnds(FALSE)
    /\ UNCHANGED <<content, key, server, leaving, unclean, draining, pool>>

PoolNext ==
    \/ \E p \in leaving : Gone(p)
    \/ Drained
    \/ \E s \in Slots : IdleOut(s) \/ Dies(s)
    \/ Admit \/ Choose \/ Replace \/ Answer \/ AskFails
    \/ Collapse \/ Collapsed

-----------------------------------------------------------------------------
Live == {[slot |-> s, key |-> server[s].key] : s \in {t \in Slots : server[t].state # "none"}}

(* A slot never holds a server beside one that is still leaving it, and     *)
(* between two probes every server the pool keeps is for the version of the *)
(* file the pool last read, so that no answer can come from a stale         *)
(* snapshot: the file changes under the pool, the manager and the server.   *)
PoolIsOneDocument ==
    /\ \A p \in leaving : server[p.slot].state = "none"
    /\ Cardinality({p.slot : p \in leaving}) = Cardinality(leaving)
    /\ run.state \in {"idle", "done"} => \A p \in Live : p.key = key
=============================================================================
