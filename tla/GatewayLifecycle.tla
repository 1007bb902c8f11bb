--------------------------- MODULE GatewayLifecycle ---------------------------
(***************************************************************************)
(* The phases of one gateway process (scripts/gateway.mjs) over its modules *)
(* (extensions/module-lifecycle.js): admission, replacement of an adapter,  *)
(* pause for an upgrade, shutdown and what makes the process exit.          *)
(*                                                                          *)
(* One action is what happens between two awaits.  A generation is one      *)
(* construction of the replaceable adapter; the other modules are disposed  *)
(* with it and are one value.  The executor's own shutdown is modelled by   *)
(* AdmissionScheduler and the cache of results by TaskMonitor: here they    *)
(* are work that ends or does not, and a result that is saved or is not.    *)
(***************************************************************************)
EXTENDS Naturals, FiniteSets

CONSTANTS
    Calls,      \* MCP calls
    MaxMade     \* bound: constructions of the adapter in the life of a process

VARIABLES
    instance,       \* of the gateway, 0 before the first; its pid
    phase,          \* "gone" when there is no process
    modules,        \* state of the module lifecycle
    closing,        \* ... and its flag: dispose() was called
    made, gen,      \* constructions so far; the installed one
    live,           \* constructions whose cleanup has not run
    repl,           \* replacement: none, rolling-back, retiring, discarding
    inFlight,       \* calls inside withOperation()
    working,        \* calls whose task is queued, runs or is unfinished in the monitor
    using,          \* [Calls -> construction a call works with, or 0]
    sessions,       \* calls whose HTTP response is open
    badClose,       \* the close of a response has failed
    ramOnly,        \* a finished result is in memory only
    admission,      \* of MCP requests: open, recovery, closed
    sd,             \* shutdown: none, joining, stopping, monitor, sessions, disposing, done
    errors,         \* errors gathered by the shutdown
    waiting         \* who waits for the shutdown: subset of {"signal", "admin"}

gvars == <<instance, phase, modules, closing, made, gen, live, repl, inFlight, working, using,
           sessions, badClose, ramOnly, admission, sd, errors, waiting>>

\* createGatewayRuntime(): the modules are constructed in the order of their dependencies.
Boot ==
    /\ phase' = "running" /\ instance' = instance + 1
    /\ modules' = "ready" /\ closing' = FALSE /\ made' = 1 /\ gen' = 1 /\ live' = {1} /\ repl' = "none"
    /\ inFlight' = {} /\ working' = {} /\ using' = [c \in Calls |-> 0]
    /\ sessions' = {} /\ badClose' = FALSE /\ ramOnly' = FALSE /\ admission' = "open"
    /\ sd' = "none" /\ errors' = FALSE /\ waiting' = {}

GInit ==
    /\ phase = "running" /\ instance = 1
    /\ modules = "ready" /\ closing = FALSE /\ made = 1 /\ gen = 1 /\ live = {1} /\ repl = "none"
    /\ inFlight = {} /\ working = {} /\ using = [c \in Calls |-> 0]
    /\ sessions = {} /\ badClose = FALSE /\ ramOnly = FALSE /\ admission = "open"
    /\ sd = "none" /\ errors = FALSE /\ waiting = {}

\* The process ends: what was in memory is lost.
Gone ==
    /\ phase' = "gone" /\ inFlight' = {} /\ working' = {} /\ using' = [c \in Calls |-> 0]
    /\ sessions' = {} /\ ramOnly' = FALSE /\ sd' = "none" /\ waiting' = {} /\ repl' = "none" /\ live' = {}
    /\ modules' = "disposed" /\ closing' = TRUE /\ badClose' = FALSE /\ errors' = FALSE
    /\ admission' = "closed" /\ made' = 0 /\ gen' = 0
    /\ UNCHANGED instance

life == <<instance, made, gen, live, repl, modules, closing>>
load == <<inFlight, working, using, sessions, badClose, ramOnly>>
stop == <<admission, sd, errors, waiting>>

(********************************* calls ***********************************)

\* acceptsMcpRequests(): while a result is in memory only, those that read it.
Accepts == admission \in {"open", "recovery"}

\* POST /mcp: the response is registered, then withOperation() admits the call
\* or throws; a list or a read is not admitted and only has its response.
Request(c) ==
    /\ phase # "gone" /\ c \notin sessions \cup inFlight \cup working
    /\ Accepts
    /\ sessions' = sessions \cup {c}
    /\ inFlight' = IF phase = "running" /\ admission = "open" THEN inFlight \cup {c} ELSE inFlight
    /\ UNCHANGED <<phase, life, working, using, badClose, ramOnly, stop>>

\* submit_subagent answers while its task goes on.
Background(c) ==
    /\ c \in inFlight
    /\ inFlight' = inFlight \ {c} /\ working' = working \cup {c}
    /\ UNCHANGED <<phase, life, using, sessions, badClose, ramOnly, stop>>

\* modules.get('dispatch') when the task starts.
Use(c) ==
    /\ c \in inFlight \cup working /\ using[c] = 0
    /\ modules = "ready" /\ ~closing
    /\ using' = [using EXCEPT ![c] = gen]
    /\ UNCHANGED <<phase, life, inFlight, working, sessions, badClose, ramOnly, stop>>

\* A call ends, with its task; a result may be too large for the disk just now.
Finish(c) ==
    /\ c \in inFlight \cup working
    /\ inFlight' = inFlight \ {c} /\ working' = working \ {c} /\ using' = [using EXCEPT ![c] = 0]
    /\ ramOnly' \in {ramOnly, using[c] # 0 \/ ramOnly}
    /\ UNCHANGED <<phase, life, sessions, badClose, stop>>

Saved == /\ ramOnly /\ ramOnly' = FALSE
         /\ UNCHANGED <<phase, life, inFlight, working, using, sessions, badClose, stop>>

\* The registry forgets a response once it is closed, but no failure to close one.
Released(c, ok) == sessions' = sessions \ {c} /\ badClose' = (badClose \/ ~ok)

\* The response is over: transport and server are closed, or fail to.
CloseSession(c, ok) ==
    /\ c \in sessions /\ Released(c, ok)
    /\ UNCHANGED <<phase, life, inFlight, working, using, ramOnly, stop>>

(***************************** replacing an adapter ************************)

\* Mutant: tasks that go on in the background are not asked for.
IdleInFront == inFlight = {}

Idle == inFlight = {} /\ working = {}

\* replaceAdapter() and replace() up to the first cleanup.
ReplaceStart(built) ==
    /\ phase = "running" /\ Idle
    /\ modules = "ready" /\ ~closing /\ made < MaxMade
    /\ phase' = "replacing" /\ modules' = "replacing"
    /\ made' = made + 1 /\ live' = live \cup {made + 1}
    /\ repl' = IF built THEN "retiring" ELSE "rolling-back"
    /\ UNCHANGED <<instance, gen, closing, load, stop>>

\* The replacement settles: the phase follows, unless the gateway is closing.
Settle(state) ==
    /\ modules' = state /\ repl' = "none"
    /\ phase' = IF phase # "replacing" THEN phase ELSE IF state = "ready" THEN "running" ELSE "failed"

\* The cleanup that a replacement waits for ends, well or with an error.
ReplaceStep(ok) ==
    /\ \/ /\ repl = "retiring" /\ ok
          /\ live' = live \ {gen} /\ gen' = made /\ Settle("ready")
       \/ /\ repl = "retiring" /\ ~ok
          /\ live' = live \ {gen} /\ repl' = "discarding" /\ modules' = "failed" /\ UNCHANGED <<phase, gen>>
       \/ /\ repl = "discarding" /\ live' = live \ {made} /\ Settle("failed") /\ UNCHANGED gen
       \/ /\ repl = "rolling-back" /\ live' = live \ {made} /\ UNCHANGED gen
          /\ Settle(IF ok THEN "ready" ELSE "failed")
    /\ UNCHANGED <<instance, made, closing, load, stop>>

(******************************* maintenance *******************************)

Pause  == phase = "running" /\ Idle /\ phase' = "maintenance" /\ UNCHANGED <<life, load, stop>>
Resume == phase = "maintenance" /\ phase' = "running" /\ UNCHANGED <<life, load, stop>>

(******************************** shutdown *********************************)

\* shutdown(): an attempt under way or a final one is joined, not repeated.
Ask(who) ==
    /\ waiting' = waiting \cup {who}
    /\ IF sd = "none" THEN sd' = "joining" /\ phase' = "closing" /\ admission' = "closed"
       ELSE UNCHANGED <<sd, phase, admission>>
    /\ UNCHANGED <<life, load, errors>>

\* SIGINT or SIGTERM: stop(), once until it gives up.
Signal == phase # "gone" /\ "signal" \notin waiting /\ Ask("signal")

\* POST /admin/upgrade/stop.
AdminStop == phase = "maintenance" /\ Ask("admin")

\* The attempt gives up.  stop() exits all the same, but not over a result that
\* is in memory only: then it may be asked again.
GiveUp(next, unsafe, left, bad) ==
    IF "signal" \in waiting /\ ~unsafe THEN Gone
    ELSE /\ phase' = next /\ sd' = "none" /\ waiting' = {} /\ sessions' = left /\ badClose' = bad
         /\ admission' = IF unsafe THEN "recovery" ELSE admission
         /\ UNCHANGED <<life, inFlight, working, using, ramOnly, errors>>

\* await replacing.
Join ==
    /\ sd = "joining" /\ repl = "none"
    /\ sd' = "stopping" /\ errors' = (modules # "ready")
    /\ UNCHANGED <<phase, life, load, admission, waiting>>

\* The executor and the operations have ended, or the deadlines are over.
Stopped ==
    /\ sd = "stopping"
    /\ \/ Idle /\ sd' = "monitor" /\ UNCHANGED <<phase, life, load, admission, errors, waiting>>
       \/ ~Idle /\ GiveUp("draining", FALSE, sessions, badClose)

\* taskMonitor.drain().
Drained ==
    /\ sd = "monitor"
    /\ IF ramOnly THEN GiveUp("draining", TRUE, sessions, badClose)
       ELSE sd' = "sessions" /\ UNCHANGED <<phase, life, load, admission, errors, waiting>>

\* responseSessions.drain(): all responses are closed, and none has failed to,
\* now or earlier, or is late.
AllClosed(ok, late) == ~badClose /\ ok /\ (~late \/ sessions = {})

SessionsDrained(ok, late) ==
    /\ sd = "sessions" /\ (ok \/ sessions # {})
    /\ IF AllClosed(ok, late)
       THEN /\ sd' = "disposing" /\ sessions' = {}
            /\ modules' = "disposing" /\ closing' = TRUE
            /\ UNCHANGED <<instance, phase, made, gen, live, repl, inFlight, working, using, badClose, ramOnly,
                           admission, errors, waiting>>
       ELSE GiveUp(IF badClose \/ ~ok THEN "failed" ELSE "draining", FALSE,
                   IF late THEN sessions ELSE {}, badClose \/ ~ok)

\* modules.dispose() after the last maintenance.  The process exits for a signal,
\* and for the upgrade when nothing failed and its answer could be delivered.
\* A failure is kept for ever.
Disposed(ok) ==
    /\ sd = "disposing"
    /\ \/ ("signal" \in waiting \/ (ok /\ ~errors)) /\ Gone
       \/ /\ "signal" \notin waiting
          /\ phase' = IF ok /\ ~errors THEN "disposed" ELSE "failed"
          /\ modules' = IF ok THEN "disposed" ELSE "failed"
          /\ live' = live \ {gen} /\ sd' = "done" /\ waiting' = {} /\ errors' = (errors \/ ~ok)
          /\ UNCHANGED <<instance, made, gen, repl, closing, load, admission>>

\* A signal after a shutdown that is final.
Leave == sd = "done" /\ "signal" \in waiting /\ Gone

\* A process is killed, or its host dies.
Killed == phase # "gone" /\ Gone

GNext ==
    \/ \E c \in Calls : \/ Request(c) \/ Background(c) \/ Use(c) \/ Finish(c)
                        \/ \E ok \in BOOLEAN : CloseSession(c, ok)
    \/ Saved \/ Signal \/ Leave \/ Join \/ Stopped \/ Drained
    \/ \E ok \in BOOLEAN : ReplaceStart(ok) \/ ReplaceStep(ok) \/ Disposed(ok)
    \/ \E ok, late \in BOOLEAN : SessionsDrained(ok, late)

(******************************** properties *******************************)

\* Nobody works with an adapter that was cleaned up, or beside disposed modules,
\* although replacement and shutdown both await in the middle.
NoUseAfterClose == \A c \in Calls : using[c] # 0 => using[c] \in live /\ modules \notin {"disposing", "disposed"}

\* Every construction is cleaned up exactly once, and at most two exist at a time.
NoneLeft ==
    /\ repl = "none" /\ phase # "gone" => live \subseteq {gen}
    /\ repl # "none" => live \subseteq {gen, made}
    /\ modules = "ready" => gen \in live
    /\ phase = "running" => modules = "ready" /\ ~closing

\* Modules are cleaned up, each construction once and only when every call is
\* over, in front and in the background, and every result is on disk, however
\* often a replacement failed halfway or a shutdown gave up.
CleanedWhenQuiet ==
    /\ NoneLeft
    /\ modules \in {"disposing", "disposed"} /\ phase # "gone" => Idle /\ ~ramOnly /\ repl = "none"

\* Adapters are there while they are used and cleaned up once they are not.
AdaptersKept == NoUseAfterClose /\ CleanedWhenQuiet
==============================================================================
