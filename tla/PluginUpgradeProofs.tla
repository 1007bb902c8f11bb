-------------------------- MODULE PluginUpgradeProofs --------------------------
(***************************************************************************)
(* Proofs about an upgrade, the gateway it acts on and the launcher beside  *)
(* it, for any number of calls, files, edits, kills and repetitions.        *)
(*                                                                         *)
(* The three layers are proved one after another.  Whatever the upgrader    *)
(* and the launcher do to the gateway is one of the moves of the gateway    *)
(* (StepMoves), so the invariant of the gateway is proved over its moves.   *)
(* The argument there is the one of the shutdown: it joins a replacement,   *)
(* waits until nobody works and only then disposes, and nothing is admitted *)
(* meanwhile (Joined, Quiet, Closing).  For the launcher, instances are     *)
(* numbered upwards (Launch).  For the upgrade, the lock is held from       *)
(* Begin() to the end, and the step tells what the files may be (Stage).    *)
(***************************************************************************)
EXTENDS PluginUpgrade, TLAPS

Phases  == {"running", "replacing", "failed", "maintenance", "closing", "draining", "disposed", "gone"}
Modules == {"ready", "replacing", "failed", "disposing", "disposed"}
Stops   == {"none", "joining", "stopping", "monitor", "sessions", "disposing", "done"}

GTypeOK ==
    /\ instance \in Nat /\ phase \in Phases /\ modules \in Modules /\ closing \in BOOLEAN
    /\ made \in Nat /\ gen \in Nat /\ live \in SUBSET Nat
    /\ repl \in {"none", "rolling-back", "retiring", "discarding"}
    /\ inFlight \in SUBSET Calls /\ working \in SUBSET Calls /\ sessions \in SUBSET Calls
    /\ using \in [Calls -> Nat]
    /\ badClose \in BOOLEAN /\ ramOnly \in BOOLEAN /\ errors \in BOOLEAN
    /\ admission \in {"open", "recovery", "closed"}
    /\ sd \in Stops /\ waiting \in SUBSET {"signal", "admin"}

STypeOK ==
    starter \in [at : {"idle", "launching", "spawned", "waiting", "killing", "unreaped", "over"},
                 of : Nat, record : {"none", "starting", "pid", "ready", "failed"},
                 told : {"none", "ready", "failed", "unknown"}]

Before   == {"pausing", "unpausing", "resuming", "stopping", "stop-sent", "leaving"}
Checking == {"starting", "health"}
Undoing  == {"restopping", "restop-sent", "releaving", "restoring"}
Undone   == {"restarting", "rehealth"}

Bounds == [edits : Nat, kills : Nat, outside : Nat, again : Nat, calls : Nat, made : Nat]
Trees  == [Files -> {"before", "after", "other"}]

UTypeOK ==
    /\ plan \in Bounds /\ file \in Trees /\ marker \in {"before", "after"}
    /\ lock \in BOOLEAN /\ applied \in SUBSET Files /\ target \in Nat
    /\ step \in Before \cup {"applying"} \cup Checking \cup Undoing \cup Undone \cup {"ready", "over", "dead"}
    /\ result \in {"none", "blocked", "completed", "rolled-back", "recovery-required"}
    /\ journal \in {"none", "prepared", "applying", "checking", "completed", "rolled-back", "recovery-required"}
    /\ code \in [own : BOOLEAN, files : Trees]

TypeOK == GTypeOK /\ STypeOK /\ UTypeOK

\* Without a process there is nothing in memory; the instances count from one.
Process ==
    /\ instance > 0
    /\ phase = "gone" => /\ modules = "disposed" /\ repl = "none" /\ sd = "none" /\ live = {}
                         /\ Idle /\ ~ramOnly

\* Which phases a gateway can be in, given its shutdown, its modules and its replacement.
Joined ==
    /\ sd # "none" => phase \in IF sd = "done" THEN {"disposed", "failed"} ELSE {"closing"}
    /\ sd \notin {"none", "joining"} => repl = "none"
    /\ phase = "replacing" => repl # "none"
    /\ repl # "none" => phase \in {"replacing", "closing"} /\ Idle
    /\ phase \in {"running", "maintenance"} => modules = "ready" /\ ~closing

\* A construction is installed, or is the new one of a replacement.
Built ==
    /\ gen <= made
    /\ repl = "none" /\ phase # "gone" => live \subseteq {gen}
    /\ repl # "none" => gen # made /\ live \subseteq {gen, made}
    /\ repl = "discarding" => live \subseteq {made} /\ modules = "failed"
    /\ repl \in {"retiring", "rolling-back"} => modules = "replacing"
    /\ repl = "retiring" => made \in live
    /\ repl = "rolling-back" => gen \in live
    /\ modules = "ready" => gen \in live
    /\ modules = "replacing" => repl # "none"

\* A call works with an adapter only as long as it counts as busy.
Busy == \A c \in Calls : using[c] # 0 => using[c] \in live /\ c \in inFlight \cup working

\* What the shutdown has waited for stays true.
Quiet ==
    /\ sd \in {"monitor", "sessions", "disposing", "done"} => Idle
    /\ sd \in {"sessions", "disposing", "done"} => ~ramOnly

\* Modules are disposed of by a shutdown that has come that far.
Closing ==
    /\ modules = "disposing" \/ (closing /\ phase # "gone") => sd \in {"disposing", "done"}
    /\ modules = "disposed" => phase = "gone" \/ sd = "done"

GInv == GTypeOK /\ Process /\ Joined /\ Built /\ Busy /\ Quiet /\ Closing

\* The instance a launcher has spawned is none that comes later.
Launch ==
    /\ starter.of <= instance
    /\ starter.at \notin {"idle", "over"} => starter.record # "none" /\ starter.told # "failed"
    /\ starter.at = "idle" => starter.told = "none" /\ starter.of = 0

\* The lock is held from the first step to the last, and where only an operator helps.
Locked ==
    /\ step \notin {"ready", "over"} => lock
    /\ step = "over" => result # "none" /\ (lock <=> result = "recovery-required")

\* What the files are at each step of an upgrade.
Stage ==
    /\ step \in Before \cup Undone => Old
    /\ step \in Checking => New
    /\ step = "applying" => marker = "before"
    /\ ~lock => Old \/ (step = "over" /\ result = "completed")

\* While files are changed, no gateway of this installation is alive.
Still == step \in {"applying", "restoring"} => ~Alive \/ ~code.own

IInv == /\ GInv /\ STypeOK /\ UTypeOK /\ Launch /\ StartsToldTrue
        /\ Locked /\ Stage /\ Still /\ WholeUnlessLocked


LEMMA RequestKeeps ==
  ASSUME GInv, NEW c \in Calls, Request(c)
  PROVE  GInv'
<1>1. Built' /\ Closing'
  BY DEF Request, life, stop, GInv, Built, Closing
<1>2. GTypeOK'
  BY DEF Request, life, stop, GInv, GTypeOK
<1>3. Process'
  BY DEF Request, life, GInv, Process
<1>4. Joined'
  BY DEF Request, life, stop, Idle, GInv, Joined
<1>5. Busy'
  BY DEF Request, life, GInv, Busy
<1>6. Quiet'
  BY DEF Request, stop, Idle, GInv, Joined, Quiet
<1> QED  BY <1>1, <1>2, <1>3, <1>4, <1>5, <1>6 DEF GInv

LEMMA BackgroundKeeps ==
  ASSUME GInv, NEW c \in Calls, Background(c)
  PROVE  GInv'
<1>1. Built' /\ Closing'
  BY DEF Background, life, stop, GInv, Built, Closing
<1>2. GTypeOK'
  BY DEF Background, life, stop, GInv, GTypeOK
<1>3. Process'
  BY DEF Background, life, Idle, GInv, Process
<1>4. Joined'
  BY DEF Background, life, stop, Idle, GInv, Joined
<1>5. Busy'
  BY DEF Background, life, GInv, Busy
<1>6. Quiet'
  BY DEF Background, stop, Idle, GInv, Quiet
<1> QED  BY <1>1, <1>2, <1>3, <1>4, <1>5, <1>6 DEF GInv

LEMMA UseKeeps ==
  ASSUME GInv, NEW c \in Calls, Use(c)
  PROVE  GInv'
<1>1. Process' /\ Joined' /\ Built' /\ Quiet' /\ Closing'
  BY DEF Use, life, stop, GInv, Idle, Process, Joined, Built, Quiet, Closing
<1>2. GTypeOK'
  BY DEF Use, life, stop, GInv, GTypeOK
<1>3. Busy'
  BY DEF Use, life, GInv, Built, Busy
<1> QED  BY <1>1, <1>2, <1>3 DEF GInv

LEMMA FinishKeeps ==
  ASSUME GInv, NEW c \in Calls, Finish(c)
  PROVE  GInv'
<1>1. Built' /\ Closing'
  BY DEF Finish, life, stop, GInv, Built, Closing
<1>2. GTypeOK'
  <2>1. ramOnly' \in BOOLEAN /\ using' \in [Calls -> Nat]  BY DEF Finish, GInv, GTypeOK
  <2> QED  BY <2>1 DEF Finish, life, stop, GInv, GTypeOK
<1>3. Process'
  BY DEF Finish, life, Idle, GInv, Process
<1>4. Joined'
  BY DEF Finish, life, stop, Idle, GInv, Joined
<1>5. Busy'
  BY DEF Finish, life, GInv, GTypeOK, Busy
<1>6. Quiet'
  BY DEF Finish, stop, Idle, GInv, Quiet
<1> QED  BY <1>1, <1>2, <1>3, <1>4, <1>5, <1>6 DEF GInv

LEMMA SavedKeeps ==
  ASSUME GInv, Saved
  PROVE  GInv'
<1>1. Joined' /\ Built' /\ Busy' /\ Closing'
  BY DEF Saved, life, stop, GInv, Idle, Joined, Built, Busy, Closing
<1>2. GTypeOK'
  BY DEF Saved, life, load, stop, Idle, GInv, GTypeOK
<1>3. Process'
  BY DEF Saved, life, GInv, Process
<1>4. Quiet'
  BY DEF Saved, stop, Idle, GInv, Quiet
<1> QED  BY <1>1, <1>2, <1>3, <1>4 DEF GInv

LEMMA CloseSessionKeeps ==
  ASSUME GInv, NEW c \in Calls, NEW ok \in BOOLEAN, CloseSession(c, ok)
  PROVE  GInv'
<1>1. Process' /\ Joined' /\ Built' /\ Busy' /\ Quiet' /\ Closing'
  BY DEF CloseSession, life, stop, GInv, Idle, Process, Joined, Built, Busy, Quiet, Closing
<1>2. GTypeOK'
  BY DEF CloseSession, Released, life, stop, GInv, GTypeOK
<1> QED  BY <1>1, <1>2 DEF GInv

LEMMA ReplaceStartKeeps ==
  ASSUME GInv, NEW built \in BOOLEAN, ReplaceStart(built)
  PROVE  GInv'
<1>1. Quiet'
  BY DEF ReplaceStart, load, stop, GInv, Idle, Quiet
<1>2. GTypeOK'
  BY DEF ReplaceStart, load, stop, GInv, GTypeOK, Phases, Modules
<1>3. Process'
  BY DEF ReplaceStart, GInv, Process
<1>4. Joined'
  BY DEF ReplaceStart, load, stop, Idle, GInv, Joined
<1>5. Built'
  BY DEF ReplaceStart, GInv, GTypeOK, Built
<1>6. Busy'
  BY DEF ReplaceStart, load, GInv, Busy
<1>7. Closing'
  BY DEF ReplaceStart, Closing
<1> QED  BY <1>1, <1>2, <1>3, <1>4, <1>5, <1>6, <1>7 DEF GInv

LEMMA ReplaceStepKeeps ==
  ASSUME GInv, NEW ok \in BOOLEAN, ReplaceStep(ok)
  PROVE  GInv'
<1>1. Quiet'
  BY DEF ReplaceStep, load, stop, GInv, Idle, Quiet
<1>2. GTypeOK'
  <2>1. live' \in SUBSET Nat /\ gen' \in Nat /\ repl' \in {"none", "discarding"}
    BY DEF ReplaceStep, Settle, GInv, GTypeOK
  <2>2. phase' \in Phases /\ modules' \in Modules
    BY DEF ReplaceStep, Settle, GInv, GTypeOK, Phases, Modules
  <2> QED  BY <2>1, <2>2 DEF ReplaceStep, load, stop, GInv, GTypeOK
<1>3. Process'
  BY DEF ReplaceStep, Settle, GInv, Process
<1>4. Joined'
  BY DEF ReplaceStep, Settle, load, stop, Idle, GInv, Joined, Closing
<1>5. Built'
  <2> USE DEF GInv, GTypeOK, Built, Joined
  <2>1. CASE repl = "retiring" /\ ok
    <3>1. live' = live \ {gen} /\ gen' = made /\ made' = made /\ repl' = "none" /\ modules' = "ready"
      BY <2>1 DEF ReplaceStep, Settle
    <3> QED  BY <2>1, <3>1
  <2>2. CASE repl = "retiring" /\ ~ok  BY <2>2 DEF ReplaceStep
  <2>3. CASE repl = "discarding"  BY <2>3 DEF ReplaceStep, Settle
  <2>4. CASE repl = "rolling-back"
    <3>1. /\ live' = live \ {made} /\ gen' = gen /\ made' = made /\ repl' = "none"
          /\ modules' \in {"ready", "failed"}
      BY <2>4 DEF ReplaceStep, Settle
    <3> QED  BY <2>4, <3>1
  <2> QED  BY <2>1, <2>2, <2>3, <2>4 DEF ReplaceStep
<1>6. Busy'
  BY DEF ReplaceStep, load, Idle, GInv, Joined, Busy
<1>7. Closing'
  BY DEF ReplaceStep, Settle, GInv, Joined, Closing
<1> QED  BY <1>1, <1>2, <1>3, <1>4, <1>5, <1>6, <1>7 DEF GInv

LEMMA PauseKeeps ==
  ASSUME GInv, Pause
  PROVE  GInv'
<1>1. Busy' /\ Quiet'
  BY DEF Pause, load, stop, GInv, Idle, Busy, Quiet
<1>2. GTypeOK'
  BY DEF Pause, life, load, stop, GInv, GTypeOK, Phases
<1>3. Process'
  BY DEF Pause, life, GInv, Process
<1>4. Joined'
  BY DEF Pause, life, stop, GInv, Joined
<1>5. Built'
  BY DEF Pause, life, GInv, Built
<1>6. Closing'
  BY DEF Pause, life, stop, GInv, Closing
<1> QED  BY <1>1, <1>2, <1>3, <1>4, <1>5, <1>6 DEF GInv

LEMMA ResumeKeeps ==
  ASSUME GInv, Resume
  PROVE  GInv'
<1>1. Busy' /\ Quiet'
  BY DEF Resume, life, load, stop, GInv, Idle, Busy, Quiet
<1>2. GTypeOK'
  BY DEF Resume, life, load, stop, GInv, GTypeOK, Phases
<1>3. Process'
  BY DEF Resume, life, GInv, Process
<1>4. Joined'
  BY DEF Resume, life, stop, GInv, Joined
<1>5. Built'
  BY DEF Resume, life, GInv, Built
<1>6. Closing'
  BY DEF Resume, life, stop, GInv, Closing
<1> QED  BY <1>1, <1>2, <1>3, <1>4, <1>5, <1>6 DEF GInv

LEMMA AskKeeps ==
  ASSUME GInv, NEW who \in {"signal", "admin"}, phase # "gone", Ask(who)
  PROVE  GInv'
<1>1. Busy'
  BY DEF Ask, life, load, GInv, Busy
<1>2. GTypeOK'
  BY DEF Ask, life, load, GInv, GTypeOK, Phases, Stops
<1>3. Process'
  BY DEF Ask, life, GInv, Process
<1>4. Joined'
  BY DEF Ask, life, load, Idle, GInv, Joined
<1>5. Built'
  BY DEF Ask, life, GInv, Built
<1>6. Quiet'
  BY DEF Ask, load, Idle, GInv, Quiet
<1>7. Closing'
  BY DEF Ask, life, GInv, Closing
<1> QED  BY <1>1, <1>2, <1>3, <1>4, <1>5, <1>6, <1>7 DEF GInv

LEMMA JoinKeeps ==
  ASSUME GInv, Join
  PROVE  GInv'
<1>1. Built' /\ Busy'
  BY DEF Join, life, load, GInv, Built, Busy
<1>2. GTypeOK'
  BY DEF Join, life, load, GInv, GTypeOK, Stops
<1>3. Process'
  BY DEF Join, life, GInv, Process
<1>4. Joined'
  BY DEF Join, life, GInv, Joined
<1>5. Quiet'
  BY DEF Join, Quiet
<1>6. Closing'
  BY DEF Join, life, GInv, Closing
<1> QED  BY <1>1, <1>2, <1>3, <1>4, <1>5, <1>6 DEF GInv

\* The process ends.
LEMMA GoneKeeps == GInv /\ Gone => GInv'
<1> SUFFICES ASSUME GInv, Gone PROVE GInv'
  OBVIOUS
<1>1. GTypeOK'  BY DEF Gone, GInv, GTypeOK, Phases, Modules, Stops
<1>2. Process' /\ Joined' /\ Built' /\ Busy' /\ Quiet' /\ Closing'
  BY DEF Gone, Idle, GInv, Process, Joined, Built, Busy, Quiet, Closing
<1> QED  BY <1>1, <1>2 DEF GInv

\* A process begins.
LEMMA BootKeeps == GInv /\ Boot => GInv'
<1> SUFFICES ASSUME GInv, Boot PROVE GInv'
  OBVIOUS
<1>1. GTypeOK'
  <2>1. live' \in SUBSET Nat /\ using' \in [Calls -> Nat] /\ waiting' \in SUBSET {"signal", "admin"}
    BY DEF Boot
  <2>2. instance' \in Nat /\ made' \in Nat /\ gen' \in Nat  BY DEF Boot, GInv, GTypeOK
  <2> QED  BY <2>1, <2>2 DEF Boot, GTypeOK, Phases, Modules, Stops
<1>2. Process' /\ Joined' /\ Quiet' /\ Closing'
  BY DEF Boot, GInv, GTypeOK, Process, Joined, Quiet, Closing
<1>3. Built'  BY DEF Boot, Built
<1>4. Busy'  BY DEF Boot, Busy
<1> QED  BY <1>1, <1>2, <1>3, <1>4 DEF GInv

\* A shutdown that gives up leaves the modules alone.
LEMMA GiveUpKeeps ==
  ASSUME GInv, sd \in {"stopping", "monitor", "sessions"},
         NEW next \in {"draining", "failed"}, NEW unsafe \in BOOLEAN,
         NEW left \in SUBSET sessions, NEW bad \in BOOLEAN, GiveUp(next, unsafe, left, bad)
  PROVE  GInv'
<1>1. CASE Gone  BY <1>1, GoneKeeps
<1>2. CASE /\ phase' = next /\ sd' = "none" /\ waiting' = {} /\ sessions' = left /\ badClose' = bad
           /\ admission' = IF unsafe THEN "recovery" ELSE admission
           /\ UNCHANGED <<life, inFlight, working, using, ramOnly, errors>>
  <2> USE <1>2 DEF life, GInv
  <2>1. GTypeOK'  BY DEF GTypeOK, Phases, Modules, Stops
  <2>2. Process' /\ Quiet' /\ Closing'  BY DEF Process, Quiet, Closing
  <2>3. Joined' /\ Built'  BY DEF Joined, Built
  <2>4. Busy'  BY DEF Busy
  <2> QED  BY <2>1, <2>2, <2>3, <2>4
<1> QED  BY <1>1, <1>2 DEF GiveUp

LEMMA StoppedKeeps == GInv /\ Stopped => GInv'
<1> SUFFICES ASSUME GInv, Stopped PROVE GInv'
  OBVIOUS
<1>1. CASE Idle /\ sd' = "monitor" /\ UNCHANGED <<phase, life, load, admission, errors, waiting>>
  <2> USE <1>1 DEF Stopped, life, load, GInv
  <2>1. GTypeOK'  BY DEF GTypeOK, Stops
  <2>2. Process' /\ Quiet' /\ Closing'  BY DEF Process, Idle, Quiet, Closing
  <2>3. Joined' /\ Built' /\ Busy'  BY DEF Joined, Idle, Built, Busy
  <2> QED  BY <2>1, <2>2, <2>3
<1>2. CASE GiveUp("draining", FALSE, sessions, badClose)
  BY <1>2, GiveUpKeeps DEF Stopped, GInv, GTypeOK
<1> QED  BY <1>1, <1>2 DEF Stopped

LEMMA DrainedKeeps == GInv /\ Drained => GInv'
<1> SUFFICES ASSUME GInv, Drained PROVE GInv'
  OBVIOUS
<1>1. CASE ~ramOnly
  <2> USE <1>1 DEF Drained, life, load, GInv
  <2>1. GTypeOK'  BY DEF GTypeOK, Stops
  <2>2. Process' /\ Quiet' /\ Closing'  BY DEF Process, Idle, Quiet, Closing
  <2>3. Joined' /\ Built' /\ Busy'  BY DEF Joined, Idle, Built, Busy
  <2> QED  BY <2>1, <2>2, <2>3
<1>2. CASE ramOnly
  BY <1>2, GiveUpKeeps DEF Drained, GInv, GTypeOK
<1> QED  BY <1>1, <1>2 DEF GInv, GTypeOK

LEMMA SessionsDrainedKeeps ==
  ASSUME GInv, NEW ok \in BOOLEAN, NEW late \in BOOLEAN, SessionsDrained(ok, late)
  PROVE  GInv'
<1>1. CASE AllClosed(ok, late)
  <2> USE <1>1 DEF SessionsDrained, GInv
  <2>1. GTypeOK'  BY DEF GTypeOK, Modules, Stops
  <2>2. Process' /\ Quiet' /\ Closing'  BY DEF Process, Idle, Quiet, Closing
  <2>3. Joined' /\ Built' /\ Busy'  BY DEF Joined, Built, Busy
  <2> QED  BY <2>1, <2>2, <2>3
<1>2. CASE ~AllClosed(ok, late)
  <2> DEFINE left == IF late THEN sessions ELSE {}
             next == IF badClose \/ ~ok THEN "failed" ELSE "draining"
             bad == badClose \/ ~ok
  <2>1. left \in SUBSET sessions /\ next \in {"draining", "failed"} /\ bad \in BOOLEAN
    OBVIOUS
  <2>2. sd = "sessions" /\ GiveUp(next, FALSE, left, bad)  BY <1>2 DEF SessionsDrained
  <2> HIDE DEF left, next, bad
  <2> QED  BY <2>1, <2>2, GiveUpKeeps
<1> QED  BY <1>1, <1>2

LEMMA DisposedKeeps == ASSUME GInv, NEW ok \in BOOLEAN, Disposed(ok) PROVE GInv'
<1>1. CASE Gone  BY <1>1, GoneKeeps
<1>2. CASE ~Gone
  <2> USE <1>2 DEF Disposed, life, load, GInv
  <2>1. GTypeOK'  BY DEF GTypeOK, Phases, Modules, Stops
  <2>2. Process' /\ Quiet' /\ Closing'  BY DEF Process, Idle, Quiet, Closing
  <2>3. Joined' /\ Built' /\ Busy'  BY DEF Joined, Idle, Built, Busy, Quiet, GTypeOK
  <2> QED  BY <2>1, <2>2, <2>3
<1> QED  BY <1>1, <1>2

----------------------------------------------------------------------------
(* All that happens to a gateway, whoever does it.                         *)

\* The gateway itself, an upgrader or an operator, or the host.
Moves == \/ GNext \/ Pause \/ Resume \/ Gone \/ (~Alive /\ Boot) \/ UNCHANGED gvars
         \/ Alive /\ \E who \in {"signal", "admin"} : Ask(who)

LEMMA MovesKeep == GInv /\ Moves => GInv'
<1> SUFFICES ASSUME GInv, Moves PROVE GInv'
  OBVIOUS
<1>1. CASE GNext
  <2>1. ASSUME NEW c \in Calls, Request(c) \/ Background(c) \/ Use(c) \/ Finish(c)
        PROVE  GInv'
    BY <2>1, RequestKeeps, BackgroundKeeps, UseKeeps, FinishKeeps
  <2>2. ASSUME NEW c \in Calls, NEW ok \in BOOLEAN, CloseSession(c, ok)
        PROVE  GInv'
    BY <2>2, CloseSessionKeeps
  <2>3. CASE Saved \/ Join \/ Stopped \/ Drained
    BY <2>3, SavedKeeps, JoinKeeps, StoppedKeeps, DrainedKeeps
  <2>4. CASE Signal  BY <2>4, AskKeeps DEF Signal
  <2>5. CASE Leave  BY <2>5, GoneKeeps DEF Leave
  <2>6. ASSUME NEW ok \in BOOLEAN, ReplaceStart(ok) \/ ReplaceStep(ok) \/ Disposed(ok)
        PROVE  GInv'
    BY <2>6, ReplaceStartKeeps, ReplaceStepKeeps, DisposedKeeps
  <2>7. ASSUME NEW ok \in BOOLEAN, NEW late \in BOOLEAN, SessionsDrained(ok, late)
        PROVE  GInv'
    BY <2>7, SessionsDrainedKeeps
  <2> QED  BY <1>1, <2>1, <2>2, <2>3, <2>4, <2>5, <2>6, <2>7 DEF GNext
<1>2. CASE Pause \/ Resume  BY <1>2, PauseKeeps, ResumeKeeps
<1>3. CASE Gone  BY <1>3, GoneKeeps
<1>4. CASE ~Alive /\ Boot  BY <1>4, BootKeeps
<1>5. CASE Alive /\ \E who \in {"signal", "admin"} : Ask(who)
  BY <1>5, AskKeeps DEF Alive
<1>6. CASE UNCHANGED gvars
  BY <1>6 DEF gvars, GInv, GTypeOK, Process, Idle, Joined, Built, Busy, Quiet, Closing
<1> QED  BY <1>1, <1>2, <1>3, <1>4, <1>5, <1>6 DEF Moves

\* What a gateway does makes no instance, nor a process where there is none.
LEMMA GNextInstance ==
  ASSUME GInv, GNext
  PROVE  UNCHANGED instance /\ (~Alive => ~Alive')
<1> USE DEF life, Alive
<1>1. CASE \/ \E c \in Calls : \/ Request(c) \/ Background(c) \/ Use(c) \/ Finish(c)
                              \/ \E ok \in BOOLEAN : CloseSession(c, ok)
           \/ Saved \/ Join
  BY <1>1 DEF Request, Background, Use, Finish, CloseSession, Saved, Join
<1>2. CASE Signal \/ Leave  BY <1>2 DEF Signal, Ask, Leave, Gone
<1>3. CASE Stopped \/ Drained \/ \E ok, late \in BOOLEAN : SessionsDrained(ok, late)
  <2>1. sd # "none"  BY <1>3 DEF Stopped, Drained, SessionsDrained
  <2>2. Alive  BY <2>1 DEF GInv, Process
  <2>3. UNCHANGED instance  BY <1>3 DEF Stopped, Drained, SessionsDrained, GiveUp, Gone
  <2> QED  BY <2>2, <2>3
<1>4. ASSUME NEW ok \in BOOLEAN, ReplaceStart(ok) \/ ReplaceStep(ok) \/ Disposed(ok)
      PROVE  UNCHANGED instance /\ (~Alive => ~Alive')
  <2>1. repl # "none" \/ sd # "none" \/ phase = "running"
    BY <1>4 DEF ReplaceStart, ReplaceStep, Disposed
  <2>2. Alive  BY <2>1 DEF GInv, Process
  <2>3. UNCHANGED instance  BY <1>4 DEF ReplaceStart, ReplaceStep, Disposed, Gone
  <2> QED  BY <2>2, <2>3
<1> QED  BY <1>1, <1>2, <1>3, <1>4 DEF GNext

\* Only a boot makes an instance, and only where none was alive.
LEMMA MovesInstance ==
  ASSUME GInv, Moves
  PROVE  (UNCHANGED instance /\ (~Alive => ~Alive')) \/ (~Alive /\ Boot)
  BY GNextInstance DEF Moves, Alive, life, Pause, Resume, Gone, Ask, gvars

LEMMA StepMoves == [Next]_vars => Moves
<1> SUFFICES ASSUME [Next]_vars PROVE Moves
  OBVIOUS
<1>1. CASE Gateway  BY <1>1 DEF Gateway, Moves, Killed
<1>2. CASE Begin \/ Applied \/ Restored \/ Healthy \/ Unhealthy \/ Dies \/ Again
  BY <1>2 DEF Begin, Applied, Restored, Healthy, Unhealthy, Dies, Again, Moves
<1>3. CASE PauseFails \/ TakeBack  BY <1>3 DEF PauseFails, TakeBack, Moves
<1>4. CASE StopAsked
  <2>1. Alive \/ UNCHANGED gvars  BY <1>4 DEF StopAsked
  <2> QED  BY <1>4, <2>1 DEF StopAsked, AdminStop, Moves
<1>5. CASE Start  BY <1>5 DEF Start, Moves
<1>6. CASE StartOutside
  <2>1. CASE Launched  BY <2>1 DEF Launched, Moves, Alive
  <2>2. CASE StartAsked \/ PidSaved \/ SeenReady \/ StartFails \/ StarterLost
    BY <2>2 DEF StartAsked, PidSaved, SeenReady, StartFails, StarterLost, Moves
  <2>3. CASE Reaped  BY <2>3 DEF Reaped, Moves
  <2> QED  BY <1>6, <2>1, <2>2, <2>3 DEF StartOutside, StartNext
<1>7. ASSUME NEW yes \in BOOLEAN, PauseAnswered(yes) \/ StopAnswered(yes) \/ Left(yes)
      PROVE  Moves
  BY <1>7 DEF PauseAnswered, StopAnswered, Left, Moves
<1>8. ASSUME NEW f \in Files, Apply(f) \/ Restore(f) \/ Edit(f)
      PROVE  Moves
  BY <1>8 DEF Apply, Restore, Edit, Moves
<1>9. CASE UNCHANGED vars  BY <1>9 DEF vars, Moves
<1> QED  BY <1>1, <1>2, <1>3, <1>4, <1>5, <1>6, <1>7, <1>8, <1>9 DEF Next

----------------------------------------------------------------------------
(* The launcher.                                                           *)

\* A launch that is over stays over whatever becomes of the gateway.
LEMMA LaunchStays ==
  ASSUME GInv, Moves, STypeOK, Launch, StartsToldTrue, UNCHANGED starter
  PROVE  STypeOK' /\ Launch' /\ StartsToldTrue'
<1>1. STypeOK'  BY DEF STypeOK
<1>2. instance \in Nat /\ starter.of \in Nat  BY DEF GInv, GTypeOK, STypeOK
<1>3. CASE UNCHANGED instance /\ (~Alive => ~Alive')
  BY <1>1, <1>3 DEF Launch, StartsToldTrue, Own, Alive
<1>4. CASE ~Alive /\ Boot
  <2>1. instance' = instance + 1  BY <1>4 DEF Boot
  <2>2. ~Own' /\ starter'.of <= instance'  BY <1>2, <2>1 DEF Launch, Own
  <2> QED  BY <1>1, <2>2 DEF Launch, StartsToldTrue
<1> QED  BY <1>3, <1>4, MovesInstance

LEMMA OverType ==
  ASSUME STypeOK, NEW record \in {"none", "ready", "failed"}, NEW told \in {"ready", "failed"},
         Over(record, told)
  PROVE  STypeOK'
  BY DEF Over, STypeOK

LEMMA StarterKeeps ==
  ASSUME GInv, GInv', STypeOK, Launch, StartsToldTrue, StartAsked \/ Launched \/ StartNext
  PROVE  STypeOK' /\ Launch' /\ StartsToldTrue'
<1>1. instance \in Nat /\ instance > 0 /\ starter.of \in Nat
  BY DEF GInv, GTypeOK, Process, STypeOK
<1> USE <1>1 DEF STypeOK, Launch, StartsToldTrue, Own
<1>2. CASE StartAsked
  <2>1. UNCHANGED <<phase, instance>> /\ starter.at = "idle"  BY <1>2 DEF StartAsked, gvars
  <2>2. starter.of = 0 /\ starter.told = "none"  BY <2>1
  <2>3. CASE Over("none", "failed")
    <3>1. starter' = [starter EXCEPT !.at = "over", !.record = "none", !.told = "failed"]
      BY <2>3 DEF Over
    <3>2. STypeOK' /\ starter'.of = 0 /\ starter'.at = "over" /\ starter'.told = "failed"
      BY <2>2, <3>1
    <3> QED  BY <2>1, <3>2
  <2>4. CASE starter' = [starter EXCEPT !.at = "launching", !.record = "starting"]
    BY <2>1, <2>2, <2>4
  <2> QED  BY <1>2, <2>3, <2>4 DEF StartAsked
<1>3. CASE Launched
  <2>1. CASE UNCHANGED gvars /\ starter' = [starter EXCEPT !.at = "spawned"]
    BY <1>3, <2>1 DEF Launched, gvars
  <2>2. CASE Boot /\ starter' = [starter EXCEPT !.at = "spawned", !.of = instance + 1]
    <3>1. instance' = instance + 1 /\ starter'.of = instance + 1  BY <2>2 DEF Boot
    <3>2. starter'.at = "spawned" /\ starter'.told = starter.told /\ starter'.record = starter.record
      BY <2>2
    <3>3. STypeOK'
      <4>1. instance + 1 \in Nat  OBVIOUS
      <4> QED  BY <2>2, <4>1
    <3> QED  BY <1>3, <3>1, <3>2, <3>3 DEF Launched
  <2> QED  BY <1>3, <2>1, <2>2 DEF Launched
<1>4. CASE PidSaved  BY <1>4 DEF PidSaved, gvars
<1>5. CASE SeenReady  BY <1>5 DEF SeenReady, Over, gvars
<1>6. CASE StartFails  BY <1>6 DEF StartFails, Over, gvars
<1>7. CASE Reaped
  <2>1. CASE starter.at = "killing" /\ (IF Own THEN Gone ELSE UNCHANGED gvars) /\ Over("failed", "failed")
    <3>1. ~Own' /\ UNCHANGED instance
      BY <2>1 DEF Gone, gvars, Over
    <3> QED  BY <2>1, <3>1 DEF Over
  <2>2. CASE /\ starter.at = "killing" /\ UNCHANGED gvars
             /\ starter' = [starter EXCEPT !.at = "unreaped", !.record = "failed", !.told = "unknown"]
    BY <2>2 DEF gvars
  <2>3. CASE Gone /\ UNCHANGED starter  BY <2>3 DEF Gone
  <2> QED  BY <1>7, <2>1, <2>2, <2>3 DEF Reaped
<1>8. CASE StarterLost  BY <1>8 DEF StarterLost, gvars
<1> QED  BY <1>2, <1>3, <1>4, <1>5, <1>6, <1>7, <1>8 DEF StartNext

----------------------------------------------------------------------------
(* The upgrade: every step of it keeps what is said of it.                 *)

UInv == UTypeOK /\ Locked /\ Stage /\ Still /\ WholeUnlessLocked

LEMMA BeginKeeps ==
  ASSUME GInv, UInv, Begin
  PROVE  UInv'
<1> USE DEF UInv, disk, beside, gvars
<1>1. UTypeOK'
  BY DEF Begin, Return, Old, New, UTypeOK, Before, Bounds, Trees
<1>2. Locked'
  BY DEF Begin, Return, Locked
<1>3. Stage'
  BY DEF Begin, Return, Old, Stage, Checking
<1>4. Still'
  BY DEF Begin, Return, Still
<1>5. WholeUnlessLocked'
  BY DEF Begin, Return, Old, Stage, WholeUnlessLocked
<1> QED  BY <1>1, <1>2, <1>3, <1>4, <1>5

LEMMA PauseAnsweredKeeps ==
  ASSUME GInv, UInv, NEW right \in BOOLEAN, PauseAnswered(right)
  PROVE  UInv'
<1> USE DEF UInv, disk, beside, gvars
<1>1. UTypeOK'
  BY DEF PauseAnswered, Go, GInv, GTypeOK, UTypeOK, Before
<1>2. Locked'
  BY DEF PauseAnswered, Go, Locked
<1>3. Stage'
  BY DEF PauseAnswered, Go, Old, Stage, Before, Checking
<1>4. Still'
  BY DEF PauseAnswered, Go, Still
<1>5. WholeUnlessLocked'
  BY DEF PauseAnswered, Go, Locked, WholeUnlessLocked
<1> QED  BY <1>1, <1>2, <1>3, <1>4, <1>5

LEMMA PauseFailsKeeps ==
  ASSUME GInv, UInv, PauseFails
  PROVE  UInv'
<1> USE DEF UInv, disk, beside, gvars
<1>1. UTypeOK'
  BY DEF PauseFails, Pause, Return, UTypeOK
<1>2. Locked'
  BY DEF PauseFails, Return, Locked
<1>3. Stage'
  BY DEF PauseFails, Return, Old, UTypeOK, Stage, Checking, Undoing
<1>4. Still'
  BY DEF PauseFails, Return, Still
<1>5. WholeUnlessLocked'
  BY DEF PauseFails, Return, Old, Stage, WholeUnlessLocked, Before
<1> QED  BY <1>1, <1>2, <1>3, <1>4, <1>5

LEMMA TakeBackKeeps ==
  ASSUME GInv, UInv, TakeBack
  PROVE  UInv'
<1> USE DEF UInv, disk, beside, gvars
<1>1. UTypeOK'
  BY DEF TakeBack, Resume, Go, Return, Stuck, UTypeOK, Before
<1>2. Locked'
  BY DEF TakeBack, Go, Return, Stuck, Locked
<1>3. Stage'
  BY DEF TakeBack, Go, Return, Stuck, Old, Stage, Before, Checking
<1>4. Still'
  BY DEF TakeBack, Go, Return, Stuck, Still
<1>5. WholeUnlessLocked'
  BY DEF TakeBack, Go, Return, Stuck, Old, Locked, Stage, WholeUnlessLocked, Before
<1> QED  BY <1>1, <1>2, <1>3, <1>4, <1>5

LEMMA StopAskedKeeps ==
  ASSUME GInv, UInv, StopAsked
  PROVE  UInv'
<1> USE DEF UInv, disk, beside, gvars
<1>1. UTypeOK'
  BY DEF StopAsked, StopFails, Go, Stuck, First, UTypeOK, Before, Undoing
<1>2. Locked'
  BY DEF StopAsked, StopFails, Go, Stuck, First, Locked
<1>3. Stage'
  BY DEF StopAsked, StopFails, Go, Stuck, First, Old, Stage, Before, Checking, Undone
<1>4. Still'
  BY DEF StopAsked, StopFails, Go, Stuck, First, Still
<1>5. WholeUnlessLocked'
  BY DEF StopAsked, StopFails, Go, Stuck, First, Locked, WholeUnlessLocked
<1> QED  BY <1>1, <1>2, <1>3, <1>4, <1>5

LEMMA StopAnsweredKeeps ==
  ASSUME GInv, UInv, NEW ok \in BOOLEAN, StopAnswered(ok)
  PROVE  UInv'
<1> USE DEF UInv, disk, beside, gvars
<1>1. UTypeOK'
  BY DEF StopAnswered, StopFails, Go, Stuck, First, UTypeOK, Before, Undoing
<1>2. Locked'
  BY DEF StopAnswered, StopFails, Go, Stuck, First, Locked
<1>3. Stage'
  BY DEF StopAnswered, StopFails, Go, Stuck, First, Old, Stage, Before, Checking, Undone
<1>4. Still'
  BY DEF StopAnswered, StopFails, Go, Stuck, First, Still
<1>5. WholeUnlessLocked'
  BY DEF StopAnswered, StopFails, Go, Stuck, First, Locked, WholeUnlessLocked
<1> QED  BY <1>1, <1>2, <1>3, <1>4, <1>5

LEMMA LeftKeeps ==
  ASSUME GInv, UInv, NEW ok \in BOOLEAN, Left(ok)
  PROVE  UInv'
<1> USE DEF UInv, disk, beside, gvars
<1>1. UTypeOK'
  BY DEF Left, StopFails, Go, Stuck, Note, UTypeOK, Before, Undoing
<1>2. Locked'
  BY DEF Left, StopFails, Go, Stuck, Note, Locked
<1>3. Stage'
  BY DEF Left, StopFails, Go, Stuck, Note, Old, Stage, Before, Checking, Undone
<1>4. Still'
  BY DEF Left, StopFails, Go, Stuck, Note, Alive, Still
<1>5. WholeUnlessLocked'
  BY DEF Left, StopFails, Go, Stuck, Note, Locked, WholeUnlessLocked
<1> QED  BY <1>1, <1>2, <1>3, <1>4, <1>5

LEMMA ApplyKeeps ==
  ASSUME GInv, UInv, NEW f \in Files, Apply(f)
  PROVE  UInv'
<1> USE DEF UInv, disk, beside, gvars
<1>1. UTypeOK'
  BY DEF Apply, UTypeOK, Undoing, Trees
<1>2. Locked'
  BY DEF Apply, Locked
<1>3. Stage'
  BY DEF Apply, Locked, Stage, Before, Checking, Undone
<1>4. Still'
  BY DEF Apply, Alive, Still
<1>5. WholeUnlessLocked'
  <2>1. lock /\ lock' /\ step' # "over"  BY DEF Apply, Locked
  <2>2. ASSUME NEW g \in Files, file'[g] = "after" PROVE g \in applied'
    BY <2>1, <2>2 DEF Apply, UTypeOK, Trees, WholeUnlessLocked
  <2> QED  BY <2>1, <2>2 DEF WholeUnlessLocked
<1> QED  BY <1>1, <1>2, <1>3, <1>4, <1>5

LEMMA AppliedKeeps ==
  ASSUME GInv, UInv, Applied
  PROVE  UInv'
<1> USE DEF UInv, disk, beside, gvars
<1>1. UTypeOK'
  BY DEF Applied, Note, Go, UTypeOK, Checking, Undoing
<1>2. Locked'
  BY DEF Applied, Note, Go, Locked
<1>3. Stage'
  BY DEF Applied, Note, Go, Old, New, Stage, Locked, Before, Checking, Undoing, Undone
<1>4. Still'
  BY DEF Applied, Alive, Still
<1>5. WholeUnlessLocked'
  BY DEF Applied, Note, Go, Locked, WholeUnlessLocked
<1> QED  BY <1>1, <1>2, <1>3, <1>4, <1>5

LEMMA RestoreKeeps ==
  ASSUME GInv, UInv, NEW f \in Files, Restore(f)
  PROVE  UInv'
<1> USE DEF UInv, disk, beside, gvars
<1>1. UTypeOK'
  <2>1. file' \in Trees  BY DEF Restore, UTypeOK, Trees
  <2>2. /\ step' \in {"restoring", "over"} /\ result' \in {result, "recovery-required"}
        /\ journal' \in {journal, "recovery-required"} /\ lock' = lock
        /\ UNCHANGED <<plan, marker, applied, target, code>>
    BY DEF Restore, Go, Stuck
  <2> QED  BY <2>1, <2>2 DEF UTypeOK, Undoing
<1>2. Locked'
  BY DEF Restore, Go, Stuck, Locked
<1>3. Stage'
  BY DEF Restore, Go, Stuck, Old, New, Stage, Before, Checking, Undoing, Undone
<1>4. Still'
  BY DEF Restore, Alive, Still
<1>5. WholeUnlessLocked'
  <2>1. lock /\ lock' /\ (step' = "over" => result' = "recovery-required")
    BY DEF Restore, Go, Stuck, Locked
  <2>2. ASSUME NEW g \in Files, file'[g] = "after" PROVE g \in applied'
    BY <2>1, <2>2 DEF Restore, UTypeOK, Trees, WholeUnlessLocked
  <2> QED  BY <2>1, <2>2 DEF WholeUnlessLocked
<1> QED  BY <1>1, <1>2, <1>3, <1>4, <1>5

LEMMA RestoredKeeps ==
  ASSUME GInv, UInv, Restored
  PROVE  UInv'
<1> USE DEF UInv, disk, beside, gvars
<1>1. UTypeOK'
  BY DEF Restored, Go, UTypeOK, Undone
<1>2. Locked'
  BY DEF Restored, Go, Locked
<1>3. Stage'
  BY DEF Restored, Go, Old, Stage, WholeUnlessLocked, Checking
<1>4. Still'
  BY DEF Restored, Go, Still
<1>5. WholeUnlessLocked'
  BY DEF Restored, Go, Locked, WholeUnlessLocked
<1> QED  BY <1>1, <1>2, <1>3, <1>4, <1>5

LEMMA StartKeeps ==
  ASSUME GInv, UInv, Start
  PROVE  UInv'
<1> USE DEF UInv, disk, beside, gvars
<1>1. UTypeOK'
  <2>1. target' \in Nat /\ code' \in [own : BOOLEAN, files : Trees]
    <3>1. CASE Alive  BY <3>1 DEF Start, UTypeOK
    <3>2. CASE ~Alive
      <4>1. instance + 1 \in Nat /\ [own |-> TRUE, files |-> file] \in [own : BOOLEAN, files : Trees]
        BY DEF GInv, GTypeOK, UTypeOK
      <4> QED  BY <3>2, <4>1 DEF Start
    <3> QED  BY <3>1, <3>2
  <2> QED  BY <2>1 DEF Start, Go, UTypeOK, Checking, Undone
<1>2. Locked'
  BY DEF Start, Go, Locked
<1>3. Stage'
  BY DEF Start, Go, Old, New, Stage, Before, Checking, Undone
<1>4. Still'
  BY DEF Start, Go, Still
<1>5. WholeUnlessLocked'
  BY DEF Start, Go, Locked, WholeUnlessLocked
<1> QED  BY <1>1, <1>2, <1>3, <1>4, <1>5

LEMMA HealthyKeeps ==
  ASSUME GInv, UInv, Healthy
  PROVE  UInv'
<1> USE DEF UInv, disk, beside, gvars
<1>1. UTypeOK'
  BY DEF Healthy, Return, UTypeOK
<1>2. Locked'
  BY DEF Healthy, Return, Locked
<1>3. Stage'
  BY DEF Healthy, Return, Old, Stage, Before, Checking, Undone
<1>4. Still'
  BY DEF Healthy, Return, Still
<1>5. WholeUnlessLocked'
  BY DEF Healthy, Return, Old, New, Stage, WholeUnlessLocked, Checking, Undone
<1> QED  BY <1>1, <1>2, <1>3, <1>4, <1>5

LEMMA UnhealthyKeeps ==
  ASSUME GInv, UInv, Unhealthy
  PROVE  UInv'
<1> USE DEF UInv, disk, beside, gvars
<1>1. UTypeOK'
  BY DEF Unhealthy, Go, Stuck, UTypeOK, Undoing
<1>2. Locked'
  BY DEF Unhealthy, Go, Stuck, Locked
<1>3. Stage'
  BY DEF Unhealthy, Go, Stuck, Locked, Stage, Before, Checking, Undone
<1>4. Still'
  BY DEF Unhealthy, Go, Stuck, Still
<1>5. WholeUnlessLocked'
  BY DEF Unhealthy, Go, Stuck, Locked, WholeUnlessLocked
<1> QED  BY <1>1, <1>2, <1>3, <1>4, <1>5

LEMMA DiesKeeps ==
  ASSUME GInv, UInv, Dies
  PROVE  UInv'
<1> USE DEF UInv, disk, beside, gvars
<1>1. UTypeOK'
  BY DEF Dies, UTypeOK
<1>2. Locked'
  BY DEF Dies, Locked
<1>3. Stage'
  BY DEF Dies, Old, Stage, Before, Checking, Undone
<1>4. Still'
  BY DEF Dies, Still
<1>5. WholeUnlessLocked'
  BY DEF Dies, Old, Stage, WholeUnlessLocked
<1> QED  BY <1>1, <1>2, <1>3, <1>4, <1>5

LEMMA EditKeeps ==
  ASSUME GInv, UInv, NEW f \in Files, Edit(f)
  PROVE  UInv'
<1> USE DEF UInv, disk, beside, gvars
<1>1. Locked' /\ Still'
  BY DEF Edit, Alive, Locked, Still
<1>2. UTypeOK'
  BY DEF Edit, Spend, UTypeOK, Bounds, Trees
<1>3. Stage'
  BY DEF Edit, Old, New, Stage
<1>4. WholeUnlessLocked'
  BY DEF Edit, Old, New, WholeUnlessLocked
<1> QED  BY <1>1, <1>2, <1>3, <1>4

LEMMA AgainKeeps ==
  ASSUME GInv, UInv, Again
  PROVE  UInv'
<1> USE DEF UInv, disk, beside, gvars
<1>1. UTypeOK'
  BY DEF Again, Spend, UTypeOK, Bounds
<1>2. Locked'
  BY DEF Again, Locked
<1>3. Stage'
  BY DEF Again, Old, Stage, Before, Checking, Undone
<1>4. Still'
  BY DEF Again, Still
<1>5. WholeUnlessLocked'
  BY DEF Again, Old, WholeUnlessLocked
<1> QED  BY <1>1, <1>2, <1>3, <1>4, <1>5

\* A step of the gateway alone: the installation is left alone, and no gateway of it comes up.
LEMMA GatewayKeeps ==
  ASSUME UInv, UNCHANGED <<disk, lock, step, target, result, journal>>, plan' \in Bounds,
         code' \in [own : BOOLEAN, files : Trees], (UNCHANGED code /\ (~Alive => ~Alive')) \/ ~code'.own
  PROVE  UInv'
<1> USE DEF UInv, disk
<1>1. UTypeOK' /\ Locked'  BY DEF UTypeOK, Locked
<1>2. Stage' /\ WholeUnlessLocked'  BY DEF Stage, Old, New, WholeUnlessLocked
<1>3. Still'  BY DEF Still
<1> QED  BY <1>1, <1>2, <1>3

LEMMA SpendType ==
  ASSUME plan \in Bounds, NEW what \in {"edits", "kills", "outside", "again"}, Spend(what)
  PROVE  plan' \in Bounds
<1>1. CASE what = "edits"  BY <1>1 DEF Spend, Bounds
<1>2. CASE what = "kills"  BY <1>2 DEF Spend, Bounds
<1>3. CASE what = "outside"  BY <1>3 DEF Spend, Bounds
<1>4. CASE what = "again"  BY <1>4 DEF Spend, Bounds
<1> QED  BY <1>1, <1>2, <1>3, <1>4

LEMMA OutsideKeeps == ASSUME GInv, UInv, Gateway \/ StartOutside PROVE UInv'
<1>1. plan \in Bounds /\ code \in [own : BOOLEAN, files : Trees] /\ file \in Trees /\ instance \in Nat
  BY DEF UInv, UTypeOK, GInv, GTypeOK
<1> USE DEF uvars, Alive
<1>2. CASE GNext /\ UNCHANGED <<starter, uvars>>
  BY <1>1, <1>2, GNextInstance, GatewayKeeps
<1>3. CASE Spend("kills") /\ Killed /\ UNCHANGED <<starter, disk, lock, step, target, result, journal, code>>
  BY <1>1, <1>3, SpendType, GatewayKeeps DEF Killed, Gone
<1>4. CASE Spend("outside") /\ StartAsked /\ UNCHANGED <<disk, lock, step, target, result, journal, code>>
  BY <1>1, <1>4, SpendType, GatewayKeeps DEF StartAsked, gvars
<1>5. CASE /\ Launched
           /\ code' = IF instance' = instance THEN code ELSE [own |-> FALSE, files |-> file]
           /\ UNCHANGED <<plan, disk, lock, step, target, result, journal>>
  <2>1. CASE UNCHANGED gvars  BY <1>1, <1>5, <2>1, GatewayKeeps DEF gvars
  <2>2. CASE Boot
    <3>1. instance' # instance  BY <1>1, <2>2 DEF Boot
    <3>2. code' = [own |-> FALSE, files |-> file]  BY <1>5, <3>1
    <3> QED  BY <1>1, <1>5, <3>2, GatewayKeeps
  <2> QED  BY <1>5, <2>1, <2>2 DEF Launched
<1>6. CASE StartNext /\ UNCHANGED uvars
  <2>1. UNCHANGED gvars \/ Gone
    BY <1>6 DEF StartNext, PidSaved, SeenReady, StartFails, Reaped, StarterLost
  <2>2. ~Alive => ~Alive'  BY <2>1 DEF gvars, Gone
  <2> QED  BY <1>1, <1>6, <2>2, GatewayKeeps
<1> QED  BY <1>2, <1>3, <1>4, <1>5, <1>6 DEF Gateway, StartOutside

----------------------------------------------------------------------------
(* The results.                                                            *)

LEMMA InitInvariant == Init => IInv
<1> SUFFICES ASSUME Init PROVE IInv
  OBVIOUS
<1>1. GInv
  <2>1. GTypeOK
    <3>1. live \in SUBSET Nat /\ using \in [Calls -> Nat] /\ waiting \in SUBSET {"signal", "admin"}
      BY DEF Init, GInit
    <3> QED  BY <3>1 DEF Init, GInit, GTypeOK, Phases, Modules, Stops
  <2>2. Process /\ Joined /\ Quiet /\ Closing
    BY DEF Init, GInit, Process, Joined, Quiet, Closing
  <2>3. Built  BY DEF Init, GInit, Built
  <2>4. Busy  BY DEF Init, GInit, Busy
  <2> QED  BY <2>1, <2>2, <2>3, <2>4 DEF GInv
<1>2. STypeOK /\ Launch /\ StartsToldTrue
  <2>1. starter = [at |-> "idle", of |-> 0, record |-> "none", told |-> "none"]
    BY DEF Init, Idler
  <2>2. instance = 1  BY DEF Init, GInit
  <2> QED  BY <2>1, <2>2 DEF STypeOK, Launch, StartsToldTrue
<1>3. UTypeOK
  <2>1. file \in Trees /\ code \in [own : BOOLEAN, files : Trees] /\ plan \in Bounds
    BY PlansAssumption DEF Init, Trees, Bounds
  <2> QED  BY <2>1 DEF Init, UTypeOK
<1>4. Locked /\ Stage /\ Still /\ WholeUnlessLocked
  BY DEF Init, Locked, Stage, Old, Still, WholeUnlessLocked, Checking
<1> QED  BY <1>1, <1>2, <1>3, <1>4 DEF IInv

LEMMA StepInvariant == IInv /\ [Next]_vars => IInv'
<1> SUFFICES ASSUME IInv, [Next]_vars PROVE IInv'
  OBVIOUS
<1> USE DEF IInv
<1>1. GInv'  BY StepMoves, MovesKeep
<1>2. STypeOK' /\ Launch' /\ StartsToldTrue'
  <2>1. CASE UNCHANGED starter  BY <2>1, StepMoves, LaunchStays
  <2>2. CASE StartAsked \/ Launched \/ StartNext  BY <2>2, <1>1, StarterKeeps
  <2>3. UNCHANGED starter \/ StartAsked \/ Launched \/ StartNext
    BY DEF Next, Gateway, Begin, PauseFails, TakeBack, StopAsked, Applied, Restored, Start,
       Healthy, Unhealthy, Dies, StartOutside, Again, PauseAnswered, StopAnswered, Left, Apply,
       Restore, Edit, beside, vars
  <2> QED  BY <2>1, <2>2, <2>3
<1>3. UInv'
  <2>1. GInv /\ UInv  BY DEF UInv
  <2>2. CASE Gateway \/ StartOutside  BY <2>1, <2>2, OutsideKeeps
  <2>3. CASE Begin \/ PauseFails \/ TakeBack \/ StopAsked  
    BY <2>1, <2>3, BeginKeeps, PauseFailsKeeps, TakeBackKeeps, StopAskedKeeps
  <2>4. CASE Applied \/ Restored \/ Start \/ Healthy \/ Unhealthy
    BY <2>1, <2>4, AppliedKeeps, RestoredKeeps, StartKeeps, HealthyKeeps, UnhealthyKeeps
  <2>5. CASE Dies \/ Again  BY <2>1, <2>5, DiesKeeps, AgainKeeps
  <2>6. ASSUME NEW yes \in BOOLEAN, PauseAnswered(yes) \/ StopAnswered(yes) \/ Left(yes)
        PROVE  UInv'
    BY <2>1, <2>6, PauseAnsweredKeeps, StopAnsweredKeeps, LeftKeeps
  <2>7. ASSUME NEW f \in Files, Apply(f) \/ Restore(f) \/ Edit(f)
        PROVE  UInv'
    BY <2>1, <2>7, ApplyKeeps, RestoreKeeps, EditKeeps
  <2>8. CASE UNCHANGED vars
    <3>1. UNCHANGED <<phase, uvars>>  BY <2>8 DEF vars, gvars
    <3> QED  BY <2>1, <3>1, GatewayKeeps DEF uvars, UInv, UTypeOK, Alive
  <2> QED  BY <2>2, <2>3, <2>4, <2>5, <2>6, <2>7, <2>8 DEF Next
<1> QED  BY <1>1, <1>2, <1>3 DEF UInv

THEOREM Invariant == Spec => []IInv
<1> QED  BY InitInvariant, StepInvariant, PTL DEF Spec

\* Every variable of the upgrade, the gateway and the launcher has its type.
THEOREM TypeCorrect == Spec => []TypeOK
<1>1. IInv => TypeOK  BY DEF IInv, GInv, TypeOK
<1> QED  BY <1>1, Invariant, PTL

\* Nobody works with an adapter that was cleaned up, and modules are disposed of only
\* when all calls are over and all results on disk.
THEOREM AdaptersAreKept == Spec => []AdaptersKept
<1>1. IInv => AdaptersKept
  <2> SUFFICES ASSUME GInv PROVE AdaptersKept
    BY DEF IInv
  <2> USE DEF GInv
  <2>1. NoneLeft  BY DEF NoneLeft, Built, Joined
  <2>2. modules \in {"disposing", "disposed"} /\ phase # "gone" => Idle /\ ~ramOnly /\ repl = "none"
    BY DEF Closing, Quiet, Joined
  <2>3. NoUseAfterClose
    <3> SUFFICES ASSUME NEW c \in Calls, using[c] # 0
                 PROVE  using[c] \in live /\ modules \notin {"disposing", "disposed"}
      BY DEF NoUseAfterClose
    <3>1. using[c] \in live /\ ~Idle  BY DEF Busy, Idle
    <3> QED  BY <3>1, <2>2 DEF Process
  <2> QED  BY <2>1, <2>2, <2>3 DEF AdaptersKept, CleanedWhenQuiet
<1> QED  BY <1>1, Invariant, PTL

\* Whoever is told that a start has failed has no gateway of that start left.
THEOREM StartsAreToldTrue == Spec => []StartsToldTrue
<1>1. IInv => StartsToldTrue  BY DEF IInv
<1> QED  BY <1>1, Invariant, PTL

\* Without the lock the installation is all old or all new, and as the result says.
THEOREM InstallationIsWhole == Spec => []WholeUnlessLocked
<1>1. IInv => WholeUnlessLocked  BY DEF IInv
<1> QED  BY <1>1, Invariant, PTL

\* Files and instances come from few actions.
LEMMA FileAndInstance ==
  ASSUME GInv, [Next]_vars
  PROVE  \/ UNCHANGED <<file, instance>> \/ Start \/ \E f \in Files : Apply(f) \/ Restore(f) \/ Edit(f)
         \/ UNCHANGED file /\ (instance' # instance => ~code'.own)
<1> USE DEF gvars, life, uvars, disk
<1>1. CASE Gateway  BY <1>1, GNextInstance DEF Gateway, Killed, Gone
<1>2. CASE PauseFails \/ TakeBack \/ StopAsked \/ \E yes \in BOOLEAN : PauseAnswered(yes)
  BY <1>2 DEF PauseFails, TakeBack, StopAsked, PauseAnswered, Pause, Resume, AdminStop, Ask
<1>3. CASE \/ Begin \/ Applied \/ Restored \/ Healthy \/ Unhealthy \/ Dies \/ Again
           \/ \E yes \in BOOLEAN : StopAnswered(yes) \/ Left(yes)
  BY <1>3 DEF Begin, Applied, Restored, Healthy, Unhealthy, Dies, Again, StopAnswered, Left
<1>4. CASE StartOutside
  <2>1. CASE Launched /\ code' = IF instance' = instance THEN code ELSE [own |-> FALSE, files |-> file]
    BY <1>4, <2>1 DEF StartOutside, StartAsked, StartNext
  <2>2. CASE StartAsked \/ StartNext
    BY <1>4, <2>2 DEF StartOutside, StartAsked, StartNext, PidSaved, SeenReady, StartFails, Reaped,
       StarterLost, Gone
  <2> QED  BY <1>4, <2>1, <2>2 DEF StartOutside
<1>5. CASE UNCHANGED vars  BY <1>5 DEF vars
<1> QED  BY <1>1, <1>2, <1>3, <1>4, <1>5 DEF Next

\* Files change only while no gateway of the installation is alive, and a gateway
\* that the upgrade starts runs from an installation in one piece.
THEOREM FilesAreQuiet == Spec => QuietFiles
<1> DEFINE Swap == \E f \in Files : file'[f] # file[f] /\ file'[f] # "other"
           Quietly == (Swap => ~Alive \/ ~code.own) /\ (instance' # instance /\ code'.own => Old \/ New)
<1>1. IInv /\ [Next]_vars => Quietly
  <2> SUFFICES ASSUME IInv, [Next]_vars PROVE Quietly
    OBVIOUS
  <2>1. CASE UNCHANGED file /\ (instance' # instance => ~code'.own)  BY <2>1
  <2>2. ASSUME NEW f \in Files, Apply(f) \/ Restore(f)
        PROVE  Quietly
    BY <2>2 DEF Apply, Restore, IInv, Still, gvars
  <2>3. ASSUME NEW f \in Files, Edit(f)
        PROVE  Quietly
    BY <2>3 DEF Edit, gvars
  <2>4. CASE Start
    <3>1. UNCHANGED file /\ step \in Checking \cup Undone  BY <2>4 DEF Start, disk, Checking, Undone
    <3> QED  BY <3>1 DEF IInv, Stage
  <2> QED  BY <2>1, <2>2, <2>3, <2>4, FileAndInstance DEF IInv
<1> QED  BY <1>1, Invariant, PTL DEF Spec, QuietFiles
==============================================================================
