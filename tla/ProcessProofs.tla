---------------------------- MODULE ProcessProofs ----------------------------
(***************************************************************************)
(* Proofs about CheckChannel and the pool of language servers in it, and   *)
(* about HostProcesses: the processes of a task and those of its host.     *)
(*                                                                         *)
(* The pool comes first: whatever the channel does with it is one of a few *)
(* moves, and each keeps PoolInv.  The channel's part says how the broker, *)
(* a check in progress and its group belong together (Working, Grouped),   *)
(* and follows a result from its receipt to the model and to the host      *)
(* (Answered, Received, Exported).                                         *)
(*                                                                         *)
(* A host runs one kind of thing, and each kind has an invariant of its    *)
(* own: CallsInv for calls, ReviewInv for a review, JobInv for a task;     *)
(* ChildInv is about the process that calls and reviews wait for.          *)
(***************************************************************************)
EXTENDS CheckChannel, HostProcesses, FiniteSetTheorems, SequenceTheorems, TLAPS

Keys == [file : Files \cup {"none"}, version : 0..1]
Leavers == [slot : Slots, own : BOOLEAN, how : {"asked", "killed", "dead"}]
Probing == {"draining", "admitted", "replacing", "asking"}
RunStates == {"idle", "done", "failing", "collapsing"} \cup Probing
Servers == [state : {"none", "live", "dead"}, key : Keys, timer : BOOLEAN]
Runs == [state : RunStates, slot : Slots, wanted : Keys, seen : Keys, aborted : BOOLEAN, ok : BOOLEAN]

PoolTypeOK ==
    /\ content \in [Files -> 0..1] /\ key \in Keys
    /\ server \in [Slots -> Servers]
    /\ leaving \in SUBSET Leavers /\ unclean \in SUBSET Slots /\ draining \in BOOLEAN
    /\ pool \in [closed : BOOLEAN, broken : BOOLEAN]
    /\ run \in Runs

Up(s) == server[s].state # "none"

\* A slot is free before a server comes into it, and what closeAll() sent away is awaited.
Placed ==
    /\ \A p \in leaving : ~Up(p.slot)
    /\ \A p, q \in leaving : p.slot = q.slot => p = q
    /\ \A p \in leaving : p.own \/ draining

\* Nothing is launched before closeAll() has settled.
Awaited == draining => \/ run.state \in {"draining", "collapsing"}
                       \/ pool.closed /\ run.state \in {"idle", "done"}

\* For which document the servers are, at each step of a probe.
Keyed ==
    /\ \A s \in Slots : Up(s) => server[s].key.file \in Files
    /\ run.state \in Probing => run.wanted.file \in Files
    /\ run.state \in {"replacing", "asking"} => run.seen.file \in Files
    /\ run.state \in {"idle", "done", "draining", "admitted"} => \A s \in Slots : Up(s) => server[s].key = key
    /\ run.state = "draining" => key \in {NoKey, run.wanted}
    /\ run.state \in {"admitted", "replacing", "asking"} =>
          key = run.wanted /\ \A s \in Slots \ {run.slot} : Up(s) => server[s].key = key
    /\ run.state = "replacing" => ~Up(run.slot)
    /\ run.state = "asking" /\ Up(run.slot) => server[run.slot].key = run.seen
    /\ run.state = "collapsing" => \A s \in Slots : ~Up(s)

PoolInv == PoolTypeOK /\ Placed /\ Awaited /\ Keyed

Receipts == [id : Nat, ok : BOOLEAN, clean : BOOLEAN]
Messages == [kind : {"check", "probe"}, id : Nat, ok : BOOLEAN]
Codes    == {"none", "clean", "failed"}
Proxies  == [checks : Nat, check : Nat, probes : Nat, probe : Nat]
Boots    == [check : Nat, probe : Nat, ended : BOOLEAN]
Brokers  == [state : {"up", "checks", "probes", "pool", "gone"}, check : Nat, aborted : BOOLEAN,
             failed : BOOLEAN, closed : BOOLEAN, probe : Nat, probesClosed : BOOLEAN, code : Codes]
Roots    == [step : {"none", "copying", "running", "cleaning", "signing", "recording"},
             fault : BOOLEAN, clean : BOOLEAN]
Tallies  == [attempts : Nat, chain : Seq(Receipts), clean : BOOLEAN]

ToolsTypeOK ==
    /\ pi \in Proxies
    /\ told \in SUBSET [id : Nat, ok : BOOLEAN]
    /\ boot \in Boots
    /\ model \in {"up", "clean", "failed"} /\ down \in Seq(Messages) /\ ipc \in Seq(Messages)

BrokerTypeOK ==
    /\ broker \in Brokers
    /\ root \in Roots
    /\ tally \in Tallies /\ groups \in SUBSET Nat

Terminals == [attempts : Nat, chain : Seq(Receipts), clean : BOOLEAN, code : Codes]
Jobs  == [state : {"running", "exported", "cleaned", "over"}, tally : Terminals, code : Codes, clean : BOOLEAN]
Hosts == [state : {"open", "done"}, receipts : Seq(Receipts),
          terminal : BOOLEAN, failed : BOOLEAN, ok : BOOLEAN]

EndTypeOK == job \in Jobs /\ host \in Hosts

TypeOK == PoolTypeOK /\ ToolsTypeOK /\ BrokerTypeOK /\ EndTypeOK

\* What the broker has in hand, and what is over once it has waited for it.
Working ==
    /\ broker.check = 0 <=> root.step = "none"
    /\ broker.probe = 0 <=> run.state = "idle"
    /\ model = "up" => broker.state = "up"
    /\ broker.state \in {"probes", "pool", "gone"} => broker.check = 0
    /\ broker.state \in {"pool", "gone"} => broker.probe = 0
    /\ broker.state = "pool" => (\A s \in Slots : ~Up(s)) /\ \A p \in leaving : ~p.own

\* Only a check in progress has a group, unless the task has failed.
Grouped ==
    /\ broker.state # "gone" /\ ~broker.failed =>
          /\ broker.check = 0 => groups = {}
          /\ groups \subseteq {broker.check}
          /\ root.step \in {"signing", "recording"} /\ root.clean => groups = {}
    /\ broker.code = "clean" => /\ broker.state = "gone" /\ groups = {} /\ leaving = {}
                                /\ \A s \in Slots : ~Up(s)

\* A result has its receipt in the tally before anybody is told of it.
Holds(chain, m) == \E n \in 1..Len(chain) : chain[n].id = m.id /\ chain[n].ok = m.ok

Answered ==
    /\ \A t \in told : Holds(tally.chain, t)
    /\ \A n \in 1..Len(down) : down[n].kind = "check" => Holds(tally.chain, down[n])
    /\ \A n \in 1..Len(ipc) : ipc[n].kind = "check" => Holds(tally.chain, ipc[n])

\* The host takes receipts in the order of the attempts.
Received == \A n \in 1..Len(host.receipts) :
    host.receipts[n].id = n /\ (host.failed \/ host.receipts[n].clean)

\* From the end of the broker on the tally stands, and a terminal record is about it.
Exported ==
    /\ job.state \in {"exported", "cleaned"} =>
          /\ broker.state = "gone"
          /\ job.tally.attempts = tally.attempts /\ job.tally.chain = tally.chain
    /\ host.state = "done" => broker.state = "gone" /\ job.state = "over"
    /\ host.terminal /\ ~host.failed =>
          /\ broker.state = "gone" /\ job.state = "over"
          /\ tally.attempts = Len(host.receipts) /\ tally.chain = host.receipts
    /\ host.ok => host.terminal /\ ~host.failed /\ host.state = "done"

IInv == TypeOK /\ Placed /\ Awaited /\ Keyed /\ Working /\ Grouped /\ Answered /\ Received /\ Exported

-----------------------------------------------------------------------------
(* The pool.                                                               *)

LEMMA InSlot ==
  ASSUME PoolTypeOK, NEW f, NEW r
  PROVE  SlotOf(f, r) \in Slots
  BY DEF SlotOf, Slots

LEMMA StoppedServers ==
  ASSUME PoolTypeOK, NEW s \in Slots, NEW force \in BOOLEAN
  PROVE  /\ \A p \in Stopped(s, force) : p \in Leavers /\ p.slot = s /\ p.own /\ Up(s)
         /\ \A p, q \in Stopped(s, force) : p = q
<1> DEFINE Way == IF server[s].state = "dead" THEN "dead" ELSE IF force THEN "killed" ELSE "asked"
           one == [slot |-> s, own |-> TRUE, how |-> Way]
<1>1. Way \in {"asked", "killed", "dead"}  OBVIOUS
<1>2. one \in Leavers /\ one.slot = s /\ one.own
  <2> HIDE DEF Way
  <2> QED  BY <1>1 DEF Leavers
<1>3. Stopped(s, force) = IF Up(s) THEN {one} ELSE {}  BY DEF Stopped, Up
<1> QED  BY <1>2, <1>3

LEMMA Disposed ==
  ASSUME PoolTypeOK, Placed, NEW s \in Slots, NEW force \in BOOLEAN, Dispose(s, force), draining' = draining
  PROVE  /\ server' \in [Slots -> Servers]
         /\ leaving' \in SUBSET Leavers /\ Placed'
         /\ server'[s] = NoServer /\ \A t \in Slots \ {s} : server'[t] = server[t]
<1>1. NoServer \in Servers
  BY DEF NoServer, NoKey, Keys, Servers
<1>2. /\ server' \in [Slots -> Servers]
      /\ server'[s] = NoServer /\ \A t \in Slots \ {s} : server'[t] = server[t]
  BY <1>1 DEF Dispose, PoolTypeOK
<1>3. leaving' \in SUBSET Leavers  BY StoppedServers DEF Dispose, PoolTypeOK
<1>4. Placed'
  BY <1>2, StoppedServers DEF Dispose, Placed, Up, NoServer
<1> QED  BY <1>2, <1>3, <1>4

LEMMA ClosedAll ==
  ASSUME PoolTypeOK, Placed, CloseAll
  PROVE  /\ server' \in [Slots -> Servers]
         /\ leaving' \in SUBSET Leavers /\ Placed' /\ key' = NoKey /\ key' \in Keys /\ draining'
         /\ \A s \in Slots : ~Up(s)'
         /\ \A p \in leaving' : ~p.own
<1> DEFINE All == leaving \cup UNION {Stopped(s, FALSE) : s \in Slots}
<1>0. \A s \in Slots : /\ \A p \in Stopped(s, FALSE) : p \in Leavers /\ p.slot = s /\ Up(s)
                      /\ \A p, q \in Stopped(s, FALSE) : p = q
  BY StoppedServers
<1>a. \A p \in All : p \in leaving \/ \E s \in Slots : p \in Stopped(s, FALSE)
  OBVIOUS
<1>b. \A p \in All : p \in leaving \/ Up(p.slot)
  <2> SUFFICES ASSUME NEW p \in All, p \notin leaving PROVE Up(p.slot)
    OBVIOUS
  <2>1. PICK s \in Slots : p \in Stopped(s, FALSE)  BY <1>a
  <2> QED  BY <2>1, <1>0 DEF Up
<1>3. leaving' = {[p EXCEPT !.own = FALSE] : p \in All}  BY DEF CloseAll
<1> HIDE DEF All
<1>1. All \in SUBSET Leavers  BY <1>0, <1>a DEF PoolTypeOK
<1>2. \A p, q \in All : p.slot = q.slot => p = q
  <2> SUFFICES ASSUME NEW p \in All, NEW q \in All, p.slot = q.slot PROVE p = q
    OBVIOUS
  <2>1. CASE p \in leaving /\ q \in leaving  BY <2>1 DEF Placed
  <2>2. CASE p \in leaving /\ q \notin leaving  BY <2>2, <1>b DEF Placed
  <2>3. CASE p \notin leaving /\ q \in leaving  BY <2>3, <1>b DEF Placed
  <2>4. CASE p \notin leaving /\ q \notin leaving  BY <2>4, <1>0, <1>a
  <2> QED  BY <2>1, <2>2, <2>3, <2>4
<1>4. leaving' \in SUBSET Leavers /\ \A p \in leaving' : ~p.own
  <2> SUFFICES ASSUME NEW p \in All
               PROVE  [p EXCEPT !.own = FALSE] \in Leavers /\ ~[p EXCEPT !.own = FALSE].own
    BY <1>3
  <2> QED  BY <1>1 DEF Leavers
<1>5. \A p, q \in leaving' : p.slot = q.slot => p = q
  <2> SUFFICES ASSUME NEW p \in All, NEW q \in All,
                      [p EXCEPT !.own = FALSE].slot = [q EXCEPT !.own = FALSE].slot
               PROVE  [p EXCEPT !.own = FALSE] = [q EXCEPT !.own = FALSE]
    BY <1>3
  <2>1. p.slot = q.slot  BY <1>1 DEF Leavers
  <2> QED  BY <2>1, <1>2
<1>6. /\ server' \in [Slots -> Servers]
      /\ \A s \in Slots : ~Up(s)'
  BY DEF CloseAll, NoServer, NoKey, Keys, Up, Servers
<1>7. key' = NoKey /\ key' \in Keys /\ draining'  BY DEF CloseAll, NoKey, Keys
<1>8. Placed'
  BY <1>4, <1>5, <1>6, <1>7 DEF Placed, Leavers
<1> QED  BY <1>4, <1>6, <1>7, <1>8

LEMMA Asked ==
  ASSUME PoolInv, NEW k \in Keys, k.file \in Files, run.state \in {"admitted", "replacing"}, SlotEmpty, Ask(k),
         Up(run.slot) => server[run.slot].key = k,
         UNCHANGED <<content, key, unclean, draining, pool>>
  PROVE  PoolInv'
<1>1. ~draining  BY DEF PoolInv, Awaited
<1>2. /\ run.slot \in Slots /\ leaving' = leaving
      /\ run' = [run EXCEPT !.state = "asking", !.seen = k] \/ (~Up(run.slot) /\ RunFails)
      /\ run'.slot = run.slot /\ run'.wanted = run.wanted
  BY DEF PoolInv, PoolTypeOK, Ask, RunFails, Up, Runs
<1>3. /\ server' \in [Slots -> Servers]
      /\ \A t \in Slots \ {run.slot} : server'[t] = server[t]
      /\ server'[run.slot].state # "none" => server'[run.slot].key = k
  <2>1. CASE server' = [server EXCEPT ![run.slot] =
                           IF @.state = "none" THEN [NoServer EXCEPT !.state = "live", !.key = k] ELSE @]
    <3> DEFINE new == [NoServer EXCEPT !.state = "live", !.key = k]
    <3>1. new \in Servers /\ new.key = k
      BY DEF NoServer, Servers
    <3> HIDE DEF new
    <3>2. server'[run.slot] \in {new, server[run.slot]} /\ (~Up(run.slot) => server'[run.slot] = new)
      BY <2>1, <1>2 DEF PoolInv, PoolTypeOK, Up, new
    <3> QED  BY <2>1, <1>2, <3>1, <3>2 DEF PoolInv, PoolTypeOK, Up, Servers, Runs
  <2>2. CASE server' = server  BY <2>2 DEF PoolInv, PoolTypeOK, Up
  <2> QED  BY <2>1, <2>2 DEF Ask
<1>4. \A p \in leaving : p.slot # run.slot
  BY <1>1 DEF PoolInv, Placed, SlotEmpty
<1>5. Placed'
  BY <1>1, <1>2, <1>3, <1>4 DEF PoolInv, PoolTypeOK, Placed, Up, Leavers
<1>6. PoolTypeOK'
  BY <1>2, <1>3 DEF PoolInv, PoolTypeOK, RunFails, RunStates, Probing, Runs
<1>7. Awaited'
  BY <1>1 DEF Awaited
<1>8. Keyed'
  <2>1. \A t \in Slots : Up(t)' => server'[t].key.file \in Files
    BY <1>2, <1>3 DEF PoolInv, Keyed, Up
  <2>2. CASE run' = [run EXCEPT !.state = "asking", !.seen = k]
    BY <2>1, <2>2, <1>2, <1>3 DEF PoolInv, Keyed, Up, Probing
  <2>3. CASE RunFails
    BY <2>1, <2>3 DEF Keyed, RunFails, Probing
  <2> QED  BY <2>2, <2>3, <1>2
<1> QED  BY <1>5, <1>6, <1>7, <1>8 DEF PoolInv

LEMMA NowTyped ==
  ASSUME PoolTypeOK, NEW f \in Files
  PROVE  Now(f) \in Keys /\ Now(f).file = f /\ Now(f) # NoKey
  BY PoolAssumption DEF PoolTypeOK, Now, Keys, NoKey

LEMMA GoneKeeps ==
  ASSUME PoolInv, NEW p \in leaving, Gone(p)
  PROVE  PoolInv'
<1>1. /\ leaving' = leaving \ {p} /\ unclean' \in SUBSET Slots
      /\ UNCHANGED <<content, key, server, draining, pool, run>>
  BY DEF PoolInv, PoolTypeOK, Gone, Leavers
<1>2. PoolTypeOK' /\ Placed' /\ Awaited' /\ Keyed'
  BY <1>1 DEF PoolInv, PoolTypeOK, Placed, Awaited, Keyed, Up
<1> QED  BY <1>2 DEF PoolInv

LEMMA DrainedKeeps ==
  ASSUME PoolInv, Drained
  PROVE  PoolInv'
  BY DEF Drained, PoolInv, PoolTypeOK, Placed, Awaited, Keyed, Up

LEMMA IdleOutKeeps ==
  ASSUME PoolInv, NEW s \in Slots, IdleOut(s)
  PROVE  PoolInv'
<1>1. /\ server' \in [Slots -> Servers]
      /\ leaving' \in SUBSET Leavers /\ Placed'
      /\ server'[s] = NoServer /\ \A t \in Slots \ {s} : server'[t] = server[t]
  BY Disposed DEF IdleOut, PoolInv
<1>2. PoolTypeOK' /\ Awaited'
  BY <1>1 DEF IdleOut, PoolInv, PoolTypeOK, Awaited
<1>3. Keyed'
  BY <1>1 DEF IdleOut, PoolInv, PoolTypeOK, Keyed, Up, NoServer, Runs
<1> QED  BY <1>1, <1>2, <1>3 DEF PoolInv

LEMMA DiesKeeps ==
  ASSUME PoolInv, NEW s \in Slots, Dies(s)
  PROVE  PoolInv'
<1>1. /\ server' \in [Slots -> Servers]
      /\ \A t \in Slots : server'[t].key = server[t].key /\ (Up(t)' <=> Up(t))
  BY DEF Dies, PoolInv, PoolTypeOK, Up, Servers
<1>2. PoolTypeOK' /\ Placed' /\ Awaited' /\ Keyed'
  BY <1>1 DEF Dies, PoolInv, PoolTypeOK, Placed, Awaited, Keyed, Leavers, Runs
<1> QED  BY <1>2 DEF PoolInv

LEMMA EditKeeps ==
  ASSUME PoolInv, NEW f \in Files, Edit(f)
  PROVE  PoolInv'
  BY DEF Edit, PoolInv, PoolTypeOK, Placed, Awaited, Keyed, Up

LEMMA BeginKeeps ==
  ASSUME PoolInv, NEW f \in Files, NEW r \in Routes, Begin(f, r)
  PROVE  PoolInv' /\ run'.state # "idle"
<1>1. Now(f) \in Keys /\ Now(f).file = f /\ SlotOf(f, r) \in Slots
  BY NowTyped, InSlot DEF PoolInv
<1>2. NoKey \in Keys /\ IdleRun.wanted = NoKey /\ IdleRun.seen = NoKey
  BY DEF NoKey, Keys, IdleRun
<1>3. CASE pool.closed \/ pool.broken
  <2>1. /\ run' = [IdleRun EXCEPT !.state = "done"]
        /\ UNCHANGED <<content, key, server, leaving, unclean, draining, pool>>
    BY <1>3 DEF Begin
  <2>2. run'.state = "done" /\ PoolTypeOK'
    BY <2>1, <1>2 DEF PoolInv, PoolTypeOK, IdleRun, Slots, RunStates, Probing, Runs
  <2>3. Placed' /\ Awaited' /\ Keyed'
    BY <1>3, <2>1, <2>2 DEF PoolInv, Placed, Awaited, Keyed, Up, Probing, Begin
  <2> QED  BY <2>2, <2>3 DEF PoolInv
<1>4. CASE ~(pool.closed \/ pool.broken)
  <2>1. PICK next \in {"draining", "failing"} :
          /\ run' = [IdleRun EXCEPT !.state = next, !.slot = SlotOf(f, r), !.wanted = Now(f)]
          /\ IF next = "failing" \/ key \in {NoKey, Now(f)}
             THEN UNCHANGED <<key, server, leaving, draining>>
             ELSE CloseAll
    BY <1>4 DEF Begin
  <2>2. /\ run'.state = next /\ run'.wanted = Now(f)
        /\ run' \in Runs
    BY <2>1, <1>1, <1>2 DEF IdleRun, RunStates, Probing, Runs
  <2>3. UNCHANGED <<content, unclean, pool>> /\ run.state = "idle" /\ ~draining
    BY <1>4 DEF Begin, PoolInv, Awaited
  <2>4. CASE UNCHANGED <<key, server, leaving, draining>> /\ (next = "failing" \/ key \in {NoKey, Now(f)})
    BY <2>2, <2>3, <2>4, <1>1 DEF PoolInv, PoolTypeOK, Placed, Awaited, Keyed, Up
  <2>5. CASE CloseAll /\ next = "draining"
    <3>1. PoolTypeOK' /\ Placed' /\ Awaited'
      BY <2>2, <2>3, <2>5, ClosedAll DEF PoolInv, PoolTypeOK, Awaited
    <3>2. Keyed'
      BY <2>2, <2>3, <2>5, <1>1, ClosedAll DEF PoolInv, Keyed
    <3> QED  BY <3>1, <3>2, <2>2 DEF PoolInv
  <2> QED  BY <2>1, <2>4, <2>5
<1> QED  BY <1>3, <1>4

LEMMA Timed ==
  ASSUME PoolTypeOK, NEW s \in Slots, NEW b \in BOOLEAN, server' = [server EXCEPT ![s].timer = b]
  PROVE  /\ server' \in [Slots -> Servers]
         /\ \A t \in Slots : server'[t].key = server[t].key /\ (Up(t)' <=> Up(t))
<1> DEFINE one == [server[s] EXCEPT !.timer = b]
<1>1. /\ one \in Servers
      /\ one.key = server[s].key /\ one.state = server[s].state
  BY DEF PoolTypeOK, Servers
<1>2. server' = [server EXCEPT ![s] = one]  OBVIOUS
<1> HIDE DEF one
<1> QED  BY <1>1, <1>2 DEF PoolTypeOK, Up

LEMMA AdmitKeeps ==
  ASSUME PoolInv, Admit, ~draining
  PROVE  PoolInv' /\ run'.state # "idle"
<1>1. UNCHANGED <<content, leaving, unclean, draining, pool>> /\ run.state = "draining" /\ run.slot \in Slots
  BY DEF Admit, PoolInv, PoolTypeOK, Runs
<1>2. CASE RunFails /\ UNCHANGED <<key, server>>
  BY <1>1, <1>2 DEF RunFails, PoolInv, PoolTypeOK, Placed, Awaited, Keyed, Up, RunStates, Runs
<1>3. CASE /\ run' = [run EXCEPT !.state = "admitted"] /\ key' = run.wanted
           /\ server' = [server EXCEPT ![run.slot].timer = FALSE]
  <2>1. /\ server' \in [Slots -> Servers]
        /\ \A t \in Slots : server'[t].key = server[t].key /\ (Up(t)' <=> Up(t))
    BY <1>1, <1>3, Timed DEF PoolInv
  <2>2. \A t \in Slots : Up(t) => server[t].key = run.wanted
    BY <1>1, PoolAssumption DEF PoolInv, Keyed, NoKey
  <2>3. PoolTypeOK' /\ Placed' /\ Awaited'
    BY <1>1, <1>3, <2>1 DEF PoolInv, PoolTypeOK, Placed, Awaited, Leavers, RunStates, Probing, Runs
  <2>4. Keyed'
    BY <1>1, <1>3, <2>1, <2>2 DEF PoolInv, Keyed, Probing
  <2> QED  BY <1>1, <1>3, <2>3, <2>4 DEF PoolInv
<1> QED  BY <1>2, <1>3 DEF Admit

\* A probe that fails gives up the server of its slot.
LEMMA GivenUp ==
  ASSUME PoolInv, Dispose(run.slot, TRUE), RunFails, ~draining,
         UNCHANGED <<content, key, unclean, draining, pool>>
  PROVE  PoolInv' /\ run'.state # "idle"
<1>1. /\ run.slot \in Slots /\ run'.state = "failing"
      /\ run' \in Runs
  BY DEF PoolInv, PoolTypeOK, RunFails, RunStates, Runs
<1>2. /\ server' \in [Slots -> Servers]
      /\ leaving' \in SUBSET Leavers /\ Placed'
      /\ server'[run.slot] = NoServer /\ \A t \in Slots \ {run.slot} : server'[t] = server[t]
  BY <1>1, Disposed DEF PoolInv
<1>3. PoolTypeOK' /\ Awaited'
  BY <1>1, <1>2 DEF PoolInv, PoolTypeOK, Awaited
<1>4. Keyed'
  BY <1>1, <1>2 DEF PoolInv, Keyed, Up, NoServer, Probing
<1> QED  BY <1>1, <1>2, <1>3, <1>4 DEF PoolInv

\* It does not end there, and leaves the servers as they are.
LEMMA Failing ==
  ASSUME PoolInv, RunFails, ~draining, UNCHANGED <<content, key, server, leaving, unclean, draining, pool>>
  PROVE  PoolInv' /\ run'.state # "idle"
  BY DEF PoolInv, PoolTypeOK, Placed, Awaited, Keyed, Up, RunFails, RunStates, Probing, Runs

LEMMA ChooseKeeps ==
  ASSUME PoolInv, Choose
  PROVE  PoolInv' /\ run'.state # "idle"
<1> DEFINE k == Now(run.wanted.file)  mine == server[run.slot]
<1>1. /\ run.state = "admitted" /\ SlotEmpty /\ UNCHANGED <<content, key, unclean, draining, pool>>
      /\ run.slot \in Slots /\ ~draining /\ run.wanted.file \in Files
  BY DEF Choose, PoolInv, PoolTypeOK, Awaited, Keyed, Probing, Runs
<1>2. k \in Keys /\ k.file \in Files  BY <1>1, NowTyped DEF PoolInv
<1>3. CASE RunFails /\ Dispose(run.slot, TRUE)  BY <1>1, <1>3, GivenUp
<1>4. CASE Dispose(run.slot, FALSE) /\ run' = [run EXCEPT !.state = "replacing", !.seen = k]
  <2>1. /\ server' \in [Slots -> Servers]
        /\ leaving' \in SUBSET Leavers /\ Placed'
        /\ server'[run.slot] = NoServer /\ \A t \in Slots \ {run.slot} : server'[t] = server[t]
    BY <1>1, <1>4, Disposed DEF PoolInv
  <2>2. /\ run'.state = "replacing" /\ run'.seen = k /\ run'.slot = run.slot /\ run'.wanted = run.wanted
        /\ run' \in Runs
    BY <1>2, <1>4 DEF PoolInv, PoolTypeOK, RunStates, Probing, Runs
  <2>3. PoolTypeOK' /\ Awaited'
    BY <1>1, <2>1, <2>2 DEF PoolInv, PoolTypeOK, Awaited
  <2>4. Keyed'
    BY <1>1, <1>2, <2>1, <2>2 DEF PoolInv, Keyed, Up, NoServer
  <2> QED  BY <2>1, <2>2, <2>3, <2>4 DEF PoolInv
<1>5. CASE Ask(k) /\ ~(mine.state # "none" /\ (mine.key # k \/ mine.state = "dead"))
  <2>1. Up(run.slot) => server[run.slot].key = k  BY <1>5 DEF Up
  <2>2. run'.state # "idle"  BY <1>5 DEF Ask, RunFails, PoolInv, PoolTypeOK, Runs
  <2> QED  BY <1>1, <1>2, <1>5, <2>1, <2>2, Asked
<1> QED  BY <1>3, <1>4, <1>5 DEF Choose

LEMMA ReplaceKeeps ==
  ASSUME PoolInv, Replace
  PROVE  PoolInv' /\ run'.state # "idle"
<1>1. /\ run.state = "replacing" /\ SlotEmpty /\ UNCHANGED <<content, key, unclean, draining, pool>>
      /\ ~Up(run.slot) /\ ~draining /\ run.seen \in Keys /\ run.seen.file \in Files
  BY DEF Replace, PoolInv, PoolTypeOK, Awaited, Keyed, Runs
<1>2. CASE RunFails /\ UNCHANGED <<server, leaving>>  BY <1>1, <1>2, Failing
<1>3. CASE Ask(run.seen)
  <2>1. run'.state # "idle"  BY <1>3 DEF Ask, RunFails, PoolInv, PoolTypeOK, Runs
  <2> QED  BY <1>1, <1>3, <2>1, Asked
<1> QED  BY <1>2, <1>3 DEF Replace

LEMMA AnswerKeeps ==
  ASSUME PoolInv, Answer
  PROVE  PoolInv' /\ run'.state # "idle"
<1>1. /\ run.state = "asking" /\ UNCHANGED <<content, key, unclean, draining, pool>>
      /\ Up(run.slot) /\ ~draining /\ run.slot \in Slots
  BY DEF Answer, PoolInv, PoolTypeOK, Awaited, Up, Runs
<1>2. CASE /\ run.seen = run.wanted /\ RunEnds(TRUE) /\ UNCHANGED leaving
           /\ server' = [server EXCEPT ![run.slot].timer = TRUE]
  <2>1. /\ server' \in [Slots -> Servers]
        /\ \A t \in Slots : server'[t].key = server[t].key /\ (Up(t)' <=> Up(t))
    BY <1>1, <1>2, Timed DEF PoolInv
  <2>2. \A t \in Slots : Up(t) => server[t].key = key
    BY <1>1, <1>2 DEF PoolInv, Keyed
  <2>3. PoolTypeOK' /\ Placed' /\ Awaited' /\ run'.state = "done"
    <3>1. run' \in Runs /\ run'.state = "done"
      BY <1>2 DEF RunEnds, PoolInv, PoolTypeOK, Runs, RunStates
    <3>2. PoolTypeOK'  BY <1>1, <1>2, <2>1, <3>1 DEF PoolInv, PoolTypeOK
    <3>3. Placed' /\ Awaited'
      BY <1>1, <1>2, <2>1 DEF PoolInv, PoolTypeOK, Leavers, Placed, Awaited
    <3> QED  BY <3>1, <3>2, <3>3
  <2>4. Keyed'
    BY <1>1, <2>1, <2>2, <2>3 DEF PoolInv, Keyed, Probing
  <2> QED  BY <2>3, <2>4 DEF PoolInv
<1>3. CASE RunFails /\ Dispose(run.slot, TRUE)  BY <1>1, <1>3, GivenUp
<1>4. CASE RunFails /\ UNCHANGED <<server, leaving>>  BY <1>1, <1>4, Failing
<1> QED  BY <1>2, <1>3, <1>4 DEF Answer

LEMMA AskFailsKeeps ==
  ASSUME PoolInv, AskFails
  PROVE  PoolInv' /\ run'.state # "idle"
  BY GivenUp DEF AskFails, PoolInv, Awaited

LEMMA CollapseKeeps ==
  ASSUME PoolInv, Collapse
  PROVE  PoolInv' /\ run'.state # "idle"
<1>1. /\ run'.state = "collapsing" /\ CloseAll /\ UNCHANGED <<content, unclean, pool>>
      /\ run' \in Runs
  BY DEF Collapse, PoolInv, PoolTypeOK, RunStates, Runs
<1>2. PoolTypeOK' /\ Placed' /\ Awaited'
  BY <1>1, ClosedAll DEF PoolInv, PoolTypeOK, Awaited
<1>3. Keyed'
  BY <1>1, ClosedAll DEF PoolInv, Keyed, Probing
<1> QED  BY <1>1, <1>2, <1>3 DEF PoolInv

LEMMA CollapsedKeeps ==
  ASSUME PoolInv, Collapsed
  PROVE  PoolInv' /\ run'.state # "idle"
  BY DEF Collapsed, RunEnds, PoolInv, PoolTypeOK, Placed, Awaited, Keyed, Up, RunStates, Probing,
     Runs

\* A probe in progress does not get lost, and none begins by itself.
LEMMA PoolNextKeeps ==
  ASSUME PoolInv, PoolNext
  PROVE  PoolInv' /\ (run'.state = "idle" <=> run.state = "idle")
<1>1. ASSUME NEW p \in leaving, Gone(p)
      PROVE  PoolInv' /\ run' = run
  BY <1>1, GoneKeeps DEF Gone
<1>2. CASE Drained  BY <1>2, DrainedKeeps DEF Drained
<1>3. ASSUME NEW s \in Slots, IdleOut(s) \/ Dies(s)
      PROVE  PoolInv' /\ run' = run
  BY <1>3, IdleOutKeeps, DiesKeeps DEF IdleOut, Dies
<1>4. CASE Admit  BY <1>4, AdmitKeeps DEF Admit, DrainAwaited
<1>5. CASE Choose  BY <1>5, ChooseKeeps DEF Choose
<1>6. CASE Replace  BY <1>6, ReplaceKeeps DEF Replace
<1>7. CASE Answer  BY <1>7, AnswerKeeps DEF Answer
<1>8. CASE AskFails  BY <1>8, AskFailsKeeps DEF AskFails
<1>9. CASE Collapse  BY <1>9, CollapseKeeps DEF Collapse
<1>10. CASE Collapsed  BY <1>10, CollapsedKeeps DEF Collapsed
<1> QED  BY <1>1, <1>2, <1>3, <1>4, <1>5, <1>6, <1>7, <1>8, <1>9, <1>10 DEF PoolNext

-----------------------------------------------------------------------------
(* What the channel does with the pool.                                    *)

LEMMA AbortKeeps ==
  ASSUME PoolInv, AbortRun
  PROVE  PoolInv' /\ run'.state = run.state
<1>1. /\ run' \in Runs
      /\ run'.state = run.state /\ run'.slot = run.slot /\ run'.wanted = run.wanted /\ run'.seen = run.seen
  BY DEF AbortRun, PoolInv, PoolTypeOK, Runs
<1> QED  BY <1>1 DEF AbortRun, PoolInv, PoolTypeOK, Placed, Awaited, Keyed, Up

LEMMA IdleTyped ==
  /\ IdleRun \in Runs
  /\ NoKey \in Keys /\ NoServer \in Servers
  BY DEF IdleRun, NoKey, NoServer, Keys, Slots, RunStates, Servers, Runs

LEMMA EndKeeps ==
  ASSUME PoolInv, run.state = "done", run' = IdleRun,
         UNCHANGED <<content, key, server, leaving, unclean, draining, pool>>
  PROVE  PoolInv' /\ run'.state = "idle"
<1>1. run'.state = "idle"  BY DEF IdleRun
<1> QED  BY <1>1, IdleTyped DEF PoolInv, PoolTypeOK, Placed, Awaited, Keyed, Up, Probing

LEMMA CloseKeeps ==
  ASSUME PoolInv, run.state = "idle", pool' = [pool EXCEPT !.closed = TRUE], CloseAll,
         UNCHANGED <<content, unclean, run>>
  PROVE  PoolInv'
<1>1. PoolTypeOK' /\ Placed' /\ Awaited'
  BY ClosedAll DEF PoolInv, PoolTypeOK, Awaited
<1>2. Keyed'
  BY ClosedAll DEF PoolInv, Keyed
<1> QED  BY <1>1, <1>2 DEF PoolInv

LEMMA KillKeeps ==
  ASSUME PoolInv, BrokerKilled
  PROVE  PoolInv' /\ run'.state = "idle" /\ leaving' = {} /\ \A s \in Slots : ~Up(s)'
<1>1. run'.state = "idle" /\ leaving' = {} /\ ~draining' /\ \A s \in Slots : ~Up(s)'
  BY DEF BrokerKilled, IdleRun, NoServer, Up
<1>2. PoolTypeOK'
  BY IdleTyped DEF BrokerKilled, PoolInv, PoolTypeOK
<1> QED  BY <1>1, <1>2 DEF PoolInv, Placed, Awaited, Keyed, Probing

LEMMA PoolUnchanged ==
  ASSUME PoolInv, UNCHANGED poolVars
  PROVE  PoolInv' /\ run' = run
  BY DEF poolVars, PoolInv, PoolTypeOK, Placed, Awaited, Keyed, Up

LEMMA PoolKept ==
  ASSUME PoolInv, BrokerTypeOK, Working, [ChannelNext]_chanVars
  PROVE  PoolInv'
<1>1. CASE \/ AskCheck \/ CancelCheck \/ Relay \/ Receive \/ Copy \/ CommandEnds \/ CleanUp \/ Sign \/ Record
           \/ ModelEnds \/ CloseChecks \/ BrokerEnds \/ Export \/ CleanJob \/ EmitTerminal \/ UNCHANGED chanVars
  <2>1. UNCHANGED poolVars
    BY <1>1 DEF AskCheck, CancelCheck, Relay, Receive, Copy, CommandEnds, CleanUp, Sign, Record, rootOnly,
       ModelEnds, CloseChecks, BrokerEnds, Export, CleanJob, EmitTerminal, chanVars
  <2> QED  BY <2>1, PoolUnchanged
<1>2. ASSUME NEW f \in Files, NEW r \in Routes, AskProbe(f, r)
      PROVE  PoolInv'
  BY <1>2, BeginKeeps, PoolUnchanged DEF AskProbe
<1>3. ASSUME NEW g \in BOOLEAN, CancelProbe(g)
      PROVE  PoolInv'
  BY <1>3, AbortKeeps, PoolUnchanged DEF CancelProbe
<1>4. CASE ProbeDone  BY <1>4, EndKeeps DEF ProbeDone
<1>5. CASE PoolStep  BY <1>5, PoolNextKeeps, EditKeeps DEF PoolStep
<1>6. CASE CloseProbes  BY <1>6, AbortKeeps DEF CloseProbes
<1>7. CASE ClosePool  BY <1>7, CloseKeeps DEF ClosePool, Working
<1>8. CASE BrokerDies  BY <1>8, KillKeeps DEF BrokerDies
<1>9. CASE Finish  BY <1>9, KillKeeps, PoolUnchanged DEF Finish
<1> QED  BY <1>1, <1>2, <1>3, <1>4, <1>5, <1>6, <1>7, <1>8, <1>9 DEF ChannelNext

-----------------------------------------------------------------------------
(* Types of the channel.                                                   *)

LEMMA ReceiptTyped ==
  ASSUME BrokerTypeOK
  PROVE  Receipt \in Receipts
  BY DEF BrokerTypeOK, Receipt, Receipts, Brokers, Roots

LEMMA Sent ==
  ASSUME ToolsTypeOK, NEW sort \in {"check", "probe"}, NEW id \in Nat, NEW ok \in BOOLEAN, Send(sort, id, ok)
  PROVE  down' \in Seq(Messages)
<1>1. [kind |-> sort, id |-> id, ok |-> ok] \in Messages  BY DEF Messages
<1> QED  BY <1>1 DEF ToolsTypeOK, Send

LEMMA GoneTyped ==
  ASSUME ToolsTypeOK, ToolsGone
  PROVE  /\ pi' \in Proxies
         /\ boot' \in Boots
         /\ down' \in Seq(Messages) /\ ipc' \in Seq(Messages)
<1>1. pi' = [pi EXCEPT !.check = 0, !.probe = 0] /\ boot' = [check |-> 0, probe |-> 0, ended |-> TRUE]
  BY DEF ToolsGone
<1>2. down' = <<>> /\ ipc' = <<>>  BY DEF ToolsGone
<1>3. <<>> \in Seq(Messages)  BY EmptySeq
<1>4. pi' \in Proxies  BY <1>1 DEF ToolsTypeOK, Proxies
<1>5. boot' \in Boots  BY <1>1 DEF Boots
<1> QED  BY <1>2, <1>3, <1>4, <1>5

LEMMA ToolsTyped ==
  ASSUME PoolTypeOK, ToolsTypeOK, BrokerTypeOK, [ChannelNext]_chanVars
  PROVE  ToolsTypeOK'
<1>1. CASE AskCheck
  <2>1. pi' = [pi EXCEPT !.checks = pi.checks + 1, !.check = pi.checks + 1] /\ pi.checks + 1 \in Nat
    BY <1>1 DEF AskCheck, ToolsTypeOK, Proxies
  <2>2. boot' \in {[boot EXCEPT !.ended = TRUE], [boot EXCEPT !.check = pi.checks + 1]}
    BY <1>1 DEF AskCheck, StopBoot, Fail
  <2> QED  BY <1>1, <2>1, <2>2 DEF AskCheck, ToolsTypeOK, Proxies, Boots
<1>2. CASE CancelCheck  BY <1>2 DEF CancelCheck, StopBoot, Fail, ToolsTypeOK, Proxies, Boots
<1>3. ASSUME NEW f \in Files, NEW r \in Routes, AskProbe(f, r)
      PROVE  ToolsTypeOK'
  <2>1. pi' = [pi EXCEPT !.probes = pi.probes + 1, !.probe = pi.probes + 1] /\ pi.probes + 1 \in Nat
    BY <1>3 DEF AskProbe, ToolsTypeOK, Proxies
  <2>2. boot' \in {[boot EXCEPT !.ended = TRUE], [boot EXCEPT !.probe = pi.probes + 1]}
    BY <1>3 DEF AskProbe, StopBoot, Fail
  <2> QED  BY <1>3, <2>1, <2>2 DEF AskProbe, ToolsTypeOK, Proxies, Boots
<1>4. ASSUME NEW g \in BOOLEAN, CancelProbe(g)
      PROVE  ToolsTypeOK'
  BY <1>4 DEF CancelProbe, StopBoot, ToolsTypeOK, Proxies, Boots
<1>5. CASE Relay
  <2>1. Head(down) \in Messages /\ Tail(down) \in Seq(Messages)
    BY <1>5, HeadTailProperties DEF Relay, ToolsTypeOK
  <2>2. Head(down).kind \in {"check", "probe"}  BY <2>1 DEF Messages
  <2>3. boot' \in Boots
    <3>1. boot' \in {boot, [boot EXCEPT !.ended = TRUE], [boot EXCEPT ![Head(down).kind] = 0]}
      BY <1>5 DEF Relay, StopBoot
    <3>2. boot \in Boots  BY DEF ToolsTypeOK
    <3>3. [boot EXCEPT ![Head(down).kind] = 0] \in {[boot EXCEPT !.check = 0], [boot EXCEPT !.probe = 0]}
      BY <2>2
    <3>4. [boot EXCEPT !.ended = TRUE] \in Boots  BY <3>2 DEF Boots
    <3>5. [boot EXCEPT !.check = 0] \in Boots /\ [boot EXCEPT !.probe = 0] \in Boots
      BY <3>2 DEF Boots
    <3> QED  BY <3>1, <3>2, <3>3, <3>4, <3>5
  <2>4. ipc' \in Seq(Messages)
    <3>1. ipc' \in {ipc, Append(ipc, Head(down))}  BY <1>5 DEF Relay
    <3>2. ipc \in Seq(Messages)  BY DEF ToolsTypeOK
    <3> QED  BY <2>1, <3>1, <3>2, AppendProperties
  <2> QED  BY <1>5, <2>1, <2>3, <2>4 DEF Relay, ToolsTypeOK
<1>6. CASE Receive
  <2>1. Head(ipc) \in Messages /\ Tail(ipc) \in Seq(Messages)
    BY <1>6, HeadTailProperties DEF Receive, ToolsTypeOK
  <2>2. /\ Head(ipc).kind \in {"check", "probe"}
        /\ [id |-> Head(ipc).id, ok |-> Head(ipc).ok] \in [id : Nat, ok : BOOLEAN]
    BY <2>1 DEF Messages
  <2>3. pi' \in Proxies
    <3>1. pi' \in {pi, [pi EXCEPT ![Head(ipc).kind] = 0]}  BY <1>6 DEF Receive
    <3>2. [pi EXCEPT ![Head(ipc).kind] = 0] \in {[pi EXCEPT !.check = 0], [pi EXCEPT !.probe = 0]}
      BY <2>2
    <3>3. pi \in Proxies  BY DEF ToolsTypeOK
    <3>4. [pi EXCEPT !.check = 0] \in Proxies /\ [pi EXCEPT !.probe = 0] \in Proxies
      BY <3>3 DEF Proxies
    <3> QED  BY <3>1, <3>2, <3>3, <3>4
  <2> QED  BY <1>6, <2>1, <2>2, <2>3 DEF Receive, ToolsTypeOK
<1>7. CASE ProbeDone
  <2>1. down' \in Seq(Messages)
    BY <1>7, Sent DEF ProbeDone, ToolsTypeOK, BrokerTypeOK, PoolTypeOK, Runs, Brokers
  <2> QED  BY <1>7, <2>1 DEF ProbeDone, ToolsTypeOK
<1>8. CASE Record
  <2>1. down' \in Seq(Messages)
    BY <1>8, Sent, ReceiptTyped DEF Record, ToolsTypeOK, BrokerTypeOK, Receipts, Brokers
  <2> QED  BY <1>8, <2>1 DEF Record, Fail, StopBoot, ToolsTypeOK, Boots
<1>9. CASE ModelEnds  BY <1>9, GoneTyped DEF ModelEnds, ToolsTypeOK
<1>10. CASE BrokerDies  BY <1>10, GoneTyped DEF BrokerDies, BrokerKilled, ToolsTypeOK
<1>11. CASE Finish
  <2>1. CASE BrokerKilled  BY <2>1, GoneTyped DEF BrokerKilled, ToolsTypeOK
  <2>2. CASE UNCHANGED toolVars  BY <2>2 DEF toolVars, ToolsTypeOK
  <2> QED  BY <1>11, <2>1, <2>2 DEF Finish
<1>12. CASE \/ PoolStep \/ Copy \/ CommandEnds \/ CleanUp \/ Sign \/ CloseChecks \/ CloseProbes \/ ClosePool
            \/ BrokerEnds \/ Export \/ CleanJob \/ EmitTerminal \/ UNCHANGED chanVars
  <2>1. UNCHANGED toolVars
    BY <1>12 DEF PoolStep, Copy, CommandEnds, CleanUp, Sign, CloseChecks, CloseProbes, ClosePool, rootOnly,
       BrokerEnds, Export, CleanJob, EmitTerminal, chanVars
  <2> QED  BY <2>1 DEF toolVars, ToolsTypeOK
<1> QED  BY <1>1, <1>2, <1>3, <1>4, <1>5, <1>6, <1>7, <1>8, <1>9, <1>10, <1>11, <1>12 DEF ChannelNext

\* What the channel writes into the broker's record is one.
LEMMA BrokerForms ==
  ASSUME NEW b \in Brokers, NEW n \in Nat
  PROVE  /\ [b EXCEPT !.failed = TRUE, !.aborted = TRUE] \in Brokers
         /\ [b EXCEPT !.aborted = TRUE] \in Brokers
         /\ [b EXCEPT !.check = n] \in Brokers
         /\ [b EXCEPT !.check = n, !.aborted = FALSE] \in Brokers
         /\ [b EXCEPT !.probe = n] \in Brokers
         /\ [b EXCEPT !.state = "checks", !.closed = TRUE, !.aborted = TRUE] \in Brokers
         /\ [b EXCEPT !.state = "probes", !.probesClosed = TRUE] \in Brokers
         /\ [b EXCEPT !.state = "pool"] \in Brokers
<1>1. [b EXCEPT !.failed = TRUE, !.aborted = TRUE] \in Brokers  BY DEF Brokers
<1>2. [b EXCEPT !.aborted = TRUE] \in Brokers  BY DEF Brokers
<1>3. [b EXCEPT !.check = n] \in Brokers  BY DEF Brokers
<1>4. [b EXCEPT !.check = n, !.aborted = FALSE] \in Brokers  BY DEF Brokers
<1>5. [b EXCEPT !.probe = n] \in Brokers  BY DEF Brokers
<1>6. [b EXCEPT !.state = "checks", !.closed = TRUE, !.aborted = TRUE] \in Brokers  BY DEF Brokers
<1>7. [b EXCEPT !.state = "probes", !.probesClosed = TRUE] \in Brokers  BY DEF Brokers
<1>8. [b EXCEPT !.state = "pool"] \in Brokers  BY DEF Brokers
<1> QED  BY <1>1, <1>2, <1>3, <1>4, <1>5, <1>6, <1>7, <1>8

LEMMA BrokerTyped ==
  ASSUME ToolsTypeOK, BrokerTypeOK, Working, [ChannelNext]_chanVars
  PROVE  BrokerTypeOK'
<1>0. broker \in Brokers /\ 0 \in Nat  BY DEF BrokerTypeOK
<1>1. CASE AskCheck
  <2>1. pi.checks + 1 \in Nat  BY DEF ToolsTypeOK, Proxies
  <2>2. CASE StartCheck(pi.checks + 1)
    <3>1. PICK fault \in BOOLEAN, made \in BOOLEAN :
            /\ root' = [step |-> IF fault THEN "cleaning" ELSE "copying", fault |-> fault, clean |-> TRUE]
            /\ groups' = IF made THEN groups \union {pi.checks + 1} ELSE groups
      BY <2>2 DEF StartCheck
    <3>2. root' \in Roots
      BY <3>1 DEF Roots
    <3>3. groups' \in SUBSET Nat  BY <2>1, <3>1 DEF BrokerTypeOK
    <3>4. /\ broker' = [broker EXCEPT !.check = pi.checks + 1, !.aborted = FALSE]
          /\ tally' = [tally EXCEPT !.attempts = @ + 1]
      BY <2>2 DEF StartCheck
    <3>5. broker' \in Brokers
      BY <1>0, <2>1, <3>4, BrokerForms
    <3>6. tally' \in Tallies
      BY <3>4 DEF BrokerTypeOK, Tallies
    <3> QED  BY <3>2, <3>3, <3>5, <3>6 DEF BrokerTypeOK
  <2>3. CASE UNCHANGED rootVars /\ (UNCHANGED broker \/ Fail(broker))
    BY <1>0, <2>3, BrokerForms DEF rootVars, Fail, BrokerTypeOK
  <2> QED  BY <1>1, <2>2, <2>3 DEF AskCheck
<1>2. CASE CancelCheck
  <2>1. UNCHANGED broker \/ Fail(broker) \/ broker' = [broker EXCEPT !.aborted = TRUE]
    BY <1>2 DEF CancelCheck
  <2>2. broker' \in Brokers  BY <1>0, <2>1, BrokerForms DEF Fail
  <2> QED  BY <1>2, <2>2 DEF CancelCheck, rootVars, BrokerTypeOK
<1>3. ASSUME NEW f \in Files, NEW r \in Routes, AskProbe(f, r)
      PROVE  BrokerTypeOK'
  <2>1. pi.probes + 1 \in Nat  BY DEF ToolsTypeOK, Proxies
  <2>2. UNCHANGED broker \/ Fail(broker) \/ broker' = [broker EXCEPT !.probe = pi.probes + 1]
    BY <1>3 DEF AskProbe
  <2>3. broker' \in Brokers  BY <1>0, <2>1, <2>2, BrokerForms DEF Fail
  <2> QED  BY <1>3, <2>3 DEF AskProbe, rootVars, BrokerTypeOK
<1>4. CASE ProbeDone  BY <1>0, <1>4, BrokerForms DEF ProbeDone, rootVars, BrokerTypeOK
<1>5. CASE Copy \/ CommandEnds
  <2>1. /\ \E step \in {"running", "cleaning"}, fault \in BOOLEAN : RootStep(step, fault)
        /\ UNCHANGED <<broker, tally, groups>>
    BY <1>5 DEF Copy, CommandEnds
  <2>2. root' \in Roots  BY <2>1 DEF RootStep, BrokerTypeOK, Roots
  <2> QED  BY <2>1, <2>2 DEF BrokerTypeOK
<1>6. CASE CleanUp  BY <1>6 DEF CleanUp, BrokerTypeOK, Roots
<1>7. CASE Sign  BY <1>7 DEF Sign, BrokerTypeOK, Roots
<1>8. CASE Record
  <2>1. /\ tally' = [tally EXCEPT !.chain = Append(@, Receipt), !.clean = @ /\ root.clean]
        /\ root.clean \in BOOLEAN
    BY <1>8 DEF Record, BrokerTypeOK, Roots
  <2>2. Append(tally.chain, Receipt) \in Seq(Receipts)  BY ReceiptTyped DEF BrokerTypeOK, Tallies
  <2>3. tally' \in Tallies
    BY <2>1, <2>2 DEF BrokerTypeOK, Tallies
  <2>4. root' = [step |-> "none", fault |-> FALSE, clean |-> TRUE] /\ groups' = groups
    BY <1>8 DEF Record
  <2>5. [broker EXCEPT !.check = 0] \in Brokers  BY <1>0, BrokerForms
  <2>6. broker' \in Brokers  BY <1>0, <1>8, <2>5, BrokerForms DEF Record, Fail
  <2> QED  BY <2>3, <2>4, <2>6 DEF BrokerTypeOK, Roots
<1>9. CASE CloseChecks \/ CloseProbes \/ ClosePool \/ BrokerEnds
  <2>1. CASE CloseChecks \/ CloseProbes \/ ClosePool
    <3>1. \/ broker' = [broker EXCEPT !.state = "checks", !.closed = TRUE, !.aborted = TRUE]
          \/ broker' = [broker EXCEPT !.state = "probes", !.probesClosed = TRUE]
          \/ broker' = [broker EXCEPT !.state = "pool"]
      BY <2>1 DEF CloseChecks, CloseProbes, ClosePool
    <3>2. broker' \in Brokers  BY <1>0, <3>1, BrokerForms
    <3>3. UNCHANGED rootVars  BY <2>1 DEF CloseChecks, CloseProbes, ClosePool
    <3> QED  BY <3>2, <3>3 DEF rootVars, BrokerTypeOK
  <2>2. CASE BrokerEnds
    <3>1. broker' \in {[broker EXCEPT !.state = "gone", !.code = code] : code \in {"clean", "failed"}}
      BY <2>2 DEF BrokerEnds, ToolsTypeOK, Working
    <3>2. broker' \in Brokers  BY <3>1 DEF BrokerTypeOK, Brokers, Codes
    <3> QED  BY <2>2, <3>2 DEF BrokerEnds, rootVars, BrokerTypeOK
  <2> QED  BY <1>9, <2>1, <2>2
<1>10. ASSUME BrokerKilled
       PROVE  broker' \in Brokers /\ root' \in Roots /\ tally' = tally
  <2>1. broker' = [broker EXCEPT !.state = "gone", !.code = "failed", !.check = 0, !.probe = 0]
    BY <1>10 DEF BrokerKilled
  <2>2. broker' \in Brokers  BY <2>1 DEF BrokerTypeOK, Brokers, Codes
  <2> QED  BY <1>10, <2>2 DEF BrokerKilled, Roots
<1>11. CASE CleanJob  BY <1>11 DEF CleanJob, BrokerTypeOK
<1>12. CASE BrokerDies  BY <1>10, <1>12 DEF BrokerDies, BrokerTypeOK
<1>13. CASE Finish
  <2>1. groups' \in SUBSET Nat  BY <1>13 DEF Finish, BrokerTypeOK
  <2>2. UNCHANGED <<broker, root, tally>> \/ BrokerKilled  BY <1>13 DEF Finish
  <2> QED  BY <1>10, <2>1, <2>2 DEF BrokerTypeOK
<1>14. CASE \/ Relay \/ Receive \/ PoolStep \/ ModelEnds \/ Export \/ EmitTerminal \/ UNCHANGED chanVars
            \/ \E g \in BOOLEAN : CancelProbe(g)
  <2>1. UNCHANGED <<broker, rootVars>>
    BY <1>14 DEF Relay, Receive, PoolStep, ModelEnds, Export, EmitTerminal, CancelProbe, chanVars
  <2> QED  BY <2>1 DEF rootVars, BrokerTypeOK
<1> QED  BY <1>1, <1>2, <1>3, <1>4, <1>5, <1>6, <1>7, <1>8, <1>9, <1>11, <1>12, <1>13, <1>14 DEF ChannelNext

\* The host takes the next receipt or fails.
LEMMA CallTaken ==
  ASSUME EndTypeOK, NEW r \in Receipts, Feed(TakeCall(r))
  PROVE  /\ host' \in Hosts
         /\ host'.state = host.state /\ host'.ok = host.ok /\ host'.terminal = host.terminal
         /\ \/ host'.receipts = host.receipts /\ host'.failed
            \/ /\ host'.receipts = Append(host.receipts, r) /\ r.id = Len(host.receipts) + 1
               /\ ~host.terminal /\ ~host.failed /\ host'.failed = ~r.clean
<1>1. Append(host.receipts, r) \in Seq(Receipts) /\ r.clean \in BOOLEAN
  BY AppendProperties DEF EndTypeOK, Hosts, Receipts
<1>2. host' \in {host, [host EXCEPT !.failed = TRUE],
                 [host EXCEPT !.receipts = Append(host.receipts, r), !.failed = ~r.clean]}
  BY DEF Feed, TakeCall
<1>3. CASE host.failed  BY <1>3 DEF Feed, EndTypeOK
<1>4. CASE ~host.failed /\ (host.terminal \/ r.id # Len(host.receipts) + 1)
  <2>1. host' = [host EXCEPT !.failed = TRUE]  BY <1>4 DEF Feed, TakeCall
  <2> QED  BY <2>1 DEF EndTypeOK, Hosts
<1>5. CASE ~host.failed /\ ~(host.terminal \/ r.id # Len(host.receipts) + 1)
  <2>1. host' = [host EXCEPT !.receipts = Append(host.receipts, r), !.failed = ~r.clean]
    BY <1>5 DEF Feed, TakeCall
  <2>2. /\ host'.state = host.state /\ host'.ok = host.ok /\ host'.terminal = host.terminal
        /\ host'.receipts = Append(host.receipts, r) /\ host'.failed = ~r.clean
    BY <2>1
  <2>3. host' \in Hosts  BY <2>1, <1>1 DEF EndTypeOK, Hosts
  <2> QED  BY <1>5, <2>2, <2>3
<1> QED  BY <1>3, <1>4, <1>5

\* The host accepts a terminal record only for what it has taken.
LEMMA TerminalTaken ==
  ASSUME EndTypeOK, NEW t \in Terminals, Feed(TakeTerminal(t))
  PROVE  /\ host' \in Hosts
         /\ host'.state = host.state /\ host'.ok = host.ok /\ host'.receipts = host.receipts
         /\ host'.failed \/ (t.attempts = Len(host.receipts) /\ t.chain = host.receipts /\ ~host.failed)
<1>1. CASE host.failed  BY <1>1 DEF Feed, EndTypeOK
<1>2. CASE ~host.failed /\ (host.terminal \/ t.attempts # Len(host.receipts) \/ t.chain # host.receipts)
  <2>1. host' = [host EXCEPT !.failed = TRUE]  BY <1>2 DEF Feed, TakeTerminal
  <2> QED  BY <2>1 DEF EndTypeOK, Hosts
<1>3. CASE ~host.failed /\ ~(host.terminal \/ t.attempts # Len(host.receipts) \/ t.chain # host.receipts)
  <2>1. host' = [host EXCEPT !.terminal = TRUE, !.failed = ~t.clean \/ t.code # "clean"]
    BY <1>3 DEF Feed, TakeTerminal
  <2>2. host' \in Hosts /\ host'.state = host.state /\ host'.ok = host.ok /\ host'.receipts = host.receipts
    BY <2>1 DEF EndTypeOK, Hosts, Terminals
  <2> QED  BY <1>3, <2>2
<1> QED  BY <1>1, <1>2, <1>3

\* What the job has exported, with the flag of its own cleanup.
LEMMA TerminalTyped ==
  ASSUME EndTypeOK, NEW t, t = [job.tally EXCEPT !.clean = @ /\ job.clean]
  PROVE  t \in Terminals /\ t.attempts = job.tally.attempts /\ t.chain = job.tally.chain
<1>1. job.tally \in Terminals /\ job.clean \in BOOLEAN  BY DEF EndTypeOK, Jobs
<1> QED  BY <1>1 DEF Terminals

LEMMA ExportTyped ==
  ASSUME BrokerTypeOK, EndTypeOK, Export
  PROVE  /\ job' \in Jobs /\ job'.state = "exported" /\ broker.state = "gone"
         /\ job'.tally.attempts = tally.attempts /\ job'.tally.chain = tally.chain
<1>1. PICK code \in {broker.code, "failed"} :
        job' = [job EXCEPT !.state = "exported", !.code = code,
                  !.tally = [attempts |-> tally.attempts, chain |-> tally.chain,
                             clean |-> tally.clean /\ Len(tally.chain) = tally.attempts, code |-> code]]
  BY DEF Export
<1> DEFINE t == [attempts |-> tally.attempts, chain |-> tally.chain,
                 clean |-> tally.clean /\ Len(tally.chain) = tally.attempts, code |-> code]
<1>2. code \in Codes /\ t \in Terminals /\ t.attempts = tally.attempts /\ t.chain = tally.chain
  BY DEF BrokerTypeOK, Brokers, Tallies, Codes, Terminals
<1>3. job' = [job EXCEPT !.state = "exported", !.code = code, !.tally = t]  BY <1>1
<1> HIDE DEF t
<1> QED  BY <1>2, <1>3 DEF EndTypeOK, Jobs, Export

LEMMA EndTyped ==
  ASSUME BrokerTypeOK, EndTypeOK, [ChannelNext]_chanVars
  PROVE  EndTypeOK'
<1>1. CASE Sign  BY <1>1, CallTaken, ReceiptTyped DEF Sign, EndTypeOK
<1>2. CASE Export  BY <1>2, ExportTyped DEF Export, EndTypeOK
<1>3. CASE CleanJob  BY <1>3 DEF CleanJob, EndTypeOK, Jobs
<1>4. CASE EmitTerminal
  <2>1. job' \in Jobs  BY <1>4 DEF EmitTerminal, EndTypeOK, Jobs
  <2>2. host' \in Hosts  BY <1>4, TerminalTaken, TerminalTyped DEF EmitTerminal, EndTypeOK
  <2> QED  BY <2>1, <2>2 DEF EndTypeOK
<1>5. CASE Finish  BY <1>5 DEF Finish, IsEvidence, EndTypeOK, Jobs, Hosts
<1>6. CASE \/ AskCheck \/ CancelCheck \/ (\E f \in Files, r \in Routes : AskProbe(f, r))
           \/ (\E g \in BOOLEAN : CancelProbe(g)) \/ Relay \/ Receive \/ ProbeDone \/ PoolStep
           \/ Copy \/ CommandEnds \/ CleanUp \/ Record \/ ModelEnds \/ CloseChecks \/ CloseProbes
           \/ ClosePool \/ BrokerEnds \/ BrokerDies \/ UNCHANGED chanVars
  <2>1. UNCHANGED endVars
    BY <1>6 DEF AskCheck, CancelCheck, AskProbe, CancelProbe, Relay, Receive, ProbeDone, PoolStep, Copy,
       CommandEnds, CleanUp, Record, ModelEnds, CloseChecks, CloseProbes, ClosePool, BrokerEnds, BrokerDies,
       rootOnly, chanVars
  <2> QED  BY <2>1 DEF endVars, EndTypeOK
<1> QED  BY <1>1, <1>2, <1>3, <1>4, <1>5, <1>6 DEF ChannelNext

-----------------------------------------------------------------------------
(* The broker, its check, its probe and the group of the check.            *)

\* A pool that was given up stays empty.
LEMMA StaysEmpty ==
  ASSUME PoolInv, run.state = "idle", \A s \in Slots : ~Up(s), \A p \in leaving : ~p.own,
         PoolNext \/ \E f \in Files : Edit(f)
  PROVE  (\A s \in Slots : ~Up(s)') /\ \A p \in leaving' : ~p.own
<1>1. ASSUME NEW p \in leaving, Gone(p)
      PROVE  leaving' \in SUBSET leaving /\ server' = server
  BY <1>1 DEF Gone
<1>2. CASE Drained \/ \E f \in Files : Edit(f)
  BY <1>2 DEF Drained, Edit, Up
<1>3. ASSUME NEW s \in Slots, IdleOut(s)
      PROVE  leaving' = leaving /\ \A t \in Slots : ~Up(t)'
  BY <1>3 DEF IdleOut, Dispose, Stopped, Up, NoServer
<1>4. ASSUME NEW s \in Slots, Dies(s)
      PROVE  FALSE
  BY <1>4 DEF Dies, Up
<1>5. ~(Admit \/ Choose \/ Replace \/ Answer \/ AskFails \/ Collapse \/ Collapsed)
  BY DEF Admit, Choose, Replace, Answer, AskFails, Collapse, Collapsed
<1> QED  BY <1>1, <1>2, <1>3, <1>4, <1>5 DEF PoolNext, Up

LEMMA WorkingKept ==
  ASSUME PoolInv, ToolsTypeOK, BrokerTypeOK, Working, [ChannelNext]_chanVars
  PROVE  Working'
<1>1. CASE AskCheck
  <2>1. pi.checks + 1 # 0 /\ UNCHANGED poolVars /\ model' = model  BY <1>1 DEF AskCheck,
     ToolsTypeOK, Proxies
  <2>2. CASE StartCheck(pi.checks + 1) /\ ~Deaf
    <3>1. /\ broker' = [broker EXCEPT !.check = pi.checks + 1, !.aborted = FALSE] /\ root'.step # "none"
          /\ broker.state = "up"
      BY <2>2 DEF StartCheck, Deaf
    <3> QED  BY <2>1, <3>1 DEF Working, poolVars
  <2>3. CASE UNCHANGED root /\ (UNCHANGED broker \/ Fail(broker))
    BY <2>1, <2>3 DEF Fail, Working, BrokerTypeOK, Brokers, Up, poolVars
  <2> QED  BY <1>1, <2>2, <2>3 DEF AskCheck, rootVars
<1>2. CASE CancelCheck
  <2>1. UNCHANGED <<poolVars, model, root>>  BY <1>2 DEF CancelCheck, rootVars
  <2>2. broker' \in {broker, [broker EXCEPT !.failed = TRUE, !.aborted = TRUE],
                     [broker EXCEPT !.aborted = TRUE]}
    BY <1>2 DEF CancelCheck, Fail
  <2> QED  BY <2>1, <2>2 DEF Working, BrokerTypeOK, Brokers, Up, poolVars
<1>3. ASSUME NEW f \in Files, NEW r \in Routes, AskProbe(f, r)
      PROVE  Working'
  <2>1. pi.probes + 1 # 0 /\ root' = root /\ model' = model
    BY <1>3 DEF AskProbe, rootVars, ToolsTypeOK, Proxies
  <2>2. CASE ~Deaf /\ broker' = [broker EXCEPT !.probe = pi.probes + 1] /\ Begin(f, r)
    <3>1. run'.state # "idle" /\ broker.state = "up"  BY <2>2, BeginKeeps DEF Deaf
    <3> QED  BY <2>1, <2>2, <3>1 DEF Working
  <2>3. CASE UNCHANGED poolVars /\ (UNCHANGED broker \/ Fail(broker))
    BY <2>1, <2>3 DEF Fail, Working, BrokerTypeOK, Brokers, Up, poolVars
  <2> QED  BY <1>3, <2>2, <2>3 DEF AskProbe
<1>4. ASSUME NEW g \in BOOLEAN, CancelProbe(g)
      PROVE  Working'
  <2>1. UNCHANGED <<broker, root, model>>  BY <1>4 DEF CancelProbe, rootVars
  <2>2. run'.state = run.state /\ UNCHANGED <<server, leaving>>
    BY <1>4, AbortKeeps DEF CancelProbe, poolVars, AbortRun
  <2> QED  BY <2>1, <2>2 DEF Working, Up
<1>5. CASE ProbeDone
  <2>1. /\ run' = IdleRun /\ broker' = [broker EXCEPT !.probe = 0] /\ UNCHANGED <<server, leaving, root, model>>
    BY <1>5 DEF ProbeDone, rootVars
  <2> QED  BY <2>1 DEF Working, IdleRun, Up
<1>6. CASE PoolStep
  <2>1. UNCHANGED <<broker, root, model>>  BY <1>6 DEF PoolStep, toolVars, rootVars
  <2>2. run'.state = "idle" <=> run.state = "idle"  BY <1>6, PoolNextKeeps DEF PoolStep, Edit
  <2>3. broker.state = "pool" => (\A s \in Slots : ~Up(s)') /\ \A p \in leaving' : ~p.own
    BY <1>6, StaysEmpty DEF PoolStep, Working
  <2> QED  BY <2>1, <2>2, <2>3 DEF Working
<1>7. CASE Copy \/ CommandEnds \/ CleanUp \/ Sign
  <2>1. UNCHANGED <<poolVars, model, broker>>
    BY <1>7 DEF Copy, CommandEnds, CleanUp, Sign, rootOnly, toolVars
  <2>2. root.step # "none"  BY <1>7 DEF Copy, CommandEnds, CleanUp, Sign
  <2>3. root'.step # "none"
    BY <1>7 DEF Copy, CommandEnds, CleanUp, Sign, RootStep, BrokerTypeOK, Roots
  <2> QED  BY <2>1, <2>2, <2>3 DEF poolVars, Working, Up
<1>8. CASE Record
  <2>1. broker'.state = broker.state /\ broker'.check = 0 /\ broker'.probe = broker.probe /\ root'.step = "none"
    BY <1>8 DEF Record, Fail, BrokerTypeOK, Brokers
  <2> QED  BY <1>8, <2>1 DEF Record, poolVars, Working
<1>9. CASE ModelEnds \/ CloseChecks
  BY <1>9 DEF ModelEnds, CloseChecks, poolVars, toolVars, rootVars, Working, Up, BrokerTypeOK,
     Brokers
<1>10. CASE CloseProbes
  <2>1. run'.state = run.state /\ UNCHANGED <<server, leaving>>
    BY <1>10, AbortKeeps DEF CloseProbes, AbortRun
  <2> QED  BY <1>10, <2>1 DEF CloseProbes, CheckOver, toolVars, rootVars, Working
<1>11. CASE ClosePool
  <2>1. (\A s \in Slots : ~Up(s)') /\ \A p \in leaving' : ~p.own
    BY <1>11, ClosedAll DEF ClosePool, PoolInv
  <2> QED  BY <1>11, <2>1 DEF ClosePool, toolVars, rootVars, Working
<1>12. CASE BrokerEnds
  BY <1>12 DEF BrokerEnds, poolVars, toolVars, rootVars, Working
<1>13. CASE BrokerDies \/ (Finish /\ BrokerKilled)
  <2>1. BrokerKilled  BY <1>13 DEF BrokerDies
  <2>2. run'.state = "idle"  BY <2>1, KillKeeps
  <2> QED  BY <2>1, <2>2 DEF BrokerKilled, Working
<1>14. CASE \/ Relay \/ Receive \/ Export \/ CleanJob \/ EmitTerminal
            \/ (Finish /\ ~BrokerKilled) \/ UNCHANGED chanVars
  <2>1. UNCHANGED <<poolVars, model, broker, root>>
    BY <1>14 DEF Relay, Receive, Export, CleanJob, EmitTerminal, Finish, chanVars, toolVars, rootVars
  <2> QED  BY <2>1 DEF poolVars, Working, Up
<1> QED  BY <1>1, <1>2, <1>3, <1>4, <1>5, <1>6, <1>7, <1>8, <1>9, <1>10, <1>11, <1>12, <1>13, <1>14 DEF ChannelNext

LEMMA GroupedKept ==
  ASSUME PoolInv, ToolsTypeOK, BrokerTypeOK, Working, Grouped, [ChannelNext]_chanVars
  PROVE  Grouped'
<1>1. CASE AskCheck
  <2>1. UNCHANGED <<server, leaving>>  BY <1>1 DEF AskCheck, poolVars
  <2>2. CASE StartCheck(pi.checks + 1) /\ ~Deaf /\ broker.check = 0
    <3>1. /\ broker' = [broker EXCEPT !.check = pi.checks + 1, !.aborted = FALSE]
          /\ root'.step \in {"copying", "cleaning"} /\ groups' \subseteq groups \cup {pi.checks + 1}
          /\ broker.state = "up" /\ ~broker.failed
      BY <2>2 DEF StartCheck, Deaf
    <3>2. pi.checks + 1 # 0  BY DEF ToolsTypeOK, Proxies
    <3> QED  BY <2>1, <2>2, <3>1, <3>2 DEF Grouped
  <2>3. CASE UNCHANGED rootVars /\ (UNCHANGED broker \/ Fail(broker))
    BY <2>1, <2>3 DEF Fail, rootVars, Grouped, BrokerTypeOK, Brokers, Up
  <2> QED  BY <1>1, <2>2, <2>3 DEF AskCheck
<1>2. CASE CancelCheck
  <2>1. UNCHANGED <<poolVars, rootVars>>  BY <1>2 DEF CancelCheck
  <2>2. broker' \in {broker, [broker EXCEPT !.failed = TRUE, !.aborted = TRUE],
                     [broker EXCEPT !.aborted = TRUE]}
    BY <1>2 DEF CancelCheck, Fail
  <2> QED  BY <2>1, <2>2 DEF Grouped, BrokerTypeOK, Brokers, Up, poolVars, rootVars
<1>3. ASSUME NEW f \in Files, NEW r \in Routes, AskProbe(f, r)
      PROVE  Grouped'
  <2>1. UNCHANGED rootVars  BY <1>3 DEF AskProbe
  <2>2. CASE ~Deaf /\ broker' = [broker EXCEPT !.probe = pi.probes + 1]
    BY <2>1, <2>2 DEF Deaf, rootVars, Grouped
  <2>3. CASE UNCHANGED poolVars /\ (UNCHANGED broker \/ Fail(broker))
    BY <2>1, <2>3 DEF Fail, rootVars, poolVars, Grouped, BrokerTypeOK, Brokers, Up
  <2> QED  BY <1>3, <2>2, <2>3 DEF AskProbe
<1>4. CASE \/ ProbeDone \/ CloseChecks \/ CloseProbes \/ \E g \in BOOLEAN : CancelProbe(g)
  <2>1. UNCHANGED <<rootVars, server, leaving>>
    BY <1>4 DEF ProbeDone, CloseChecks, CloseProbes, CancelProbe, AbortRun, poolVars
  <2>2. \/ broker' = broker
        \/ /\ broker.state # "gone" /\ broker'.check = broker.check
           /\ broker'.failed = broker.failed /\ broker'.code = broker.code
    BY <1>4 DEF ProbeDone, CloseChecks, CloseProbes, CancelProbe, BrokerTypeOK, Brokers
  <2> QED  BY <2>1, <2>2 DEF rootVars, Grouped, Up
<1>5. CASE PoolStep
  BY <1>5 DEF PoolStep, rootVars, Grouped
<1>6. CASE Copy \/ CommandEnds
  BY <1>6 DEF Copy, CommandEnds, RootStep, rootOnly, poolVars, Grouped, Up, BrokerTypeOK, Roots
<1>7. CASE CleanUp
  <2>1. PICK removed \in BOOLEAN, unmounted \in BOOLEAN :
          /\ groups' = IF removed THEN groups \ {broker.check} ELSE groups
          /\ root' = [root EXCEPT !.step = "signing", !.clean = removed /\ unmounted]
    BY <1>7 DEF CleanUp
  <2>2. UNCHANGED <<broker, server, leaving>> /\ root.step = "cleaning" /\ broker.state # "gone"
    BY <1>7 DEF CleanUp, rootOnly, poolVars
  <2>3. root'.clean => removed  BY <2>1
  <2> QED  BY <2>1, <2>2, <2>3 DEF Grouped
<1>8. CASE Sign
  BY <1>8 DEF Sign, Grouped
<1>9. CASE Record
  <2>1. /\ broker'.state = broker.state /\ broker'.check = 0 /\ broker'.code = broker.code
        /\ ~broker'.failed => ~broker.failed /\ root.clean
    BY <1>9 DEF Record, Fail, BrokerTypeOK, Brokers
  <2>2. /\ root.step = "recording" /\ root'.step = "none" /\ broker.state # "gone"
        /\ UNCHANGED <<groups, server, leaving>>
    BY <1>9 DEF Record, poolVars
  <2> QED  BY <2>1, <2>2 DEF Grouped
<1>10. CASE ClosePool
  BY <1>10 DEF ClosePool, rootVars, Grouped
<1>11. CASE BrokerEnds
  <2>1. /\ ~draining /\ broker.state = "pool" /\ broker' = [broker EXCEPT !.state = "gone",
                   !.code = IF broker.failed \/ pool.broken THEN "failed" ELSE model]
        /\ UNCHANGED <<poolVars, rootVars>>
    BY <1>11 DEF BrokerEnds
  <2>2. broker'.state = "gone" /\ (broker'.code = "clean" => ~broker.failed)
    BY <2>1
  <2>3. leaving = {} /\ \A s \in Slots : ~Up(s)  BY <2>1 DEF PoolInv, Placed, Working
  <2>4. ~broker.failed => groups = {}  BY <2>1 DEF Grouped, Working
  <2> QED  BY <2>1, <2>2, <2>3, <2>4 DEF Grouped, poolVars, rootVars, Up
<1>12. CASE BrokerDies \/ (Finish /\ BrokerKilled)
  <2>1. BrokerKilled  BY <1>12 DEF BrokerDies
  <2>2. broker'.state = "gone" /\ broker'.code = "failed"
    BY <2>1 DEF BrokerKilled
  <2> QED  BY <2>2 DEF Grouped
<1>13. CASE \/ Relay \/ Receive \/ ModelEnds \/ Export \/ CleanJob \/ EmitTerminal \/ (Finish /\ ~BrokerKilled)
            \/ UNCHANGED chanVars
  <2>1. UNCHANGED <<poolVars, broker, root>> /\ (groups' = groups \/ groups' = {})
    BY <1>13 DEF Relay, Receive, ModelEnds, Export, CleanJob, EmitTerminal, Finish, chanVars, rootVars
  <2> QED  BY <2>1 DEF poolVars, Grouped, Up
<1> QED  BY <1>1, <1>2, <1>3, <1>4, <1>5, <1>6, <1>7, <1>8, <1>9, <1>10, <1>11, <1>12, <1>13 DEF
   ChannelNext

-----------------------------------------------------------------------------
(* Results.                                                                *)

LEMMA ChainGrows ==
  ASSUME NEW c \in Seq(Receipts), NEW r \in Receipts
  PROVE  /\ \A m : Holds(c, m) => Holds(Append(c, r), m)
         /\ \A m : m.id = r.id /\ m.ok = r.ok => Holds(Append(c, r), m)
<1>1. /\ Len(c) \in Nat /\ Len(Append(c, r)) = Len(c) + 1
      /\ \A i \in 1..Len(c) : Append(c, r)[i] = c[i]
      /\ Append(c, r)[Len(c) + 1] = r
  BY AppendProperties, LenProperties
<1>2. Len(c) + 1 \in 1..Len(Append(c, r))  BY <1>1
<1>3. \A m : m.id = r.id /\ m.ok = r.ok => Holds(Append(c, r), m)
  BY <1>1, <1>2 DEF Holds
<1>4. ASSUME NEW m, Holds(c, m)
      PROVE  Holds(Append(c, r), m)
  <2>1. PICK n \in 1..Len(c) : c[n].id = m.id /\ c[n].ok = m.ok  BY <1>4 DEF Holds
  <2>2. n \in 1..Len(Append(c, r)) /\ Append(c, r)[n] = c[n]  BY <1>1
  <2> QED  BY <2>1, <2>2 DEF Holds
<1> QED  BY <1>3, <1>4

\* What is sent joins the answers on their way.
LEMMA SentOn ==
  ASSUME ToolsTypeOK, NEW sort \in {"check", "probe"}, NEW id \in Nat, NEW ok \in BOOLEAN, Send(sort, id, ok)
  PROVE  \A n \in 1..Len(down') : \/ n \in 1..Len(down) /\ down'[n] = down[n]
                                  \/ down'[n] = [kind |-> sort, id |-> id, ok |-> ok]
<1> DEFINE m == [kind |-> sort, id |-> id, ok |-> ok]
<1>1. m \in Messages /\ down \in Seq(Messages)  BY DEF ToolsTypeOK, Messages
<1>2. /\ Len(down) \in Nat /\ Len(Append(down, m)) = Len(down) + 1
      /\ \A i \in 1..Len(down) : Append(down, m)[i] = down[i]
      /\ Append(down, m)[Len(down) + 1] = m
  BY <1>1, AppendProperties, LenProperties
<1>3. down' \in {down, Append(down, m)}  BY DEF Send
<1> HIDE DEF m
<1>4. CASE down' = down  BY <1>4
<1>5. CASE down' = Append(down, m)
  <2> SUFFICES ASSUME NEW n \in 1..Len(down')
               PROVE  (n \in 1..Len(down) /\ down'[n] = down[n]) \/ down'[n] = m
    BY DEF m
  <2>1. n \in 1..Len(down) \/ n = Len(down) + 1  BY <1>2, <1>5
  <2> QED  BY <2>1, <1>2, <1>5
<1> QED  BY <1>3, <1>4, <1>5

LEMMA AnsweredKept ==
  ASSUME PoolTypeOK, ToolsTypeOK, BrokerTypeOK, Answered, [ChannelNext]_chanVars
  PROVE  Answered'
<1>1. CASE Record
  <2> DEFINE m == [kind |-> "check", id |-> broker.check, ok |-> Receipt.ok]
  <2>1. tally'.chain = Append(tally.chain, Receipt)
    BY <1>1 DEF Record
  <2>2. \A n \in 1..Len(down') : (n \in 1..Len(down) /\ down'[n] = down[n]) \/ down'[n] = m
    <3>1. broker.check \in Nat /\ Receipt.ok \in BOOLEAN
      BY ReceiptTyped DEF BrokerTypeOK, Brokers, Receipts
    <3>2. down' = down \/ Send("check", broker.check, Receipt.ok)  BY <1>1 DEF Record
    <3> QED  BY <3>1, <3>2, SentOn
  <2>3. UNCHANGED <<told, ipc>>  BY <1>1 DEF Record
  <2>4. /\ \A x : Holds(tally.chain, x) => Holds(tally'.chain, x)
        /\ Holds(tally'.chain, m)
    <3>1. tally.chain \in Seq(Receipts) /\ Receipt \in Receipts  BY ReceiptTyped DEF BrokerTypeOK,
       Tallies
    <3>2. m.id = Receipt.id /\ m.ok = Receipt.ok  BY DEF Receipt
    <3> HIDE DEF m
    <3> QED  BY <2>1, <3>1, <3>2, ChainGrows
  <2> HIDE DEF m
  <2>5. \A t \in told' : Holds(tally'.chain, t)  BY <2>3, <2>4 DEF Answered
  <2>6. \A n \in 1..Len(down') : down'[n].kind = "check" => Holds(tally'.chain, down'[n])
    BY <2>2, <2>4 DEF Answered
  <2>7. \A n \in 1..Len(ipc') : ipc'[n].kind = "check" => Holds(tally'.chain, ipc'[n])
    BY <2>3, <2>4 DEF Answered
  <2> QED  BY <2>5, <2>6, <2>7 DEF Answered
<1>2. CASE ProbeDone
  <2>1. \A n \in 1..Len(down') : (n \in 1..Len(down) /\ down'[n] = down[n]) \/ down'[n].kind = "probe"
    <3>1. broker.probe \in Nat /\ run.ok \in BOOLEAN  BY DEF BrokerTypeOK, Brokers, PoolTypeOK, Runs
    <3>2. CASE down' = down  BY <3>2
    <3>3. CASE Send("probe", broker.probe, run.ok)
      <4>1. \A n \in 1..Len(down') : \/ n \in 1..Len(down) /\ down'[n] = down[n]
                                     \/ down'[n] = [kind |-> "probe", id |-> broker.probe, ok |-> run.ok]
        BY <3>1, <3>3, SentOn
      <4> QED  BY <4>1
    <3> QED  BY <1>2, <3>2, <3>3 DEF ProbeDone
  <2>2. UNCHANGED <<told, ipc, tally>>  BY <1>2 DEF ProbeDone, rootVars
  <2>3. \A n \in 1..Len(down') : down'[n].kind = "check" => Holds(tally.chain, down'[n])
    BY <2>1 DEF Answered
  <2> QED  BY <2>2, <2>3 DEF Answered
<1>3. CASE Relay
  <2>1. down \in Seq(Messages) /\ ipc \in Seq(Messages) /\ down # <<>>  BY <1>3 DEF Relay,
     ToolsTypeOK
  <2>2. /\ Head(down) = down[1] /\ 1 \in 1..Len(down) /\ Head(down) \in Messages
        /\ \A n \in 1..Len(Tail(down)) : n + 1 \in 1..Len(down) /\ Tail(down)[n] = down[n + 1]
    BY <2>1, HeadTailProperties, LenProperties, EmptySeq
  <2> DEFINE m == Head(down)
  <2> HIDE DEF m
  <2>3. \A n \in 1..Len(ipc') : (n \in 1..Len(ipc) /\ ipc'[n] = ipc[n]) \/ ipc'[n] = m
    <3>1. ipc' = ipc \/ ipc' = Append(ipc, m)  BY <1>3 DEF Relay, m
    <3>2. /\ Len(ipc) \in Nat /\ Len(Append(ipc, m)) = Len(ipc) + 1
          /\ \A i \in 1..Len(ipc) : Append(ipc, m)[i] = ipc[i]
          /\ Append(ipc, m)[Len(ipc) + 1] = m
      BY <2>1, <2>2, AppendProperties, LenProperties DEF m
    <3> QED  BY <3>1, <3>2
  <2>4. down' = Tail(down) /\ UNCHANGED <<told, tally>>  BY <1>3 DEF Relay, rootVars
  <2>5. m.kind = "check" => Holds(tally.chain, m)  BY <2>2 DEF Answered, m
  <2>6. \A n \in 1..Len(down') : down'[n].kind = "check" => Holds(tally.chain, down'[n])
    BY <2>2, <2>4 DEF Answered
  <2>7. \A n \in 1..Len(ipc') : ipc'[n].kind = "check" => Holds(tally.chain, ipc'[n])
    BY <2>3, <2>5 DEF Answered
  <2> QED  BY <2>4, <2>6, <2>7 DEF Answered
<1>4. CASE Receive
  <2>1. ipc \in Seq(Messages) /\ ipc # <<>>  BY <1>4 DEF Receive, ToolsTypeOK
  <2>2. /\ Head(ipc) = ipc[1] /\ 1 \in 1..Len(ipc)
        /\ \A n \in 1..Len(Tail(ipc)) : n + 1 \in 1..Len(ipc) /\ Tail(ipc)[n] = ipc[n + 1]
    BY <2>1, HeadTailProperties, LenProperties, EmptySeq
  <2>3. /\ ipc' = Tail(ipc) /\ UNCHANGED <<down, tally>>
        /\ \/ told' = told
           \/ Head(ipc).kind = "check" /\ told' = told \union {[id |-> Head(ipc).id, ok |-> Head(ipc).ok]}
    BY <1>4 DEF Receive, rootVars
  <2>4. Head(ipc).kind = "check" => Holds(tally.chain, [id |-> Head(ipc).id, ok |-> Head(ipc).ok])
    BY <2>2 DEF Answered, Holds
  <2>5. \A n \in 1..Len(ipc') : ipc'[n].kind = "check" => Holds(tally.chain, ipc'[n])
    BY <2>2, <2>3 DEF Answered
  <2> QED  BY <2>3, <2>4, <2>5 DEF Answered
<1>5. CASE ModelEnds \/ BrokerDies \/ (Finish /\ BrokerKilled)
  <2>1. ToolsGone /\ UNCHANGED <<told, tally>>
    BY <1>5 DEF ModelEnds, BrokerDies, BrokerKilled, rootVars
  <2>2. down' = <<>> /\ ipc' = <<>>  BY <2>1 DEF ToolsGone
  <2> QED  BY <2>1, <2>2 DEF Answered
<1>6. CASE AskCheck
  <2>1. UNCHANGED <<told, down, ipc>> /\ tally'.chain = tally.chain
    BY <1>6 DEF AskCheck, StartCheck, rootVars, BrokerTypeOK, Tallies
  <2> QED  BY <2>1 DEF Answered
<1>7. CASE \/ CancelCheck \/ (\E f \in Files, r \in Routes : AskProbe(f, r))
           \/ (\E g \in BOOLEAN : CancelProbe(g)) \/ PoolStep
           \/ Copy \/ CommandEnds \/ CleanUp \/ Sign \/ CloseChecks \/ CloseProbes
           \/ ClosePool \/ BrokerEnds \/ Export \/ CleanJob \/ EmitTerminal
           \/ (Finish /\ ~BrokerKilled) \/ UNCHANGED chanVars
  <2>1. UNCHANGED <<told, down, ipc, tally>>
    BY <1>7 DEF CancelCheck, AskProbe, CancelProbe, PoolStep, Copy, CommandEnds, CleanUp, Sign, CloseChecks,
       CloseProbes, ClosePool, BrokerEnds, Export, CleanJob, EmitTerminal, Finish,
       rootOnly, toolVars, rootVars, chanVars
  <2> QED  BY <2>1 DEF Answered
<1> QED  BY <1>1, <1>2, <1>3, <1>4, <1>5, <1>6, <1>7 DEF ChannelNext

LEMMA ReceivedKept ==
  ASSUME BrokerTypeOK, EndTypeOK, Received, [ChannelNext]_chanVars
  PROVE  Received'
<1>1. CASE Sign
  <2> DEFINE rs == host.receipts
  <2>1. rs \in Seq(Receipts) /\ Receipt \in Receipts  BY ReceiptTyped DEF EndTypeOK, Hosts
  <2>2. /\ Len(rs) \in Nat /\ Len(Append(rs, Receipt)) = Len(rs) + 1
        /\ \A i \in 1..Len(rs) : Append(rs, Receipt)[i] = rs[i]
        /\ Append(rs, Receipt)[Len(rs) + 1] = Receipt
    BY <2>1, AppendProperties, LenProperties
  <2>3. CASE host'.receipts = rs /\ host'.failed  BY <2>3 DEF Received
  <2>4. CASE /\ host'.receipts = Append(rs, Receipt) /\ Receipt.id = Len(rs) + 1
             /\ ~host.failed /\ host'.failed = ~Receipt.clean
    <3> SUFFICES ASSUME NEW n \in 1..Len(host'.receipts)
                 PROVE  host'.receipts[n].id = n /\ (host'.failed \/ host'.receipts[n].clean)
      BY DEF Received
    <3>1. CASE n = Len(rs) + 1  BY <2>2, <2>4, <3>1
    <3>2. CASE n \in 1..Len(rs)
      <4>1. rs[n].id = n /\ rs[n].clean  BY <2>4, <3>2 DEF Received
      <4> QED  BY <2>2, <2>4, <3>2, <4>1
    <3> QED  BY <2>2, <2>4, <3>1, <3>2
  <2> QED  BY <1>1, <2>1, <2>3, <2>4, CallTaken DEF Sign
<1>2. CASE EmitTerminal
  <2>1. host' = host \/ (host'.receipts = host.receipts /\ (host'.failed \/ ~host.failed))
    BY <1>2, TerminalTaken, TerminalTyped DEF EmitTerminal
  <2> QED  BY <2>1 DEF Received
<1>3. CASE Finish
  BY <1>3 DEF Finish, Received
<1>4. CASE UNCHANGED host  BY <1>4 DEF Received
<1> QED
  BY <1>1, <1>2, <1>3, <1>4 DEF ChannelNext, AskCheck, CancelCheck, AskProbe, CancelProbe, Relay, Receive, ProbeDone,
     PoolStep, Copy, CommandEnds, CleanUp, Record, ModelEnds, CloseChecks, CloseProbes, ClosePool, BrokerEnds,
     BrokerDies, Export, CleanJob, rootOnly, endVars, chanVars

LEMMA ExportedKept ==
  ASSUME ToolsTypeOK, BrokerTypeOK, EndTypeOK, Exported, [ChannelNext]_chanVars
  PROVE  Exported'
<1>1. CASE AskCheck
  <2>1. UNCHANGED endVars /\ broker'.state = broker.state /\ (tally' = tally \/ broker.state = "up")
    BY <1>1 DEF AskCheck, StartCheck, Fail, Deaf, rootVars, BrokerTypeOK, Brokers
  <2> QED  BY <2>1 DEF endVars, Exported
<1>2. CASE Record
  <2>1. UNCHANGED endVars /\ broker.state # "gone"  BY <1>2 DEF Record
  <2> QED  BY <2>1 DEF endVars, Exported
<1>3. CASE Sign
  <2>1. /\ UNCHANGED <<broker, tally, job>> /\ broker.state # "gone"
        /\ host'.state = host.state /\ host'.ok = host.ok /\ host'.terminal = host.terminal
        /\ host'.failed \/ ~host.terminal
    BY <1>3, CallTaken, ReceiptTyped DEF Sign
  <2> QED  BY <2>1 DEF Exported
<1>4. CASE Export
  <2>1. UNCHANGED <<broker, tally, host>>  BY <1>4 DEF Export, rootVars
  <2>2. job.state = "running"  BY <1>4 DEF Export
  <2> QED  BY <1>4, <2>1, <2>2, ExportTyped DEF Exported
<1>5. CASE CleanJob
  <2>1. /\ UNCHANGED <<broker, tally, host>>
        /\ job.state = "exported" /\ job'.state = "cleaned" /\ job'.tally = job.tally
    BY <1>5 DEF CleanJob
  <2> QED  BY <2>1 DEF Exported
<1>6. CASE EmitTerminal
  <2>1. UNCHANGED <<broker, tally>> /\ job.state = "cleaned" /\ job'.state = "over"
    BY <1>6 DEF EmitTerminal, rootVars
  <2>2. CASE host' = host  BY <2>1, <2>2 DEF Exported
  <2>3. CASE host' # host
    <3>1. /\ host'.state = host.state /\ host'.ok = host.ok /\ host'.receipts = host.receipts
          /\ host'.failed \/ /\ job.tally.attempts = Len(host.receipts) /\ job.tally.chain = host.receipts
                             /\ ~host.failed
      BY <1>6, <2>3, TerminalTaken, TerminalTyped DEF EmitTerminal
    <3> QED  BY <2>1, <3>1 DEF Exported
  <2> QED  BY <2>2, <2>3
<1>7. CASE Finish
  <2>1. /\ host'.state = "done" /\ host'.ok = IsEvidence /\ host'.terminal = host.terminal
        /\ host'.failed = host.failed /\ host'.receipts = host.receipts /\ job'.state = "over" /\ tally' = tally
    BY <1>7 DEF Finish, BrokerKilled
  <2>2. broker'.state = "gone"  BY <1>7 DEF Finish, BrokerKilled, BrokerTypeOK, Brokers
  <2> QED  BY <2>1, <2>2 DEF Exported, IsEvidence
<1>8. CASE \/ CancelCheck \/ (\E f \in Files, r \in Routes : AskProbe(f, r))
           \/ (\E g \in BOOLEAN : CancelProbe(g)) \/ Relay \/ Receive \/ ProbeDone \/ PoolStep
           \/ Copy \/ CommandEnds \/ CleanUp \/ ModelEnds \/ CloseChecks \/ CloseProbes
           \/ ClosePool \/ BrokerEnds \/ BrokerDies \/ UNCHANGED chanVars
  <2>1. UNCHANGED <<endVars, tally>>
    BY <1>8 DEF CancelCheck, AskProbe, CancelProbe, Relay, Receive, ProbeDone, PoolStep, Copy, CommandEnds,
       CleanUp, ModelEnds, CloseChecks, CloseProbes, ClosePool, BrokerEnds, BrokerDies, BrokerKilled,
       rootOnly, rootVars, chanVars
  <2>2. broker.state = "gone" => broker'.state = "gone"
    BY <1>8 DEF CancelCheck, AskProbe, CancelProbe, Relay, Receive, ProbeDone, PoolStep, Copy,
       CommandEnds, CleanUp, ModelEnds, CloseChecks, CloseProbes, ClosePool, BrokerEnds,
       BrokerDies, BrokerKilled, Fail, rootOnly, chanVars, BrokerTypeOK, Brokers
  <2> QED  BY <2>1, <2>2 DEF endVars, Exported
<1> QED  BY <1>1, <1>2, <1>3, <1>4, <1>5, <1>6, <1>7, <1>8 DEF ChannelNext

-----------------------------------------------------------------------------
(* The theorems.                                                           *)

LEMMA InitInvariant ==
  ASSUME ChannelInit
  PROVE  IInv
<1>1. \A s \in Slots : ~Up(s)  BY DEF ChannelInit, PoolInit, NoServer, Up
<1>2. PoolTypeOK
  <2>1. content \in [Files -> 0..1]  BY DEF ChannelInit, PoolInit
  <2>2. server \in [Slots -> Servers]  BY IdleTyped DEF ChannelInit, PoolInit
  <2>3. key \in Keys /\ run \in Runs  BY IdleTyped DEF ChannelInit, PoolInit
  <2>4. /\ leaving = {} /\ unclean = {} /\ draining \in BOOLEAN
        /\ pool \in [closed : BOOLEAN, broken : BOOLEAN]
    BY DEF ChannelInit, PoolInit
  <2> QED  BY <2>1, <2>2, <2>3, <2>4 DEF PoolTypeOK
<1>3. Placed /\ Awaited /\ Keyed
  BY <1>1 DEF ChannelInit, PoolInit, IdleRun, Probing, Placed, Awaited, Keyed
<1>4. <<>> \in Seq(Messages) /\ <<>> \in Seq(Receipts) /\ Len(<<>>) = 0  BY EmptySeq
<1>5. ToolsTypeOK  BY <1>4 DEF ChannelInit, ToolsTypeOK, Proxies, Boots
<1>6. BrokerTypeOK  BY <1>4 DEF ChannelInit, BrokerTypeOK, Brokers, Codes, Roots, Tallies
<1>7. EndTypeOK
  <2>1. NoTerminal \in Terminals  BY <1>4 DEF NoTerminal, Terminals, Codes
  <2> QED  BY <1>4, <2>1 DEF ChannelInit, EndTypeOK, Jobs, Hosts, Codes
<1>8. Working /\ Grouped
  BY <1>1 DEF ChannelInit, PoolInit, IdleRun, Working, Grouped
<1>9. Answered /\ Received /\ Exported
  BY <1>4 DEF ChannelInit, Answered, Received, Exported
<1> QED  BY <1>2, <1>3, <1>5, <1>6, <1>7, <1>8, <1>9 DEF IInv, TypeOK

LEMMA StepInvariant ==
  ASSUME IInv, [ChannelNext]_chanVars
  PROVE  IInv'
<1>1. PoolInv  BY DEF IInv, TypeOK, PoolInv
<1>2. PoolInv'  BY <1>1, PoolKept DEF IInv, TypeOK
<1>3. ToolsTypeOK' /\ BrokerTypeOK' /\ EndTypeOK'
  BY ToolsTyped, BrokerTyped, EndTyped DEF IInv, TypeOK
<1>4. Working' /\ Grouped'  BY <1>1, WorkingKept, GroupedKept DEF IInv, TypeOK
<1>5. Answered' /\ Received' /\ Exported'
  BY AnsweredKept, ReceivedKept, ExportedKept DEF IInv, TypeOK
<1> QED  BY <1>2, <1>3, <1>4, <1>5 DEF IInv, TypeOK, PoolInv

(* The channel keeps its inductive invariant, however many checks and      *)
(* probes the model asks for and wherever the broker is killed.            *)
THEOREM Invariant == ChannelSpec => []IInv
<1>1. ChannelInit => IInv  BY InitInvariant
<1>2. IInv /\ [ChannelNext]_chanVars => IInv'  BY StepInvariant
<1> QED  BY <1>1, <1>2, PTL DEF ChannelSpec

(* Every variable of the channel and of the pool has its type.             *)
THEOREM TypeCorrect == ChannelSpec => []TypeOK
<1>1. IInv => TypeOK  BY DEF IInv
<1> QED  BY <1>1, Invariant, PTL

\* One server leaves a slot at a time, so as many slots are being left as servers leave.
LEMMA OneLeaver ==
  ASSUME PoolTypeOK, Placed
  PROVE  Cardinality({p.slot : p \in leaving}) = Cardinality(leaving)
<1> DEFINE T == {p.slot : p \in leaving}
           slotOf == [p \in leaving |-> p.slot]
<1>1. IsFiniteSet(T)
  <2>1. IsFiniteSet({"pyright"})  BY FS_Singleton
  <2>2. IsFiniteSet({"pyright"} \cup {"jedi"})  BY <2>1, FS_AddElement
  <2>3. IsFiniteSet(({"pyright"} \cup {"jedi"}) \cup {"single"})  BY <2>2, FS_AddElement
  <2>4. IsFiniteSet(Slots)  BY <2>3 DEF Slots
  <2>5. T \in SUBSET Slots  BY DEF PoolTypeOK, Leavers
  <2> QED  BY <2>4, <2>5, FS_Subset
<1>2. slotOf \in [leaving -> T]  OBVIOUS
<1>3. \A p, q \in leaving : slotOf[p] = slotOf[q] => p = q  BY DEF Placed
<1>4. \A t \in T : \E p \in leaving : slotOf[p] = t  OBVIOUS
<1> HIDE DEF T, slotOf
<1>5. slotOf \in Injection(leaving, T)  BY <1>2, <1>3 DEF Injection, IsInjective
<1>6. slotOf \in Surjection(leaving, T)  BY <1>2, <1>4 DEF Surjection
<1>7. Cardinality(leaving) = Cardinality(T)  BY <1>1, <1>5, <1>6, FS_Injection
<1> QED  BY <1>7 DEF T

(* A slot of the pool never holds a server beside one that is still        *)
(* leaving it, and between two probes every server is for the version of   *)
(* the file the pool last read, for any workspace and whenever it is       *)
(* edited.                                                                 *)
THEOREM PoolIsForOneDocument == ChannelSpec => []PoolIsOneDocument
<1>1. ASSUME IInv
      PROVE  PoolIsOneDocument
  <2>1. \A p \in leaving : server[p.slot].state = "none"  BY <1>1 DEF IInv, Placed, Up
  <2>2. Cardinality({p.slot : p \in leaving}) = Cardinality(leaving)
    BY <1>1, OneLeaver DEF IInv, TypeOK
  <2>3. ASSUME run.state \in {"idle", "done"}, NEW p \in Live
        PROVE  p.key = key
    <3>1. PICK s \in Slots : Up(s) /\ p = [slot |-> s, key |-> server[s].key]
      BY <2>3 DEF Live, Up
    <3> QED  BY <1>1, <2>3, <3>1 DEF IInv, Keyed
  <2> QED  BY <2>1, <2>2, <2>3 DEF PoolIsOneDocument
<1> QED  BY <1>1, Invariant, PTL

(* What the host accepts as evidence is every check that was attempted, in  *)
(* order, each cleaned up, and every result the model was told among them,  *)
(* for any number of checks.                                               *)
THEOREM EvidenceHoldsEveryCheck == ChannelSpec => []EvidenceIsWhole
<1>1. ASSUME IInv, host.ok
      PROVE  /\ tally.attempts = Len(host.receipts)
             /\ \A i \in 1..Len(host.receipts) : host.receipts[i].id = i /\ host.receipts[i].clean
             /\ \A t \in told : \E i \in 1..Len(host.receipts) :
                  host.receipts[i].id = t.id /\ host.receipts[i].ok = t.ok
  <2>1. ~host.failed /\ tally.attempts = Len(host.receipts) /\ tally.chain = host.receipts
    BY <1>1 DEF IInv, Exported
  <2>2. \A i \in 1..Len(host.receipts) : host.receipts[i].id = i /\ host.receipts[i].clean
    BY <1>1, <2>1 DEF IInv, Received
  <2>3. \A t \in told : Holds(host.receipts, t)  BY <1>1, <2>1 DEF IInv, Answered
  <2> QED  BY <2>1, <2>2, <2>3 DEF Holds
<1>2. IInv => EvidenceIsWhole  BY <1>1 DEF EvidenceIsWhole
<1> QED  BY <1>2, Invariant, PTL

(* A broker that reports the model's success has left nothing running: no   *)
(* check, no group of one, no probe and no language server.                *)
THEOREM NothingOutlivesSuccess == ChannelSpec => []SuccessLeavesNothing
<1>1. ASSUME IInv, broker.code = "clean"
      PROVE  /\ root.step = "none" /\ groups = {}
             /\ run.state = "idle" /\ leaving = {} /\ Live = {}
  <2>1. broker.state = "gone" /\ groups = {} /\ leaving = {} /\ \A s \in Slots : ~Up(s)
    BY <1>1 DEF IInv, Grouped
  <2>2. root.step = "none" /\ run.state = "idle"  BY <1>1, <2>1 DEF IInv, Working
  <2>3. Live = {}  BY <2>1 DEF Live, Up
  <2> QED  BY <2>1, <2>2, <2>3
<1>2. IInv => SuccessLeavesNothing  BY <1>1 DEF SuccessLeavesNothing
<1> QED  BY <1>2, Invariant, PTL

-----------------------------------------------------------------------------
(* What a host starts (HostProcesses): a process and the call that waits   *)
(* for it.                                                                 *)

Whys == {"none", "spawn_failed", "cancelled", "timeout", "output_limit", "cleanup_unverified"}
Programs == {"none", "version", "help", "auth", "model"}
Children == [state : {"none", "running", "settled"}, what : Programs, mode : {"job", "native"},
             root : BOOLEAN, killer : BOOLEAN, why : Whys, code : {0, 1}]

ChildInv ==
    /\ child \in Children /\ astray \in BOOLEAN
    /\ child.state = "none" => ~child.root /\ child.why = "none"
    /\ child.why = "none" => ~child.killer
    /\ child.state = "settled" /\ child.why # "cleanup_unverified" => ~child.root

\* The kinds of a host do not share anything but the process they wait for.
Apart ==
    /\ kind \in {"batch", "session", "review", "task", "modules", "patch"}
    /\ kind \notin {"batch", "session"} =>
          /\ calls = [c \in Calls |-> Waiting] /\ queue = <<>> /\ ~stopped
          /\ batch = [thrown |-> FALSE, status |-> "none"]
    /\ kind # "review" => ReviewInit
    /\ kind # "task" => JobInit
    /\ kind \in {"task", "modules", "patch"} => child.state = "none" /\ ~astray

(* Calls of a batch or a session.                                          *)

Results == {"none", "completed", "unverified", "failed", "blocked", "refused", "rejected"}
CallRecords == [at : {"idle", "queued", "version", "help", "model", "done"},
                ident : 0..2, of : 0..2, ran : 0..2, aborted : BOOLEAN, thrown : BOOLEAN, result : Results]

CallsTypeOK ==
    /\ calls \in [Calls -> CallRecords] /\ queue \in Seq(Calls) /\ stopped \in BOOLEAN
    /\ cache \in [1..2 -> 0..2] /\ exe \in 1..2
    /\ batch \in [thrown : BOOLEAN, status : {"none", "completed", "failed"}]

Taking(c) == \E i \in DOMAIN queue : queue[i] = c

\* A call is in the queue once, from when it is taken; a call that is not has never begun.
Queued ==
    /\ \A i, j \in DOMAIN queue : queue[i] = queue[j] => i = j
    /\ \A c \in Calls : Taking(c) => calls[c].at # "idle"
    /\ \A c \in Calls : ~Taking(c) => calls[c].at \in {"idle", "done"} /\ calls[c].ran = 0
                                      /\ calls[c].result \in {"none", "refused"}

\* One call after the other: whoever has begun is preceded by calls that are over.
InTurn == \A i, j \in DOMAIN queue : i < j /\ calls[queue[j]].at # "queued" => Done(queue[i])

\* What is known of a call by how far it is, and of the session by its calls.
Followed ==
    /\ \A c \in Calls : /\ ~Done(c) => calls[c].result = "none"
                        /\ calls[c].ran # 0 => calls[c].at \in {"model", "done"}
                        /\ InFlight(c) => ~stopped
                        /\ Done(c) /\ Taking(c) /\ ~stopped => calls[c].result = "completed"
    /\ child.state # "none" => \E c \in Calls : InFlight(c)
    /\ astray => stopped

\* Which build answered: what was said is about the build the call began with, unless
\* another has replaced it since.
BuildsKnown ==
    /\ \A b \in 1..2 : ~stopped => cache[b] \in {0, b}
    /\ \A c \in Calls :
          /\ calls[c].at = "version" => /\ 1 <= calls[c].ident
                                        /\ calls[c].ident = calls[c].of /\ calls[c].of <= exe
          /\ calls[c].at = "help" => /\ 1 <= calls[c].ident /\ HasVersion(calls[c].ident)
                                     /\ calls[c].ident <= calls[c].of /\ calls[c].of <= exe
          /\ calls[c].ran # 0 => HasVersion(calls[c].ran) /\ HasFlags(calls[c].ran)

Warranted ==
    /\ \A i, j \in DOMAIN queue : i < j /\ calls[queue[j]].ran # 0 => calls[queue[i]].result = "completed"
    /\ HeadlessTold
    /\ batch.status # "none" => kind = "batch"
    /\ batch.status = "completed" => Len(queue) = Cardinality(Calls)

CallsInv == CallsTypeOK /\ Queued /\ InTurn /\ Followed /\ BuildsKnown /\ Warranted

(* A review.                                                               *)

ReviewInv ==
    /\ review \in [at : {"idle", "help", "auth", "marked", "model", "over"}, aborted : BOOLEAN,
                   marked : BOOLEAN, started : BOOLEAN, ran : BOOLEAN, result : {"none", "completed", "failed"}]
    /\ folder \in {"none", "made", "removed", "kept"}
    /\ ReviewTold
    /\ review.at \in {"idle", "over"} => child.state = "none"
    /\ review.at # "over" => review.result = "none" /\ ~astray
    /\ review.at = "marked" => review.marked /\ child.state = "settled" /\ child.why = "none"
    /\ review.at = "model" => review.marked /\ review.started /\ (child.why = "none" => review.ran)

(* A task in its sandbox.                                                  *)

Gateways == [at : {"idle", "running", "cleaning", "done"}, killing : BOOLEAN, client : BOOLEAN,
             why : {"none", "not-started", "spawn", "cancelled", "timeout", "output-limit", "cleanup", "bytes"},
             got : {"none", "whole", "part", "torn"}, code : {0, 1}]
Launchers == [at : {"none", "begin", "bare", "leased", "model", "compare", "emit", "trap", "gone"},
              status : {0, 1}, patch : {"none", "whole", "torn"}]
JobDirs == [dir : {"none", "bare", "leased"}, made : Nat, until : Nat, torn : BOOLEAN]

JobTypeOK ==
    /\ gateway \in Gateways /\ launcher \in Launchers /\ jobDir \in JobDirs
    /\ cleaner \in {"none", "tearing", "done", "failed"} /\ scan \in {"none", "chosen", "tearing"}
    /\ clock \in Nat

\* The gateway waits and has not given up.
Waits == gateway.at = "running" /\ ~gateway.killing

\* No scan takes the job of a gateway that waits, before its launcher is over.
Undisturbed == Waits =>
    /\ gateway.why = "none" /\ gateway.client /\ cleaner = "none" /\ ~jobDir.torn /\ clock <= Deadline
    /\ AtWork => scan = "none"
    /\ launcher.at = "begin" => jobDir.dir = "none"
    /\ launcher.at = "bare" => jobDir.dir = "bare" /\ clock < jobDir.made + Young
    /\ launcher.at \in {"leased", "model", "compare", "emit"} =>
          jobDir.dir = "leased" /\ jobDir.until > Deadline
    /\ launcher.at = "emit" => launcher.patch = "whole"
    /\ launcher.at \in {"trap", "gone"} /\ launcher.status = 0 => gateway.got = "whole"
    /\ launcher.at = "gone" /\ launcher.status = 0 => jobDir.dir = "none"

\* What success is worth, once the gateway waits no longer for wsl.exe.
Closing ==
    /\ gateway.at = "idle" => JobInit
    /\ gateway.killing => gateway.why # "none"
    /\ jobDir.torn => gateway.killing \/ gateway.at \in {"cleaning", "done"}
    /\ gateway.at \in {"cleaning", "done"} /\ gateway.why = "none" /\ gateway.code = 0 =>
          launcher.at = "gone" /\ gateway.got = "whole" /\ jobDir.dir = "none"

JobInv == JobTypeOK /\ Undisturbed /\ Closing

HostInv ==
    /\ Apart /\ ChildInv
    /\ kind \in {"batch", "session"} => CallsInv
    /\ kind = "review" => ReviewInv
    /\ kind = "task" => JobInv
-----------------------------------------------------------------------------
(* The process.                                                            *)

\* No process at all is a record of a process too.
LEMMA NoChildTyped ==
  NoChild \in Children /\ NoChild.state = "none" /\ ~NoChild.root /\ ~NoChild.killer /\ NoChild.why = "none"
  BY DEF NoChild, Children, Whys, Programs

\* Only the first reason to stop a program counts, and it stops while it runs.
LEMMA Stopping ==
  ASSUME ChildInv, NEW why \in Whys \ {"none", "cleanup_unverified"}, Stop(why)
  PROVE  /\ ChildInv' /\ astray' = astray
         /\ child.state = "running" /\ child'.state = "running" /\ child.why = "none" /\ child'.why # "none"
<1>1. CASE child.mode = "job"
  <2>1. child' = [child EXCEPT !.why = why, !.root = FALSE, !.code = 1] /\ astray' = astray
    BY <1>1 DEF Stop
  <2>2. child' \in Children  BY <2>1 DEF ChildInv, Children
  <2> QED  BY <2>1, <2>2 DEF Stop, ChildInv, Children
<1>2. CASE child.mode # "job"
  BY <1>2 DEF Stop, ChildInv, Children
<1> QED  BY <1>1, <1>2

\* A program by itself: it may end, be stopped or be given up, but not be started or forgotten.
LEMMA ProcessKeeps ==
  ASSUME ChildInv, ProcessNext
  PROVE  /\ ChildInv' /\ astray' = astray
         /\ child.state # "none" /\ child'.state # "none"
         /\ child'.why = "none" => child.why = "none"
         /\ ~(child.state = "settled" /\ child.why = "none")
<1>1. CASE Close
  BY <1>1 DEF Close, ChildInv, Children
<1>2. CASE KillerEnds
  <2>1. CASE child' = [child EXCEPT !.killer = FALSE, !.root = FALSE, !.code = 1]
    <3>1. child' \in Children  BY <2>1 DEF ChildInv, Children
    <3> QED  BY <1>2, <2>1, <3>1 DEF KillerEnds, ChildInv, Children
  <2>2. CASE /\ child.state = "running"
             /\ child' = [child EXCEPT !.killer = FALSE, !.root = FALSE,
                                       !.why = "cleanup_unverified", !.code = 1]
    <3>1. child' \in Children  BY <2>2 DEF ChildInv, Children, Whys
    <3> QED  BY <1>2, <2>2, <3>1 DEF KillerEnds, ChildInv, Children
  <2>3. CASE child.state = "settled" /\ child' = [child EXCEPT !.killer = FALSE]
    BY <1>2, <2>3 DEF KillerEnds, ChildInv, Children
  <2> QED  BY <1>2, <2>1, <2>2, <2>3 DEF KillerEnds
<1>3. CASE KillTimer
  BY <1>3 DEF KillTimer, ChildInv, Children, Whys
<1>4. CASE \E code \in 0..1 : Exits(code)
  <2>1. PICK code \in 0..1 : Exits(code)  BY <1>4
  <2>2. code \in {0, 1}  OBVIOUS
  <2> QED  BY <2>1, <2>2 DEF Exits, ChildInv, Children
<1>5. CASE \E why \in {"timeout", "output_limit"} : Stop(why)
  BY <1>5, Stopping DEF Whys
<1> QED  BY <1>1, <1>2, <1>3, <1>4, <1>5 DEF ProcessNext

\* A call that starts a program finds it running, or why it did not start.
LEMMA LaunchKeeps ==
  ASSUME ChildInv, NEW what \in Programs, NEW mode \in {"job", "native"}, NEW aborted,
         Launch(what, mode, aborted)
  PROVE  /\ ChildInv' /\ astray' = (astray \/ child.root)
         /\ child'.state \in {"running", "settled"}
         /\ child'.why = "none" => child'.state = "running"
<1>1. child' \in {[Result("cancelled") EXCEPT !.what = what]} \cup Spawned(what, mode)
  BY DEF Launch
<1>2. astray' = (astray \/ child.root) /\ astray' \in BOOLEAN
  BY DEF Launch, ChildInv, Children
<1>3. \A why \in Whys : /\ Result(why) \in Children
                       /\ Result(why).state = "settled" /\ Result(why).why = why
                       /\ ~Result(why).root /\ ~Result(why).killer
  BY NoChildTyped DEF Result, Children
<1>4. ASSUME NEW why \in {"cancelled", "spawn_failed"}, child' = [Result(why) EXCEPT !.what = what]
      PROVE  ChildInv' /\ child'.state = "settled" /\ child'.why # "none"
  <2>1. Result(why) \in Children /\ Result(why).state = "settled" /\ Result(why).why = why
        /\ ~Result(why).root /\ ~Result(why).killer
    BY <1>3 DEF Whys
  <2> QED  BY <1>2, <1>4, <2>1 DEF ChildInv, Children
<1>5. ASSUME child' = [NoChild EXCEPT !.state = "running", !.what = what, !.mode = mode, !.root = TRUE]
      PROVE  ChildInv' /\ child'.state = "running"
  BY <1>2, <1>5, NoChildTyped DEF ChildInv, Children
<1> QED  BY <1>1, <1>2, <1>4, <1>5 DEF Spawned

\* A result that is read is gone; a program that could not be killed may be astray.
LEMMA TakenKeeps ==
  ASSUME ChildInv, Taken
  PROVE  ChildInv' /\ child'.state = "none" /\ astray' = (astray \/ child.root)
<1>1. child' = NoChild /\ astray' = (astray \/ child.root)  BY DEF Taken
<1>2. astray' \in BOOLEAN  BY <1>1 DEF ChildInv, Children
<1> QED  BY <1>1, <1>2, NoChildTyped DEF ChildInv

-----------------------------------------------------------------------------
(* A review.                                                               *)

\* A review is over, completed only if the model ran.
LEMMA ReviewEnds ==
  ASSUME ReviewInv, ChildInv, review.at # "over", NEW result \in {"completed", "failed"}, EndReview(result),
         result = "completed" => review.ran
  PROVE  ReviewInv' /\ ChildInv'
<1>1. ChildInv' /\ child'.state = "none"  BY TakenKeeps DEF EndReview
<1>2. folder' \in {"none", "removed", "kept"}  BY DEF EndReview
<1>3. PICK verdict \in IF folder' = "removed" THEN {result, "failed"} ELSE {"failed"} :
         review' = [review EXCEPT !.at = "over", !.result = verdict]
  BY DEF EndReview
<1>4. verdict \in {"completed", "failed"} /\ (verdict = "completed" => review.ran /\ folder' = "removed")
  BY <1>3
<1> QED  BY <1>1, <1>2, <1>3, <1>4 DEF ReviewInv, ReviewTold

\* Every step of a review keeps what is known of it.
LEMMA ReviewKeeps ==
  ASSUME ReviewInv, ChildInv, ReviewNext
  PROVE  ReviewInv' /\ ChildInv'
<1> USE DEF Programs
<1>1. CASE ReviewAsked
  <2>1. CASE EndReview("failed")  BY <1>1, <2>1, ReviewEnds DEF ReviewAsked
  <2>2. CASE /\ folder' = "made" /\ review' = [review EXCEPT !.at = "help"]
             /\ Launch("help", "job", FALSE)
    <3>1. ~child.root  BY <1>1 DEF ReviewAsked, ReviewInv, ChildInv
    <3>2. ChildInv' /\ astray' = (astray \/ child.root)  BY <2>2, LaunchKeeps
    <3> QED  BY <1>1, <2>2, <3>1, <3>2 DEF ReviewAsked, ReviewInv, ReviewTold
  <2> QED  BY <1>1, <2>1, <2>2 DEF ReviewAsked
<1>2. CASE HelpGiven
  <2>1. CASE EndReview("failed")  BY <1>2, <2>1, ReviewEnds DEF HelpGiven
  <2>2. CASE /\ Good /\ review' = [review EXCEPT !.at = "auth"]
             /\ Launch("auth", "job", review.aborted) /\ UNCHANGED folder
    <3>1. ~child.root  BY <2>2 DEF Good, ChildInv
    <3>2. ChildInv' /\ astray' = (astray \/ child.root)  BY <2>2, LaunchKeeps
    <3> QED  BY <1>2, <2>2, <3>1, <3>2 DEF HelpGiven, ReviewInv, ReviewTold
  <2> QED  BY <1>2, <2>1, <2>2 DEF HelpGiven
<1>3. CASE LoginChecked
  <2>1. CASE EndReview("failed")  BY <1>3, <2>1, ReviewEnds DEF LoginChecked
  <2>2. CASE /\ Good /\ ~review.aborted
             /\ review' = [review EXCEPT !.at = "marked", !.marked = TRUE]
             /\ UNCHANGED <<folder, pvars>>
    BY <1>3, <2>2 DEF LoginChecked, Good, pvars, ReviewInv, ReviewTold, ChildInv
  <2> QED  BY <1>3, <2>1, <2>2 DEF LoginChecked
<1>4. CASE StartModel
  <2>1. CASE EndReview("failed")  BY <1>4, <2>1, ReviewEnds DEF StartModel
  <2>2. CASE /\ Launch("model", "job", FALSE) /\ UNCHANGED folder
             /\ review' = [review EXCEPT !.at = "model", !.started = TRUE, !.ran = child'.state = "running"]
    <3>1. ~child.root  BY <1>4 DEF StartModel, ReviewInv, ChildInv
    <3>2. /\ ChildInv' /\ astray' = (astray \/ child.root)
          /\ child'.why = "none" => child'.state = "running"
      BY <2>2, LaunchKeeps
    <3> QED  BY <1>4, <2>2, <3>1, <3>2 DEF StartModel, ReviewInv, ReviewTold
  <2> QED  BY <1>4, <2>1, <2>2 DEF StartModel
<1>5. CASE ModelSpoke
  <2>1. PICK result \in {"completed", "failed"} : EndReview(result) /\ (result = "completed" => Good)
    BY <1>5 DEF ModelSpoke
  <2>2. result = "completed" => review.ran
    BY <1>5, <2>1 DEF ModelSpoke, Good, ReviewInv
  <2> QED  BY <1>5, <2>1, <2>2, ReviewEnds DEF ModelSpoke
<1>6. CASE AbortReview
  <2>1. CASE Stop("cancelled")
    <3>1. /\ ChildInv' /\ astray' = astray
          /\ child.state = "running" /\ child'.state = "running" /\ child'.why # "none"
      BY <2>1, Stopping DEF Whys
    <3> QED  BY <1>6, <3>1 DEF AbortReview, ReviewInv, ReviewTold
  <2>2. CASE UNCHANGED pvars
    BY <1>6, <2>2 DEF AbortReview, pvars, ReviewInv, ReviewTold, ChildInv
  <2> QED  BY <1>6, <2>1, <2>2 DEF AbortReview
<1> QED  BY <1>1, <1>2, <1>3, <1>4, <1>5, <1>6 DEF ReviewNext

\* So does every step of the program it waits for.
LEMMA ReviewProcess ==
  ASSUME ReviewInv, ChildInv, ProcessNext, UNCHANGED rvars
  PROVE  ReviewInv' /\ ChildInv'
<1>1. /\ ChildInv' /\ astray' = astray
      /\ child.state # "none" /\ (child'.why = "none" => child.why = "none")
      /\ ~(child.state = "settled" /\ child.why = "none")
  BY ProcessKeeps
<1> QED  BY <1>1 DEF rvars, ReviewInv, ReviewTold

-----------------------------------------------------------------------------
(* A task in its sandbox.                                                  *)

\* The limits of time are numbers, and the lease outlasts the gateway's wait.
LEMMA Times ==
  /\ Timeout \in Nat /\ HostSlack \in Nat /\ LeaseSlack \in Nat /\ Young \in Nat /\ Horizon \in Nat
  /\ Deadline \in Nat /\ HostSlack < LeaseSlack /\ Deadline < Horizon /\ Young > 1
  BY TimeAssumption DEF Deadline

\* Every step of a task keeps the types.
LEMMA JobTyped ==
  ASSUME JobTypeOK, JobNext
  PROVE  JobTypeOK'
<1>1. launcher' \in Launchers
  <2>1. CASE UNCHANGED launcher  BY <2>1 DEF JobTypeOK
  <2>2. CASE \E at \in {"begin", "bare", "leased", "model", "trap", "gone"} : Step(at)
    BY <2>2 DEF Step, JobTypeOK, Launchers
  <2>3. CASE \E at \in {"compare", "trap", "gone"}, status \in {0, 1} :
               launcher' = [launcher EXCEPT !.at = at, !.status = status]
    BY <2>3 DEF JobTypeOK, Launchers
  <2>4. CASE Compare  BY <2>4 DEF Compare, JobTypeOK, Launchers
  <2>5. CASE ClientKilled  BY <2>1, <2>3, <2>5 DEF ClientKilled, JobTypeOK, Launchers
  <2>6. CASE ModelOver
    <3>1. PICK status \in (IF jobDir.torn \/ jobDir.dir = "none" THEN {1} ELSE 0..1) :
             launcher' = [launcher EXCEPT !.at = "compare", !.status = status]
      BY <2>6 DEF ModelOver
    <3>2. status \in {0, 1}
      <4>1. CASE jobDir.torn \/ jobDir.dir = "none"  BY <4>1
      <4>2. CASE ~(jobDir.torn \/ jobDir.dir = "none")  BY <4>2
      <4> QED  BY <4>1, <4>2
    <3> QED  BY <2>3, <3>1, <3>2
  <2>7. CASE Fails \/ Trap
    <3>1. \/ \E at \in {"trap", "gone"} : launcher' = [launcher EXCEPT !.at = at, !.status = 1]
          \/ Step("gone")
      BY <2>7 DEF Fails, Trap
    <3> QED  BY <2>2, <2>3, <3>1
  <2>8. CASE MakeDir \/ WriteLease \/ Prepare \/ Emit \/ Started
    <3>1. \E at \in {"begin", "bare", "leased", "model", "trap", "gone"} : Step(at)
      BY <2>8 DEF MakeDir, WriteLease, Prepare, Emit, Started
    <3> QED  BY <2>2, <3>1
  <2>9. CASE \/ Tick \/ Refused \/ SpawnFails \/ StopTask \/ OutputLimit \/ Closed \/ CleanupAsked
             \/ CleanupEnds \/ Finished \/ ScanLooks \/ ScanTears \/ ScanEnds
    <3>1. UNCHANGED launcher
      BY <2>9 DEF Tick, Refused, SpawnFails, StopTask, OutputLimit, Closed, CleanupAsked, CleanupEnds,
         Finished, ScanLooks, ScanTears, ScanEnds
    <3> QED  BY <2>1, <3>1
  <2> QED  BY <2>4, <2>5, <2>6, <2>7, <2>8, <2>9 DEF JobNext
<1>2. gateway' \in Gateways
  <2>1. CASE UNCHANGED gateway  BY <2>1 DEF JobTypeOK
  <2>2. CASE Emit
    <3>1. launcher.patch \in {"none", "whole", "torn"}  BY DEF JobTypeOK, Launchers
    <3> QED  BY <2>2, <3>1 DEF Emit, JobTypeOK, Gateways
  <2>3. CASE Refused \/ SpawnFails
    BY <2>3 DEF Refused, SpawnFails, JobTypeOK, Gateways
  <2>4. CASE Started \/ ClientKilled
    BY <2>4 DEF Started, ClientKilled, JobTypeOK, Gateways
  <2>5. CASE StopTask \/ OutputLimit
    BY <2>5 DEF StopTask, OutputLimit, Halt, JobTypeOK, Gateways
  <2>6. CASE Closed
    <3>1. PICK code \in {0, 1} : gateway' = [gateway EXCEPT !.at = "cleaning", !.client = FALSE, !.code = code]
      BY <2>6 DEF Closed, JobTypeOK, Launchers
    <3> QED  BY <3>1 DEF JobTypeOK, Gateways
  <2>7. CASE Finished
    <3>1. PICK why \in {gateway.why, "cleanup", "bytes", "none"} :
             gateway' = [gateway EXCEPT !.at = "done", !.why = why]
      BY <2>7 DEF Finished, Why
    <3> QED  BY <3>1 DEF JobTypeOK, Gateways
  <2>8. CASE \/ Tick \/ MakeDir \/ WriteLease \/ Prepare \/ ModelOver \/ Compare \/ Fails \/ Trap
             \/ CleanupAsked \/ CleanupEnds \/ ScanLooks \/ ScanTears \/ ScanEnds
    <3>1. UNCHANGED gateway
      BY <2>8 DEF Tick, MakeDir, WriteLease, Prepare, ModelOver, Compare, Fails, Trap,
         CleanupAsked, CleanupEnds, ScanLooks, ScanTears, ScanEnds
    <3> QED  BY <2>1, <3>1
  <2> QED  BY <2>2, <2>3, <2>4, <2>5, <2>6, <2>7, <2>8 DEF JobNext
<1>3. jobDir' \in JobDirs
  <2>1. CASE UNCHANGED jobDir  BY <2>1 DEF JobTypeOK
  <2>2. CASE jobDir' = [jobDir EXCEPT !.dir = "bare", !.made = clock]
    BY <2>2 DEF JobTypeOK, JobDirs
  <2>3. CASE jobDir' = [jobDir EXCEPT !.dir = "none"]
    BY <2>3 DEF JobTypeOK, JobDirs
  <2>4. CASE WriteLease
    <3>1. clock + Timeout + LeaseSlack \in Nat  BY Times DEF JobTypeOK
    <3> QED  BY <2>4, <3>1 DEF WriteLease, JobTypeOK, JobDirs
  <2>5. CASE CleanupAsked \/ ScanTears
    <3>1. jobDir' = [jobDir EXCEPT !.torn = @ \/ (AtWork /\ jobDir.dir # "none")]
      BY <2>5 DEF CleanupAsked, ScanTears, Tear
    <3>2. (jobDir.torn \/ (AtWork /\ jobDir.dir # "none")) \in BOOLEAN  OBVIOUS
    <3> QED  BY <3>1, <3>2 DEF JobTypeOK, JobDirs
  <2>6. CASE MakeDir \/ Prepare \/ Trap \/ CleanupEnds \/ ScanEnds
    BY <2>1, <2>2, <2>3, <2>6 DEF MakeDir, Prepare, Trap, CleanupEnds, ScanEnds, Torn
  <2>7. CASE \/ Tick \/ ModelOver \/ Compare \/ Emit \/ Fails \/ Refused \/ Started \/ SpawnFails \/ StopTask
             \/ OutputLimit \/ ClientKilled \/ Closed \/ Finished \/ ScanLooks
    <3>1. UNCHANGED jobDir
      BY <2>7 DEF Tick, ModelOver, Compare, Emit, Fails, Refused, Started, SpawnFails, StopTask,
         OutputLimit, ClientKilled, Closed, Finished, ScanLooks
    <3> QED  BY <2>1, <3>1
  <2> QED  BY <2>4, <2>5, <2>6, <2>7 DEF JobNext
<1>4. /\ cleaner' \in {"none", "tearing", "done", "failed"}
      /\ scan' \in {"none", "chosen", "tearing"} /\ clock' \in Nat
  <2>1. CASE Tick  BY <2>1 DEF Tick, JobTypeOK
  <2>2. CASE CleanupAsked \/ CleanupEnds  BY <2>2 DEF CleanupAsked, CleanupEnds, JobTypeOK
  <2>3. CASE ScanLooks  BY <2>3 DEF ScanLooks, JobTypeOK
  <2>4. CASE ScanTears \/ ScanEnds  BY <2>4 DEF ScanTears, ScanEnds, JobTypeOK
  <2>5. CASE \/ MakeDir \/ WriteLease \/ Prepare \/ ModelOver \/ Compare \/ Emit \/ Fails \/ Trap \/ Refused
             \/ Started \/ SpawnFails \/ StopTask \/ OutputLimit \/ ClientKilled \/ Closed \/ Finished
    <3>1. UNCHANGED <<cleaner, scan, clock>>
      BY <2>5 DEF MakeDir, WriteLease, Prepare, ModelOver, Compare, Emit, Fails, Trap, Refused,
         Started, SpawnFails, StopTask, OutputLimit, ClientKilled, Closed, Finished
    <3> QED  BY <3>1 DEF JobTypeOK
  <2> QED  BY <2>1, <2>2, <2>3, <2>4, <2>5 DEF JobNext
<1> QED  BY <1>1, <1>2, <1>3, <1>4 DEF JobTypeOK

\* While the gateway waits, no scan finds a reason to clean a job at work.
LEMMA NotChosen ==
  ASSUME JobInv, Waits, AtWork, ScanLooks
  PROVE  FALSE
<1>1. PICK reused \in BOOLEAN : ~LeftAlone(launcher.at # "gone" \/ reused)  BY DEF ScanLooks
<1>2. launcher.at \in {"begin", "bare", "leased", "model", "compare", "emit"}
  BY DEF AtWork, JobInv, JobTypeOK, Launchers
<1>3. jobDir.dir # "none"  BY DEF ScanLooks
<1>4. clock <= Deadline /\ Deadline < Horizon /\ clock \in Nat /\ Deadline \in Nat /\ Horizon \in Nat
  BY Times DEF JobInv, JobTypeOK, Undisturbed, Deadline
<1>5. clock # Horizon  BY <1>4
<1>6. CASE launcher.at = "begin"  BY <1>3, <1>6 DEF JobInv, Undisturbed
<1>7. CASE launcher.at = "bare"
  <2>1. jobDir.dir = "bare" /\ clock < jobDir.made + Young  BY <1>7 DEF JobInv, Undisturbed
  <2>2. ~Aged  BY <1>4, <1>5, <2>1, Times DEF Aged, JobInv, JobTypeOK, JobDirs
  <2> QED  BY <1>1, <2>1, <2>2 DEF LeftAlone
<1>8. CASE launcher.at \in {"leased", "model", "compare", "emit"}
  <2>1. jobDir.dir = "leased" /\ jobDir.until > Deadline  BY <1>8 DEF JobInv, Undisturbed
  <2>2. ~Expired  BY <1>4, <1>5, <2>1 DEF Expired, JobInv, JobTypeOK, JobDirs
  <2>3. launcher.at # "gone"  BY <1>8
  <2> QED  BY <1>1, <2>1, <2>2, <2>3 DEF LeftAlone
<1> QED  BY <1>2, <1>6, <1>7, <1>8

\* The launcher's own steps, while the gateway waits.
LEMMA LauncherKeeps ==
  ASSUME JobInv, JobTypeOK', MakeDir \/ WriteLease \/ Prepare \/ ModelOver \/ Compare \/ Emit \/ Fails \/ Trap
  PROVE  Undisturbed'
<1> SUFFICES ASSUME Waits'  PROVE Undisturbed'
  BY DEF Undisturbed
<1> USE DEF Step, AtWork, Deadline
<1>0. Waits /\ JobTypeOK
  BY DEF JobInv, JobTypeOK, Gateways, Waits, MakeDir, WriteLease, Prepare, ModelOver,
     Compare, Emit, Fails, Trap
<1>1. CASE MakeDir
  <2>1. jobDir' = [jobDir EXCEPT !.dir = "bare", !.made = clock] /\ launcher' = [launcher EXCEPT !.at = "bare"]
        /\ launcher.at = "begin" /\ UNCHANGED <<gateway, cleaner, scan, clock>>
    BY <1>1 DEF MakeDir
  <2>2. jobDir'.dir = "bare" /\ jobDir'.made = clock /\ jobDir'.torn = jobDir.torn
    BY <1>0, <2>1 DEF JobTypeOK, JobDirs
  <2>3. launcher'.at = "bare"  BY <1>0, <2>1 DEF JobTypeOK, Launchers
  <2>4. clock < clock + Young  BY <1>0, Times DEF JobTypeOK
  <2> QED  BY <1>0, <2>1, <2>2, <2>3, <2>4 DEF JobInv, Undisturbed
<1>2. CASE WriteLease
  <2>1. jobDir.dir = "bare"  BY <1>0, <1>2 DEF WriteLease, JobInv, Undisturbed
  <2>2. launcher' = [launcher EXCEPT !.at = "leased"]
        /\ jobDir' = [jobDir EXCEPT !.dir = "leased", !.until = clock + Timeout + LeaseSlack]
    BY <1>2, <2>1 DEF WriteLease
  <2>3. clock + Timeout + LeaseSlack > Timeout + HostSlack
    BY Times DEF JobInv, JobTypeOK
  <2>4. jobDir'.until > Deadline /\ jobDir'.dir = "leased" /\ ~jobDir'.torn = ~jobDir.torn
    BY <2>2, <2>3 DEF JobInv, JobTypeOK, JobDirs
  <2>5. launcher'.at = "leased"  BY <2>2 DEF JobInv, JobTypeOK, Launchers
  <2>6. UNCHANGED <<gateway, cleaner, scan, clock>> /\ launcher.at = "bare"  BY <1>2 DEF WriteLease
  <2> QED  BY <1>0, <2>4, <2>5, <2>6 DEF JobInv, JobTypeOK, Undisturbed
<1>3. CASE Prepare
  BY <1>0, <1>3 DEF Prepare, JobInv, JobTypeOK, Undisturbed
<1>4. CASE ModelOver
  BY <1>0, <1>4 DEF ModelOver, JobInv, JobTypeOK, Launchers, Undisturbed
<1>5. CASE Compare
  BY <1>0, <1>5 DEF Compare, JobInv, JobTypeOK, Undisturbed
<1>6. CASE Emit
  BY <1>0, <1>6 DEF Emit, JobInv, JobTypeOK, Undisturbed
<1>7. CASE Fails
  <2>1. /\ launcher' = [launcher EXCEPT !.at = "trap", !.status = 1]
        /\ UNCHANGED <<gateway, jobDir, cleaner, scan, clock>>
        /\ launcher.at \in {"begin", "bare", "leased", "compare", "emit"}
    BY <1>7 DEF Fails
  <2>2. launcher'.at = "trap" /\ launcher'.status = 1  BY <1>0, <2>1 DEF JobTypeOK, Launchers
  <2> QED  BY <1>0, <2>1, <2>2 DEF JobInv, Undisturbed
<1>8. CASE Trap
  <2>1. CASE /\ jobDir' = [jobDir EXCEPT !.dir = "none"] /\ launcher' = [launcher EXCEPT !.at = "gone"]
    <3>1. jobDir'.dir = "none" /\ jobDir'.torn = jobDir.torn  BY <1>0, <2>1 DEF JobTypeOK, JobDirs
    <3>2. launcher'.at = "gone" /\ launcher'.status = launcher.status  BY <1>0, <2>1 DEF JobTypeOK, Launchers
    <3> QED  BY <1>0, <1>8, <3>1, <3>2 DEF Trap, JobInv, Undisturbed
  <2>2. CASE UNCHANGED jobDir /\ launcher' = [launcher EXCEPT !.at = "gone", !.status = 1]
    <3>1. launcher'.at = "gone" /\ launcher'.status = 1  BY <1>0, <2>2 DEF JobTypeOK, Launchers
    <3> QED  BY <1>0, <1>8, <2>2, <3>1 DEF Trap, JobInv, Undisturbed
  <2> QED  BY <1>8, <2>1, <2>2 DEF Trap
<1> QED  BY <1>1, <1>2, <1>3, <1>4, <1>5, <1>6, <1>7, <1>8

\* What everybody else does, while the gateway waits.
LEMMA OthersKeep ==
  ASSUME JobInv, JobTypeOK',
         \/ Tick \/ Refused \/ Started \/ SpawnFails \/ StopTask \/ OutputLimit \/ ClientKilled
         \/ Closed \/ CleanupAsked \/ CleanupEnds \/ Finished \/ ScanLooks \/ ScanTears \/ ScanEnds
  PROVE  Undisturbed'
<1> SUFFICES ASSUME Waits'  PROVE Undisturbed'
  BY DEF Undisturbed
<1> USE DEF AtWork
<1>1. CASE Tick
  <2>1. clock + 1 <= Deadline
    <3>1. clock < Deadline  BY <1>1 DEF Tick, Waits
    <3> QED  BY <3>1, Times DEF JobInv, JobTypeOK
  <2> QED  BY <1>1, <2>1 DEF Tick, Waits, JobInv, JobTypeOK, Undisturbed, Deadline
<1>2. CASE Started
  <2>1. JobInit  BY <1>2 DEF Started, JobInv, Closing
  <2>2. /\ gateway' = [gateway EXCEPT !.at = "running", !.client = TRUE]
        /\ launcher' = [launcher EXCEPT !.at = "begin"] /\ UNCHANGED <<jobDir, cleaner, scan, clock>>
    BY <1>2 DEF Started, Step
  <2>3. launcher'.at = "begin" /\ gateway'.why = "none" /\ gateway'.client
    BY <2>1, <2>2 DEF JobInit, JobInv, JobTypeOK
  <2>4. jobDir'.dir = "none" /\ ~jobDir'.torn /\ cleaner' = "none" /\ scan' = "none" /\ clock' = 0
    BY <2>1, <2>2 DEF JobInit
  <2>5. clock' <= Deadline'  BY <2>4, Times DEF Deadline
  <2> QED  BY <2>3, <2>4, <2>5 DEF Undisturbed
<1>3. CASE Refused \/ SpawnFails \/ StopTask \/ OutputLimit \/ Closed \/ Finished
  BY <1>3 DEF Refused, SpawnFails, StopTask, OutputLimit, Halt, Closed, Finished, Waits, JobInv,
     JobTypeOK, Gateways
<1>4. CASE ClientKilled
  BY <1>4 DEF ClientKilled, Waits, JobInv, JobTypeOK
<1>5. CASE CleanupAsked
  BY <1>5 DEF CleanupAsked, Waits
<1>6. CASE CleanupEnds
  <2>1. Waits /\ UNCHANGED <<gateway, launcher, scan, clock>>  BY <1>6 DEF CleanupEnds, Waits
  <2>2. cleaner = "tearing"  BY <1>6 DEF CleanupEnds
  <2> QED  BY <2>1, <2>2 DEF JobInv, Undisturbed, Closing
<1>7. CASE ScanLooks
  <2>1. UNCHANGED <<gateway, launcher, jobDir, cleaner, clock>>  BY <1>7 DEF ScanLooks
  <2>2. Waits  BY <2>1 DEF Waits
  <2>3. ~AtWork  BY <1>7, <2>2, NotChosen
  <2> QED  BY <2>1, <2>2, <2>3 DEF JobInv, Undisturbed
<1>8. CASE ScanTears
  <2>1. scan = "chosen" /\ UNCHANGED <<gateway, launcher, cleaner, clock>>  BY <1>8 DEF ScanTears
  <2>2. Waits  BY <2>1 DEF Waits
  <2>3. ~AtWork  BY <2>1, <2>2 DEF JobInv, Undisturbed
  <2>4. jobDir' = jobDir  BY <1>8, <2>3 DEF ScanTears, Tear, JobInv, JobTypeOK, JobDirs
  <2> QED  BY <2>1, <2>2, <2>3, <2>4 DEF JobInv, Undisturbed
<1>9. CASE ScanEnds
  <2>1. scan = "tearing" /\ scan' = "none" /\ UNCHANGED <<gateway, launcher, cleaner, clock>>
    BY <1>9 DEF ScanEnds
  <2>2. Waits  BY <2>1 DEF Waits
  <2>3. ~AtWork  BY <2>1, <2>2 DEF JobInv, Undisturbed
  <2>4. jobDir' = jobDir \/ jobDir' = [jobDir EXCEPT !.dir = "none"]
    BY <1>9 DEF ScanEnds, Torn
  <2>5. jobDir'.torn = jobDir.torn /\ (jobDir.dir = "none" => jobDir'.dir = "none")
    BY <2>4 DEF JobInv, JobTypeOK, JobDirs
  <2> QED  BY <2>1, <2>2, <2>3, <2>5 DEF JobInv, Undisturbed
<1> QED  BY <1>1, <1>2, <1>3, <1>4, <1>5, <1>6, <1>7, <1>8, <1>9

\* How the gateway moves, once it has begun.
LEMMA GatewayMoves ==
  ASSUME JobTypeOK, JobNext, gateway.at # "idle"
  PROVE  \/ gateway' = gateway
         \/ Emit /\ \A f \in {"at", "killing", "client", "why", "code"} : gateway'[f] = gateway[f]
         \/ gateway.at = "running" /\ gateway'.at = "running" /\ gateway'.killing /\ gateway'.why # "none"
         \/ /\ gateway.killing /\ ClientKilled
            /\ \A f \in {"at", "killing", "why", "got", "code"} : gateway'[f] = gateway[f]
         \/ /\ Closed /\ gateway'.at = "cleaning"
            /\ \A f \in {"killing", "why", "got"} : gateway'[f] = gateway[f]
            /\ gateway'.code = IF gateway.client THEN launcher.status ELSE 1
         \/ /\ gateway.at = "cleaning" /\ gateway'.at = "done"
            /\ gateway.why # "none" => gateway'.why # "none"
            /\ \A f \in {"killing", "got", "code"} : gateway'[f] = gateway[f]
<1>1. CASE Emit  BY <1>1 DEF Emit, JobTypeOK, Gateways
<1>2. CASE StopTask \/ OutputLimit  BY <1>2 DEF StopTask, OutputLimit, Halt, JobTypeOK, Gateways
<1>3. CASE ClientKilled
  <2>1. gateway.killing /\ gateway' = [gateway EXCEPT !.client = FALSE]  BY <1>3 DEF ClientKilled
  <2> QED  BY <1>3, <2>1 DEF JobTypeOK, Gateways
<1>4. CASE Closed
  <2> DEFINE code == IF gateway.client THEN launcher.status ELSE 1
  <2>1. gateway' = [gateway EXCEPT !.at = "cleaning", !.client = FALSE, !.code = code]  BY <1>4 DEF Closed
  <2> HIDE DEF code
  <2>2. gateway'.at = "cleaning" /\ gateway'.code = code
        /\ \A f \in {"killing", "why", "got"} : gateway'[f] = gateway[f]
    BY <2>1 DEF JobTypeOK, Gateways
  <2> QED  BY <1>4, <2>2 DEF code
<1>5. CASE Finished
  <2>1. PICK why \in {gateway.why, "cleanup", "bytes", "none"} :
           /\ gateway.at = "cleaning" /\ gateway' = [gateway EXCEPT !.at = "done", !.why = why]
           /\ gateway.why # "none" => why = gateway.why
    BY <1>5 DEF Finished, Why
  <2>2. /\ gateway'.at = "done" /\ gateway'.why = why
        /\ \A f \in {"killing", "got", "code"} : gateway'[f] = gateway[f]
    BY <2>1 DEF JobTypeOK, Gateways
  <2> QED  BY <2>1, <2>2
<1>6. CASE Refused \/ Started \/ SpawnFails  BY <1>6 DEF Refused, Started, SpawnFails
<1>7. CASE \/ Tick \/ MakeDir \/ WriteLease \/ Prepare \/ ModelOver \/ Compare \/ Fails \/ Trap
           \/ CleanupAsked \/ CleanupEnds \/ ScanLooks \/ ScanTears \/ ScanEnds
  <2>1. UNCHANGED gateway
    BY <1>7 DEF Tick, MakeDir, WriteLease, Prepare, ModelOver, Compare, Fails, Trap,
       CleanupAsked, CleanupEnds, ScanLooks, ScanTears, ScanEnds
  <2> QED  BY <2>1
<1> QED  BY <1>1, <1>2, <1>3, <1>4, <1>5, <1>6, <1>7 DEF JobNext

\* The launcher is over and its job removed: so it stays.
LEMMA GoneStays ==
  ASSUME JobTypeOK, JobNext, launcher.at = "gone", jobDir.dir = "none", gateway.at # "idle"
  PROVE  /\ ~gateway.killing => launcher' = launcher
         /\ jobDir'.dir = "none" /\ ~Emit
<1> USE DEF Step
<1>1. ~(MakeDir \/ WriteLease \/ Prepare \/ ModelOver \/ Compare \/ Emit \/ Fails \/ Trap \/ Refused \/ Started
        \/ SpawnFails)
  BY DEF MakeDir, WriteLease, Prepare, ModelOver, Compare, Emit, Fails, Trap, Refused, Started, SpawnFails
<1>2. CASE Tick \/ StopTask \/ OutputLimit \/ Closed \/ Finished \/ ScanLooks
  BY <1>1, <1>2 DEF Tick, StopTask, OutputLimit, Closed, Finished, ScanLooks
<1>3. CASE ClientKilled
  BY <1>1, <1>3 DEF ClientKilled
<1>4. CASE CleanupAsked \/ ScanTears
  <2>1. launcher' = launcher /\ jobDir' = [jobDir EXCEPT !.torn = @ \/ (AtWork /\ jobDir.dir # "none")]
    BY <1>4 DEF CleanupAsked, ScanTears, Tear
  <2>2. jobDir'.dir = jobDir.dir  BY <2>1 DEF JobTypeOK, JobDirs
  <2> QED  BY <1>1, <2>1, <2>2
<1>5. CASE CleanupEnds \/ ScanEnds
  <2>1. launcher' = launcher /\ (jobDir' = [jobDir EXCEPT !.dir = "none"] \/ jobDir' = jobDir)
    BY <1>5 DEF CleanupEnds, ScanEnds, Torn
  <2>2. jobDir'.dir = "none"  BY <2>1 DEF JobTypeOK, JobDirs
  <2> QED  BY <1>1, <2>1, <2>2
<1> QED  BY <1>1, <1>2, <1>3, <1>4, <1>5 DEF JobNext

\* Who takes a job from under a launcher at work: the gateway's own cleanup, or a scan.
LEMMA TornBy ==
  ASSUME JobTypeOK, JobNext
  PROVE  \/ jobDir'.torn = jobDir.torn
         \/ gateway.at = "cleaning" /\ gateway' = gateway
         \/ scan = "chosen" /\ AtWork /\ gateway' = gateway
<1> USE DEF Step
<1>1. CASE MakeDir \/ WriteLease \/ Prepare \/ Trap
  <2>1. \/ jobDir' = jobDir \/ jobDir' = [jobDir EXCEPT !.dir = "none"]
        \/ jobDir' = [jobDir EXCEPT !.dir = "bare", !.made = clock]
        \/ jobDir' = [jobDir EXCEPT !.dir = "leased", !.until = clock + Timeout + LeaseSlack]
    BY <1>1 DEF MakeDir, WriteLease, Prepare, Trap
  <2> QED  BY <2>1 DEF JobTypeOK, JobDirs
<1>2. CASE CleanupEnds \/ ScanEnds
  <2>1. jobDir' = jobDir \/ jobDir' = [jobDir EXCEPT !.dir = "none"]
    BY <1>2 DEF CleanupEnds, ScanEnds, Torn
  <2> QED  BY <2>1 DEF JobTypeOK, JobDirs
<1>3. CASE CleanupAsked  BY <1>3 DEF CleanupAsked
<1>4. CASE ScanTears
  <2>1. scan = "chosen" /\ gateway' = gateway
        /\ jobDir' = [jobDir EXCEPT !.torn = @ \/ (AtWork /\ jobDir.dir # "none")]
    BY <1>4 DEF ScanTears, Tear
  <2>2. CASE AtWork  BY <2>1, <2>2
  <2>3. CASE ~AtWork  BY <2>1, <2>3 DEF JobTypeOK, JobDirs
  <2> QED  BY <2>2, <2>3
<1>5. CASE \/ Tick \/ ModelOver \/ Compare \/ Emit \/ Fails \/ Refused \/ Started \/ SpawnFails \/ StopTask
           \/ OutputLimit \/ ClientKilled \/ Closed \/ Finished \/ ScanLooks
  <2>1. UNCHANGED jobDir
    BY <1>5 DEF Tick, ModelOver, Compare, Emit, Fails, Refused, Started, SpawnFails, StopTask,
       OutputLimit, ClientKilled, Closed, Finished, ScanLooks
  <2> QED  BY <2>1
<1> QED  BY <1>1, <1>2, <1>3, <1>4, <1>5 DEF JobNext

\* Every step keeps what success is worth.
LEMMA ClosingKeeps ==
  ASSUME JobInv, JobNext
  PROVE  Closing'
<1>0. JobTypeOK  BY DEF JobInv
<1>1. CASE gateway.at = "idle"
  <2>1. JobInit  BY <1>1 DEF JobInv, Closing
  <2>2. Refused \/ Started \/ SpawnFails
    BY <1>1, <2>1 DEF JobNext, JobInit, Tick, MakeDir, WriteLease, Prepare, ModelOver, Compare, Emit,
       Fails, Trap, StopTask, OutputLimit, ClientKilled, Closed, CleanupAsked, CleanupEnds, Finished,
       ScanLooks, ScanTears, ScanEnds
  <2>3. /\ gateway'.at \in {"running", "cleaning", "done"} /\ gateway'.killing = gateway.killing
        /\ gateway'.at # "running" => gateway'.why # "none"
    BY <1>0, <2>2 DEF Refused, Started, SpawnFails, JobTypeOK, Gateways
  <2>4. UNCHANGED jobDir  BY <2>2 DEF Refused, Started, SpawnFails
  <2>5. ~gateway.killing /\ ~jobDir.torn  BY <2>1 DEF JobInit
  <2> QED  BY <2>3, <2>4, <2>5 DEF Closing
<1>2. CASE gateway.at # "idle"
  <2>1. gateway'.at # "idle" /\ (gateway.why # "none" => gateway'.why # "none")
    BY <1>0, <1>2, GatewayMoves DEF Closed
  <2>2. gateway'.killing => gateway'.why # "none"
    BY <1>0, <1>2, GatewayMoves DEF JobInv, Closing
  <2>3. gateway.killing \/ gateway.at \in {"cleaning", "done"}
           => gateway'.killing \/ gateway'.at \in {"cleaning", "done"}
    BY <1>0, <1>2, GatewayMoves
  <2>4. jobDir'.torn => gateway'.killing \/ gateway'.at \in {"cleaning", "done"}
    <3>1. CASE jobDir'.torn = jobDir.torn  BY <2>3, <3>1 DEF JobInv, Closing
    <3>2. CASE gateway.at = "cleaning" /\ gateway' = gateway  BY <3>2
    <3>3. CASE scan = "chosen" /\ AtWork /\ gateway' = gateway
      <4>1. ~Waits  BY <3>3 DEF JobInv, Undisturbed
      <4>2. gateway.at \in {"running", "cleaning", "done"}  BY <1>0, <1>2 DEF JobTypeOK, Gateways
      <4> QED  BY <3>3, <4>1, <4>2 DEF Waits
    <3> QED  BY <1>0, <3>1, <3>2, <3>3, TornBy
  <2>5. ASSUME gateway'.at \in {"cleaning", "done"}, gateway'.why = "none", gateway'.code = 0
        PROVE  launcher'.at = "gone" /\ gateway'.got = "whole" /\ jobDir'.dir = "none"
    <3>1. ~gateway.killing /\ gateway.why = "none"  BY <2>1, <2>5 DEF JobInv, Closing
    <3>2. CASE Closed
      <4>1. Waits /\ UNCHANGED <<launcher, jobDir>> /\ (launcher.at = "gone" \/ ~gateway.client)
        BY <3>1, <3>2 DEF Closed, Waits
      <4>2. gateway.client /\ launcher.at = "gone"  BY <4>1 DEF JobInv, Undisturbed
      <4>3. gateway'.code = launcher.status /\ gateway'.got = gateway.got
        <5>1. gateway' = [gateway EXCEPT !.at = "cleaning", !.client = FALSE, !.code = launcher.status]
          BY <3>2, <4>2 DEF Closed
        <5> QED  BY <1>0, <5>1 DEF JobTypeOK, Gateways
      <4> QED  BY <2>5, <4>1, <4>2, <4>3 DEF JobInv, Undisturbed
    <3>3. CASE ~Closed
      <4>1. gateway.at \in {"cleaning", "done"} /\ gateway.code = 0 /\ (~Emit => gateway'.got = gateway.got)
        BY <1>0, <1>2, <2>5, <3>1, <3>3, GatewayMoves
      <4>2. launcher.at = "gone" /\ gateway.got = "whole" /\ jobDir.dir = "none"
        BY <3>1, <4>1 DEF JobInv, Closing
      <4>3. launcher' = launcher /\ jobDir'.dir = "none" /\ ~Emit  BY <1>0, <1>2, <3>1, <4>2, GoneStays
      <4> QED  BY <4>1, <4>2, <4>3
    <3> QED  BY <3>2, <3>3
  <2> QED  BY <2>1, <2>2, <2>4, <2>5 DEF Closing
<1> QED  BY <1>1, <1>2

\* Every step of a task keeps what is known of it.
LEMMA JobKeeps ==
  ASSUME JobInv, JobNext
  PROVE  JobInv'
<1>1. JobTypeOK'  BY JobTyped DEF JobInv
<1>2. Closing'  BY ClosingKeeps
<1>3. CASE MakeDir \/ WriteLease \/ Prepare \/ ModelOver \/ Compare \/ Emit \/ Fails \/ Trap
  <2>1. Undisturbed'  BY <1>1, <1>3, LauncherKeeps
  <2> QED  BY <1>1, <1>2, <2>1 DEF JobInv
<1>4. CASE \/ Tick \/ Refused \/ Started \/ SpawnFails \/ StopTask \/ OutputLimit \/ ClientKilled
           \/ Closed \/ CleanupAsked \/ CleanupEnds \/ Finished \/ ScanLooks \/ ScanTears \/ ScanEnds
  <2>1. Undisturbed'  BY <1>1, <1>4, OthersKeep
  <2> QED  BY <1>1, <1>2, <2>1 DEF JobInv
<1> QED  BY <1>3, <1>4 DEF JobNext

-----------------------------------------------------------------------------
(* Calls of a batch or a session.                                          *)

\* The queue is a sequence of calls.
LEMMA QueueTyped ==
  ASSUME CallsTypeOK
  PROVE  DOMAIN queue = 1..Len(queue) /\ Len(queue) \in Nat /\ \A i \in DOMAIN queue : queue[i] \in Calls
  BY ElementOfSeq, LenProperties DEF CallsTypeOK

\* The call at work stands between those that are over and those that wait.
LEMMA CurrentCall ==
  ASSUME CallsTypeOK, Queued, InTurn, NEW c \in Calls, Current(c)
  PROVE  /\ Taking(c) /\ ~Done(c)
         /\ \A d \in Calls : d # c => ~InFlight(d)
         /\ \A i, j \in DOMAIN queue : i < j /\ queue[j] = c => Done(queue[i])
         /\ \A i, j \in DOMAIN queue : i < j /\ queue[i] = c => calls[queue[j]].at = "queued"
<1>0. DOMAIN queue = 1..Len(queue) /\ Len(queue) \in Nat /\ \A i \in DOMAIN queue : queue[i] \in Calls
  BY QueueTyped
<1>1. PICK k \in DOMAIN queue : queue[k] = c /\ ~Done(c) /\ \A j \in DOMAIN queue : ~Done(queue[j]) => k <= j
  BY DEF Current, Unfinished
<1>2. \A i, j \in DOMAIN queue : i < j /\ queue[j] = c => Done(queue[i])
  <2> SUFFICES ASSUME NEW i \in DOMAIN queue, NEW j \in DOMAIN queue, i < j, queue[j] = c  PROVE Done(queue[i])
    OBVIOUS
  <2>1. j = k  BY <1>1 DEF Queued
  <2>2. ~(k <= i)  BY <1>0, <2>1
  <2> QED  BY <1>1, <2>2
<1>3. \A i, j \in DOMAIN queue : i < j /\ queue[i] = c => calls[queue[j]].at = "queued"
  BY <1>1 DEF InTurn
<1>4. \A d \in Calls : d # c => ~InFlight(d)
  <2> SUFFICES ASSUME NEW d \in Calls, d # c  PROVE ~InFlight(d)
    OBVIOUS
  <2>1. CASE ~Taking(d)  BY <2>1 DEF Queued, InFlight
  <2>2. CASE Taking(d)
    <3>1. PICK m \in DOMAIN queue : queue[m] = d  BY <2>2 DEF Taking
    <3>2. m # k  BY <1>1, <3>1
    <3>3. m < k \/ k < m  BY <1>0, <3>2
    <3>4. CASE m < k  BY <1>1, <1>2, <3>1, <3>4 DEF Done, InFlight
    <3>5. CASE k < m  BY <1>1, <1>3, <3>1, <3>5 DEF InFlight
    <3> QED  BY <3>3, <3>4, <3>5
  <2> QED  BY <2>1, <2>2
<1> QED  BY <1>1, <1>2, <1>3, <1>4 DEF Taking

\* A step that leaves alone what a call has done: a signal, an end of the batch, the program.
LEMMA CallsStand ==
  ASSUME CallsInv, calls' \in [Calls -> CallRecords],
         \A d \in Calls : /\ calls'[d].at = calls[d].at /\ calls'[d].ident = calls[d].ident
                          /\ calls'[d].of = calls[d].of /\ calls'[d].ran = calls[d].ran
                          /\ calls'[d].result = calls[d].result,
         UNCHANGED <<kind, queue, stopped, cache, exe, newer>>,
         batch' \in [thrown : BOOLEAN, status : {"none", "completed", "failed"}], batch'.status = batch.status,
         child'.state # "none" => child.state # "none", astray' = astray
  PROVE  CallsInv'
<1>0. \A i \in DOMAIN queue : queue[i] \in Calls  BY QueueTyped DEF CallsInv
<1>1. CallsTypeOK'  BY DEF CallsInv, CallsTypeOK
<1>2. Queued' /\ InTurn'  BY <1>0 DEF CallsInv, Queued, InTurn, Taking, Done
<1>3. Followed'  BY DEF CallsInv, Followed, Taking, Done, InFlight
<1>4. BuildsKnown'  BY DEF CallsInv, BuildsKnown, HasVersion, HasFlags
<1>5. Warranted'  BY <1>0 DEF CallsInv, Warranted, HeadlessTold
<1> QED  BY <1>1, <1>2, <1>3, <1>4, <1>5 DEF CallsInv

\* The call at work goes from one record to another, and everybody else stands.
LEMMA OneCallMoves ==
  ASSUME CallsInv, NEW c \in Calls, Current(c), NEW r \in CallRecords, calls' = [calls EXCEPT ![c] = r],
         UNCHANGED <<kind, queue, exe, newer, batch>>,
         stopped' \in BOOLEAN, cache' \in [1..2 -> 0..2],
         r.at # "idle"
  PROVE  CallsTypeOK' /\ Queued' /\ InTurn'
<1>0. \A i \in DOMAIN queue : queue[i] \in Calls  BY QueueTyped DEF CallsInv
<1>1. CallsTypeOK'  BY DEF CallsInv, CallsTypeOK
<1>2. calls'[c] = r /\ \A d \in Calls \ {c} : calls'[d] = calls[d]  BY DEF CallsInv, CallsTypeOK
<1>3. /\ Taking(c) /\ ~Done(c)
      /\ \A i, j \in DOMAIN queue : i < j /\ queue[j] = c => Done(queue[i])
      /\ \A i, j \in DOMAIN queue : i < j /\ queue[i] = c => calls[queue[j]].at = "queued"
  BY CurrentCall DEF CallsInv
<1>4. Queued'  BY <1>2, <1>3 DEF CallsInv, Queued, Taking
<1>5. InTurn'
  <2> SUFFICES ASSUME NEW i \in DOMAIN queue, NEW j \in DOMAIN queue, i < j, calls'[queue[j]].at # "queued"
               PROVE  calls'[queue[i]].at = "done"
    BY DEF InTurn, Done
  <2>1. CASE queue[j] = c
    <3>1. calls[queue[i]].at = "done"  BY <1>3, <2>1 DEF Done
    <3>2. queue[i] # c  BY <1>3, <3>1 DEF Done
    <3> QED  BY <1>0, <1>2, <3>1, <3>2
  <2>2. CASE queue[j] # c /\ queue[i] = c  BY <1>0, <1>2, <1>3, <2>2
  <2>3. CASE queue[j] # c /\ queue[i] # c  BY <1>0, <1>2, <2>3 DEF CallsInv, InTurn, Done
  <2> QED  BY <2>1, <2>2, <2>3
<1> QED  BY <1>1, <1>4, <1>5

\* A call is over with some result.
LEMMA SettleKeeps ==
  ASSUME CallsInv, ChildInv, NEW c \in Calls, Current(c), NEW result \in Results \ {"none", "refused"},
         Settle(c, result), UNCHANGED <<kind, queue, exe, newer, batch>>,
         cache' \in [1..2 -> 0..2], stopped' \/ \A b \in 1..2 : cache'[b] \in {0, b},
         result \in {"blocked", "rejected"} => calls[c].ran = 0,
         child.root => result # "completed"
  PROVE  CallsInv' /\ ChildInv'
<1> DEFINE verdict == IF calls[c].thrown /\ result # "rejected" THEN "failed" ELSE result
           r == [Waiting EXCEPT !.at = "done", !.ran = calls[c].ran, !.result = verdict]
<1>0. calls[c] \in CallRecords /\ CallsTypeOK /\ \A i \in DOMAIN queue : queue[i] \in Calls
  BY QueueTyped DEF CallsInv, CallsTypeOK
<1>1. calls' = [calls EXCEPT ![c] = r] /\ (stopped' <=> stopped \/ calls'[c].result # "completed") /\ Taken
  BY DEF Settle, Over
<1>2. verdict \in Results \ {"none", "refused"} /\ (verdict # result => verdict = "failed")  BY DEF Results
<1>3. /\ r \in CallRecords /\ r.at = "done" /\ r.ran = calls[c].ran /\ r.result = verdict
  <2> HIDE DEF verdict
  <2>1. Waiting \in CallRecords  BY DEF Waiting, CallRecords, Results
  <2>2. calls[c].ran \in 0..2  BY <1>0 DEF CallRecords
  <2> QED  BY <1>2, <2>1, <2>2 DEF CallRecords
<1> HIDE DEF r, verdict
<1>4. calls'[c] = r /\ \A d \in Calls \ {c} : calls'[d] = calls[d]  BY <1>0, <1>1 DEF CallsTypeOK
<1>5. stopped' \in BOOLEAN  BY <1>1 DEF Settle
<1>6. CallsTypeOK' /\ Queued' /\ InTurn'  BY <1>1, <1>3, <1>5, OneCallMoves
<1>7. /\ Taking(c) /\ ~Done(c)
      /\ \A d \in Calls : d # c => ~InFlight(d)
      /\ \A i, j \in DOMAIN queue : i < j /\ queue[i] = c => calls[queue[j]].at = "queued"
  BY CurrentCall DEF CallsInv
<1>8. ChildInv' /\ child'.state = "none" /\ astray' = (astray \/ child.root)  BY <1>1, TakenKeeps
<1>9. stopped' <=> stopped \/ verdict # "completed"  BY <1>1, <1>3, <1>4
<1>10. Followed'
  <2>1. ASSUME NEW d \in Calls
        PROVE  /\ ~Done(d)' => calls'[d].result = "none"
               /\ calls'[d].ran # 0 => calls'[d].at \in {"model", "done"}
               /\ ~InFlight(d)'
               /\ Done(d)' /\ Taking(d)' /\ ~stopped' => calls'[d].result = "completed"
    <3>1. CASE d = c  BY <1>3, <1>4, <1>9, <3>1 DEF Done, InFlight
    <3>2. CASE d # c  BY <1>4, <1>7, <1>9, <3>2 DEF CallsInv, Followed, Done, InFlight, Taking
    <3> QED  BY <3>1, <3>2
  <2>2. astray' => stopped'
    <3>1. child.root => verdict # "completed"  BY <1>2
    <3> QED  BY <1>8, <1>9, <3>1 DEF CallsInv, Followed
  <2> QED  BY <1>8, <2>1, <2>2 DEF Followed
<1>11. BuildsKnown'
  <2>1. ASSUME NEW d \in Calls
        PROVE  /\ calls'[d].at \notin {"version", "help"}
               /\ calls'[d].ran # 0 => HasVersion(calls'[d].ran) /\ HasFlags(calls'[d].ran)
    <3>1. CASE d = c  BY <1>3, <1>4, <3>1 DEF CallsInv, BuildsKnown
    <3>2. CASE d # c  BY <1>4, <1>7, <3>2 DEF CallsInv, BuildsKnown, InFlight
    <3> QED  BY <3>1, <3>2
  <2> QED  BY <2>1 DEF BuildsKnown, HasVersion, HasFlags
<1>12. Warranted'
  <2>1. ASSUME NEW i \in DOMAIN queue, NEW j \in DOMAIN queue, i < j, calls'[queue[j]].ran # 0
        PROVE  calls'[queue[i]].result = "completed"
    <3>0. calls[queue[j]].ran # 0  BY <1>0, <1>3, <1>4, <2>1
    <3>1. calls[queue[j]].at # "queued"  BY <1>0, <3>0 DEF CallsInv, Followed
    <3>2. queue[i] # c  BY <1>7, <2>1, <3>1
    <3> QED  BY <1>0, <1>4, <2>1, <3>0, <3>2 DEF CallsInv, Warranted
  <2>2. HeadlessTold'
    BY <1>2, <1>3, <1>4 DEF CallsInv, Warranted, HeadlessTold
  <2> QED  BY <2>1, <2>2 DEF CallsInv, Warranted
<1> QED  BY <1>6, <1>8, <1>10, <1>11, <1>12 DEF CallsInv

\* A call goes on to its next program.
LEMMA RunKeeps ==
  ASSUME CallsInv, ChildInv, NEW c \in Calls, Current(c), NEW step \in {"version", "help", "model"},
         NEW mode \in {"native", "job"}, Run(c, step, mode), UNCHANGED <<kind, queue, exe, newer, batch>>,
         ~stopped, ~child.root,
         cache' \in [1..2 -> 0..2], \A b \in 1..2 : cache'[b] \in {0, b},
         step = "help" => 1 <= calls[c].ident /\ calls[c].ident <= exe /\ HasVersion(calls[c].ident),
         step = "model" => HasVersion(exe) /\ HasFlags(exe)
  PROVE  CallsInv' /\ ChildInv'
<1> DEFINE ran == IF step = "model" THEN exe ELSE 0
           ident == IF step = "version" THEN exe ELSE calls[c].ident
           r == [calls[c] EXCEPT !.at = step, !.of = exe, !.ran = ran, !.ident = ident]
<1>0. calls[c] \in CallRecords /\ CallsTypeOK /\ exe \in 1..2 /\ \A i \in DOMAIN queue : queue[i] \in Calls
  BY QueueTyped DEF CallsInv, CallsTypeOK
<1>1. calls' = [calls EXCEPT ![c] = r] /\ stopped' = stopped /\ Launch(step, mode, Signalled(c))
  BY <1>0 DEF Run, CallsTypeOK
<1>2. ran \in 0..2 /\ ident \in 0..2 /\ exe \in 0..2  BY <1>0 DEF CallRecords
<1>3. /\ r \in CallRecords /\ r.at = step /\ r.of = exe /\ r.ran = ran /\ r.ident = ident
      /\ r.result = calls[c].result
  <2> HIDE DEF ran, ident
  <2> QED  BY <1>0, <1>2 DEF CallRecords
<1> HIDE DEF r
<1>4. calls'[c] = r /\ \A d \in Calls \ {c} : calls'[d] = calls[d]  BY <1>0, <1>1 DEF CallsTypeOK
<1>5. stopped' \in BOOLEAN  BY <1>0, <1>1 DEF CallsTypeOK
<1>6. CallsTypeOK' /\ Queued' /\ InTurn'  BY <1>1, <1>3, <1>5, OneCallMoves
<1>7. /\ Taking(c) /\ ~Done(c)
      /\ \A d \in Calls : d # c => ~InFlight(d)
      /\ \A i, j \in DOMAIN queue : i < j /\ queue[j] = c => Done(queue[i])
      /\ \A i, j \in DOMAIN queue : i < j /\ queue[i] = c => calls[queue[j]].at = "queued"
  BY CurrentCall DEF CallsInv
<1>8. ChildInv' /\ astray' = astray
  <2>1. ChildInv' /\ astray' = (astray \/ child.root)  BY <1>1, LaunchKeeps DEF Programs
  <2> QED  BY <2>1 DEF ChildInv
<1>9. calls[c].result = "none"  BY <1>7 DEF CallsInv, Followed
<1>10. Followed'
  <2>1. ASSUME NEW d \in Calls
        PROVE  /\ ~Done(d)' => calls'[d].result = "none"
               /\ calls'[d].ran # 0 => calls'[d].at \in {"model", "done"}
               /\ Done(d)' /\ Taking(d)' /\ ~stopped' => calls'[d].result = "completed"
    <3>1. CASE d = c  BY <1>3, <1>4, <1>9, <3>1 DEF Done
    <3>2. CASE d # c  BY <1>1, <1>4, <3>2 DEF CallsInv, Followed, Done, Taking
    <3> QED  BY <3>1, <3>2
  <2>2. InFlight(c)'  BY <1>3, <1>4 DEF InFlight
  <2> QED  BY <1>1, <1>8, <2>1, <2>2 DEF CallsInv, Followed
<1>11. BuildsKnown'
  <2>1. ASSUME NEW d \in Calls
        PROVE  /\ calls'[d].at = "version" =>
                     1 <= calls'[d].ident /\ calls'[d].ident = calls'[d].of /\ calls'[d].of <= exe
               /\ calls'[d].at = "help" =>
                     /\ 1 <= calls'[d].ident /\ HasVersion(calls'[d].ident)
                     /\ calls'[d].ident <= calls'[d].of /\ calls'[d].of <= exe
               /\ calls'[d].ran # 0 => HasVersion(calls'[d].ran) /\ HasFlags(calls'[d].ran)
    <3>1. CASE d = c  BY <1>0, <1>3, <1>4, <3>1
    <3>2. CASE d # c  BY <1>4, <3>2 DEF CallsInv, BuildsKnown
    <3> QED  BY <3>1, <3>2
  <2> QED  BY <2>1 DEF BuildsKnown, HasVersion, HasFlags
<1>12. Warranted'
  <2>1. ASSUME NEW i \in DOMAIN queue, NEW j \in DOMAIN queue, i < j, calls'[queue[j]].ran # 0
        PROVE  calls'[queue[i]].result = "completed"
    <3>1. CASE queue[j] = c
      <4>1. Done(queue[i]) /\ Taking(queue[i])  BY <1>7, <2>1, <3>1 DEF Taking
      <4>2. queue[i] # c  BY <1>7, <4>1
      <4>3. calls[queue[i]].result = "completed"  BY <1>0, <4>1 DEF CallsInv, Followed
      <4> QED  BY <1>0, <1>4, <4>2, <4>3
    <3>2. CASE queue[j] # c
      <4>1. calls[queue[j]].ran # 0  BY <1>0, <1>4, <2>1, <3>2
      <4>2. calls[queue[j]].at # "queued"  BY <1>0, <4>1 DEF CallsInv, Followed
      <4>3. queue[i] # c  BY <1>7, <2>1, <4>2
      <4> QED  BY <1>0, <1>4, <2>1, <4>1, <4>3 DEF CallsInv, Warranted
    <3> QED  BY <3>1, <3>2
  <2>2. HeadlessTold'
    BY <1>3, <1>4, <1>9 DEF CallsInv, Warranted, HeadlessTold
  <2> QED  BY <2>1, <2>2 DEF CallsInv, Warranted
<1> QED  BY <1>6, <1>8, <1>10, <1>11, <1>12 DEF CallsInv

\* The first call that waits begins, or is refused by a session that has stopped.
LEMMA BeginKeepsCalls ==
  ASSUME CallsInv, ChildInv, NEW c \in Calls, BeginCall(c)
  PROVE  CallsInv' /\ ChildInv'
<1>1. Current(c) /\ calls[c].at = "queued" /\ UNCHANGED <<kind, queue, cache, exe, newer, batch>>
  BY DEF BeginCall
<1>2. cache' \in [1..2 -> 0..2]  BY <1>1 DEF CallsInv, CallsTypeOK
<1>3. calls[c].ran = 0  BY <1>1 DEF CallsInv, Followed
<1>4. child.state = "none"
  <2>1. \A d \in Calls : ~InFlight(d)
    <3>1. \A d \in Calls : d # c => ~InFlight(d)  BY <1>1, CurrentCall DEF CallsInv
    <3> QED  BY <1>1, <3>1 DEF InFlight
  <2> QED  BY <2>1 DEF CallsInv, Followed
<1>5. ~child.root  BY <1>4 DEF ChildInv
<1>6. CASE stopped \/ calls[c].aborted
  <2>1. Settle(c, "blocked")  BY <1>6 DEF BeginCall
  <2>2. stopped'
    <3>1. calls'[c] = Over(calls[c], "blocked")  BY <2>1 DEF Settle, CallsInv, CallsTypeOK
    <3>2. Over(calls[c], "blocked").result # "completed"  BY DEF Over, Waiting
    <3> QED  BY <2>1, <3>1, <3>2 DEF Settle
  <2> QED  BY <1>1, <1>2, <1>3, <1>5, <2>1, <2>2, SettleKeeps DEF Results
<1>7. CASE ~(stopped \/ calls[c].aborted)
  <2>1. Run(c, "version", "native")  BY <1>7 DEF BeginCall
  <2>2. \A b \in 1..2 : cache'[b] \in {0, b}  BY <1>1, <1>7 DEF CallsInv, BuildsKnown
  <2> QED  BY <1>1, <1>2, <1>5, <1>7, <2>1, <2>2, RunKeeps
<1> QED  BY <1>6, <1>7

\* What a call that has been refused or turned away leaves.
LEMMA Stops ==
  ASSUME CallsTypeOK, NEW c \in Calls, NEW result \in Results \ {"completed"}, Settle(c, result)
  PROVE  stopped'
<1>1. calls'[c] = Over(calls[c], result)  BY DEF Settle, CallsTypeOK
<1>2. Over(calls[c], result).result # "completed"  BY DEF Over, Waiting
<1> QED  BY <1>1, <1>2 DEF Settle

\* A model is started on the build that was asked, or the session stops.
LEMMA JudgeKeeps ==
  ASSUME CallsInv, ChildInv, NEW c \in Calls, Current(c), calls[c].at \in {"version", "help"},
         NEW said \in 1..2, NEW ok \in BOOLEAN, Judge(c, said, ok),
         UNCHANGED <<kind, queue, exe, newer, batch>>,
         exe = calls[c].ident => said = exe /\ HasVersion(exe),
         ok => ~child.root,
         cache' \in [1..2 -> 0..2], exe = calls[c].ident => \A b \in 1..2 : cache'[b] \in {0, b}
  PROVE  CallsInv' /\ ChildInv'
<1>0. CallsTypeOK /\ calls[c].ran = 0 /\ ~stopped
  BY DEF CallsInv, Followed, InFlight
<1>1. CASE exe # calls[c].ident
  <2>1. Settle(c, "rejected")  BY <1>1 DEF Judge
  <2>2. stopped'  BY <1>0, <2>1, Stops DEF Results
  <2> QED  BY <1>0, <2>1, <2>2, SettleKeeps DEF Results
<1>2. CASE exe = calls[c].ident /\ (Signalled(c) \/ ~ok \/ ~HasFlags(said))
  <2>1. Settle(c, "blocked")  BY <1>2 DEF Judge
  <2>2. stopped'  BY <1>0, <2>1, Stops DEF Results
  <2> QED  BY <1>0, <2>1, <2>2, SettleKeeps DEF Results
<1>3. CASE exe = calls[c].ident /\ ~(Signalled(c) \/ ~ok \/ ~HasFlags(said))
  <2>1. PICK mode \in {"native", "job"} : Run(c, "model", mode)  BY <1>3 DEF Judge
  <2> QED  BY <1>0, <1>3, <2>1, RunKeeps
<1> QED  BY <1>1, <1>2, <1>3

\* The program has said its version.
LEMMA VersionKeeps ==
  ASSUME CallsInv, ChildInv, NEW c \in Calls, VersionAnswered(c)
  PROVE  CallsInv' /\ ChildInv'
<1> DEFINE known == cache[calls[c].ident]
<1>1. Current(c) /\ calls[c].at = "version" /\ UNCHANGED <<kind, queue, cache, exe, newer, batch>>
  BY DEF VersionAnswered
<1>2. CallsTypeOK /\ ~stopped /\ calls[c].ran = 0 /\ calls[c] \in CallRecords /\ exe \in 1..2
  BY <1>1 DEF CallsInv, CallsTypeOK, Followed, InFlight
<1>3. /\ 1 <= calls[c].ident /\ calls[c].ident = calls[c].of /\ calls[c].of <= exe
      /\ \A b \in 1..2 : cache[b] \in {0, b}
  BY <1>1, <1>2 DEF CallsInv, BuildsKnown
<1>4. calls[c].ident \in 1..2
  <2>1. calls[c].ident \in 0..2  BY <1>2 DEF CallRecords
  <2> QED  BY <1>3, <2>1
<1>5. known \in {0, calls[c].ident}  BY <1>3, <1>4
<1>6. cache' \in [1..2 -> 0..2] /\ \A b \in 1..2 : cache'[b] \in {0, b}  BY <1>1, <1>2, <1>3 DEF CallsTypeOK
<1>7. CASE ~Succeeded \/ ~HasVersion(calls[c].of)
  <2>1. Settle(c, "blocked")  BY <1>7 DEF VersionAnswered
  <2> QED  BY <1>1, <1>2, <1>6, <2>1, SettleKeeps DEF Results
<1>8. CASE Succeeded /\ HasVersion(calls[c].of) /\ known # 0
  <2>1. Judge(c, known, TRUE)  BY <1>8 DEF VersionAnswered
  <2>2. ~child.root  BY <1>8 DEF Succeeded, ChildInv
  <2>3. known = calls[c].ident  BY <1>5, <1>8
  <2> HIDE DEF known
  <2> QED  BY <1>1, <1>3, <1>4, <1>6, <1>8, <2>1, <2>2, <2>3, JudgeKeeps
<1>9. CASE Succeeded /\ HasVersion(calls[c].of) /\ known = 0
  <2>1. Run(c, "help", "native")  BY <1>9 DEF VersionAnswered
  <2>2. ~child.root  BY <1>9 DEF Succeeded, ChildInv
  <2> QED  BY <1>1, <1>2, <1>3, <1>6, <1>9, <2>1, <2>2, RunKeeps
<1> QED  BY <1>7, <1>8, <1>9

\* The program has said its flags.
LEMMA HelpKeeps ==
  ASSUME CallsInv, ChildInv, NEW c \in Calls, HelpAnswered(c)
  PROVE  CallsInv' /\ ChildInv'
<1>1. /\ Current(c) /\ calls[c].at = "help" /\ UNCHANGED <<kind, queue, exe, newer, batch>>
      /\ Judge(c, calls[c].of, Succeeded)
      /\ cache' = IF Succeeded THEN [cache EXCEPT ![calls[c].ident] = calls[c].of] ELSE cache
  BY DEF HelpAnswered
<1>2. CallsTypeOK /\ ~stopped /\ calls[c] \in CallRecords /\ exe \in 1..2
  BY <1>1 DEF CallsInv, CallsTypeOK, Followed, InFlight
<1>3. /\ 1 <= calls[c].ident /\ HasVersion(calls[c].ident)
      /\ calls[c].ident <= calls[c].of /\ calls[c].of <= exe
      /\ \A b \in 1..2 : cache[b] \in {0, b}
  BY <1>1, <1>2 DEF CallsInv, BuildsKnown
<1>4. calls[c].ident \in 1..2 /\ calls[c].of \in 1..2
  <2>1. calls[c].ident \in 0..2 /\ calls[c].of \in 0..2  BY <1>2 DEF CallRecords
  <2> QED  BY <1>3, <2>1
<1>5. Succeeded \in BOOLEAN  BY DEF Succeeded
<1>6. cache' \in [1..2 -> 0..2]
  <2>1. calls[c].of \in 0..2  BY <1>4
  <2>2. CASE Succeeded  BY <1>1, <1>2, <2>1, <2>2 DEF CallsTypeOK
  <2>3. CASE ~Succeeded  BY <1>1, <1>2, <2>3 DEF CallsTypeOK
  <2> QED  BY <2>2, <2>3
<1>7. exe = calls[c].ident => calls[c].of = exe  BY <1>2, <1>3, <1>4
<1>8. exe = calls[c].ident => \A b \in 1..2 : cache'[b] \in {0, b}
  <2>1. CASE Succeeded  BY <1>1, <1>2, <1>3, <1>4, <1>7, <2>1 DEF CallsTypeOK
  <2>2. CASE ~Succeeded  BY <1>1, <1>3, <2>2
  <2> QED  BY <2>1, <2>2
<1>9. Succeeded => ~child.root  BY DEF Succeeded, ChildInv
<1> QED  BY <1>1, <1>3, <1>4, <1>5, <1>6, <1>7, <1>8, <1>9, JudgeKeeps

\* The model has ended.
LEMMA ModelKeeps ==
  ASSUME CallsInv, ChildInv, NEW c \in Calls, ModelAnswered(c)
  PROVE  CallsInv' /\ ChildInv'
<1>1. Current(c) /\ calls[c].at = "model" /\ UNCHANGED <<kind, queue, cache, exe, newer, batch>>
  BY DEF ModelAnswered
<1>2. PICK result \in {"completed", "unverified", "failed"} :
         Settle(c, result) /\ (result = "completed" => Succeeded)
  <2>1. PICK result \in (IF Succeeded THEN {"completed", "unverified", "failed"} ELSE {"failed"}) :
           Settle(c, result)
    BY DEF ModelAnswered
  <2>2. CASE Succeeded  BY <2>1, <2>2
  <2>3. CASE ~Succeeded  BY <2>1, <2>3
  <2> QED  BY <2>2, <2>3
<1>3. child.root => result # "completed"  BY <1>2 DEF Succeeded, ChildInv
<1>4. ~stopped /\ cache' \in [1..2 -> 0..2] /\ \A b \in 1..2 : cache'[b] \in {0, b}
  BY <1>1 DEF CallsInv, CallsTypeOK, Followed, InFlight, BuildsKnown
<1> QED  BY <1>1, <1>2, <1>3, <1>4, SettleKeeps DEF Results

\* A signal may stop the program of the call at work.
LEMMA StopForKeeps ==
  ASSUME ChildInv, NEW c, StopFor(c)
  PROVE  ChildInv' /\ astray' = astray /\ (child'.state # "none" => child.state # "none")
<1>1. CASE Stop("cancelled")  BY <1>1, Stopping DEF Whys
<1>2. CASE UNCHANGED pvars  BY <1>2 DEF pvars, ChildInv
<1> QED  BY <1>1, <1>2 DEF StopFor

\* A signal fires.
LEMMA AbortKeepsCalls ==
  ASSUME CallsInv, ChildInv, NEW c \in Calls, Abort(c)
  PROVE  CallsInv' /\ ChildInv'
<1>0. calls \in [Calls -> CallRecords] /\ batch \in [thrown : BOOLEAN, status : {"none", "completed", "failed"}]
  BY DEF CallsInv, CallsTypeOK
<1>1. calls' = [d \in Calls |-> IF (d = c \/ kind = "batch") /\ ~Done(d)
                                THEN [calls[d] EXCEPT !.aborted = TRUE] ELSE calls[d]]
  BY DEF Abort
<1>2. ASSUME NEW d \in Calls
      PROVE  /\ calls'[d] \in CallRecords
             /\ calls'[d].at = calls[d].at /\ calls'[d].ident = calls[d].ident
             /\ calls'[d].of = calls[d].of /\ calls'[d].ran = calls[d].ran
             /\ calls'[d].result = calls[d].result
  <2>1. calls'[d] = calls[d] \/ calls'[d] = [calls[d] EXCEPT !.aborted = TRUE]  BY <1>1
  <2>2. calls[d] \in CallRecords  BY <1>0
  <2> QED  BY <2>1, <2>2 DEF CallRecords
<1>3. calls' \in [Calls -> CallRecords]
  <2>1. calls' = [d \in Calls |-> calls'[d]]  BY <1>1
  <2> QED  BY <1>2, <2>1
<1>4. UNCHANGED <<kind, queue, stopped, cache, exe, newer, batch>>  BY DEF Abort
<1>5. ChildInv' /\ astray' = astray /\ (child'.state # "none" => child.state # "none")
  BY StopForKeeps DEF Abort
<1> QED  BY <1>0, <1>2, <1>3, <1>4, <1>5, CallsStand

\* A handler of progress throws.
LEMMA ThrowKeeps ==
  ASSUME CallsInv, ChildInv, NEW c \in Calls, HandlerThrows(c)
  PROVE  CallsInv' /\ ChildInv'
<1>0. calls \in [Calls -> CallRecords] /\ batch \in [thrown : BOOLEAN, status : {"none", "completed", "failed"}]
  BY DEF CallsInv, CallsTypeOK
<1>1. /\ calls' = [calls EXCEPT ![c].thrown = TRUE] /\ StopFor(c)
      /\ batch' = [batch EXCEPT !.thrown = kind = "batch"]
      /\ UNCHANGED <<kind, queue, stopped, cache, exe, newer>>
  BY DEF HandlerThrows
<1>2. ASSUME NEW d \in Calls
      PROVE  /\ calls'[d] \in CallRecords
             /\ calls'[d].at = calls[d].at /\ calls'[d].ident = calls[d].ident
             /\ calls'[d].of = calls[d].of /\ calls'[d].ran = calls[d].ran
             /\ calls'[d].result = calls[d].result
  <2>1. calls'[d] = calls[d] \/ calls'[d] = [calls[d] EXCEPT !.thrown = TRUE]  BY <1>0, <1>1
  <2>2. calls[d] \in CallRecords  BY <1>0
  <2> QED  BY <2>1, <2>2 DEF CallRecords
<1>3. calls' \in [Calls -> CallRecords]
  <2>1. calls' = [d \in Calls |-> calls'[d]]  BY <1>0, <1>1
  <2> QED  BY <1>2, <2>1
<1>4. batch' \in [thrown : BOOLEAN, status : {"none", "completed", "failed"}] /\ batch'.status = batch.status
  <2>1. (kind = "batch") \in BOOLEAN  OBVIOUS
  <2> QED  BY <1>0, <1>1, <2>1
<1>5. ChildInv' /\ astray' = astray /\ (child'.state # "none" => child.state # "none")
  BY <1>1, StopForKeeps
<1> QED  BY <1>1, <1>2, <1>3, <1>4, <1>5, CallsStand

\* A handler of the batch throws.
LEMMA EventKeeps ==
  ASSUME CallsInv, ChildInv, EventThrows
  PROVE  CallsInv' /\ ChildInv'
<1>1. /\ batch' = [batch EXCEPT !.thrown = TRUE]
      /\ UNCHANGED <<kind, calls, queue, stopped, cache, exe, newer, pvars>>
  BY DEF EventThrows
<1>2. batch' \in [thrown : BOOLEAN, status : {"none", "completed", "failed"}] /\ batch'.status = batch.status
  BY <1>1 DEF CallsInv, CallsTypeOK
<1>3. calls' \in [Calls -> CallRecords]  BY <1>1 DEF CallsInv, CallsTypeOK
<1>4. ChildInv' /\ UNCHANGED <<child, astray>>  BY <1>1 DEF pvars, ChildInv
<1> QED  BY <1>1, <1>2, <1>3, <1>4, CallsStand

\* A batch that has completed has taken every call once.
LEMMA BatchEndsKeeps ==
  ASSUME CallsInv, ChildInv, BatchEnds
  PROVE  CallsInv' /\ ChildInv'
<1> DEFINE well == ~batch.thrown /\ \A c \in Calls : calls[c].result = "completed"
<1>1. /\ kind = "batch" /\ batch' = [batch EXCEPT !.status = IF well THEN "completed" ELSE "failed"]
      /\ UNCHANGED <<kind, calls, queue, stopped, cache, exe, newer, pvars>>
  BY DEF BatchEnds
<1>2. batch' \in [thrown : BOOLEAN, status : {"none", "completed", "failed"}]
      /\ (batch'.status = "completed" => well)
  <2> HIDE DEF well
  <2>1. CASE well  BY <1>1, <2>1 DEF CallsInv, CallsTypeOK
  <2>2. CASE ~well  BY <1>1, <2>2 DEF CallsInv, CallsTypeOK
  <2> QED  BY <2>1, <2>2
<1>3. ChildInv' /\ UNCHANGED <<child, astray>>  BY <1>1 DEF pvars, ChildInv
<1>4. CallsTypeOK'  BY <1>1, <1>2 DEF CallsInv, CallsTypeOK
<1>5. Queued' /\ InTurn' /\ Followed' /\ BuildsKnown'
  BY <1>1, <1>3 DEF CallsInv, Queued, InTurn, Followed, BuildsKnown, Taking, Done, InFlight,
     HasVersion, HasFlags
<1>6. ASSUME well  PROVE Len(queue) = Cardinality(Calls)
  <2>0. DOMAIN queue = 1..Len(queue) /\ Len(queue) \in Nat /\ \A i \in DOMAIN queue : queue[i] \in Calls
    BY QueueTyped DEF CallsInv
  <2>1. \A c \in Calls : Taking(c)  BY <1>6 DEF CallsInv, Queued
  <2>2. queue \in [1..Len(queue) -> Calls]  BY <2>0, SeqDef DEF CallsInv, CallsTypeOK
  <2>3. queue \in Bijection(1..Len(queue), Calls)
    BY <2>0, <2>1, <2>2 DEF CallsInv, Queued, Taking, Bijection, Injection, Surjection, IsInjective
  <2>4. IsFiniteSet(1..Len(queue)) /\ Cardinality(1..Len(queue)) = Len(queue)
    <3>1. 1 \in Int /\ Len(queue) \in Int  BY <2>0
    <3>2. IsFiniteSet(1..Len(queue))
          /\ Cardinality(1..Len(queue)) = IF 1 > Len(queue) THEN 0 ELSE Len(queue) - 1 + 1
      BY <3>1, FS_Interval
    <3> QED  BY <2>0, <3>2
  <2>5. ExistsBijection(1..Len(queue), Calls)  BY <2>3 DEF ExistsBijection
  <2> QED  BY <2>4, <2>5, FS_Bijection
<1>7. Warranted'
  <2>1. batch'.status = "completed" => Len(queue') = Cardinality(Calls)  BY <1>1, <1>2, <1>6
  <2>2. UNCHANGED <<calls, queue, kind>> /\ kind = "batch"  BY <1>1
  <2> HIDE DEF well
  <2> QED  BY <2>1, <2>2 DEF CallsInv, Warranted, HeadlessTold
<1> QED  BY <1>3, <1>4, <1>5, <1>7 DEF CallsInv

\* The client is updated, or what was kept of its flags has expired.
LEMMA UpdateKeeps ==
  ASSUME CallsInv, ChildInv, Update \/ \E b \in 1..2 : Expire(b)
  PROVE  CallsInv' /\ ChildInv'
<1>1. /\ UNCHANGED <<kind, calls, queue, stopped, newer, batch, pvars>>
      /\ exe' \in 1..2 /\ exe <= exe'
      /\ \/ cache' = cache \/ \E b \in 1..2 : cache' = [cache EXCEPT ![b] = 0]
  BY DEF Update, Expire, CallsInv, CallsTypeOK
<1>2. cache' \in [1..2 -> 0..2] /\ \A b \in 1..2 : cache'[b] \in {0, cache[b]}
  <2>1. cache \in [1..2 -> 0..2] /\ 0 \in 0..2  BY DEF CallsInv, CallsTypeOK
  <2> QED  BY <1>1, <2>1
<1>3. ChildInv' /\ UNCHANGED <<child, astray>>  BY <1>1 DEF pvars, ChildInv
<1>4. CallsTypeOK'  BY <1>1, <1>2 DEF CallsInv, CallsTypeOK
<1>5. Queued' /\ InTurn' /\ Followed' /\ Warranted'
  BY <1>1, <1>3 DEF CallsInv, Queued, InTurn, Followed, Warranted, HeadlessTold, Taking, Done, InFlight
<1>6. BuildsKnown'
  <2>1. \A c \in Calls : calls[c].of \in 0..2 /\ calls[c].ident \in 0..2
    BY DEF CallsInv, CallsTypeOK, CallRecords
  <2>2. exe \in 1..2  BY DEF CallsInv, CallsTypeOK
  <2>3. \A c \in Calls : calls[c].of <= exe => calls[c].of <= exe'  BY <1>1, <2>1, <2>2
  <2>4. ~stopped' => \A b \in 1..2 : cache'[b] \in {0, b}  BY <1>1, <1>2 DEF CallsInv, BuildsKnown
  <2> QED  BY <1>1, <2>3, <2>4 DEF CallsInv, BuildsKnown, HasVersion, HasFlags
<1> QED  BY <1>3, <1>4, <1>5, <1>6 DEF CallsInv

\* A call is taken at the end of the queue, or refused by a full session.
LEMMA SubmitKeeps ==
  ASSUME CallsInv, ChildInv, NEW c \in Calls, Submit(c)
  PROVE  CallsInv' /\ ChildInv'
<1>0. /\ calls \in [Calls -> CallRecords] /\ queue \in Seq(Calls) /\ Len(queue) \in Nat
      /\ DOMAIN queue = 1..Len(queue) /\ \A i \in DOMAIN queue : queue[i] \in Calls
  BY QueueTyped DEF CallsInv, CallsTypeOK
<1>1. calls[c].at = "idle" /\ InBatch(c) /\ UNCHANGED <<kind, stopped, cache, exe, newer, batch, pvars>>
  BY DEF Submit
<1>2. ~Taking(c) /\ calls[c].ran = 0 /\ calls[c].result = "none"
  BY <1>1 DEF CallsInv, Queued, Followed, Done
<1>3. batch.status = "none"  BY <1>1 DEF InBatch, CallsInv, Warranted
<1>4. ChildInv' /\ UNCHANGED <<child, astray>>  BY <1>1 DEF pvars, ChildInv
<1>5. PICK at \in {"done", "queued"}, result \in {"none", "refused"} :
         /\ calls' = [calls EXCEPT ![c] = [calls[c] EXCEPT !.at = at, !.result = result]]
         /\ at = "done" => result = "refused" /\ queue' = queue
         /\ at = "queued" => result = "none" /\ queue' = Append(queue, c)
  <2>1. CASE Cardinality(Unfinished) >= Capacity
    <3>1. calls' = [calls EXCEPT ![c].at = "done", ![c].result = "refused"] /\ UNCHANGED queue
      BY <2>1 DEF Submit
    <3>2. calls' = [calls EXCEPT ![c] = [calls[c] EXCEPT !.at = "done", !.result = "refused"]]
      BY <1>0, <3>1
    <3> QED  BY <3>1, <3>2
  <2>2. CASE ~(Cardinality(Unfinished) >= Capacity)
    <3>1. calls' = [calls EXCEPT ![c].at = "queued"] /\ queue' = Append(queue, c)
      BY <2>2 DEF Submit
    <3>2. calls[c] \in CallRecords  BY <1>0
    <3>3. [calls[c] EXCEPT !.at = "queued"] = [calls[c] EXCEPT !.at = "queued", !.result = "none"]
      BY <1>2, <3>2 DEF CallRecords
    <3>4. calls' = [calls EXCEPT ![c] = [calls[c] EXCEPT !.at = "queued"]]  BY <1>0, <3>1
    <3> QED  BY <3>1, <3>3, <3>4
  <2> QED  BY <2>1, <2>2
<1> DEFINE r == [calls[c] EXCEPT !.at = at, !.result = result]
<1>6. /\ r \in CallRecords /\ r.at = at /\ r.result = result /\ r.ran = 0
      /\ r.ident = calls[c].ident /\ r.of = calls[c].of
  <2>1. calls[c] \in CallRecords  BY <1>0
  <2> QED  BY <1>2, <2>1 DEF CallRecords, Results
<1>7. calls' = [calls EXCEPT ![c] = r]  BY <1>5
<1> HIDE DEF r
<1>8. calls' \in [Calls -> CallRecords] /\ calls'[c] = r /\ \A d \in Calls \ {c} : calls'[d] = calls[d]
  BY <1>0, <1>6, <1>7
\* The queue, with the call at its end or without.
<1>9. /\ queue' \in Seq(Calls)
      /\ \A i \in DOMAIN queue : i \in DOMAIN queue' /\ queue'[i] = queue[i]
      /\ \A i \in DOMAIN queue' : queue'[i] \in Calls
      /\ \A i \in DOMAIN queue' : i \in DOMAIN queue \/ (at = "queued" /\ i = Len(queue) + 1 /\ queue'[i] = c)
      /\ at = "queued" => Len(queue) + 1 \in DOMAIN queue' /\ queue'[Len(queue) + 1] = c
  <2>1. CASE at = "done"  BY <1>0, <1>5, <2>1
  <2>2. CASE at = "queued"
    <3>1. queue' = Append(queue, c)  BY <1>5, <2>2
    <3>2. /\ Append(queue, c) \in Seq(Calls) /\ Len(Append(queue, c)) = Len(queue) + 1
          /\ \A i \in 1..Len(queue) : Append(queue, c)[i] = queue[i]
          /\ Append(queue, c)[Len(queue) + 1] = c
      BY <1>0, AppendProperties
    <3>3. DOMAIN queue' = 1..(Len(queue) + 1)  BY <3>1, <3>2, LenProperties
    <3> QED  BY <1>0, <2>2, <3>1, <3>2, <3>3
  <2> QED  BY <2>1, <2>2
<1>10. \A i \in DOMAIN queue : queue[i] # c  BY <1>2 DEF Taking
<1>11. CallsTypeOK'  BY <1>1, <1>8, <1>9 DEF CallsInv, CallsTypeOK
<1>12. Queued'
  <2>1. ASSUME NEW i \in DOMAIN queue', NEW j \in DOMAIN queue', queue'[i] = queue'[j]
        PROVE  i = j
    BY <1>9, <1>10, <2>1 DEF CallsInv, Queued
  <2>2. \A d \in Calls : Taking(d)' <=> Taking(d) \/ (d = c /\ at = "queued")
    BY <1>9 DEF Taking
  <2>3. ASSUME NEW d \in Calls
        PROVE  /\ Taking(d)' => calls'[d].at # "idle"
               /\ ~Taking(d)' => /\ calls'[d].at \in {"idle", "done"} /\ calls'[d].ran = 0
                                 /\ calls'[d].result \in {"none", "refused"}
    <3>1. CASE d = c  BY <1>5, <1>6, <1>8, <2>2, <3>1
    <3>2. CASE d # c  BY <1>8, <2>2, <3>2 DEF CallsInv, Queued
    <3> QED  BY <3>1, <3>2
  <2> QED  BY <2>1, <2>3 DEF Queued
<1>13. InTurn'
  <2> SUFFICES ASSUME NEW i \in DOMAIN queue', NEW j \in DOMAIN queue', i < j, calls'[queue'[j]].at # "queued"
               PROVE  calls'[queue'[i]].at = "done"
    BY DEF InTurn, Done
  <2>1. j \in DOMAIN queue  BY <1>6, <1>8, <1>9
  <2>2. i \in DOMAIN queue
    <3>1. i \in Nat /\ i <= j  BY <1>9, <1>0, <2>1
    <3> QED  BY <1>0, <1>9, <2>1, <3>1
  <2> QED  BY <1>0, <1>8, <1>9, <1>10, <2>1, <2>2 DEF CallsInv, InTurn, Done
<1>14. Followed'
  <2>1. ASSUME NEW d \in Calls
        PROVE  /\ ~Done(d)' => calls'[d].result = "none"
               /\ calls'[d].ran # 0 => calls'[d].at \in {"model", "done"}
               /\ InFlight(d)' => ~stopped'
               /\ Done(d)' /\ Taking(d)' /\ ~stopped' => calls'[d].result = "completed"
    <3>1. CASE d = c
      <4>1. at = "done" => ~Taking(c)'  BY <1>9, <1>10 DEF Taking
      <4> QED  BY <1>5, <1>6, <1>8, <3>1, <4>1 DEF Done, InFlight
    <3>2. CASE d # c
      <4>1. Taking(d)' => Taking(d)  BY <1>9, <3>2 DEF Taking
      <4> QED  BY <1>1, <1>8, <3>2, <4>1 DEF CallsInv, Followed, Done, InFlight
    <3> QED  BY <3>1, <3>2
  <2>2. \A d \in Calls : InFlight(d) => InFlight(d)'  BY <1>1, <1>8 DEF InFlight
  <2> QED  BY <1>1, <1>4, <2>1, <2>2 DEF CallsInv, Followed
<1>15. BuildsKnown'
  <2>1. ASSUME NEW d \in Calls
        PROVE  \/ calls'[d] = calls[d]
               \/ calls'[d].at \in {"done", "queued"} /\ calls'[d].ran = 0
    BY <1>6, <1>8
  <2> QED  BY <1>1, <2>1 DEF CallsInv, BuildsKnown, HasVersion, HasFlags
<1>16. Warranted'
  <2>1. ASSUME NEW i \in DOMAIN queue', NEW j \in DOMAIN queue', i < j, calls'[queue'[j]].ran # 0
        PROVE  calls'[queue'[i]].result = "completed"
    <3>1. j \in DOMAIN queue  BY <1>6, <1>8, <1>9, <2>1
    <3>2. i \in DOMAIN queue
      <4>1. i \in Nat /\ i <= j  BY <1>9, <1>0, <2>1, <3>1
      <4> QED  BY <1>0, <1>9, <3>1, <4>1
    <3> QED  BY <1>0, <1>8, <1>9, <1>10, <2>1, <3>1, <3>2 DEF CallsInv, Warranted
  <2>2. HeadlessTold'
    <3> SUFFICES ASSUME NEW d \in Calls, calls'[d].result \in {"blocked", "refused", "rejected"}
                 PROVE  calls'[d].ran = 0
      BY DEF HeadlessTold
    <3>1. CASE d = c  BY <1>6, <1>8, <3>1
    <3>2. CASE d # c  BY <1>8, <3>2 DEF CallsInv, Warranted, HeadlessTold
    <3> QED  BY <3>1, <3>2
  <2> QED  BY <1>1, <1>3, <2>1, <2>2 DEF Warranted
<1> QED  BY <1>4, <1>11, <1>12, <1>13, <1>14, <1>15, <1>16 DEF CallsInv

\* Every step of a batch or a session keeps what is known of its calls.
LEMMA CallsKeep ==
  ASSUME CallsInv, ChildInv, HeadlessNext
  PROVE  CallsInv' /\ ChildInv'
<1>1. CASE Update \/ \E b \in 1..2 : Expire(b)  BY <1>1, UpdateKeeps
<1>2. CASE EventThrows  BY <1>2, EventKeeps
<1>3. CASE BatchEnds  BY <1>3, BatchEndsKeeps
<1>4. ASSUME NEW c \in Calls,
             \/ Submit(c) \/ BeginCall(c) \/ VersionAnswered(c) \/ HelpAnswered(c)
             \/ ModelAnswered(c) \/ Abort(c) \/ HandlerThrows(c)
      PROVE  CallsInv' /\ ChildInv'
  BY <1>4, SubmitKeeps, BeginKeepsCalls, VersionKeeps, HelpKeeps, ModelKeeps, AbortKeepsCalls, ThrowKeeps
<1> QED  BY <1>1, <1>2, <1>3, <1>4 DEF HeadlessNext

\* So does every step of the program that runs for one of them.
LEMMA CallsProcess ==
  ASSUME CallsInv, ChildInv, ProcessNext, UNCHANGED hvars
  PROVE  CallsInv' /\ ChildInv'
<1>1. ChildInv' /\ astray' = astray /\ child.state # "none"  BY ProcessKeeps
<1>2. UNCHANGED <<kind, calls, queue, stopped, cache, exe, newer, batch>>  BY DEF hvars
<1>3. /\ calls' \in [Calls -> CallRecords]
      /\ batch' \in [thrown : BOOLEAN, status : {"none", "completed", "failed"}]
  BY <1>2 DEF CallsInv, CallsTypeOK
<1> QED  BY <1>1, <1>2, <1>3, CallsStand

-----------------------------------------------------------------------------
(* The theorems.                                                           *)

\* A host starts with nothing under way.
LEMMA HostInit ==
  ASSUME Init
  PROVE  HostInv
<1>1. /\ kind \in {"batch", "session", "review", "task", "modules", "patch"}
      /\ child = NoChild /\ astray = FALSE /\ HeadlessInit /\ ReviewInit /\ JobInit
  BY DEF Init
<1>2. calls = [c \in Calls |-> Waiting] /\ queue = <<>> /\ stopped = FALSE /\ exe = 1
      /\ cache = [b \in 1..2 |-> 0] /\ batch = [thrown |-> FALSE, status |-> "none"]
  BY <1>1 DEF HeadlessInit
<1>3. ChildInv /\ child.state = "none" /\ ~astray  BY <1>1, NoChildTyped DEF ChildInv
<1>4. Apart  BY <1>1, <1>2, <1>3 DEF Apart
<1>5. CallsInv
  <2>1. <<>> \in Seq(Calls) /\ Len(<<>>) = 0 /\ DOMAIN <<>> = {}  BY EmptySeq
  <2>2. Waiting \in CallRecords /\ Waiting.at = "idle" /\ Waiting.ran = 0 /\ Waiting.result = "none"
    BY DEF Waiting, CallRecords, Results
  <2>3. \A c \in Calls : calls[c] = Waiting  BY <1>2
  <2>4. CallsTypeOK
    <3>1. calls \in [Calls -> CallRecords]  BY <1>2, <2>2
    <3>2. batch \in [thrown : BOOLEAN, status : {"none", "completed", "failed"}]  BY <1>2
    <3>3. cache \in [1..2 -> 0..2] /\ exe \in 1..2  BY <1>2
    <3> QED  BY <1>2, <2>1, <3>1, <3>2, <3>3 DEF CallsTypeOK
  <2>5. Queued /\ InTurn  BY <1>2, <2>1, <2>2, <2>3 DEF Queued, InTurn, Taking
  <2>6. Followed /\ BuildsKnown  BY <1>2, <1>3, <2>2, <2>3 DEF Followed, BuildsKnown, Done, InFlight
  <2>7. Warranted  BY <1>2, <2>1, <2>2, <2>3 DEF Warranted, HeadlessTold
  <2> QED  BY <2>4, <2>5, <2>6, <2>7 DEF CallsInv
<1>6. ReviewInv  BY <1>1, <1>3 DEF ReviewInit, ReviewInv, ReviewTold
<1>7. JobInv
  <2>1. JobTypeOK  BY <1>1 DEF JobInit, JobTypeOK, Gateways, Launchers, JobDirs
  <2>2. Undisturbed  BY <1>1 DEF JobInit, Undisturbed, Waits
  <2>3. Closing  BY <1>1 DEF JobInit, Closing
  <2> QED  BY <2>1, <2>2, <2>3 DEF JobInv
<1> QED  BY <1>3, <1>4, <1>5, <1>6, <1>7 DEF HostInv

\* Every step of whatever a host runs keeps the invariant.
LEMMA HostStep ==
  ASSUME HostInv, Next
  PROVE  HostInv'
<1>1. CASE kind \in {"batch", "session"} /\ HeadlessNext /\ UNCHANGED <<rvars, jvars, mvars>>
  <2>1. CallsInv' /\ ChildInv'  BY <1>1, CallsKeep DEF HostInv
  <2>2. kind' = kind
    BY <1>1 DEF HeadlessNext, Update, EventThrows, BatchEnds, Expire, Submit, BeginCall, VersionAnswered,
       HelpAnswered, ModelAnswered, Abort, HandlerThrows
  <2>3. ReviewInit' /\ JobInit'
    BY <1>1 DEF HostInv, Apart, rvars, jvars, ReviewInit, JobInit
  <2> QED  BY <1>1, <2>1, <2>2, <2>3 DEF HostInv, Apart
<1>2. CASE kind = "review" /\ ReviewNext /\ UNCHANGED <<hvars, jvars, mvars>>
  <2>1. ReviewInv' /\ ChildInv'  BY <1>2, ReviewKeeps DEF HostInv
  <2>2. JobInit'  BY <1>2 DEF HostInv, Apart, jvars, JobInit
  <2> QED  BY <1>2, <2>1, <2>2 DEF HostInv, Apart, hvars
<1>3. CASE kind \in {"batch", "session", "review"} /\ ProcessNext /\ UNCHANGED <<hvars, rvars, jvars, mvars>>
  <2>1. kind \in {"batch", "session"} => CallsInv' /\ ChildInv'  BY <1>3, CallsProcess DEF HostInv
  <2>2. kind = "review" => ReviewInv' /\ ChildInv'  BY <1>3, ReviewProcess DEF HostInv
  <2>3. JobInit' /\ (kind # "review" => ReviewInit')
    BY <1>3 DEF HostInv, Apart, rvars, jvars, ReviewInit, JobInit
  <2> QED  BY <1>3, <2>1, <2>2, <2>3 DEF HostInv, Apart, hvars
<1>4. CASE kind = "task" /\ JobNext /\ UNCHANGED <<hvars, rvars, mvars, pvars>>
  <2>1. JobInv'  BY <1>4, JobKeeps DEF HostInv
  <2>2. ReviewInit' /\ ChildInv'  BY <1>4 DEF HostInv, Apart, rvars, pvars, ReviewInit, ChildInv
  <2> QED  BY <1>4, <2>1, <2>2 DEF HostInv, Apart, hvars, pvars
<1>5. CASE kind = "modules" /\ ModulesNext /\ UNCHANGED <<hvars, rvars, jvars, pvars>>
  <2>1. ReviewInit' /\ JobInit' /\ ChildInv'
    BY <1>5 DEF HostInv, Apart, rvars, jvars, pvars, ReviewInit, JobInit, ChildInv
  <2> QED  BY <1>5, <2>1 DEF HostInv, Apart, hvars, pvars
<1> QED  BY <1>1, <1>2, <1>3, <1>4, <1>5 DEF Next

\* A step that changes nothing keeps it.
LEMMA HostStutter ==
  ASSUME HostInv, UNCHANGED vars
  PROVE  HostInv'
<1>1. /\ UNCHANGED <<kind, calls, queue, stopped, cache, exe, newer, batch, child, astray, review, folder>>
      /\ UNCHANGED <<gateway, launcher, jobDir, cleaner, scan, clock>>
  BY DEF vars, hvars, rvars, jvars, pvars
<1>2. Apart' /\ ChildInv'  BY <1>1 DEF HostInv, Apart, ReviewInit, JobInit, ChildInv
<1>3. CallsInv => CallsInv'
  <2>1. CallsTypeOK => CallsTypeOK'  BY <1>1 DEF CallsTypeOK
  <2>2. Queued /\ InTurn => Queued' /\ InTurn'  BY <1>1 DEF Queued, InTurn, Taking, Done
  <2>3. Followed => Followed'  BY <1>1 DEF Followed, Taking, Done, InFlight
  <2>4. BuildsKnown /\ Warranted => BuildsKnown' /\ Warranted'
    BY <1>1 DEF BuildsKnown, Warranted, HeadlessTold, HasVersion, HasFlags
  <2> QED  BY <2>1, <2>2, <2>3, <2>4 DEF CallsInv
<1>4. ReviewInv => ReviewInv'  BY <1>1 DEF ReviewInv, ReviewTold
<1>5. JobInv => JobInv'
  BY <1>1 DEF JobInv, JobTypeOK, Undisturbed, Closing, Waits, AtWork, Deadline, JobInit
<1> QED  BY <1>1, <1>2, <1>3, <1>4, <1>5 DEF HostInv

(* What holds of calls, reviews, tasks and of the program each waits for    *)
(* holds of them for any list of calls and any limits of time.              *)
THEOREM HostInvariant == Spec => []HostInv
<1>1. Init => HostInv  BY HostInit
<1>2. HostInv /\ [Next]_vars => HostInv'  BY HostStep, HostStutter
<1> QED  BY <1>1, <1>2, PTL DEF Spec

(* What callers are told of processes, calls, reviews and tasks is so, in    *)
(* whatever order these end, are stopped and are killed: nothing runs on     *)
(* unless they are told so, no model has run for who was refused, no scan    *)
(* takes a job from a gateway that waits for it, and success comes with the  *)
(* whole patch and leaves no directory. That is so for any list of calls and *)
(* for any limits of time with a lease longer than the gateway waits.        *)
THEOREM CallersAreToldTrue == Spec => []ToldTrue
<1>1. ASSUME HostInv  PROVE ToldTrue
  <2>1. Accounted  BY <1>1 DEF HostInv, ChildInv, Accounted
  <2>2. HeadlessTold
    <3>1. CASE kind \in {"batch", "session"}  BY <1>1, <3>1 DEF HostInv, CallsInv, Warranted
    <3>2. CASE kind \notin {"batch", "session"}
      <4>1. \A c \in Calls : calls[c].ran = 0  BY <1>1, <3>2 DEF HostInv, Apart, Waiting
      <4> QED  BY <4>1 DEF HeadlessTold
    <3> QED  BY <3>1, <3>2
  <2>3. ReviewTold
    <3>1. CASE kind = "review"  BY <1>1, <3>1 DEF HostInv, ReviewInv
    <3>2. CASE kind # "review"
      <4>1. ~review.ran /\ review.result = "none"  BY <1>1, <3>2 DEF HostInv, Apart, ReviewInit
      <4> QED  BY <4>1 DEF ReviewTold
    <3> QED  BY <3>1, <3>2
  <2>4. JobsKept
    <3>1. CASE kind = "task"  BY <1>1, <3>1 DEF HostInv, JobInv, Closing, JobsKept
    <3>2. CASE kind # "task"
      <4>1. ~jobDir.torn /\ gateway.at = "idle"  BY <1>1, <3>2 DEF HostInv, Apart, JobInit
      <4> QED  BY <4>1 DEF JobsKept
    <3> QED  BY <3>1, <3>2
  <2> QED  BY <2>1, <2>2, <2>3, <2>4 DEF ToldTrue
<1> QED  BY <1>1, HostInvariant, PTL

(* A model runs only after every call before it has completed, on a build   *)
(* that was asked and will do, and never beside what could not be killed,   *)
(* for batches of any length and any capacity of a session.                 *)
THEOREM CallsFailClosed == Spec => []FailsClosed
<1>1. ASSUME HostInv  PROVE FailsClosed
  <2>1. child.state = "running" => ~astray
    <3>1. CASE kind \in {"batch", "session"}  BY <1>1, <3>1 DEF HostInv, CallsInv, Followed
    <3>2. CASE kind = "review"  BY <1>1, <3>2 DEF HostInv, ReviewInv
    <3>3. CASE kind \notin {"batch", "session", "review"}  BY <1>1, <3>3 DEF HostInv, Apart
    <3> QED  BY <3>1, <3>2, <3>3
  <2>2. CASE kind \in {"batch", "session"}
    BY <1>1, <2>1, <2>2 DEF HostInv, CallsInv, Warranted, BuildsKnown, FailsClosed
  <2>3. CASE kind \notin {"batch", "session"}
    <3>1. /\ \A c \in Calls : calls[c].ran = 0
          /\ queue = <<>> /\ batch.status = "none"
      BY <1>1, <2>3 DEF HostInv, Apart, Waiting
    <3>2. DOMAIN queue = {}  BY <3>1, EmptySeq
    <3> QED  BY <2>1, <3>1, <3>2 DEF FailsClosed
  <2> QED  BY <2>2, <2>3
<1> QED  BY <1>1, HostInvariant, PTL
=============================================================================
