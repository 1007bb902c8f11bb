--------------------------- MODULE RequestLedger ---------------------------
(***************************************************************************)
(* The durable request ledger: extensions/request-ledger.js, the idempotent *)
(* execution of a write request and the outcome its caller records         *)
(* (scripts/gateway.mjs, executeSubagentBody).                             *)
(*                                                                         *)
(* Several gateway processes share one ledger directory. A call is one     *)
(* invocation of execute(); the process, the request identifier and the    *)
(* digest of its input come with it. Everything a process does between two *)
(* awaits is one step, except that the directory claim and the start       *)
(* record are two steps, since a crash and other processes come between.   *)
(***************************************************************************)
CONSTANTS
  Gateways,    \* processes that share the ledger directory
  Requests,    \* request identifiers
  Digests,     \* digests of (operation, input)
  Calls,       \* invocations of execute(), each made at most once
  GatewayOf, RequestOf, DigestOf,  \* what each call carries
  None

ASSUME CallAssumption ==
  /\ GatewayOf \in [Calls -> Gateways]
  /\ RequestOf \in [Calls -> Requests]
  /\ DigestOf \in [Calls -> Digests]
ASSUME NoneAssumption == None \notin Calls \cup Gateways \cup Requests \cup Digests

VARIABLES
  phase,     \* where each call stands
  source,    \* the call whose execution a call answers with
  entry,     \* disk: <key>/ directory of each request
  writer,    \* disk: the call that made the directory, named by its records
  result,    \* disk: kind of result in final.json
  outcome,   \* disk: outcomes/<key>.json, the call that recorded it
  inFlight,  \* memory of each process: the call executing a request
  executed,  \* history: calls whose function was started
  durable    \* history: calls whose final.json was written

disk == <<entry, writer, result, outcome>>
vars == <<phase, source, entry, writer, result, outcome, inFlight, executed, durable>>

Phases == {"idle", "claimed", "running", "written", "joined",
           "executed", "recorded", "replayed", "reused", "doubt", "threw", "lost"}
Active == {"claimed", "running", "written", "joined", "executed"}
Answered == {"executed", "recorded", "replayed"}

\* What prune and recordOutcome tell apart in a result: completed, completed
\* with a contract that links later stages to it, and not ok.
Results == {"ok", "contract", "failed"}

TypeOK ==
  /\ phase \in [Calls -> Phases]
  /\ source \in [Calls -> Calls \cup {None}]
  /\ entry \in [Requests -> {"absent", "directory", "started", "final"}]
  /\ writer \in [Requests -> Calls \cup {None}]
  /\ result \in [Calls -> Results \cup {None}]
  /\ outcome \in [Requests -> Calls \cup {None}]
  /\ inFlight \in [Gateways -> [Requests -> Calls \cup {None}]]
  /\ executed \subseteq Calls
  /\ durable \subseteq Calls

Init ==
  /\ phase = [c \in Calls |-> "idle"]
  /\ source = [c \in Calls |-> None]
  /\ entry = [r \in Requests |-> "absent"]
  /\ writer = [r \in Requests |-> None]
  /\ result = [c \in Calls |-> None]
  /\ outcome = [r \in Requests |-> None]
  /\ inFlight = [g \in Gateways |-> [r \in Requests |-> None]]
  /\ executed = {}
  /\ durable = {}

\* Between its mkdir and its first await a process runs nothing else.
Busy(g) == \E c \in Calls : GatewayOf[c] = g /\ phase[c] = "claimed"

Become(c, p) == phase' = [phase EXCEPT ![c] = p]

-----------------------------------------------------------------------------
\* Mutant: mkdir with recursive: true, which accepts an existing directory.
ClaimRecursive(c) ==
  LET r == RequestOf[c] IN
  /\ phase[c] = "idle" /\ ~Busy(GatewayOf[c])
  /\ entry' = [entry EXCEPT ![r] = IF @ = "absent" THEN "directory" ELSE @]
  /\ writer' = [writer EXCEPT ![r] = c]
  /\ Become(c, "claimed")
  /\ UNCHANGED <<source, result, outcome, inFlight, executed, durable>>

(* execute(): the exclusive mkdir is the claim of the identifier.          *)
Claim(c) ==
  LET r == RequestOf[c] IN
  /\ phase[c] = "idle" /\ ~Busy(GatewayOf[c])
  /\ entry[r] = "absent"
  /\ entry' = [entry EXCEPT ![r] = "directory"]
  /\ writer' = [writer EXCEPT ![r] = c]
  /\ Become(c, "claimed")
  /\ UNCHANGED <<source, result, outcome, inFlight, executed, durable>>

\* started.json is written, the function is scheduled and the promise is
\* published in inFlight, with no await in between.
Start(c) ==
  LET r == RequestOf[c] IN
  /\ phase[c] = "claimed"
  /\ entry' = [entry EXCEPT ![r] = "started"]
  /\ inFlight' = [inFlight EXCEPT ![GatewayOf[c]][r] = c]
  /\ executed' = executed \cup {c}
  /\ source' = [source EXCEPT ![c] = c]
  /\ Become(c, "running")
  /\ UNCHANGED <<writer, result, outcome, durable>>

\* started.json cannot be written: the directory stays, the function never runs.
StartFails(c) ==
  /\ phase[c] = "claimed"
  /\ Become(c, "threw")
  /\ UNCHANGED <<source, inFlight, executed, durable, disk>>

\* The function returned: final.json is made durable before the promise settles.
WriteFinal(c, k) ==
  /\ phase[c] = "running"
  /\ entry' = [entry EXCEPT ![RequestOf[c]] = "final"]
  /\ result' = [result EXCEPT ![c] = k]
  /\ durable' = durable \cup {c}
  /\ Become(c, "written")
  /\ UNCHANGED <<source, writer, outcome, inFlight, executed>>

\* Mutant: a failed execution removes its directory "so that it can be retried".
FinishFailsCleans(c) ==
  LET r == RequestOf[c] IN
  /\ phase[c] = "running"
  /\ inFlight' = [inFlight EXCEPT ![GatewayOf[c]][r] = None]
  /\ entry' = [entry EXCEPT ![r] = "absent"]
  /\ writer' = [writer EXCEPT ![r] = None]
  /\ Become(c, "threw")
  /\ UNCHANGED <<source, result, outcome, executed, durable>>

\* The function threw, or final.json could not be written. The start record
\* stays and the finally block forgets the promise.
FinishFails(c) ==
  /\ phase[c] = "running"
  /\ inFlight' = [inFlight EXCEPT ![GatewayOf[c]][RequestOf[c]] = None]
  /\ Become(c, "threw")
  /\ UNCHANGED <<source, executed, durable, disk>>

\* The promise settles with the value; the finally block forgets it.
Settle(c) ==
  /\ phase[c] = "written"
  /\ inFlight' = [inFlight EXCEPT ![GatewayOf[c]][RequestOf[c]] = None]
  /\ Become(c, "executed")
  /\ UNCHANGED <<source, executed, durable, disk>>

\* recordOutcome(): only the executing caller calls it, and the first record stays.
RecordOutcome(c) ==
  LET r == RequestOf[c] IN
  /\ phase[c] = "executed"
  /\ outcome' = [outcome EXCEPT ![r] = IF @ = None THEN c ELSE @]
  /\ Become(c, "recorded")
  /\ UNCHANGED <<source, entry, writer, result, inFlight, executed, durable>>

-----------------------------------------------------------------------------
(* readExisting(): the identifier is taken.                                *)
Taken(c) ==
  /\ phase[c] = "idle" /\ ~Busy(GatewayOf[c])
  /\ entry[RequestOf[c]] # "absent"

Promised(c) == inFlight[GatewayOf[c]][RequestOf[c]]

\* Mutant: the records are matched by request identifier only.
MismatchById(c) ==
  /\ entry[RequestOf[c]] \in {"started", "final"}
  /\ RequestOf[writer[RequestOf[c]]] # RequestOf[c]

\* Does a start record that can be read carry another digest?
Mismatch(c) ==
  /\ entry[RequestOf[c]] \in {"started", "final"}
  /\ DigestOf[writer[RequestOf[c]]] # DigestOf[c]

\* The same process is executing the request: wait for its promise.
Join(c) ==
  /\ Taken(c) /\ Promised(c) # None
  /\ DigestOf[Promised(c)] = DigestOf[c]
  /\ source' = [source EXCEPT ![c] = Promised(c)]
  /\ Become(c, "joined")
  /\ UNCHANGED <<inFlight, executed, durable, disk>>

\* Mutant: callers that joined learn of success only.
JoinSettlesOnSuccess(c) ==
  /\ phase[c] = "joined"
  /\ phase[source[c]] \in {"executed", "recorded"} /\ Become(c, "replayed")
  /\ UNCHANGED <<source, inFlight, executed, durable, disk>>

JoinSettles(c) ==
  /\ phase[c] = "joined"
  /\ \/ phase[source[c]] \in {"executed", "recorded"} /\ Become(c, "replayed")
     \/ phase[source[c]] = "threw" /\ Become(c, "threw")
  /\ UNCHANGED <<source, inFlight, executed, durable, disk>>

RejectReuse(c) ==
  /\ Taken(c)
  /\ IF Promised(c) # None THEN DigestOf[Promised(c)] # DigestOf[c] ELSE Mismatch(c)
  /\ Become(c, "reused")
  /\ UNCHANGED <<source, inFlight, executed, durable, disk>>

Replay(c) ==
  /\ Taken(c) /\ Promised(c) = None
  /\ entry[RequestOf[c]] = "final" /\ ~Mismatch(c)
  /\ source' = [source EXCEPT ![c] = writer[RequestOf[c]]]
  /\ Become(c, "replayed")
  /\ UNCHANGED <<inFlight, executed, durable, disk>>

InDoubt(c) ==
  /\ Taken(c) /\ Promised(c) = None
  /\ entry[RequestOf[c]] # "final" /\ ~Mismatch(c)
  /\ Become(c, "doubt")
  /\ UNCHANGED <<source, inFlight, executed, durable, disk>>

-----------------------------------------------------------------------------
\* prune(): records that age or the byte budget may remove. Anything without a
\* final record, not ok, linked by a recorded contract, or in flight here stays.
Linked(r) == outcome[r] # None /\ result[outcome[r]] = "contract"

\* Mutant: age alone decides, unfinished entries included.
PrunableByAge(g, r) == entry[r] # "absent" /\ inFlight[g][r] = None

\* Mutant: the contract recorded for the entry is not looked up.
PrunableUnlinked(g, r) ==
  /\ entry[r] = "final" /\ result[writer[r]] # "failed"
  /\ inFlight[g][r] = None

PrunableEntry(g, r) ==
  /\ entry[r] = "final" /\ result[writer[r]] # "failed"
  /\ ~Linked(r) /\ inFlight[g][r] = None
PrunableOutcome(r) == outcome[r] # None /\ result[outcome[r]] = "ok"

Prune(g, S, T) ==
  /\ ~Busy(g) /\ S \cup T # {}
  /\ \A r \in S : PrunableEntry(g, r)
  /\ \A r \in T : PrunableOutcome(r)
  /\ entry' = [r \in Requests |-> IF r \in S THEN "absent" ELSE entry[r]]
  /\ writer' = [r \in Requests |-> IF r \in S THEN None ELSE writer[r]]
  /\ outcome' = [r \in Requests |-> IF r \in T THEN None ELSE outcome[r]]
  /\ UNCHANGED <<phase, source, result, inFlight, executed, durable>>

\* The process dies; its successor starts with an empty inFlight map.
Crash(g) ==
  /\ \E c \in Calls : GatewayOf[c] = g /\ phase[c] \in Active
  /\ phase' = [c \in Calls |-> IF GatewayOf[c] = g /\ phase[c] \in Active
                               THEN "lost" ELSE phase[c]]
  /\ inFlight' = [inFlight EXCEPT ![g] = [r \in Requests |-> None]]
  /\ UNCHANGED <<source, executed, durable, disk>>

\* Nothing is left to call, run or prune.
Done ==
  /\ \A c \in Calls : phase[c] \notin Active \cup {"idle"}
  /\ UNCHANGED vars

Progress(c) ==
  \/ Start(c) \/ StartFails(c) \/ FinishFails(c) \/ Settle(c)
  \/ RecordOutcome(c) \/ JoinSettles(c)
  \/ \E k \in Results : WriteFinal(c, k)

Invoke(c) == Claim(c) \/ Join(c) \/ RejectReuse(c) \/ Replay(c) \/ InDoubt(c)

Next ==
  \/ \E c \in Calls : Invoke(c) \/ Progress(c)
  \/ \E g \in Gateways :
       \/ Crash(g)
       \/ \E S, T \in SUBSET Requests : Prune(g, S, T)
  \/ Done

Spec == Init /\ [][Next]_vars

\* Only what a live process owes is fair: a started function returns (the
\* executor cuts it off at its deadline) and promise callbacks run.
FairSpec == Spec /\ \A c \in Calls : WF_vars(Progress(c))
-----------------------------------------------------------------------------
(* Properties *)

\* Exclusive mkdir plus the refusal to prune unfinished entries: over all
\* processes, crashes and retries, two executions of one request identifier
\* happen only when one of them is durably finished (and was then pruned). In
\* particular an interrupted write is never executed again.
OneExecution ==
  \A c, d \in executed :
    c # d /\ RequestOf[c] = RequestOf[d] => c \in durable \/ d \in durable

\* Every successful answer, live, joined or replayed after a restart, comes from
\* an execution of the same request with the same digest whose final record was
\* durable before anybody was answered.
AnswersAreDurableAndOwn ==
  \A c \in Calls : phase[c] \in Answered =>
    /\ source[c] \in durable
    /\ RequestOf[source[c]] = RequestOf[c]
    /\ DigestOf[source[c]] = DigestOf[c]

\* A request claimed without a final record whose execution is over.
Doubtful(r) ==
  /\ entry[r] \in {"directory", "started"}
  /\ phase[writer[r]] \in {"threw", "lost"}

\* Once in doubt, always in doubt: no retry, prune or restart of any process
\* changes the entry, and no function is started for the request.
DoubtIsForever ==
  [][\A r \in Requests : Doubtful(r) =>
       /\ entry'[r] = entry[r] /\ writer'[r] = writer[r]
       /\ \A c \in executed' \ executed : RequestOf[c] # r]_vars

\* Retention never removes what acceptance or recovery depends on: a failed
\* result, a recorded contract or the entry it is recorded for.
CriticalKept ==
  [][\A r \in Requests :
       /\ entry[r] = "final" /\ (result[writer[r]] = "failed" \/ Linked(r))
            => entry'[r] = "final" /\ writer'[r] = writer[r]
       /\ Linked(r) => outcome'[r] = outcome[r]]_vars

\* A caller is answered unless its process dies: nobody waits forever for a
\* promise, also when the execution it joined fails.
EveryCallEnds ==
  \A c \in Calls : phase[c] \in Active ~> phase[c] \notin Active

\* What the ledger amounts to for each identifier.
Status(r) ==
  IF entry[r] = "absent" THEN "unused"
  ELSE IF entry[r] = "final" THEN "done"
  ELSE IF phase[writer[r]] \in {"claimed", "running"} THEN "busy" ELSE "doubt"

Abstract == INSTANCE AtMostOnce WITH status <- [r \in Requests |-> Status(r)]

\* The ledger implements the abstract at-most-once register.
ImplementsAtMostOnce == Abstract!Spec
=============================================================================
