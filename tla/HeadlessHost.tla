---------------------------- MODULE HeadlessHost ----------------------------
(***************************************************************************)
(* scripts/headless-host.mjs: calls to the command-line client of a model.  *)
(* Each call asks the installed program for its version and its flags before *)
(* it runs the model; a session keeps what programs said about their flags,  *)
(* takes calls one at a time and refuses all that follow one that failed; a  *)
(* batch is a list of calls on one session.                                  *)
(*                                                                           *)
(* A program is a build: the one the host was configured for, or one that an *)
(* update of the client puts in its place.  Validation, digests and evidence *)
(* are left out; which switches and folders a call has is data.              *)
(***************************************************************************)
EXTENDS HostProcess, FiniteSets

CONSTANTS
    Calls,     \* 1 .. n
    Capacity,  \* calls a session holds
    Changes    \* what a newer build may change: subset of {"nothing", "version", "flags"}

ASSUME CallsAssumption == Calls = 1..Cardinality(Calls)

VARIABLES
    kind,      \* who calls: "batch", "session", or somebody else
    calls,     \* [at, ident: build the call began with, of: build last started, ran: build the
               \*  model ran on or 0, aborted, thrown: a handler of progress threw, result]
    queue,     \* calls in the order in which the session took them
    stopped,   \* the session refuses what follows
    cache,     \* per build, the build whose flags are kept under its name, or 0
    exe,       \* installed build
    newer,     \* what build 2 changes
    batch      \* [thrown: a handler of events threw, status]

hvars == <<kind, calls, queue, stopped, cache, exe, newer, batch>>

HasVersion(b) == b = 1 \/ newer # "version"
HasFlags(b) == b = 1 \/ newer # "flags"

Waiting == [at |-> "idle", ident |-> 0, of |-> 0, ran |-> 0, aborted |-> FALSE, thrown |-> FALSE, result |-> "none"]

HeadlessInit ==
    /\ calls = [c \in Calls |-> Waiting] /\ queue = <<>> /\ stopped = FALSE
    /\ cache = [b \in 1..2 |-> 0] /\ exe = 1
    /\ newer \in IF kind \in {"batch", "session"} THEN Changes ELSE {"nothing"}
    /\ batch = [thrown |-> FALSE, status |-> "none"]

Done(c) == calls[c].at = "done"
Unfinished == {i \in DOMAIN queue: ~Done(queue[i])}
\* The call the session is working on.
Current(c) == \E i \in Unfinished: queue[i] = c /\ \A j \in Unfinished: i <= j
Signalled(c) == calls[c].aborted \/ calls[c].thrown

Update == exe = 1 /\ exe' = 2 /\ UNCHANGED <<kind, calls, queue, stopped, cache, newer, batch, pvars>>

InBatch(c) == kind = "batch" =>
    /\ ~batch.thrown /\ ~calls[c].aborted /\ batch.status = "none"
    /\ \A d \in Calls: d < c => calls[d].result = "completed"

\* run() of a session; a full session refuses without taking note.
Submit(c) ==
    /\ kind \in {"batch", "session"} /\ calls[c].at = "idle" /\ InBatch(c)
    /\ IF Cardinality(Unfinished) >= Capacity
       THEN calls' = [calls EXCEPT ![c].at = "done", ![c].result = "refused"] /\ UNCHANGED queue
       ELSE calls' = [calls EXCEPT ![c].at = "queued"] /\ queue' = Append(queue, c)
    /\ UNCHANGED <<kind, stopped, cache, exe, newer, batch, pvars>>

\* Nothing but its result is kept of a call that is over.
Over(call, result) ==
    [Waiting EXCEPT !.at = "done", !.ran = call.ran,
                    !.result = IF call.thrown /\ result # "rejected" THEN "failed" ELSE result]

\* Mutant: only a call that has failed stops the session.
SettleUnlessBlocked(c, result) ==
    /\ calls' = [calls EXCEPT ![c] = Over(calls[c], result)]
    /\ stopped' = (stopped \/ calls'[c].result \in {"failed", "rejected"})
    /\ Taken

\* A call is over; every result but a completed one stops the session.
Settle(c, result) ==
    /\ calls' = [calls EXCEPT ![c] = Over(calls[c], result)]
    /\ stopped' = (stopped \/ calls'[c].result # "completed")
    /\ Taken

Run(c, step, mode) ==
    /\ Launch(step, mode, Signalled(c))
    /\ calls' = [calls EXCEPT ![c].at = step, ![c].of = exe, ![c].ran = IF step = "model" THEN exe ELSE 0,
                              ![c].ident = IF step = "version" THEN exe ELSE @]
    /\ UNCHANGED stopped

\* The call leaves the queue: refused, or it notes which file it is about to ask.
BeginCall(c) ==
    /\ Current(c) /\ calls[c].at = "queued"
    /\ IF stopped \/ calls[c].aborted THEN Settle(c, "blocked") ELSE Run(c, "version", "native")
    /\ UNCHANGED <<kind, queue, cache, exe, newer, batch>>

Succeeded == child.state = "settled" /\ child.why = "none" /\ child.code = 0

\* What was asked must still be installed, and what it said must be enough.  The
\* last look at the file and the start of the model are one step here: an update
\* within the few milliseconds between them is left out.
Judge(c, said, ok) ==
    IF exe # calls[c].ident THEN Settle(c, "rejected")
    ELSE IF Signalled(c) \/ ~ok \/ ~HasFlags(said) THEN Settle(c, "blocked")
    ELSE \E mode \in {"native", "job"}: Run(c, "model", mode)

VersionAnswered(c) ==
    /\ Current(c) /\ calls[c].at = "version" /\ child.state = "settled"
    /\ LET known == cache[calls[c].ident] IN
       IF ~Succeeded \/ ~HasVersion(calls[c].of) THEN Settle(c, "blocked")
       ELSE IF known # 0 THEN Judge(c, known, TRUE)
       ELSE Run(c, "help", "native")
    /\ UNCHANGED <<kind, queue, cache, exe, newer, batch>>

\* Flags are kept before it is known whether the file is still the same: if it is
\* not, the session is stopped.
HelpAnswered(c) ==
    /\ Current(c) /\ calls[c].at = "help" /\ child.state = "settled"
    /\ Judge(c, calls[c].of, Succeeded)
    /\ cache' = IF Succeeded THEN [cache EXCEPT ![calls[c].ident] = calls[c].of] ELSE cache
    /\ UNCHANGED <<kind, queue, exe, newer, batch>>

\* Kept flags are a minute old.
Expire(b) ==
    /\ cache[b] # 0 /\ cache' = [cache EXCEPT ![b] = 0]
    /\ UNCHANGED <<kind, calls, queue, stopped, exe, newer, batch, pvars>>

\* A client that ended well may still have been denied a tool, or have said nothing usable.
ModelAnswered(c) ==
    /\ Current(c) /\ calls[c].at = "model" /\ child.state = "settled"
    /\ \E result \in IF Succeeded THEN {"completed", "unverified", "failed"} ELSE {"failed"}: Settle(c, result)
    /\ UNCHANGED <<kind, queue, cache, exe, newer, batch>>

\* A signal of c stops the process that runs for it.
StopFor(c) ==
    IF Current(c) /\ child.state = "running" /\ child.why = "none" THEN Stop("cancelled") ELSE UNCHANGED pvars

\* The calls of a batch share one signal.
Abort(c) ==
    /\ kind \in {"batch", "session"} /\ ~Done(c) /\ ~calls[c].aborted
    /\ calls' = [d \in Calls |-> IF (d = c \/ kind = "batch") /\ ~Done(d)
                                 THEN [calls[d] EXCEPT !.aborted = TRUE] ELSE calls[d]]
    /\ IF kind = "batch" /\ \E d \in Calls: Current(d)
       THEN StopFor(CHOOSE d \in Calls: Current(d)) ELSE StopFor(c)
    /\ UNCHANGED <<kind, queue, stopped, cache, exe, newer, batch>>

InFlight(c) == calls[c].at \in {"version", "help", "model"}

\* A handler of progress throws: the call is aborted and its result failed.
HandlerThrows(c) ==
    /\ InFlight(c) /\ ~calls[c].thrown /\ ~batch.thrown
    /\ calls' = [calls EXCEPT ![c].thrown = TRUE] /\ StopFor(c)
    /\ batch' = [batch EXCEPT !.thrown = kind = "batch"]
    /\ UNCHANGED <<kind, queue, stopped, cache, exe, newer>>

\* A handler of the batch throws between two calls.
EventThrows ==
    /\ kind = "batch" /\ ~batch.thrown /\ batch.status = "none" /\ Unfinished = {}
    /\ batch' = [batch EXCEPT !.thrown = TRUE]
    /\ UNCHANGED <<kind, calls, queue, stopped, cache, exe, newer, pvars>>

BatchEnds ==
    /\ kind = "batch" /\ batch.status = "none" /\ Unfinished = {}
    /\ ~\E c \in Calls: calls[c].at = "idle" /\ InBatch(c)
    /\ batch' = [batch EXCEPT !.status = IF ~batch.thrown /\ \A c \in Calls: calls[c].result = "completed"
                                         THEN "completed" ELSE "failed"]
    /\ UNCHANGED <<kind, calls, queue, stopped, cache, exe, newer, pvars>>

HeadlessNext ==
    \/ Update \/ EventThrows \/ BatchEnds
    \/ \E b \in 1..2: Expire(b)
    \/ \E c \in Calls: \/ Submit(c) \/ BeginCall(c) \/ VersionAnswered(c) \/ HelpAnswered(c)
                       \/ ModelAnswered(c) \/ Abort(c) \/ HandlerThrows(c)

(******************************** properties *******************************)

\* A model runs only after every call taken before has completed, and never beside
\* what an earlier call could not get rid of; and only on a build that was asked
\* and has the version and the flags, whatever is updated or remembered meanwhile.
FailsClosed ==
    /\ \A i, j \in DOMAIN queue: i < j /\ calls[queue[j]].ran # 0 => calls[queue[i]].result = "completed"
    /\ child.state = "running" => ~astray
    /\ \A c \in Calls: calls[c].ran # 0 => HasVersion(calls[c].ran) /\ HasFlags(calls[c].ran)
    /\ batch.status = "completed" => Len(queue) = Cardinality(Calls)

\* Who is told that a call was blocked or refused has had no model run.
HeadlessTold == \A c \in Calls: calls[c].result \in {"blocked", "refused", "rejected"} => calls[c].ran = 0
==============================================================================
