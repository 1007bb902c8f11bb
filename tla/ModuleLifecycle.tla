--------------------------- MODULE ModuleLifecycle ---------------------------
(***************************************************************************)
(* extensions/module-lifecycle.js with the modules that                     *)
(* createGatewayRuntime() of scripts/gateway.mjs gives it: construction in  *)
(* the order of dependencies with rollback, replacement of one module,      *)
(* disposal of all.                                                         *)
(*                                                                          *)
(* A module acquires something while it is constructed (defer) and its      *)
(* value; what these are is left out.  Cleanups are awaited one by one, so  *)
(* other calls come in between.  GatewayLifecycle models who calls this, and *)
(* keeps of the modules only the adapter that is replaced.                  *)
(***************************************************************************)
EXTENDS Naturals, Sequences, SequencesExt

CONSTANT MaxSwaps   \* bound: replacements

\* The gateway's definitions, as they are listed.
Declared == <<"audit", "circuit", "ledger", "writeLocks", "taskMonitor", "memoryContext",
              "dispatch", "lsp", "executor">>
DependsOn == [m \in Range(Declared) |->
    CASE m \in {"circuit", "ledger"} -> <<"audit">>
      [] m \in {"writeLocks", "taskMonitor", "memoryContext"} -> <<"ledger">>
      [] m = "executor" -> <<"audit", "circuit", "ledger", "writeLocks", "taskMonitor", "memoryContext">>
      [] OTHER -> <<>>]
Replaceable == {"dispatch", "lsp"}

\* orderDefinitions(): dependencies first.
Visit[ordered \in Seq(STRING), m \in Range(Declared)] ==
    IF m \in Range(ordered) THEN ordered
    ELSE Append(FoldLeft(LAMBDA before, d : Visit[before, d], ordered, DependsOn[m]), m)
Order == FoldLeft(LAMBDA before, m : Visit[before, m], <<>>, Declared)

VARIABLES
    mstate,     \* starting, ready, replacing, failed, disposing, disposed
    cleanups,   \* per module and for the candidate: what its record still has to clean up
    held,       \* what was acquired and is not released
    swap,       \* replacement: [at: none, rolling-back, retiring, discarding, of, count]
    ending,     \* disposal, or rollback of a start: none, waiting, disposing, rolling-back, done
    running,    \* the cleanup that each of the two waits for, or none
    faulty      \* which of the two have seen a cleanup fail

mvars == <<mstate, cleanups, held, swap, ending, running, faulty>>

Nothing == [of |-> "", gen |-> 0, what |-> ""]
Acquired(m, gen) ==
    << [of |-> m, gen |-> gen, what |-> "deferred"], [of |-> m, gen |-> gen, what |-> "value"] >>
Records == Range(Order) \cup {"candidate"}

ModulesInit ==
    /\ mstate = "starting" /\ held = {} /\ ending = "none" /\ faulty = {}
    /\ cleanups = [s \in Records |-> <<>>] /\ swap = [at |-> "none", of |-> "", count |-> 0]
    /\ running = [j \in {"swap", "end"} |-> Nothing]

\* construct() of the first n modules, and of the next one up to an error.
Constructed(n, got) == [s \in Records |->
    IF \E i \in 1..n : Order[i] = s THEN Acquired(s, 1)
    ELSE IF n < Len(Order) /\ s = Order[n + 1] THEN SubSeq(Acquired(s, 1), 1, got) ELSE <<>>]

HeldBy(c) == UNION {Range(c[s]) : s \in Records}

\* createModuleLifecycle(): the rollback of a start that fails goes on by itself.
Construct(n, got) ==
    /\ mstate = "starting"
    /\ cleanups' = Constructed(n, got) /\ held' = HeldBy(cleanups')
    /\ IF n = Len(Order) THEN mstate' = "ready" /\ UNCHANGED ending
       ELSE mstate' = "failed" /\ ending' = "rolling-back"
    /\ UNCHANGED <<swap, running, faulty>>

(************************ disposeRecords() **********************************)

\* The records it goes through, last to first.
RecordsOf(j) ==
    IF j = "end" THEN Order
    ELSE IF swap.at = "retiring" THEN <<swap.of>> ELSE <<"candidate">>

Left(j) == SelectSeq(RecordsOf(j), LAMBDA s : cleanups[s] # <<>>)

Active(j) == IF j = "end" THEN ending \in {"disposing", "rolling-back"} ELSE swap.at # "none"

StartCleanup(j) ==
    /\ Active(j) /\ running[j] = Nothing /\ Left(j) # <<>>
    /\ LET s == Last(Left(j)) IN
       /\ running' = [running EXCEPT ![j] = Last(cleanups[s])]
       /\ cleanups' = [cleanups EXCEPT ![s] = Front(@)]
    /\ UNCHANGED <<mstate, held, swap, ending, faulty>>

\* The error of one cleanup does not keep the others from being run.
CleanedUp(j, ok) ==
    /\ running[j] # Nothing
    /\ held' = held \ {running[j]} /\ running' = [running EXCEPT ![j] = Nothing]
    /\ faulty' = IF ok THEN faulty ELSE faulty \cup {j}
    /\ UNCHANGED <<mstate, cleanups, swap, ending>>

Through(j) == Active(j) /\ running[j] = Nothing /\ Left(j) = <<>>

(**************************** replace() ************************************)

\* Pinned: modules that are not replaceable or that another one depends on.
Replacing(m, got) ==
    /\ mstate = "ready" /\ ending = "none" /\ swap.count < MaxSwaps
    /\ m \in Replaceable /\ \A d \in Range(Order) : m \notin Range(DependsOn[d])
    /\ cleanups' = [cleanups EXCEPT !["candidate"] = SubSeq(Acquired(m, swap.count + 2), 1, got)]
    /\ held' = held \cup Range(cleanups'["candidate"])
    /\ mstate' = "replacing" /\ faulty' = faulty \ {"swap"}
    /\ swap' \in {[at |-> at, of |-> m, count |-> swap.count + 1] :
                     at \in IF got = 2 THEN {"retiring", "rolling-back"} ELSE {"rolling-back"}}
    /\ UNCHANGED <<ending, running>>

Settled(state) == mstate' = state /\ swap' = [swap EXCEPT !.at = "none"]

Replaced ==
    /\ Through("swap")
    /\ \/ swap.at = "rolling-back" /\ Settled(IF "swap" \in faulty THEN "failed" ELSE "ready") /\ UNCHANGED cleanups
       \/ /\ swap.at = "retiring" /\ "swap" \notin faulty /\ Settled("ready")
          /\ cleanups' = [cleanups EXCEPT ![swap.of] = cleanups["candidate"], !["candidate"] = <<>>]
       \/ /\ swap.at = "retiring" /\ "swap" \in faulty
          /\ mstate' = "failed" /\ swap' = [swap EXCEPT !.at = "discarding"] /\ UNCHANGED cleanups
       \/ swap.at = "discarding" /\ Settled("failed") /\ UNCHANGED cleanups
    /\ UNCHANGED <<held, ending, running, faulty>>

(**************************** dispose() ************************************)

\* Asked by the shutdown, or when the first record of the audit log fails; asked
\* again, the first disposal is joined.
DisposeAsked ==
    /\ mstate # "starting" /\ ending = "none" /\ ending' = "waiting"
    /\ UNCHANGED <<mstate, cleanups, held, swap, running, faulty>>

\* Mutant: the replacement under way is not awaited.
DisposeAtOnce ==
    /\ ending = "waiting"
    /\ ending' = "disposing" /\ mstate' = "disposing"
    /\ UNCHANGED <<cleanups, held, swap, running, faulty>>

DisposeStarts ==
    /\ ending = "waiting" /\ swap.at = "none"
    /\ ending' = "disposing" /\ mstate' = "disposing"
    /\ UNCHANGED <<cleanups, held, swap, running, faulty>>

Ended ==
    /\ Through("end") /\ ending' = "done"
    /\ mstate' = IF ending = "rolling-back" \/ "end" \in faulty THEN "failed" ELSE "disposed"
    /\ UNCHANGED <<cleanups, held, swap, running, faulty>>

ModulesNext ==
    \/ \E n \in 0..Len(Order), got \in 0..2 : (n = Len(Order) => got = 0) /\ Construct(n, got)
    \/ \E m \in Replaceable, got \in 0..2 : Replacing(m, got)
    \/ Replaced \/ DisposeAsked \/ DisposeStarts \/ Ended
    \/ \E j \in {"swap", "end"} : StartCleanup(j) \/ \E ok \in BOOLEAN : CleanedUp(j, ok)

(******************************** properties *******************************)

\* Whatever fails in a start, a replacement or a cleanup, and whenever disposal is
\* asked for: nothing is cleaned up under a module that depends on it and still
\* holds something, what no module of the gateway answers for any more is not
\* left behind, and in the end nothing is.
ModulesCleaned ==
    /\ \A j \in {"swap", "end"}, e \in held :
          running[j] # Nothing => running[j].of \notin Range(DependsOn[e.of])
    /\ swap.at = "none" /\ ending = "none" =>
          /\ held = UNION {Range(cleanups[s]) : s \in Range(Order)}
          /\ mstate = "ready" => \A m \in Range(Order) : Len(cleanups[m]) = 2
    /\ ending = "done" => held = {}
==============================================================================
