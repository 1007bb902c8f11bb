------------------------------ MODULE CodeGraph ------------------------------
(***************************************************************************)
(* scripts/code-graph.mjs: an index of the code of a workspace, kept in a   *)
(* file.  The host refreshes it under a lock file while people edit the     *)
(* sources; queries read it without a lock and say whether it is stale.     *)
(*                                                                          *)
(* A source is the number of its last edit, so no edit brings back an old   *)
(* text, and 0 before it is created; none is deleted.  What the parser      *)
(* finds in a text depends on its version.  Parsing, limits on sizes and    *)
(* failing file operations are the choice to give up at any point.          *)
(***************************************************************************)
EXTENDS Naturals, Sequences, SequencesExt

CONSTANTS
    Refreshers,
    ParserOf,       \* [Refreshers \cup {"query"} -> PARSER_VERSION of the program]
    Paths,          \* sequence of paths, in the order in which they are read
    GraphPlans,     \* bounds: records [edits, deaths, restores, asked: refreshers that run,
                    \* queries: whether there are any]
    Nodes           \* files of the graphs that are searched

VARIABLES
    bounds,     \* what is left of the plan
    source,     \* [paths -> number of the last edit, or 0]
    pictures,   \* history: the states the sources have been in
    index,      \* index.json: [parser, files: [paths -> [text, by]]]
    refreshLock,    \* who made refresh.lock, or "none"
    refresher,  \* [at, loaded, expected, first, second]: index read, revision asked for or
                \*  none, texts read first and again
    query,      \* [at, loaded, then: sources when the index was read, seen, stale]
    imports     \* pairs <<from, to>> of files, in an index

graphVars == <<bounds, source, pictures, index, refreshLock, refresher, query, imports>>

AllPaths == Range(Paths)
NoTexts  == [p \in {} |-> 0]
NoIndex  == [parser |-> 0, files |-> NoTexts]
IdleRefresher == [at |-> "idle", loaded |-> NoIndex, expected |-> <<>>, first |-> <<>>, second |-> <<>>]
IdleQuery == [at |-> "idle", loaded |-> NoIndex, then |-> <<>>, seen |-> <<>>, stale |-> TRUE]

GraphInit ==
    /\ bounds \in GraphPlans
    /\ source = [p \in AllPaths |-> IF p = Head(Paths) THEN 1 ELSE 0] /\ pictures = {source}
    /\ index = NoIndex /\ refreshLock = "none"
    /\ refresher = [r \in Refreshers |-> IdleRefresher] /\ query = IdleQuery

(******************************** reading **********************************)

\* snapshot() lists the files and reads one after the other; one that is not
\* there is left out.
Snapshot(seen) == [p \in {Paths[i] : i \in {j \in DOMAIN seen : seen[j] # 0}} |->
                      seen[CHOOSE i \in DOMAIN seen : Paths[i] = p]]
ReadNext(seen) == Append(seen, source[Paths[Len(seen) + 1]])
Complete(seen) == Len(seen) = Len(Paths)

Inventory(files) == [p \in DOMAIN files |-> files[p].text]

\* difference(): files that were added, changed or deleted.
Differs(files, current) == Inventory(files) # current

(******************************* refreshing ********************************)

Turn(r, s) == refresher' = [refresher EXCEPT ![r] = s]
At(r, here) == refresher[r].at = here

\* Somebody asks for a refresh, perhaps of the revision seen just now.
Ask(r, bound) ==
    /\ At(r, "idle") /\ r \in bounds.asked
    /\ Turn(r, [IdleRefresher EXCEPT !.at = "asked", !.expected = IF bound THEN <<index>> ELSE <<>>])
    /\ UNCHANGED <<bounds, source, pictures, index, refreshLock, query>>

\* open(LOCK, 'wx').
TakeGraphLock(r) ==
    /\ At(r, "asked")
    /\ IF refreshLock = "none"
       THEN refreshLock' = r /\ Turn(r, [refresher[r] EXCEPT !.at = "loading"])
       ELSE Turn(r, IdleRefresher) /\ UNCHANGED refreshLock
    /\ UNCHANGED <<bounds, source, pictures, index, query>>

Load(r) ==
    /\ At(r, "loading")
    /\ Turn(r, IF refresher[r].expected \in {<<>>, <<index>>}
               THEN [refresher[r] EXCEPT !.at = "reading", !.loaded = index]
               ELSE [refresher[r] EXCEPT !.at = "leaving"])
    /\ UNCHANGED <<bounds, source, pictures, index, refreshLock, query>>

Collect(r) ==
    /\ At(r, "reading") /\ ~Complete(refresher[r].first)
    /\ Turn(r, [refresher[r] EXCEPT !.first = ReadNext(@)])
    /\ UNCHANGED <<bounds, source, pictures, index, refreshLock, query>>

\* The texts are parsed; then all are read again.
CollectAgain(r) ==
    /\ At(r, "reading") /\ Complete(refresher[r].first) /\ ~Complete(refresher[r].second)
    /\ Turn(r, [refresher[r] EXCEPT !.second = ReadNext(@)])
    /\ UNCHANGED <<bounds, source, pictures, index, refreshLock, query>>

\* What the same parser found in the same text is taken over.
Reusable(r, p, text) ==
    LET old == refresher[r].loaded
    IN  old.parser = ParserOf[r] /\ p \in DOMAIN old.files /\ old.files[p].text = text

Built(r) ==
    LET texts == Snapshot(refresher[r].first)
    IN  [parser |-> ParserOf[r],
         files  |-> [p \in DOMAIN texts |-> IF Reusable(r, p, texts[p]) THEN refresher[r].loaded.files[p]
                                            ELSE [text |-> texts[p], by |-> ParserOf[r]]]]

\* Mutant: the second reading is not compared.
UnchangedSoFar(r) == refresher[r].loaded = index

UnchangedMeanwhile(r) == refresher[r].first = refresher[r].second /\ refresher[r].loaded = index

\* An index that is there already is not written again.
Check(r) ==
    /\ At(r, "reading") /\ Complete(refresher[r].second)
    /\ Turn(r, [refresher[r] EXCEPT !.at = IF UnchangedMeanwhile(r) /\ Built(r) # index THEN "publishing"
                                           ELSE "leaving"])
    /\ UNCHANGED <<bounds, source, pictures, index, refreshLock, query>>

\* A temporary file is written; the index is looked at once more and replaced.
Publish(r) ==
    /\ At(r, "publishing")
    /\ index' = IF refresher[r].loaded = index THEN Built(r) ELSE index
    /\ Turn(r, [refresher[r] EXCEPT !.at = "leaving"])
    /\ UNCHANGED <<bounds, source, pictures, refreshLock, query>>

GiveUpRefresh(r) ==
    /\ refresher[r].at \in {"loading", "reading", "publishing"}
    /\ Turn(r, [refresher[r] EXCEPT !.at = "leaving"])
    /\ UNCHANGED <<bounds, source, pictures, index, refreshLock, query>>

\* The finally block.
LeaveGraph(r) ==
    /\ At(r, "leaving") /\ refreshLock' = "none" /\ Turn(r, IdleRefresher)
    /\ UNCHANGED <<bounds, source, pictures, index, query>>

(******************************** queries **********************************)

QueryLoads ==
    /\ query.at = "idle" /\ bounds.queries
    /\ query' = [IdleQuery EXCEPT !.at = "reading", !.loaded = index, !.then = source]
    /\ UNCHANGED <<bounds, source, pictures, index, refreshLock, refresher>>

\* The files are read and compared; the answer says whether the index is stale.
Answer ==
    /\ query.at = "reading"
    /\ LET seen == ReadNext(query.seen) IN
       query' = IF ~Complete(seen) THEN [query EXCEPT !.seen = seen]
                ELSE [query EXCEPT !.at = "answered", !.seen = seen,
                         !.stale = \/ query.loaded = NoIndex \/ query.loaded.parser # ParserOf["query"]
                                   \/ Differs(query.loaded.files, Snapshot(seen))]
    /\ UNCHANGED <<bounds, source, pictures, index, refreshLock, refresher>>

AnswerRead ==
    /\ query.at = "answered" /\ query' = IdleQuery
    /\ UNCHANGED <<bounds, source, pictures, index, refreshLock, refresher>>

(******************************* others ************************************)

Spend(what) == bounds[what] > 0 /\ bounds' = [bounds EXCEPT ![what] = @ - 1]

EditSource(p) ==
    /\ Spend("edits")
    /\ source' = [source EXCEPT ![p] = bounds.edits + 1] /\ pictures' = pictures \cup {source'}
    /\ UNCHANGED <<index, refreshLock, refresher, query>>

\* Somebody restores or removes the index.
RestoreIndex ==
    /\ Spend("restores") /\ index' = NoIndex
    /\ UNCHANGED <<source, pictures, refreshLock, refresher, query>>

RefresherDies(r) ==
    /\ refresher[r].at \notin {"idle", "dead"} /\ Spend("deaths")
    /\ Turn(r, [IdleRefresher EXCEPT !.at = "dead"])
    /\ UNCHANGED <<source, pictures, index, refreshLock, query>>

\* A person makes sure that the owner is dead before removing its lock.
RemoveLeftover ==
    /\ \E r \in Refreshers : refreshLock = r /\ At(r, "dead")
    /\ refreshLock' = "none"
    /\ UNCHANGED <<bounds, source, pictures, index, refresher, query>>

GraphNext ==
    /\ \/ \E r \in Refreshers :
             \/ TakeGraphLock(r) \/ Load(r) \/ Collect(r) \/ CollectAgain(r) \/ Check(r) \/ Publish(r)
             \/ GiveUpRefresh(r) \/ LeaveGraph(r) \/ RefresherDies(r)
             \/ \E bound \in BOOLEAN : Ask(r, bound)
       \/ QueryLoads \/ Answer \/ AnswerRead \/ RestoreIndex \/ RemoveLeftover
       \/ \E p \in AllPaths : EditSource(p)
    /\ UNCHANGED imports

(**************************** who imports whom *****************************)

Importers(files) == {e[1] : e \in {i \in imports : i[2] \in files}}

\* affectedFiles(): level by level from the changed files.
AffectedFiles(changed, depth) ==
    LET Level(s, k) == LET next == Importers(s.frontier) \ s.files
                       IN  [files |-> s.files \cup next, frontier |-> next]
        end == FoldLeft(Level, [files |-> changed, frontier |-> changed], [k \in 1..depth |-> k])
    IN  [files |-> end.files, truncated |-> Importers(end.frontier) \ end.files # {}]

\* codeGraph(), action impact: a queue of files with their distance.
Impact(seed, depth) ==
    LET Process(s, i) ==
            IF i > Len(s.queue) THEN s
            ELSE LET next == Importers({s.queue[i].path}) \ s.visited
                 IN  IF s.queue[i].distance >= depth
                     THEN [s EXCEPT !.truncated = @ \/ next # {}]
                     ELSE [s EXCEPT !.visited = @ \cup next,
                              !.queue = @ \o [j \in 1..Len(SetToSeq(next)) |->
                                  [path |-> SetToSeq(next)[j], distance |-> s.queue[i].distance + 1]]]
    IN  FoldLeft(Process, [queue |-> <<[path |-> seed, distance |-> 0]>>, visited |-> {seed}, truncated |-> FALSE],
                 [i \in 1..Len(SetToSeq(Nodes)) |-> i])

\* Reference: the files at most k imports away from some of these.
Reach(files, k) ==
    LET f[n \in 0..k] == IF n = 0 THEN files ELSE f[n - 1] \cup Importers(f[n - 1]) IN f[k]

(******************************** properties *******************************)

\* The index is a picture of the sources as they were at one moment, although
\* they are read one by one while they change, and what it says of a text was
\* found by the parser it names.
IndexIsPicture == index # NoIndex =>
    /\ [p \in AllPaths |-> IF p \in DOMAIN index.files THEN index.files[p].text ELSE 0] \in pictures
    /\ \A p \in DOMAIN index.files : index.files[p].by = index.parser

\* A query that does not call the index stale has read the index of the sources
\* as they were then, all at once, although nobody held them still.
FreshIsCurrent == query.at = "answered" /\ ~query.stale =>
    [p \in AllPaths |-> IF p \in DOMAIN query.loaded.files THEN query.loaded.files[p].text ELSE 0] = query.then

\* Both ways of following imports find what can be reached within the depth, at
\* its shortest distance, and say truncated exactly when there is more.
ImpactIsComplete == \A depth \in 1..3 :
    /\ \A changed \in SUBSET Nodes : AffectedFiles(changed, depth) =
          [files |-> Reach(changed, depth), truncated |-> Reach(changed, depth + 1) # Reach(changed, depth)]
    /\ \A seed \in Nodes : LET i == Impact(seed, depth) IN
          /\ i.visited = Reach({seed}, depth) /\ i.truncated = (Reach({seed}, depth + 1) # Reach({seed}, depth))
          /\ \A n \in DOMAIN i.queue : i.queue[n].distance > 0 =>
                i.queue[n].path \notin Reach({seed}, i.queue[n].distance - 1)

\* An index is replaced only by the refresh that started from it, so of two
\* refreshes none undoes the other, and one that named a revision replaces no
\* other.
RefreshesChain == [][\A r \in Refreshers : At(r, "publishing") /\ index' # index /\ refresher'[r].at = "leaving" =>
    refresher[r].loaded = index /\ refresher[r].expected \in {<<>>, <<index>>}]_graphVars
==============================================================================
