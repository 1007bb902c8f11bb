----------------------------- MODULE MCHostFiles -----------------------------
(***************************************************************************)
(* For TLC.  Four calls for locks: c1 locks the tree src, c2 a file below   *)
(* it, c3 the tree of a subdirectory and a disjoint file, c4 the tree       *)
(* tests.  Two programs that refresh the index, one with an older parser.   *)
(***************************************************************************)
EXTENDS HostFiles

CONSTANTS c1, c2, c3, c4, p1, p2, p3

Tree(path) == [path |-> path, tree |-> TRUE]
File(path) == [path |-> path, tree |-> FALSE]

TwoProcesses == [c \in Calls |-> IF c \in {c1, c4} THEN p1 ELSE p2]
ThreeProcesses == [c \in Calls |-> CASE c = c1 -> p1 [] c = c2 -> p2 [] OTHER -> p3]
MCScopes == [c \in Calls |->
  CASE c = c1 -> {Tree(<<"src">>)}
    [] c = c2 -> {File(<<"src", "file">>)}
    [] c = c3 -> {Tree(<<"src", "lib">>), File(<<"readme">>)}
    [] OTHER -> {Tree(<<"tests">>)}]

MCParserOf == [r \in {"old", "new", "query"} |-> IF r = "old" THEN 1 ELSE 2]
MCPaths == <<"f", "g">>
Plan(edits, deaths, restores, asked, queries) ==
    [edits |-> edits, deaths |-> deaths, restores |-> restores, asked |-> asked, queries |-> queries]

\* Two refreshes, edits and a crash; a query during edits and a refresh.
MCGraphPlans == {Plan(2, 1, 1, {"old", "new"}, FALSE), Plan(3, 0, 1, {"new"}, TRUE),
                 Plan(1, 0, 0, {"old", "new"}, TRUE)}
==============================================================================
