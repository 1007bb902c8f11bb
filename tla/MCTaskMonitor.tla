--------------------------- MODULE MCTaskMonitor ---------------------------
(***************************************************************************)
(* A small monitor for TLC: a protected request (r1) that is submitted,    *)
(* and one (r3) that two calls of dispatch_subagent carry.                 *)
(***************************************************************************)
EXTENDS TaskMonitor

CONSTANTS r1, r3, c1, c2, w1, w2

MCRequestOf     == [c \in Calls |-> r3]
=============================================================================
