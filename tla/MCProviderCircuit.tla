------------------------- MODULE MCProviderCircuit -------------------------
(***************************************************************************)
(* Two tasks and a probe of one route for TLC.                             *)
(***************************************************************************)
EXTENDS ProviderCircuit

CONSTANTS t1, t2, p1
=============================================================================
