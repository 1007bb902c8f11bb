-------------------------- MODULE MCRequestLedger --------------------------
(***************************************************************************)
(* A small ledger for TLC: two processes sharing a directory. The first is *)
(* called twice with one input (a client retry) and once with another for  *)
(* the same identifier (c1, c2, c3), the second once with the first input  *)
(* (c4). Another call of the first process uses another identifier (c5).   *)
(***************************************************************************)
EXTENDS RequestLedger, TLC

CONSTANTS g1, g2, r1, r2, d1, d2, c1, c2, c3, c4, c5

MCGatewayOf == [c \in Calls |-> IF c = c4 THEN g2 ELSE g1]
MCRequestOf == [c \in Calls |-> IF c = c5 THEN r2 ELSE r1]
MCDigestOf  == [c \in Calls |-> IF c = c3 THEN d2 ELSE d1]
=============================================================================
