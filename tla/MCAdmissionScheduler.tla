----------------------- MODULE MCAdmissionScheduler -----------------------
(***************************************************************************)
(* Four items for TLC. a and b share provider p, which admits one at a     *)
(* time; c and d share provider q, which admits two. a and d lock the same *)
(* scope and c has a dependency gate. Memory fits a with only one other    *)
(* item; the queue is one place short of the items.                        *)
(***************************************************************************)
EXTENDS AdmissionScheduler

CONSTANTS a, b, c, d, p, q, s

MCProviderOf == [i \in Items |-> IF i \in {a, b} THEN p ELSE q]
MCMemoryOf == [i \in Items |-> IF i = a THEN 2 ELSE 1]
MCPriorityOf == [i \in Items |-> IF i = a THEN 4 ELSE 5]
MCGateOf == [i \in Items |-> i = c]
MCScopeOf == [i \in Items |-> IF i \in {a, d} THEN s ELSE None]
MCProviderCap == [x \in Providers |-> IF x = p THEN 1 ELSE 2]
=============================================================================
