----------------------------- MODULE AtMostOnce -----------------------------
(***************************************************************************)
(* What the request ledger promises about one durable request identifier, *)
(* with neither processes nor files: an identifier is used at most once;   *)
(* when its execution is interrupted it stays in doubt for good; only a    *)
(* finished one may be forgotten (retention) and used again.               *)
(***************************************************************************)
CONSTANT Requests

VARIABLE status

TypeOK == status \in [Requests -> {"unused", "busy", "done", "doubt"}]

Init == status = [r \in Requests |-> "unused"]

Move(r, from, to) ==
  /\ status[r] = from
  /\ status' = [status EXCEPT ![r] = to]

Begin(r)    == Move(r, "unused", "busy")
Complete(r) == Move(r, "busy", "done")
Interrupt(S) ==  \* one crash may interrupt several requests at once
  /\ S # {}
  /\ \A r \in S : status[r] = "busy"
  /\ status' = [r \in Requests |-> IF r \in S THEN "doubt" ELSE status[r]]
Forget(S) ==     \* one pruning pass may forget several requests
  /\ S # {}
  /\ \A r \in S : status[r] = "done"
  /\ status' = [r \in Requests |-> IF r \in S THEN "unused" ELSE status[r]]

Next ==
  \/ \E r \in Requests : Begin(r) \/ Complete(r)
  \/ \E S \in SUBSET Requests : Interrupt(S) \/ Forget(S)

Spec == Init /\ [][Next]_status

=============================================================================
