----------------------------- MODULE ReviewerCli -----------------------------
(***************************************************************************)
(* scripts/claude-reviewer-cli.mjs: one review by the command-line client of *)
(* Claude.  Three processes, each in a job, share the time of the review and *)
(* an empty folder that is removed at the end; onModelStart() writes to the  *)
(* ledger of reviews before the model is started.                            *)
(*                                                                           *)
(* What the client answers is left out but for whether it will do.           *)
(***************************************************************************)
EXTENDS HostProcess

VARIABLES
    review,    \* [at, aborted, marked: the ledger was told, started: what the result says of
               \*  the model, ran: a process was started for the model, result]
    folder     \* "none", "made", "removed" or "kept"

rvars == <<review, folder>>

ReviewInit ==
    /\ review = [at |-> "idle", aborted |-> FALSE, marked |-> FALSE, started |-> FALSE, ran |-> FALSE, result |-> "none"]
    /\ folder = "none"

Good == child.state = "settled" /\ child.why = "none" /\ child.code = 0

\* A folder cannot be removed while a process is in it, and perhaps not then; a
\* review that has not removed it at the first attempt is failed.
EndReview(result) ==
    /\ folder' \in IF folder = "none" THEN {"none"} ELSE IF child.root THEN {"kept"} ELSE {"removed", "kept"}
    /\ \E told \in IF folder' = "removed" THEN {result, "failed"} ELSE {"failed"}:
         review' = [review EXCEPT !.at = "over", !.result = told]
    /\ Taken

ReviewAsked ==
    /\ review.at = "idle"
    /\ IF review.aborted THEN EndReview("failed")
       ELSE \/ EndReview("failed")
            \/ /\ folder' = "made" /\ review' = [review EXCEPT !.at = "help"]
               /\ Launch("help", "job", FALSE)

\* The client has the flags, the folder is still empty, and there is time left.
HelpGiven ==
    /\ review.at = "help" /\ child.state = "settled"
    /\ \/ EndReview("failed")
       \/ /\ Good /\ review' = [review EXCEPT !.at = "auth"]
          /\ Launch("auth", "job", review.aborted) /\ UNCHANGED folder

\* The client is logged in; the ledger is told before the model is started, or cannot be.
LoginChecked ==
    /\ review.at = "auth" /\ child.state = "settled"
    /\ \/ EndReview("failed")
       \/ /\ Good /\ ~review.aborted
          /\ review' = [review EXCEPT !.at = "marked", !.marked = TRUE]
          /\ UNCHANGED <<folder, pvars>>

StartModel ==
    /\ review.at = "marked"
    /\ IF review.aborted THEN EndReview("failed")
       ELSE /\ Launch("model", "job", FALSE) /\ UNCHANGED folder
            /\ review' = [review EXCEPT !.at = "model", !.started = TRUE, !.ran = child'.state = "running"]

ModelSpoke ==
    /\ review.at = "model" /\ child.state = "settled"
    /\ \E result \in IF Good THEN {"completed", "failed"} ELSE {"failed"}: EndReview(result)

AbortReview ==
    /\ review.at # "over" /\ ~review.aborted
    /\ review' = [review EXCEPT !.aborted = TRUE]
    /\ IF child.state = "running" /\ child.why = "none" THEN Stop("cancelled") ELSE UNCHANGED pvars
    /\ UNCHANGED folder

ReviewNext == ReviewAsked \/ HelpGiven \/ LoginChecked \/ StartModel \/ ModelSpoke \/ AbortReview

(******************************** properties *******************************)

\* A review that says no model was started has started none, the ledger knew of
\* every one that was, and one that is completed has left no folder.
ReviewTold ==
    /\ review.ran => review.started /\ review.marked
    /\ review.result = "completed" => review.ran /\ folder = "removed"
==============================================================================
