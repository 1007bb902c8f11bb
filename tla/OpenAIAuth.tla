----------------------------- MODULE OpenAIAuth -----------------------------
(***************************************************************************)
(* Renewal of the OpenAI credential of the host.  Each call of             *)
(* ensureOpenAIAuth() starts one helper process that runs                  *)
(* maintainOpenAIAuth(): under the lock of the helpers and the lock it     *)
(* shares with pi it looks at the credential in auth.json, notes its       *)
(* intent in a journal, sends the refresh token, which the server may      *)
(* rotate, and stores the answer.  Helpers are cancelled, killed and die   *)
(* anywhere; pi itself renews the credential or logs in under its lock,    *)
(* which it takes over from a helper that slept or died.                   *)
(*                                                                         *)
(* A credential stands for its refresh token, a number; 0 is the one the   *)
(* host starts with.                                                       *)
(***************************************************************************)
EXTENDS Naturals, FiniteSets

CONSTANTS
    Calls,          \* calls of ensureOpenAIAuth(), one helper each
    RefreshNow,     \* those of them that ask for a refresh in any case
    Nobody, Pi,     \* of a lock: free, or taken by pi
    MaxTokens       \* bound: tokens the server issues

ASSUME CallsAssumption ==
    /\ IsFiniteSet(Calls) /\ RefreshNow \subseteq Calls
    /\ Nobody \notin Calls /\ Pi \notin Calls /\ Nobody # Pi
    /\ MaxTokens \in Nat

VARIABLES
    auth,       \* auth.json: the token, and whether it is valid long enough
    journal,    \* openai-auth-renew.json
    renewLock,  \* openai-auth-renew.lock: its owner
    piLock,     \* the lock of auth.json: its holder
    helper,     \* per call, its process
    call,       \* per call, what the gateway sees of it
    pi,         \* what pi is doing with auth.json
    server,     \* the tokens the server accepts, and the last one it issued
    spent       \* history: tokens that helpers sent and that may have rotated

vars == <<auth, journal, renewLock, piLock, helper, call, pi, server, spent>>
files == <<auth, journal>>
others == <<pi, server, spent>>

Tokens == 0..MaxTokens
Running == {"lock", "piLock", "look", "intent", "asked", "got", "checked",
            "stored", "release", "unlock"}
Free == [state |-> "none", of |-> 0, relogin |-> FALSE, cooling |-> FALSE]
Gone(s, ok) == [at |-> s, of |-> 0, reply |-> 0, ok |-> ok, compromised |-> FALSE]
Off == Gone("off", FALSE)

Init ==
    /\ auth \in [tok : {0}, fresh : BOOLEAN]
    /\ journal = Free
    /\ renewLock = Nobody /\ piLock = Nobody
    /\ helper = [c \in Calls |-> Off]
    /\ call = [c \in Calls |-> "idle"]
    /\ pi = [at |-> "away", read |-> 0]
    /\ server = [accepts |-> {0}, issued |-> 0]
    /\ spent = {}

At(c, s) == helper[c].at = s
Go(c, s) == helper' = [helper EXCEPT ![c].at = s]
\* What maintainOpenAIAuth() returns or throws from its body goes through two
\* finally blocks; then the process ends.
Leave(c, ok) == helper' = [helper EXCEPT ![c].at = "release", ![c].ok = ok]
Ends(c) == helper' = [helper EXCEPT ![c] = Gone("exit", helper[c].ok)]
Dies(c) == helper' = [helper EXCEPT ![c] = Gone("dead", FALSE)]
Journal(state, tok, relogin, cooling) ==
    journal' = [state |-> state, of |-> tok, relogin |-> relogin, cooling |-> cooling]

----------------------------------------------------------------------------
(* The two locks.  Both are tried until their deadline; a helper gives up  *)
(* then, when it is cancelled, or when the lock cannot be made.            *)

TakeRenewLock(c) ==
    /\ At(c, "lock")
    /\ \/ renewLock = Nobody /\ renewLock' = c /\ Go(c, "piLock")
       \/ UNCHANGED renewLock /\ Ends(c)
    /\ UNCHANGED <<files, piLock, call, others>>

\* The holder's lock counts as stale once it has not been touched for half a
\* minute: because its process is gone, or slept while it waited.
Stealable == piLock \in Calls /\ (At(piLock, "dead") \/ At(piLock, "asked"))

TakePiLock(c) ==
    /\ At(c, "piLock")
    /\ \/ (piLock = Nobody \/ Stealable) /\ piLock' = c /\ Go(c, "look")
       \/ UNCHANGED piLock /\ Go(c, "unlock")
    /\ UNCHANGED <<files, renewLock, call, others>>

\* The timer of the lock finds that another process has taken it.
NoticeTakeover(c) ==
    /\ At(c, "asked") /\ piLock # c /\ ~helper[c].compromised
    /\ helper' = [helper EXCEPT ![c].compromised = TRUE]
    /\ UNCHANGED <<files, renewLock, piLock, call, others>>

\* Releasing removes the lock of whoever has it, unless the takeover was noticed.
ReleasePiLock(c) ==
    /\ At(c, "release")
    /\ piLock' = IF helper[c].compromised THEN piLock ELSE Nobody
    /\ Go(c, "unlock")
    /\ UNCHANGED <<files, renewLock, call, others>>

ReleaseRenewLock(c) ==
    /\ At(c, "unlock")
    /\ renewLock' = IF renewLock = c THEN Nobody ELSE renewLock
    /\ Ends(c)
    /\ UNCHANGED <<files, piLock, call, others>>

----------------------------------------------------------------------------
(* The body under both locks.                                              *)

\* Why the journal forbids to renew the credential that is in the file.
Barred(c) ==
    /\ journal.state # "none" /\ journal.of = auth.tok
    /\ \/ journal.state \in {"pending", "uncertain"}
       \/ journal.relogin
       \/ journal.cooling

\* Reads both files, and writes the intent before anything is sent.
Look(c) ==
    /\ At(c, "look")
    /\ \/ Barred(c) /\ Leave(c, FALSE) /\ UNCHANGED journal
       \/ /\ ~Barred(c) /\ auth.fresh /\ c \notin RefreshNow
          /\ Leave(c, TRUE) /\ UNCHANGED journal
       \/ /\ ~Barred(c) /\ (~auth.fresh \/ c \in RefreshNow)
          /\ \/ Leave(c, FALSE) /\ UNCHANGED journal
             \/ /\ Journal("pending", auth.tok, FALSE, FALSE)
                /\ helper' = [helper EXCEPT ![c].at = "intent", ![c].of = auth.tok]
    /\ UNCHANGED <<auth, renewLock, piLock, call, others>>

Send(c) ==
    /\ At(c, "intent")
    /\ spent' = spent \cup {helper[c].of}
    /\ Go(c, "asked")
    /\ UNCHANGED <<files, renewLock, piLock, call, pi, server>>

\* What an error of the request tells: a rejected credential, a rate limit, or
\* nothing at all (refreshFailure).  The first two prove that the token was not
\* rotated.
Refusals == {"relogin", "rateLimit"}
Codes == Refusals \cup {"uncertain"}

\* Mutant: a server error counts as a refusal and is tried again later.
FailsForNow(c, code) ==
    /\ At(c, "asked")
    /\ code \in Refusals => helper[c].reply = 0
    /\ Journal("failed", helper[c].of, code = "relogin", TRUE)
    /\ spent' = IF code \in Refusals THEN spent \ {helper[c].of} ELSE spent
    /\ Leave(c, FALSE)
    /\ UNCHANGED <<auth, renewLock, piLock, call, pi, server>>

\* The request ends without a renewed credential.
Fails(c, code) ==
    /\ At(c, "asked")
    /\ code \in Refusals => helper[c].reply = 0
    /\ \/ Journal(IF code \in Refusals THEN "failed" ELSE code,
                  helper[c].of, code = "relogin", TRUE)
       \/ UNCHANGED journal        \* this write may fail too
    /\ spent' = IF code \in Refusals THEN spent \ {helper[c].of} ELSE spent
    /\ Leave(c, FALSE)
    /\ UNCHANGED <<auth, renewLock, piLock, call, pi, server>>

Receive(c) ==
    /\ At(c, "asked") /\ helper[c].reply # 0
    /\ Go(c, "got")
    /\ UNCHANGED <<files, renewLock, piLock, call, others>>

\* The renewed credential is stored even if the call was cancelled meanwhile.
CheckConflict(c) ==
    /\ At(c, "got")
    /\ \/ Leave(c, FALSE)              \* malformed, or the write fails
       \/ helper[c].compromised /\ Leave(c, FALSE)
       \/ ~helper[c].compromised /\ auth.tok # helper[c].of /\ Leave(c, FALSE)
       \/ ~helper[c].compromised /\ auth.tok = helper[c].of /\ Go(c, "checked")
    /\ UNCHANGED <<files, renewLock, piLock, call, others>>

Store(c) ==
    /\ At(c, "checked")
    /\ \E fresh \in BOOLEAN : auth' = [tok |-> helper[c].reply, fresh |-> fresh]
    /\ Go(c, "stored")
    /\ UNCHANGED <<journal, renewLock, piLock, call, others>>

RecordRenewal(c) ==
    /\ At(c, "stored")
    /\ \/ Leave(c, FALSE) /\ UNCHANGED journal
       \/ /\ auth.tok = helper[c].reply
          /\ IF auth.fresh
             THEN Journal("renewed", auth.tok, FALSE, FALSE) /\ Leave(c, TRUE)
             ELSE Journal("failed", auth.tok, FALSE, TRUE) /\ Leave(c, FALSE)
    /\ UNCHANGED <<auth, renewLock, piLock, call, others>>

CoolOver ==
    /\ journal.cooling
    /\ journal' = [journal EXCEPT !.cooling = FALSE]
    /\ UNCHANGED <<auth, renewLock, piLock, helper, call, others>>

----------------------------------------------------------------------------
(* The gateway: ensureOpenAIAuth().                                        *)

Ensure(c) ==
    /\ call[c] = "idle"
    /\ call' = [call EXCEPT ![c] = "running"]
    /\ Go(c, "lock")
    /\ UNCHANGED <<files, renewLock, piLock, others>>

\* Cancelled by its caller, or out of time: the helper is told to stop, which it
\* may notice at any of its waits, or too late.
Stop(c) ==
    /\ call[c] = "running"
    /\ call' = [call EXCEPT ![c] = "stopping"]
    /\ UNCHANGED <<files, renewLock, piLock, helper, others>>

\* Mutant: a helper that waits for the server is spared, for its answer's sake.
KillUnlessAsked(c) ==
    /\ call[c] = "stopping" /\ helper[c].at \in Running \ {"asked"}
    /\ Dies(c)
    /\ UNCHANGED <<files, renewLock, piLock, call, others>>

\* A quarter of a minute later it is killed.
Kill(c) ==
    /\ call[c] = "stopping" /\ helper[c].at \in Running
    /\ Dies(c)
    /\ UNCHANGED <<files, renewLock, piLock, call, others>>

\* The process has ended: the caller gets its answer, or why it was stopped.
Close(c) ==
    /\ call[c] \in {"running", "stopping"} /\ helper[c].at \in {"exit", "dead"}
    /\ call' = [call EXCEPT ![c] =
           IF call[c] = "running" /\ At(c, "exit") /\ helper[c].ok
           THEN "ok" ELSE "failed"]
    /\ UNCHANGED <<files, renewLock, piLock, helper, others>>

----------------------------------------------------------------------------
(* What is around: processes that die, time, pi, the server, a person.     *)

HelperDies(c) ==
    /\ helper[c].at \in Running
    /\ Dies(c)
    /\ UNCHANGED <<files, renewLock, piLock, call, others>>

\* The manual: a lock may be removed once its owner is known to be gone.
RemoveDeadLock ==
    /\ renewLock \in Calls /\ helper[renewLock].at = "dead"
    /\ renewLock' = Nobody
    /\ UNCHANGED <<files, piLock, helper, call, others>>

Expire ==
    /\ auth.fresh
    /\ auth' = [auth EXCEPT !.fresh = FALSE]
    /\ UNCHANGED <<journal, renewLock, piLock, helper, call, others>>

\* The server gives out a new token, and takes one back or, at a login, none.
Issues(old) ==
    /\ server.issued < MaxTokens
    /\ server' = [accepts |-> (server.accepts \ {old}) \cup {server.issued + 1},
                  issued |-> server.issued + 1]

Rotate(c) ==
    /\ At(c, "asked") /\ helper[c].reply = 0 /\ helper[c].of \in server.accepts
    /\ Issues(helper[c].of)
    /\ helper' = [helper EXCEPT ![c].reply = server.issued + 1]
    /\ UNCHANGED <<files, renewLock, piLock, call, pi, spent>>

PiTakesLock ==
    /\ pi.at = "away" /\ (piLock = Nobody \/ Stealable)
    /\ piLock' = Pi /\ pi' = [at |-> "inside", read |-> auth.tok]
    /\ UNCHANGED <<files, renewLock, helper, call, server, spent>>

\* Pi logs in, or renews the token it has read, or gives up.
PiLeaves ==
    /\ pi.at = "inside"
    /\ \/ /\ Issues(MaxTokens + 1) \/ (pi.read \in server.accepts /\ Issues(pi.read))
          /\ auth' = [tok |-> server.issued + 1, fresh |-> TRUE]
       \/ UNCHANGED <<server, auth>>
    /\ pi' = [at |-> "away", read |-> 0]
    /\ piLock' = IF piLock = Pi THEN Nobody ELSE piLock
    /\ UNCHANGED <<journal, renewLock, helper, call, spent>>

Next ==
    \/ CoolOver \/ RemoveDeadLock \/ Expire \/ PiTakesLock \/ PiLeaves
    \/ \E c \in Calls :
          \/ Ensure(c) \/ Stop(c) \/ Kill(c) \/ Close(c) \/ HelperDies(c)
          \/ TakeRenewLock(c) \/ TakePiLock(c) \/ NoticeTakeover(c)
          \/ ReleasePiLock(c) \/ ReleaseRenewLock(c)
          \/ Look(c) \/ Send(c) \/ Rotate(c) \/ Receive(c)
          \/ CheckConflict(c) \/ Store(c) \/ RecordRenewal(c)
          \/ \E code \in Codes : Fails(c, code)

\* Timers fire and the end of a process is seen; nothing is assumed of the
\* helpers, of pi, or of the server.
Fairness == \A c \in Calls : WF_vars(Stop(c) \/ Kill(c) \/ Close(c))

Spec == Init /\ [][Next]_vars
FairSpec == Spec /\ Fairness

----------------------------------------------------------------------------
Journals == [state : {"none", "pending", "uncertain", "failed", "renewed"},
             of : Tokens, relogin : BOOLEAN, cooling : BOOLEAN]
Helpers == [at : Running \cup {"off", "exit", "dead"}, of : Tokens, reply : Tokens,
            ok : BOOLEAN, compromised : BOOLEAN]

TypeOK ==
    /\ auth \in [tok : Tokens, fresh : BOOLEAN]
    /\ journal \in Journals
    /\ renewLock \in Calls \cup {Nobody} /\ piLock \in Calls \cup {Nobody, Pi}
    /\ helper \in [Calls -> Helpers]
    /\ call \in [Calls -> {"idle", "running", "stopping", "ok", "failed"}]
    /\ pi \in [at : {"away", "inside"}, read : Tokens]
    /\ server \in [accepts : SUBSET Tokens, issued : Tokens] /\ spent \in SUBSET Tokens

\* No helper sends a refresh token that another one has sent, unless the server
\* refused that one explicitly: not after a crash, a kill, a lost answer or a
\* failed write (maintainOpenAIAuth, the journal around refresh()).
NoTokenSentTwice == \A c \in Calls : At(c, "intent") => helper[c].of \notin spent

\* Whenever auth.json holds a token that may have been rotated, the journal
\* says so, whoever looks at it (the pending journal survives every failure).
UncertainBlocks ==
    auth.tok \in spent =>
        journal.of = auth.tok /\ journal.state \in {"pending", "uncertain"}

\* A lock of the helpers that outlives its helper is one of a process that died.
LockIsOwned ==
    renewLock \in Calls => helper[renewLock].at \in (Running \ {"lock"}) \cup {"dead"}

\* A refresh token is used once, and only under the locks, whoever hangs, dies or
\* takes a lock over.
TokensGuarded == TypeOK /\ NoTokenSentTwice /\ UncertainBlocks /\ LockIsOwned

\* Every call of ensureOpenAIAuth() is answered, though the request, the locks
\* and the helper itself may hang for ever (the timers of the gateway).  A call
\* is made once, so it is the same to say that in the end nobody waits.
Waiting == {c \in Calls : call[c] \in {"running", "stopping"}}
EveryCallAnswered == (Waiting # {}) ~> (Waiting = {})
=============================================================================
