--------------------------- MODULE OpenAIAuthProofs ---------------------------
(***************************************************************************)
(* Proof that OpenAIAuth guards its tokens, for any number of helpers and  *)
(* tokens.                                                                 *)
(*                                                                         *)
(* That no token is sent twice says nothing of a token once the helper that*)
(* sent it is gone.  The argument is that of the code: the lock of the     *)
(* helpers leaves one of them between its look and its end (Owned), what it*)
(* has in hand is in the journal (Noted), and a token the server gives out *)
(* is newer than all that were sent (Numbered, Renewed), so that the token *)
(* in the file is spent only while the journal says so (UncertainBlocks).  *)
(***************************************************************************)
EXTENDS OpenAIAuth, TLAPS

Inside == Running \ {"lock"}

\* The lock of the helpers excludes all others from what it guards.
Owned == \A c \in Calls : helper[c].at \in Inside => renewLock = c

\* A helper runs only for a call that was made.
NoneUnasked == \A c \in Calls : call[c] = "idle" => At(c, "off")

\* No token is newer than the last one issued.
Numbered ==
    /\ auth.tok <= server.issued /\ pi.read <= server.issued
    /\ \A t \in spent : t <= server.issued
    /\ \A c \in Calls : helper[c].of <= server.issued /\ helper[c].reply <= server.issued

\* What a helper has in hand is noted.
Noted == \A c \in Calls : helper[c].at \in {"intent", "asked", "got", "checked"} =>
    journal.state = "pending" /\ journal.of = helper[c].of

\* The token a helper got is new.
Renewed == \A c \in Calls :
    /\ helper[c].at \in {"got", "checked", "stored"} => helper[c].reply # 0
    /\ helper[c].at \in {"lock", "piLock", "look", "intent", "off", "exit", "dead"} =>
          helper[c].reply = 0
    /\ helper[c].at \in {"asked", "got", "checked", "stored"} /\ helper[c].reply # 0 =>
         helper[c].reply \notin spent

IInv == /\ TypeOK /\ Owned /\ NoneUnasked /\ Numbered /\ Noted /\ Renewed
        /\ NoTokenSentTwice /\ UncertainBlocks /\ LockIsOwned

----------------------------------------------------------------------------
(* What the operators on a helper and on the journal preserve.             *)

LEMMA ZeroIsToken == 0 \in Tokens
  BY CallsAssumption DEF Tokens

LEMMA GoType ==
  ASSUME helper \in [Calls -> Helpers], NEW c \in Calls,
         NEW s \in Running \cup {"off", "exit", "dead"}, Go(c, s)
  PROVE  helper' \in [Calls -> Helpers]
<1>1. helper[c] \in Helpers /\ [helper[c] EXCEPT !.at = s] \in Helpers  BY DEF Helpers
<1>2. helper' = [helper EXCEPT ![c] = [helper[c] EXCEPT !.at = s]]  BY DEF Go
<1> QED  BY <1>1, <1>2

LEMMA LeaveType ==
  ASSUME helper \in [Calls -> Helpers], NEW c \in Calls, NEW ok \in BOOLEAN, Leave(c, ok)
  PROVE  helper' \in [Calls -> Helpers]
<1> DEFINE h == [helper[c] EXCEPT !.at = "release", !.ok = ok]
<1>1. helper[c] \in Helpers /\ h \in Helpers  BY DEF Helpers, Running
<1>2. helper' = [helper EXCEPT ![c] = h]  BY DEF Leave
<1> QED  BY <1>1, <1>2

LEMMA GoneType ==
  ASSUME NEW s \in {"off", "exit", "dead"}, NEW ok \in BOOLEAN
  PROVE  Gone(s, ok) \in Helpers
  BY ZeroIsToken DEF Gone, Helpers

LEMMA EndsType ==
  ASSUME helper \in [Calls -> Helpers], NEW c \in Calls, Ends(c) \/ Dies(c)
  PROVE  helper' \in [Calls -> Helpers]
<1>1. helper[c].ok \in BOOLEAN  BY DEF Helpers
<1>2. CASE Ends(c)  BY <1>1, <1>2, GoneType DEF Ends
<1>3. CASE Dies(c)  BY <1>3, GoneType DEF Dies
<1> QED  BY <1>2, <1>3

LEMMA JournalType ==
  ASSUME NEW state \in {"none", "pending", "uncertain", "failed", "renewed"},
         NEW tok \in Tokens, NEW relogin \in BOOLEAN, NEW cooling \in BOOLEAN,
         Journal(state, tok, relogin, cooling)
  PROVE  journal' \in Journals
  BY DEF Journal, Journals

----------------------------------------------------------------------------
(* Every step preserves the type invariant.                                *)

LEMMA InitType == Init => TypeOK
<1> SUFFICES ASSUME Init PROVE TypeOK
  OBVIOUS
<1>1. helper \in [Calls -> Helpers]  BY GoneType DEF Init, Off
<1> QED  BY <1>1, ZeroIsToken DEF Init, TypeOK, Free, Journals

LEMMA LookType == ASSUME NEW c \in Calls, TypeOK, Look(c) PROVE TypeOK'
<1>1. auth.tok \in Tokens /\ helper[c] \in Helpers  BY DEF TypeOK
<1>2. CASE UNCHANGED journal /\ \E ok \in BOOLEAN : Leave(c, ok)
  <2>1. helper' \in [Calls -> Helpers]  BY <1>2, LeaveType DEF TypeOK
  <2> QED  BY <2>1, <1>2 DEF TypeOK, Look, others
<1>3. CASE /\ Journal("pending", auth.tok, FALSE, FALSE)
           /\ helper' = [helper EXCEPT ![c].at = "intent", ![c].of = auth.tok]
  <2> DEFINE h == [helper[c] EXCEPT !.at = "intent", !.of = auth.tok]
  <2>1. h \in Helpers  BY <1>1 DEF Helpers, Running
  <2>2. helper' = [helper EXCEPT ![c] = h]  BY <1>3
  <2>3. helper' \in [Calls -> Helpers]  BY <2>1, <2>2 DEF TypeOK
  <2>4. journal' \in Journals  BY <1>1, <1>3, JournalType
  <2> QED  BY <2>3, <2>4 DEF TypeOK, Look, others
<1> QED  BY <1>2, <1>3 DEF Look

LEMMA FailsType ==
  ASSUME NEW c \in Calls, NEW code \in Codes, TypeOK, Fails(c, code) PROVE TypeOK'
<1>1. helper[c] \in Helpers /\ helper[c].of \in Tokens  BY DEF TypeOK, Helpers
<1>2. helper' \in [Calls -> Helpers]  BY LeaveType DEF Fails, TypeOK
<1>3. journal' \in Journals
  <2> DEFINE state == IF code \in Refusals THEN "failed" ELSE code
  <2>1. state \in {"failed", "uncertain"}  BY DEF Codes, Refusals
  <2>2. CASE Journal(state, helper[c].of, code = "relogin", TRUE)
    <3>1. (code = "relogin") \in BOOLEAN  OBVIOUS
    <3> HIDE DEF state
    <3> QED  BY <1>1, <2>1, <2>2, <3>1, JournalType
  <2>3. CASE UNCHANGED journal  BY <2>3 DEF TypeOK
  <2> QED  BY <2>2, <2>3 DEF Fails
<1>4. spent' \in SUBSET Tokens  BY <1>1 DEF Fails, TypeOK
<1> QED  BY <1>2, <1>3, <1>4 DEF TypeOK, Fails

LEMMA RecordRenewalType ==
  ASSUME NEW c \in Calls, TypeOK, RecordRenewal(c) PROVE TypeOK'
<1>1. auth.tok \in Tokens  BY DEF TypeOK
<1>2. helper' \in [Calls -> Helpers]  BY LeaveType DEF RecordRenewal, TypeOK
<1>3. journal' \in Journals
  <2>1. CASE Journal("renewed", auth.tok, FALSE, FALSE)  BY <1>1, <2>1, JournalType
  <2>2. CASE Journal("failed", auth.tok, FALSE, TRUE)  BY <1>1, <2>2, JournalType
  <2>3. CASE UNCHANGED journal  BY <2>3 DEF TypeOK
  <2> QED  BY <2>1, <2>2, <2>3 DEF RecordRenewal
<1> QED  BY <1>2, <1>3 DEF TypeOK, RecordRenewal, others

LEMMA NoticeTakeoverType ==
  ASSUME NEW c \in Calls, TypeOK, NoticeTakeover(c) PROVE TypeOK'
<1> DEFINE h == [helper[c] EXCEPT !.compromised = TRUE]
<1>1. helper[c] \in Helpers  BY DEF TypeOK
<1>2. h \in Helpers  BY <1>1 DEF Helpers
<1>3. helper' = [helper EXCEPT ![c] = h]  BY DEF NoticeTakeover
<1> QED  BY <1>2, <1>3 DEF TypeOK, NoticeTakeover, files, others

LEMMA NextTokenType ==
  ASSUME TypeOK, NEW old, Issues(old)
  PROVE  server.issued + 1 \in Tokens /\ server' \in [accepts : SUBSET Tokens, issued : Tokens]
<1>1. server.issued \in 0..MaxTokens /\ server.issued < MaxTokens /\ server.accepts \subseteq Tokens
  BY DEF TypeOK, Issues, Tokens
<1>2. server.issued + 1 \in Tokens  BY <1>1, CallsAssumption DEF Tokens
<1> QED  BY <1>1, <1>2 DEF Issues

LEMMA RotateType == ASSUME NEW c \in Calls, TypeOK, Rotate(c) PROVE TypeOK'
<1> DEFINE h == [helper[c] EXCEPT !.reply = server.issued + 1]
<1>1. server.issued + 1 \in Tokens /\ server' \in [accepts : SUBSET Tokens, issued : Tokens]
  BY NextTokenType DEF Rotate
<1>2. h \in Helpers  BY <1>1 DEF TypeOK, Helpers
<1>3. helper' = [helper EXCEPT ![c] = h]  BY DEF Rotate
<1> QED  BY <1>1, <1>2, <1>3 DEF TypeOK, Rotate, files

LEMMA PiLeavesType == TypeOK /\ PiLeaves => TypeOK'
<1> SUFFICES ASSUME TypeOK, PiLeaves PROVE TypeOK'
  OBVIOUS
<1>1. CASE /\ \E old \in Nat : Issues(old)
           /\ auth' = [tok |-> server.issued + 1, fresh |-> TRUE]
  BY <1>1, NextTokenType, ZeroIsToken DEF TypeOK, PiLeaves
<1>2. CASE UNCHANGED <<server, auth>>  BY <1>2, ZeroIsToken DEF TypeOK, PiLeaves
<1>3. pi.read \in Nat /\ MaxTokens + 1 \in Nat  BY CallsAssumption DEF TypeOK, Tokens
<1> QED  BY <1>1, <1>2, <1>3 DEF PiLeaves

LEMMA TypePreserved == TypeOK /\ [Next]_vars => TypeOK'
<1> SUFFICES ASSUME TypeOK, [Next]_vars PROVE TypeOK'
  OBVIOUS
<1>1. CASE CoolOver  BY <1>1 DEF TypeOK, CoolOver, Journals, others
<1>2. CASE RemoveDeadLock  BY <1>2 DEF TypeOK, RemoveDeadLock, files, others
<1>3. CASE Expire  BY <1>3 DEF TypeOK, Expire, others
<1>4. CASE PiTakesLock  BY <1>4 DEF TypeOK, PiTakesLock, files
<1>5. CASE PiLeaves  BY <1>5, PiLeavesType
<1>6. ASSUME NEW c \in Calls, Ensure(c) \/ Send(c) \/ Receive(c) \/ TakePiLock(c) \/
      ReleasePiLock(c)
      PROVE  TypeOK'
  <2>1. helper' \in [Calls -> Helpers]
    BY <1>6, GoType DEF TypeOK, Ensure, Send, Receive, TakePiLock, ReleasePiLock, Running
  <2>2. helper[c].of \in Tokens  BY DEF TypeOK, Helpers
  <2> QED  BY <1>6, <2>1, <2>2
           DEF TypeOK, Ensure, Send, Receive, TakePiLock, ReleasePiLock, files, others
<1>7. ASSUME NEW c \in Calls, Stop(c) \/ Close(c)
      PROVE  TypeOK'
  BY <1>7 DEF TypeOK, Stop, Close, files, others
<1>8. ASSUME NEW c \in Calls, Kill(c) \/ HelperDies(c)
      PROVE  TypeOK'
  <2>1. helper' \in [Calls -> Helpers]  BY <1>8, EndsType DEF TypeOK, Kill, HelperDies
  <2> QED  BY <1>8, <2>1 DEF TypeOK, Kill, HelperDies, files, others
<1>9. ASSUME NEW c \in Calls, TakeRenewLock(c) \/ ReleaseRenewLock(c)
      PROVE  TypeOK'
  <2>1. helper' \in [Calls -> Helpers]
    BY <1>9, GoType, EndsType DEF TypeOK, TakeRenewLock, ReleaseRenewLock, Running
  <2> QED  BY <1>9, <2>1 DEF TypeOK, TakeRenewLock, ReleaseRenewLock, files, others
<1>10. ASSUME NEW c \in Calls, CheckConflict(c)
       PROVE  TypeOK'
  <2>1. helper' \in [Calls -> Helpers]
    BY <1>10, GoType, LeaveType DEF TypeOK, CheckConflict, Running
  <2> QED  BY <1>10, <2>1 DEF TypeOK, CheckConflict, files, others
<1>11. ASSUME NEW c \in Calls, Store(c)
       PROVE  TypeOK'
  <2>1. helper' \in [Calls -> Helpers]  BY <1>11, GoType DEF TypeOK, Store, Running
  <2>2. helper[c].reply \in Tokens  BY DEF TypeOK, Helpers
  <2> QED  BY <1>11, <2>1, <2>2 DEF TypeOK, Store, others
<1>12. CASE UNCHANGED vars  BY <1>12 DEF TypeOK, vars
<1> QED
  BY <1>1, <1>2, <1>3, <1>4, <1>5, <1>6, <1>7, <1>8, <1>9, <1>10, <1>11, <1>12,
     LookType, FailsType, RecordRenewalType, NoticeTakeoverType, RotateType DEF Next

\* What a look changes of the helpers.
LEMMA LookWrites ==
  ASSUME helper \in [Calls -> Helpers], NEW c \in Calls, Look(c)
  PROVE  /\ helper[c].at = "look" /\ helper'[c].at \in {"release", "intent"}
         /\ helper'[c].reply = helper[c].reply /\ helper'[c].of \in {helper[c].of, auth.tok}
         /\ \A d \in Calls \ {c} : helper'[d] = helper[d]
<1>1. helper[c].at = "look"  BY DEF Look, At
<1>2. CASE \E ok \in BOOLEAN : Leave(c, ok)  BY <1>1, <1>2 DEF Leave, Helpers
<1>3. CASE helper' = [helper EXCEPT ![c].at = "intent", ![c].of = auth.tok]
  BY <1>1, <1>3 DEF Helpers
<1> QED  BY <1>2, <1>3 DEF Look

----------------------------------------------------------------------------
(* Every step preserves the rest of the invariant.                        *)

\* A helper enters through the lock of the helpers, and only the dead lose it.
LEMMA OwnedPreserved == IInv /\ TypeOK' /\ [Next]_vars => Owned'
<1> SUFFICES ASSUME IInv, TypeOK', [Next]_vars PROVE Owned'
  OBVIOUS
<1> USE CallsAssumption DEF IInv, TypeOK, Owned, LockIsOwned, Helpers, Tokens, At, Running, Inside
<1>1. CASE CoolOver \/ Expire \/ PiTakesLock \/ PiLeaves
  BY <1>1 DEF CoolOver, Expire, PiTakesLock, PiLeaves, files, others
<1>2. ASSUME NEW c \in Calls, Stop(c) \/ Close(c)
      PROVE  Owned'
  <2>1. UNCHANGED <<helper, renewLock>>
    BY <1>2 DEF Stop, Close, files, others
  <2> QED  BY <2>1
<1>3. CASE RemoveDeadLock
  BY <1>3 DEF RemoveDeadLock, files, others
<1>4. ASSUME NEW c \in Calls, Ensure(c)
      PROVE  Owned'
  BY <1>4 DEF Ensure, Go, files, others
<1>5. ASSUME NEW c \in Calls, Kill(c)
      PROVE  Owned'
  BY <1>5 DEF Kill, Dies, files, others, Gone
<1>6. ASSUME NEW c \in Calls, HelperDies(c)
      PROVE  Owned'
  BY <1>6 DEF HelperDies, Dies, files, others, Gone
<1>7. ASSUME NEW c \in Calls, TakeRenewLock(c)
      PROVE  Owned'
  BY <1>7 DEF TakeRenewLock, Go, Ends, files, others, Gone
<1>8. ASSUME NEW c \in Calls, TakePiLock(c)
      PROVE  Owned'
  BY <1>8 DEF TakePiLock, Go, files, others
<1>9. ASSUME NEW c \in Calls, NoticeTakeover(c)
      PROVE  Owned'
  BY <1>9 DEF NoticeTakeover, files, others
<1>10. ASSUME NEW c \in Calls, ReleasePiLock(c)
      PROVE  Owned'
  BY <1>10 DEF ReleasePiLock, Go, files, others
<1>11. ASSUME NEW c \in Calls, ReleaseRenewLock(c)
      PROVE  Owned'
  BY <1>11 DEF ReleaseRenewLock, Ends, files, others, Gone
<1>12. ASSUME NEW c \in Calls, Look(c)
      PROVE  Owned'
  BY <1>12 DEF Look, Leave, Journal, Barred, others
<1>13. ASSUME NEW c \in Calls, Send(c)
      PROVE  Owned'
  BY <1>13 DEF Send, Go, files
<1>14. ASSUME NEW c \in Calls, Rotate(c)
      PROVE  Owned'
  BY <1>14 DEF Rotate, Issues, files
<1>15. ASSUME NEW c \in Calls, Receive(c)
      PROVE  Owned'
  BY <1>15 DEF Receive, Go, files, others
<1>16. ASSUME NEW c \in Calls, CheckConflict(c)
      PROVE  Owned'
  BY <1>16 DEF CheckConflict, Go, Leave, files, others
<1>17. ASSUME NEW c \in Calls, Store(c)
      PROVE  Owned'
  BY <1>17 DEF Store, Go, others
<1>18. ASSUME NEW c \in Calls, RecordRenewal(c)
      PROVE  Owned'
  BY <1>18 DEF RecordRenewal, Leave, Journal, others
<1>19. ASSUME NEW c \in Calls, NEW code \in Codes, Fails(c, code)
      PROVE  Owned'
  BY <1>19 DEF Fails, Leave, Journal, Refusals, Codes
<1>20. CASE UNCHANGED vars
  BY <1>20 DEF vars
<1> QED
  BY <1>1, <1>2, <1>3, <1>4, <1>5, <1>6, <1>7, <1>8, <1>9, <1>10, <1>11, <1>12, <1>13,
     <1>14, <1>15, <1>16, <1>17, <1>18, <1>19, <1>20 DEF Next

\* Ensure() makes the call and starts its helper in one.
LEMMA NoneUnaskedPreserved == IInv /\ TypeOK' /\ [Next]_vars => NoneUnasked'
<1> SUFFICES ASSUME IInv, TypeOK', [Next]_vars PROVE NoneUnasked'
  OBVIOUS
<1> USE CallsAssumption DEF IInv, TypeOK, NoneUnasked, Helpers, Tokens, At
<1>1. CASE CoolOver \/ RemoveDeadLock \/ Expire \/ PiTakesLock \/ PiLeaves
  BY <1>1 DEF CoolOver, RemoveDeadLock, Expire, PiTakesLock, PiLeaves, files, others
<1>2. ASSUME NEW c \in Calls, Ensure(c)
      PROVE  NoneUnasked'
  BY <1>2 DEF Ensure, Go, files, others
<1>3. ASSUME NEW c \in Calls, Stop(c)
      PROVE  NoneUnasked'
  BY <1>3 DEF Stop, files, others
<1>4. ASSUME NEW c \in Calls, Kill(c)
      PROVE  NoneUnasked'
  BY <1>4 DEF Kill, Dies, files, others, Running, Gone
<1>5. ASSUME NEW c \in Calls, Close(c)
      PROVE  NoneUnasked'
  BY <1>5 DEF Close, files, others
<1>6. ASSUME NEW c \in Calls, HelperDies(c)
      PROVE  NoneUnasked'
  BY <1>6 DEF HelperDies, Dies, files, others, Running, Gone
<1>7. ASSUME NEW c \in Calls, TakeRenewLock(c)
      PROVE  NoneUnasked'
  BY <1>7 DEF TakeRenewLock, Go, Ends, files, others, Gone
<1>8. ASSUME NEW c \in Calls, TakePiLock(c)
      PROVE  NoneUnasked'
  BY <1>8 DEF TakePiLock, Go, files, others
<1>9. ASSUME NEW c \in Calls, NoticeTakeover(c)
      PROVE  NoneUnasked'
  BY <1>9 DEF NoticeTakeover, files, others
<1>10. ASSUME NEW c \in Calls, ReleasePiLock(c)
      PROVE  NoneUnasked'
  BY <1>10 DEF ReleasePiLock, Go, files, others
<1>11. ASSUME NEW c \in Calls, ReleaseRenewLock(c)
      PROVE  NoneUnasked'
  BY <1>11 DEF ReleaseRenewLock, Ends, files, others, Gone
<1>12. ASSUME NEW c \in Calls, Look(c)
      PROVE  NoneUnasked'
  BY <1>12 DEF Look, Leave, Journal, Barred, others
<1>13. ASSUME NEW c \in Calls, Send(c)
      PROVE  NoneUnasked'
  BY <1>13 DEF Send, Go, files
<1>14. ASSUME NEW c \in Calls, Rotate(c)
      PROVE  NoneUnasked'
  BY <1>14 DEF Rotate, Issues, files
<1>15. ASSUME NEW c \in Calls, Receive(c)
      PROVE  NoneUnasked'
  BY <1>15 DEF Receive, Go, files, others
<1>16. ASSUME NEW c \in Calls, CheckConflict(c)
      PROVE  NoneUnasked'
  BY <1>16 DEF CheckConflict, Go, Leave, files, others
<1>17. ASSUME NEW c \in Calls, Store(c)
      PROVE  NoneUnasked'
  BY <1>17 DEF Store, Go, others
<1>18. ASSUME NEW c \in Calls, RecordRenewal(c)
      PROVE  NoneUnasked'
  BY <1>18 DEF RecordRenewal, Leave, Journal, others
<1>19. ASSUME NEW c \in Calls, NEW code \in Codes, Fails(c, code)
      PROVE  NoneUnasked'
  BY <1>19 DEF Fails, Leave, Journal, Refusals, Codes
<1>20. CASE UNCHANGED vars
  BY <1>20 DEF vars
<1> QED
  BY <1>1, <1>2, <1>3, <1>4, <1>5, <1>6, <1>7, <1>8, <1>9, <1>10, <1>11, <1>12, <1>13,
     <1>14, <1>15, <1>16, <1>17, <1>18, <1>19, <1>20 DEF Next

\* Every token in a place was issued.
LEMMA NumberedPreserved == IInv /\ TypeOK' /\ [Next]_vars => Numbered'
<1> SUFFICES ASSUME IInv, TypeOK', [Next]_vars PROVE Numbered'
  OBVIOUS
<1> USE CallsAssumption DEF IInv, TypeOK, Numbered, Helpers, Tokens, At
<1>1. CASE CoolOver \/ RemoveDeadLock
  BY <1>1 DEF CoolOver, RemoveDeadLock, files, others
<1>2. ASSUME NEW c \in Calls, Stop(c) \/ Close(c)
      PROVE  Numbered'
  <2>1. UNCHANGED <<auth, helper, pi, server, spent>>
    BY <1>2 DEF Stop, Close, files, others
  <2> QED  BY <2>1
<1>3. CASE Expire
  BY <1>3 DEF Expire, others
<1>4. CASE PiTakesLock
  BY <1>4 DEF PiTakesLock, files
<1>5. CASE PiLeaves
  BY <1>5 DEF PiLeaves, Issues
<1>6. ASSUME NEW c \in Calls, Ensure(c)
      PROVE  Numbered'
  BY <1>6 DEF Ensure, Go, files, others
<1>7. ASSUME NEW c \in Calls, Kill(c)
      PROVE  Numbered'
  BY <1>7 DEF Kill, Dies, files, others, Running, Gone
<1>8. ASSUME NEW c \in Calls, HelperDies(c)
      PROVE  Numbered'
  BY <1>8 DEF HelperDies, Dies, files, others, Running, Gone
<1>9. ASSUME NEW c \in Calls, TakeRenewLock(c)
      PROVE  Numbered'
  BY <1>9 DEF TakeRenewLock, Go, Ends, files, others, Gone
<1>10. ASSUME NEW c \in Calls, TakePiLock(c)
      PROVE  Numbered'
  <2>1. \A d \in Calls : helper'[d].of = helper[d].of /\ helper'[d].reply = helper[d].reply
    BY <1>10 DEF TakePiLock, Go
  <2>2. UNCHANGED <<auth, pi, spent, server>>  BY <1>10 DEF TakePiLock, files, others
  <2> QED  BY <2>1, <2>2
<1>11. ASSUME NEW c \in Calls, NoticeTakeover(c)
      PROVE  Numbered'
  BY <1>11 DEF NoticeTakeover, files, others
<1>12. ASSUME NEW c \in Calls, ReleasePiLock(c)
      PROVE  Numbered'
  BY <1>12 DEF ReleasePiLock, Go, files, others
<1>13. ASSUME NEW c \in Calls, ReleaseRenewLock(c)
      PROVE  Numbered'
  BY <1>13 DEF ReleaseRenewLock, Ends, files, others, Gone
<1>14. ASSUME NEW c \in Calls, Look(c)
      PROVE  Numbered'
  BY <1>14, LookWrites DEF Look, others
<1>15. ASSUME NEW c \in Calls, Send(c)
      PROVE  Numbered'
  BY <1>15 DEF Send, Go, files
<1>16. ASSUME NEW c \in Calls, Rotate(c)
      PROVE  Numbered'
  BY <1>16 DEF Rotate, Issues, files
<1>17. ASSUME NEW c \in Calls, Receive(c)
      PROVE  Numbered'
  BY <1>17 DEF Receive, Go, files, others
<1>18. ASSUME NEW c \in Calls, CheckConflict(c)
      PROVE  Numbered'
  BY <1>18 DEF CheckConflict, Go, Leave, files, others
<1>19. ASSUME NEW c \in Calls, Store(c)
      PROVE  Numbered'
  BY <1>19 DEF Store, Go, others
<1>20. ASSUME NEW c \in Calls, RecordRenewal(c)
      PROVE  Numbered'
  BY <1>20 DEF RecordRenewal, Leave, Journal, others
<1>21. ASSUME NEW c \in Calls, NEW code \in Codes, Fails(c, code)
      PROVE  Numbered'
  BY <1>21 DEF Fails, Leave, Journal, Refusals, Codes
<1>22. CASE UNCHANGED vars
  BY <1>22 DEF vars
<1> QED
  BY <1>1, <1>2, <1>3, <1>4, <1>5, <1>6, <1>7, <1>8, <1>9, <1>10, <1>11, <1>12, <1>13,
     <1>14, <1>15, <1>16, <1>17, <1>18, <1>19, <1>20, <1>21, <1>22 DEF Next

\* Only the owner of the lock writes the journal while it is inside.
LEMMA NotedPreserved == IInv /\ TypeOK' /\ [Next]_vars => Noted'
<1> SUFFICES ASSUME IInv, TypeOK', [Next]_vars PROVE Noted'
  OBVIOUS
<1> USE CallsAssumption DEF IInv, TypeOK, Owned, Noted, Helpers, Tokens, At, Running, Inside
<1>1. CASE RemoveDeadLock \/ Expire \/ PiTakesLock \/ PiLeaves
  BY <1>1 DEF RemoveDeadLock, Expire, PiTakesLock, PiLeaves, files, others
<1>2. ASSUME NEW c \in Calls, Stop(c) \/ Close(c)
      PROVE  Noted'
  <2>1. UNCHANGED <<helper, journal>>
    BY <1>2 DEF Stop, Close, files, others
  <2> QED  BY <2>1
<1>3. CASE CoolOver
  BY <1>3 DEF CoolOver, others
<1>4. ASSUME NEW c \in Calls, Ensure(c)
      PROVE  Noted'
  BY <1>4 DEF Ensure, Go, files, others
<1>5. ASSUME NEW c \in Calls, Kill(c)
      PROVE  Noted'
  BY <1>5 DEF Kill, Dies, files, others, Gone
<1>6. ASSUME NEW c \in Calls, HelperDies(c)
      PROVE  Noted'
  BY <1>6 DEF HelperDies, Dies, files, others, Gone
<1>7. ASSUME NEW c \in Calls, TakeRenewLock(c)
      PROVE  Noted'
  BY <1>7 DEF TakeRenewLock, Go, Ends, files, others, Gone
<1>8. ASSUME NEW c \in Calls, TakePiLock(c)
      PROVE  Noted'
  BY <1>8 DEF TakePiLock, Go, files, others
<1>9. ASSUME NEW c \in Calls, NoticeTakeover(c)
      PROVE  Noted'
  BY <1>9 DEF NoticeTakeover, files, others
<1>10. ASSUME NEW c \in Calls, ReleasePiLock(c)
      PROVE  Noted'
  BY <1>10 DEF ReleasePiLock, Go, files, others
<1>11. ASSUME NEW c \in Calls, ReleaseRenewLock(c)
      PROVE  Noted'
  BY <1>11 DEF ReleaseRenewLock, Ends, files, others, Gone
<1>12. ASSUME NEW c \in Calls, Look(c)
      PROVE  Noted'
  BY <1>12 DEF Look, Leave, Journal, Barred, others
<1>13. ASSUME NEW c \in Calls, Send(c)
      PROVE  Noted'
  BY <1>13 DEF Send, Go, files
<1>14. ASSUME NEW c \in Calls, Rotate(c)
      PROVE  Noted'
  BY <1>14 DEF Rotate, Issues, files
<1>15. ASSUME NEW c \in Calls, Receive(c)
      PROVE  Noted'
  BY <1>15 DEF Receive, Go, files, others
<1>16. ASSUME NEW c \in Calls, CheckConflict(c)
      PROVE  Noted'
  BY <1>16 DEF CheckConflict, Go, Leave, files, others
<1>17. ASSUME NEW c \in Calls, Store(c)
      PROVE  Noted'
  BY <1>17 DEF Store, Go, others
<1>18. ASSUME NEW c \in Calls, RecordRenewal(c)
      PROVE  Noted'
  BY <1>18 DEF RecordRenewal, Leave, Journal, others
<1>19. ASSUME NEW c \in Calls, NEW code \in Codes, Fails(c, code)
      PROVE  Noted'
  BY <1>19 DEF Fails, Leave, Journal, Refusals, Codes
<1>20. CASE UNCHANGED vars
  BY <1>20 DEF vars
<1> QED
  BY <1>1, <1>2, <1>3, <1>4, <1>5, <1>6, <1>7, <1>8, <1>9, <1>10, <1>11, <1>12, <1>13,
     <1>14, <1>15, <1>16, <1>17, <1>18, <1>19, <1>20 DEF Next

\* A renewed token is newer than all that were sent.
LEMMA RenewedPreserved == IInv /\ TypeOK' /\ [Next]_vars => Renewed'
<1> SUFFICES ASSUME IInv, TypeOK', [Next]_vars PROVE Renewed'
  OBVIOUS
<1> USE CallsAssumption DEF IInv, TypeOK, Owned, Renewed, Numbered, Helpers, Tokens, At,
      Running, Inside
<1>1. CASE CoolOver \/ RemoveDeadLock \/ Expire \/ PiTakesLock \/ PiLeaves
  BY <1>1 DEF CoolOver, RemoveDeadLock, Expire, PiTakesLock, PiLeaves, files, others
<1>2. ASSUME NEW c \in Calls, Stop(c) \/ Close(c)
      PROVE  Renewed'
  <2>1. UNCHANGED <<helper, spent>>
    BY <1>2 DEF Stop, Close, files, others
  <2> QED  BY <2>1
<1>3. ASSUME NEW c \in Calls, Ensure(c)
      PROVE  Renewed'
  BY <1>3 DEF Ensure, Go, files, others, NoneUnasked
<1>4. ASSUME NEW c \in Calls, Kill(c)
      PROVE  Renewed'
  BY <1>4 DEF Kill, Dies, files, others, Gone
<1>5. ASSUME NEW c \in Calls, HelperDies(c)
      PROVE  Renewed'
  BY <1>5 DEF HelperDies, Dies, files, others, Gone
<1>6. ASSUME NEW c \in Calls, TakeRenewLock(c)
      PROVE  Renewed'
  BY <1>6 DEF TakeRenewLock, Go, Ends, files, others, Gone
<1>7. ASSUME NEW c \in Calls, TakePiLock(c)
      PROVE  Renewed'
  BY <1>7 DEF TakePiLock, Go, files, others
<1>8. ASSUME NEW c \in Calls, NoticeTakeover(c)
      PROVE  Renewed'
  BY <1>8 DEF NoticeTakeover, files, others
<1>9. ASSUME NEW c \in Calls, ReleasePiLock(c)
      PROVE  Renewed'
  BY <1>9 DEF ReleasePiLock, Go, files, others
<1>10. ASSUME NEW c \in Calls, ReleaseRenewLock(c)
      PROVE  Renewed'
  BY <1>10 DEF ReleaseRenewLock, Ends, files, others, Gone
<1>11. ASSUME NEW c \in Calls, Look(c)
      PROVE  Renewed'
  <2>1. UNCHANGED spent  BY <1>11 DEF Look, others
  <2>2. /\ helper[c].at = "look" /\ helper'[c].at \in {"release", "intent"}
        /\ helper'[c].reply = helper[c].reply
        /\ \A d \in Calls \ {c} : helper'[d] = helper[d]
    BY <1>11, LookWrites
  <2> QED  BY <2>1, <2>2
<1>12. ASSUME NEW c \in Calls, Send(c)
      PROVE  Renewed'
  BY <1>12 DEF Send, Go, files
<1>13. ASSUME NEW c \in Calls, Rotate(c)
      PROVE  Renewed'
  BY <1>13 DEF Rotate, Issues, files
<1>14. ASSUME NEW c \in Calls, Receive(c)
      PROVE  Renewed'
  BY <1>14 DEF Receive, Go, files, others
<1>15. ASSUME NEW c \in Calls, CheckConflict(c)
      PROVE  Renewed'
  BY <1>15 DEF CheckConflict, Go, Leave, files, others
<1>16. ASSUME NEW c \in Calls, Store(c)
      PROVE  Renewed'
  BY <1>16 DEF Store, Go, others
<1>17. ASSUME NEW c \in Calls, RecordRenewal(c)
      PROVE  Renewed'
  BY <1>17 DEF RecordRenewal, Leave, Journal, others
<1>18. ASSUME NEW c \in Calls, NEW code \in Codes, Fails(c, code)
      PROVE  Renewed'
  BY <1>18 DEF Fails, Leave, Journal, Refusals, Codes
<1>19. CASE UNCHANGED vars
  BY <1>19 DEF vars
<1> QED
  BY <1>1, <1>2, <1>3, <1>4, <1>5, <1>6, <1>7, <1>8, <1>9, <1>10, <1>11, <1>12, <1>13,
     <1>14, <1>15, <1>16, <1>17, <1>18, <1>19 DEF Next

\* What Look() takes in hand was not barred, so it was not spent.
LEMMA NoTokenSentTwicePreserved == IInv /\ TypeOK' /\ [Next]_vars => NoTokenSentTwice'
<1> SUFFICES ASSUME IInv, TypeOK', [Next]_vars PROVE NoTokenSentTwice'
  OBVIOUS
<1> USE CallsAssumption DEF IInv, TypeOK, Owned, NoTokenSentTwice, UncertainBlocks, Noted,
      Helpers, Tokens, At, Running, Inside
<1>1. CASE CoolOver \/ RemoveDeadLock \/ Expire \/ PiTakesLock \/ PiLeaves
  BY <1>1 DEF CoolOver, RemoveDeadLock, Expire, PiTakesLock, PiLeaves, files, others
<1>2. ASSUME NEW c \in Calls, Stop(c) \/ Close(c)
      PROVE  NoTokenSentTwice'
  <2>1. UNCHANGED <<helper, spent>>
    BY <1>2 DEF Stop, Close, files, others
  <2> QED  BY <2>1
<1>3. ASSUME NEW c \in Calls, Ensure(c)
      PROVE  NoTokenSentTwice'
  BY <1>3 DEF Ensure, Go, files, others
<1>4. ASSUME NEW c \in Calls, Kill(c)
      PROVE  NoTokenSentTwice'
  BY <1>4 DEF Kill, Dies, files, others, Gone
<1>5. ASSUME NEW c \in Calls, HelperDies(c)
      PROVE  NoTokenSentTwice'
  BY <1>5 DEF HelperDies, Dies, files, others, Gone
<1>6. ASSUME NEW c \in Calls, TakeRenewLock(c)
      PROVE  NoTokenSentTwice'
  BY <1>6 DEF TakeRenewLock, Go, Ends, files, others, Gone
<1>7. ASSUME NEW c \in Calls, TakePiLock(c)
      PROVE  NoTokenSentTwice'
  BY <1>7 DEF TakePiLock, Go, files, others
<1>8. ASSUME NEW c \in Calls, NoticeTakeover(c)
      PROVE  NoTokenSentTwice'
  BY <1>8 DEF NoticeTakeover, files, others
<1>9. ASSUME NEW c \in Calls, ReleasePiLock(c)
      PROVE  NoTokenSentTwice'
  BY <1>9 DEF ReleasePiLock, Go, files, others
<1>10. ASSUME NEW c \in Calls, ReleaseRenewLock(c)
      PROVE  NoTokenSentTwice'
  BY <1>10 DEF ReleaseRenewLock, Ends, files, others, Gone
<1>11. ASSUME NEW c \in Calls, Look(c)
      PROVE  NoTokenSentTwice'
  BY <1>11 DEF Look, Leave, Journal, Barred, others
<1>12. ASSUME NEW c \in Calls, Send(c)
      PROVE  NoTokenSentTwice'
  BY <1>12 DEF Send, Go, files
<1>13. ASSUME NEW c \in Calls, Rotate(c)
      PROVE  NoTokenSentTwice'
  BY <1>13 DEF Rotate, Issues, files
<1>14. ASSUME NEW c \in Calls, Receive(c)
      PROVE  NoTokenSentTwice'
  BY <1>14 DEF Receive, Go, files, others
<1>15. ASSUME NEW c \in Calls, CheckConflict(c)
      PROVE  NoTokenSentTwice'
  BY <1>15 DEF CheckConflict, Go, Leave, files, others
<1>16. ASSUME NEW c \in Calls, Store(c)
      PROVE  NoTokenSentTwice'
  BY <1>16 DEF Store, Go, others
<1>17. ASSUME NEW c \in Calls, RecordRenewal(c)
      PROVE  NoTokenSentTwice'
  BY <1>17 DEF RecordRenewal, Leave, Journal, others
<1>18. ASSUME NEW c \in Calls, NEW code \in Codes, Fails(c, code)
      PROVE  NoTokenSentTwice'
  BY <1>18 DEF Fails, Leave, Journal, Refusals, Codes
<1>19. CASE UNCHANGED vars
  BY <1>19 DEF vars
<1> QED
  BY <1>1, <1>2, <1>3, <1>4, <1>5, <1>6, <1>7, <1>8, <1>9, <1>10, <1>11, <1>12, <1>13,
     <1>14, <1>15, <1>16, <1>17, <1>18, <1>19 DEF Next

\* The pending journal stands until the token is replaced or refused.
LEMMA UncertainBlocksPreserved == IInv /\ TypeOK' /\ [Next]_vars => UncertainBlocks'
<1> SUFFICES ASSUME IInv, TypeOK', [Next]_vars PROVE UncertainBlocks'
  OBVIOUS
<1> USE CallsAssumption DEF IInv, TypeOK, Owned, UncertainBlocks, Noted, Numbered, Renewed,
      Helpers, Tokens, At, Running, Inside
<1>1. CASE RemoveDeadLock \/ PiTakesLock
  BY <1>1 DEF RemoveDeadLock, PiTakesLock, files, others
<1>2. ASSUME NEW c \in Calls, Ensure(c) \/ Stop(c) \/ Kill(c) \/ Close(c) \/ HelperDies(c) \/
      TakeRenewLock(c) \/ TakePiLock(c) \/ NoticeTakeover(c) \/ ReleasePiLock(c) \/
      ReleaseRenewLock(c) \/ Rotate(c) \/ Receive(c) \/ CheckConflict(c)
      PROVE  UncertainBlocks'
  <2>1. UNCHANGED <<auth, journal, spent>>
    BY <1>2 DEF Ensure, Stop, Kill, Close, HelperDies, TakeRenewLock, TakePiLock,
       NoticeTakeover, ReleasePiLock, ReleaseRenewLock, Rotate, Receive, CheckConflict,
       files, others
  <2> QED  BY <2>1
<1>3. CASE CoolOver
  BY <1>3 DEF CoolOver, others
<1>4. CASE Expire
  BY <1>4 DEF Expire, others
<1>5. CASE PiLeaves
  BY <1>5 DEF PiLeaves, Issues
<1>6. ASSUME NEW c \in Calls, Look(c)
      PROVE  UncertainBlocks'
  BY <1>6 DEF Look, Leave, Journal, Barred, others
<1>7. ASSUME NEW c \in Calls, Send(c)
      PROVE  UncertainBlocks'
  BY <1>7 DEF Send, Go, files
<1>8. ASSUME NEW c \in Calls, Store(c)
      PROVE  UncertainBlocks'
  BY <1>8 DEF Store, Go, others
<1>9. ASSUME NEW c \in Calls, RecordRenewal(c)
      PROVE  UncertainBlocks'
  BY <1>9 DEF RecordRenewal, Leave, Journal, others
<1>10. ASSUME NEW c \in Calls, NEW code \in Codes, Fails(c, code)
      PROVE  UncertainBlocks'
  BY <1>10 DEF Fails, Leave, Journal, Refusals, Codes
<1>11. CASE UNCHANGED vars
  BY <1>11 DEF vars
<1> QED
  BY <1>1, <1>2, <1>3, <1>4, <1>5, <1>6, <1>7, <1>8, <1>9, <1>10, <1>11 DEF Next

\* A helper that ends releases the lock of the helpers last.
LEMMA LockIsOwnedPreserved == IInv /\ TypeOK' /\ [Next]_vars => LockIsOwned'
<1> SUFFICES ASSUME IInv, TypeOK', [Next]_vars PROVE LockIsOwned'
  OBVIOUS
<1> USE CallsAssumption DEF IInv, TypeOK, LockIsOwned, Owned, NoneUnasked, Helpers, Tokens,
      At, Running, Inside
<1>1. CASE CoolOver \/ Expire \/ PiTakesLock \/ PiLeaves
  BY <1>1 DEF CoolOver, Expire, PiTakesLock, PiLeaves, files, others
<1>2. ASSUME NEW c \in Calls, Stop(c) \/ Close(c)
      PROVE  LockIsOwned'
  <2>1. UNCHANGED <<helper, renewLock>>
    BY <1>2 DEF Stop, Close, files, others
  <2> QED  BY <2>1
<1>3. CASE RemoveDeadLock
  BY <1>3 DEF RemoveDeadLock, files, others
<1>4. ASSUME NEW c \in Calls, Ensure(c)
      PROVE  LockIsOwned'
  BY <1>4 DEF Ensure, Go, files, others
<1>5. ASSUME NEW c \in Calls, Kill(c)
      PROVE  LockIsOwned'
  BY <1>5 DEF Kill, Dies, files, others, Gone
<1>6. ASSUME NEW c \in Calls, HelperDies(c)
      PROVE  LockIsOwned'
  BY <1>6 DEF HelperDies, Dies, files, others, Gone
<1>7. ASSUME NEW c \in Calls, TakeRenewLock(c)
      PROVE  LockIsOwned'
  BY <1>7 DEF TakeRenewLock, Go, Ends, files, others, Gone
<1>8. ASSUME NEW c \in Calls, TakePiLock(c)
      PROVE  LockIsOwned'
  BY <1>8 DEF TakePiLock, Go, files, others
<1>9. ASSUME NEW c \in Calls, NoticeTakeover(c)
      PROVE  LockIsOwned'
  BY <1>9 DEF NoticeTakeover, files, others
<1>10. ASSUME NEW c \in Calls, ReleasePiLock(c)
      PROVE  LockIsOwned'
  BY <1>10 DEF ReleasePiLock, Go, files, others
<1>11. ASSUME NEW c \in Calls, ReleaseRenewLock(c)
      PROVE  LockIsOwned'
  BY <1>11 DEF ReleaseRenewLock, Ends, files, others, Gone
<1>12. ASSUME NEW c \in Calls, Look(c)
      PROVE  LockIsOwned'
  BY <1>12 DEF Look, Leave, Journal, Barred, others
<1>13. ASSUME NEW c \in Calls, Send(c)
      PROVE  LockIsOwned'
  BY <1>13 DEF Send, Go, files
<1>14. ASSUME NEW c \in Calls, Rotate(c)
      PROVE  LockIsOwned'
  BY <1>14 DEF Rotate, Issues, files
<1>15. ASSUME NEW c \in Calls, Receive(c)
      PROVE  LockIsOwned'
  BY <1>15 DEF Receive, Go, files, others
<1>16. ASSUME NEW c \in Calls, CheckConflict(c)
      PROVE  LockIsOwned'
  BY <1>16 DEF CheckConflict, Go, Leave, files, others
<1>17. ASSUME NEW c \in Calls, Store(c)
      PROVE  LockIsOwned'
  BY <1>17 DEF Store, Go, others
<1>18. ASSUME NEW c \in Calls, RecordRenewal(c)
      PROVE  LockIsOwned'
  BY <1>18 DEF RecordRenewal, Leave, Journal, others
<1>19. ASSUME NEW c \in Calls, NEW code \in Codes, Fails(c, code)
      PROVE  LockIsOwned'
  BY <1>19 DEF Fails, Leave, Journal, Refusals, Codes
<1>20. CASE UNCHANGED vars
  BY <1>20 DEF vars
<1> QED
  BY <1>1, <1>2, <1>3, <1>4, <1>5, <1>6, <1>7, <1>8, <1>9, <1>10, <1>11, <1>12, <1>13,
     <1>14, <1>15, <1>16, <1>17, <1>18, <1>19, <1>20 DEF Next

----------------------------------------------------------------------------
(* The results.                                                            *)

LEMMA InitInvariant == Init => IInv
<1> SUFFICES ASSUME Init PROVE IInv
  OBVIOUS
<1>1. TypeOK  BY InitType
<1>2. \A c \in Calls : helper[c] = Gone("off", FALSE)  BY DEF Init, Off
<1>3. Owned /\ NoneUnasked /\ Noted /\ Renewed /\ NoTokenSentTwice
  BY <1>2 DEF Gone, Owned, NoneUnasked, Noted, Renewed, NoTokenSentTwice, Inside, Running, At
<1>4. Numbered  BY <1>2 DEF Init, Gone, Numbered
<1>5. UncertainBlocks /\ LockIsOwned
  BY CallsAssumption DEF Init, UncertainBlocks, LockIsOwned
<1> QED  BY <1>1, <1>3, <1>4, <1>5 DEF IInv

LEMMA StepInvariant == IInv /\ [Next]_vars => IInv'
<1> SUFFICES ASSUME IInv, [Next]_vars PROVE IInv'
  OBVIOUS
<1>1. TypeOK'  BY TypePreserved DEF IInv
<1> QED
  BY <1>1, OwnedPreserved, NoneUnaskedPreserved, NumberedPreserved, NotedPreserved,
     RenewedPreserved, NoTokenSentTwicePreserved, UncertainBlocksPreserved,
     LockIsOwnedPreserved DEF IInv

\* The types of OpenAIAuth, for every set of calls and every number of tokens.
THEOREM TypeCorrect == Spec => []TypeOK
<1>1. IInv => TypeOK  BY DEF IInv
<1> QED  BY <1>1, InitInvariant, StepInvariant, PTL DEF Spec

\* However many processes renew the credential, and wherever they are killed: no
\* refresh token is sent twice, a token in auth.json that may have been rotated
\* is barred by the journal, and the lock of the helpers is never left behind by
\* one that ended (maintainOpenAIAuth()).
THEOREM TokensAreGuarded == Spec => []TokensGuarded
<1>1. IInv => TokensGuarded  BY DEF IInv, TokensGuarded
<1> QED  BY <1>1, InitInvariant, StepInvariant, PTL DEF Spec
==============================================================================
