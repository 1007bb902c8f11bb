------------------------ MODULE RequestLedgerProofs ------------------------
(***************************************************************************)
(* For every number of processes, requests and calls: the request ledger   *)
(* keeps its safety properties and implements the at-most-once register.   *)
(***************************************************************************)
EXTENDS RequestLedger, TLAPS

\* The records of an entry name the call that claimed it and are as far as that
\* call got.
EntryOfWriter ==
  \A r \in Requests :
    /\ (entry[r] = "absent") <=> (writer[r] = None)
    /\ writer[r] # None => RequestOf[writer[r]] = r
    /\ entry[r] = "directory" =>
         phase[writer[r]] \in {"claimed", "threw", "lost"}
    /\ entry[r] = "started" =>
         phase[writer[r]] \in {"running", "threw", "lost"}
    /\ entry[r] = "final" => writer[r] \in durable

\* How a call's phase relates to the entry and to the history.
CallInv(c) ==
  /\ phase[c] \in {"idle", "claimed"} => c \notin executed
  /\ phase[c] = "claimed" =>
       entry[RequestOf[c]] = "directory" /\ writer[RequestOf[c]] = c
  /\ phase[c] = "running" => source[c] = c /\ c \in executed \ durable
  /\ phase[c] \in {"written", "executed", "recorded"} =>
       source[c] = c /\ c \in durable
  /\ phase[c] \in {"joined", "replayed"} =>
       /\ source[c] \in Calls
       /\ RequestOf[source[c]] = RequestOf[c]
       /\ DigestOf[source[c]] = DigestOf[c]
  /\ phase[c] = "replayed" => source[c] \in durable

CallPhases == \A c \in Calls : CallInv(c)

\* An execution that is not durably finished still holds its entry: this is
\* what makes a second execution impossible, and it is why an interrupted entry
\* may never be pruned.
UnfinishedHolds ==
  /\ durable \subseteq executed
  /\ \A c \in executed \ durable :
       entry[RequestOf[c]] = "started" /\ writer[RequestOf[c]] = c

\* Promises are published under the request they execute.
PromiseOfRequest ==
  \A g \in Gateways, r \in Requests :
    inFlight[g][r] # None => RequestOf[inFlight[g][r]] = r

\* An outcome is only ever that of an execution whose final record was durable
\* before, of this very request: a crash between final.json and the outcome
\* loses the outcome, never the record it speaks of.
OutcomeAfterFinal ==
  \A r \in Requests : outcome[r] # None =>
    /\ outcome[r] \in durable
    /\ RequestOf[outcome[r]] = r

\* The inductive invariant.
IInv ==
  /\ TypeOK
  /\ EntryOfWriter
  /\ CallPhases
  /\ UnfinishedHolds
  /\ PromiseOfRequest
  /\ OutcomeAfterFinal

-----------------------------------------------------------------------------
LEMMA InitIInv == Init => IInv
BY CallAssumption, NoneAssumption
DEF Init, IInv, TypeOK, EntryOfWriter, CallPhases, CallInv, UnfinishedHolds,
    PromiseOfRequest, OutcomeAfterFinal, Phases


(* One lemma per action: each preserves the inductive invariant.           *)

LEMMA ClaimIInv ==
  ASSUME NEW c \in Calls, IInv, Claim(c)
  PROVE  IInv'
<1> USE CallAssumption, NoneAssumption DEF IInv, Claim, Become, disk
<1>1. TypeOK'
  BY DEF TypeOK, Phases
<1>2. EntryOfWriter'
  BY DEF TypeOK, EntryOfWriter, CallPhases, CallInv, UnfinishedHolds
<1>3. ASSUME NEW d \in Calls PROVE CallInv(d)'
  <2>0. CallInv(c) /\ CallInv(d)
    BY DEF CallPhases
  <2>1. CASE d = c
    <3>1. c \notin executed /\ phase'[c] = "claimed"
      BY <2>0 DEF TypeOK, CallInv
    <3>2. entry'[RequestOf[c]] = "directory" /\ writer'[RequestOf[c]] = c
      BY DEF TypeOK
    <3> QED BY <2>1, <3>1, <3>2 DEF CallInv
  <2>2. CASE d # c
    BY <2>0, <2>2 DEF TypeOK, CallInv, UnfinishedHolds, EntryOfWriter
  <2> QED BY <2>1, <2>2
<1>4. UnfinishedHolds'
  BY DEF TypeOK, UnfinishedHolds, CallPhases, CallInv, EntryOfWriter
<1>5. PromiseOfRequest'
  BY DEF TypeOK, PromiseOfRequest
<1>6. OutcomeAfterFinal'
  BY DEF TypeOK, OutcomeAfterFinal, CallPhases, CallInv
<1> QED BY <1>1, <1>2, <1>3, <1>4, <1>5, <1>6 DEF CallPhases

LEMMA StartIInv ==
  ASSUME NEW c \in Calls, IInv, Start(c)
  PROVE  IInv'
<1> USE CallAssumption, NoneAssumption DEF IInv, Start, Become, disk
<1>1. TypeOK'
  BY DEF TypeOK, Phases
<1>2. EntryOfWriter'
  BY DEF TypeOK, EntryOfWriter, CallPhases, CallInv, UnfinishedHolds
<1>3. ASSUME NEW d \in Calls PROVE CallInv(d)'
  <2>0. CallInv(c) /\ CallInv(d)
    BY DEF CallPhases
  <2>1. CASE d = c
    BY <2>0, <2>1 DEF TypeOK, CallInv, UnfinishedHolds, EntryOfWriter, PromiseOfRequest
  <2>2. CASE d # c
    BY <2>0, <2>2 DEF TypeOK, CallInv, UnfinishedHolds, EntryOfWriter
  <2> QED BY <2>1, <2>2
<1>4. UnfinishedHolds'
  <2>1. entry[RequestOf[c]] = "directory" /\ writer[RequestOf[c]] = c
    BY DEF CallPhases, CallInv
  <2>2. ASSUME NEW d \in executed' \ durable'
        PROVE  entry'[RequestOf[d]] = "started" /\ writer'[RequestOf[d]] = d
    <3>1. CASE d = c
      BY <2>1, <3>1 DEF TypeOK
    <3>2. CASE d # c
      <4>1. entry[RequestOf[d]] = "started" /\ writer[RequestOf[d]] = d
        BY <3>2 DEF UnfinishedHolds
      <4>2. RequestOf[d] # RequestOf[c]
        BY <2>1, <4>1
      <4> QED BY <4>1, <4>2 DEF TypeOK
    <3> QED BY <3>1, <3>2
  <2> QED BY <2>2 DEF UnfinishedHolds
<1>5. PromiseOfRequest'
  BY DEF TypeOK, PromiseOfRequest
<1>6. OutcomeAfterFinal'
  BY DEF TypeOK, OutcomeAfterFinal, CallPhases, CallInv
<1> QED BY <1>1, <1>2, <1>3, <1>4, <1>5, <1>6 DEF CallPhases

LEMMA StartFailsIInv ==
  ASSUME NEW c \in Calls, IInv, StartFails(c)
  PROVE  IInv'
<1> USE CallAssumption, NoneAssumption DEF IInv, StartFails, Become, disk
<1>1. TypeOK'
  BY DEF TypeOK, Phases
<1>2. EntryOfWriter'
  BY DEF TypeOK, EntryOfWriter, CallPhases, CallInv, UnfinishedHolds
<1>3. ASSUME NEW d \in Calls PROVE CallInv(d)'
  <2>0. CallInv(c) /\ CallInv(d)
    BY DEF CallPhases
  <2>1. CASE d = c
    BY <2>0, <2>1 DEF TypeOK, CallInv, UnfinishedHolds, EntryOfWriter, PromiseOfRequest
  <2>2. CASE d # c
    BY <2>0, <2>2 DEF TypeOK, CallInv, UnfinishedHolds, EntryOfWriter
  <2> QED BY <2>1, <2>2
<1>4. UnfinishedHolds'
  BY DEF TypeOK, UnfinishedHolds, CallPhases, CallInv, EntryOfWriter
<1>5. PromiseOfRequest'
  BY DEF TypeOK, PromiseOfRequest
<1>6. OutcomeAfterFinal'
  BY DEF TypeOK, OutcomeAfterFinal, CallPhases, CallInv
<1> QED BY <1>1, <1>2, <1>3, <1>4, <1>5, <1>6 DEF CallPhases

LEMMA WriteFinalIInv ==
  ASSUME NEW c \in Calls, NEW k \in Results, IInv, WriteFinal(c, k)
  PROVE  IInv'
<1> USE CallAssumption, NoneAssumption DEF IInv, WriteFinal, Become, disk
<1>1. TypeOK'
  BY DEF TypeOK, Phases
<1>2. EntryOfWriter'
  BY DEF TypeOK, EntryOfWriter, CallPhases, CallInv, UnfinishedHolds
<1>3. ASSUME NEW d \in Calls PROVE CallInv(d)'
  <2>0. CallInv(c) /\ CallInv(d)
    BY DEF CallPhases
  <2>1. CASE d = c
    BY <2>0, <2>1 DEF TypeOK, CallInv, UnfinishedHolds, EntryOfWriter, PromiseOfRequest
  <2>2. CASE d # c
    BY <2>0, <2>2 DEF TypeOK, CallInv, UnfinishedHolds, EntryOfWriter
  <2> QED BY <2>1, <2>2
<1>4. UnfinishedHolds'
  BY DEF TypeOK, UnfinishedHolds, CallPhases, CallInv, EntryOfWriter
<1>5. PromiseOfRequest'
  BY DEF TypeOK, PromiseOfRequest
<1>6. OutcomeAfterFinal'
  BY DEF TypeOK, OutcomeAfterFinal, CallPhases, CallInv
<1> QED BY <1>1, <1>2, <1>3, <1>4, <1>5, <1>6 DEF CallPhases

LEMMA FinishFailsIInv ==
  ASSUME NEW c \in Calls, IInv, FinishFails(c)
  PROVE  IInv'
<1> USE CallAssumption, NoneAssumption DEF IInv, FinishFails, Become, disk
<1>1. TypeOK'
  BY DEF TypeOK, Phases
<1>2. EntryOfWriter'
  BY DEF TypeOK, EntryOfWriter, CallPhases, CallInv, UnfinishedHolds
<1>3. ASSUME NEW d \in Calls PROVE CallInv(d)'
  <2>0. CallInv(c) /\ CallInv(d)
    BY DEF CallPhases
  <2>1. CASE d = c
    BY <2>0, <2>1 DEF TypeOK, CallInv, UnfinishedHolds, EntryOfWriter, PromiseOfRequest
  <2>2. CASE d # c
    BY <2>0, <2>2 DEF TypeOK, CallInv, UnfinishedHolds, EntryOfWriter
  <2> QED BY <2>1, <2>2
<1>4. UnfinishedHolds'
  BY DEF TypeOK, UnfinishedHolds, CallPhases, CallInv, EntryOfWriter
<1>5. PromiseOfRequest'
  BY DEF TypeOK, PromiseOfRequest
<1>6. OutcomeAfterFinal'
  BY DEF TypeOK, OutcomeAfterFinal, CallPhases, CallInv
<1> QED BY <1>1, <1>2, <1>3, <1>4, <1>5, <1>6 DEF CallPhases

LEMMA SettleIInv ==
  ASSUME NEW c \in Calls, IInv, Settle(c)
  PROVE  IInv'
<1> USE CallAssumption, NoneAssumption DEF IInv, Settle, Become, disk
<1>1. TypeOK'
  BY DEF TypeOK, Phases
<1>2. EntryOfWriter'
  BY DEF TypeOK, EntryOfWriter, CallPhases, CallInv, UnfinishedHolds
<1>3. ASSUME NEW d \in Calls PROVE CallInv(d)'
  <2>0. CallInv(c) /\ CallInv(d)
    BY DEF CallPhases
  <2>1. CASE d = c
    BY <2>0, <2>1 DEF TypeOK, CallInv, UnfinishedHolds, EntryOfWriter, PromiseOfRequest
  <2>2. CASE d # c
    BY <2>0, <2>2 DEF TypeOK, CallInv, UnfinishedHolds, EntryOfWriter
  <2> QED BY <2>1, <2>2
<1>4. UnfinishedHolds'
  BY DEF TypeOK, UnfinishedHolds, CallPhases, CallInv, EntryOfWriter
<1>5. PromiseOfRequest'
  BY DEF TypeOK, PromiseOfRequest
<1>6. OutcomeAfterFinal'
  BY DEF TypeOK, OutcomeAfterFinal, CallPhases, CallInv
<1> QED BY <1>1, <1>2, <1>3, <1>4, <1>5, <1>6 DEF CallPhases

LEMMA RecordOutcomeIInv ==
  ASSUME NEW c \in Calls, IInv, RecordOutcome(c)
  PROVE  IInv'
<1> USE CallAssumption, NoneAssumption DEF IInv, RecordOutcome, Become, disk
<1>1. TypeOK'
  BY DEF TypeOK, Phases
<1>2. EntryOfWriter'
  BY DEF TypeOK, EntryOfWriter, CallPhases, CallInv, UnfinishedHolds
<1>3. ASSUME NEW d \in Calls PROVE CallInv(d)'
  <2>0. CallInv(c) /\ CallInv(d)
    BY DEF CallPhases
  <2>1. CASE d = c
    BY <2>0, <2>1 DEF TypeOK, CallInv, UnfinishedHolds, EntryOfWriter, PromiseOfRequest
  <2>2. CASE d # c
    BY <2>0, <2>2 DEF TypeOK, CallInv, UnfinishedHolds, EntryOfWriter
  <2> QED BY <2>1, <2>2
<1>4. UnfinishedHolds'
  BY DEF TypeOK, UnfinishedHolds, CallPhases, CallInv, EntryOfWriter
<1>5. PromiseOfRequest'
  BY DEF TypeOK, PromiseOfRequest
<1>6. OutcomeAfterFinal'
  BY DEF TypeOK, OutcomeAfterFinal, CallPhases, CallInv
<1> QED BY <1>1, <1>2, <1>3, <1>4, <1>5, <1>6 DEF CallPhases

LEMMA JoinIInv ==
  ASSUME NEW c \in Calls, IInv, Join(c)
  PROVE  IInv'
<1> USE CallAssumption, NoneAssumption DEF IInv, Join, Become, disk, Taken, Promised
<1>1. TypeOK'
  <2>1. RequestOf[c] \in Requests /\ GatewayOf[c] \in Gateways
    OBVIOUS
  <2>2. Promised(c) \in Calls
    BY <2>1 DEF TypeOK
  <2>3. source' \in [Calls -> Calls \cup {None}] /\ phase' \in [Calls -> Phases]
    BY <2>2 DEF TypeOK, Phases
  <2> QED BY <2>3 DEF TypeOK
<1>2. EntryOfWriter'
  BY DEF TypeOK, EntryOfWriter, CallPhases, CallInv, UnfinishedHolds
<1>3. ASSUME NEW d \in Calls PROVE CallInv(d)'
  <2>0. CallInv(c) /\ CallInv(d)
    BY DEF CallPhases
  <2>1. CASE d = c
    <3>1. RequestOf[c] \in Requests /\ GatewayOf[c] \in Gateways
      OBVIOUS
    <3>2. Promised(c) \in Calls /\ RequestOf[Promised(c)] = RequestOf[c]
      BY <3>1 DEF TypeOK, PromiseOfRequest
    <3>3. phase'[c] = "joined" /\ source'[c] = Promised(c)
      BY DEF TypeOK
    <3> QED BY <2>1, <3>2, <3>3 DEF CallInv
  <2>2. CASE d # c
    BY <2>0, <2>2 DEF TypeOK, CallInv, UnfinishedHolds, EntryOfWriter
  <2> QED BY <2>1, <2>2
<1>4. UnfinishedHolds'
  BY DEF TypeOK, UnfinishedHolds, CallPhases, CallInv, EntryOfWriter
<1>5. PromiseOfRequest'
  BY DEF TypeOK, PromiseOfRequest
<1>6. OutcomeAfterFinal'
  BY DEF TypeOK, OutcomeAfterFinal, CallPhases, CallInv
<1> QED BY <1>1, <1>2, <1>3, <1>4, <1>5, <1>6 DEF CallPhases

LEMMA JoinSettlesIInv ==
  ASSUME NEW c \in Calls, IInv, JoinSettles(c)
  PROVE  IInv'
<1> USE CallAssumption, NoneAssumption DEF IInv, JoinSettles, Become, disk
<1>1. TypeOK'
  BY DEF TypeOK, Phases
<1>2. EntryOfWriter'
  BY DEF TypeOK, EntryOfWriter, CallPhases, CallInv, UnfinishedHolds
<1>3. ASSUME NEW d \in Calls PROVE CallInv(d)'
  <2>0. CallInv(c) /\ CallInv(d)
    BY DEF CallPhases
  <2>1. CASE d = c
    <3>1. CallInv(source[c])
      BY <2>0 DEF CallPhases, CallInv
    <3>2. phase'[c] = "replayed" => source[c] \in durable
      BY <3>1 DEF TypeOK, CallInv
    <3>3. phase'[c] \in {"replayed", "threw"} /\ source' = source
      BY DEF TypeOK
    <3> QED BY <2>0, <2>1, <3>2, <3>3 DEF CallInv
  <2>2. CASE d # c
    BY <2>0, <2>2 DEF TypeOK, CallInv, UnfinishedHolds, EntryOfWriter
  <2> QED BY <2>1, <2>2
<1>4. UnfinishedHolds'
  BY DEF TypeOK, UnfinishedHolds, CallPhases, CallInv, EntryOfWriter
<1>5. PromiseOfRequest'
  BY DEF TypeOK, PromiseOfRequest
<1>6. OutcomeAfterFinal'
  BY DEF TypeOK, OutcomeAfterFinal, CallPhases, CallInv
<1> QED BY <1>1, <1>2, <1>3, <1>4, <1>5, <1>6 DEF CallPhases

LEMMA RejectReuseIInv ==
  ASSUME NEW c \in Calls, IInv, RejectReuse(c)
  PROVE  IInv'
<1> USE CallAssumption, NoneAssumption DEF IInv, RejectReuse, Become, disk, Taken
<1>1. TypeOK'
  BY DEF TypeOK, Phases
<1>2. EntryOfWriter'
  BY DEF TypeOK, EntryOfWriter, CallPhases, CallInv, UnfinishedHolds
<1>3. ASSUME NEW d \in Calls PROVE CallInv(d)'
  <2>0. CallInv(c) /\ CallInv(d)
    BY DEF CallPhases
  <2>1. CASE d = c
    BY <2>0, <2>1 DEF TypeOK, CallInv, UnfinishedHolds, EntryOfWriter, PromiseOfRequest
  <2>2. CASE d # c
    BY <2>0, <2>2 DEF TypeOK, CallInv, UnfinishedHolds, EntryOfWriter
  <2> QED BY <2>1, <2>2
<1>4. UnfinishedHolds'
  BY DEF TypeOK, UnfinishedHolds, CallPhases, CallInv, EntryOfWriter
<1>5. PromiseOfRequest'
  BY DEF TypeOK, PromiseOfRequest
<1>6. OutcomeAfterFinal'
  BY DEF TypeOK, OutcomeAfterFinal, CallPhases, CallInv
<1> QED BY <1>1, <1>2, <1>3, <1>4, <1>5, <1>6 DEF CallPhases

LEMMA ReplayIInv ==
  ASSUME NEW c \in Calls, IInv, Replay(c)
  PROVE  IInv'
<1> USE CallAssumption, NoneAssumption DEF IInv, Replay, Become, disk, Taken, Mismatch
<1>1. TypeOK'
  BY DEF TypeOK, Phases
<1>2. EntryOfWriter'
  BY DEF TypeOK, EntryOfWriter, CallPhases, CallInv, UnfinishedHolds
<1>3. ASSUME NEW d \in Calls PROVE CallInv(d)'
  <2>0. CallInv(c) /\ CallInv(d)
    BY DEF CallPhases
  <2>1. CASE d = c
    <3>1. RequestOf[c] \in Requests
      OBVIOUS
    <3>2. /\ writer[RequestOf[c]] \in durable
          /\ RequestOf[writer[RequestOf[c]]] = RequestOf[c]
          /\ DigestOf[writer[RequestOf[c]]] = DigestOf[c]
      BY <3>1 DEF TypeOK, EntryOfWriter
    <3>3. phase'[c] = "replayed" /\ source'[c] = writer[RequestOf[c]]
      BY DEF TypeOK
    <3> QED BY <2>1, <3>2, <3>3 DEF CallInv, TypeOK
  <2>2. CASE d # c
    BY <2>0, <2>2 DEF TypeOK, CallInv, UnfinishedHolds, EntryOfWriter
  <2> QED BY <2>1, <2>2
<1>4. UnfinishedHolds'
  BY DEF TypeOK, UnfinishedHolds, CallPhases, CallInv, EntryOfWriter
<1>5. PromiseOfRequest'
  BY DEF TypeOK, PromiseOfRequest
<1>6. OutcomeAfterFinal'
  BY DEF TypeOK, OutcomeAfterFinal, CallPhases, CallInv
<1> QED BY <1>1, <1>2, <1>3, <1>4, <1>5, <1>6 DEF CallPhases

LEMMA InDoubtIInv ==
  ASSUME NEW c \in Calls, IInv, InDoubt(c)
  PROVE  IInv'
<1> USE CallAssumption, NoneAssumption DEF IInv, InDoubt, Become, disk, Taken
<1>1. TypeOK'
  BY DEF TypeOK, Phases
<1>2. EntryOfWriter'
  BY DEF TypeOK, EntryOfWriter, CallPhases, CallInv, UnfinishedHolds
<1>3. ASSUME NEW d \in Calls PROVE CallInv(d)'
  <2>0. CallInv(c) /\ CallInv(d)
    BY DEF CallPhases
  <2>1. CASE d = c
    BY <2>0, <2>1 DEF TypeOK, CallInv, UnfinishedHolds, EntryOfWriter, PromiseOfRequest
  <2>2. CASE d # c
    BY <2>0, <2>2 DEF TypeOK, CallInv, UnfinishedHolds, EntryOfWriter
  <2> QED BY <2>1, <2>2
<1>4. UnfinishedHolds'
  BY DEF TypeOK, UnfinishedHolds, CallPhases, CallInv, EntryOfWriter
<1>5. PromiseOfRequest'
  BY DEF TypeOK, PromiseOfRequest
<1>6. OutcomeAfterFinal'
  BY DEF TypeOK, OutcomeAfterFinal, CallPhases, CallInv
<1> QED BY <1>1, <1>2, <1>3, <1>4, <1>5, <1>6 DEF CallPhases

LEMMA PruneIInv ==
  ASSUME NEW g \in Gateways, NEW S \in SUBSET Requests, NEW T \in SUBSET Requests,
         IInv, Prune(g, S, T)
  PROVE  IInv'
<1> USE CallAssumption, NoneAssumption DEF IInv, Prune, PrunableEntry
<1>1. TypeOK'
  BY DEF TypeOK
<1>2. EntryOfWriter'
  BY DEF TypeOK, EntryOfWriter
<1>3. ASSUME NEW d \in Calls PROVE CallInv(d)'
  <2>1. CallInv(d) /\ RequestOf[d] \in Requests
    BY DEF CallPhases
  <2> QED BY <2>1 DEF TypeOK, CallInv
<1>4. UnfinishedHolds'
  BY DEF TypeOK, UnfinishedHolds
<1>5. PromiseOfRequest'
  BY DEF PromiseOfRequest
<1>6. OutcomeAfterFinal'
  BY DEF TypeOK, OutcomeAfterFinal
<1> QED BY <1>1, <1>2, <1>3, <1>4, <1>5, <1>6 DEF CallPhases

LEMMA CrashIInv ==
  ASSUME NEW g \in Gateways, IInv, Crash(g)
  PROVE  IInv'
<1> USE CallAssumption, NoneAssumption DEF IInv, Crash, disk, Active
<1>1. TypeOK'
  BY DEF TypeOK, Phases
<1>2. EntryOfWriter'
  <2>1. ASSUME NEW c \in Calls
        PROVE  phase'[c] = phase[c] \/ phase'[c] = "lost"
    OBVIOUS
  <2> QED BY <2>1 DEF TypeOK, EntryOfWriter
<1>3. ASSUME NEW d \in Calls PROVE CallInv(d)'
  <2>1. CallInv(d)
    BY DEF CallPhases
  <2>2. phase'[d] = phase[d] \/ phase'[d] = "lost"
    OBVIOUS
  <2> QED BY <2>1, <2>2 DEF CallInv
<1>4. UnfinishedHolds'
  BY DEF UnfinishedHolds
<1>5. PromiseOfRequest'
  BY DEF TypeOK, PromiseOfRequest
<1>6. OutcomeAfterFinal'
  BY DEF OutcomeAfterFinal
<1> QED BY <1>1, <1>2, <1>3, <1>4, <1>5, <1>6 DEF CallPhases

LEMMA StutterIInv == IInv /\ UNCHANGED vars => IInv'
BY DEF IInv, vars, disk, TypeOK, EntryOfWriter, CallPhases, CallInv,
       UnfinishedHolds, PromiseOfRequest, OutcomeAfterFinal

LEMMA NextIInv == IInv /\ [Next]_vars => IInv'
<1> SUFFICES ASSUME IInv, [Next]_vars PROVE IInv'
  OBVIOUS
<1>1. ASSUME NEW c \in Calls, Invoke(c) PROVE IInv'
  BY <1>1, ClaimIInv, JoinIInv, RejectReuseIInv, ReplayIInv, InDoubtIInv DEF Invoke
<1>2. ASSUME NEW c \in Calls, Progress(c) PROVE IInv'
  BY <1>2, StartIInv, StartFailsIInv, FinishFailsIInv, SettleIInv,
     RecordOutcomeIInv, JoinSettlesIInv, WriteFinalIInv DEF Progress
<1>3. ASSUME NEW g \in Gateways, Crash(g) PROVE IInv'
  BY <1>3, CrashIInv
<1>4. ASSUME NEW g \in Gateways, NEW S \in SUBSET Requests,
             NEW T \in SUBSET Requests, Prune(g, S, T)
      PROVE  IInv'
  BY <1>4, PruneIInv
<1>5. CASE Done
  BY <1>5, StutterIInv DEF Done
<1>6. CASE UNCHANGED vars
  BY <1>6, StutterIInv
<1> QED BY <1>1, <1>2, <1>3, <1>4, <1>5, <1>6 DEF Next

THEOREM Invariance == Spec => []IInv
BY InitIInv, NextIInv, PTL DEF Spec

-----------------------------------------------------------------------------
(* The ledger is typed in every reachable state.                           *)
THEOREM TypeCorrect == Spec => []TypeOK
BY Invariance, PTL DEF IInv

(* No request identifier is executed twice unless the first execution was  *)
(* durably finished: over all processes, crashes, retries and prunings.    *)
THEOREM AtMostOneExecution == Spec => []OneExecution
<1>1. IInv => OneExecution
  BY DEF IInv, OneExecution, UnfinishedHolds
<1> QED BY <1>1, Invariance, PTL

(* A successful answer is that of a durable execution of the same request  *)
(* with the same digest.                                                   *)
THEOREM AnswersDurable == Spec => []AnswersAreDurableAndOwn
<1>1. IInv => AnswersAreDurableAndOwn
  BY DEF IInv, AnswersAreDurableAndOwn, Answered, CallPhases, CallInv
<1> QED BY <1>1, Invariance, PTL

(* What a step may not do to an in-doubt entry. *)
Frozen(r) ==
  /\ entry'[r] = entry[r] /\ writer'[r] = writer[r]
  /\ \A c \in executed' \ executed : RequestOf[c] # r

LEMMA DoubtStep ==
  ASSUME IInv, [Next]_vars, NEW r \in Requests, Doubtful(r)
  PROVE  Frozen(r)
<1> USE CallAssumption, NoneAssumption DEF Doubtful, Frozen
<1>0. TypeOK /\ entry[r] \notin {"absent", "final"}
  BY DEF IInv
<1>1. ASSUME NEW c \in Calls, Claim(c) PROVE Frozen(r)
  BY <1>0, <1>1 DEF Claim, TypeOK
<1>2. ASSUME NEW c \in Calls, phase[c] \in {"claimed", "running"}
      PROVE  RequestOf[c] # r /\ RequestOf[c] \in Requests
  BY <1>2 DEF IInv, CallPhases, CallInv, UnfinishedHolds
<1>3. ASSUME NEW c \in Calls, Start(c) PROVE Frozen(r)
  BY <1>0, <1>2, <1>3 DEF Start, TypeOK
<1>4. ASSUME NEW c \in Calls, NEW k \in Results, WriteFinal(c, k) PROVE Frozen(r)
  BY <1>0, <1>2, <1>4 DEF WriteFinal, TypeOK
<1>5. ASSUME NEW c \in Calls,
             \/ StartFails(c) \/ FinishFails(c) \/ Settle(c) \/ RecordOutcome(c)
             \/ JoinSettles(c) \/ Join(c) \/ RejectReuse(c) \/ Replay(c) \/ InDoubt(c)
      PROVE  Frozen(r)
  <2>1. entry' = entry /\ writer' = writer /\ executed' = executed
    BY <1>5 DEF StartFails, FinishFails, Settle, RecordOutcome, JoinSettles, Join,
                RejectReuse, Replay, InDoubt, disk
  <2> QED BY <2>1
<1>6. ASSUME NEW g \in Gateways, Crash(g) PROVE Frozen(r)
  BY <1>6 DEF Crash, disk
<1>7. ASSUME NEW g \in Gateways, NEW S \in SUBSET Requests,
             NEW T \in SUBSET Requests, Prune(g, S, T)
      PROVE  Frozen(r)
  BY <1>0, <1>7 DEF Prune, PrunableEntry
<1>8. CASE UNCHANGED vars
  BY <1>8 DEF vars
<1> QED BY <1>1, <1>3, <1>4, <1>5, <1>6, <1>7, <1>8 DEF Next, Invoke, Progress, Done

(* An in-doubt entry is frozen by every step of every process.             *)
THEOREM InDoubtForever == Spec => DoubtIsForever
<1>1. IInv /\ [Next]_vars =>
        [\A r \in Requests : Doubtful(r) =>
           /\ entry'[r] = entry[r] /\ writer'[r] = writer[r]
           /\ \A c \in executed' \ executed : RequestOf[c] # r]_vars
  BY DoubtStep DEF Frozen
<1> QED BY <1>1, Invariance, PTL DEF Spec, DoubtIsForever

\* What a step may not do to an entry that acceptance or recovery depends on.
Critical(r) == entry[r] = "final" /\ (result[writer[r]] = "failed" \/ Linked(r))
Retained(r) ==
  /\ Critical(r) => entry'[r] = "final" /\ writer'[r] = writer[r]
  /\ Linked(r) => outcome'[r] = outcome[r]

\* Only pruning takes a final entry or an outcome away, and it looks at both
\* first; a call that still writes holds an entry that is not final.
LEMMA CriticalStep ==
  ASSUME IInv, [Next]_vars, NEW r \in Requests
  PROVE  Retained(r)
<1> USE CallAssumption, NoneAssumption DEF Critical, Retained
<1>1. TypeOK
  BY DEF IInv
<1>2. ASSUME NEW c \in Calls, Claim(c) PROVE Retained(r)
  BY <1>1, <1>2 DEF Claim, TypeOK
<1>3. ASSUME NEW c \in Calls, phase[c] \in {"claimed", "running"}
      PROVE  entry[RequestOf[c]] # "final" /\ RequestOf[c] \in Requests
  BY <1>3 DEF IInv, CallPhases, CallInv, UnfinishedHolds
<1>4. ASSUME NEW c \in Calls, NEW k \in Results, Start(c) \/ WriteFinal(c, k) PROVE Retained(r)
  BY <1>1, <1>3, <1>4 DEF Start, WriteFinal, TypeOK
<1>5. ASSUME NEW c \in Calls, RecordOutcome(c) PROVE Retained(r)
  BY <1>1, <1>5 DEF RecordOutcome, Linked, TypeOK
<1>6. ASSUME NEW c \in Calls,
             \/ StartFails(c) \/ FinishFails(c) \/ Settle(c) \/ JoinSettles(c)
             \/ Join(c) \/ RejectReuse(c) \/ Replay(c) \/ InDoubt(c)
      PROVE  Retained(r)
  BY <1>6 DEF StartFails, FinishFails, Settle, JoinSettles, Join, RejectReuse, Replay, InDoubt, disk
<1>7. ASSUME NEW g \in Gateways, Crash(g) PROVE Retained(r)
  BY <1>7 DEF Crash, disk
<1>8. ASSUME NEW g \in Gateways, NEW S \in SUBSET Requests,
             NEW T \in SUBSET Requests, Prune(g, S, T)
      PROVE  Retained(r)
  BY <1>8 DEF Prune, PrunableEntry, PrunableOutcome, Linked
<1>9. CASE UNCHANGED vars
  BY <1>9 DEF vars
<1>10. Results # {}
  BY DEF Results
<1> QED BY <1>2, <1>4, <1>5, <1>6, <1>7, <1>8, <1>9, <1>10 DEF Next, Invoke, Progress, Done

\* No retry, prune, crash or restart takes away a failed result, a recorded
\* contract or the entry it is recorded for (prune(), recordOutcome()).
THEOREM CriticalIsKept == Spec => CriticalKept
<1>1. IInv /\ [Next]_vars =>
        [\A r \in Requests :
           /\ entry[r] = "final" /\ (result[writer[r]] = "failed" \/ Linked(r))
                => entry'[r] = "final" /\ writer'[r] = writer[r]
           /\ Linked(r) => outcome'[r] = outcome[r]]_vars
  BY CriticalStep DEF Retained, Critical
<1> QED BY <1>1, Invariance, PTL DEF Spec, CriticalKept

-----------------------------------------------------------------------------
(* Refinement: the status a step leaves or moves each request to.          *)

StatusMap == [r \in Requests |-> Status(r)]

\* A step that touches neither the entries nor a claimed or running call.
LEMMA StatusStutter ==
  ASSUME IInv, entry' = entry, writer' = writer,
         \A d \in Calls : \/ phase'[d] = phase[d]
                          \/ /\ phase[d] \notin {"claimed", "running"}
                             /\ phase'[d] \notin {"claimed", "running"}
  PROVE  StatusMap' = StatusMap
<1>1. ASSUME NEW r \in Requests PROVE Status(r)' = Status(r)
  <2>1. CASE entry[r] \in {"absent", "final"}
    BY <2>1 DEF Status
  <2>2. CASE entry[r] \notin {"absent", "final"}
    <3>1. writer[r] \in Calls
      BY <2>2 DEF IInv, TypeOK, EntryOfWriter
    <3> QED BY <2>2, <3>1 DEF Status
  <2> QED BY <2>1, <2>2
<1> QED BY <1>1 DEF StatusMap

\* A step of the call that holds the entry of its request.
LEMMA StatusOfHolder ==
  ASSUME IInv, NEW c \in Calls, NEW p \in Phases, Become(c, p),
         writer[RequestOf[c]] = c, writer' = writer,
         \A r \in Requests : r # RequestOf[c] => entry'[r] = entry[r]
  PROVE  \A r \in Requests : r # RequestOf[c] => Status(r)' = Status(r)
<1> SUFFICES ASSUME NEW r \in Requests, r # RequestOf[c]
             PROVE  Status(r)' = Status(r)
  OBVIOUS
<1>1. CASE entry[r] \in {"absent", "final"}
  BY <1>1 DEF Status
<1>2. CASE entry[r] \notin {"absent", "final"}
  <2>1. writer[r] \in Calls /\ RequestOf[writer[r]] = r
    BY <1>2 DEF IInv, TypeOK, EntryOfWriter
  <2>2. phase'[writer[r]] = phase[writer[r]]
    BY <2>1 DEF IInv, TypeOK, Become
  <2> QED BY <1>2, <2>1, <2>2 DEF Status
<1> QED BY <1>1, <1>2

LEMMA InitRefines == Init => Abstract!Init
BY DEF Init, Abstract!Init, Status

LEMMA MoveOne ==
  ASSUME NEW r \in Requests, NEW from, NEW to, Status(r) = from, Status(r)' = to,
         \A q \in Requests : q # r => Status(q)' = Status(q)
  PROVE  Abstract!Move(r, from, to)
BY DEF Abstract!Move

LEMMA ClaimRefines ==
  ASSUME IInv, NEW c \in Calls, Claim(c)
  PROVE  Abstract!Begin(RequestOf[c])
<1> DEFINE r == RequestOf[c]
<1>1. r \in Requests /\ TypeOK /\ EntryOfWriter
  BY CallAssumption DEF IInv
<1>2. Status(r) = "unused"
  BY DEF Claim, Status
<1>3. Status(r)' = "busy"
  BY <1>1 DEF Claim, Become, Status, TypeOK
<1>4. ASSUME NEW q \in Requests, q # r PROVE Status(q)' = Status(q)
  <2>1. entry'[q] = entry[q] /\ writer'[q] = writer[q]
    BY <1>1, <1>4 DEF Claim, TypeOK
  <2>2. CASE entry[q] \in {"absent", "final"}
    BY <2>1, <2>2 DEF Status
  <2>3. CASE entry[q] \notin {"absent", "final"}
    <3>1. writer[q] \in Calls /\ phase[writer[q]] # "idle"
      BY <1>1, <2>3 DEF TypeOK, EntryOfWriter
    <3>2. phase'[writer[q]] = phase[writer[q]]
      BY <1>1, <3>1 DEF Claim, Become, TypeOK
    <3> QED BY <2>1, <2>3, <3>2 DEF Status
  <2> QED BY <2>2, <2>3
<1> QED BY <1>1, <1>2, <1>3, <1>4, MoveOne DEF Abstract!Begin

LEMMA HolderOf ==
  ASSUME IInv, NEW c \in Calls, phase[c] \in {"claimed", "running"}
  PROVE  /\ RequestOf[c] \in Requests
         /\ writer[RequestOf[c]] = c
         /\ Status(RequestOf[c]) = "busy"
<1>1. RequestOf[c] \in Requests /\ writer[RequestOf[c]] = c
  BY CallAssumption DEF IInv, CallPhases, CallInv, UnfinishedHolds
<1>2. entry[RequestOf[c]] \in {"directory", "started"}
  BY DEF IInv, CallPhases, CallInv, UnfinishedHolds
<1> QED BY <1>1, <1>2 DEF Status

LEMMA StartRefines ==
  ASSUME IInv, NEW c \in Calls, Start(c)
  PROVE  StatusMap' = StatusMap
<1> DEFINE r == RequestOf[c]
<1>1. r \in Requests /\ writer[r] = c /\ Status(r) = "busy"
  BY HolderOf DEF Start
<1>2. Status(r)' = "busy"
  BY <1>1 DEF Start, Become, Status, IInv, TypeOK
<1>3. \A q \in Requests : q # r => Status(q)' = Status(q)
  BY <1>1, StatusOfHolder DEF Start, Phases, IInv, TypeOK
<1> QED BY <1>1, <1>2, <1>3 DEF StatusMap

LEMMA WriteFinalRefines ==
  ASSUME IInv, NEW c \in Calls, NEW k \in Results, WriteFinal(c, k)
  PROVE  Abstract!Complete(RequestOf[c])
<1> DEFINE r == RequestOf[c]
<1>1. r \in Requests /\ writer[r] = c /\ Status(r) = "busy"
  BY HolderOf DEF WriteFinal
<1>2. Status(r)' = "done"
  BY <1>1 DEF WriteFinal, Status, IInv, TypeOK
<1>3. \A q \in Requests : q # r => Status(q)' = Status(q)
  BY <1>1, StatusOfHolder DEF WriteFinal, Phases, IInv, TypeOK
<1> QED BY <1>1, <1>2, <1>3, MoveOne DEF Abstract!Complete

LEMMA FailureRefines ==
  ASSUME IInv, NEW c \in Calls, StartFails(c) \/ FinishFails(c)
  PROVE  Abstract!Interrupt({RequestOf[c]})
<1> DEFINE r == RequestOf[c]
<1>1. r \in Requests /\ writer[r] = c /\ Status(r) = "busy"
  BY HolderOf DEF StartFails, FinishFails
<1>2. entry[r] \notin {"absent", "final"} /\ entry' = entry /\ writer' = writer
  BY <1>1 DEF Status, StartFails, FinishFails, disk
<1>3. Become(c, "threw")
  BY DEF StartFails, FinishFails
<1>4. Status(r)' = "doubt"
  BY <1>1, <1>2, <1>3 DEF Become, Status, IInv, TypeOK
<1>5. \A q \in Requests : q # r => Status(q)' = Status(q)
  BY <1>1, <1>2, <1>3, StatusOfHolder DEF Phases
<1> QED BY <1>1, <1>4, <1>5 DEF Abstract!Interrupt

LEMMA CrashRefines ==
  ASSUME IInv, NEW g \in Gateways, Crash(g)
  PROVE  StatusMap' = StatusMap \/ \E S \in SUBSET Requests : Abstract!Interrupt(S)
<1> DEFINE Hit == {r \in Requests : Status(r) = "busy" /\ GatewayOf[writer[r]] = g}
<1>1. entry' = entry /\ writer' = writer
  BY DEF Crash, disk
<1>2. ASSUME NEW r \in Requests, entry[r] \notin {"absent", "final"}
      PROVE  /\ writer[r] \in Calls
             /\ phase'[writer[r]] = IF GatewayOf[writer[r]] = g /\ phase[writer[r]] \in Active
                                    THEN "lost" ELSE phase[writer[r]]
  BY <1>2 DEF IInv, TypeOK, EntryOfWriter, Crash
<1>3. ASSUME NEW r \in Hit PROVE Status(r)' = "doubt"
  <2>1. entry[r] \notin {"absent", "final"} /\ phase[writer[r]] \in {"claimed", "running"}
    BY DEF Status
  <2>2. phase'[writer[r]] = "lost"
    BY <1>2, <2>1 DEF Active
  <2> QED BY <1>1, <2>1, <2>2 DEF Status
<1>4. ASSUME NEW r \in Requests \ Hit PROVE Status(r)' = Status(r)
  <2>1. CASE entry[r] \in {"absent", "final"}
    BY <1>1, <2>1 DEF Status
  <2>2. CASE entry[r] \notin {"absent", "final"}
    BY <1>1, <1>2, <2>2 DEF Status
  <2> QED BY <2>1, <2>2
<1>5. CASE Hit = {}
  BY <1>4, <1>5 DEF StatusMap
<1>6. CASE Hit # {}
  BY <1>3, <1>4, <1>6 DEF Abstract!Interrupt
<1> QED BY <1>5, <1>6

LEMMA PruneRefines ==
  ASSUME IInv, NEW g \in Gateways, NEW S \in SUBSET Requests,
         NEW T \in SUBSET Requests, Prune(g, S, T)
  PROVE  StatusMap' = StatusMap \/ Abstract!Forget(S)
<1>1. ASSUME NEW r \in S PROVE Status(r) = "done" /\ Status(r)' = "unused"
  BY DEF Prune, PrunableEntry, Status
<1>2. ASSUME NEW r \in Requests \ S PROVE Status(r)' = Status(r)
  BY DEF Prune, Status
<1>3. CASE S = {}
  BY <1>2, <1>3 DEF StatusMap
<1>4. CASE S # {}
  BY <1>1, <1>2, <1>4 DEF Abstract!Forget
<1> QED BY <1>3, <1>4

LEMMA QuietRefines ==
  ASSUME IInv, NEW c \in Calls,
         \/ Settle(c) \/ RecordOutcome(c) \/ JoinSettles(c)
         \/ Join(c) \/ RejectReuse(c) \/ Replay(c) \/ InDoubt(c)
  PROVE  StatusMap' = StatusMap
<1>1. entry' = entry /\ writer' = writer
  BY DEF Settle, RecordOutcome, JoinSettles, Join, RejectReuse, Replay, InDoubt, disk
<1>2. phase[c] \notin {"claimed", "running"}
  BY DEF Settle, RecordOutcome, JoinSettles, Join, RejectReuse, Replay, InDoubt, Taken
<1>3. \E p \in Phases \ {"claimed", "running"} : Become(c, p)
  BY DEF Settle, RecordOutcome, JoinSettles, Join, RejectReuse, Replay, InDoubt, Phases
<1>4. \A d \in Calls : \/ phase'[d] = phase[d]
                        \/ /\ phase[d] \notin {"claimed", "running"}
                           /\ phase'[d] \notin {"claimed", "running"}
  BY <1>2, <1>3 DEF Become, IInv, TypeOK
<1> QED BY <1>1, <1>4, StatusStutter

LEMMA StepRefines == IInv /\ [Next]_vars => [Abstract!Next]_StatusMap
<1> SUFFICES ASSUME IInv, [Next]_vars
             PROVE  Abstract!Next \/ StatusMap' = StatusMap
  OBVIOUS
<1>1. ASSUME NEW c \in Calls, Invoke(c) \/ Progress(c)
      PROVE  Abstract!Next \/ StatusMap' = StatusMap
  <2>1. RequestOf[c] \in Requests
    BY CallAssumption
  <2>2. CASE Claim(c)
    BY <2>1, <2>2, ClaimRefines DEF Abstract!Next
  <2>3. CASE \E k \in Results : WriteFinal(c, k)
    BY <2>1, <2>3, WriteFinalRefines DEF Abstract!Next
  <2>4. CASE StartFails(c) \/ FinishFails(c)
    BY <2>1, <2>4, FailureRefines DEF Abstract!Next
  <2>5. CASE Start(c)
    BY <2>5, StartRefines
  <2> QED BY <1>1, <2>2, <2>3, <2>4, <2>5, QuietRefines DEF Invoke, Progress
<1>2. ASSUME NEW g \in Gateways, Crash(g)
      PROVE  Abstract!Next \/ StatusMap' = StatusMap
  BY <1>2, CrashRefines DEF Abstract!Next
<1>3. ASSUME NEW g \in Gateways, NEW S \in SUBSET Requests,
             NEW T \in SUBSET Requests, Prune(g, S, T)
      PROVE  Abstract!Next \/ StatusMap' = StatusMap
  BY <1>3, PruneRefines DEF Abstract!Next
<1>4. CASE UNCHANGED vars
  BY <1>4 DEF vars, StatusMap, Status
<1> QED BY <1>1, <1>2, <1>3, <1>4 DEF Next, Done

(* The ledger implements the at-most-once register for all its constants.  *)
THEOREM LedgerRefines == Spec => ImplementsAtMostOnce
<1>1. Spec => [][Abstract!Next]_StatusMap
  BY StepRefines, Invariance, PTL DEF Spec
<1>2. Spec => Abstract!Init
  BY InitRefines DEF Spec
<1> QED BY <1>1, <1>2, PTL DEF ImplementsAtMostOnce, Abstract!Spec, StatusMap

=============================================================================
