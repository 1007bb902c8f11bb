------------------------- MODULE TaskMonitorProofs -------------------------
(***************************************************************************)
(* Proofs about TaskMonitor. Sound says, of one request, how its record,    *)
(* its answers, its file and the ledger's verification belong together;     *)
(* dropping saved records keeps it (DroppingSound), so each handler has to  *)
(* be looked at for the one record it changes (OneRecordStep). What is left *)
(* is who sleeps, that protected requests have one call, and that nothing   *)
(* is in flight once the drain has begun (Quiet), from which the disposal   *)
(* of the gateway follows.                                                  *)
(***************************************************************************)
EXTENDS TaskMonitor, TLAPS

\* The ways in of a request: none is both submitted and dispatched.
OneWayIn == \A c \in Calls : RequestOf[c] \notin Monitored

-----------------------------------------------------------------------------
(* What is so of one request: r has the record m and n answers, the file d and *)
(* the ledger's verification h.                                                *)

Finished(m) == m # None /\ m.state \in Terminal
Unfinished(m) == m # None /\ m.state \notin Terminal
Saved(n, d) == d # None /\ d.body = n

\* A run that is not over has answered nothing, and one of a protected request is
\* the first.
Waits(r, m, n) ==
  /\ m.body = 0 /\ ~m.persisted /\ m.write = None /\ m.run # None
  /\ r \in Monitored /\ (r \in Protected => n = 0)

\* The answer of a task that is over is in the file or in the record, and a write of
\* this answer writes the state it belongs to.
Keeps(m, n, d) ==
  /\ m.run = None /\ n > 0
  /\ m.persisted => m.body = 0 /\ m.write = None /\ d = [body |-> n, state |-> m.state]
  /\ ~m.persisted => m.body = n
  /\ m.write # None => m.write.body <= n /\ (m.write.body = n => m.write.state = m.state)

Sound(r, m, n, d, h) ==
  /\ Finished(m) \/ n = 0 \/ Saved(n, d)
  /\ Unfinished(m) => Waits(r, m, n)
  /\ Finished(m) => Keeps(m, n, d)
  /\ h # None => r \in Protected /\ n > 0 /\ (m # None => m.state \in {h, "cancelled"})

RecordsSound == \A r \in Requests : Sound(r, rec[r], answers[r], disk[r], host[r])

\* A protected request is dispatched by one call, before it has an answer.
OneCall ==
  \A c \in Calls : call[c] \notin {"idle", "done"} /\ RequestOf[c] \in Protected =>
    /\ answers[RequestOf[c]] = 0
    /\ \A d \in Calls : RequestOf[d] = RequestOf[c] /\ call[d] \notin {"idle", "done"} => d = c

\* Nothing is in flight once the drain has begun.
Quiet ==
  closed => /\ \A r \in Known(rec) : rec[r].run = None
            /\ \A c \in Calls : call[c] \in {"idle", "done"}

MInv == TypeOK /\ RecordsSound /\ OneCall /\ Quiet /\ DisposedIsDurable /\ NoSleeperLeft

-----------------------------------------------------------------------------
(* The operators *)

\* Starting to write an answer, or leaving it to the write that is under way.
LEMMA PersistingKeeps ==
  ASSUME NEW m \in Record, m.state \in Terminal
  PROVE  /\ Persisting(m) \in Record
         /\ Persisting(m).state = m.state /\ Persisting(m).body = m.body
         /\ Persisting(m).persisted = m.persisted /\ Persisting(m).run = m.run
         /\ \/ Persisting(m).write = m.write
            \/ ~m.persisted /\ Persisting(m).write = [body |-> m.body, state |-> m.state]
<1>1. CASE m.persisted \/ m.body = 0 \/ m.write # None BY <1>1 DEF Persisting
<1>2. CASE ~(m.persisted \/ m.body = 0 \/ m.write # None)
  <2> DEFINE w == [body |-> m.body, state |-> m.state]
  <2>1. w \in Answer BY <1>2, MonitorAssumption DEF Answer, Record
  <2>2. Persisting(m) = [m EXCEPT !.write = w] BY <1>2 DEF Persisting
  <2>3. QED BY <1>2, <2>1, <2>2 DEF Record
<1>3. QED BY <1>1, <1>2

\* The write that begins is of the answer the record holds, with its state.
LEMMA PersistingSound ==
  ASSUME NEW r \in Requests, NEW m \in Record, NEW n \in 0..MaxAnswers, NEW d, NEW h,
         m.state \in Terminal, Sound(r, m, n, d, h)
  PROVE  Persisting(m) \in Record /\ Persisting(m).state = m.state /\ Persisting(m).run = m.run
         /\ Sound(r, Persisting(m), n, d, h)
<1> DEFINE p == Persisting(m)
<1>1. /\ p \in Record /\ p.state = m.state /\ p.body = m.body
      /\ p.persisted = m.persisted /\ p.run = m.run
      /\ \/ p.write = m.write
         \/ ~m.persisted /\ p.write = [body |-> m.body, state |-> m.state]
  BY PersistingKeeps
<1> HIDE DEF p
<1>2. p # None /\ m # None BY <1>1, NoneAssumption
<1>3. Finished(m) /\ Finished(p) BY <1>1, <1>2 DEF Finished
<1>4. Keeps(m, n, d) BY <1>3 DEF Sound
<1>5. Keeps(p, n, d) BY <1>1, <1>4, MonitorAssumption DEF Keeps
<1>6. Sound(r, p, n, d, h) BY <1>1, <1>2, <1>3, <1>5 DEF Sound, Finished, Unfinished
<1>7. QED BY <1>1, <1>6 DEF p

\* What may be dropped has its answer in the file.
LEMMA DroppedSound ==
  ASSUME NEW r \in Requests, NEW m \in Record, NEW n \in 0..MaxAnswers, NEW d, NEW h,
         Finished(m), m.body = 0 \/ m.persisted, Sound(r, m, n, d, h)
  PROVE  Sound(r, None, n, d, h)
<1>1. Keeps(m, n, d) BY DEF Sound
<1>2. m.persisted BY <1>1, MonitorAssumption DEF Keeps, Record
<1>3. d = [body |-> n, state |-> m.state] /\ n > 0 BY <1>1, <1>2 DEF Keeps
<1>4. d \in Answer BY <1>3, MonitorAssumption DEF Finished, Answer
<1>5. Saved(n, d) BY <1>3, <1>4, NoneAssumption DEF Saved
<1>6. QED BY <1>5 DEF Sound, Finished, Unfinished

Records == [Requests -> Record \cup {None}]

\* The records rt are those of rs without some that may be dropped.
Dropping(rs, rt) ==
  /\ rt \in Records
  /\ \A r \in Requests : rt[r] = rs[r] \/ (rt[r] = None /\ r \in Droppable(rs))

\* trim() drops records whose answer is saved, whatever the count asks for.
LEMMA DropsAreDroppable ==
  ASSUME NEW rs \in Records, NEW d \in Drops(rs)
  PROVE  Dropping(rs, Without(rs, d))
<1>1. d \subseteq Droppable(rs) BY DEF Drops
<1>2. QED BY <1>1 DEF Dropping, Without, Records

\* What a handler leaves is what its trim() was given, less such records.
LEMMA TrimmedDrops ==
  ASSUME NEW rs \in Records, Trimmed(rs)
  PROVE  Dropping(rs, rec')
BY DropsAreDroppable DEF Trimmed

\* reserve() makes room by dropping such records only.
LEMMA RoomDrops ==
  ASSUME rec \in Records, NEW rs \in {rec} \cup WithRoom
  PROVE  Dropping(rec, rs)
<1>1. CASE rs = rec BY <1>1 DEF Dropping
<1>2. CASE rs \in WithRoom
  <2>1. PICK k \in {Without(rec, d) : d \in Drops(rec)} :
          \/ rs = k
          \/ \E x \in Ended(k) : k[x].persisted /\ rs = Without(k, {x})
    BY <1>2 DEF WithRoom
  <2>2. Dropping(rec, k) BY DropsAreDroppable
  <2>3. CASE rs = k BY <2>2, <2>3
  <2>4. ASSUME NEW x \in Ended(k), k[x].persisted, rs = Without(k, {x}) PROVE Dropping(rec, rs)
    <3>1. k \in Records /\ x \in Requests /\ k[x] # None /\ k[x].state \in Terminal
      BY <2>2 DEF Dropping, Ended, Known
    <3>2. k[x] = rec[x] BY <2>2, <3>1 DEF Dropping
    <3>3. x \in Droppable(rec) BY <2>4, <3>1, <3>2 DEF Droppable, Ended, Known, Sole
    <3>4. rs = [r \in Requests |-> IF r = x THEN None ELSE k[r]] BY <2>4 DEF Without
    <3>5. QED BY <2>2, <3>1, <3>3, <3>4 DEF Dropping, Records
  <2>5. QED BY <2>1, <2>3, <2>4
<1>3. QED BY <1>1, <1>2

\* Dropping records keeps what is so of each request.
LEMMA DroppingSound ==
  ASSUME NEW rs \in Records, NEW rt, Dropping(rs, rt),
         NEW an \in [Requests -> 0..MaxAnswers], NEW dk, NEW ho,
         \A r \in Requests : Sound(r, rs[r], an[r], dk[r], ho[r])
  PROVE  /\ rt \in Records
         /\ \A r \in Requests : Sound(r, rt[r], an[r], dk[r], ho[r])
         /\ \A r \in Requests : rt[r] = rs[r] \/ (rt[r] = None /\ Finished(rs[r]))
<1>1. ASSUME NEW r \in Requests, rt[r] = None, r \in Droppable(rs)
      PROVE  Finished(rs[r]) /\ Sound(r, rt[r], an[r], dk[r], ho[r])
  <2>1. rs[r] # None /\ rs[r].state \in Terminal BY <1>1 DEF Droppable, Ended, Known
  <2>2. rs[r].body = 0 \/ rs[r].persisted BY <1>1 DEF Droppable, Sole
  <2>3. rs[r] \in Record /\ an[r] \in 0..MaxAnswers BY <2>1 DEF Records
  <2>4. Finished(rs[r]) BY <2>1 DEF Finished
  <2>5. QED BY <1>1, <2>2, <2>3, <2>4, DroppedSound
<1>2. QED BY <1>1 DEF Dropping

\* What holds of the records that a handler leaves holds after its trim().
LEMMA Trimming ==
  ASSUME NEW rs \in Records, Trimmed(rs), NEW an \in [Requests -> 0..MaxAnswers], NEW dk, NEW ho,
         \A r \in Requests : Sound(r, rs[r], an[r], dk[r], ho[r])
  PROVE  /\ rec' \in Records
         /\ \A r \in Requests : Sound(r, rec'[r], an[r], dk[r], ho[r])
         /\ \A r \in Requests : rec'[r] = rs[r] \/ (rec'[r] = None /\ Finished(rs[r]))
BY TrimmedDrops, DroppingSound

\* A waiter that is not woken sleeps on a task that goes on.
LEMMA StillAwake ==
  ASSUME NoSleeperLeft, waiting' = waiting,
         \A r \in Requests : Unfinished(rec[r]) => Unfinished(rec'[r]),
         TypeOK
  PROVE  NoSleeperLeft'
BY DEF NoSleeperLeft, Unfinished, TypeOK

-----------------------------------------------------------------------------
(* The tasks: each handler keeps the types, what is so of each request, and the *)
(* sleepers                                                                     *)

Core == TypeOK /\ RecordsSound /\ NoSleeperLeft

\* A gateway starts with no record, no answer and nobody asleep.
LEMMA InitHolds ==
  ASSUME Init
  PROVE  MInv
<1> USE DEF Init
<1>1. TypeOK BY MonitorAssumption DEF TypeOK
<1>2. RecordsSound BY DEF RecordsSound, Sound, Finished, Unfinished
<1>3. OneCall BY DEF OneCall
<1>4. Quiet BY DEF Quiet, closed
<1>5. DisposedIsDurable /\ NoSleeperLeft BY DEF DisposedIsDurable, NoSleeperLeft
<1>6. QED BY <1>1, <1>2, <1>3, <1>4, <1>5 DEF MInv

\* Typing of what is left when a reservation is made and released.
LEMMA ReserveTypes ==
  ASSUME TypeOK, NEW r \in Requests, NEW mine \in Token, NEW rs \in {rec} \cup WithRoom,
         NEW token, Reserve(r, mine, rs, token)
  PROVE  /\ token \in Token /\ reserved' \in [Requests -> Token \cup {None}]
         /\ ~closed /\ Dropping(rec, rs)
<1>1. rec \in Records BY DEF TypeOK, Records
<1>2. Dropping(rec, rs) BY <1>1, RoomDrops
<1>3. token \in Token BY DEF Reserve, TypeOK
<1>4. reserved' \in [Requests -> Token \cup {None}] BY <1>3 DEF Reserve, TypeOK
<1>5. QED BY <1>2, <1>3, <1>4 DEF Reserve, accepting

\* A new record has no answer, and what room it needs costs no sole copy.
LEMMA SubmitStep ==
  ASSUME Core, NEW r \in Requests, Submit(r)
  PROVE  Core'
<1> USE DEF Core
<1>1. /\ phase = "running" /\ r \in Monitored /\ rec[r] = None /\ Free(r)
      /\ UNCHANGED <<answers, disk, host, call, waiting, phase, faults>>
  BY DEF Submit
<1>2. PICK rs \in {rec} \cup WithRoom, token \in {r, reserved[r]} :
        /\ Reserve(r, r, rs, token)
        /\ Trimmed([rs EXCEPT ![r] = [Fresh("queued") EXCEPT !.run = token]])
  BY DEF Submit
<1>3. r \in Token BY DEF Token
<1>4. token \in Token /\ reserved' \in [Requests -> Token \cup {None}] /\ Dropping(rec, rs)
  BY <1>2, <1>3, ReserveTypes
<1>5. rec \in Records /\ answers \in [Requests -> 0..MaxAnswers] BY DEF TypeOK, Records
<1>6. /\ rs \in Records
      /\ \A s \in Requests : Sound(s, rs[s], answers[s], disk[s], host[s])
      /\ \A s \in Requests : rs[s] = rec[s] \/ (rs[s] = None /\ Finished(rec[s]))
  BY <1>4, <1>5, DroppingSound DEF RecordsSound
<1> DEFINE m == [Fresh("queued") EXCEPT !.run = token]
           rt == [rs EXCEPT ![r] = m]
<1>7. /\ m \in Record /\ m.state = "queued" /\ m.body = 0 /\ ~m.persisted
      /\ m.write = None /\ m.run = token
  <2>1. 0 \in 0..MaxAnswers BY MonitorAssumption
  <2>2. "queued" \in States BY DEF States
  <2> DEFINE f == Fresh("queued")
  <2>3. f \in Record BY <2>1, <2>2 DEF Record, Fresh
  <2>4. /\ f.state = "queued" /\ f.body = 0 /\ ~f.persisted /\ f.write = None
    BY DEF Fresh
  <2>5. QED BY <1>4, <2>3, <2>4 DEF Record
<1> HIDE DEF m
<1>8. m # None /\ token # None BY <1>4, <1>7, NoneAssumption DEF Token
<1>9. Unfinished(m) /\ ~Finished(m) BY <1>7, <1>8 DEF Unfinished, Finished, Terminal
<1>10. rt \in Records BY <1>6, <1>7 DEF Records
<1>11. Sound(r, m, answers[r], disk[r], host[r])
  <2>1. Sound(r, None, answers[r], disk[r], host[r]) BY <1>1 DEF RecordsSound
  <2>2. answers[r] = 0 \/ Saved(answers[r], disk[r]) BY <2>1 DEF Sound, Finished
  <2>3. Waits(r, m, answers[r]) BY <1>1, <1>7, <1>8 DEF Waits, Free
  <2>4. host[r] = None BY <1>1, <2>1, <1>5 DEF Sound, Free
  <2>5. QED BY <1>9, <2>2, <2>3, <2>4 DEF Sound
<1>12. \A s \in Requests : Sound(s, rt[s], answers[s], disk[s], host[s]) BY <1>6, <1>11 DEF Records
<1>13. /\ rec' \in Records
       /\ \A s \in Requests : Sound(s, rec'[s], answers[s], disk[s], host[s])
       /\ \A s \in Requests : rec'[s] = rt[s] \/ (rec'[s] = None /\ Finished(rt[s]))
  BY <1>2, <1>5, <1>10, <1>12, Trimming DEF m
<1>14. \A s \in Requests : Unfinished(rec[s]) => Unfinished(rec'[s])
  BY <1>1, <1>6, <1>9, <1>13 DEF Unfinished, Finished, Records
<1>15. TypeOK' BY <1>1, <1>4, <1>13 DEF TypeOK, Records
<1>16. RecordsSound' BY <1>1, <1>13 DEF RecordsSound
<1>17. NoSleeperLeft' BY <1>1, <1>14, StillAwake
<1>18. QED BY <1>15, <1>16, <1>17

\* The scheduler reaches a task, or the host cancels it: it goes on until it settles.
LEMMA GoesOnStep ==
  ASSUME Core, NEW r \in Requests, Begin(r) \/ Cancel(r)
  PROVE  Core'
<1> USE DEF Core
<1>1. PICK s \in {"running", "cancelling"} :
        /\ rec[r] # None /\ rec[r].state \in {"queued", "running"}
        /\ rec' = [rec EXCEPT ![r].state = s]
        /\ UNCHANGED <<answers, disk, host, reserved, call, waiting, phase, faults>>
  BY DEF Begin, Cancel
<1> DEFINE m == [rec[r] EXCEPT !.state = s]
<1>2. rec[r] \in Record BY <1>1 DEF TypeOK
<1>3. /\ m \in Record /\ m.state = s /\ m.body = rec[r].body /\ m.persisted = rec[r].persisted
      /\ m.write = rec[r].write /\ m.run = rec[r].run
  BY <1>2 DEF Record, States
<1>4. rec' = [rec EXCEPT ![r] = m] BY <1>1
<1> HIDE DEF m
<1>5. Unfinished(m) /\ ~Finished(m) /\ Unfinished(rec[r]) /\ ~Finished(rec[r])
  BY <1>1, <1>3, NoneAssumption DEF Unfinished, Finished, Terminal
<1>6. Sound(r, m, answers[r], disk[r], host[r])
  <2>1. Sound(r, rec[r], answers[r], disk[r], host[r]) BY DEF RecordsSound
  <2>2. Waits(r, rec[r], answers[r]) BY <1>5, <2>1 DEF Sound
  <2>3. Waits(r, m, answers[r]) BY <1>3, <2>2 DEF Waits
  <2>4. answers[r] \in Nat BY MonitorAssumption DEF TypeOK
  <2>5. host[r] = None BY <2>1, <2>2, <2>4 DEF Sound, Waits
  <2>6. QED BY <1>5, <2>1, <2>3, <2>5 DEF Sound
<1>7. \A t \in Requests : t # r => rec'[t] = rec[t] BY <1>4 DEF TypeOK
<1>8. rec'[r] = m BY <1>4 DEF TypeOK
<1>9. TypeOK' BY <1>1, <1>3, <1>4 DEF TypeOK
<1>10. RecordsSound' BY <1>1, <1>6, <1>7, <1>8 DEF RecordsSound
<1>11. NoSleeperLeft' BY <1>1, <1>5, <1>7, <1>8, StillAwake
<1>12. QED BY <1>9, <1>10, <1>11

\* What a handler does to the record of one request, writes it and trims.
LEMMA OneRecordStep ==
  ASSUME Core, NEW r \in Requests, NEW m \in Record, NEW n \in 0..MaxAnswers, NEW h,
         m.state \in Terminal, Sound(r, m, n, disk'[r], h),
         NEW p \in {m, Persisting(m)}, Trimmed([rec EXCEPT ![r] = p]),
         answers' = [answers EXCEPT ![r] = n], host' = [host EXCEPT ![r] = h],
         \A s \in Requests : s # r => disk'[s] = disk[s]
  PROVE  /\ rec' \in Records
         /\ \A s \in Requests : s # r => rec'[s] = rec[s] \/ (rec'[s] = None /\ Finished(rec[s]))
         /\ rec'[r] # None => rec'[r].run = m.run
         /\ RecordsSound'
<1> USE DEF Core
<1>1. p \in Record /\ p.state = m.state /\ p.run = m.run /\ Sound(r, p, n, disk'[r], h)
  BY PersistingSound
<1> DEFINE rs == [rec EXCEPT ![r] = p]
<1>2. rs \in Records BY <1>1 DEF TypeOK, Records
<1>3. answers' \in [Requests -> 0..MaxAnswers] BY DEF TypeOK
<1>4. ASSUME NEW s \in Requests PROVE Sound(s, rs[s], answers'[s], disk'[s], host'[s])
  <2>1. CASE s = r
    <3>1. rs[s] = p /\ answers'[s] = n /\ host'[s] = h BY <2>1 DEF TypeOK
    <3>2. QED BY <1>1, <2>1, <3>1
  <2>2. CASE s # r
    <3>1. rs[s] = rec[s] /\ answers'[s] = answers[s] /\ host'[s] = host[s] /\ disk'[s] = disk[s]
      BY <2>2 DEF TypeOK
    <3>2. QED BY <3>1 DEF RecordsSound
  <2>3. QED BY <2>1, <2>2
<1>5. /\ rec' \in Records
      /\ \A s \in Requests : Sound(s, rec'[s], answers'[s], disk'[s], host'[s])
      /\ \A s \in Requests : rec'[s] = rs[s] \/ (rec'[s] = None /\ Finished(rs[s]))
  BY <1>2, <1>3, <1>4, Trimming
<1>6. rs[r] = p /\ \A s \in Requests : s # r => rs[s] = rec[s] BY DEF TypeOK
<1>7. QED BY <1>1, <1>5, <1>6 DEF RecordsSound

\* Whoever slept on the task that ended is woken, and told its state.
LEMMA WokenAwake ==
  ASSUME TypeOK, NoSleeperLeft, NEW r \in Requests, NEW s \in States, waiting' = Woken(r, s),
         \A t \in Requests : t # r /\ Unfinished(rec[t]) => Unfinished(rec'[t])
  PROVE  /\ waiting' \in [Waiters -> [on : Requests \cup {None}, told : States \cup {None}]]
         /\ NoSleeperLeft'
<1>1. ASSUME NEW w \in Waiters
      PROVE  waiting'[w] = IF waiting[w].on = r THEN [on |-> None, told |-> s] ELSE waiting[w]
  BY DEF Woken
<1>2. ASSUME NEW w \in Waiters, waiting'[w].on # None
      PROVE  /\ waiting'[w].on = waiting[w].on /\ waiting[w].on # r /\ waiting[w].on \in Requests
  BY <1>1, <1>2 DEF TypeOK
<1>3. waiting' \in [Waiters -> [on : Requests \cup {None}, told : States \cup {None}]]
  BY DEF Woken, TypeOK
<1>4. QED BY <1>2, <1>3 DEF NoSleeperLeft, Unfinished

\* A run that is over leaves its answer in the record, and its sleepers are told.
LEMMA SettleStep ==
  ASSUME Core, NEW r \in Requests, NEW outcome \in {"completed", "failed", "awaiting"},
         Settle(r, outcome)
  PROVE  Core'
<1> USE DEF Core
<1> DEFINE m == rec[r]
           s == IF m.state = "cancelling" THEN "cancelled" ELSE outcome
           n == answers[r] + 1
           h == IF outcome = "awaiting" THEN "awaiting" ELSE host[r]
           q == [m EXCEPT !.state = s, !.body = n, !.run = None, !.old = FALSE]
<1>1. /\ m # None /\ m.run # None /\ answers[r] < MaxAnswers
      /\ outcome = "awaiting" => r \in Protected
      /\ Trimmed([rec EXCEPT ![r] = Persisting(q)])
      /\ answers' = [answers EXCEPT ![r] = n] /\ waiting' = Woken(r, s)
      /\ UNCHANGED <<disk, call, phase, faults>>
  BY DEF Settle
<1>2. host' = [host EXCEPT ![r] = h] /\ host' \in [Requests -> {"awaiting", "completed", "failed", None}]
  BY DEF Settle, TypeOK
<1>3. m \in Record /\ answers[r] \in Nat /\ n \in 0..MaxAnswers
  BY <1>1, MonitorAssumption DEF TypeOK
<1>4. Unfinished(m) /\ Sound(r, m, answers[r], disk[r], host[r])
  <2>1. Sound(r, m, answers[r], disk[r], host[r]) BY DEF RecordsSound
  <2>2. ~Finished(m) BY <1>1, <2>1 DEF Sound, Keeps
  <2>3. QED BY <1>1, <2>1, <2>2 DEF Finished, Unfinished
<1>5. Waits(r, m, answers[r]) /\ host[r] = None
  <2>1. Waits(r, m, answers[r]) BY <1>4 DEF Sound
  <2>2. QED BY <1>3, <1>4, <2>1 DEF Sound, Waits
<1>6. s \in Terminal /\ s \in States BY DEF Terminal, States
<1>7. /\ q \in Record /\ q.state = s /\ q.body = n /\ q.run = None
      /\ q.persisted = m.persisted /\ q.write = m.write
  BY <1>3, <1>6 DEF Record
<1>8. Sound(r, q, n, disk'[r], h)
  <2>1. h # None => h = "awaiting" /\ s \in {"awaiting", "cancelled"} /\ r \in Protected
    BY <1>1, <1>5
  <2> HIDE DEF h, q, s
  <2>2. Finished(q) /\ ~Unfinished(q) BY <1>6, <1>7, NoneAssumption DEF Finished, Unfinished
  <2>3. Keeps(q, n, disk'[r]) BY <1>3, <1>5, <1>7 DEF Keeps, Waits
  <2>4. QED BY <1>3, <1>7, <2>1, <2>2, <2>3 DEF Sound
<1>9. q.state \in Terminal /\ Trimmed([rec EXCEPT ![r] = Persisting(q)])
      /\ \A t \in Requests : t # r => disk'[t] = disk[t]
  BY <1>1, <1>6, <1>7
<1> HIDE DEF q, s, n, h, m
<1>10. /\ rec' \in Records
       /\ \A t \in Requests : t # r => rec'[t] = rec[t] \/ (rec'[t] = None /\ Finished(rec[t]))
       /\ RecordsSound'
  BY <1>1, <1>2, <1>3, <1>7, <1>8, <1>9, OneRecordStep
<1>11. reserved' \in [Requests -> Token \cup {None}] BY DEF Settle, Release, TypeOK
<1>12. /\ waiting' \in [Waiters -> [on : Requests \cup {None}, told : States \cup {None}]]
       /\ NoSleeperLeft'
  BY <1>1, <1>6, <1>10, WokenAwake DEF Finished, Unfinished
<1>13. TypeOK' BY <1>1, <1>2, <1>3, <1>10, <1>11, <1>12 DEF TypeOK, Records
<1>14. QED BY <1>10, <1>12, <1>13

\* A call takes its reservation, which costs no sole copy either.
LEMMA DispatchStep ==
  ASSUME Core, NEW c \in Calls, Dispatch(c)
  PROVE  Core'
<1> USE DEF Core
<1> DEFINE r == RequestOf[c]
<1>1. r \in Requests /\ c \in Token BY MonitorAssumption DEF Token
<1>2. PICK rs \in {rec} \cup WithRoom, token \in {c, reserved[r]} :
        Reserve(r, c, rs, token) /\ rec' = rs /\ call' = [call EXCEPT ![c] = token]
  BY DEF Dispatch
<1>3. UNCHANGED <<answers, disk, host, waiting, phase, faults>> BY DEF Dispatch
<1>4. token \in Token /\ reserved' \in [Requests -> Token \cup {None}] /\ Dropping(rec, rs)
  BY <1>1, <1>2, ReserveTypes
<1>5. rec \in Records /\ answers \in [Requests -> 0..MaxAnswers] BY DEF TypeOK, Records
<1>6. /\ rs \in Records
      /\ \A s \in Requests : Sound(s, rs[s], answers[s], disk[s], host[s])
      /\ \A s \in Requests : rs[s] = rec[s] \/ (rs[s] = None /\ Finished(rec[s]))
  BY <1>4, <1>5, DroppingSound DEF RecordsSound
<1>7. TypeOK' BY <1>2, <1>3, <1>4, <1>6 DEF TypeOK, Records
<1>8. RecordsSound' BY <1>2, <1>3, <1>6 DEF RecordsSound
<1>9. NoSleeperLeft' BY <1>2, <1>3, <1>6, StillAwake DEF Finished, Unfinished
<1>10. QED BY <1>7, <1>8, <1>9

\* A call retains its answer over what was saved; nobody sleeps on its request.
LEMMA ReturnStep ==
  ASSUME OneWayIn, OneCall, Core, NEW c \in Calls,
         NEW outcome \in {"completed", "failed", "awaiting"}, Return(c, outcome)
  PROVE  Core'
<1> USE DEF Core
<1> DEFINE r == RequestOf[c]
           m == IF rec[r] = None THEN Fresh(outcome) ELSE rec[r]
           n == answers[r] + 1
           h == IF outcome = "awaiting" THEN "awaiting" ELSE host[r]
           q == [m EXCEPT !.state = outcome, !.body = n, !.persisted = FALSE,
                          !.failed = FALSE, !.old = FALSE]
<1>1. /\ call[c] \notin {"idle", "done"} /\ answers[r] < MaxAnswers
      /\ outcome = "awaiting" => r \in Protected
      /\ Trimmed([rec EXCEPT ![r] = Persisting(q)])
      /\ answers' = [answers EXCEPT ![r] = n] /\ call' = [call EXCEPT ![c] = "done"]
      /\ UNCHANGED <<disk, waiting, phase, faults>>
  BY DEF Return
<1>2. r \in Requests /\ r \notin Monitored BY MonitorAssumption DEF OneWayIn
<1>3. host' = [host EXCEPT ![r] = h] /\ host' \in [Requests -> {"awaiting", "completed", "failed", None}]
  BY <1>2 DEF Return, TypeOK
<1>4. answers[r] \in Nat /\ n \in 0..MaxAnswers BY <1>1, <1>2, MonitorAssumption DEF TypeOK
<1>5. Sound(r, rec[r], answers[r], disk[r], host[r]) BY <1>2 DEF RecordsSound
<1>6. rec[r] = None \/ (rec[r] \in Record /\ Finished(rec[r]))
  <2>1. ~Unfinished(rec[r]) BY <1>2, <1>5 DEF Sound, Waits
  <2>2. QED BY <1>2, <2>1 DEF TypeOK, Finished, Unfinished
<1>7. outcome \in Terminal /\ outcome \in States BY DEF Terminal, States
<1>8. m \in Record /\ m.run = None /\ (m.write # None => m.write.body <= answers[r])
  <2>1. CASE rec[r] = None
    <3>1. 0 \in 0..MaxAnswers BY MonitorAssumption
    <3>2. Fresh(outcome) \in Record BY <1>7, <3>1 DEF Record, Fresh
    <3>3. Fresh(outcome).run = None /\ Fresh(outcome).write = None BY DEF Fresh
    <3>4. QED BY <2>1, <3>2, <3>3
  <2>2. CASE rec[r] # None
    <3>1. Keeps(rec[r], answers[r], disk[r]) BY <1>5, <1>6, <2>2 DEF Sound
    <3>2. QED BY <1>6, <2>2, <3>1 DEF Keeps
  <2>3. QED BY <2>1, <2>2
<1>9. host[r] = None
  BY <1>1, <1>2, <1>4, <1>5 DEF OneCall, Sound
<1>10. h # None => h = outcome /\ r \in Protected BY <1>1, <1>9
<1> HIDE DEF m
<1>11. /\ q \in Record /\ q.state = outcome /\ q.body = n /\ q.run = m.run
       /\ q.persisted = FALSE /\ q.write = m.write
  BY <1>4, <1>7, <1>8 DEF Record
<1> HIDE DEF q, h
<1>12. Finished(q) /\ ~Unfinished(q) BY <1>7, <1>11, NoneAssumption DEF Finished, Unfinished
<1>13. Keeps(q, n, disk'[r])
  <2>1. m.write = None \/ (m.write \in Answer /\ m.write.body \in Nat)
    BY <1>8, MonitorAssumption DEF Record, Answer
  <2>2. QED BY <1>4, <1>8, <1>11, <2>1 DEF Keeps
<1>14. Sound(r, q, n, disk'[r], h) BY <1>4, <1>10, <1>11, <1>12, <1>13 DEF Sound
<1>15. /\ q.state \in Terminal /\ Trimmed([rec EXCEPT ![r] = Persisting(q)])
       /\ \A t \in Requests : t # r => disk'[t] = disk[t]
  BY <1>1, <1>7, <1>11 DEF q, m
<1> HIDE DEF n
<1>16. /\ rec' \in Records
       /\ \A t \in Requests : t # r => rec'[t] = rec[t] \/ (rec'[t] = None /\ Finished(rec[t]))
       /\ RecordsSound'
  BY <1>1, <1>2, <1>3, <1>4, <1>11, <1>14, <1>15, OneRecordStep
<1>17. reserved' \in [Requests -> Token \cup {None}] BY <1>2 DEF Return, Release, TypeOK
<1>18. TypeOK' BY <1>1, <1>3, <1>4, <1>16, <1>17 DEF TypeOK, Records
<1>19. NoSleeperLeft' BY <1>1, <1>6, <1>16, StillAwake DEF Finished, Unfinished
<1>20. QED BY <1>16, <1>18, <1>19

-----------------------------------------------------------------------------
(* The host's verdict, the writes and the timers *)

\* The host's verdict is a new answer, not the one that is being written.
LEMMA VerifyStep ==
  ASSUME Core, NEW r \in Requests, NEW verdict \in {"completed", "failed"}, Verify(r, verdict)
  PROVE  Core'
<1> USE DEF Core
<1> DEFINE m == rec[r]
           n == answers[r] + 1
           q == [m EXCEPT !.state = verdict, !.body = n, !.persisted = FALSE, !.old = FALSE]
<1>1. /\ host[r] = "awaiting" /\ answers[r] < MaxAnswers /\ host' = [host EXCEPT ![r] = verdict]
      /\ UNCHANGED <<disk, reserved, call, phase, faults>>
  BY DEF Verify
<1>2. Sound(r, m, answers[r], disk[r], host[r]) BY DEF RecordsSound
<1>3. answers[r] \in Nat /\ n \in 0..MaxAnswers BY <1>1, MonitorAssumption DEF TypeOK
<1>4. host[r] # None /\ verdict # None /\ verdict \in Terminal /\ verdict \in States
  BY <1>1, NoneAssumption DEF States, Terminal
<1>5. r \in Protected /\ answers[r] > 0 /\ (m # None => m.state \in {"awaiting", "cancelled"})
  BY <1>1, <1>2, <1>4 DEF Sound
<1>6. host' \in [Requests -> {"awaiting", "completed", "failed", None}] BY <1>1 DEF TypeOK
<1>7. CASE m # None /\ m.state = "awaiting"
  <2>1. /\ Trimmed([rec EXCEPT ![r] = Persisting(q)]) /\ answers' = [answers EXCEPT ![r] = n]
        /\ waiting' = Woken(r, verdict)
    BY <1>7 DEF Verify
  <2>2. m \in Record /\ Finished(m) BY <1>7 DEF TypeOK, Finished, Terminal
  <2>3. Keeps(m, answers[r], disk[r]) BY <1>2, <2>2 DEF Sound
  <2>4. /\ q \in Record /\ q.state = verdict /\ q.body = n /\ q.run = m.run
        /\ q.persisted = FALSE /\ q.write = m.write
    BY <1>3, <1>4, <2>2 DEF Record
  <2> HIDE DEF q, m
  <2>5. Finished(q) /\ ~Unfinished(q) BY <1>4, <2>4, NoneAssumption DEF Finished, Unfinished
  <2>6. Keeps(q, n, disk'[r])
    <3>1. m.write = None \/ (m.write \in Answer /\ m.write.body \in Nat)
      BY <2>2, MonitorAssumption DEF Record, Answer
    <3>2. QED BY <1>3, <2>3, <2>4, <3>1 DEF Keeps
  <2>7. Sound(r, q, n, disk'[r], verdict) BY <1>3, <1>5, <2>4, <2>5, <2>6 DEF Sound
  <2>8. \A t \in Requests : t # r => disk'[t] = disk[t] BY <1>1
  <2>9. q.state \in Terminal /\ Persisting(q) \in {q, Persisting(q)} BY <1>4, <2>4
  <2> HIDE DEF n
  <2>10. /\ rec' \in Records
         /\ \A t \in Requests : t # r => rec'[t] = rec[t] \/ (rec'[t] = None /\ Finished(rec[t]))
         /\ RecordsSound'
    BY <1>1, <1>3, <2>1, <2>4, <2>7, <2>8, <2>9, OneRecordStep
  <2>11. /\ waiting' \in [Waiters -> [on : Requests \cup {None}, told : States \cup {None}]]
         /\ NoSleeperLeft'
    BY <1>4, <2>1, <2>10, WokenAwake DEF Finished, Unfinished
  <2>12. TypeOK' BY <1>1, <1>3, <1>6, <2>1, <2>10, <2>11 DEF TypeOK, Records
  <2>13. QED BY <2>10, <2>11, <2>12
<1>8. CASE ~(m # None /\ m.state = "awaiting")
  <2>1. UNCHANGED <<rec, answers, waiting>> BY <1>8 DEF Verify
  <2>2. m # None => m.state = "cancelled" BY <1>5, <1>8
  <2>3. Sound(r, m, answers[r], disk[r], verdict) BY <1>2, <1>5, <2>2 DEF Sound
  <2>4. RecordsSound' BY <1>1, <2>1, <2>3 DEF RecordsSound, TypeOK
  <2>5. TypeOK' BY <1>1, <1>6, <2>1 DEF TypeOK
  <2>6. NoSleeperLeft' BY <2>1 DEF NoSleeperLeft
  <2>7. QED BY <2>4, <2>5, <2>6
<1>9. QED BY <1>7, <1>8

\* A function updated at one place with what it has there.
LEMMA SameAnswers ==
  ASSUME TypeOK, NEW r \in Requests, UNCHANGED <<answers, host>>
  PROVE  /\ answers' = [answers EXCEPT ![r] = answers[r]] /\ host' = [host EXCEPT ![r] = host[r]]
         /\ answers[r] \in 0..MaxAnswers
BY DEF TypeOK

\* No run begins or ends in a step of the writes and timers.
RunsKept == \A r \in Requests : rec'[r] # None => rec[r] # None /\ rec'[r].run = rec[r].run

\* A write that ends saves the answer only if no other came meanwhile.
LEMMA WriteEndsStep ==
  ASSUME Core, NEW r \in Requests, NEW ok \in BOOLEAN, WriteEnds(r, ok)
  PROVE  Core' /\ RunsKept
<1> USE DEF Core
<1> DEFINE m == rec[r]
           n == answers[r]
           same == m.body = m.write.body
           done == IF ~same THEN [m EXCEPT !.write = None]
                   ELSE [m EXCEPT !.write = None, !.persisted = ok, !.failed = ~ok,
                                  !.body = IF ok THEN 0 ELSE @]
           p == IF ~same /\ ~closed THEN Persisting(done) ELSE done
<1>1. /\ m # None /\ m.write # None /\ Trimmed([rec EXCEPT ![r] = p])
      /\ UNCHANGED <<answers, host, reserved, call, waiting, phase>>
  BY DEF WriteEnds
<1>2. m \in Record /\ m.write \in Answer /\ m.write.body \in 1..MaxAnswers /\ n \in 0..MaxAnswers
      /\ m.body \in 0..MaxAnswers
  BY <1>1 DEF TypeOK, Record, Answer
<1>3. Sound(r, m, n, disk[r], host[r]) BY DEF RecordsSound
<1>4. Finished(m) /\ ~Unfinished(m) BY <1>1, <1>3 DEF Sound, Waits, Finished, Unfinished
<1>5. Keeps(m, n, disk[r]) BY <1>3, <1>4 DEF Sound
<1>6. m.run = None /\ n > 0 /\ ~m.persisted /\ m.body = n
      /\ (m.write.body = n => m.write.state = m.state)
  BY <1>1, <1>5 DEF Keeps
<1>7. /\ ok => disk' = [disk EXCEPT ![r] = m.write] /\ faults' = faults
      /\ ~ok => disk' = disk /\ faults < MaxFaults /\ faults' = faults + 1
  <2>1. CASE ok BY <2>1 DEF WriteEnds
  <2>2. CASE ~ok BY <2>2 DEF WriteEnds
  <2>3. QED BY <2>1, <2>2
<1>8. disk' \in [Requests -> Answer \cup {None}] /\ faults' \in 0..MaxFaults
  <2>1. CASE ok BY <1>2, <1>7, <2>1 DEF TypeOK
  <2>2. CASE ~ok BY <1>7, <2>2, MonitorAssumption DEF TypeOK
  <2>3. QED BY <2>1, <2>2
<1>9. /\ done \in Record /\ done.state = m.state /\ done.run = m.run /\ done.write = None
      /\ same => done.persisted = ok /\ done.body = IF ok THEN 0 ELSE n
      /\ ~same => done.persisted = FALSE /\ done.body = n
  <2>1. CASE same
    <3>1. 0 \in 0..MaxAnswers BY MonitorAssumption
    <3>2. done = [m EXCEPT !.write = None, !.persisted = ok, !.failed = ~ok,
                           !.body = IF ok THEN 0 ELSE @]
      BY <2>1
    <3>3. QED BY <1>2, <1>6, <2>1, <3>1, <3>2 DEF Record
  <2>2. CASE ~same
    <3>1. done = [m EXCEPT !.write = None] BY <2>2
    <3>2. QED BY <1>2, <1>6, <2>2, <3>1 DEF Record
  <2>3. QED BY <2>1, <2>2
<1>10. same /\ ok => disk'[r] = [body |-> n, state |-> m.state]
  <2>1. SUFFICES ASSUME same, ok PROVE m.write = [body |-> n, state |-> m.state]
    BY <1>7 DEF TypeOK
  <2>2. m.write.body = n /\ m.write.state = m.state BY <1>6, <2>1
  <2>3. QED BY <1>2, <2>2 DEF Answer
<1>11. \A t \in Requests : t # r => disk'[t] = disk[t] BY <1>7 DEF TypeOK
<1>12. p \in {done, Persisting(done)} OBVIOUS
<1> HIDE DEF p, done
<1>13. Finished(done) /\ ~Unfinished(done) BY <1>4, <1>9, NoneAssumption DEF Finished, Unfinished
<1>14. Keeps(done, n, disk'[r]) BY <1>6, <1>9, <1>10 DEF Keeps
<1>15. Sound(r, done, n, disk'[r], host[r])
  BY <1>1, <1>3, <1>6, <1>9, <1>13, <1>14 DEF Sound
<1> HIDE DEF same, m
<1>16. done.state \in Terminal BY <1>13 DEF Finished
<1>17. /\ rec' \in Records
       /\ \A t \in Requests : t # r => rec'[t] = rec[t] \/ (rec'[t] = None /\ Finished(rec[t]))
       /\ (rec'[r] # None => rec'[r].run = done.run) /\ RecordsSound'
  <2>1. answers' = [answers EXCEPT ![r] = n] /\ host' = [host EXCEPT ![r] = host[r]]
    BY <1>1, SameAnswers
  <2>2. done \in Record /\ n \in 0..MaxAnswers /\ Trimmed([rec EXCEPT ![r] = p]) BY <1>1, <1>2, <1>9
  <2> HIDE DEF n
  <2>3. QED BY <1>11, <1>12, <1>15, <1>16, <2>1, <2>2, OneRecordStep
<1>18. TypeOK' BY <1>1, <1>8, <1>17 DEF TypeOK, Records
<1>19. NoSleeperLeft' BY <1>1, <1>4, <1>17, StillAwake DEF Finished, Unfinished, m
<1>20. RunsKept BY <1>1, <1>9, <1>17 DEF RunsKept, m
<1>21. QED BY <1>17, <1>18, <1>19, <1>20

\* The maintenance timer tries a write again, or finds that a record is old.
LEMMA TimerStep ==
  ASSUME Core, NEW r \in Requests, Maintain(r) \/ Expire(r)
  PROVE  Core' /\ RunsKept
<1> USE DEF Core
<1>1. r \in Ended(rec) /\ UNCHANGED <<answers, disk, host, reserved, call, waiting, phase, faults>>
  BY DEF Maintain, Expire, Sole
<1>2. PICK m \in {rec[r], [rec[r] EXCEPT !.old = TRUE]} :
        \E p \in {m, Persisting(m)} : Trimmed([rec EXCEPT ![r] = p])
  <2>1. CASE Maintain(r) BY <2>1 DEF Maintain
  <2>2. CASE Expire(r)
    <3>1. Trimmed([rec EXCEPT ![r] = [rec[r] EXCEPT !.old = TRUE]]) BY <2>2 DEF Expire
    <3>2. QED BY <3>1
  <2>3. QED BY <2>1, <2>2
<1>3. rec[r] \in Record /\ rec[r].state \in Terminal BY <1>1 DEF Ended, Known, TypeOK
<1>4. /\ m \in Record /\ m.state = rec[r].state /\ m.body = rec[r].body /\ m.run = rec[r].run
      /\ m.persisted = rec[r].persisted /\ m.write = rec[r].write
  BY <1>3 DEF Record
<1>5. Sound(r, rec[r], answers[r], disk[r], host[r]) BY DEF RecordsSound
<1>6. Sound(r, m, answers[r], disk'[r], host[r])
  <2>1. m # None /\ rec[r] # None BY <1>3, <1>4, NoneAssumption
  <2>2. Finished(m) /\ Finished(rec[r]) /\ ~Unfinished(m)
    BY <1>3, <1>4, <2>1 DEF Finished, Unfinished
  <2>3. Keeps(rec[r], answers[r], disk[r]) BY <1>5, <2>2 DEF Sound
  <2>4. Keeps(m, answers[r], disk'[r]) BY <1>1, <1>4, <2>3 DEF Keeps
  <2>5. QED BY <1>1, <1>4, <1>5, <2>1, <2>2, <2>4 DEF Sound
<1>7. /\ rec' \in Records
      /\ \A t \in Requests : t # r => rec'[t] = rec[t] \/ (rec'[t] = None /\ Finished(rec[t]))
      /\ (rec'[r] # None => rec'[r].run = m.run) /\ RecordsSound'
  <2>1. \A t \in Requests : t # r => disk'[t] = disk[t] BY <1>1
  <2>2. m.state \in Terminal BY <1>3, <1>4
  <2>3. PICK p \in {m, Persisting(m)} : Trimmed([rec EXCEPT ![r] = p]) BY <1>2
  <2>4. /\ answers' = [answers EXCEPT ![r] = answers[r]] /\ host' = [host EXCEPT ![r] = host[r]]
        /\ answers[r] \in 0..MaxAnswers
    BY <1>1, SameAnswers
  <2>5. QED BY <1>4, <1>6, <2>1, <2>2, <2>3, <2>4, OneRecordStep
<1>8. TypeOK' BY <1>1, <1>7 DEF TypeOK, Records
<1>9. NoSleeperLeft' BY <1>1, <1>3, <1>7, StillAwake DEF Finished, Unfinished
<1>10. rec[r] # None BY <1>1 DEF Ended, Known
<1>11. RunsKept BY <1>4, <1>7, <1>10 DEF RunsKept
<1>12. QED BY <1>7, <1>8, <1>9, <1>11

\* A caller goes to sleep on a task that goes on, or gives up.
LEMMA SleeperStep ==
  ASSUME Core, NEW w \in Waiters, GiveUp(w) \/ \E r \in Requests : Wait(w, r)
  PROVE  Core'
<1> USE DEF Core
<1>1. UNCHANGED <<rec, answers, disk, host, reserved, call, phase, faults>> BY DEF GiveUp, Wait
<1>2. RecordsSound' BY <1>1 DEF RecordsSound
<1>3. CASE GiveUp(w)
  <2>1. waiting' = [waiting EXCEPT ![w] = [on |-> None, told |-> None]] BY <1>3 DEF GiveUp
  <2>2. TypeOK' BY <1>1, <2>1 DEF TypeOK
  <2>3. NoSleeperLeft' BY <1>1, <2>1 DEF NoSleeperLeft, TypeOK
  <2>4. QED BY <1>2, <2>2, <2>3
<1>4. ASSUME NEW r \in Requests, Wait(w, r) PROVE Core'
  <2>1. waiting' = [waiting EXCEPT ![w].on = r] /\ rec[r] # None /\ rec[r].state \notin Terminal
    BY <1>4 DEF Wait
  <2>2. TypeOK' BY <1>1, <2>1 DEF TypeOK
  <2>3. NoSleeperLeft' BY <1>1, <2>1 DEF NoSleeperLeft, TypeOK
  <2>4. QED BY <1>2, <2>2, <2>3
<1>5. QED BY <1>3, <1>4

\* The phases of the end: the drain starts one more write, the disposal ends the sleep.
LEMMA EndStep ==
  ASSUME Core, Shutdown \/ Drain \/ Drained
  PROVE  Core' /\ RunsKept
<1> USE DEF Core
<1>1. CASE Shutdown BY <1>1 DEF Shutdown, TypeOK, RecordsSound, NoSleeperLeft, RunsKept
<1>2. CASE Drain
  <2>1. phase' = "drain" /\ UNCHANGED <<answers, disk, host, reserved, call, waiting, faults>>
    BY <1>2 DEF Drain
  <2>2. rec' = rec \/ \E r \in Sole(rec) : rec' = [rec EXCEPT ![r] = Persisting(rec[r])]
    BY <1>2 DEF Drain
  <2>3. CASE rec' = rec BY <2>1, <2>3 DEF TypeOK, RecordsSound, NoSleeperLeft, RunsKept
  <2>4. ASSUME NEW r \in Sole(rec), rec' = [rec EXCEPT ![r] = Persisting(rec[r])] PROVE Core' /\ RunsKept
    <3>1. r \in Requests /\ rec[r] # None /\ rec[r].state \in Terminal
      BY <2>4 DEF Sole, Ended, Known
    <3>2. rec[r] \in Record /\ answers[r] \in 0..MaxAnswers BY <3>1 DEF TypeOK
    <3>3. Sound(r, rec[r], answers[r], disk[r], host[r]) BY <3>1 DEF RecordsSound
    <3> DEFINE p == Persisting(rec[r])
    <3>4. p \in Record /\ p.run = rec[r].run /\ Sound(r, p, answers[r], disk[r], host[r])
      BY <3>1, <3>2, <3>3, PersistingSound
    <3> HIDE DEF p
    <3>5. rec' = [rec EXCEPT ![r] = p] BY <2>4 DEF p
    <3>6. TypeOK' BY <2>1, <3>4, <3>5 DEF TypeOK
    <3>7. RecordsSound' BY <2>1, <3>1, <3>4, <3>5 DEF RecordsSound, TypeOK
    <3>8. \A t \in Requests : Unfinished(rec[t]) => Unfinished(rec'[t])
      BY <3>1, <3>5 DEF Unfinished, TypeOK
    <3>9. NoSleeperLeft' BY <2>1, <3>8, StillAwake
    <3>10. RunsKept BY <3>1, <3>4, <3>5 DEF RunsKept, TypeOK
    <3>11. QED BY <3>6, <3>7, <3>9, <3>10
  <2>5. QED BY <2>2, <2>3, <2>4
<1>3. CASE Drained
  <2>1. UNCHANGED <<rec, answers, disk, host, reserved, call, faults>> BY <1>3 DEF Drained
  <2>2. \/ phase' = "held" /\ waiting' = waiting
        \/ phase' = "disposed" /\ waiting' = [w \in Waiters |-> [waiting[w] EXCEPT !.on = None]]
    BY <1>3 DEF Drained
  <2>3. TypeOK' BY <2>1, <2>2 DEF TypeOK
  <2>4. RecordsSound' BY <2>1 DEF RecordsSound
  <2>5. NoSleeperLeft' BY <2>1, <2>2 DEF NoSleeperLeft, TypeOK
  <2>6. RunsKept BY <2>1 DEF RunsKept
  <2>7. QED BY <2>3, <2>4, <2>5, <2>6
<1>4. QED BY <1>1, <1>2, <1>3

-----------------------------------------------------------------------------
(* Calls of dispatch_subagent, the drain and the disposal *)

\* A protected request that is dispatched is not dispatched again.
LEMMA OneCallStep ==
  ASSUME OneWayIn, TypeOK, RecordsSound, OneCall, [Next]_vars
  PROVE  OneCall'
<1> DEFINE Busy0(c) == call[c] \notin {"idle", "done"}
<1>1. CASE answers' = answers /\ call' = call BY <1>1 DEF OneCall
<1>2. ASSUME NEW r \in Requests, NEW outcome \in {"completed", "failed", "awaiting"}, Settle(r, outcome)
      PROVE  OneCall'
  <2>1. /\ rec[r] # None /\ rec[r].run # None /\ call' = call
        /\ answers' = [answers EXCEPT ![r] = answers[r] + 1]
    BY <1>2 DEF Settle
  <2>2. Sound(r, rec[r], answers[r], disk[r], host[r]) BY DEF RecordsSound
  <2>3. r \in Monitored BY <2>1, <2>2 DEF Sound, Finished, Unfinished, Keeps, Waits
  <2>4. \A c \in Calls : RequestOf[c] # r /\ RequestOf[c] \in Requests
    BY <2>3, MonitorAssumption DEF OneWayIn
  <2>5. QED BY <2>1, <2>4 DEF OneCall, TypeOK
<1>3. ASSUME NEW r \in Requests, NEW verdict \in {"completed", "failed"}, Verify(r, verdict)
      PROVE  OneCall'
  <2>1. /\ host[r] = "awaiting" /\ call' = call
        /\ \A s \in Requests : s # r => answers'[s] = answers[s]
    BY <1>3 DEF Verify, TypeOK
  <2>2. Sound(r, rec[r], answers[r], disk[r], host[r]) BY DEF RecordsSound
  <2>3. host[r] # None BY <2>1, NoneAssumption DEF States, Terminal
  <2>4. answers[r] > 0 BY <2>2, <2>3 DEF Sound
  <2>5. \A c \in Calls : Busy0(c) /\ RequestOf[c] \in Protected => RequestOf[c] # r
    BY <2>4 DEF OneCall
  <2>6. \A c \in Calls : RequestOf[c] \in Requests BY MonitorAssumption
  <2>7. QED BY <2>1, <2>5, <2>6 DEF OneCall
<1>4. ASSUME NEW c \in Calls, Dispatch(c) PROVE OneCall'
  <2>1. /\ answers' = answers /\ \A d \in Calls : d # c => call'[d] = call[d]
        /\ Free(RequestOf[c])
    BY <1>4 DEF Dispatch, TypeOK
  <2>2. RequestOf[c] \in Protected =>
          /\ answers[RequestOf[c]] = 0
          /\ \A d \in Calls : RequestOf[d] = RequestOf[c] => ~Busy0(d)
    BY <2>1 DEF Free, Busy
  <2>3. ASSUME NEW a \in Calls, call'[a] \notin {"idle", "done"}, RequestOf[a] \in Protected
        PROVE  /\ answers'[RequestOf[a]] = 0
               /\ \A d \in Calls :
                    RequestOf[d] = RequestOf[a] /\ call'[d] \notin {"idle", "done"} => d = a
    <3>1. CASE RequestOf[a] = RequestOf[c]
      <4>1. \A d \in Calls : RequestOf[d] = RequestOf[a] /\ call'[d] \notin {"idle", "done"} => d = c
        BY <2>1, <2>2, <2>3, <3>1
      <4>2. QED BY <2>1, <2>2, <2>3, <3>1, <4>1
    <3>2. CASE RequestOf[a] # RequestOf[c] BY <2>1, <2>3, <3>2 DEF OneCall
    <3>3. QED BY <3>1, <3>2
  <2>4. QED BY <2>3 DEF OneCall
<1>5. ASSUME NEW c \in Calls, NEW outcome \in {"completed", "failed", "awaiting"}, Return(c, outcome)
      PROVE  OneCall'
  <2>1. /\ Busy0(c) /\ call' = [call EXCEPT ![c] = "done"]
        /\ answers' = [answers EXCEPT ![RequestOf[c]] = answers[RequestOf[c]] + 1]
    BY <1>5 DEF Return
  <2>2. \A d \in Calls : RequestOf[d] \in Requests BY MonitorAssumption
  <2>3. call'[c] = "done" /\ \A d \in Calls : d # c => call'[d] = call[d] BY <2>1 DEF TypeOK
  <2>4. \A s \in Requests : s # RequestOf[c] => answers'[s] = answers[s] BY <2>1 DEF TypeOK
  <2>5. ASSUME NEW a \in Calls, call'[a] \notin {"idle", "done"}, RequestOf[a] \in Protected
        PROVE  /\ answers'[RequestOf[a]] = 0
               /\ \A d \in Calls :
                    RequestOf[d] = RequestOf[a] /\ call'[d] \notin {"idle", "done"} => d = a
    <3>1. a # c /\ Busy0(a) BY <2>3, <2>5
    <3>2. RequestOf[a] # RequestOf[c] BY <2>1, <2>5, <3>1 DEF OneCall
    <3>3. QED BY <2>2, <2>3, <2>4, <2>5, <3>1, <3>2 DEF OneCall
  <2>6. QED BY <2>5 DEF OneCall
<1>6. QED
  <2>1. ASSUME NEW r \in Requests, Submit(r) \/ Begin(r) \/ Cancel(r) \/ Maintain(r) \/ Expire(r)
        PROVE  OneCall'
    BY <1>1, <2>1 DEF Submit, Begin, Cancel, Maintain, Expire
  <2>2. ASSUME NEW r \in Requests, NEW ok \in BOOLEAN, WriteEnds(r, ok) PROVE OneCall'
    BY <1>1, <2>2 DEF WriteEnds
  <2>3. ASSUME NEW w \in Waiters, GiveUp(w) \/ \E r \in Requests : Wait(w, r) PROVE OneCall'
    BY <1>1, <2>3 DEF GiveUp, Wait
  <2>4. CASE Shutdown \/ Drain \/ Drained BY <1>1, <2>4 DEF Shutdown, Drain, Drained
  <2>5. CASE UNCHANGED vars BY <1>1, <2>5 DEF vars
  <2>6. QED BY <1>2, <1>3, <1>4, <1>5, <2>1, <2>2, <2>3, <2>4, <2>5 DEF Next

\* Work is taken in, reached, cancelled and judged, and slept on, before the drain.
BeforeTheDrain ==
  \/ \E r \in Requests : Submit(r) \/ Begin(r) \/ Cancel(r)
  \/ \E r \in Requests, verdict \in {"completed", "failed"} : Verify(r, verdict)
  \/ \E c \in Calls : Dispatch(c)
  \/ \E w \in Waiters, r \in Requests : Wait(w, r)

\* Whoever takes part has looked whether the monitor is open.
LEMMA BeforeTheDrainOpen ==
  ASSUME BeforeTheDrain
  PROVE  ~closed /\ phase' = phase
BY DEF BeforeTheDrain, Submit, Begin, Cancel, Dispatch, Reserve, Wait, Verify, accepting, closed

\* Runs and calls end before the drain too, which waits for them.
LEMMA EndsBeforeTheDrain ==
  ASSUME Quiet,
         \/ \E r \in Requests, outcome \in {"completed", "failed", "awaiting"} : Settle(r, outcome)
         \/ \E c \in Calls, outcome \in {"completed", "failed", "awaiting"} : Return(c, outcome)
  PROVE  ~closed /\ phase' = phase
<1>1. ASSUME NEW r \in Requests, NEW outcome \in {"completed", "failed", "awaiting"}, Settle(r, outcome)
      PROVE  ~closed /\ phase' = phase
  <2>1. r \in Known(rec) /\ rec[r].run # None /\ phase' = phase BY <1>1 DEF Settle, Known
  <2>2. QED BY <2>1 DEF Quiet
<1>2. ASSUME NEW c \in Calls, NEW outcome \in {"completed", "failed", "awaiting"}, Return(c, outcome)
      PROVE  ~closed /\ phase' = phase
  BY <1>2 DEF Return, Quiet
<1>3. QED BY <1>1, <1>2

\* After the drain has begun nothing comes into flight.
LEMMA QuietStep ==
  ASSUME Core, Quiet, [Next]_vars
  PROVE  Quiet'
<1>1. ASSUME ~closed /\ phase' = phase PROVE Quiet' BY <1>1 DEF Quiet, closed
<1>2. ASSUME RunsKept, closed' => closed, call' = call PROVE Quiet'
  BY <1>2 DEF Quiet, RunsKept, Known
<1>3. CASE BeforeTheDrain BY <1>1, <1>3, BeforeTheDrainOpen
<1>4. ASSUME NEW r \in Requests, NEW outcome \in {"completed", "failed", "awaiting"}, Settle(r, outcome)
      PROVE  Quiet'
  BY <1>1, <1>4, EndsBeforeTheDrain
<1>5. ASSUME NEW c \in Calls, NEW outcome \in {"completed", "failed", "awaiting"}, Return(c, outcome)
      PROVE  Quiet'
  BY <1>1, <1>5, EndsBeforeTheDrain
<1>6. ASSUME NEW r \in Requests, Maintain(r) \/ Expire(r) PROVE Quiet'
  <2>1. RunsKept BY <1>6, TimerStep
  <2>2. phase' = phase /\ call' = call BY <1>6 DEF Maintain, Expire
  <2>3. QED BY <1>2, <2>1, <2>2 DEF closed
<1>7. ASSUME NEW r \in Requests, NEW ok \in BOOLEAN, WriteEnds(r, ok) PROVE Quiet'
  <2>1. RunsKept BY <1>7, WriteEndsStep
  <2>2. phase' = phase /\ call' = call BY <1>7 DEF WriteEnds
  <2>3. QED BY <1>2, <2>1, <2>2 DEF closed
<1>8. ASSUME NEW w \in Waiters, GiveUp(w) PROVE Quiet'
  BY <1>2, <1>8 DEF GiveUp, RunsKept, closed
<1>9. CASE Shutdown BY <1>9 DEF Shutdown, Quiet, closed
<1>10. CASE Drain
  <2>1. RunsKept BY <1>10, EndStep
  <2>2. /\ \A r \in Known(rec) : rec[r].run = None
        /\ \A c \in Calls : call[c] \in {"idle", "done"}
        /\ call' = call
    BY <1>10 DEF Drain
  <2>3. QED BY <2>1, <2>2 DEF Quiet, RunsKept, Known
<1>11. CASE Drained
  <2>1. RunsKept BY <1>11, EndStep
  <2>2. closed /\ call' = call BY <1>11 DEF Drained, closed
  <2>3. QED BY <1>2, <2>1, <2>2
<1>12. CASE UNCHANGED vars BY <1>12 DEF vars, Quiet, closed, Known
<1>13. QED
  BY <1>3, <1>4, <1>5, <1>6, <1>7, <1>8, <1>9, <1>10, <1>11, <1>12 DEF Next, BeforeTheDrain

\* When no sole copy is in memory, everything answered is in the files.
LEMMA NothingSole ==
  ASSUME TypeOK, RecordsSound, Sole(rec) = {}, NEW r \in Requests, answers[r] > 0
  PROVE  OnDisk(r)
<1>1. Sound(r, rec[r], answers[r], disk[r], host[r]) BY DEF RecordsSound
<1>2. answers[r] \in 0..MaxAnswers /\ answers[r] # 0 BY DEF TypeOK
<1>3. CASE Finished(rec[r])
  <2>1. rec[r] \in Record BY <1>3 DEF Finished, TypeOK
  <2>2. rec[r].body = 0 \/ rec[r].persisted BY <1>3 DEF Finished, Sole, Ended, Known
  <2>3. Sound(r, None, answers[r], disk[r], host[r]) BY <1>1, <1>2, <1>3, <2>1, <2>2, DroppedSound
  <2>4. QED BY <1>2, <2>3 DEF Sound, Finished, Saved, OnDisk
<1>4. CASE ~Finished(rec[r]) BY <1>1, <1>2, <1>4 DEF Sound, Saved, OnDisk
<1>5. QED BY <1>3, <1>4

\* The gateway disposes of its modules when nothing is at risk, and is idle then.
LEMMA DisposedStep ==
  ASSUME Core, Quiet, DisposedIsDurable, [Next]_vars
  PROVE  DisposedIsDurable'
<1> USE DEF Core
<1>1. ASSUME phase' # "disposed" PROVE DisposedIsDurable' BY <1>1 DEF DisposedIsDurable
<1>2. ASSUME UNCHANGED <<answers, disk, phase>> PROVE DisposedIsDurable'
  BY <1>2 DEF DisposedIsDurable, OnDisk
<1>3. ASSUME ~closed /\ phase' = phase PROVE DisposedIsDurable' BY <1>1, <1>3 DEF closed
<1>4. CASE BeforeTheDrain BY <1>3, <1>4, BeforeTheDrainOpen
<1>5. ASSUME NEW r \in Requests, NEW outcome \in {"completed", "failed", "awaiting"}, Settle(r, outcome)
      PROVE  DisposedIsDurable'
  BY <1>3, <1>5, EndsBeforeTheDrain
<1>6. ASSUME NEW c \in Calls, NEW outcome \in {"completed", "failed", "awaiting"}, Return(c, outcome)
      PROVE  DisposedIsDurable'
  BY <1>3, <1>6, EndsBeforeTheDrain
<1>7. ASSUME NEW r \in Requests, Maintain(r) \/ Expire(r) PROVE DisposedIsDurable'
  BY <1>1, <1>7 DEF Maintain, Expire
<1>8. ASSUME NEW r \in Requests, NEW ok \in BOOLEAN, WriteEnds(r, ok) PROVE DisposedIsDurable'
  BY <1>1, <1>8 DEF WriteEnds
<1>9. ASSUME NEW w \in Waiters, GiveUp(w) PROVE DisposedIsDurable' BY <1>2, <1>9 DEF GiveUp
<1>10. CASE Shutdown \/ Drain BY <1>1, <1>10 DEF Shutdown, Drain
<1>11. CASE Drained
  <2>1. UNCHANGED <<answers, disk>> BY <1>11 DEF Drained
  <2>2. CASE Sole(rec) # {} BY <1>1, <1>11, <2>2 DEF Drained
  <2>3. CASE Sole(rec) = {} BY <2>1, <2>3, NothingSole DEF DisposedIsDurable, OnDisk
  <2>4. QED BY <2>2, <2>3
<1>12. CASE UNCHANGED vars BY <1>2, <1>12 DEF vars
<1>13. QED
  BY <1>4, <1>5, <1>6, <1>7, <1>8, <1>9, <1>10, <1>11, <1>12 DEF Next, BeforeTheDrain

-----------------------------------------------------------------------------
(* The theorems *)

\* Every handler keeps the types, what is so of each request, and the sleepers.
LEMMA CoreStep ==
  ASSUME OneWayIn, OneCall, Core, [Next]_vars
  PROVE  Core'
<1>1. ASSUME NEW r \in Requests, Submit(r) \/ Begin(r) \/ Cancel(r) \/ Maintain(r) \/ Expire(r)
      PROVE  Core'
  BY <1>1, SubmitStep, GoesOnStep, TimerStep
<1>2. CASE UNCHANGED vars BY <1>2 DEF vars, Core, TypeOK, RecordsSound, NoSleeperLeft
<1>3. QED
  BY <1>1, <1>2, SettleStep, VerifyStep, WriteEndsStep, DispatchStep, ReturnStep, SleeperStep, EndStep
     DEF Next

\* What is so of each request is what its caller is told and what the files are for.
LEMMA MInvIsTrue ==
  ASSUME MInv
  PROVE  MonitorTrue
<1> USE DEF MInv
<1>1. ASSUME NEW r \in Requests
      PROVE  /\ answers[r] > 0 => OnDisk(r) \/ (rec[r] # None /\ rec[r].body = answers[r])
             /\ r \in Known(rec) /\ rec[r].persisted =>
                  disk[r] = [body |-> answers[r], state |-> rec[r].state]
             /\ r \in Ended(rec) /\ host[r] # None => rec[r].state \in {host[r], "cancelled"}
  <2>1. Sound(r, rec[r], answers[r], disk[r], host[r]) BY DEF RecordsSound
  <2>2. answers[r] \in 0..MaxAnswers BY DEF TypeOK
  <2>3. ASSUME answers[r] > 0, ~OnDisk(r) PROVE rec[r] # None /\ rec[r].body = answers[r]
    <3>1. Finished(rec[r]) BY <2>1, <2>2, <2>3 DEF Sound, Saved, OnDisk
    <3>2. rec[r] \in Record BY <3>1 DEF Finished, TypeOK
    <3>3. ~(rec[r].body = 0 \/ rec[r].persisted)
      <4>1. SUFFICES ASSUME rec[r].body = 0 \/ rec[r].persisted PROVE FALSE OBVIOUS
      <4>2. Sound(r, None, answers[r], disk[r], host[r])
        BY <2>1, <2>2, <3>1, <3>2, <4>1, DroppedSound
      <4>3. QED BY <2>2, <2>3, <4>2 DEF Sound, Finished, Saved, OnDisk
    <3>4. QED BY <2>1, <3>1, <3>3 DEF Sound, Keeps, Finished
  <2>4. ASSUME r \in Known(rec), rec[r].persisted
        PROVE  disk[r] = [body |-> answers[r], state |-> rec[r].state]
    BY <2>1, <2>4 DEF Sound, Keeps, Waits, Finished, Unfinished, Known
  <2>5. ASSUME r \in Ended(rec), host[r] # None PROVE rec[r].state \in {host[r], "cancelled"}
    BY <2>1, <2>5 DEF Sound, Ended, Known
  <2>6. QED BY <2>3, <2>4, <2>5
<1>2. SoleCopyKept /\ SavedMeansCurrent BY <1>1 DEF SoleCopyKept, SavedMeansCurrent, Known
<1>3. FollowsTheHost BY <1>1 DEF FollowsTheHost, Ended, Known
<1>4. QED BY <1>2, <1>3 DEF MonitorTrue, AnswersKept, CallersToldTrue

\* For any number of tasks, calls, callers and failures: the last answer of every request
\* is in memory or in its file, whatever is evicted and whatever write fails or comes late;
\* what counts as saved is the current answer; a gateway disposes of its modules only when
\* everything is in files; nobody sleeps on a task that is over; and a task has the host's
\* verdict. No request comes both ways, submitted and dispatched.
THEOREM MonitorIsTrue ==
  ASSUME OneWayIn
  PROVE  Spec => []MonitorTrue
<1>1. Init => MInv BY InitHolds
<1>2. MInv /\ [Next]_vars => MInv'
  <2>1. SUFFICES ASSUME MInv, [Next]_vars PROVE MInv' OBVIOUS
  <2>2. Core BY <2>1 DEF MInv, Core
  <2>3. Core' BY <2>1, <2>2, CoreStep DEF MInv
  <2>4. OneCall' BY <2>1, OneCallStep DEF MInv
  <2>5. Quiet' BY <2>1, <2>2, QuietStep DEF MInv
  <2>6. DisposedIsDurable' BY <2>1, <2>2, DisposedStep DEF MInv
  <2>7. QED BY <2>3, <2>4, <2>5, <2>6 DEF MInv, Core
<1>3. MInv => MonitorTrue BY MInvIsTrue
<1>4. QED BY <1>1, <1>2, <1>3, PTL DEF Spec
=============================================================================
