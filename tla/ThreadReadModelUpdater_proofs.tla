-------------------- MODULE ThreadReadModelUpdater_proofs --------------------
(***************************************************************************)
(* Invariants of ThreadReadModelUpdater, the refinement of EventProjection *)
(* and what the queries of ThreadDas show, for any number of threads,      *)
(* commands, batch size, restarts and bounds.                              *)
(***************************************************************************)
EXTENDS ThreadDas, ThreadAggregate_proofs, WellFoundedInduction,
        FiniteSetTheorems

-----------------------------------------------------------------------------
(* The largest sequence number.                                            *)

Less == {ss \in Nat \X Nat : ss[1] < ss[2]}

LEMMA LessWellFounded == IsWellFoundedOn(Less, Nat)
<1>1. OpToRel(<, Nat) = Less
  BY DEF OpToRel, Less
<1> QED
  BY <1>1, NatLessThanWellFounded

\* A set of numbers with a bound has a largest one.
LEMMA LargestExists ==
  ASSUME NEW S \in SUBSET Nat, S # {}, NEW b \in Nat, \A n \in S : n <= b
  PROVE  \E n \in S : \A m \in S : m <= n
<1> DEFINE D == {b - n : n \in S}
<1>1. D \subseteq Nat /\ D # {}
  <2>1. \A n \in S : b - n \in Nat
    OBVIOUS
  <2>2. D \subseteq Nat
    BY <2>1
  <2>3. PICK n \in S : TRUE
    OBVIOUS
  <2>4. b - n \in D
    OBVIOUS
  <2> QED
    BY <2>2, <2>4
<1>2. PICK d \in D : \A e \in D : ~(<<e, d>> \in Less)
  <2> HIDE DEF D
  <2> QED
    BY <1>1, LessWellFounded, WFMin
<1>3. PICK n \in S : d = b - n
  OBVIOUS
<1>4. ASSUME NEW m \in S PROVE m <= n
  <2>1. b - m \in D
    OBVIOUS
  <2>2. ~(b - m < d)
    BY <1>1, <1>2, <2>1 DEF Less
  <2> QED
    BY <1>3, <2>2
<1> QED
  BY <1>4

LEMMA LastIsLargest ==
  ASSUME NEW T, NEW b \in Nat, \A t \in Threads : T.row[t].sequenceNr \in 0 .. b
  PROVE  /\ LastSequenceNr(T) \in 0 .. b
         /\ LastSequenceNr(T) = 0 \/ \E t \in Threads : LastSequenceNr(T) = T.row[t].sequenceNr
         /\ \A t \in Threads : T.row[t].sequenceNr <= LastSequenceNr(T)
<1> DEFINE numbers == {0} \cup {T.row[t].sequenceNr : t \in Threads}
<1>1. numbers \in SUBSET Nat /\ numbers # {} /\ \A n \in numbers : n <= b
  OBVIOUS
<1>2. \E n \in numbers : \A m \in numbers : m <= n
  <2> HIDE DEF numbers
  <2> QED
    BY <1>1, LargestExists
<1>3. /\ LastSequenceNr(T) \in numbers
      /\ \A m \in numbers : m <= LastSequenceNr(T)
  BY <1>2 DEF LastSequenceNr
<1> QED
  BY <1>3

-----------------------------------------------------------------------------
(* The transaction of an event.                                            *)

LEMMA RowType ==
  ASSUME NEW T \in Tables
  PROVE  /\ T.row \in [Threads -> [sequenceNr : Nat, removed : BOOLEAN]]
         /\ T.administratorIds \in [Threads -> SUBSET Account]
         /\ T.memberIds \in [Threads -> SUBSET Account]
         /\ T.messages \in [Threads -> SUBSET Message]
         /\ T.deleted \in SUBSET MessageId
BY DEF Tables

\* The actions on the row of the thread: they write the number or leave it.
LEMMA RowActions ==
  ASSUME NEW T \in Tables, NEW t \in Threads, NEW n \in Nat
  PROVE  /\ InsertThread(T, t, n) \in Tables
         /\ UpdateThreadToRemove(T, t, n) \in Tables
         /\ UpdateSequenceNrInThread(T, t, n) \in Tables
         /\ \A U \in {InsertThread(T, t, n), UpdateThreadToRemove(T, t, n),
                      UpdateSequenceNrInThread(T, t, n)} :
              \A u \in Threads : U.row[u].sequenceNr \in {T.row[u].sequenceNr, n}
<1> USE RowType
<1>1. /\ InsertThread(T, t, n) \in Tables
      /\ \A u \in Threads : InsertThread(T, t, n).row[u].sequenceNr \in {T.row[u].sequenceNr, n}
  BY DEF Tables, InsertThread
<1>2. /\ UpdateThreadToRemove(T, t, n) \in Tables
      /\ \A u \in Threads :
           UpdateThreadToRemove(T, t, n).row[u].sequenceNr \in {T.row[u].sequenceNr, n}
  BY DEF Tables, UpdateThreadToRemove
<1>3. /\ UpdateSequenceNrInThread(T, t, n) \in Tables
      /\ \A u \in Threads :
           UpdateSequenceNrInThread(T, t, n).row[u].sequenceNr \in {T.row[u].sequenceNr, n}
  <2> DEFINE r == [T.row[t] EXCEPT !.sequenceNr = n]
             U == [T EXCEPT !.row = [T.row EXCEPT ![t] = r]]
  <2>1. r \in [sequenceNr : Nat, removed : BOOLEAN] /\ r.sequenceNr = n
    OBVIOUS
  <2>2. UpdateSequenceNrInThread(T, t, n) \in {T, U}
    BY DEF UpdateSequenceNrInThread
  <2>3. U \in Tables /\ \A u \in Threads : U.row[u].sequenceNr \in {T.row[u].sequenceNr, n}
    <3> HIDE DEF r
    <3> QED
      BY <2>1 DEF Tables
  <2> QED
    BY <2>2, <2>3
<1> QED
  BY <1>1, <1>2, <1>3

\* Tables that differ in no row.
SameRows(T, U) == U \in Tables /\ U.row = T.row

\* The other actions leave every row alone.
LEMMA IdActions ==
  ASSUME NEW T \in Tables, NEW t \in Threads, NEW ids \in SUBSET Account
  PROVE  /\ SameRows(T, InsertAdministratorIds(T, t, ids))
         /\ SameRows(T, DeleteAdministratorIds(T, t, ids))
         /\ SameRows(T, InsertMemberIds(T, t, ids))
         /\ SameRows(T, DeleteMemberIds(T, t, ids))
<1> USE RowType DEF SameRows
<1>1. SameRows(T, InsertAdministratorIds(T, t, ids))
  BY DEF Tables, InsertAdministratorIds
<1>2. SameRows(T, DeleteAdministratorIds(T, t, ids))
  BY DEF Tables, DeleteAdministratorIds
<1>3. SameRows(T, InsertMemberIds(T, t, ids))
  BY DEF Tables, InsertMemberIds
<1>4. SameRows(T, DeleteMemberIds(T, t, ids))
  BY DEF Tables, DeleteMemberIds
<1> QED
  BY <1>1, <1>2, <1>3, <1>4

LEMMA MessageActions ==
  ASSUME NEW T \in Tables, NEW t \in Threads,
         NEW messages \in SUBSET Message, NEW messageIds \in SUBSET MessageId
  PROVE  /\ SameRows(T, InsertMessages(T, t, messages))
         /\ SameRows(T, DeleteMessages(T, messageIds))
<1> USE RowType DEF SameRows
<1>1. SameRows(T, InsertMessages(T, t, messages))
  BY DEF Tables, InsertMessages
<1>2. SameRows(T, DeleteMessages(T, messageIds))
  BY DEF Tables, DeleteMessages
<1> QED
  BY <1>1, <1>2

\* An event's transaction writes its number into rows, or leaves them as they are.
LEMMA CommittedType ==
  ASSUME NEW T \in Tables, NEW ee \in Envelope
  PROVE  /\ Committed(T, ee) \in Tables
         /\ \A u \in Threads :
              Committed(T, ee).row[u].sequenceNr \in {T.row[u].sequenceNr, ee.sequenceNr}
<1> DEFINE t == ee.thread
           e == ee.event
           n == ee.sequenceNr
           U == UpdateSequenceNrInThread(T, t, n)
           V == InsertThread(T, t, n)
           messages == MessagesOf(ToCommandRequest(e))
<1>0. /\ t \in Threads /\ n \in Nat /\ e \in Event
      /\ e.administratorIds \in SUBSET Account /\ e.memberIds \in SUBSET Account
      /\ e.messageIds \in SUBSET MessageId /\ e.type \in DOMAIN RequestOpOf
  BY DEF Envelope, Event
<1>1. messages \in SUBSET Message
  <2>1. ToCommandRequest(e) \in Request
    BY <1>0, ConversionType
  <2> QED
    BY <2>1 DEF MessagesOf, Message, Request
<1>2. /\ U \in Tables /\ V \in Tables /\ UpdateThreadToRemove(T, t, n) \in Tables
      /\ \A u \in Threads : U.row[u].sequenceNr \in {T.row[u].sequenceNr, n}
      /\ \A u \in Threads : V.row[u].sequenceNr \in {T.row[u].sequenceNr, n}
      /\ \A u \in Threads :
           UpdateThreadToRemove(T, t, n).row[u].sequenceNr \in {T.row[u].sequenceNr, n}
  BY <1>0, RowActions
<1> DEFINE W == InsertAdministratorIds(V, t, e.administratorIds)
<1> HIDE DEF t, e, n, U, V, W, messages
<1>3. CASE e.type = "ThreadCreated"
  <2>1. Committed(T, ee) = InsertMemberIds(W, t, e.memberIds)
    BY <1>3 DEF Committed, t, e, n, V, W
  <2>2. SameRows(V, W)
    BY <1>0, <1>2, IdActions DEF W
  <2>3. SameRows(W, InsertMemberIds(W, t, e.memberIds))
    BY <1>0, <2>2, IdActions DEF SameRows
  <2> QED
    BY <1>2, <2>1, <2>2, <2>3 DEF n, SameRows
<1>4. CASE e.type = "ThreadDestroyed"
  <2>1. Committed(T, ee) = UpdateThreadToRemove(T, t, n)
    BY <1>4 DEF Committed, t, e, n
  <2> QED
    BY <1>2, <2>1 DEF n
<1>5. CASE e.type \notin {"ThreadCreated", "ThreadDestroyed"}
  <2>1. Committed(T, ee) \in
          {InsertAdministratorIds(U, t, e.administratorIds),
           DeleteAdministratorIds(U, t, e.administratorIds),
           InsertMemberIds(U, t, e.memberIds), DeleteMemberIds(U, t, e.memberIds),
           InsertMessages(U, t, messages), DeleteMessages(U, e.messageIds)}
    BY <1>0, <1>5, ZenonT(30) DEF Committed, RequestOpOf, t, e, n, U, messages
  <2>2. /\ SameRows(U, InsertAdministratorIds(U, t, e.administratorIds))
        /\ SameRows(U, DeleteAdministratorIds(U, t, e.administratorIds))
    BY <1>0, <1>2, IdActions
  <2>3. /\ SameRows(U, InsertMemberIds(U, t, e.memberIds))
        /\ SameRows(U, DeleteMemberIds(U, t, e.memberIds))
    BY <1>0, <1>2, IdActions
  <2>4. /\ SameRows(U, InsertMessages(U, t, messages))
        /\ SameRows(U, DeleteMessages(U, e.messageIds))
    BY <1>0, <1>1, <1>2, MessageActions
  <2>5. SameRows(U, Committed(T, ee))
    BY <2>1, <2>2, <2>3, <2>4
  <2> QED
    BY <1>2, <2>5 DEF n, SameRows
<1> QED
  BY <1>3, <1>4, <1>5

-----------------------------------------------------------------------------
(* The inductive invariant.                                                *)

\* An event's number in its thread is at most its number in the tag.
JournalInv ==
  /\ tagged \in Seq(Envelope)
  /\ states \in [Threads -> Seq(Behaviour)]
  /\ \A t \in Threads : Len(states[t]) \in 1 .. Len(tagged) + 1
  /\ \A k \in DOMAIN tagged : tagged[k].sequenceNr \in 1 .. k

\* What has been applied is a prefix of the tag, and no row is ahead of it.
TablesInv ==
  /\ tables \in Tables
  /\ applied \subseteq DOMAIN tagged
  /\ again \subseteq applied
  /\ \A k \in applied : 1 .. k \subseteq applied
  /\ \A t \in Threads : 1 .. tables.row[t].sequenceNr \subseteq applied

\* A running stream has skipped nothing.
StreamInv ==
  /\ stream \in {"none", "starting", "running", "backoff", "ended"}
  /\ position \in 0 .. Len(tagged)
  /\ batch \in position .. Len(tagged)
  /\ restarts \in 0 .. MaxRestarts
  /\ faults \in 0 .. MaxFaults
  /\ stream = "running" => 1 .. position \subseteq applied

\* Nor has a batch whose stream has failed, and each is kept at the number of its fault.
OrphanInv ==
  /\ orphans \in [Slots -> [position : Nat, batch : Nat]]
  /\ overlapped \in BOOLEAN
  /\ \A i \in Slots :
       orphans[i] # Done =>
         /\ i <= faults
         /\ orphans[i].position < orphans[i].batch /\ orphans[i].batch <= Len(tagged)
         /\ 1 .. orphans[i].position \subseteq applied

IInv == JournalInv /\ TablesInv /\ StreamInv /\ OrphanInv

\* The offset is a place in the tag, up to which everything has been applied.
LEMMA OffsetInTag ==
  ASSUME JournalInv, TablesInv
  PROVE  /\ LastSequenceNr(tables) \in 0 .. Len(tagged)
         /\ 1 .. LastSequenceNr(tables) \subseteq applied
         /\ \A t \in Threads : tables.row[t].sequenceNr <= LastSequenceNr(tables)
<1>1. Len(tagged) \in Nat /\ DOMAIN tagged = 1 .. Len(tagged)
  BY DEF JournalInv
<1>2. \A t \in Threads : tables.row[t].sequenceNr \in 0 .. Len(tagged)
  <2> SUFFICES ASSUME NEW t \in Threads
               PROVE  tables.row[t].sequenceNr \in 0 .. Len(tagged)
    OBVIOUS
  <2>1. tables.row[t].sequenceNr \in Nat
    BY RowType DEF TablesInv
  <2>2. 1 .. tables.row[t].sequenceNr \subseteq 1 .. Len(tagged)
    BY <1>1 DEF TablesInv
  <2> QED
    BY <1>1, <2>1, <2>2
<1>3. /\ LastSequenceNr(tables) \in 0 .. Len(tagged)
      /\ \/ LastSequenceNr(tables) = 0
         \/ \E t \in Threads : LastSequenceNr(tables) = tables.row[t].sequenceNr
      /\ \A t \in Threads : tables.row[t].sequenceNr <= LastSequenceNr(tables)
  BY <1>1, <1>2, LastIsLargest
<1>4. 1 .. LastSequenceNr(tables) \subseteq applied
  BY <1>3 DEF TablesInv
<1> QED
  BY <1>3, <1>4

LEMMA InitIInv == Init => IInv
<1> SUFFICES ASSUME Init PROVE IInv
  OBVIOUS
<1> USE DEF Init
<1>1. JournalInv
  <2>1. Initial \in Behaviour
    BY DEF Initial, NoThread, NewThread, NotRemoved, Behaviour, ThreadState
  <2>2. <<Initial>> \in Seq(Behaviour) /\ Len(<<Initial>>) = 1
    BY <2>1
  <2> HIDE DEF Init
  <2>3. states = [t \in Threads |-> <<Initial>>] /\ tagged = <<>>
    BY DEF Init
  <2> QED
    BY <2>2, <2>3 DEF JournalInv
<1>2. TablesInv
  BY DEF TablesInv, Tables, EmptyTables, NoRow
<1>3. StreamInv
  BY UpdaterAssumption DEF StreamInv
<1>4. OrphanInv
  BY DEF OrphanInv, Done
<1> QED
  BY <1>1, <1>2, <1>3, <1>4 DEF IInv

\* A stored event has the next number of the tag and one no larger of its thread.
LEMMA WriteIInv ==
  ASSUME IInv, NEW t \in Threads, NEW c \in Commands, Write(t, c)
  PROVE  IInv'
<1> USE DEF IInv
<1> DEFINE ee == [thread |-> t, sequenceNr |-> Len(states[t]), event |-> ToEvent(c, Len(tagged) + 1)]
           b == After(Current(t), c)
<1>1. /\ tagged' = Append(tagged, ee)
      /\ states' = [states EXCEPT ![t] = Append(states[t], b)]
      /\ IsCommand(c)
      /\ UNCHANGED <<tables, stream, position, batch, restarts, orphans, faults>>
      /\ UNCHANGED <<applied, again, overlapped>>
  BY DEF Write, streamVars, historyVars
<1>2. Len(tagged) \in Nat /\ DOMAIN tagged = 1 .. Len(tagged) /\ tagged \in Seq(Envelope)
  BY DEF JournalInv
<1>3. states[t] \in Seq(Behaviour) /\ Len(states[t]) \in 1 .. Len(tagged) + 1
  BY DEF JournalInv
<1>4. ee \in Envelope
  <2>1. c \in Request
    BY UpdaterAssumption
  <2>2. ToEvent(c, Len(tagged) + 1) \in Event
    BY <1>1, <1>2, <2>1, ConversionType
  <2> QED
    BY <1>2, <1>3, <2>2 DEF Envelope
<1>5. b \in Behaviour
  <2>1. c \in Request
    BY UpdaterAssumption
  <2>2. Current(t) \in Behaviour
    BY <1>2, <1>3 DEF Current
  <2> QED
    BY <1>1, <2>1, <2>2, AfterType
<1>6. ee.sequenceNr = Len(states[t])
  OBVIOUS
<1> HIDE DEF ee, b, IInv
<1>7. /\ tagged' \in Seq(Envelope) /\ Len(tagged') = Len(tagged) + 1
      /\ DOMAIN tagged' = 1 .. Len(tagged) + 1
      /\ \A k \in 1 .. Len(tagged) : tagged'[k] = tagged[k]
      /\ tagged'[Len(tagged) + 1] = ee
  BY <1>1, <1>2, <1>4
<1>8. JournalInv'
  <2>1. Append(states[t], b) \in Seq(Behaviour) /\ Len(Append(states[t], b)) = Len(states[t]) + 1
    BY <1>3, <1>5
  <2>2. states' \in [Threads -> Seq(Behaviour)]
    BY <1>1, <2>1 DEF IInv, JournalInv
  <2>3. \A u \in Threads : Len(states'[u]) \in 1 .. Len(tagged') + 1
    <3>1. states'[t] = Append(states[t], b)
      BY <1>1 DEF IInv, JournalInv
    <3>2. \A u \in Threads : u # t => states'[u] = states[u]
      BY <1>1 DEF IInv, JournalInv
    <3>3. \A u \in Threads : Len(states[u]) \in 1 .. Len(tagged) + 1
      BY DEF IInv, JournalInv
    <3> QED
      BY <1>2, <1>3, <1>7, <2>1, <3>1, <3>2, <3>3
  <2>4. \A k \in DOMAIN tagged' : tagged'[k].sequenceNr \in 1 .. k
    <3>1. \A k \in 1 .. Len(tagged) : tagged[k].sequenceNr \in 1 .. k
      BY <1>2 DEF IInv, JournalInv
    <3>2. tagged'[Len(tagged) + 1].sequenceNr \in 1 .. Len(tagged) + 1
      BY <1>3, <1>6, <1>7
    <3> QED
      BY <1>2, <1>7, <3>1, <3>2
  <2> QED
    BY <1>7, <2>2, <2>3, <2>4 DEF JournalInv
<1>9. TablesInv'
  BY <1>1, <1>2, <1>7 DEF IInv, TablesInv
<1>10. StreamInv'
  BY <1>1, <1>2, <1>7 DEF IInv, StreamInv
<1>11. OrphanInv'
  BY <1>1, <1>2, <1>7 DEF IInv, OrphanInv
<1> QED
  BY <1>8, <1>9, <1>10, <1>11 DEF IInv

\* A place behind which everything has been applied, with an event left to apply.
Ready(k) == k \in 1 .. Len(tagged) /\ 1 .. k - 1 \subseteq applied

\* A transaction committed there adds its event to those applied.
LEMMA TransactIInv ==
  ASSUME IInv, NEW k, Ready(k), Transact(k), UNCHANGED journalVars
  PROVE  /\ JournalInv' /\ TablesInv'
         /\ applied \subseteq applied' /\ 1 .. k \subseteq applied'
<1> DEFINE ee == tagged[k]
<1>1. /\ tables' = Committed(tables, ee)
      /\ again' = again \cup (applied \cap {k})
      /\ applied' = applied \cup {k}
      /\ UNCHANGED <<tagged, states>>
  BY DEF Transact, journalVars
<1>2. /\ Len(tagged) \in Nat /\ DOMAIN tagged = 1 .. Len(tagged) /\ tagged \in Seq(Envelope)
      /\ k \in 1 .. Len(tagged) /\ 1 .. k - 1 \subseteq applied
  BY DEF IInv, JournalInv, Ready
<1>3. ee \in Envelope /\ ee.sequenceNr \in 1 .. k
  BY <1>2 DEF IInv, JournalInv
<1> HIDE DEF ee
<1>4. tables \in Tables
  BY DEF IInv, TablesInv
<1>5. /\ tables' \in Tables
      /\ \A u \in Threads : tables'.row[u].sequenceNr \in {tables.row[u].sequenceNr, ee.sequenceNr}
  BY <1>1, <1>3, <1>4, CommittedType
<1>6. 1 .. k \subseteq applied' /\ applied \subseteq applied'
  BY <1>1, <1>2
<1>7. JournalInv'
  BY <1>1 DEF IInv, JournalInv
<1>8. TablesInv'
  <2>1. applied' \subseteq DOMAIN tagged' /\ again' \subseteq applied'
    BY <1>1, <1>2 DEF IInv, TablesInv
  <2>2. \A j \in applied' : 1 .. j \subseteq applied'
    BY <1>1, <1>6 DEF IInv, TablesInv
  <2>3. \A u \in Threads : 1 .. tables'.row[u].sequenceNr \subseteq applied'
    <3> SUFFICES ASSUME NEW u \in Threads PROVE 1 .. tables'.row[u].sequenceNr \subseteq applied'
      OBVIOUS
    <3>1. CASE tables'.row[u].sequenceNr = ee.sequenceNr
      BY <1>2, <1>3, <1>6, <3>1
    <3>2. CASE tables'.row[u].sequenceNr = tables.row[u].sequenceNr
      BY <1>1, <3>2 DEF IInv, TablesInv
    <3> QED
      BY <1>5, <3>1, <3>2
  <2> QED
    BY <1>5, <2>1, <2>2, <2>3 DEF TablesInv
<1> QED
  BY <1>6, <1>7, <1>8

LEMMA CommitReady ==
  ASSUME IInv, Working
  PROVE  Ready(position + 1) /\ position \in Nat
BY DEF IInv, JournalInv, StreamInv, Working, Ready

LEMMA OrphanReady ==
  ASSUME IInv, NEW i \in Slots, orphans[i] # Done
  PROVE  /\ Ready(orphans[i].position + 1) /\ orphans[i].position \in Nat
         /\ i \in 1 .. faults
<1>1. orphans[i] \in [position : Nat, batch : Nat] /\ i \in Nat /\ i >= 1 /\ faults \in Nat
  BY UpdaterAssumption DEF IInv, OrphanInv, StreamInv, Slots
<1> QED
  BY <1>1 DEF IInv, JournalInv, OrphanInv, Ready

LEMMA CommitIInv ==
  ASSUME IInv, Commit
  PROVE  IInv'
<1>1. /\ stream = "running" /\ position < batch
      /\ position' = position + 1
      /\ UNCHANGED <<tagged, stream, batch, orphans, restarts, faults, overlapped>>
      /\ Transact(position + 1) /\ UNCHANGED journalVars
  BY DEF Commit, Working, journalVars
<1>2. Ready(position + 1)
  BY CommitReady DEF Commit
<1>3. /\ JournalInv' /\ TablesInv'
      /\ applied \subseteq applied' /\ 1 .. position + 1 \subseteq applied'
  BY <1>1, <1>2, TransactIInv
<1>4. StreamInv'
  BY <1>1, <1>3 DEF IInv, JournalInv, StreamInv
<1>5. OrphanInv'
  BY <1>1, <1>3 DEF IInv, OrphanInv
<1> QED
  BY <1>3, <1>4, <1>5 DEF IInv

\* What a step of a batch left behind makes of the batches.
LEMMA OrphanSteps ==
  ASSUME IInv, NEW i \in Slots, OrphanCommits(i)
  PROVE  LET k == orphans[i].position + 1
         IN  /\ Ready(k) /\ Transact(k) /\ UNCHANGED journalVars
             /\ UNCHANGED <<stream, position, batch, restarts, faults, overlapped>>
             /\ \/ k = orphans[i].batch /\ orphans' = [orphans EXCEPT ![i] = Done]
                \/ /\ k < orphans[i].batch
                   /\ orphans' = [orphans EXCEPT ![i] = [position |-> k, batch |-> orphans[i].batch]]
<1> DEFINE o == orphans[i]
           k == o.position + 1
<1>1. /\ o # Done /\ Transact(k)
      /\ orphans' = [orphans EXCEPT ![i] = IF k = o.batch THEN Done ELSE [o EXCEPT !.position = k]]
      /\ UNCHANGED journalVars
      /\ UNCHANGED <<stream, position, batch, restarts, faults, overlapped>>
  BY DEF OrphanCommits, streamVars, OrphanInv, IInv
<1>2. Ready(k)
  BY <1>1, OrphanReady
<1>3. o \in [position : Nat, batch : Nat] /\ o.position < o.batch
  BY <1>1 DEF IInv, OrphanInv
<1>4. [o EXCEPT !.position = k] = [position |-> k, batch |-> o.batch]
  BY <1>3
<1>5. k = o.batch \/ k < o.batch
  BY <1>3
<1> QED
  BY <1>1, <1>2, <1>4, <1>5

LEMMA OrphanIInv ==
  ASSUME IInv, NEW i \in Slots, OrphanCommits(i)
  PROVE  IInv'
<1> DEFINE k == orphans[i].position + 1
           o == [position |-> k, batch |-> orphans[i].batch]
<1>1. /\ Ready(k) /\ Transact(k) /\ UNCHANGED journalVars
      /\ UNCHANGED <<stream, position, batch, restarts, faults, overlapped>>
      /\ \/ k = orphans[i].batch /\ orphans' = [orphans EXCEPT ![i] = Done]
         \/ k < orphans[i].batch /\ orphans' = [orphans EXCEPT ![i] = o]
  BY OrphanSteps
<1>2. /\ JournalInv' /\ TablesInv'
      /\ applied \subseteq applied' /\ 1 .. k \subseteq applied'
  BY <1>1, TransactIInv
<1>3. UNCHANGED tagged
  BY <1>1 DEF journalVars
<1>4. StreamInv'
  BY <1>1, <1>2, <1>3 DEF IInv, JournalInv, StreamInv
<1>5. /\ orphans[i] \in [position : Nat, batch : Nat] /\ orphans \in [Slots -> [position : Nat, batch : Nat]]
      /\ orphans[i] # Done /\ i <= faults /\ orphans[i].batch <= Len(tagged)
  BY DEF IInv, OrphanInv, OrphanCommits
<1>6. Done \in [position : Nat, batch : Nat]
  BY DEF Done
<1>7. o \in [position : Nat, batch : Nat] /\ o.position = k /\ o.batch = orphans[i].batch
  BY <1>5
<1> HIDE DEF o
<1>8. OrphanInv'
  <2>1. orphans' \in [Slots -> [position : Nat, batch : Nat]]
    BY <1>1, <1>5, <1>6, <1>7
  <2>2. ASSUME NEW j \in Slots, orphans'[j] # Done
        PROVE  /\ j <= faults'
               /\ orphans'[j].position < orphans'[j].batch /\ orphans'[j].batch <= Len(tagged')
               /\ 1 .. orphans'[j].position \subseteq applied'
    <3>1. CASE j = i
      BY <1>1, <1>2, <1>3, <1>5, <1>7, <2>2, <3>1
    <3>2. CASE j # i
      <4>1. orphans'[j] = orphans[j]
        BY <1>1, <1>5, <3>2
      <4> QED
        BY <1>1, <1>2, <1>3, <2>2, <4>1 DEF IInv, OrphanInv
    <3> QED
      BY <3>1, <3>2
  <2> QED
    BY <1>1, <2>1, <2>2 DEF IInv, OrphanInv
<1> QED
  BY <1>2, <1>4, <1>8 DEF IInv

\* The steps that write no table.
Silent ==
  \/ Start \/ ReadOffset \/ SendBatch \/ KeyViolated \/ BackoffElapsed
  \/ DatabaseFails \/ SourceFails \/ Crash
  \/ \E i \in Slots : OrphanFails(i)

LEMMA SilentLeaves ==
  ASSUME Silent
  PROVE  UNCHANGED <<tagged, states, tables, applied, again>>
BY DEF Silent, Start, ReadOffset, SendBatch, KeyViolated, DatabaseFails, SourceFails,
       BackoffElapsed, Crash, OrphanFails, Restart, journalVars, historyVars

LEMMA SilentIInv ==
  ASSUME IInv, Silent
  PROVE  IInv'
<1>1. UNCHANGED <<tagged, states, tables, applied, again>>
  BY SilentLeaves
<1>2. JournalInv' /\ TablesInv'
  BY <1>1 DEF IInv, JournalInv, TablesInv
<1>3. Len(tagged) \in Nat
  BY DEF IInv, JournalInv
<1>4. StreamInv'
  <2> USE DEF IInv, StreamInv
  <2>1. CASE Start
    BY <1>1, <2>1 DEF Start
  <2>2. CASE ReadOffset
    <3>1. /\ position' = LastSequenceNr(tables) /\ batch' = LastSequenceNr(tables)
          /\ stream' = "running" /\ UNCHANGED <<restarts, faults>>
      BY <2>2 DEF ReadOffset
    <3>2. /\ LastSequenceNr(tables) \in 0 .. Len(tagged)
          /\ 1 .. LastSequenceNr(tables) \subseteq applied
      BY OffsetInTag
    <3> QED
      BY <1>1, <1>3, <3>1, <3>2
  <2>3. CASE SendBatch
    BY <1>1, <1>3, <2>3, UpdaterAssumption DEF SendBatch
  <2>4. CASE KeyViolated
    BY <1>1, <1>3, <2>4, UpdaterAssumption DEF KeyViolated, Restart
  <2>5. CASE DatabaseFails \/ SourceFails
    BY <1>1, <1>3, <2>5, UpdaterAssumption DEF DatabaseFails, SourceFails, Fault, Restart
  <2>6. CASE BackoffElapsed
    BY <1>1, <2>6 DEF BackoffElapsed
  <2>7. CASE Crash
    BY <1>1, <1>3, <2>7, UpdaterAssumption DEF Crash, Fault
  <2>8. ASSUME NEW i \in Slots, OrphanFails(i) PROVE StreamInv'
    BY <1>1, <2>8 DEF OrphanFails, streamVars
  <2> QED
    BY <2>1, <2>2, <2>3, <2>4, <2>5, <2>6, <2>7, <2>8 DEF Silent
<1>5. OrphanInv'
  <2> USE DEF IInv
  <2>0. /\ Done \in [position : Nat, batch : Nat]
        /\ faults \in Nat /\ position \in Nat /\ batch \in Nat
    BY <1>3, UpdaterAssumption DEF Done, StreamInv
  <2>1. ASSUME UNCHANGED orphans, faults' \in {faults, faults + 1}, overlapped' \in BOOLEAN
        PROVE  OrphanInv'
    <3>1. \A i \in Slots : i <= faults => i <= faults'
      BY <2>0, <2>1 DEF Slots
    <3> QED
      BY <1>1, <2>1, <3>1 DEF OrphanInv
  <2>2. CASE Start \/ ReadOffset \/ SendBatch \/ KeyViolated \/ BackoffElapsed \/ DatabaseFails
    <3>1. UNCHANGED orphans /\ faults' \in {faults, faults + 1}
      BY <2>2 DEF Start, ReadOffset, SendBatch, KeyViolated, BackoffElapsed, DatabaseFails, Fault
    <3>2. overlapped' = overlapped \/ overlapped' \in BOOLEAN
      BY <2>2 DEF Start, ReadOffset, SendBatch, KeyViolated, BackoffElapsed, DatabaseFails,
                  Restart, historyVars
    <3> QED
      BY <2>1, <3>1, <3>2 DEF OrphanInv
  <2>3. CASE SourceFails
    <3>1. stream = "running" /\ faults' = faults + 1 /\ faults < MaxFaults /\ overlapped' = overlapped
      BY <2>3 DEF SourceFails, Fault, Restart, historyVars
    <3>2. CASE ~Working
      BY <2>1, <2>3, <3>1, <3>2 DEF SourceFails, OrphanInv
    <3>3. CASE Working
      <4> DEFINE o == [position |-> position, batch |-> batch]
      <4>1. orphans' = [orphans EXCEPT ![faults'] = o]
        BY <2>3, <3>3 DEF SourceFails
      <4>2. /\ o \in [position : Nat, batch : Nat] /\ o.position = position /\ o.batch = batch
            /\ faults' \in Slots
        BY <2>0, <3>1, UpdaterAssumption DEF Slots
      <4> HIDE DEF o
      <4>3. orphans' \in [Slots -> [position : Nat, batch : Nat]]
        BY <4>1, <4>2 DEF OrphanInv
      <4>4. ASSUME NEW i \in Slots, orphans'[i] # Done
            PROVE  /\ i <= faults'
                   /\ orphans'[i].position < orphans'[i].batch /\ orphans'[i].batch <= Len(tagged)
                   /\ 1 .. orphans'[i].position \subseteq applied
        <5>1. CASE i = faults'
          <6>1. orphans'[i] = o
            BY <4>1, <4>2, <5>1 DEF OrphanInv
          <6> QED
            BY <1>3, <2>0, <3>1, <3>3, <4>2, <5>1, <6>1 DEF Working, StreamInv
        <5>2. CASE i # faults'
          <6>1. orphans'[i] = orphans[i] /\ i \in Nat
            BY <4>1, <4>2, <5>2 DEF OrphanInv, Slots
          <6> QED
            BY <2>0, <3>1, <4>4, <6>1 DEF OrphanInv
        <5> QED
          BY <5>1, <5>2
      <4> QED
        BY <1>1, <3>1, <4>3, <4>4 DEF OrphanInv
    <3> QED
      BY <3>2, <3>3
  <2>4. CASE Crash
    <3>1. orphans' = [i \in Slots |-> Done] /\ overlapped' = overlapped
      BY <2>4 DEF Crash, historyVars
    <3> QED
      BY <2>0, <3>1 DEF OrphanInv
  <2>5. ASSUME NEW i \in Slots, OrphanFails(i) PROVE OrphanInv'
    <3>1. orphans' = [orphans EXCEPT ![i] = Done] /\ UNCHANGED <<faults, overlapped>>
      BY <2>5 DEF OrphanFails, historyVars
    <3> QED
      BY <1>1, <2>0, <3>1 DEF OrphanInv
  <2> QED
    BY <2>2, <2>3, <2>4, <2>5 DEF Silent
<1> QED
  BY <1>2, <1>4, <1>5 DEF IInv

\* The steps of the updater, as the proofs take them apart.
LEMMA NextCases ==
  ASSUME [Next]_vars,
         NEW P, \A t \in Threads, c \in Commands : Write(t, c) => P,
         Commit => P, \A i \in Slots : OrphanCommits(i) => P,
         Silent => P, UNCHANGED vars => P
  PROVE  P
BY DEF Next, StreamStep, Silent

LEMMA NextIInv == IInv /\ [Next]_vars => IInv'
<1> SUFFICES ASSUME IInv, [Next]_vars PROVE IInv'
  OBVIOUS
<1>1. UNCHANGED vars => IInv'
  BY DEF vars, IInv, JournalInv, TablesInv, StreamInv, OrphanInv
<1> QED
  BY <1>1, WriteIInv, CommitIInv, OrphanIInv, SilentIInv, NextCases

LEMMA IInvHolds == Spec => []IInv
<1> QED
  BY InitIInv, NextIInv, PTL DEF Spec

(***************************************************************************)
(* Every variable keeps its type: the stream never stands past the end of  *)
(* the tag, nor a batch reaches past it, although its offset is a number   *)
(* counted per thread.                                                     *)
(***************************************************************************)
THEOREM UpdaterTypeCorrect == Spec => []TypeOK
<1>1. IInv => TypeOK
  <2> SUFFICES ASSUME IInv PROVE TypeOK
    OBVIOUS
  <2>1. orphans \in [Slots -> [position : 0 .. Len(tagged), batch : 0 .. Len(tagged)]]
    <3>1. orphans \in [Slots -> [position : Nat, batch : Nat]] /\ Len(tagged) \in Nat
      BY DEF IInv, JournalInv, OrphanInv
    <3>2. \A i \in Slots : orphans[i].position \in 0 .. Len(tagged) /\ orphans[i].batch \in 0 .. Len(tagged)
      BY <3>1 DEF IInv, OrphanInv, Done
    <3>3. \A i \in Slots : orphans[i] \in [position : 0 .. Len(tagged), batch : 0 .. Len(tagged)]
      BY <3>1, <3>2
    <3> QED
      BY <3>1, <3>3
  <2> QED
    BY <2>1 DEF IInv, JournalInv, TablesInv, StreamInv, OrphanInv, TypeOK
<1> QED
  BY <1>1, IInvHolds, PTL

(***************************************************************************)
(* No event is passed over, for any number of threads in the tag, size of  *)
(* batches, and any failures, restarts and crashes: an event's transaction *)
(* is committed only after those of all events before it, and the offset   *)
(* of the next stream, the maximum over the rows, is never beyond the      *)
(* first event missing.                                                    *)
(***************************************************************************)
THEOREM NoEventPassedOver == Spec => []NothingSkipped
<1>1. IInv => NothingSkipped
  BY OffsetInTag DEF IInv, TablesInv, NothingSkipped
<1> QED
  BY <1>1, IInvHolds, PTL

-----------------------------------------------------------------------------
(* The refinement of EventProjection.                                      *)

\* EventProjection speaks of the same tables.
LEMMA SameTables ==
  /\ Projection!EmptyTables = EmptyTables
  /\ \A T : Projection!LastSequenceNr(T) = LastSequenceNr(T)
  /\ \A T, ee : Projection!MeetsKeys(T, ee) = MeetsKeys(T, ee)
  /\ \A T, ee : Projection!Committed(T, ee) = Committed(T, ee)
<1>1. Projection!NoRow = NoRow
  BY DEF Projection!NoRow, NoRow
<1>2. Projection!EmptyTables = EmptyTables
  BY <1>1 DEF Projection!EmptyTables, EmptyTables
<1>3. ASSUME NEW T PROVE Projection!LastSequenceNr(T) = LastSequenceNr(T)
  BY DEF Projection!LastSequenceNr, LastSequenceNr
<1>4. ASSUME NEW T PROVE Projection!StoredMessageIds(T) = StoredMessageIds(T)
  BY DEF Projection!StoredMessageIds, StoredMessageIds
<1>5. ASSUME NEW T, NEW t PROVE Projection!HasRow(T, t) = HasRow(T, t)
  BY <1>1 DEF Projection!HasRow, HasRow
<1>6. ASSUME NEW T, NEW ee PROVE Projection!MeetsKeys(T, ee) = MeetsKeys(T, ee)
  BY <1>4, <1>5 DEF Projection!MeetsKeys, MeetsKeys
<1>7. ASSUME NEW T, NEW t, NEW n
      PROVE  /\ Projection!InsertThread(T, t, n) = InsertThread(T, t, n)
             /\ Projection!UpdateThreadToRemove(T, t, n) = UpdateThreadToRemove(T, t, n)
             /\ Projection!UpdateSequenceNrInThread(T, t, n) = UpdateSequenceNrInThread(T, t, n)
  BY <1>5 DEF Projection!InsertThread, InsertThread,
              Projection!UpdateThreadToRemove, UpdateThreadToRemove,
              Projection!UpdateSequenceNrInThread, UpdateSequenceNrInThread
<1>8. ASSUME NEW T, NEW t, NEW ids
      PROVE  /\ Projection!InsertAdministratorIds(T, t, ids) = InsertAdministratorIds(T, t, ids)
             /\ Projection!DeleteAdministratorIds(T, t, ids) = DeleteAdministratorIds(T, t, ids)
             /\ Projection!InsertMemberIds(T, t, ids) = InsertMemberIds(T, t, ids)
             /\ Projection!DeleteMemberIds(T, t, ids) = DeleteMemberIds(T, t, ids)
             /\ Projection!InsertMessages(T, t, ids) = InsertMessages(T, t, ids)
             /\ Projection!DeleteMessages(T, ids) = DeleteMessages(T, ids)
  BY <1>4 DEF Projection!InsertAdministratorIds, InsertAdministratorIds,
              Projection!DeleteAdministratorIds, DeleteAdministratorIds,
              Projection!InsertMemberIds, InsertMemberIds,
              Projection!DeleteMemberIds, DeleteMemberIds,
              Projection!InsertMessages, InsertMessages,
              Projection!DeleteMessages, DeleteMessages
<1>9. ASSUME NEW e
      PROVE  Projection!MessagesOf(Projection!ToCommandRequest(e)) = MessagesOf(ToCommandRequest(e))
  BY DEF Projection!MessagesOf, MessagesOf, Projection!ToCommandRequest, ToCommandRequest,
         Projection!RequestOpOf, RequestOpOf
<1>10. ASSUME NEW T, NEW ee PROVE Projection!Committed(T, ee) = Committed(T, ee)
  BY <1>7, <1>8, <1>9 DEF Projection!Committed, Committed
<1> QED
  BY <1>2, <1>3, <1>6, <1>10

StreamPlace == IF stream = "running" THEN position ELSE -1
OrphanPlace(i) == IF orphans[i] # Done THEN orphans[i].position ELSE -1
Readers == 0 .. MaxFaults

LEMMA PlacesAre ==
  /\ Places = [r \in Readers |-> IF r = 0 THEN StreamPlace ELSE OrphanPlace(r)]
  /\ Places' = [r \in Readers |-> IF r = 0 THEN StreamPlace' ELSE OrphanPlace(r)']
  /\ 0 \in Readers /\ Slots \subseteq Readers
  /\ \A r \in Readers : r # 0 => r \in Slots
<1>1. MaxFaults \in Nat
  BY UpdaterAssumption
<1>2. /\ 0 \in Readers /\ Slots \subseteq Readers /\ 0 \notin Slots
      /\ \A r \in Readers : r # 0 <=> r \in Slots
  BY <1>1 DEF Readers, Slots
<1> QED
  BY <1>2 DEF Places, StreamPlace, OrphanPlace, Readers

\* The readers whose places a step leaves alone are not those it names.
LEMMA PlacesMove ==
  ASSUME NEW S \in SUBSET Readers, 0 \in S \/ StreamPlace' = StreamPlace,
         \A i \in Slots \ S : orphans'[i] = orphans[i]
  PROVE  \A r \in Readers \ S : Places'[r] = Places[r]
BY PlacesAre DEF OrphanPlace

LEMMA InitProjection == Init => Projection!Init
<1> SUFFICES ASSUME Init PROVE Projection!Init
  OBVIOUS
<1>1. StreamPlace = -1 /\ \A i \in Slots : OrphanPlace(i) = -1
  BY DEF Init, StreamPlace, OrphanPlace
<1>2. Places = [r \in Readers |-> -1]
  BY <1>1, PlacesAre
<1> QED
  BY <1>2, SameTables DEF Init, Projection!Init, Readers

\* Storing an event is Store.
LEMMA WriteIsStore ==
  ASSUME IInv, NEW t \in Threads, NEW c \in Commands, Write(t, c)
  PROVE  Projection!Next
<1>1. tagged \in Seq(Envelope)
  BY DEF IInv, JournalInv
<1>2. /\ Len(tagged') = Len(tagged) + 1
      /\ \A k \in DOMAIN tagged : tagged'[k] = tagged[k]
  BY <1>1 DEF Write
<1>3. UNCHANGED <<tables, applied, Places>>
  BY DEF Write, streamVars, historyVars, Places
<1> QED
  BY <1>2, <1>3 DEF Projection!Next, Projection!Store

\* Committing one is Apply, of the stream or of a batch left behind.
LEMMA TransactIsApply ==
  ASSUME IInv, NEW r \in Readers, Places[r] \in Nat, Ready(Places[r] + 1),
         Transact(Places[r] + 1), UNCHANGED tagged,
         NEW p \in {Places[r] + 1, -1}, Places' = [Places EXCEPT ![r] = p]
  PROVE  Projection!Next
<1>1. Places[r] \in 0 .. Len(tagged) - 1
  BY DEF Ready, IInv, JournalInv
<1>2. Projection!Apply(r)
  BY <1>1, SameTables DEF Transact, Projection!Apply
<1> QED
  BY <1>2 DEF Projection!Next, Readers

LEMMA CommitIsApply ==
  ASSUME IInv, Commit
  PROVE  Projection!Next
<1>1. /\ stream = "running" /\ stream' = "running" /\ position' = position + 1
      /\ Transact(position + 1) /\ UNCHANGED <<tagged, orphans>>
  BY DEF Commit, Working, journalVars
<1>2. Ready(position + 1) /\ position \in Nat
  BY CommitReady DEF Commit
<1>3. Places[0] = position /\ Places'[0] = position + 1
  BY <1>1, PlacesAre DEF StreamPlace
<1>4. Places' = [Places EXCEPT ![0] = position + 1]
  BY <1>1, <1>3, PlacesAre DEF OrphanPlace
<1> QED
  BY <1>1, <1>2, <1>3, <1>4, PlacesAre, TransactIsApply

LEMMA OrphanIsApply ==
  ASSUME IInv, NEW i \in Slots, OrphanCommits(i)
  PROVE  Projection!Next
<1> DEFINE k == orphans[i].position + 1
<1>1. /\ Ready(k) /\ Transact(k) /\ UNCHANGED journalVars
      /\ UNCHANGED <<stream, position, batch, restarts, faults, overlapped>>
      /\ \/ k = orphans[i].batch /\ orphans' = [orphans EXCEPT ![i] = Done]
         \/ k < orphans[i].batch /\ orphans' = [orphans EXCEPT ![i] = [position |-> k, batch |-> orphans[i].batch]]
  BY OrphanSteps
<1>2. orphans[i] # Done /\ orphans \in [Slots -> [position : Nat, batch : Nat]] /\ k - 1 \in Nat
  BY DEF OrphanCommits, IInv, OrphanInv
<1>3. i \in Readers /\ i # 0 /\ Places[i] = orphans[i].position /\ Places[i] + 1 = k
  BY <1>2, PlacesAre, UpdaterAssumption DEF OrphanPlace, Slots
<1> DEFINE p == IF orphans'[i] # Done THEN orphans'[i].position ELSE -1
<1>4. p \in {k, -1}
  BY <1>1, <1>2
<1>5. Places' = [Places EXCEPT ![i] = p]
  <2>1. StreamPlace' = StreamPlace
    BY <1>1 DEF StreamPlace
  <2>2. \A j \in Slots \ {i} : orphans'[j] = orphans[j]
    BY <1>1, <1>2
  <2>3. \A r \in Readers \ {i} : Places'[r] = Places[r]
    BY <1>3, <2>1, <2>2, PlacesMove
  <2>4. Places'[i] = p
    BY <1>3, PlacesAre DEF OrphanPlace
  <2> QED
    BY <1>3, <2>3, <2>4, PlacesAre
<1>6. UNCHANGED tagged /\ Places[i] \in Nat
  BY <1>1, <1>2, <1>3 DEF journalVars
<1> HIDE DEF p, k
<1> QED
  BY <1>1, <1>3, <1>4, <1>5, <1>6, TransactIsApply

\* Readers that end are Stop.
LEMMA EndIsStop ==
  ASSUME UNCHANGED <<tagged, tables, applied>>, NEW S \in SUBSET Readers,
         \A r \in S : Places'[r] = -1, \A r \in Readers \ S : Places'[r] = Places[r]
  PROVE  Projection!Next
<1>1. Places' = [r \in Readers |-> IF r \in S THEN -1 ELSE Places[r]]
  BY PlacesAre
<1> QED
  BY <1>1 DEF Projection!Next, Projection!Stop, Readers

\* The stream begins where the tables say, and leaves its batch to a reader
\* of its own when its source fails; what ends takes its reader with it.
LEMMA SilentProjects ==
  ASSUME IInv, Silent
  PROVE  Projection!Next \/ UNCHANGED Projection!vars
<1>1. UNCHANGED <<tagged, tables, applied>>
  BY SilentLeaves
<1>2. CASE Start \/ SendBatch \/ BackoffElapsed
  <2>1. UNCHANGED <<orphans, StreamPlace>>
    BY <1>2 DEF Start, SendBatch, BackoffElapsed, StreamPlace
  <2>2. UNCHANGED Places
    BY <2>1, PlacesAre DEF OrphanPlace
  <2> QED
    BY <1>1, <2>2 DEF Projection!vars
<1>3. CASE ReadOffset
  <2>1. /\ stream = "starting" /\ stream' = "running" /\ position' = LastSequenceNr(tables)
        /\ UNCHANGED orphans
    BY <1>3 DEF ReadOffset
  <2>2. 1 .. LastSequenceNr(tables) \subseteq applied
    BY OffsetInTag DEF IInv
  <2>3. Places[0] = -1 /\ Places' = [Places EXCEPT ![0] = LastSequenceNr(tables)]
    BY <2>1, PlacesAre DEF StreamPlace, OrphanPlace
  <2>4. Projection!Begin(0)
    BY <1>1, <2>2, <2>3, SameTables DEF Projection!Begin
  <2> QED
    BY <2>4, PlacesAre DEF Projection!Next, Readers
<1>4. CASE KeyViolated \/ DatabaseFails \/ (SourceFails /\ ~Working)
  <2>1. UNCHANGED orphans /\ stream' # "running"
    BY <1>4 DEF KeyViolated, DatabaseFails, SourceFails, Restart
  <2>2. Places'[0] = -1
    BY <2>1, PlacesAre DEF StreamPlace
  <2>3. {0} \in SUBSET Readers /\ \A r \in Readers \ {0} : Places'[r] = Places[r]
    BY <2>1, PlacesAre, PlacesMove
  <2> QED
    BY <1>1, <2>2, <2>3, EndIsStop
<1>5. CASE SourceFails /\ Working
  <2> DEFINE o == [position |-> position, batch |-> batch]
  <2>1. /\ stream = "running" /\ stream' # "running" /\ faults' = faults + 1 /\ faults < MaxFaults
        /\ orphans' = [orphans EXCEPT ![faults'] = o]
        /\ position < batch
    BY <1>5 DEF SourceFails, Working, Restart, Fault
  <2>2. /\ faults \in Nat /\ orphans \in [Slots -> [position : Nat, batch : Nat]]
        /\ position \in Nat /\ batch \in Nat
    BY UpdaterAssumption DEF IInv, StreamInv, OrphanInv, JournalInv
  <2>3. faults' \in Slots /\ faults' # 0
    BY <2>1, <2>2, UpdaterAssumption DEF Slots
  <2>4. orphans[faults'] = Done
    BY <2>1, <2>2, <2>3 DEF IInv, OrphanInv
  <2>5. orphans'[faults'] = o /\ o # Done /\ o.position = position
    BY <2>1, <2>2, <2>3 DEF Done
  <2>6. Places[faults'] = -1 /\ Places[0] = position
    BY <2>1, <2>3, <2>4, PlacesAre DEF StreamPlace, OrphanPlace
  <2>7. Places'[faults'] = position /\ Places'[0] = -1
    BY <2>1, <2>3, <2>5, PlacesAre DEF StreamPlace, OrphanPlace
  <2>8. \A r \in Readers \ {0, faults'} : Places'[r] = Places[r]
    BY <2>1, <2>2, <2>3, PlacesAre, PlacesMove
  <2>9. Places' = [Places EXCEPT ![0] = -1, ![faults'] = Places[0]]
    BY <2>3, <2>6, <2>7, <2>8, PlacesAre
  <2>10. Projection!LeavePlace(0, faults')
    BY <1>1, <2>6, <2>9 DEF Projection!LeavePlace
  <2> QED
    BY <2>3, <2>10, PlacesAre DEF Projection!Next, Readers
<1>6. CASE Crash
  <2>1. stream' # "running" /\ \A i \in Slots : orphans'[i] = Done
    BY <1>6 DEF Crash
  <2>2. \A r \in Readers : Places'[r] = -1
    BY <2>1, PlacesAre DEF StreamPlace, OrphanPlace
  <2> QED
    BY <1>1, <2>2, EndIsStop
<1>7. ASSUME NEW i \in Slots, OrphanFails(i) PROVE Projection!Next
  <2>1. orphans' = [orphans EXCEPT ![i] = Done] /\ UNCHANGED StreamPlace
    BY <1>7 DEF OrphanFails, streamVars, StreamPlace
  <2>2. orphans \in [Slots -> [position : Nat, batch : Nat]]
    BY DEF IInv, OrphanInv
  <2>3. orphans'[i] = Done /\ \A j \in Slots \ {i} : orphans'[j] = orphans[j]
    BY <2>1, <2>2
  <2>4. i # 0 /\ {i} \in SUBSET Readers
    BY PlacesAre, UpdaterAssumption DEF Slots
  <2>5. Places'[i] = -1 /\ \A r \in Readers \ {i} : Places'[r] = Places[r]
    BY <2>1, <2>3, <2>4, PlacesAre, PlacesMove DEF OrphanPlace
  <2> QED
    BY <1>1, <2>4, <2>5, EndIsStop
<1> QED
  BY <1>2, <1>3, <1>4, <1>5, <1>6, <1>7 DEF Silent

(***************************************************************************)
(* The updater implements EventProjection: whatever the streams, batches,  *)
(* failures, restarts and crashes do, and although the batch of a failed   *)
(* stream may go on beside the next one, the tables change by whole        *)
(* transactions only, each reader's in the order of the tag, and no reader *)
(* ever passes over an event that is missing.                              *)
(***************************************************************************)
THEOREM UpdaterProjectsEvents == Spec => ImplementsProjection
<1>1. IInv /\ [Next]_vars => [Projection!Next]_(Projection!vars)
  <2> SUFFICES ASSUME IInv, [Next]_vars PROVE [Projection!Next]_(Projection!vars)
    OBVIOUS
  <2>1. UNCHANGED vars => UNCHANGED Projection!vars
    BY DEF vars, Projection!vars, Places
  <2> QED
    BY <2>1, WriteIsStore, CommitIsApply, OrphanIsApply, SilentProjects, NextCases
<1> QED
  BY InitProjection, <1>1, IInvHolds, PTL DEF Spec, ImplementsProjection, Projection!Spec

-----------------------------------------------------------------------------
(* What a transaction makes of its thread, and of the others.              *)

LEMMA StoredIds ==
  ASSUME NEW T, NEW x
  PROVE  x \in StoredMessageIds(T) <=> \E u \in Threads : \E m \in T.messages[u] : m.id = x
BY DEF StoredMessageIds

\* What the event e makes of the accounts and messages of its thread.
AdministratorIdsAfter(e, ids) ==
  IF e.type = "AdministratorIdsJoined" THEN ids \cup e.administratorIds
  ELSE IF e.type = "AdministratorIdsLeft" THEN ids \ e.administratorIds ELSE ids
MemberIdsAfter(e, ids) ==
  IF e.type = "MemberIdsAdded" THEN ids \cup e.memberIds
  ELSE IF e.type = "MemberIdsLeft" THEN ids \ e.memberIds ELSE ids
MessagesAfter(e, messages) ==
  IF e.type = "MessagesAdded" THEN messages \cup MessagesOf(ToCommandRequest(e)) ELSE messages

\* The tables T and C say the same of the thread u, deletions aside.
Untouched(T, C, u) ==
  /\ C.row[u] = T.row[u] /\ C.messages[u] = T.messages[u]
  /\ C.administratorIds[u] = T.administratorIds[u] /\ C.memberIds[u] = T.memberIds[u]

\* The tables C follow from T by the event in ee, which only concerns its thread.
Follows(T, ee, C) ==
  /\ \A u \in Threads : u # ee.thread => Untouched(T, C, u)
  /\ C.row[ee.thread].sequenceNr = ee.sequenceNr
  /\ C.row[ee.thread].removed = IF ee.event.type = "ThreadDestroyed" THEN TRUE
                                ELSE T.row[ee.thread].removed
  /\ C.administratorIds[ee.thread] = AdministratorIdsAfter(ee.event, T.administratorIds[ee.thread])
  /\ C.memberIds[ee.thread] = MemberIdsAfter(ee.event, T.memberIds[ee.thread])
  /\ C.messages[ee.thread] = MessagesAfter(ee.event, T.messages[ee.thread])
  /\ C.deleted = IF ee.event.type = "MessagesRemoved"
                 THEN T.deleted \cup (ee.event.messageIds \cap StoredMessageIds(T))
                 ELSE T.deleted

\* So does the transaction of every event but the first, once there is a row.
LEMMA CommittedFollows ==
  ASSUME NEW T \in Tables, NEW ee \in Envelope, HasRow(T, ee.thread),
         ee.event.type # "ThreadCreated"
  PROVE  Follows(T, ee, Committed(T, ee))
<1> DEFINE t == ee.thread
           e == ee.event
           n == ee.sequenceNr
           C == Committed(T, ee)
           r == [T.row[t] EXCEPT !.sequenceNr = n]
           U == UpdateSequenceNrInThread(T, t, n)
<1>1. /\ t \in Threads /\ n \in Nat /\ e.type \in DOMAIN RequestOpOf /\ e.type # "ThreadCreated"
      /\ HasRow(T, t)
  BY DEF Envelope, Event
<1>2. r = [sequenceNr |-> n, removed |-> T.row[t].removed]
  BY <1>1, RowType
<1>3. U = [T EXCEPT !.row = [T.row EXCEPT ![t] = r]]
  BY <1>1 DEF UpdateSequenceNrInThread
<1> HIDE DEF t, e, n, r, U, C
<1>4. U \in Tables
  BY <1>1, RowActions DEF U
<1>5. /\ U.row = [T.row EXCEPT ![t] = r]
      /\ U.administratorIds = T.administratorIds /\ U.memberIds = T.memberIds
      /\ U.messages = T.messages /\ U.deleted = T.deleted
  BY <1>3 DEF Tables
<1>6. /\ U.row[t] = [sequenceNr |-> n, removed |-> T.row[t].removed]
      /\ \A u \in Threads : u # t => U.row[u] = T.row[u]
  BY <1>1, <1>2, <1>5, RowType
<1>7. StoredMessageIds(U) = StoredMessageIds(T)
  BY <1>5 DEF StoredMessageIds
<1>8. SUFFICES
        /\ \A u \in Threads : u # t => Untouched(T, C, u)
        /\ C.row[t].sequenceNr = n
        /\ C.row[t].removed = IF e.type = "ThreadDestroyed" THEN TRUE ELSE T.row[t].removed
        /\ C.administratorIds[t] = AdministratorIdsAfter(e, T.administratorIds[t])
        /\ C.memberIds[t] = MemberIdsAfter(e, T.memberIds[t])
        /\ C.messages[t] = MessagesAfter(e, T.messages[t])
        /\ C.deleted = IF e.type = "MessagesRemoved"
                       THEN T.deleted \cup (e.messageIds \cap StoredMessageIds(T)) ELSE T.deleted
  BY DEF Follows, t, e, n, C
<1>9. CASE e.type = "ThreadDestroyed"
  <2>1. C = [T EXCEPT !.row = [T.row EXCEPT ![t] = [sequenceNr |-> n, removed |-> TRUE]]]
    BY <1>1, <1>9 DEF Committed, UpdateThreadToRemove, C, t, e, n
  <2>2. /\ C.row = [T.row EXCEPT ![t] = [sequenceNr |-> n, removed |-> TRUE]]
        /\ C.administratorIds = T.administratorIds /\ C.memberIds = T.memberIds
        /\ C.messages = T.messages /\ C.deleted = T.deleted
    BY <2>1 DEF Tables
  <2>3. /\ C.row[t].sequenceNr = n /\ C.row[t].removed = TRUE
        /\ \A u \in Threads : u # t => C.row[u] = T.row[u]
    BY <1>1, <2>2, RowType
  <2> QED
    BY <1>9, <2>2, <2>3 DEF AdministratorIdsAfter, MemberIdsAfter, MessagesAfter, Untouched
<1>10. CASE e.type = "AdministratorIdsJoined"
  <2>1. C = [U EXCEPT !.administratorIds = [U.administratorIds EXCEPT ![t] = @ \cup e.administratorIds]]
    BY <1>10 DEF Committed, InsertAdministratorIds, C, t, e, n, U
  <2>2. /\ C.row = U.row /\ C.deleted = U.deleted
        /\ C.memberIds = U.memberIds /\ C.messages = U.messages
        /\ C.administratorIds = 
             [U.administratorIds EXCEPT ![t] = U.administratorIds[t] \cup e.administratorIds]
    BY <1>4, <2>1 DEF Tables
  <2>3. /\ C.administratorIds[t] = T.administratorIds[t] \cup e.administratorIds
        /\ \A u \in Threads : u # t => C.administratorIds[u] = T.administratorIds[u]
    BY <1>1, <1>5, <2>2, RowType
  <2> QED
    BY <1>5, <1>6, <1>10, <2>2, <2>3 DEF AdministratorIdsAfter, MemberIdsAfter, MessagesAfter, Untouched
<1>11. CASE e.type = "AdministratorIdsLeft"
  <2>1. C = [U EXCEPT !.administratorIds = [U.administratorIds EXCEPT ![t] = @ \ e.administratorIds]]
    BY <1>11 DEF Committed, DeleteAdministratorIds, C, t, e, n, U
  <2>2. /\ C.row = U.row /\ C.deleted = U.deleted
        /\ C.memberIds = U.memberIds /\ C.messages = U.messages
        /\ C.administratorIds = 
             [U.administratorIds EXCEPT ![t] = U.administratorIds[t] \ e.administratorIds]
    BY <1>4, <2>1 DEF Tables
  <2>3. /\ C.administratorIds[t] = T.administratorIds[t] \ e.administratorIds
        /\ \A u \in Threads : u # t => C.administratorIds[u] = T.administratorIds[u]
    BY <1>1, <1>5, <2>2, RowType
  <2> QED
    BY <1>5, <1>6, <1>11, <2>2, <2>3 DEF AdministratorIdsAfter, MemberIdsAfter, MessagesAfter, Untouched
<1>12. CASE e.type = "MemberIdsAdded"
  <2>1. C = [U EXCEPT !.memberIds = [U.memberIds EXCEPT ![t] = @ \cup e.memberIds]]
    BY <1>12 DEF Committed, InsertMemberIds, C, t, e, n, U
  <2>2. /\ C.row = U.row /\ C.deleted = U.deleted
        /\ C.administratorIds = U.administratorIds /\ C.messages = U.messages
        /\ C.memberIds = [U.memberIds EXCEPT ![t] = U.memberIds[t] \cup e.memberIds]
    BY <1>4, <2>1 DEF Tables
  <2>3. /\ C.memberIds[t] = T.memberIds[t] \cup e.memberIds
        /\ \A u \in Threads : u # t => C.memberIds[u] = T.memberIds[u]
    BY <1>1, <1>5, <2>2, RowType
  <2> QED
    BY <1>5, <1>6, <1>12, <2>2, <2>3 DEF AdministratorIdsAfter, MemberIdsAfter, MessagesAfter, Untouched
<1>13. CASE e.type = "MemberIdsLeft"
  <2>1. C = [U EXCEPT !.memberIds = [U.memberIds EXCEPT ![t] = @ \ e.memberIds]]
    BY <1>13 DEF Committed, DeleteMemberIds, C, t, e, n, U
  <2>2. /\ C.row = U.row /\ C.deleted = U.deleted
        /\ C.administratorIds = U.administratorIds /\ C.messages = U.messages
        /\ C.memberIds = [U.memberIds EXCEPT ![t] = U.memberIds[t] \ e.memberIds]
    BY <1>4, <2>1 DEF Tables
  <2>3. /\ C.memberIds[t] = T.memberIds[t] \ e.memberIds
        /\ \A u \in Threads : u # t => C.memberIds[u] = T.memberIds[u]
    BY <1>1, <1>5, <2>2, RowType
  <2> QED
    BY <1>5, <1>6, <1>13, <2>2, <2>3 DEF AdministratorIdsAfter, MemberIdsAfter, MessagesAfter, Untouched
<1>14. CASE e.type = "MessagesAdded"
  <2>1. C = [U EXCEPT !.messages = [U.messages EXCEPT ![t] = @ \cup MessagesOf(ToCommandRequest(e))]]
    BY <1>14 DEF Committed, InsertMessages, C, t, e, n, U
  <2>2. /\ C.row = U.row /\ C.deleted = U.deleted
        /\ C.administratorIds = U.administratorIds /\ C.memberIds = U.memberIds
        /\ C.messages = [U.messages EXCEPT ![t] = U.messages[t] \cup MessagesOf(ToCommandRequest(e))]
    BY <1>4, <2>1 DEF Tables
  <2>3. /\ C.messages[t] = T.messages[t] \cup MessagesOf(ToCommandRequest(e))
        /\ \A u \in Threads : u # t => C.messages[u] = T.messages[u]
    BY <1>1, <1>5, <2>2, RowType
  <2> QED
    BY <1>5, <1>6, <1>14, <2>2, <2>3 DEF AdministratorIdsAfter, MemberIdsAfter, MessagesAfter, Untouched
<1>15. CASE e.type = "MessagesRemoved"
  <2>1. C = [U EXCEPT !.deleted = @ \cup (e.messageIds \cap StoredMessageIds(U))]
    BY <1>15 DEF Committed, DeleteMessages, C, t, e, n, U
  <2>2. /\ C.row = U.row /\ C.administratorIds = U.administratorIds
        /\ C.memberIds = U.memberIds /\ C.messages = U.messages
        /\ C.deleted = U.deleted \cup (e.messageIds \cap StoredMessageIds(U))
    BY <1>4, <2>1 DEF Tables
  <2> QED
    BY <1>5, <1>6, <1>15, <2>2, <1>7 DEF AdministratorIdsAfter, MemberIdsAfter, MessagesAfter, Untouched
<1> QED
  BY <1>1, <1>9, <1>10, <1>11, <1>12, <1>13, <1>14, <1>15 DEF RequestOpOf

LEMMA InsertThreadRow ==
  ASSUME NEW T, NEW t, NEW n
  PROVE  InsertThread(T, t, n) =
           [T EXCEPT !.row = [T.row EXCEPT ![t] = [sequenceNr |-> n, removed |-> FALSE]]]
BY DEF InsertThread

\* The first event's transaction.
LEMMA CommittedCreates ==
  ASSUME NEW T \in Tables, NEW ee \in Envelope, ee.event.type = "ThreadCreated"
  PROVE  LET C == Committed(T, ee)
         IN  /\ \A u \in Threads : u # ee.thread => Untouched(T, C, u)
             /\ C.row[ee.thread] = [sequenceNr |-> ee.sequenceNr, removed |-> FALSE]
             /\ C.administratorIds[ee.thread] =
                  T.administratorIds[ee.thread] \cup ee.event.administratorIds
             /\ C.memberIds[ee.thread] = T.memberIds[ee.thread] \cup ee.event.memberIds
             /\ C.messages = T.messages
             /\ C.deleted = T.deleted
<1> DEFINE t == ee.thread
           e == ee.event
           n == ee.sequenceNr
           first == [sequenceNr |-> n, removed |-> FALSE]
           V == InsertThread(T, t, n)
           W == InsertAdministratorIds(V, t, e.administratorIds)
           C == InsertMemberIds(W, t, e.memberIds)
<1>1. /\ t \in Threads /\ n \in Nat
      /\ e.administratorIds \in SUBSET Account /\ e.memberIds \in SUBSET Account
  BY DEF Envelope, Event
<1>2. Committed(T, ee) = C
  BY DEF Committed
<1>3. /\ V = [T EXCEPT !.row = [T.row EXCEPT ![t] = first]]
      /\ V \in Tables
  BY <1>1, InsertThreadRow, RowActions
<1>4. SUFFICES /\ \A u \in Threads : u # t => Untouched(T, C, u)
               /\ C.row[t] = first
               /\ C.administratorIds[t] = T.administratorIds[t] \cup e.administratorIds
               /\ C.memberIds[t] = T.memberIds[t] \cup e.memberIds
               /\ C.messages = T.messages /\ C.deleted = T.deleted
  BY <1>2
<1> HIDE DEF t, e, n, V, first
<1>5. /\ V.row = [T.row EXCEPT ![t] = first]
      /\ V.administratorIds = T.administratorIds /\ V.memberIds = T.memberIds
      /\ V.messages = T.messages /\ V.deleted = T.deleted
  BY <1>3 DEF Tables
<1>6. W = [V EXCEPT !.administratorIds = [V.administratorIds EXCEPT ![t] = @ \cup e.administratorIds]]
  BY DEF InsertAdministratorIds
<1>7. W \in Tables
  BY <1>1, <1>3, IdActions DEF SameRows
<1> HIDE DEF W
<1>8. /\ W.row = V.row /\ W.memberIds = V.memberIds /\ W.messages = V.messages
      /\ W.deleted = V.deleted
      /\ W.administratorIds = [V.administratorIds EXCEPT ![t] = V.administratorIds[t] \cup e.administratorIds]
  BY <1>3, <1>6 DEF Tables
<1>9. C = [W EXCEPT !.memberIds = [W.memberIds EXCEPT ![t] = @ \cup e.memberIds]]
  BY DEF InsertMemberIds
<1> HIDE DEF C
<1>10. /\ C.row = W.row /\ C.administratorIds = W.administratorIds /\ C.messages = W.messages
       /\ C.deleted = W.deleted
       /\ C.memberIds = [W.memberIds EXCEPT ![t] = W.memberIds[t] \cup e.memberIds]
  BY <1>7, <1>9 DEF Tables
<1>11. C.row[t] = first /\ \A u \in Threads : u # t => C.row[u] = T.row[u]
  BY <1>1, <1>5, <1>8, <1>10, RowType
<1>12. /\ C.administratorIds[t] = T.administratorIds[t] \cup e.administratorIds
       /\ \A u \in Threads : u # t => C.administratorIds[u] = T.administratorIds[u]
  BY <1>1, <1>5, <1>8, <1>10, RowType
<1>13. /\ C.memberIds[t] = T.memberIds[t] \cup e.memberIds
       /\ \A u \in Threads : u # t => C.memberIds[u] = T.memberIds[u]
  BY <1>1, <1>5, <1>8, <1>10, RowType
<1>14. C.messages = T.messages /\ C.deleted = T.deleted
  BY <1>5, <1>8, <1>10
<1> QED
  BY <1>11, <1>12, <1>13, <1>14 DEF Untouched

\* The row of t and what hangs on it show the behaviour b.
Visible(T, t) == {m \in T.messages[t] : m.id \notin T.deleted}

Shows(T, t, b) ==
  /\ T.row[t].removed <=> b.phase = "destroyed"
  /\ b.phase = "created" =>
       /\ T.administratorIds[t] = b.thread.administratorIds
       /\ T.memberIds[t] = b.thread.memberIds
       /\ Visible(T, t) = b.thread.messages

\* What an accepted command makes of the thread.
LEMMA HandledThread ==
  ASSUME NEW h \in ThreadState, NEW c, Handle(h, c).right
  PROVE  /\ c.op = "JoinAdministratorIds" =>
              Handle(h, c).thread = [h EXCEPT !.administratorIds = @ \cup c.administratorIds]
         /\ c.op = "LeaveAdministratorIds" =>
              Handle(h, c).thread = [h EXCEPT !.administratorIds = @ \ c.administratorIds]
         /\ c.op = "JoinMemberIds" =>
              Handle(h, c).thread = [h EXCEPT !.memberIds = @ \cup c.memberIds]
         /\ c.op = "AddMessages" =>
              Handle(h, c).thread = [h EXCEPT !.messages = @ \cup MessagesOf(c)]
<1>1. ASSUME NEW guard \in BOOLEAN, NEW new, Handle(h, c) = Either(guard, h, new)
      PROVE  Handle(h, c).thread = new
  BY <1>1 DEF Either
<1>2. MayAdminister(h, c.senderId, Now) \in BOOLEAN
  BY DEF MayAdminister, IsAdministratorId, IsRemoved
<1>3. CASE c.op = "JoinAdministratorIds"
  <2>1. Handle(h, c) = Either(MayAdminister(h, c.senderId, Now), h,
                              [h EXCEPT !.administratorIds = @ \cup c.administratorIds])
    BY <1>3 DEF Handle, CommandJoinAdministratorIds, JoinAdministratorIds
  <2> QED
    BY <1>1, <1>2, <1>3, <2>1
<1>4. CASE c.op = "LeaveAdministratorIds"
  <2> DEFINE guard == /\ MayAdminister(h, c.senderId, Now)
                      /\ h.administratorIds \ c.administratorIds # {}
  <2>1. Handle(h, c) = Either(guard, h, [h EXCEPT !.administratorIds = @ \ c.administratorIds])
    BY <1>4 DEF Handle, CommandLeaveAdministratorIds, LeaveAdministratorIds
  <2>2. guard \in BOOLEAN
    OBVIOUS
  <2> QED
    BY <1>1, <1>4, <2>1, <2>2
<1>5. CASE c.op = "JoinMemberIds"
  <2>1. Handle(h, c) = Either(MayAdminister(h, c.senderId, Now), h,
                              [h EXCEPT !.memberIds = @ \cup c.memberIds])
    BY <1>5 DEF Handle, CommandJoinMemberIds, JoinMemberIds
  <2> QED
    BY <1>1, <1>2, <1>5, <2>1
<1>6. CASE c.op = "AddMessages"
  <2> DEFINE guard == /\ ~IsRemoved(h, Now)
                      /\ \A m \in MessagesOf(c) : IsMemberId(h, m.senderId)
                      /\ Cardinality(h.messages) + Cardinality(MessagesOf(c)) <= MessagesLimit
  <2>1. Handle(h, c) = Either(guard, h, [h EXCEPT !.messages = @ \cup MessagesOf(c)])
    BY <1>6 DEF Handle, CommandAddMessages, AddMessages
  <2>2. guard \in BOOLEAN
    OBVIOUS
  <2> QED
    BY <1>1, <1>6, <2>1, <2>2
<1> QED
  BY <1>3, <1>4, <1>5, <1>6

\* A thread's tables show what its aggregate holds, one event later too.
LEMMA FollowsShows ==
  ASSUME NEW T \in Tables, NEW ee \in Envelope, NEW C, Follows(T, ee, C),
         NEW b \in Behaviour, Shows(T, ee.thread, b),
         \A x \in T.deleted : x \in StoredMessageIds(T),
         MeetsKeys(T, ee), ee.event.type \notin {"ThreadCreated", "MemberIdsLeft"},
         Accepts(b, ToCommandRequest(ee.event))
  PROVE  Shows(C, ee.thread, After(b, ToCommandRequest(ee.event)))
<1> DEFINE t == ee.thread
           e == ee.event
           c == ToCommandRequest(e)
           B == After(b, c)
           h == b.thread
<1>1. /\ t \in Threads /\ e \in Event /\ e.type \in DOMAIN RequestOpOf
      /\ e.type # "ThreadCreated" /\ e.type # "MemberIdsLeft"
  BY DEF Envelope, Event
<1>2. /\ c.op = RequestOpOf[e.type] /\ c.administratorIds = e.administratorIds
      /\ c.memberIds = e.memberIds /\ c.messageIds = e.messageIds
  BY DEF ToCommandRequest
<1>3. c.op # "CreateThread"
  BY <1>1, <1>2 DEF RequestOpOf
<1>4. h \in ThreadState /\ b.phase = "created" /\ Handle(h, c).right
  BY <1>3 DEF Accepts, Behaviour
<1>5. B = IF c.op = "DestroyThread" THEN OnDestroyed ELSE OnCreated(Handle(h, c).thread)
  BY <1>3 DEF After
<1>6. /\ T.row[t].removed = FALSE
      /\ T.administratorIds[t] = h.administratorIds /\ T.memberIds[t] = h.memberIds
      /\ Visible(T, t) = h.messages
  BY <1>1, <1>4, RowType DEF Shows
<1>7. /\ C.row[t].removed = IF e.type = "ThreadDestroyed" THEN TRUE ELSE FALSE
      /\ C.administratorIds[t] = AdministratorIdsAfter(e, h.administratorIds)
      /\ C.memberIds[t] = MemberIdsAfter(e, h.memberIds)
      /\ C.messages[t] = MessagesAfter(e, T.messages[t])
      /\ C.deleted = IF e.type = "MessagesRemoved"
                     THEN T.deleted \cup (e.messageIds \cap StoredMessageIds(T))
                     ELSE T.deleted
  BY <1>6 DEF Follows
<1>8. \A m \in T.messages[t] : m.id \in StoredMessageIds(T)
  BY <1>1, StoredIds
<1> HIDE DEF t, e, c, B, h
<1>9. SUFFICES Shows(C, t, B)
  BY DEF t, e, c, B
<1>10. CASE e.type = "ThreadDestroyed"
  <2>1. B = OnDestroyed
    BY <1>2, <1>5, <1>10 DEF RequestOpOf
  <2> QED
    BY <1>7, <1>10, <2>1 DEF Shows, OnDestroyed
<1>11. ASSUME e.type # "ThreadDestroyed",
              NEW k, Handle(h, c).thread = k,
              C.administratorIds[t] = k.administratorIds, C.memberIds[t] = k.memberIds,
              Visible(C, t) = k.messages
       PROVE  Shows(C, t, B)
  <2>1. c.op # "DestroyThread"
    BY <1>1, <1>2, <1>11 DEF RequestOpOf
  <2>2. B = OnCreated(k)
    BY <1>5, <1>11, <2>1
  <2> QED
    BY <1>7, <1>11, <2>2 DEF Shows, OnCreated
<1>12. e.type \notin {"MessagesAdded", "MessagesRemoved"} => Visible(C, t) = h.messages
  BY <1>6, <1>7 DEF Visible, MessagesAfter
<1>13. CASE e.type = "AdministratorIdsJoined"
  <2>0. c.op = "JoinAdministratorIds"
    BY <1>2, <1>13 DEF RequestOpOf
  <2>1. Handle(h, c).thread = [h EXCEPT !.administratorIds = @ \cup c.administratorIds]
    BY <1>4, <2>0, HandledThread
  <2> DEFINE k == [h EXCEPT !.administratorIds = @ \cup c.administratorIds]
  <2>2. /\ k.administratorIds = h.administratorIds \cup e.administratorIds
        /\ k.memberIds = h.memberIds /\ k.messages = h.messages
    BY <1>2, <1>4 DEF ThreadState
  <2> HIDE DEF k
  <2>3. Handle(h, c).thread = k
    BY <2>1 DEF k
  <2>4. C.administratorIds[t] = k.administratorIds /\ C.memberIds[t] = k.memberIds
    BY <1>7, <1>13, <2>2 DEF AdministratorIdsAfter, MemberIdsAfter
  <2> QED
    BY <1>11, <1>12, <1>13, <2>2, <2>3, <2>4
<1>14. CASE e.type = "AdministratorIdsLeft"
  <2>0. c.op = "LeaveAdministratorIds"
    BY <1>2, <1>14 DEF RequestOpOf
  <2>1. Handle(h, c).thread = [h EXCEPT !.administratorIds = @ \ c.administratorIds]
    BY <1>4, <2>0, HandledThread
  <2> DEFINE k == [h EXCEPT !.administratorIds = @ \ c.administratorIds]
  <2>2. /\ k.administratorIds = h.administratorIds \ e.administratorIds
        /\ k.memberIds = h.memberIds /\ k.messages = h.messages
    BY <1>2, <1>4 DEF ThreadState
  <2> HIDE DEF k
  <2>3. Handle(h, c).thread = k
    BY <2>1 DEF k
  <2>4. C.administratorIds[t] = k.administratorIds /\ C.memberIds[t] = k.memberIds
    BY <1>7, <1>14, <2>2 DEF AdministratorIdsAfter, MemberIdsAfter
  <2> QED
    BY <1>11, <1>12, <1>14, <2>2, <2>3, <2>4
<1>15. CASE e.type = "MemberIdsAdded"
  <2>0. c.op = "JoinMemberIds"
    BY <1>2, <1>15 DEF RequestOpOf
  <2>1. Handle(h, c).thread = [h EXCEPT !.memberIds = @ \cup c.memberIds]
    BY <1>4, <2>0, HandledThread
  <2> DEFINE k == [h EXCEPT !.memberIds = @ \cup c.memberIds]
  <2>2. /\ k.memberIds = h.memberIds \cup e.memberIds
        /\ k.administratorIds = h.administratorIds /\ k.messages = h.messages
    BY <1>2, <1>4 DEF ThreadState
  <2> HIDE DEF k
  <2>3. Handle(h, c).thread = k
    BY <2>1 DEF k
  <2>4. C.administratorIds[t] = k.administratorIds /\ C.memberIds[t] = k.memberIds
    BY <1>7, <1>15, <2>2 DEF AdministratorIdsAfter, MemberIdsAfter
  <2> QED
    BY <1>11, <1>12, <1>15, <2>2, <2>3, <2>4
<1>16. CASE e.type = "MessagesAdded"
  <2>0. c.op = "AddMessages"
    BY <1>2, <1>16 DEF RequestOpOf
  <2>1. Handle(h, c).thread = [h EXCEPT !.messages = @ \cup MessagesOf(c)]
    BY <1>4, <2>0, HandledThread
  <2> DEFINE k == [h EXCEPT !.messages = @ \cup MessagesOf(c)]
  <2>2. /\ k.messages = h.messages \cup MessagesOf(c)
        /\ k.administratorIds = h.administratorIds /\ k.memberIds = h.memberIds
    BY <1>4 DEF ThreadState
  <2> HIDE DEF k
  <2>3. Handle(h, c).thread = k
    BY <2>1 DEF k
  <2>4. C.administratorIds[t] = k.administratorIds /\ C.memberIds[t] = k.memberIds
    BY <1>7, <1>16, <2>2 DEF AdministratorIdsAfter, MemberIdsAfter
  <2>5. e.messageIds \cap StoredMessageIds(T) = {}
    BY <1>16 DEF MeetsKeys, t, e
  <2>6. C.messages[t] = T.messages[t] \cup MessagesOf(c) /\ C.deleted = T.deleted
    BY <1>7, <1>16 DEF MessagesAfter, c
  <2>7. \A m \in MessagesOf(c) : m.id \in e.messageIds
    BY <1>2 DEF MessagesOf
  <2>8. \A m \in MessagesOf(c) : m.id \notin T.deleted
    BY <2>5, <2>7
  <2>9. Visible(C, t) = Visible(T, t) \cup MessagesOf(c)
    BY <2>6, <2>8 DEF Visible
  <2>10. Visible(C, t) = k.messages
    BY <1>6, <2>2, <2>9
  <2> QED
    BY <1>11, <1>16, <2>3, <2>4, <2>10
<1>17. CASE e.type = "MessagesRemoved"
  <2> DEFINE matched == {m \in h.messages : m.id \in e.messageIds}
             k == [h EXCEPT !.messages = @ \ matched]
  <2>1. Handle(h, c).thread = k
    BY <1>2, <1>4, <1>17 DEF RequestOpOf, Handle, CommandRemoveMessages, RemoveMessages, Either
  <2>2. /\ k.messages = h.messages \ matched
        /\ k.administratorIds = h.administratorIds /\ k.memberIds = h.memberIds
    BY <1>4 DEF ThreadState
  <2> HIDE DEF k
  <2>3. C.administratorIds[t] = k.administratorIds /\ C.memberIds[t] = k.memberIds
    BY <1>7, <1>17, <2>2 DEF AdministratorIdsAfter, MemberIdsAfter
  <2>4. /\ C.messages[t] = T.messages[t]
        /\ C.deleted = T.deleted \cup (e.messageIds \cap StoredMessageIds(T))
    BY <1>7, <1>17 DEF MessagesAfter
  <2>5. Visible(C, t) = Visible(T, t) \ {m \in Visible(T, t) : m.id \in e.messageIds}
    BY <1>8, <2>4 DEF Visible
  <2>6. Visible(C, t) = k.messages
    BY <1>6, <2>2, <2>5
  <2> QED
    BY <1>11, <1>17, <2>1, <2>3, <2>6
<1> QED
  BY <1>1, <1>10, <1>13, <1>14, <1>15, <1>16, <1>17 DEF RequestOpOf

\* A message marked deleted stays stored.
LEMMA FollowsDeleted ==
  ASSUME NEW T, NEW ee \in Envelope, NEW C, Follows(T, ee, C),
         \A x \in T.deleted : x \in StoredMessageIds(T)
  PROVE  \A x \in C.deleted : x \in StoredMessageIds(C)
<1>1. \A u \in Threads : T.messages[u] \subseteq C.messages[u]
  BY DEF Follows, Untouched, MessagesAfter
<1>2. \A x : x \in StoredMessageIds(T) => x \in StoredMessageIds(C)
  BY <1>1, StoredIds
<1>3. \A x \in C.deleted : x \in T.deleted \/ x \in StoredMessageIds(T)
  BY DEF Follows
<1> QED
  BY <1>2, <1>3

-----------------------------------------------------------------------------
(* The journal: each thread's events are numbered 1, 2, ... and lead from  *)
(* one of its behaviours to the next.                                      *)

\* What an aggregate stores first is a ThreadCreated.
LEMMA FirstIsCreated ==
  ASSUME NEW c \in Request, IsCommand(c), Answers(Initial, c),
         IsSuccessResponse(c, Accepts(Initial, c)), NEW i \in Nat
  PROVE  ToEvent(c, i).type = "ThreadCreated"
<1>1. c.op \in {"CreateThread", "DestroyThread", "ExistsThread"}
  BY DEF Answers, Handled, Initial
<1>2. c.op = "CreateThread"
  BY <1>1 DEF IsSuccessResponse, Accepts, Initial
<1> QED
  BY <1>2 DEF ToEvent, EventTypeOf

BeginsInitial == \A t \in Threads : states[t][1] = Initial

LeadsOn ==
  \A k \in DOMAIN tagged :
    LET t == tagged[k].thread
        i == tagged[k].sequenceNr
    IN  /\ i < Len(states[t])
        /\ states[t][i + 1] = After(states[t][i], ToCommandRequest(tagged[k].event))
        /\ i = 1 => tagged[k].event.type = "ThreadCreated"

Ascends ==
  \A j, k \in DOMAIN tagged :
    j < k /\ tagged[j].thread = tagged[k].thread => tagged[j].sequenceNr < tagged[k].sequenceNr

NoneMissing ==
  \A t \in Threads : \A i \in 1 .. Len(states[t]) - 1 :
    \E k \in DOMAIN tagged : tagged[k].thread = t /\ tagged[k].sequenceNr = i

ThreadJournal == BeginsInitial /\ LeadsOn /\ Ascends /\ NoneMissing

LEMMA EnvelopeAt ==
  ASSUME IInv, NEW k \in DOMAIN tagged
  PROVE  /\ tagged[k] \in Envelope /\ tagged[k].thread \in Threads
         /\ tagged[k].sequenceNr \in Nat \ {0} /\ tagged[k].event \in Event
<1>1. tagged[k] \in Envelope
  BY DEF IInv, JournalInv
<1> QED
  BY <1>1 DEF Envelope

LEMMA InitJournal == Init => ThreadJournal
<1> SUFFICES ASSUME Init PROVE ThreadJournal
  OBVIOUS
<1>1. tagged = <<>> /\ states = [t \in Threads |-> <<Initial>>]
  BY DEF Init
<1>2. \A t \in Threads : states[t][1] = Initial /\ Len(states[t]) = 1
  BY <1>1
<1> QED
  BY <1>1, <1>2 DEF ThreadJournal, BeginsInitial, LeadsOn, Ascends, NoneMissing

\* What a Write does to the journal, in the facts the proofs below use.
LEMMA WriteSteps ==
  ASSUME IInv, NEW t \in Threads, NEW c \in Commands, Write(t, c)
  PROVE  LET l == Len(tagged)
             n == Len(states[t])
             e == ToEvent(c, l + 1)
         IN  /\ l \in Nat /\ n \in Nat /\ n > 0
             /\ Len(tagged') = l + 1 /\ DOMAIN tagged = 1 .. l /\ DOMAIN tagged' = 1 .. l + 1
             /\ \A k \in 1 .. l : tagged'[k] = tagged[k]
             /\ tagged'[l + 1] = [thread |-> t, sequenceNr |-> n, event |-> e]
             /\ \A u \in Threads : u # t => states'[u] = states[u]
             /\ Len(states'[t]) = n + 1
             /\ \A i \in 1 .. n : states'[t][i] = states[t][i]
             /\ states'[t][n + 1] = After(states[t][n], ToCommandRequest(e))
             /\ states[t][n] = Initial => e.type = "ThreadCreated"
             /\ UNCHANGED <<tables, stream, position, orphans, applied, again, overlapped>>
<1> DEFINE l == Len(tagged)
           n == Len(states[t])
           e == ToEvent(c, l + 1)
           ee == [thread |-> t, sequenceNr |-> n, event |-> e]
           b == After(Current(t), c)
<1>1. /\ tagged' = Append(tagged, ee)
      /\ states' = [states EXCEPT ![t] = Append(states[t], b)]
      /\ IsCommand(c) /\ Answers(Current(t), c) /\ IsSuccessResponse(c, Accepts(Current(t), c))
      /\ UNCHANGED <<tables, stream, position, orphans, applied, again, overlapped>>
  BY DEF Write, streamVars, historyVars
<1>2. /\ l \in Nat /\ DOMAIN tagged = 1 .. l /\ tagged \in Seq(Envelope)
      /\ states \in [Threads -> Seq(Behaviour)]
      /\ \A u \in Threads : Len(states[u]) \in 1 .. l + 1
  BY DEF IInv, JournalInv
<1>3. states[t] \in Seq(Behaviour) /\ n \in Nat /\ n > 0
  BY <1>2
<1>4. c \in Request
  BY UpdaterAssumption
<1>5. ToCommandRequest(e) = c
  BY <1>1, <1>2, <1>4, ReplayIsTheCommand
<1>6. Current(t) = states[t][n]
  BY DEF Current
<1>7. states[t][n] = Initial => e.type = "ThreadCreated"
  BY <1>1, <1>2, <1>4, <1>6, FirstIsCreated
<1> HIDE DEF e, b, ee
<1>8. /\ Len(tagged') = l + 1 /\ DOMAIN tagged' = 1 .. l + 1
      /\ \A k \in 1 .. l : tagged'[k] = tagged[k]
      /\ tagged'[l + 1] = ee
  BY <1>1, <1>2
<1>9. /\ \A u \in Threads : u # t => states'[u] = states[u]
      /\ states'[t] = Append(states[t], b)
  BY <1>1, <1>2
<1>10. /\ Len(states'[t]) = n + 1
       /\ \A i \in 1 .. n : states'[t][i] = states[t][i]
       /\ states'[t][n + 1] = b
  BY <1>3, <1>9
<1>11. b = After(states[t][n], ToCommandRequest(e))
  BY <1>5, <1>6 DEF b
<1> QED
  BY <1>1, <1>2, <1>3, <1>7, <1>8, <1>9, <1>10, <1>11 DEF ee, e

LEMMA WriteJournal ==
  ASSUME IInv, ThreadJournal, NEW t \in Threads, NEW c \in Commands, Write(t, c)
  PROVE  ThreadJournal'
<1> DEFINE l == Len(tagged)
           n == Len(states[t])
           e == ToEvent(c, l + 1)
           ee == [thread |-> t, sequenceNr |-> n, event |-> e]
<1>1. /\ l \in Nat /\ n \in Nat /\ n > 0
      /\ DOMAIN tagged = 1 .. l /\ DOMAIN tagged' = 1 .. l + 1
      /\ \A k \in 1 .. l : tagged'[k] = tagged[k]
      /\ tagged'[l + 1] = ee
      /\ \A u \in Threads : u # t => states'[u] = states[u]
      /\ Len(states'[t]) = n + 1
      /\ \A i \in 1 .. n : states'[t][i] = states[t][i]
      /\ states'[t][n + 1] = After(states[t][n], ToCommandRequest(e))
      /\ states[t][n] = Initial => e.type = "ThreadCreated"
  BY WriteSteps
<1>2. ee.thread = t /\ ee.sequenceNr = n /\ ee.event = e
  OBVIOUS
<1> HIDE DEF l, n, e, ee
<1>3. /\ \A u \in Threads : Len(states[u]) \in Nat /\ Len(states[u]) > 0
      /\ \A k \in 1 .. l : tagged[k].thread \in Threads /\ tagged[k].sequenceNr \in Nat \ {0}
  <2>1. \A u \in Threads : Len(states[u]) \in Nat /\ Len(states[u]) > 0
    BY <1>1 DEF IInv, JournalInv
  <2>2. \A k \in DOMAIN tagged : tagged[k].thread \in Threads /\ tagged[k].sequenceNr \in Nat \ {0}
    BY EnvelopeAt
  <2> QED
    BY <1>1, <2>1, <2>2
<1>4. \A u \in Threads : states'[u][1] = Initial
  <2>1. 1 \in 1 .. n /\ \A u \in Threads : states[u][1] = Initial
    BY <1>1 DEF ThreadJournal, BeginsInitial
  <2>2. states'[t][1] = states[t][1]
    BY <1>1, <2>1
  <2> QED
    BY <1>1, <2>1, <2>2
<1>5. ASSUME NEW k \in 1 .. l + 1
      PROVE  LET u == tagged'[k].thread
                 i == tagged'[k].sequenceNr
             IN  /\ i < Len(states'[u])
                 /\ states'[u][i + 1] = After(states'[u][i], ToCommandRequest(tagged'[k].event))
                 /\ i = 1 => tagged'[k].event.type = "ThreadCreated"
  <2>1. CASE k = l + 1
    <3>1. tagged'[k].thread = t /\ tagged'[k].sequenceNr = n /\ tagged'[k].event = e
      BY <1>1, <1>2, <2>1
    <3>2. n < Len(states'[t]) /\ states'[t][n] = states[t][n]
      BY <1>1
    <3>3. n = 1 => states[t][n] = Initial
      BY DEF ThreadJournal, BeginsInitial
    <3> QED
      BY <1>1, <3>1, <3>2, <3>3
  <2>2. CASE k \in 1 .. l
    <3>1. PICK u, i : u = tagged[k].thread /\ i = tagged[k].sequenceNr
      OBVIOUS
    <3>2. /\ u \in Threads /\ i \in Nat \ {0} /\ i < Len(states[u])
          /\ states[u][i + 1] = After(states[u][i], ToCommandRequest(tagged[k].event))
          /\ i = 1 => tagged[k].event.type = "ThreadCreated"
      BY <1>1, <1>3, <2>2, <3>1 DEF ThreadJournal, LeadsOn
    <3>3. Len(states[u]) \in Nat
      BY <1>3, <3>2
    <3>4. /\ i < Len(states'[u])
          /\ states'[u][i] = states[u][i] /\ states'[u][i + 1] = states[u][i + 1]
      <4>1. CASE u # t
        BY <1>1, <3>2, <4>1
      <4>2. CASE u = t
        <5>1. Len(states[u]) = n
          BY <4>2 DEF n
        <5>2. i \in 1 .. n /\ i + 1 \in 1 .. n
          BY <1>1, <3>2, <5>1
        <5> QED
          BY <1>1, <3>2, <4>2, <5>1, <5>2
      <4> QED
        BY <4>1, <4>2
    <3> QED
      BY <1>1, <2>2, <3>1, <3>2, <3>4
  <2> QED
    BY <1>1, <2>1, <2>2
<1>6. ASSUME NEW j \in 1 .. l + 1, NEW k \in 1 .. l + 1, j < k,
             tagged'[j].thread = tagged'[k].thread
      PROVE  tagged'[j].sequenceNr < tagged'[k].sequenceNr
  <2>1. j \in 1 .. l /\ tagged'[j] = tagged[j]
    BY <1>1, <1>6
  <2>2. CASE k = l + 1
    <3>1. tagged[j].thread = t /\ tagged'[k].sequenceNr = n
      BY <1>1, <1>2, <1>6, <2>1, <2>2
    <3>2. tagged[j].sequenceNr < Len(states[t])
      BY <1>1, <2>1, <3>1 DEF ThreadJournal, LeadsOn
    <3> QED
      BY <2>1, <3>1, <3>2 DEF n
  <2>3. CASE k \in 1 .. l
    BY <1>1, <1>6, <2>1, <2>3 DEF ThreadJournal, Ascends
  <2> QED
    BY <1>1, <2>2, <2>3
<1>7. ASSUME NEW u \in Threads, NEW i \in 1 .. Len(states'[u]) - 1
      PROVE  \E k \in 1 .. l + 1 : tagged'[k].thread = u /\ tagged'[k].sequenceNr = i
  <2>1. CASE u = t /\ i = n
    BY <1>1, <1>2, <2>1
  <2>2. CASE ~(u = t /\ i = n)
    <3>1. i \in 1 .. Len(states[u]) - 1
      <4>1. CASE u = t
        BY <1>1, <1>7, <2>2, <4>1 DEF n
      <4>2. CASE u # t
        BY <1>1, <1>7, <4>2
      <4> QED
        BY <4>1, <4>2
    <3>2. PICK k \in DOMAIN tagged : tagged[k].thread = u /\ tagged[k].sequenceNr = i
      BY <3>1, Zenon DEF ThreadJournal, NoneMissing
    <3> QED
      BY <1>1, <3>2
  <2> QED
    BY <2>1, <2>2
<1>8. BeginsInitial' /\ LeadsOn' /\ Ascends'
  BY <1>1, <1>4, <1>5, <1>6 DEF BeginsInitial, LeadsOn, Ascends
<1>9. NoneMissing'
  BY <1>1, <1>7 DEF NoneMissing
<1> QED
  BY <1>8, <1>9 DEF ThreadJournal

LEMMA JournalHolds == Spec => []ThreadJournal
<1>1. IInv /\ ThreadJournal /\ [Next]_vars => ThreadJournal'
  <2> SUFFICES ASSUME IInv, ThreadJournal, [Next]_vars PROVE ThreadJournal'
    OBVIOUS
  <2>1. UNCHANGED <<tagged, states>> => ThreadJournal'
    <3> SUFFICES ASSUME UNCHANGED <<tagged, states>> PROVE ThreadJournal'
      OBVIOUS
    <3>1. BeginsInitial' /\ LeadsOn'
      BY DEF ThreadJournal, BeginsInitial, LeadsOn
    <3>2. Ascends' /\ NoneMissing'
      BY DEF ThreadJournal, Ascends, NoneMissing
    <3> QED
      BY <3>1, <3>2 DEF ThreadJournal
  <2>2. Commit => UNCHANGED <<tagged, states>>
    BY DEF Commit, journalVars
  <2>3. \A i \in Slots : OrphanCommits(i) => UNCHANGED <<tagged, states>>
    BY DEF OrphanCommits, journalVars
  <2>4. Silent => UNCHANGED <<tagged, states>>
    BY SilentLeaves
  <2>5. UNCHANGED vars => UNCHANGED <<tagged, states>>
    BY DEF vars
  <2> QED
    BY <2>1, <2>2, <2>3, <2>4, <2>5, WriteJournal, NextCases
<1> QED
  BY <1>1, InitJournal, IInvHolds, PTL DEF Spec

-----------------------------------------------------------------------------
(* A tag with events of one thread.                                        *)

\* The thread of the first event.
Owner == tagged[1].thread

\* The tables after the first n events of that thread.
AloneRows(n) ==
  /\ applied = 1 .. n /\ again = {}
  /\ n = 0 => tables = EmptyTables
  /\ n > 0 => tables.row[Owner].sequenceNr = n
  /\ n > 0 => \A t \in Threads : t # Owner => tables.row[t] = NoRow

\* One reader at most stands there, the stream or a batch left behind.
AlonePlaces(n) ==
  /\ stream = "running" => position = n /\ \A i \in Slots : orphans[i] = Done
  /\ \A i \in Slots :
       orphans[i] # Done => /\ orphans[i].position = n
                            /\ \A j \in Slots \ {i} : orphans[j] = Done

AloneAfter(n) == AloneRows(n) /\ AlonePlaces(n)

\* Of one thread alone, the events have the same numbers as in the tag.
AloneInv ==
  OneThread =>
    /\ \A k \in DOMAIN tagged : tagged[k].sequenceNr = k
    /\ ~overlapped => \E n \in 0 .. Len(tagged) : AloneAfter(n)

LEMMA InitAlone == Init => AloneInv
<1> SUFFICES ASSUME Init PROVE AloneInv
  OBVIOUS
<1>1. /\ tagged = <<>> /\ Len(tagged) = 0
      /\ tables = EmptyTables /\ stream = "none" /\ applied = {} /\ again = {}
      /\ \A i \in Slots : orphans[i] = Done
  BY DEF Init
<1>2. AloneAfter(0)
  BY <1>1 DEF AloneAfter, AloneRows, AlonePlaces
<1> QED
  BY <1>1, <1>2 DEF AloneInv

LEMMA WriteAlone ==
  ASSUME IInv, ThreadJournal, AloneInv, NEW t \in Threads, NEW c \in Commands, Write(t, c)
  PROVE  AloneInv'
<1> DEFINE l == Len(tagged)
           n == Len(states[t])
           ee == [thread |-> t, sequenceNr |-> n, event |-> ToEvent(c, l + 1)]
<1>1. /\ l \in Nat /\ n \in Nat /\ n > 0
      /\ Len(tagged') = l + 1 /\ DOMAIN tagged = 1 .. l /\ DOMAIN tagged' = 1 .. l + 1
      /\ \A k \in 1 .. l : tagged'[k] = tagged[k]
      /\ tagged'[l + 1] = ee
      /\ UNCHANGED <<tables, stream, position, orphans, applied, again, overlapped>>
  BY WriteSteps
<1>2. ee.thread = t /\ ee.sequenceNr = n
  OBVIOUS
<1>3. n \in 1 .. l + 1
  BY DEF IInv, JournalInv
<1> HIDE DEF ee
<1> SUFFICES ASSUME OneThread'
             PROVE  /\ \A k \in 1 .. l + 1 : tagged'[k].sequenceNr = k
                    /\ ~overlapped => \E m \in 0 .. l + 1 : AloneAfter(m)'
  BY <1>1 DEF AloneInv
<1>4. \A j, k \in 1 .. l + 1 : tagged'[j].thread = tagged'[k].thread
  BY <1>1 DEF OneThread
<1>5. OneThread
  BY <1>1, <1>4 DEF OneThread
<1>6. \A k \in 1 .. l : tagged[k].thread = t /\ tagged[k].sequenceNr = k
  BY <1>1, <1>2, <1>4, <1>5 DEF AloneInv
<1>7. n = l + 1
  <2>1. CASE l = 0
    BY <1>3, <2>1
  <2>2. CASE l > 0
    <3>1. l \in 1 .. l
      BY <1>1, <2>2
    <3>2. l < n
      BY <1>1, <1>6, <3>1 DEF ThreadJournal, LeadsOn
    <3> QED
      BY <1>1, <1>3, <3>2
  <2> QED
    BY <1>1, <2>1, <2>2
<1>8. \A k \in 1 .. l + 1 : tagged'[k].sequenceNr = k
  BY <1>1, <1>2, <1>6, <1>7
<1>9. ASSUME NEW m \in 0 .. l, AloneAfter(m) PROVE AloneAfter(m)'
  <2>1. m > 0 => Owner' = Owner
    BY <1>1, <1>9 DEF Owner
  <2> QED
    BY <1>1, <1>9, <2>1 DEF AloneAfter, AloneRows, AlonePlaces
<1>10. ~overlapped => \E m \in 0 .. l + 1 : AloneAfter(m)'
  BY <1>1, <1>5, <1>9 DEF AloneInv
<1> QED
  BY <1>8, <1>10

\* The offset is then the number of events applied.
LEMMA AloneLast ==
  ASSUME IInv, NEW n \in 0 .. Len(tagged), AloneRows(n)
  PROVE  LastSequenceNr(tables) = n /\ (n > 0 => Owner \in Threads)
<1>1. n \in Nat /\ Len(tagged) \in Nat /\ tagged \in Seq(Envelope)
  BY DEF IInv, JournalInv
<1>2. n > 0 => Owner \in Threads
  <2> SUFFICES ASSUME n > 0 PROVE Owner \in Threads
    OBVIOUS
  <2>1. 1 \in 1 .. Len(tagged) /\ DOMAIN tagged = 1 .. Len(tagged)
    BY <1>1
  <2>2. tagged[1] \in Envelope
    BY <1>1, <2>1
  <2> QED
    BY <2>2 DEF Owner, Envelope
<1>3. CASE n = 0
  <2>1. \A t \in Threads : tables.row[t].sequenceNr = 0
    BY <1>3 DEF AloneRows, EmptyTables, NoRow
  <2>2. \A t \in Threads : tables.row[t].sequenceNr \in 0 .. 0
    BY <2>1
  <2>3. LastSequenceNr(tables) \in 0 .. 0
    BY <2>2, LastIsLargest
  <2> QED
    BY <1>3, <2>3
<1>4. CASE n > 0
  <2>1. \A t \in Threads : tables.row[t].sequenceNr \in {0, n}
    BY <1>1, <1>4 DEF AloneRows, NoRow
  <2>2. tables.row[Owner].sequenceNr = n
    BY <1>1, <1>4 DEF AloneRows
  <2>3. \A t \in Threads : tables.row[t].sequenceNr \in 0 .. n
    BY <1>1, <2>1
  <2>4. /\ LastSequenceNr(tables) \in 0 .. n
        /\ \A t \in Threads : tables.row[t].sequenceNr <= LastSequenceNr(tables)
    BY <1>1, <2>3, LastIsLargest
  <2>5. n <= LastSequenceNr(tables)
    BY <1>2, <1>4, <2>2, <2>4
  <2> QED
    BY <1>1, <1>2, <2>4, <2>5
<1> QED
  BY <1>1, <1>2, <1>3, <1>4

\* What takes no transaction moves no reader but to n.
LEMMA SilentAlone ==
  ASSUME IInv, AloneInv, Silent
  PROVE  AloneInv'
<1>1. UNCHANGED <<tagged, tables, applied, again>>
  BY SilentLeaves
<1>2. OneThread' = OneThread /\ Len(tagged') = Len(tagged) /\ Owner' = Owner
  BY <1>1 DEF OneThread, Owner
<1>3. overlapped' = overlapped \/ overlapped' = (overlapped \/ \E i \in Slots : orphans[i] # Done)
  BY DEF Silent, Start, ReadOffset, SendBatch, KeyViolated, DatabaseFails, SourceFails,
         BackoffElapsed, Crash, OrphanFails, Restart, historyVars
<1>4. ~overlapped' => ~overlapped
  BY <1>3
<1>5. orphans \in [Slots -> [position : Nat, batch : Nat]]
  BY DEF IInv, OrphanInv
<1>6. ASSUME NEW n \in 0 .. Len(tagged), AloneAfter(n), ~overlapped' PROVE AloneAfter(n)'
  <2>0. AloneRows(n) /\ AlonePlaces(n)
    BY <1>6 DEF AloneAfter
  <2>1. AloneRows(n)'
    BY <1>1, <1>2, <2>0 DEF AloneRows
  <2>2. CASE ReadOffset
    <3>1. LastSequenceNr(tables) = n
      BY <2>0, AloneLast
    <3>2. \A i \in Slots : orphans[i] = Done
      BY <1>6, <2>2 DEF ReadOffset
    <3> QED
      BY <2>1, <2>2, <3>1, <3>2 DEF ReadOffset, AloneAfter, AlonePlaces
  <2>3. CASE Start \/ SendBatch \/ BackoffElapsed
    BY <2>0, <2>1, <2>3 DEF Start, SendBatch, BackoffElapsed, AloneAfter, AlonePlaces
  <2>4. CASE KeyViolated \/ DatabaseFails \/ (SourceFails /\ ~Working)
    BY <2>0, <2>1, <2>4 DEF KeyViolated, DatabaseFails, SourceFails, Restart, AloneAfter, AlonePlaces
  <2>5. CASE SourceFails /\ Working
    <3> DEFINE o == [position |-> position, batch |-> batch]
    <3>1. /\ stream' # "running" /\ stream = "running"
          /\ orphans' = [orphans EXCEPT ![faults'] = o]
      BY <2>5 DEF SourceFails, Restart, Working
    <3>2. o.position = n /\ \A i \in Slots : orphans[i] = Done
      BY <2>0, <3>1 DEF AlonePlaces
    <3>3. \A i \in Slots : orphans'[i] = IF i = faults' THEN o ELSE Done
      BY <1>5, <3>1, <3>2
    <3> HIDE DEF o
    <3>4. AlonePlaces(n)'
      BY <3>1, <3>2, <3>3 DEF AlonePlaces
    <3> QED
      BY <2>1, <3>4 DEF AloneAfter
  <2>6. CASE Crash
    BY <2>1, <2>6 DEF Crash, AloneAfter, AlonePlaces
  <2>7. ASSUME NEW i \in Slots, OrphanFails(i) PROVE AloneAfter(n)'
    <3>1. orphans' = [orphans EXCEPT ![i] = Done] /\ UNCHANGED <<stream, position>>
      BY <2>7 DEF OrphanFails, streamVars
    <3>2. \A j \in Slots : orphans'[j] = IF j = i THEN Done ELSE orphans[j]
      BY <1>5, <3>1
    <3> QED
      BY <2>0, <2>1, <3>1, <3>2 DEF AloneAfter, AlonePlaces
  <2> QED
    BY <2>2, <2>3, <2>4, <2>5, <2>6, <2>7 DEF Silent
<1>7. ASSUME OneThread' PROVE \A k \in DOMAIN tagged' : tagged'[k].sequenceNr = k
  BY <1>1, <1>2, <1>7 DEF AloneInv
<1> QED
  BY <1>2, <1>4, <1>6, <1>7 DEF AloneInv

\* The transaction of the first event missing.
LEMMA TransactAlone ==
  ASSUME IInv, ThreadJournal, AloneInv, OneThread, NEW n \in Nat, AloneRows(n),
         Ready(n + 1), Transact(n + 1), UNCHANGED journalVars
  PROVE  AloneRows(n + 1)'
<1> DEFINE ee == tagged[n + 1]
<1>1. /\ Len(tagged) \in Nat /\ DOMAIN tagged = 1 .. Len(tagged) /\ tagged \in Seq(Envelope)
      /\ tables \in Tables /\ n + 1 \in 1 .. Len(tagged)
  BY DEF IInv, JournalInv, TablesInv, Ready
<1>2. ee \in Envelope /\ ee.thread = Owner /\ ee.sequenceNr = n + 1 /\ Owner \in Threads
  <2>1. n + 1 \in DOMAIN tagged /\ 1 \in DOMAIN tagged
    BY <1>1
  <2>2. ee \in Envelope
    BY <1>1
  <2>3. ee.thread = Owner
    BY <2>1 DEF OneThread, Owner
  <2>4. ee.sequenceNr = n + 1
    BY <2>1 DEF AloneInv
  <2> QED
    BY <2>2, <2>3, <2>4 DEF Envelope
<1>3. n = 0 => ee.event.type = "ThreadCreated" /\ tables = EmptyTables
  BY <1>1, <1>2 DEF ThreadJournal, LeadsOn, AloneRows
<1>4. MeetsKeys(tables, ee) /\ tables' = Committed(tables, ee)
  BY DEF Transact
<1>5. applied' = 1 .. n + 1 /\ again' = {}
  BY DEF AloneRows, Transact
<1>6. Owner' = Owner
  BY DEF Owner, journalVars
<1> HIDE DEF ee
<1>7. /\ tables'.row[Owner].sequenceNr = n + 1
      /\ \A u \in Threads : u # Owner => tables'.row[u] = NoRow
  <2>1. CASE n = 0
    <3> DEFINE C == Committed(tables, ee)
    <3>1. \A u \in Threads : tables.row[u] = NoRow
      BY <1>2, <1>3, <2>1 DEF EmptyTables
    <3>2. /\ \A u \in Threads : u # ee.thread => Untouched(tables, C, u)
          /\ C.row[ee.thread] = [sequenceNr |-> ee.sequenceNr, removed |-> FALSE]
      BY <1>1, <1>2, <1>3, <2>1, CommittedCreates
    <3>3. tables' = C
      BY <1>4
    <3> HIDE DEF C
    <3> QED
      BY <1>2, <3>1, <3>2, <3>3 DEF Untouched
  <2>2. CASE n > 0
    <3>1. HasRow(tables, Owner)
      BY <2>2 DEF AloneRows, HasRow, NoRow
    <3>2. ee.event.type # "ThreadCreated"
      BY <1>2, <1>4, <3>1 DEF MeetsKeys
    <3>3. Follows(tables, ee, tables')
      BY <1>1, <1>2, <1>4, <3>1, <3>2, CommittedFollows
    <3> QED
      BY <1>2, <2>2, <3>3 DEF Follows, Untouched, AloneRows
  <2> QED
    BY <2>1, <2>2
<1> QED
  BY <1>5, <1>6, <1>7 DEF AloneRows

LEMMA CommitAlone ==
  ASSUME IInv, ThreadJournal, AloneInv, Commit
  PROVE  AloneInv'
<1>1. /\ stream = "running" /\ position' = position + 1
      /\ Transact(position + 1) /\ UNCHANGED journalVars
      /\ UNCHANGED <<tagged, stream, orphans, overlapped>>
  BY DEF Commit, Working, journalVars
<1>2. Ready(position + 1) /\ position \in Nat
  BY CommitReady DEF Commit
<1>3. OneThread' = OneThread
  BY <1>1 DEF OneThread
<1>4. ASSUME OneThread, NEW n \in 0 .. Len(tagged), AloneAfter(n)
      PROVE  n + 1 \in 0 .. Len(tagged) /\ AloneAfter(n + 1)'
  <2>1. position = n /\ AloneRows(n) /\ \A i \in Slots : orphans[i] = Done
    BY <1>1, <1>4 DEF AloneAfter, AlonePlaces
  <2>2. AloneRows(n + 1)'
    BY <1>1, <1>2, <1>4, <2>1, TransactAlone
  <2>3. AlonePlaces(n + 1)'
    BY <1>1, <2>1 DEF AlonePlaces
  <2> QED
    BY <1>2, <2>1, <2>2, <2>3 DEF AloneAfter, Ready
<1>5. OneThread' => \A k \in DOMAIN tagged' : tagged'[k].sequenceNr = k
  BY <1>1, <1>3 DEF AloneInv
<1> QED
  BY <1>1, <1>3, <1>4, <1>5 DEF AloneInv

LEMMA OrphanAlone ==
  ASSUME IInv, ThreadJournal, AloneInv, NEW i \in Slots, OrphanCommits(i)
  PROVE  AloneInv'
<1> DEFINE k == orphans[i].position + 1
           o == [position |-> k, batch |-> orphans[i].batch]
<1>1. /\ Ready(k) /\ Transact(k) /\ UNCHANGED journalVars
      /\ UNCHANGED <<stream, position, overlapped>>
      /\ \/ orphans' = [orphans EXCEPT ![i] = Done]
         \/ orphans' = [orphans EXCEPT ![i] = o]
  BY OrphanSteps
<1>2. orphans[i] # Done /\ orphans \in [Slots -> [position : Nat, batch : Nat]]
  BY DEF OrphanCommits, IInv, OrphanInv
<1>3. UNCHANGED tagged /\ OneThread' = OneThread
  BY <1>1 DEF journalVars, OneThread
<1>4. ASSUME OneThread, NEW n \in 0 .. Len(tagged), AloneAfter(n)
      PROVE  n + 1 \in 0 .. Len(tagged) /\ AloneAfter(n + 1)'
  <2>1. /\ AloneRows(n) /\ orphans[i].position = n /\ k = n + 1 /\ stream # "running"
        /\ \A j \in Slots \ {i} : orphans[j] = Done
    BY <1>2, <1>4 DEF AloneAfter, AlonePlaces
  <2>2. AloneRows(n + 1)'
    BY <1>1, <1>4, <2>1, TransactAlone
  <2>3. o.position = n + 1
    BY <2>1
  <2> HIDE DEF o
  <2>4. \A j \in Slots : orphans'[j] \in IF j = i THEN {Done, o} ELSE {Done}
    BY <1>1, <1>2, <2>1
  <2>5. AlonePlaces(n + 1)'
    BY <1>1, <2>1, <2>3, <2>4 DEF AlonePlaces
  <2> QED
    BY <1>1, <2>1, <2>2, <2>5 DEF AloneAfter, Ready
<1>5. OneThread' => \A j \in DOMAIN tagged' : tagged'[j].sequenceNr = j
  BY <1>3 DEF AloneInv
<1> QED
  BY <1>1, <1>3, <1>4, <1>5 DEF AloneInv

LEMMA AloneHolds == Spec => []AloneInv
<1>1. IInv /\ ThreadJournal /\ AloneInv /\ [Next]_vars => AloneInv'
  <2> SUFFICES ASSUME IInv, ThreadJournal, AloneInv, [Next]_vars PROVE AloneInv'
    OBVIOUS
  <2>1. UNCHANGED vars => AloneInv'
    BY DEF vars, AloneInv, AloneAfter, AloneRows, AlonePlaces, OneThread, Owner
  <2> QED
    BY <2>1, WriteAlone, CommitAlone, OrphanAlone, SilentAlone, NextCases
<1> QED
  BY <1>1, InitAlone, IInvHolds, JournalHolds, PTL DEF Spec

(***************************************************************************)
(* Of a thread alone in its tag no event is applied twice, and its         *)
(* sequence_nr is the number of events applied, wherever the updater fails *)
(* or the JVM ends, as long as no stream has read its offset beside a      *)
(* batch left behind by an earlier one.  AloneInv adds to IInv that the    *)
(* events applied are the first n, and that there is one reader at most,   *)
(* the stream or such a batch, which stands at n.                          *)
(***************************************************************************)
THEOREM AppliedExactlyOnce == Spec => []ExactlyOnceAlone
<1>1. IInv /\ AloneInv => ExactlyOnceAlone
  <2> SUFFICES ASSUME IInv, AloneInv, OneThread, ~overlapped
               PROVE  again = {} /\ LastSequenceNr(tables) = Cardinality(applied)
    BY DEF ExactlyOnceAlone
  <2>1. PICK n \in 0 .. Len(tagged) : AloneAfter(n)
    BY DEF AloneInv
  <2>2. n \in Nat
    BY <2>1 DEF IInv, JournalInv
  <2>3. LastSequenceNr(tables) = n
    BY <2>1, AloneLast DEF AloneAfter
  <2>4. Cardinality(1 .. n) = n
    BY <2>2, FS_Interval
  <2> QED
    BY <2>1, <2>3, <2>4 DEF AloneAfter, AloneRows
<1> QED
  BY <1>1, IInvHolds, AloneHolds, PTL

-----------------------------------------------------------------------------
(* The rows of a thread, however the tag's events are mixed.               *)

Number(t) == tables.row[t].sequenceNr

\* The events of t that have been applied are its first Number(t).
Counted(t) ==
  /\ Number(t) < Len(states[t])
  /\ \A k \in DOMAIN tagged :
       tagged[k].thread = t => (k \in applied <=> tagged[k].sequenceNr <= Number(t))
  /\ Number(t) = 0 =>
       /\ tables.row[t] = NoRow
       /\ tables.administratorIds[t] = {} /\ tables.memberIds[t] = {} /\ tables.messages[t] = {}

Faithful(t) ==
  HasRow(tables, t) /\ Undisturbed(t) /\ Reported(t, Number(t))
    => Shows(tables, t, states[t][Number(t) + 1])

\* No id is marked deleted before it is stored.
DeletedAreStored == \A x \in tables.deleted : x \in StoredMessageIds(tables)

\* The transaction of a thread's first event inserts its row, which stays.
AppliedHaveRows == \A k \in applied : HasRow(tables, tagged[k].thread)

\* No event of t was applied twice.
Once(t) == \A k \in again : tagged[k].thread # t

ContentInv ==
  /\ DeletedAreStored /\ AppliedHaveRows
  /\ \A t \in Threads : Once(t) => Counted(t) /\ Faithful(t)

LEMMA InitContent == Init => ContentInv
<1> SUFFICES ASSUME Init PROVE ContentInv
  OBVIOUS
<1>1. /\ tagged = <<>> /\ states = [t \in Threads |-> <<Initial>>] /\ tables = EmptyTables
  BY DEF Init
<1>2. tables.deleted = {} /\ applied = {}
  BY <1>1 DEF EmptyTables, Init
<1>3. ASSUME NEW t \in Threads PROVE Counted(t) /\ Faithful(t)
  <2>1. /\ tables.row[t] = NoRow /\ Number(t) = 0 /\ Len(states[t]) = 1
        /\ tables.administratorIds[t] = {} /\ tables.memberIds[t] = {} /\ tables.messages[t] = {}
    BY <1>1 DEF EmptyTables, NoRow, Number
  <2> QED
    BY <1>1, <2>1 DEF Counted, Faithful, HasRow
<1> QED
  BY <1>2, <1>3 DEF ContentInv, DeletedAreStored, AppliedHaveRows

\* A stored event is not applied yet, and changes nothing of what was shown.
LEMMA WriteContent ==
  ASSUME IInv, ThreadJournal, ContentInv, NEW t \in Threads, NEW c \in Commands, Write(t, c)
  PROVE  ContentInv'
<1> DEFINE l == Len(tagged)
           n == Len(states[t])
           ee == [thread |-> t, sequenceNr |-> n, event |-> ToEvent(c, l + 1)]
<1>1. /\ l \in Nat /\ n \in Nat /\ n > 0
      /\ DOMAIN tagged = 1 .. l /\ DOMAIN tagged' = 1 .. l + 1
      /\ \A k \in 1 .. l : tagged'[k] = tagged[k]
      /\ tagged'[l + 1] = ee
      /\ \A u \in Threads : u # t => states'[u] = states[u]
      /\ Len(states'[t]) = n + 1
      /\ \A i \in 1 .. n : states'[t][i] = states[t][i]
      /\ UNCHANGED <<tables, applied, again>>
  BY WriteSteps
<1>2. ee.thread = t /\ ee.sequenceNr = n
  OBVIOUS
<1> HIDE DEF ee, l
<1>3. applied \subseteq 1 .. l /\ again \subseteq applied /\ tables \in Tables
  BY <1>1 DEF IInv, TablesInv
<1>4. \A k \in 1 .. l : tagged[k].thread \in Threads /\ tagged[k].sequenceNr \in Nat \ {0}
  BY <1>1, EnvelopeAt
<1>5. DeletedAreStored' /\ AppliedHaveRows'
  BY <1>1, <1>3 DEF ContentInv, DeletedAreStored, AppliedHaveRows
<1>6. ASSUME NEW u \in Threads, Once(u)' PROVE Counted(u)' /\ Faithful(u)'
  <2>1. /\ Counted(u) /\ Faithful(u)
    BY <1>1, <1>3, <1>6 DEF ContentInv, Once
  <2>0. PICK m : m = Number(u)
    OBVIOUS
  <2>2. /\ m \in Nat /\ Number(u)' = m /\ m < Len(states[u]) /\ Len(states[u]) \in Nat
    BY <1>1, <1>3, <2>0, <2>1, RowType DEF Number, Counted, IInv, JournalInv
  <2>3. /\ Len(states[u]) <= Len(states'[u])
        /\ \A i \in 1 .. Len(states[u]) : states'[u][i] = states[u][i]
    <3>1. CASE u = t
      BY <1>1, <3>1 DEF n
    <3>2. CASE u # t
      BY <1>1, <2>2, <3>2
    <3> QED
      BY <3>1, <3>2
  <2>4. Len(states'[u]) \in Nat
    BY <1>1, <2>2
  <2>5. \A k \in 1 .. l + 1 :
          tagged'[k].thread = u => (k \in applied <=> tagged'[k].sequenceNr <= m)
    <3> SUFFICES ASSUME NEW k \in 1 .. l + 1, tagged'[k].thread = u
                 PROVE  k \in applied <=> tagged'[k].sequenceNr <= m
      OBVIOUS
    <3>1. CASE k = l + 1
      <4>1. u = t /\ tagged'[k].sequenceNr = n /\ n = Len(states[u])
        BY <1>1, <1>2, <3>1 DEF n
      <4> QED
        BY <1>1, <1>3, <2>2, <3>1, <4>1
    <3>2. CASE k \in 1 .. l
      BY <1>1, <2>0, <2>1, <3>2 DEF Counted
    <3> QED
      BY <1>1, <3>1, <3>2
  <2> HIDE DEF n
  <2>6. Counted(u)'
    <3>1. Number(u)' < Len(states'[u])
      BY <2>2, <2>3, <2>4
    <3> QED
      BY <1>1, <2>0, <2>1, <2>2, <2>5, <3>1 DEF Counted
  <2>7. Undisturbed(u)' => Undisturbed(u)
    BY <1>1, <1>3 DEF Undisturbed
  <2>8. Reported(u, m)' => Reported(u, m)
    <3> SUFFICES ASSUME Reported(u, m)',
                        NEW k \in 1 .. l, tagged[k].thread = u, tagged[k].sequenceNr <= m
                 PROVE  ~Misreported(u, tagged[k].event, tagged[k].sequenceNr)
      BY <1>1 DEF Reported
    <3>1. k \in 1 .. l + 1 /\ tagged'[k] = tagged[k]
      BY <1>1
    <3>2. ~Misreported(u, tagged[k].event, tagged[k].sequenceNr)'
      BY <1>1, <3>1 DEF Reported
    <3>3. PICK i : i = tagged[k].sequenceNr
      OBVIOUS
    <3>4. i \in 1 .. Len(states[u]) /\ states'[u][i] = states[u][i]
      BY <1>4, <2>2, <2>3, <3>3, SMTT(20)
    <3> QED
      BY <3>1, <3>2, <3>3, <3>4 DEF Misreported
  <2>9. states'[u][m + 1] = states[u][m + 1]
    BY <2>2, <2>3
  <2>10. ASSUME HasRow(tables, u)', Undisturbed(u)', Reported(u, Number(u))'
         PROVE  Shows(tables, u, states[u][m + 1])
    <3>1. Reported(u, m)'
      BY <2>2, <2>10 DEF Reported
    <3>2. HasRow(tables, u)
      BY <1>1, <2>10
    <3>3. Reported(u, Number(u))
      BY <2>0, <2>8, <3>1
    <3> QED
      BY <2>0, <2>1, <2>7, <2>10, <3>2, <3>3 DEF Faithful
  <2>11. Faithful(u)'
    BY <1>1, <2>2, <2>9, <2>10 DEF Faithful
  <2> QED
    BY <2>6, <2>11
<1> QED
  BY <1>5, <1>6 DEF ContentInv

\* The next event of the tag is the next of its thread, if it was not applied.
LEMMA NextOfItsThread ==
  ASSUME IInv, ThreadJournal, NEW k, Ready(k), k \notin applied, NEW t, t = tagged[k].thread, Counted(t)
  PROVE  tagged[k].sequenceNr = Number(t) + 1
<1> DEFINE i == tagged[k].sequenceNr
           n == Number(t)
<1>1. /\ DOMAIN tagged = 1 .. Len(tagged) /\ Len(tagged) \in Nat /\ tagged[k] \in Envelope
      /\ k \in DOMAIN tagged /\ 1 .. k - 1 \subseteq applied /\ tables \in Tables
  BY DEF IInv, JournalInv, TablesInv, Ready
<1>2. t \in Threads /\ i \in Nat \ {0} /\ n \in Nat /\ Len(states[t]) \in Nat
  BY <1>1, RowType DEF Envelope, Number, IInv, JournalInv
<1>3. n < i /\ i < Len(states[t])
  BY <1>1, <1>2 DEF Counted, ThreadJournal, LeadsOn
<1>4. n + 1 \in 1 .. Len(states[t]) - 1
  BY <1>2, <1>3
<1>5. PICK j \in DOMAIN tagged : tagged[j].thread = t /\ tagged[j].sequenceNr = n + 1
  BY <1>2, <1>4 DEF ThreadJournal, NoneMissing
<1> HIDE DEF i, n
<1>6. ~(tagged[j].sequenceNr <= n)
  BY <1>2, <1>5
<1>7. j \notin applied
  BY <1>5, <1>6 DEF Counted, n
<1>8. j \in Nat /\ k \in Nat /\ ~(j < k)
  BY <1>1, <1>7
<1>9. CASE k < j
  <2>1. i < n + 1
    BY <1>1, <1>5, <1>9 DEF ThreadJournal, Ascends, i
  <2> QED
    BY <1>2, <1>3, <2>1
<1>10. CASE j = k
  BY <1>5, <1>10 DEF n
<1> QED
  BY <1>8, <1>9, <1>10

\* After the first event of a thread there is a row.
LEMMA ReadyHasRow ==
  ASSUME IInv, ThreadJournal, AppliedHaveRows, NEW k, Ready(k),
         tagged[k].event.type # "ThreadCreated"
  PROVE  HasRow(tables, tagged[k].thread)
<1> DEFINE t == tagged[k].thread
           i == tagged[k].sequenceNr
<1>1. /\ k \in DOMAIN tagged /\ DOMAIN tagged = 1 .. Len(tagged) /\ Len(tagged) \in Nat
      /\ 1 .. k - 1 \subseteq applied
  BY DEF IInv, JournalInv, Ready
<1>2. t \in Threads /\ i \in Nat \ {0} /\ Len(states[t]) \in Nat
  BY <1>1, EnvelopeAt DEF IInv, JournalInv
<1>3. i # 1 /\ i < Len(states[t])
  BY <1>1 DEF ThreadJournal, LeadsOn
<1>4. PICK j \in DOMAIN tagged : tagged[j].thread = t /\ tagged[j].sequenceNr = 1
  <2>1. \A u \in Threads : \A n \in 1 .. Len(states[u]) - 1 :
          \E j \in DOMAIN tagged : tagged[j].thread = u /\ tagged[j].sequenceNr = n
    BY DEF ThreadJournal, NoneMissing
  <2> HIDE DEF t, i
  <2>2. 1 \in 1 .. Len(states[t]) - 1
    BY <1>2, <1>3
  <2> QED
    BY <1>2, <2>1, <2>2, Zenon
<1>5. ~(k < j) /\ j # k
  BY <1>1, <1>2, <1>3, <1>4 DEF ThreadJournal, Ascends
<1>6. j \in applied
  BY <1>1, <1>5
<1> QED
  BY <1>4, <1>6 DEF AppliedHaveRows

\* A transaction keeps the rows right of every undisturbed thread.
LEMMA TransactContent ==
  ASSUME IInv, ThreadJournal, ContentInv, NEW k, Ready(k), Transact(k), UNCHANGED journalVars
  PROVE  ContentInv'
<1>0. PICK ee, t, e, i, c :
        /\ ee = tagged[k]
        /\ t = ee.thread /\ e = ee.event /\ i = ee.sequenceNr /\ c = ToCommandRequest(e)
  OBVIOUS
<1>1. /\ MeetsKeys(tables, ee)
      /\ tables' = Committed(tables, ee)
      /\ again' = again \cup (applied \cap {k})
      /\ applied' = applied \cup {k}
      /\ UNCHANGED <<tagged, states>>
  BY <1>0 DEF Transact, journalVars
<1>2. /\ Len(tagged) \in Nat /\ DOMAIN tagged = 1 .. Len(tagged) /\ tagged \in Seq(Envelope)
      /\ states \in [Threads -> Seq(Behaviour)] /\ tables \in Tables
      /\ k \in 1 .. Len(tagged)
      /\ applied \subseteq DOMAIN tagged
  BY DEF IInv, JournalInv, TablesInv, Ready
<1>3. k \in DOMAIN tagged /\ ee \in Envelope
  BY <1>0, <1>1, <1>2
<1>4. t \in Threads /\ e \in Event /\ i \in Nat \ {0} /\ ee.thread = t /\ ee.event = e
  BY <1>0, <1>3 DEF Envelope
<1>5. \A j \in DOMAIN tagged : tagged[j].thread \in Threads /\ tagged[j].sequenceNr \in Nat \ {0}
  BY EnvelopeAt
<1>6. /\ \A x \in tables.deleted : x \in StoredMessageIds(tables)
      /\ AppliedHaveRows
      /\ \A u \in Threads : Once(u)' => Counted(u) /\ Faithful(u)
      /\ Once(t)' => k \notin applied
  <2>1. \A u \in Threads : Once(u)' => Once(u)
    BY <1>1 DEF Once
  <2>2. Once(t)' => k \notin applied
    BY <1>0, <1>1 DEF Once
  <2> QED
    BY <2>1, <2>2 DEF ContentInv, DeletedAreStored
<1>7. PICK n : n = Number(t)
  OBVIOUS
<1>8. n \in Nat /\ (Once(t)' => i = n + 1)
  <2>1. Once(t)' => tagged[k].sequenceNr = Number(t) + 1
    BY <1>0, <1>4, <1>6, NextOfItsThread
  <2> QED
    BY <1>0, <1>2, <1>4, <1>7, <2>1, RowType DEF Number
<1>9. /\ states[t][i + 1] = After(states[t][i], c) /\ states[t][1] = Initial
      /\ i < Len(states[t]) /\ Len(states[t]) \in Nat /\ states[t][i] \in Behaviour
      /\ i = 1 => e.type = "ThreadCreated"
  <2>1. /\ i < Len(states[t]) /\ states[t][i + 1] = After(states[t][i], c)
        /\ i = 1 => e.type = "ThreadCreated"
    BY <1>0, <1>3 DEF ThreadJournal, LeadsOn
  <2>2. states[t] \in Seq(Behaviour) /\ states[t][1] = Initial
    BY <1>2, <1>4 DEF ThreadJournal, BeginsInitial
  <2> QED
    BY <1>4, <2>1, <2>2
<1>10. PICK C : C = tables' /\ C = Committed(tables, ee)
  BY <1>1
<1>11. ASSUME \A u \in Threads : u # t => Untouched(tables, C, u),
              tables.messages[t] \subseteq C.messages[t],
              C.row[t].sequenceNr = i,
              \A x \in C.deleted : x \in tables.deleted
                                    \/ (e.type = "MessagesRemoved" /\ x \in e.messageIds),
              tables.deleted \subseteq C.deleted,
              DeletedAreStored',
              Once(t)' /\ Undisturbed(t) /\ Reported(t, n) /\ ~Misreported(t, e, i)
                => Shows(C, t, states[t][i + 1])
       PROVE  ContentInv'
  <2>1. ASSUME NEW u \in Threads, Once(u)', u # t PROVE Counted(u)' /\ Faithful(u)'
    <3>1. /\ tables'.row[u] = tables.row[u] /\ tables'.messages[u] = tables.messages[u]
          /\ tables'.administratorIds[u] = tables.administratorIds[u]
          /\ tables'.memberIds[u] = tables.memberIds[u]
      BY <1>10, <1>11, <2>1 DEF Untouched
    <3>2. \A j \in DOMAIN tagged : tagged[j].thread = u => (j \in applied' <=> j \in applied)
      BY <1>0, <1>1, <2>1
    <3>3. PICK m : m = Number(u)
      OBVIOUS
    <3>4. Number(u)' = m
      BY <3>1, <3>3 DEF Number
    <3>5. Counted(u)'
      BY <1>1, <1>6, <2>1, <3>1, <3>2, <3>3, <3>4 DEF Counted
    <3>6. ASSUME Undisturbed(u)'
          PROVE  /\ Undisturbed(u)
                 /\ e.type = "MessagesRemoved" => \A x \in tables.messages[u] : x.id \notin e.messageIds
      BY <1>0, <1>1, <1>3, <1>4, <1>6, <2>1, <3>1, <3>6 DEF Undisturbed
    <3>7. ASSUME Undisturbed(u)' PROVE Visible(C, u) = Visible(tables, u)
      BY <1>10, <1>11, <3>1, <3>6, <3>7 DEF Visible
    <3>8. ASSUME HasRow(tables, u)', Undisturbed(u)', Reported(u, Number(u))'
          PROVE  Shows(C, u, states[u][m + 1])
      <4>1. HasRow(tables, u)
        BY <3>1, <3>8 DEF HasRow
      <4>2. Reported(u, m)
        BY <1>1, <3>4, <3>8 DEF Reported, Misreported
      <4>3. Shows(tables, u, states[u][m + 1])
        BY <1>6, <2>1, <3>3, <3>6, <3>8, <4>1, <4>2 DEF Faithful
      <4> QED
        BY <1>10, <3>1, <3>7, <3>8, <4>3 DEF Shows
    <3>9. Faithful(u)'
      BY <1>1, <1>10, <3>4, <3>8 DEF Faithful
    <3> QED
      BY <3>5, <3>9
  <2>2. Number(t)' = i
    BY <1>10, <1>11 DEF Number
  <2>3. ASSUME Once(t)' PROVE Counted(t)'
    <3>1. \A j \in DOMAIN tagged :
            tagged[j].thread = t => (j \in applied' <=> tagged[j].sequenceNr <= i)
      <4> SUFFICES ASSUME NEW j \in DOMAIN tagged, tagged[j].thread = t
                   PROVE  j \in applied' <=> tagged[j].sequenceNr <= i
        OBVIOUS
      <4>1. CASE j = k
        BY <1>0, <1>1, <1>4, <4>1
      <4>2. CASE j # k
        <5>1. j \in applied' <=> tagged[j].sequenceNr <= n
          BY <1>1, <1>4, <1>6, <1>7, <2>3, <4>2 DEF Counted
        <5>2. tagged[k].thread = t /\ tagged[k].sequenceNr = i /\ j \in Nat /\ k \in Nat
          BY <1>0, <1>2, <1>3
        <5>3. tagged[j].sequenceNr # i
          <6>1. CASE j < k
            <7>1. tagged[j].sequenceNr < tagged[k].sequenceNr
              BY <1>3, <5>2, <6>1 DEF ThreadJournal, Ascends
            <7> QED
              BY <1>4, <1>5, <5>2, <7>1
          <6>2. CASE k < j
            <7>1. tagged[k].sequenceNr < tagged[j].sequenceNr
              BY <1>3, <5>2, <6>2 DEF ThreadJournal, Ascends
            <7> QED
              BY <1>4, <1>5, <5>2, <7>1
          <6> QED
            BY <4>2, <5>2, <6>1, <6>2
        <5> QED
          BY <1>4, <1>5, <1>8, <2>3, <5>1, <5>3
      <4> QED
        BY <4>1, <4>2
    <3> QED
      BY <1>1, <1>4, <1>9, <2>2, <3>1 DEF Counted
  <2>4. ASSUME Once(t)', Undisturbed(t)', Reported(t, Number(t))'
        PROVE  Shows(C, t, states[t][i + 1])
    <3>1. Undisturbed(t)
      <4>1. \A j \in again : j \in again'
        BY <1>1
      <4>2. \A j \in applied : j \in applied'
        BY <1>1
      <4> QED
        BY <1>1, <1>10, <1>11, <2>4, <4>1, <4>2 DEF Undisturbed
    <3>2. Reported(t, i)
      BY <1>1, <2>2, <2>4 DEF Reported, Misreported
    <3>3. Reported(t, n)
      BY <1>4, <1>5, <1>8, <2>4, <3>2 DEF Reported
    <3>4. ~Misreported(t, e, i)
      BY <1>0, <1>3, <1>4, <3>2 DEF Reported
    <3> QED
      BY <1>11, <2>4, <3>1, <3>3, <3>4
  <2>5. ASSUME Once(t)' PROVE Faithful(t)'
    BY <1>1, <1>10, <2>2, <2>4, <2>5 DEF Faithful
  <2>6. AppliedHaveRows'
    <3> SUFFICES ASSUME NEW j \in applied' PROVE HasRow(tables', tagged[j].thread)
      BY <1>1 DEF AppliedHaveRows
    <3>1. CASE tagged[j].thread = t
      BY <1>4, <1>10, <1>11, <3>1 DEF HasRow, NoRow
    <3>2. CASE tagged[j].thread # t
      <4>1. j \in applied
        BY <1>0, <1>1, <3>2
      <4> QED
        BY <1>2, <1>5, <1>6, <1>10, <1>11, <3>2, <4>1 DEF AppliedHaveRows, HasRow, Untouched
    <3> QED
      BY <3>1, <3>2
  <2> QED
    BY <1>11, <2>1, <2>3, <2>5, <2>6 DEF ContentInv
<1>12. CASE e.type = "ThreadCreated"
  <2>1. ASSUME Once(t)'
        PROVE  /\ i = 1
               /\ tables.administratorIds[t] = {} /\ tables.memberIds[t] = {} /\ tables.messages[t] = {}
    <3>1. ~HasRow(tables, t)
      BY <1>1, <1>4, <1>12 DEF MeetsKeys
    <3>2. Number(t) = 0 /\ Counted(t)
      BY <1>4, <1>6, <2>1, <3>1 DEF HasRow, NoRow, Number
    <3> QED
      BY <1>7, <1>8, <2>1, <3>2 DEF Counted
  <2>2. /\ \A u \in Threads : u # t => Untouched(tables, C, u)
        /\ C.row[t] = [sequenceNr |-> i, removed |-> FALSE]
        /\ C.administratorIds[t] = tables.administratorIds[t] \cup e.administratorIds
        /\ C.memberIds[t] = tables.memberIds[t] \cup e.memberIds
        /\ C.messages = tables.messages /\ C.deleted = tables.deleted
    <3>1. ee.event.type = "ThreadCreated"
      BY <1>4, <1>12
    <3>2. /\ \A u \in Threads : u # ee.thread => Untouched(tables, C, u)
          /\ C.row[ee.thread] = [sequenceNr |-> ee.sequenceNr, removed |-> FALSE]
          /\ C.administratorIds[ee.thread] =
               tables.administratorIds[ee.thread] \cup ee.event.administratorIds
          /\ C.memberIds[ee.thread] = tables.memberIds[ee.thread] \cup ee.event.memberIds
          /\ C.messages = tables.messages /\ C.deleted = tables.deleted
      BY <1>2, <1>3, <1>10, <3>1, CommittedCreates
    <3> QED
      BY <1>0, <1>4, <3>2
  <2>3. DeletedAreStored'
    BY <1>6, <1>10, <2>2 DEF DeletedAreStored, StoredMessageIds
  <2>4. ASSUME Once(t)', Accepts(states[t][i], c) PROVE Shows(C, t, states[t][i + 1])
    <3>1. states[t][i] = Initial /\ c.op = "CreateThread"
      BY <1>0, <1>9, <1>12, <2>1, <2>4 DEF ToCommandRequest, RequestOpOf
    <3>2. states[t][i + 1] = OnCreated(NewThread(c.administratorIds, c.memberIds))
      BY <1>9, <2>4, <3>1 DEF After
    <3>3. c.administratorIds = e.administratorIds /\ c.memberIds = e.memberIds
      BY <1>0 DEF ToCommandRequest
    <3>4. /\ C.row[t].removed = FALSE /\ C.messages[t] = {}
          /\ C.administratorIds[t] = e.administratorIds /\ C.memberIds[t] = e.memberIds
      BY <2>1, <2>2, <2>4
    <3> QED
      BY <3>2, <3>3, <3>4 DEF Shows, Visible, OnCreated, NewThread
  <2>5. ~Misreported(t, e, i) => Accepts(states[t][i], c)
    BY <1>0 DEF Misreported
  <2>6. C.row[t].sequenceNr = i
    BY <2>2
  <2> QED
    BY <1>11, <2>2, <2>3, <2>4, <2>5, <2>6
<1>13. CASE e.type # "ThreadCreated"
  <2>1. HasRow(tables, t)
    BY <1>0, <1>6, <1>13, ReadyHasRow
  <2>2. e.type # "ThreadCreated"
    BY <1>13
  <2>3. Follows(tables, ee, C)
    BY <1>2, <1>3, <1>4, <1>10, <2>1, <2>2, CommittedFollows
  <2>4. DeletedAreStored'
    <3>1. \A x \in C.deleted : x \in StoredMessageIds(C)
      BY <1>3, <1>6, <2>3, FollowsDeleted
    <3> QED
      BY <1>10, <3>1 DEF DeletedAreStored
  <2>5. /\ \A u \in Threads : u # t => Untouched(tables, C, u)
        /\ tables.messages[t] \subseteq C.messages[t]
        /\ C.row[t].sequenceNr = i
        /\ \A x \in C.deleted : x \in tables.deleted
                                \/ (e.type = "MessagesRemoved" /\ x \in e.messageIds)
        /\ tables.deleted \subseteq C.deleted
    BY <1>0, <1>4, <2>3 DEF Follows, MessagesAfter
  <2>6. ASSUME Once(t)', Undisturbed(t), Reported(t, n), ~Misreported(t, e, i)
        PROVE  Shows(C, t, states[t][i + 1])
    <3>1. Shows(tables, t, states[t][i])
      BY <1>4, <1>6, <1>7, <1>8, <2>1, <2>6 DEF Faithful
    <3>2. e.type # "MemberIdsLeft" /\ Accepts(states[t][i], c)
      BY <1>0, <2>6 DEF Misreported
    <3>3. PICK b : b = states[t][i]
      OBVIOUS
    <3>4. /\ ee.thread = t /\ ee.event = e /\ c = ToCommandRequest(ee.event)
          /\ b \in Behaviour /\ MeetsKeys(tables, ee)
      BY <1>0, <1>1, <1>9, <3>3
    <3>5. Shows(C, ee.thread, After(b, ToCommandRequest(ee.event)))
      BY <1>2, <1>3, <1>6, <2>2, <2>3, <3>1, <3>2, <3>3, <3>4, FollowsShows
    <3> QED
      BY <1>9, <3>3, <3>4, <3>5
  <2> QED
    BY <1>11, <2>4, <2>5, <2>6
<1> QED
  BY <1>12, <1>13

LEMMA ContentHolds == Spec => []ContentInv
<1>1. IInv /\ ThreadJournal /\ ContentInv /\ [Next]_vars => ContentInv'
  <2> SUFFICES ASSUME IInv, ThreadJournal, ContentInv, [Next]_vars PROVE ContentInv'
    OBVIOUS
  <2>1. Commit => ContentInv'
    <3> SUFFICES ASSUME Commit PROVE ContentInv'
      OBVIOUS
    <3>1. Ready(position + 1) /\ Transact(position + 1) /\ UNCHANGED journalVars
      BY CommitReady DEF Commit
    <3> QED
      BY <3>1, TransactContent
  <2>2. ASSUME NEW i \in Slots, OrphanCommits(i) PROVE ContentInv'
    <3>1. PICK k : Ready(k) /\ Transact(k) /\ UNCHANGED journalVars
      BY <2>2, OrphanSteps
    <3> QED
      BY <3>1, TransactContent
  <2>3. ASSUME UNCHANGED <<tagged, states, tables, applied, again>> PROVE ContentInv'
    <3>1. ASSUME NEW t \in Threads
          PROVE  /\ Number(t)' = Number(t) /\ Undisturbed(t)' = Undisturbed(t) /\ Once(t)' = Once(t)
                 /\ Counted(t)' = Counted(t) /\ Faithful(t)' = Faithful(t)
      BY <2>3 DEF Number, Undisturbed, Once, Counted, Faithful, Reported, Misreported
    <3> QED
      BY <2>3, <3>1 DEF ContentInv, DeletedAreStored, AppliedHaveRows
  <2>4. UNCHANGED vars => ContentInv'
    BY <2>3 DEF vars
  <2> QED
    BY <2>1, <2>2, <2>3, <2>4, WriteContent, SilentLeaves, NextCases
<1> QED
  BY <1>1, InitContent, IInvHolds, JournalHolds, PTL DEF Spec

(***************************************************************************)
(* The rows of an undisturbed thread show the administrators, members,     *)
(* messages and removal its aggregate had after sequence_nr events, unless *)
(* a misreported event is among them.  ContentInv gives the reason: of a   *)
(* thread no event of which was applied twice, the events applied are its  *)
(* first sequence_nr, whoever applied them, so the next one meets the      *)
(* behaviour the rows show.                                                *)
(***************************************************************************)
THEOREM RowsShowTheAggregate == Spec => []ShowsTheAggregate
<1>1. ContentInv => ShowsTheAggregate
  <2> SUFFICES ASSUME ContentInv, NEW t \in Threads, HasRow(tables, t), Undisturbed(t),
                      Reported(t, tables.row[t].sequenceNr)
               PROVE  Shows(tables, t, states[t][tables.row[t].sequenceNr + 1])
    BY DEF ShowsTheAggregate, Shows, Visible
  <2> QED
    BY DEF ContentInv, Faithful, Number, Undisturbed, Once
<1> QED
  BY <1>1, ContentHolds, PTL

-----------------------------------------------------------------------------
(* The queries.                                                            *)

\* A thread's joined rows reach exactly its administrators and members.
LEMMA SeesItsAccounts ==
  ASSUME NEW t \in Threads, NEW a
  PROVE  Sees(a, t) <=> /\ HasRow(tables, t)
                        /\ a \in tables.administratorIds[t] \cup tables.memberIds[t]
<1> DEFINE members == tables.memberIds[t]
           administrators == tables.administratorIds[t]
<1>1. ASSUME NEW ids PROVE OuterJoin(ids) # {} /\ (a \in ids <=> \E j \in OuterJoin(ids) : a \in j)
  BY DEF OuterJoin
<1>2. Sees(a, t) <=> HasRow(tables, t) /\ \E r \in OuterJoin(members) \X OuterJoin(administrators) :
                                            a \in r[1] \/ a \in r[2]
  BY DEF Sees, JoinedFor, Joined
<1> HIDE DEF members, administrators
<1>3. (\E r \in OuterJoin(members) \X OuterJoin(administrators) : a \in r[1] \/ a \in r[2])
        <=> a \in members \/ a \in administrators
  <2>1. PICK i \in OuterJoin(members), j \in OuterJoin(administrators) : TRUE
    BY <1>1
  <2>2. ASSUME NEW x \in OuterJoin(members), a \in x
        PROVE  \E r \in OuterJoin(members) \X OuterJoin(administrators) : a \in r[1] \/ a \in r[2]
    <3>1. <<x, j>> \in OuterJoin(members) \X OuterJoin(administrators) /\ a \in <<x, j>>[1]
      BY <2>2
    <3> QED
      BY <3>1
  <2>3. ASSUME NEW x \in OuterJoin(administrators), a \in x
        PROVE  \E r \in OuterJoin(members) \X OuterJoin(administrators) : a \in r[1] \/ a \in r[2]
    <3>1. <<i, x>> \in OuterJoin(members) \X OuterJoin(administrators) /\ a \in <<i, x>>[2]
      BY <2>3
    <3> QED
      BY <3>1
  <2>4. ASSUME NEW r \in OuterJoin(members) \X OuterJoin(administrators), a \in r[1] \/ a \in r[2]
        PROVE  a \in members \/ a \in administrators
    <3>1. r[1] \in OuterJoin(members) /\ r[2] \in OuterJoin(administrators)
      OBVIOUS
    <3> QED
      BY <1>1, <2>4, <3>1
  <2> QED
    BY <1>1, <2>2, <2>3, <2>4
<1> QED
  BY <1>2, <1>3 DEF members, administrators

\* The accounts of the thread u in the tables T.
Accounts(T, u) == T.administratorIds[u] \cup T.memberIds[u]

\* Tables whose accounts all come from T or from the event in ee.
Invites(T, ee, C) ==
  \A u \in Threads, a \in Account :
    a \in Accounts(C, u) => \/ a \in Accounts(T, u)
                            \/ u = ee.thread /\ InvitedBy(ee.event, a)

\* A transaction gives a thread no account but those its event names.
LEMMA CommittedInvites ==
  ASSUME NEW T \in Tables, NEW ee \in Envelope
  PROVE  Invites(T, ee, Committed(T, ee))
<1> DEFINE t == ee.thread
           e == ee.event
           n == ee.sequenceNr
           U == UpdateSequenceNrInThread(T, t, n)
           V == InsertThread(T, t, n)
           W == InsertAdministratorIds(V, t, e.administratorIds)
           R == UpdateThreadToRemove(T, t, n)
           messages == MessagesOf(ToCommandRequest(e))
<1>1. /\ t \in Threads /\ n \in Nat /\ e.type \in DOMAIN RequestOpOf
      /\ e.administratorIds \in SUBSET Account /\ e.memberIds \in SUBSET Account
  BY DEF Envelope, Event
<1>2. U \in Tables /\ V \in Tables /\ R \in Tables
  BY <1>1, RowActions
<1>3. /\ U.administratorIds = T.administratorIds /\ U.memberIds = T.memberIds
      /\ V.administratorIds = T.administratorIds /\ V.memberIds = T.memberIds
      /\ R.administratorIds = T.administratorIds /\ R.memberIds = T.memberIds
  <2>1. ASSUME NEW row
        PROVE  /\ [T EXCEPT !.row = row].administratorIds = T.administratorIds
               /\ [T EXCEPT !.row = row].memberIds = T.memberIds
    BY DEF Tables
  <2>2. \E row : U = [T EXCEPT !.row = row] \/ U = T
    BY DEF UpdateSequenceNrInThread
  <2>3. \E row : V = [T EXCEPT !.row = row]
    BY DEF InsertThread
  <2>4. \E row : R = [T EXCEPT !.row = row] \/ R = T
    BY DEF UpdateThreadToRemove
  <2> HIDE DEF U, V, R
  <2> QED
    BY <2>1, <2>2, <2>3, <2>4
<1>4. ASSUME NEW X \in Tables, NEW ids \in SUBSET Account, NEW u \in Threads
      PROVE  /\ Accounts(InsertAdministratorIds(X, t, ids), u) \subseteq
                   Accounts(X, u) \cup (IF u = t THEN ids ELSE {})
             /\ Accounts(InsertMemberIds(X, t, ids), u) \subseteq
                   Accounts(X, u) \cup (IF u = t THEN ids ELSE {})
             /\ Accounts(DeleteAdministratorIds(X, t, ids), u) \subseteq Accounts(X, u)
             /\ Accounts(DeleteMemberIds(X, t, ids), u) \subseteq Accounts(X, u)
  <2> USE <1>1, RowType
  <2>1. Accounts(InsertAdministratorIds(X, t, ids), u) \subseteq
          Accounts(X, u) \cup (IF u = t THEN ids ELSE {})
    BY DEF Accounts, Tables, InsertAdministratorIds
  <2>2. Accounts(InsertMemberIds(X, t, ids), u) \subseteq
          Accounts(X, u) \cup (IF u = t THEN ids ELSE {})
    BY DEF Accounts, Tables, InsertMemberIds
  <2>3. Accounts(DeleteAdministratorIds(X, t, ids), u) \subseteq Accounts(X, u)
    BY DEF Accounts, Tables, DeleteAdministratorIds
  <2>4. Accounts(DeleteMemberIds(X, t, ids), u) \subseteq Accounts(X, u)
    BY DEF Accounts, Tables, DeleteMemberIds
  <2> QED
    BY <2>1, <2>2, <2>3, <2>4
<1>5. ASSUME NEW X \in Tables, NEW u \in Threads, NEW values
      PROVE  /\ Accounts(InsertMessages(X, t, values), u) = Accounts(X, u)
             /\ Accounts(DeleteMessages(X, values), u) = Accounts(X, u)
  BY DEF Accounts, Tables, InsertMessages, DeleteMessages
<1>6. \A u \in Threads : /\ Accounts(U, u) = Accounts(T, u)
                         /\ Accounts(V, u) = Accounts(T, u)
                         /\ Accounts(R, u) = Accounts(T, u)
  BY <1>3 DEF Accounts
<1>7. W \in Tables
  BY <1>1, <1>2, IdActions DEF SameRows
<1> SUFFICES ASSUME NEW u \in Threads, NEW a \in Account, a \in Accounts(Committed(T, ee), u)
             PROVE  a \in Accounts(T, u) \/ (u = t /\ InvitedBy(e, a))
  BY DEF Invites
<1> HIDE DEF t, e, n, U, V, W, R, messages
<1>8. CASE e.type = "ThreadCreated"
  <2>1. Committed(T, ee) = InsertMemberIds(W, t, e.memberIds)
    BY <1>8 DEF Committed, t, e, n, V, W
  <2>2. a \in Accounts(W, u) \/ (u = t /\ a \in e.memberIds)
    BY <1>1, <1>4, <1>7, <2>1
  <2>3. Accounts(W, u) \subseteq Accounts(V, u) \cup (IF u = t THEN e.administratorIds ELSE {})
    BY <1>1, <1>2, <1>4 DEF W
  <2> QED
    BY <1>6, <1>8, <2>2, <2>3 DEF InvitedBy
<1>9. CASE e.type = "ThreadDestroyed"
  <2>1. Committed(T, ee) = R
    BY <1>9 DEF Committed, t, e, n, R
  <2> QED
    BY <1>6, <2>1
<1>10. CASE e.type = "AdministratorIdsJoined"
  <2>1. Committed(T, ee) = InsertAdministratorIds(U, t, e.administratorIds)
    BY <1>10 DEF Committed, t, e, n, U
  <2> QED
    BY <1>1, <1>2, <1>4, <1>6, <1>10, <2>1 DEF InvitedBy
<1>11. CASE e.type = "MemberIdsAdded"
  <2>1. Committed(T, ee) = InsertMemberIds(U, t, e.memberIds)
    BY <1>11 DEF Committed, t, e, n, U
  <2> QED
    BY <1>1, <1>2, <1>4, <1>6, <1>11, <2>1 DEF InvitedBy
<1>12. CASE e.type \in {"AdministratorIdsLeft", "MemberIdsLeft"}
  <2>1. Committed(T, ee) \in {DeleteAdministratorIds(U, t, e.administratorIds),
                             DeleteMemberIds(U, t, e.memberIds)}
    BY <1>12 DEF Committed, t, e, n, U
  <2> QED
    BY <1>1, <1>2, <1>4, <1>6, <2>1
<1>13. CASE e.type \in {"MessagesAdded", "MessagesRemoved"}
  <2>1. Committed(T, ee) \in {InsertMessages(U, t, messages), DeleteMessages(U, e.messageIds)}
    BY <1>13 DEF Committed, t, e, n, U, messages
  <2> QED
    BY <1>2, <1>5, <1>6, <2>1
<1> QED
  BY <1>1, <1>8, <1>9, <1>10, <1>11, <1>12, <1>13 DEF RequestOpOf

\* Every account of a thread was named by one of its events that were applied.
InvitedInv ==
  \A t \in Threads, a \in Account :
    a \in Accounts(tables, t) =>
      \E k \in applied : tagged[k].thread = t /\ InvitedBy(tagged[k].event, a)

LEMMA NextInvited == IInv /\ InvitedInv /\ [Next]_vars => InvitedInv'
<1> SUFFICES ASSUME IInv, InvitedInv, [Next]_vars PROVE InvitedInv'
  OBVIOUS
<1>1. ASSUME NEW t \in Threads, NEW c \in Commands, Write(t, c) PROVE InvitedInv'
  <2>1. UNCHANGED <<tables, applied>> /\ \A k \in applied : tagged'[k] = tagged[k]
    BY <1>1 DEF Write, streamVars, historyVars, IInv, JournalInv, TablesInv
  <2> QED
    BY <2>1 DEF InvitedInv, Accounts
<1>2. ASSUME NEW k, Ready(k), Transact(k), UNCHANGED journalVars PROVE InvitedInv'
  <2> DEFINE ee == tagged[k]
  <2>1. /\ tables' = Committed(tables, ee) /\ applied' = applied \cup {k}
        /\ tagged' = tagged /\ ee \in Envelope /\ tables \in Tables
    BY <1>2 DEF Transact, journalVars, Ready, IInv, JournalInv, TablesInv
  <2>2. Invites(tables, ee, tables')
    BY <2>1, CommittedInvites
  <2> QED
    BY <2>1, <2>2 DEF InvitedInv, Invites
<1>3. Commit => InvitedInv'
  BY <1>2, CommitReady DEF Commit
<1>4. ASSUME NEW i \in Slots, OrphanCommits(i) PROVE InvitedInv'
  BY <1>2, <1>4, OrphanSteps
<1>5. UNCHANGED <<tagged, tables, applied>> => InvitedInv'
  BY DEF InvitedInv, Accounts
<1>6. UNCHANGED vars => InvitedInv'
  BY <1>5 DEF vars
<1> QED
  BY <1>1, <1>3, <1>4, <1>5, <1>6, SilentLeaves, NextCases

(***************************************************************************)
(* Whoever the queries show a thread to was named its administrator or its *)
(* member by an event of that thread, with any number of threads in the    *)
(* tag and however often their events are read again.                      *)
(***************************************************************************)
THEOREM ThreadsSeenByInvited == Spec => []SeenByInvited
<1>1. Init => InvitedInv
  BY DEF Init, InvitedInv, Accounts, EmptyTables
<1>2. InvitedInv => SeenByInvited
  BY SeesItsAccounts DEF InvitedInv, SeenByInvited, Accounts
<1> QED
  BY <1>1, <1>2, NextInvited, IInvHolds, PTL DEF Spec

\* No thread an aggregate holds was ever removed: destroy drops the one that is.
LEMMA AfterNotRemoved ==
  ASSUME NEW b \in Behaviour, NEW c \in Request, IsCommand(c), b.thread.removedAt = NotRemoved
  PROVE  After(b, c).thread.removedAt = NotRemoved
<1> DEFINE t == b.thread
           r == Handle(t, c)
<1>1. t \in ThreadState
  BY DEF Behaviour
<1>2. ASSUME NEW guard, NEW new, r = Either(guard, t, new), new.removedAt = NotRemoved
      PROVE  r.thread.removedAt = NotRemoved
  BY <1>2 DEF Either
<1>3. ASSUME NEW ids
      PROVE  /\ [t EXCEPT !.administratorIds = ids].removedAt = NotRemoved
             /\ [t EXCEPT !.memberIds = ids].removedAt = NotRemoved
             /\ [t EXCEPT !.messages = ids].removedAt = NotRemoved
  BY <1>1 DEF ThreadState
<1> HIDE DEF t, r
<1>4. CASE ~Accepts(b, c)
  BY <1>4 DEF After
<1>5. CASE Accepts(b, c) /\ c.op = "CreateThread"
  BY <1>5 DEF After, OnCreated, NewThread
<1>6. CASE Accepts(b, c) /\ c.op = "DestroyThread"
  BY <1>6 DEF After, OnDestroyed, NoThread, NewThread
<1>7. CASE Accepts(b, c) /\ c.op \notin {"CreateThread", "DestroyThread"}
  <2>1. After(b, c) = OnCreated(r.thread)
    BY <1>7 DEF After, t, r
  <2>2. SUFFICES r.thread.removedAt = NotRemoved
    BY <2>1 DEF OnCreated
  <2>3. CASE c.op \in {"JoinAdministratorIds", "LeaveAdministratorIds"}
    <3>1. PICK guard, ids : r = Either(guard, t, [t EXCEPT !.administratorIds = ids])
      BY <2>3 DEF r, Handle, CommandJoinAdministratorIds, JoinAdministratorIds,
                  CommandLeaveAdministratorIds, LeaveAdministratorIds
    <3> QED
      BY <1>2, <1>3, <3>1
  <2>4. CASE c.op \in {"JoinMemberIds", "LeaveMemberIds"}
    <3>1. PICK guard, ids : r = Either(guard, t, [t EXCEPT !.memberIds = ids])
      BY <2>4 DEF r, Handle, CommandJoinMemberIds, JoinMemberIds, CommandLeaveMemberIds
    <3> QED
      BY <1>2, <1>3, <3>1
  <2>5. CASE c.op \in {"AddMessages", "RemoveMessages"}
    <3>1. PICK guard, ids : r = Either(guard, t, [t EXCEPT !.messages = ids])
      BY <2>5 DEF r, Handle, CommandAddMessages, AddMessages, CommandRemoveMessages, RemoveMessages
    <3> QED
      BY <1>2, <1>3, <3>1
  <2> QED
    BY <1>7, <2>3, <2>4, <2>5 DEF IsCommand, CommandOp
<1> QED
  BY <1>4, <1>5, <1>6, <1>7

NotRemovedInv ==
  \A t \in Threads : \A i \in DOMAIN states[t] : states[t][i].thread.removedAt = NotRemoved

LEMMA NotRemovedHolds == Spec => []NotRemovedInv
<1>1. Init => NotRemovedInv
  BY DEF Init, NotRemovedInv, Initial, NoThread, NewThread
<1>2. IInv /\ NotRemovedInv /\ [Next]_vars => NotRemovedInv'
  <2> SUFFICES ASSUME IInv, NotRemovedInv, [Next]_vars PROVE NotRemovedInv'
    OBVIOUS
  <2>1. ASSUME NEW t \in Threads, NEW c \in Commands, Write(t, c) PROVE NotRemovedInv'
    <3> DEFINE b == After(Current(t), c)
    <3>1. states' = [states EXCEPT ![t] = Append(states[t], b)] /\ IsCommand(c)
      BY <2>1 DEF Write
    <3>2. states \in [Threads -> Seq(Behaviour)] /\ states[t] \in Seq(Behaviour) /\ Len(states[t]) \in Nat
          /\ Len(states[t]) >= 1
      BY DEF IInv, JournalInv
    <3>3. Current(t) \in Behaviour /\ Current(t).thread.removedAt = NotRemoved
      BY <3>2 DEF Current, NotRemovedInv
    <3>4. b.thread.removedAt = NotRemoved
      BY <3>1, <3>3, UpdaterAssumption, AfterNotRemoved
    <3> HIDE DEF b
    <3>5. ASSUME NEW u \in Threads, NEW i \in DOMAIN states'[u]
          PROVE  states'[u][i].thread.removedAt = NotRemoved
      <4>1. CASE u # t
        BY <3>1, <3>2, <3>5, <4>1 DEF NotRemovedInv
      <4>2. CASE u = t
        <5>1. states'[u] = Append(states[t], b)
          BY <3>1, <3>2, <4>2
        <5>2. CASE i = Len(states[t]) + 1
          BY <3>2, <3>4, <5>1, <5>2
        <5>3. CASE i \in DOMAIN states[t]
          BY <3>2, <5>1, <5>3 DEF NotRemovedInv
        <5> QED
          BY <3>2, <5>1, <5>2, <5>3
      <4> QED
        BY <4>1, <4>2
    <3> QED
      BY <3>5 DEF NotRemovedInv
  <2>2. UNCHANGED states => NotRemovedInv'
    BY DEF NotRemovedInv
  <2>3. Commit \/ Silent \/ UNCHANGED vars => UNCHANGED states
    BY SilentLeaves DEF Commit, journalVars, vars
  <2>4. \A i \in Slots : OrphanCommits(i) => UNCHANGED states
    BY DEF OrphanCommits, journalVars
  <2> QED
    BY <2>1, <2>2, <2>3, <2>4, NextCases
<1> QED
  BY <1>1, <1>2, IInvHolds, PTL DEF Spec

\* Until an event of it is applied twice, an aggregate is at least as far as its row.
LEMMA RowInStates ==
  ASSUME IInv, ContentInv, NEW t \in Threads, Once(t)
  PROVE  tables.row[t].sequenceNr + 1 \in DOMAIN states[t]
<1>1. Number(t) < Len(states[t])
  BY DEF ContentInv, Counted
<1>2. tables.row[t].sequenceNr \in Nat /\ states[t] \in Seq(Behaviour)
  BY RowType DEF IInv, JournalInv, TablesInv
<1> QED
  BY <1>1, <1>2 DEF Number

(***************************************************************************)
(* The queries show an undisturbed thread, while it is not destroyed, to   *)
(* the accounts its aggregate would answer and to nobody else.  Of its     *)
(* messages they show those the aggregate would give, and besides them     *)
(* every one that was removed.                                             *)
(***************************************************************************)
THEOREM QueriesAgreeWithAggregate == Spec => []ReadersAgree
<1>1. IInv /\ ContentInv /\ NotRemovedInv /\ ShowsTheAggregate => ReadersAgree
  <2> DEFINE B(t) == states[t][tables.row[t].sequenceNr + 1]
             Shown(a, t) == {x[2] : x \in GetMessagesByThreadId(a, t)}
  <2> SUFFICES ASSUME IInv, ContentInv, NotRemovedInv, ShowsTheAggregate,
                      NEW t \in Threads, NEW a \in Account, HasRow(tables, t),
                      Undisturbed(t), Reported(t, tables.row[t].sequenceNr),
                      B(t).phase = "created"
               PROVE  AnswersAgree(t, a, B(t).thread)
    BY DEF ReadersAgree
  <2> DEFINE h == B(t).thread
  <2>1. /\ tables.administratorIds[t] = h.administratorIds
        /\ tables.memberIds[t] = h.memberIds
        /\ {m \in tables.messages[t] : m.id \notin tables.deleted} = h.messages
    BY DEF ShowsTheAggregate
  <2>2. h.removedAt = NotRemoved
    BY RowInStates DEF NotRemovedInv, Undisturbed, Once
  <2> HIDE DEF h
  <2>3. MayRead(h, a, Now) <=> Sees(a, t)
    BY <2>1, <2>2, SeesItsAccounts DEF MayRead, IsRemoved, IsMemberId
  <2>4. GetThreadById(a, t) # {} <=> Sees(a, t)
    BY DEF GetThreadById, Sees
  <2>5. (\E x \in GetThreadsByAccountId(a) : x[1] = t) <=> Sees(a, t)
    <3>1. ASSUME NEW x \in GetThreadsByAccountId(a), x[1] = t PROVE Sees(a, t)
      <4>1. PICK u \in Threads : x \in {u} \X JoinedFor(a, u)
        BY <3>1 DEF GetThreadsByAccountId
      <4>2. x[1] = u /\ x[2] \in JoinedFor(a, u)
        BY <4>1
      <4> QED
        BY <3>1, <4>2 DEF Sees
    <3>2. ASSUME NEW r \in JoinedFor(a, t) PROVE <<t, r>> \in GetThreadsByAccountId(a)
      BY <3>2 DEF GetThreadsByAccountId
    <3>3. \A r : <<t, r>>[1] = t
      OBVIOUS
    <3> QED
      BY <3>1, <3>2, <3>3 DEF Sees
  <2>6. GetAdministratorsByThreadId(a, t) # {} <=> IsAdministratorId(h, a)
    BY <2>1 DEF GetAdministratorsByThreadId, IsAdministratorId
  <2>7. GetMembersByThreadId(a, t) # {} <=> a \in h.memberIds
    BY <2>1 DEF GetMembersByThreadId
  <2>8. Shown(a, t) = IF Sees(a, t) THEN tables.messages[t] ELSE {}
    <3>1. ASSUME NEW r \in JoinedFor(a, t), NEW m \in tables.messages[t] PROVE m \in Shown(a, t)
      <4>1. <<r, m>> \in GetMessagesByThreadId(a, t) /\ <<r, m>>[2] = m
        BY <3>1 DEF GetMessagesByThreadId
      <4> QED
        BY <4>1
    <3>2. \A x \in GetMessagesByThreadId(a, t) : x[2] \in tables.messages[t] /\ Sees(a, t)
      BY DEF GetMessagesByThreadId, Sees
    <3> QED
      BY <3>1, <3>2 DEF Sees
  <2>9. GetMessages(h, a, Now).value = IF MayRead(h, a, Now) THEN h.messages ELSE {}
    BY DEF GetMessages, EitherValue
  <2>10. /\ Shown(a, t) \ Removed(t) = GetMessages(h, a, Now).value
         /\ Shown(a, t) \cap Removed(t) = IF MayRead(h, a, Now) THEN Removed(t) ELSE {}
    <3> HIDE DEF Shown
    <3>1. CASE Sees(a, t)
      <4>1. Shown(a, t) = tables.messages[t]
        BY <2>8, <3>1
      <4>2. Shown(a, t) \ Removed(t) = h.messages /\ Removed(t) \subseteq Shown(a, t)
        BY <2>1, <4>1 DEF Removed
      <4> QED
        BY <2>3, <2>9, <3>1, <4>2
    <3>2. CASE ~Sees(a, t)
      BY <2>3, <2>8, <2>9, <3>2
    <3> QED
      BY <3>1, <3>2
  <2>11. /\ GetThreadById(a, t) # {} <=> MayRead(h, a, Now)
         /\ (\E x \in GetThreadsByAccountId(a) : x[1] = t) <=> MayRead(h, a, Now)
    BY <2>3, <2>4, <2>5
  <2> QED
    BY <2>6, <2>7, <2>10, <2>11 DEF h, AnswersAgree
<1> QED
  BY <1>1, IInvHolds, ContentHolds, NotRemovedHolds, RowsShowTheAggregate, PTL

=============================================================================
