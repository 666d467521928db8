--------------------------- MODULE ReadModelTables ---------------------------
(***************************************************************************)
(* The SQL tables of the read model (V1__Create_Tables.sql) and the        *)
(* transaction ThreadReadModelUpdater makes of each event.                 *)
(*                                                                         *)
(* A table keyed by the thread is a function of the thread; the unique key *)
(* (thread_id, account_id) of administrators and members makes each a set  *)
(* of accounts.  Only the columns the code reads back are kept: titles,    *)
(* texts, adders, generated row ids and stamps are left out, and so is     *)
(* parent_id, since the use case creates every thread without a parent.    *)
(***************************************************************************)
EXTENDS ThreadProtocol

CONSTANT Threads     \* the ThreadIds that carry the tag

\* What eventsByTag emits (EventEnvelope): sequenceNr counts the thread's events.
Envelope == [thread : Threads, sequenceNr : Nat \ {0}, event : Event]

\* There is no row of the thread; a row has a positive sequence_nr.
NoRow == [sequenceNr |-> 0, removed |-> FALSE]

Tables ==
  [row : [Threads -> [sequenceNr : Nat, removed : BOOLEAN]],
   administratorIds : [Threads -> SUBSET Account],
   memberIds : [Threads -> SUBSET Account],
   messages : [Threads -> SUBSET Message],
   deleted : SUBSET MessageId]     \* ids of the message rows marked deleted

EmptyTables ==
  [row |-> [t \in Threads |-> NoRow],
   administratorIds |-> [t \in Threads |-> {}],
   memberIds |-> [t \in Threads |-> {}],
   messages |-> [t \in Threads |-> {}],
   deleted |-> {}]

HasRow(T, t) == T.row[t] # NoRow

\* The primary keys of thread_message, over all threads.
StoredMessageIds(T) == UNION {{m.id : m \in T.messages[t]} : t \in Threads}

-----------------------------------------------------------------------------
(* The SQL actions.  An UPDATE of a row that is not there changes nothing. *)

\* Bugs the runs must notice: a row's number left as it was when the thread is
\* destroyed; members deleted for administrators.
MutUpdateThreadToRemove(T, t, sequenceNr) ==
  IF HasRow(T, t) THEN [T EXCEPT !.row[t].removed = TRUE] ELSE T
MutDeleteAdministratorIds(T, t, ids) == [T EXCEPT !.memberIds[t] = @ \ ids]

InsertThread(T, t, sequenceNr) ==
  [T EXCEPT !.row[t] = [sequenceNr |-> sequenceNr, removed |-> FALSE]]

UpdateThreadToRemove(T, t, sequenceNr) ==
  IF HasRow(T, t)
  THEN [T EXCEPT !.row[t] = [sequenceNr |-> sequenceNr, removed |-> TRUE]]
  ELSE T

UpdateSequenceNrInThread(T, t, sequenceNr) ==
  IF HasRow(T, t) THEN [T EXCEPT !.row[t].sequenceNr = sequenceNr] ELSE T

InsertAdministratorIds(T, t, ids) == [T EXCEPT !.administratorIds[t] = @ \cup ids]
DeleteAdministratorIds(T, t, ids) == [T EXCEPT !.administratorIds[t] = @ \ ids]
InsertMemberIds(T, t, ids) == [T EXCEPT !.memberIds[t] = @ \cup ids]
DeleteMemberIds(T, t, ids) == [T EXCEPT !.memberIds[t] = @ \ ids]
InsertMessages(T, t, messages) == [T EXCEPT !.messages[t] = @ \cup messages]

\* Filtered by the message ids only: the thread of the event plays no part.
DeleteMessages(T, ids) == [T EXCEPT !.deleted = @ \cup (ids \cap StoredMessageIds(T))]

-----------------------------------------------------------------------------

(***************************************************************************)
(* The transaction of the event in envelope ee meets every key: primary    *)
(* keys, unique keys, and the foreign keys to the thread.                  *)
(***************************************************************************)
MeetsKeys(T, ee) ==
  LET t == ee.thread
      e == ee.event
      Insertable(ids, stored) == (ids # {} => HasRow(T, t)) /\ ids \cap stored = {}
  IN  CASE e.type = "ThreadCreated" -> ~HasRow(T, t)
        [] e.type = "AdministratorIdsJoined" -> Insertable(e.administratorIds, T.administratorIds[t])
        [] e.type = "MemberIdsAdded" -> Insertable(e.memberIds, T.memberIds[t])
        [] e.type = "MessagesAdded" -> Insertable(e.messageIds, StoredMessageIds(T))
        [] OTHER -> TRUE

\* The tables after that transaction.
Committed(T, ee) ==
  LET t == ee.thread
      e == ee.event
      n == ee.sequenceNr
      U == UpdateSequenceNrInThread(T, t, n)
  IN  CASE e.type = "ThreadCreated" ->
             InsertMemberIds(InsertAdministratorIds(InsertThread(T, t, n), t, e.administratorIds),
                             t, e.memberIds)
        [] e.type = "ThreadDestroyed" -> UpdateThreadToRemove(T, t, n)
        [] e.type = "AdministratorIdsJoined" -> InsertAdministratorIds(U, t, e.administratorIds)
        [] e.type = "AdministratorIdsLeft" -> DeleteAdministratorIds(U, t, e.administratorIds)
        [] e.type = "MemberIdsAdded" -> InsertMemberIds(U, t, e.memberIds)
        [] e.type = "MemberIdsLeft" -> DeleteMemberIds(U, t, e.memberIds)
        [] e.type = "MessagesAdded" -> InsertMessages(U, t, MessagesOf(ToCommandRequest(e)))
        [] e.type = "MessagesRemoved" -> DeleteMessages(U, e.messageIds)

\* select max(sequence_nr) over the rows of the tag, 0 when there is none.
LastSequenceNr(T) ==
  LET numbers == {0} \cup {T.row[t].sequenceNr : t \in Threads}
  IN  CHOOSE n \in numbers : \A m \in numbers : m <= n

=============================================================================
