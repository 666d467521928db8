------------------------------- MODULE Thread -------------------------------
(***************************************************************************)
(* The domain object ThreadImpl (domain/model/threads/Thread.scala): who   *)
(* may do what to a thread, and what each operation leaves behind.         *)
(*                                                                         *)
(* Every operation of the class returns an Either: Left(exception), or     *)
(* Right of the copied thread or of the value asked for.  Here it returns  *)
(* a record whose field right tells the two apart.                         *)
(*                                                                         *)
(* Administrators, members and messages are collections of identifiers     *)
(* whose order and multiplicity no operation of the class looks at         *)
(* (contains, filterNot, forall), so they are sets.  Message identifiers   *)
(* are generated fresh by the use case (MessageId()), so Messages.size is  *)
(* the cardinality of the set.  Title, remarks, creator, texts and the     *)
(* createdAt and updatedAt stamps influence no operation and are left out. *)
(***************************************************************************)
EXTENDS Integers, FiniteSets

CONSTANTS
  Account,        \* AccountIds
  MessageId,      \* MessageIds
  MessagesLimit   \* Thread.MessagesLimit, 5000 in the code

ASSUME MessagesLimitAssumption == MessagesLimit \in Nat

Message == [id : MessageId, senderId : Account]

\* removedAt = None
NotRemoved == -1

ThreadState ==
  [administratorIds : SUBSET Account, memberIds : SUBSET Account,
   messages : SUBSET Message, removedAt : Int]

NewThread(administratorIds, memberIds) ==
  [administratorIds |-> administratorIds, memberIds |-> memberIds,
   messages |-> {}, removedAt |-> NotRemoved]

\* Left(...) unless the guard holds, else Right(new).
Either(guard, t, new) == [right |-> guard, thread |-> IF guard THEN new ELSE t]
EitherValue(guard, value) == [right |-> guard, value |-> IF guard THEN value ELSE {}]

-----------------------------------------------------------------------------

\* Instant.now.isAfter(removedAt): the reader's clock decides.
IsRemoved(t, now) == t.removedAt # NotRemoved /\ now > t.removedAt

IsAdministratorId(t, a) == a \in t.administratorIds

IsMemberId(t, a) == a \in t.memberIds \/ a \in t.administratorIds

MayAdminister(t, a, now) == ~IsRemoved(t, now) /\ IsAdministratorId(t, a)
MayRead(t, a, now) == ~IsRemoved(t, now) /\ IsMemberId(t, a)

JoinAdministratorIds(t, value, senderId, now) ==
  Either(MayAdminister(t, senderId, now), t, [t EXCEPT !.administratorIds = @ \cup value])

\* A bug the run must notice: the emptiness check of filterNot left out.
MutLeaveAdministratorIds(t, value, senderId, now) ==
  Either(MayAdminister(t, senderId, now), t, [t EXCEPT !.administratorIds = @ \ value])

\* AdministratorIds.filterNot is itself a Left when nobody would remain.
LeaveAdministratorIds(t, value, senderId, now) ==
  Either(/\ MayAdminister(t, senderId, now)
         /\ t.administratorIds \ value # {},
         t, [t EXCEPT !.administratorIds = @ \ value])

GetAdministratorIds(t, senderId, now) ==
  EitherValue(MayRead(t, senderId, now), t.administratorIds)

JoinMemberIds(t, value, senderId, now) ==
  Either(MayAdminister(t, senderId, now), t, [t EXCEPT !.memberIds = @ \cup value])

LeaveMemberIds(t, value, senderId, now) ==
  Either(MayAdminister(t, senderId, now), t, [t EXCEPT !.memberIds = @ \ value])

GetMemberIds(t, senderId, now) == EitherValue(MayRead(t, senderId, now), t.memberIds)

\* A bug the run must notice: the limit compared before the batch is counted.
MutAddMessages(t, values, now) ==
  Either(/\ ~IsRemoved(t, now)
         /\ \A m \in values : IsMemberId(t, m.senderId)
         /\ Cardinality(t.messages) < MessagesLimit,
         t, [t EXCEPT !.messages = @ \cup values])

AddMessages(t, values, now) ==
  Either(/\ ~IsRemoved(t, now)
         /\ \A m \in values : IsMemberId(t, m.senderId)
         /\ Cardinality(t.messages) + Cardinality(values) <= MessagesLimit,
         t, [t EXCEPT !.messages = @ \cup values])

\* Identifiers that match no message are ignored.
RemoveMessages(t, values, removerId, now) ==
  LET matched == {m \in t.messages : m.id \in values}
  IN  Either(/\ MayRead(t, removerId, now)
             /\ \A m \in matched : m.senderId = removerId,
             t, [t EXCEPT !.messages = @ \ matched])

GetMessages(t, senderId, now) == EitherValue(MayRead(t, senderId, now), t.messages)

Destroy(t, senderId, at, now) ==
  Either(MayAdminister(t, senderId, now), t, [t EXCEPT !.removedAt = at])

=============================================================================
