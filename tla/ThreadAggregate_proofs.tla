------------------------ MODULE ThreadAggregate_proofs ------------------------
(***************************************************************************)
(* Facts about the pure operators of Thread, ThreadProtocol and            *)
(* ThreadAggregate, for every set of accounts, message ids and every limit.*)
(***************************************************************************)
EXTENDS ThreadAggregate, FiniteSetTheorems, TLAPS

(***************************************************************************)
(* Every command handler of onCreated yields a thread, the old one when it *)
(* refuses, and a definite verdict.                                        *)
(***************************************************************************)
LEMMA HandleType ==
  ASSUME NEW t \in ThreadState, NEW c \in Request, IsCommand(c)
  PROVE  /\ Handle(t, c).right \in BOOLEAN
         /\ Handle(t, c).thread \in ThreadState
<1> USE DEF ThreadState, Either
<1>0. /\ c.senderId \in Account /\ c.administratorIds \in SUBSET Account
      /\ c.memberIds \in SUBSET Account /\ MessagesOf(c) \in SUBSET Message
  BY DEF Request, MessagesOf, Message
<1>1. CASE c.op = "CreateThread"
  BY <1>1 DEF Handle, CommandCreate
<1>2. CASE c.op = "DestroyThread"
  <2>1. Handle(t, c) = Destroy(t, c.senderId, 0, 0)
    BY <1>2 DEF Handle, CommandDestroy, Now
  <2>2. [t EXCEPT !.removedAt = 0] \in ThreadState
    OBVIOUS
  <2>3. MayAdminister(t, c.senderId, 0) \in BOOLEAN
    BY DEF MayAdminister, IsAdministratorId, IsRemoved
  <2> QED
    BY <2>1, <2>2, <2>3 DEF Destroy
<1>3. CASE c.op = "JoinAdministratorIds"
  BY <1>0, <1>3 DEF Handle, CommandJoinAdministratorIds, JoinAdministratorIds, MayAdminister, IsAdministratorId, IsRemoved
<1>4. CASE c.op = "LeaveAdministratorIds"
  BY <1>0, <1>4 DEF Handle, CommandLeaveAdministratorIds, LeaveAdministratorIds, MayAdminister, IsAdministratorId, IsRemoved
<1>5. CASE c.op = "JoinMemberIds"
  BY <1>0, <1>5 DEF Handle, CommandJoinMemberIds, JoinMemberIds, MayAdminister, IsAdministratorId, IsRemoved
<1>6. CASE c.op = "LeaveMemberIds"
  BY <1>0, <1>6 DEF Handle, CommandLeaveMemberIds, JoinMemberIds, MayAdminister, IsAdministratorId, IsRemoved
<1>7. CASE c.op = "AddMessages"
  BY <1>0, <1>7 DEF Handle, CommandAddMessages, AddMessages
<1>8. CASE c.op = "RemoveMessages"
  BY <1>0, <1>8 DEF Handle, CommandRemoveMessages, RemoveMessages, MayRead, IsMemberId, IsRemoved
<1> QED
  BY <1>1, <1>2, <1>3, <1>4, <1>5, <1>6, <1>7, <1>8 DEF IsCommand, CommandOp

\* The child's behaviour stays one of its three, whatever command it gets.
LEMMA AfterType ==
  ASSUME NEW b \in Behaviour, NEW c \in Request, IsCommand(c)
  PROVE  /\ After(b, c) \in Behaviour
         /\ Accepts(b, c) \in BOOLEAN
<1>0. Accepts(b, c) \in BOOLEAN
  BY DEF Accepts
<1>1. CASE ~Accepts(b, c)
  <2>1. After(b, c) = b
    BY <1>1 DEF After
  <2> QED
    BY <1>0, <2>1
<1>2. CASE Accepts(b, c) /\ c.op = "CreateThread"
  BY <1>0, <1>2 DEF After, OnCreated, NewThread, Behaviour, ThreadState, Request, NotRemoved
<1>3. CASE Accepts(b, c) /\ c.op = "DestroyThread"
  BY <1>0, <1>3 DEF After, OnDestroyed, NoThread, NewThread, Behaviour, ThreadState, NotRemoved
<1>4. CASE Accepts(b, c) /\ c.op \notin {"CreateThread", "DestroyThread"}
  <2>1. b.thread \in ThreadState
    BY DEF Behaviour
  <2>2. Handle(b.thread, c).thread \in ThreadState
    BY <2>1, HandleType
  <2>3. After(b, c) = OnCreated(Handle(b.thread, c).thread)
    BY <1>4 DEF After
  <2> QED
    BY <1>0, <2>2, <2>3, <1>4 DEF OnCreated, Behaviour
<1> QED
  BY <1>1, <1>2, <1>3, <1>4

\* A query is answered with a verdict and a set of accounts or of messages.
LEMMA AnswerType ==
  ASSUME NEW b \in Behaviour, NEW c \in Request, ~IsCommand(c)
  PROVE  /\ Answer(b, c).right \in BOOLEAN
         /\ Answer(b, c).value \in (SUBSET Account) \cup (SUBSET Message)
<1> USE DEF Behaviour, ThreadState, EitherValue
<1>1. CASE c.op = "ExistsThread"
  BY <1>1 DEF Answer
<1>2. CASE c.op = "GetAdministratorIds"
  BY <1>2 DEF Answer, GetAdministratorIds, MayRead, IsRemoved, IsMemberId
<1>3. CASE c.op = "GetMemberIds"
  BY <1>3 DEF Answer, GetMemberIds, MayRead, IsRemoved, IsMemberId
<1>4. CASE c.op = "GetMessages"
  BY <1>4 DEF Answer, GetMessages, MayRead, IsRemoved, IsMemberId
<1> QED
  BY <1>1, <1>2, <1>3, <1>4 DEF IsCommand, Request, QueryOp

\* Every command has an event, and every event a command.
LEMMA ConversionType ==
  /\ \A c \in Request, i \in Nat : IsCommand(c) => ToEvent(c, i) \in Event
  /\ \A e \in Event : ToCommandRequest(e) \in Request /\ IsCommand(ToCommandRequest(e))
<1>1. ASSUME NEW c \in Request, NEW i \in Nat, IsCommand(c)
      PROVE  ToEvent(c, i) \in Event
  BY <1>1 DEF IsCommand, CommandOp, ToEvent, Event, EventTypeOf, RequestOpOf, Request
<1>2. ASSUME NEW e \in Event
      PROVE  ToCommandRequest(e) \in Request /\ IsCommand(ToCommandRequest(e))
  BY <1>2 DEF IsCommand, CommandOp, ToCommandRequest, Event, RequestOpOf, Request
<1> QED
  BY <1>1, <1>2

(***************************************************************************)
(* What recovery replays is the command that was decided: toCommandRequest *)
(* undoes toEvent.                                                         *)
(***************************************************************************)
LEMMA ReplayIsTheCommand ==
  ASSUME NEW c \in Request, IsCommand(c), NEW i \in Nat
  PROVE  ToCommandRequest(ToEvent(c, i)) = c
<1>1. RequestOpOf[EventTypeOf[c.op]] = c.op
  BY DEF IsCommand, CommandOp, EventTypeOf, RequestOpOf
<1> QED
  BY <1>1 DEF ToCommandRequest, ToEvent, Request

-----------------------------------------------------------------------------
(* What the domain model promises about every thread a journal can stand   *)
(* for: it has an administrator and respects the limit of messages.        *)

\* The promise, and that the messages can be counted.
Sound(b) ==
  /\ b.phase = "created" => b.thread.administratorIds # {}
  /\ IsFiniteSet(b.thread.messages)
  /\ Cardinality(b.thread.messages) <= MessagesLimit

\* A batch is as large as the set of its message ids, all from one sender.
LEMMA BatchIsFinite ==
  ASSUME NEW c, IsFiniteSet(c.messageIds)
  PROVE  IsFiniteSet(MessagesOf(c))
<1> DEFINE f == [m \in MessagesOf(c) |-> m.id]
<1>1. f \in Injection(MessagesOf(c), c.messageIds)
  <2>1. f \in [MessagesOf(c) -> c.messageIds]
    BY DEF MessagesOf
  <2>2. ASSUME NEW m \in MessagesOf(c), NEW n \in MessagesOf(c), f[m] = f[n]
        PROVE  m = n
    BY <2>2 DEF MessagesOf
  <2> QED
    BY <2>1, <2>2 DEF Injection, IsInjective
<1> QED
  BY <1>1, FS_Injection

\* Every command handler of onCreated keeps the promise.
LEMMA HandleSound ==
  ASSUME NEW t \in ThreadState, NEW c \in Request, IsCommand(c), IsFiniteSet(c.messageIds),
         t.administratorIds # {}, IsFiniteSet(t.messages), Cardinality(t.messages) <= MessagesLimit
  PROVE  LET u == Handle(t, c).thread
         IN  /\ u.administratorIds # {} \/ c.op = "DestroyThread"
             /\ IsFiniteSet(u.messages) /\ Cardinality(u.messages) <= MessagesLimit
<1> DEFINE u == Handle(t, c).thread
<1> USE DEF ThreadState, Either
<1>1. CASE c.op = "CreateThread"
  BY <1>1 DEF Handle, CommandCreate
<1>2. CASE c.op = "DestroyThread"
  <2>1. u.messages = t.messages
    BY <1>2 DEF Handle, CommandDestroy, Destroy
  <2> QED
    BY <1>2, <2>1
<1>3. CASE c.op = "JoinAdministratorIds"
  BY <1>3 DEF Handle, CommandJoinAdministratorIds, JoinAdministratorIds
<1>4. CASE c.op = "LeaveAdministratorIds"
  BY <1>4 DEF Handle, CommandLeaveAdministratorIds, LeaveAdministratorIds
<1>5. CASE c.op = "JoinMemberIds"
  BY <1>5 DEF Handle, CommandJoinMemberIds, JoinMemberIds
<1>6. CASE c.op = "LeaveMemberIds"
  BY <1>6 DEF Handle, CommandLeaveMemberIds, JoinMemberIds
<1>7. CASE c.op = "AddMessages"
  <2> DEFINE ms == MessagesOf(c)
  <2>1. IsFiniteSet(ms)
    BY BatchIsFinite
  <2>2. /\ IsFiniteSet(t.messages \cup ms)
        /\ Cardinality(t.messages \cup ms) =
             Cardinality(t.messages) + Cardinality(ms) - Cardinality(t.messages \cap ms)
    BY <2>1, FS_Union
  <2>3. /\ Cardinality(t.messages) \in Nat /\ Cardinality(ms) \in Nat
        /\ Cardinality(t.messages \cap ms) \in Nat
    BY <2>1, FS_CardinalityType, FS_Subset, t.messages \cap ms \in SUBSET t.messages
  <2>4. CASE ~Handle(t, c).right
    BY <1>7, <2>4 DEF Handle, CommandAddMessages, AddMessages
  <2>5. CASE Handle(t, c).right
    <3>1. /\ u.administratorIds = t.administratorIds /\ u.messages = t.messages \cup ms
          /\ Cardinality(t.messages) + Cardinality(ms) <= MessagesLimit
      BY <1>7, <2>5 DEF Handle, CommandAddMessages, AddMessages
    <3>2. Cardinality(t.messages \cup ms) <= MessagesLimit
      BY <2>2, <2>3, <3>1, MessagesLimitAssumption
    <3> QED
      BY <2>2, <3>1, <3>2
  <2> QED
    BY <2>4, <2>5
<1>8. CASE c.op = "RemoveMessages"
  <2>1. u.administratorIds = t.administratorIds /\ u.messages \in SUBSET t.messages
    BY <1>8 DEF Handle, CommandRemoveMessages, RemoveMessages
  <2>2. IsFiniteSet(u.messages) /\ Cardinality(u.messages) <= Cardinality(t.messages)
    BY <2>1, FS_Subset
  <2>3. Cardinality(u.messages) \in Nat /\ Cardinality(t.messages) \in Nat
    BY <2>2, FS_CardinalityType
  <2> QED
    BY <2>1, <2>2, <2>3, MessagesLimitAssumption
<1> QED
  BY <1>1, <1>2, <1>3, <1>4, <1>5, <1>6, <1>7, <1>8 DEF IsCommand, CommandOp

\* So does every step of the child.
LEMMA AfterSound ==
  ASSUME NEW b \in Behaviour, Sound(b), NEW c \in Request, IsCommand(c),
         IsFiniteSet(c.messageIds), c.op = "CreateThread" => c.administratorIds # {}
  PROVE  Sound(After(b, c))
<1>1. CASE ~Accepts(b, c)
  BY <1>1 DEF After
<1>2. CASE Accepts(b, c) /\ c.op = "CreateThread"
  BY <1>2, FS_EmptySet, MessagesLimitAssumption DEF After, OnCreated, NewThread, Sound
<1>3. CASE Accepts(b, c) /\ c.op = "DestroyThread"
  BY <1>3, FS_EmptySet, MessagesLimitAssumption DEF After, OnDestroyed, NoThread, NewThread, Sound
<1>4. CASE Accepts(b, c) /\ c.op \notin {"CreateThread", "DestroyThread"}
  <2>1. b.thread \in ThreadState /\ b.phase = "created"
    BY <1>4 DEF Behaviour, Accepts
  <2>2. After(b, c) = OnCreated(Handle(b.thread, c).thread)
    BY <1>4 DEF After
  <2> QED
    BY <1>4, <2>1, <2>2, HandleSound DEF OnCreated, Sound
<1> QED
  BY <1>1, <1>2, <1>3, <1>4

=============================================================================
