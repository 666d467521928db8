--------------------------- MODULE ThreadAggregate ---------------------------
(***************************************************************************)
(* The child actor ThreadAggregate (aggregates/untyped): its three         *)
(* behaviours, which requests each of them has a case for, what it         *)
(* answers, and the behaviour it becomes.  A request without a case is     *)
(* unhandled: the actor says nothing and stays as it is.                   *)
(*                                                                         *)
(* The module has no variable: PersistentThreadAggregate keeps the child's *)
(* behaviour and its mailbox.                                              *)
(***************************************************************************)
EXTENDS ThreadProtocol

NoThread == NewThread({}, {})

Behaviour == [phase : {"initial", "created", "destroyed"}, thread : ThreadState]

Initial == [phase |-> "initial", thread |-> NoThread]     \* receive
OnCreated(t) == [phase |-> "created", thread |-> t]
OnDestroyed == [phase |-> "destroyed", thread |-> NoThread]

(***************************************************************************)
(* The thread of OnCreated never has a removedAt: destroy computes one and *)
(* drops it with the thread.  So isRemoved is false whatever the clock.    *)
(***************************************************************************)
Now == 0

-----------------------------------------------------------------------------
(* The Either computed by the command handlers of onCreated.               *)

CommandJoinAdministratorIds(t, c) == JoinAdministratorIds(t, c.administratorIds, c.senderId, Now)
CommandLeaveAdministratorIds(t, c) == LeaveAdministratorIds(t, c.administratorIds, c.senderId, Now)
CommandJoinMemberIds(t, c) == JoinMemberIds(t, c.memberIds, c.senderId, Now)

\* The handler of LeaveMemberIds calls joinMemberIds.
CommandLeaveMemberIds(t, c) == JoinMemberIds(t, c.memberIds, c.senderId, Now)

CommandAddMessages(t, c) == AddMessages(t, MessagesOf(c), Now)
CommandRemoveMessages(t, c) == RemoveMessages(t, c.messageIds, c.senderId, Now)
CommandDestroy(t, c) == Destroy(t, c.senderId, Now, Now)

\* create: a second CreateThread is answered "Already created".
CommandCreate(t) == Either(FALSE, t, t)

Handle(t, c) ==
  CASE c.op = "CreateThread"          -> CommandCreate(t)
    [] c.op = "DestroyThread"         -> CommandDestroy(t, c)
    [] c.op = "JoinAdministratorIds"  -> CommandJoinAdministratorIds(t, c)
    [] c.op = "LeaveAdministratorIds" -> CommandLeaveAdministratorIds(t, c)
    [] c.op = "JoinMemberIds"         -> CommandJoinMemberIds(t, c)
    [] c.op = "LeaveMemberIds"        -> CommandLeaveMemberIds(t, c)
    [] c.op = "AddMessages"           -> CommandAddMessages(t, c)
    [] c.op = "RemoveMessages"        -> CommandRemoveMessages(t, c)

-----------------------------------------------------------------------------

\* The requests each behaviour has a case for.
Handled ==
  [initial   |-> {"CreateThread", "DestroyThread", "ExistsThread"},
   created   |-> CommandOp \cup QueryOp,
   destroyed |-> {"ExistsThread"}]

Answers(b, c) == c.op \in Handled[b.phase]

\* The command c succeeds in behaviour b.
Accepts(b, c) ==
  \/ b.phase = "initial" /\ c.op = "CreateThread"
  \/ b.phase = "created" /\ Handle(b.thread, c).right

\* context.become: the behaviour after the command c.
After(b, c) ==
  IF ~Accepts(b, c) THEN b
  ELSE CASE c.op = "CreateThread"  -> OnCreated(NewThread(c.administratorIds, c.memberIds))
         [] c.op = "DestroyThread" -> OnDestroyed
         [] OTHER                  -> OnCreated(Handle(b.thread, c).thread)

\* The answer to the query c, which b has a case for.  ExistsThread always
\* succeeds: right is its exists flag.
Answer(b, c) ==
  CASE c.op = "ExistsThread"        -> EitherValue(b.phase = "created", {})
    [] c.op = "GetAdministratorIds" -> GetAdministratorIds(b.thread, c.senderId, Now)
    [] c.op = "GetMemberIds"        -> GetMemberIds(b.thread, c.senderId, Now)
    [] c.op = "GetMessages"         -> GetMessages(b.thread, c.senderId, Now)

=============================================================================
