--------------------- MODULE MCPersistentThreadAggregate ---------------------
(***************************************************************************)
(* Instances of PersistentThreadAggregate for TLC.  An administrator, a    *)
(* member and a stranger; three message ids and a limit of two messages,   *)
(* so that a batch can meet the limit, pass it and be refused.             *)
(***************************************************************************)
EXTENDS PersistentThreadAggregate

CONSTANTS alice, bob, carol, m1, m2, m3

MCAccount == {alice, bob, carol}
MCMessageId == {m1, m2, m3}

Cmd(op, senderId) ==
  [op |-> op, senderId |-> senderId, administratorIds |-> {}, memberIds |-> {}, messageIds |-> {}]

Create == [Cmd("CreateThread", alice) EXCEPT !.administratorIds = {alice}, !.memberIds = {bob}]
Admins(op, s, ids) == [Cmd(op, s) EXCEPT !.administratorIds = ids]
Members(op, s, ids) == [Cmd(op, s) EXCEPT !.memberIds = ids]
Msgs(op, s, ids) == [Cmd(op, s) EXCEPT !.messageIds = ids]

\* Commands a thread accepts or refuses, some both depending on the order.
MCClients ==
  {Create,
   Cmd("DestroyThread", alice),
   Admins("JoinAdministratorIds", alice, {bob}),
   Admins("JoinAdministratorIds", bob, {bob}),
   Admins("LeaveAdministratorIds", alice, {alice}),
   Members("LeaveMemberIds", alice, {bob}),
   Members("JoinMemberIds", alice, {carol}),
   Msgs("AddMessages", bob, {m1}),
   Msgs("AddMessages", alice, {m2, m3}),
   Msgs("RemoveMessages", bob, {m1, m2}),
   Cmd("GetMessages", bob),
   Cmd("GetAdministratorIds", carol),
   Cmd("GetMemberIds", alice),
   Cmd("ExistsThread", carol)}

\* A handful of them, for the runs that need longer or fair behaviours.
MCFewClients ==
  {Create,
   Cmd("DestroyThread", alice),
   Admins("JoinAdministratorIds", bob, {bob}),
   Msgs("AddMessages", bob, {m1}),
   Cmd("GetMessages", bob)}

\* Constraint: the thread is created first, so that the bound is spent on its life.
CreatedFirst == requests # <<>> => requests[1] = Create

=============================================================================
