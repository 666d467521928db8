--------------------------- MODULE ThreadProtocol ---------------------------
(***************************************************************************)
(* The messages of the untyped aggregate (ThreadProtocol.scala): command   *)
(* requests, the events a request converts to, the requests an event       *)
(* converts back to during recovery, and how a response is classified.     *)
(*                                                                         *)
(* All requests share one record shape; a field the case class lacks is    *)
(* the empty set.  The id of an event stands for the ULID toEvent draws:   *)
(* one event is made per request, so the request's number identifies it.   *)
(* The threadId is left out: one thread is modelled.  So is the createAt   *)
(* stamp, which the untyped aggregate only copies.                         *)
(***************************************************************************)
EXTENDS Thread

\* case classes that extend CommandRequest with ToEvent
CommandOp ==
  {"CreateThread", "DestroyThread", "JoinAdministratorIds", "LeaveAdministratorIds",
   "JoinMemberIds", "LeaveMemberIds", "AddMessages", "RemoveMessages"}

\* case classes that extend CommandRequest only
QueryOp == {"ExistsThread", "GetAdministratorIds", "GetMemberIds", "GetMessages"}

Request ==
  [op : CommandOp \cup QueryOp, senderId : Account, administratorIds : SUBSET Account,
   memberIds : SUBSET Account, messageIds : SUBSET MessageId]

IsCommand(c) == c.op \in CommandOp

EventTypeOf ==
  [CreateThread |-> "ThreadCreated", DestroyThread |-> "ThreadDestroyed",
   JoinAdministratorIds |-> "AdministratorIdsJoined",
   LeaveAdministratorIds |-> "AdministratorIdsLeft",
   JoinMemberIds |-> "MemberIdsAdded", LeaveMemberIds |-> "MemberIdsLeft",
   AddMessages |-> "MessagesAdded", RemoveMessages |-> "MessagesRemoved"]

RequestOpOf ==
  [ThreadCreated |-> "CreateThread", ThreadDestroyed |-> "DestroyThread",
   AdministratorIdsJoined |-> "JoinAdministratorIds",
   AdministratorIdsLeft |-> "LeaveAdministratorIds",
   MemberIdsAdded |-> "JoinMemberIds", MemberIdsLeft |-> "LeaveMemberIds",
   MessagesAdded |-> "AddMessages", MessagesRemoved |-> "RemoveMessages"]

Event ==
  [type : DOMAIN RequestOpOf, id : Nat, senderId : Account, administratorIds : SUBSET Account,
   memberIds : SUBSET Account, messageIds : SUBSET MessageId]

ToEvent(c, id) ==
  [type |-> EventTypeOf[c.op], id |-> id, senderId |-> c.senderId,
   administratorIds |-> c.administratorIds, memberIds |-> c.memberIds,
   messageIds |-> c.messageIds]

ToCommandRequest(e) ==
  [op |-> RequestOpOf[e.type], senderId |-> e.senderId,
   administratorIds |-> e.administratorIds, memberIds |-> e.memberIds,
   messageIds |-> e.messageIds]

\* The messages an AddMessages request carries: one sender per request.
MessagesOf(c) == [id : c.messageIds, senderId : {c.senderId}]

(***************************************************************************)
(* case s: CommandSuccessResponse, as it matches a response to the command *)
(* c.  JoinAdministratorIdsResponse extends CommandSuccessResponse, so a   *)
(* JoinAdministratorIdsFailed matches too.                                 *)
(***************************************************************************)
IsSuccessResponse(c, ok) == ok \/ c.op = "JoinAdministratorIds"

=============================================================================
