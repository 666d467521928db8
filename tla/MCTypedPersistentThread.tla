----------------------- MODULE MCTypedPersistentThread -----------------------
(***************************************************************************)
(* An instance of TypedPersistentThread for TLC: a thread that is created, *)
(* joined, written to and destroyed, over a few ticks of the clock.        *)
(***************************************************************************)
EXTENDS TypedPersistentThread

CONSTANTS alice, bob, m1

MCAccount == {alice, bob}
MCMessageId == {m1}

Cmd(op, senderId) ==
  [op |-> op, senderId |-> senderId, administratorIds |-> {}, memberIds |-> {}, messageIds |-> {}]

MCCommands ==
  {[Cmd("CreateThread", alice) EXCEPT !.administratorIds = {alice}],
   [Cmd("JoinMemberIds", alice) EXCEPT !.memberIds = {bob}],
   [Cmd("AddMessages", alice) EXCEPT !.messageIds = {m1}],
   Cmd("DestroyThread", alice)}

=============================================================================
