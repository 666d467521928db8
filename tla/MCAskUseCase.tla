----------------------------- MODULE MCAskUseCase -----------------------------
(***************************************************************************)
(* Instances of AskUseCase for TLC: an administrator and a member, one     *)
(* message; commands that are accepted or refused as their order has it.   *)
(***************************************************************************)
EXTENDS AskUseCase

CONSTANTS alice, bob, m1

MCAccount == {alice, bob}
MCMessageId == {m1}

Cmd(op, senderId) ==
  [op |-> op, senderId |-> senderId, administratorIds |-> {}, memberIds |-> {}, messageIds |-> {}]

MCCommands ==
  {[Cmd("CreateThread", alice) EXCEPT !.administratorIds = {alice}, !.memberIds = {bob}],
   [Cmd("JoinAdministratorIds", bob) EXCEPT !.administratorIds = {bob}],
   [Cmd("AddMessages", bob) EXCEPT !.messageIds = {m1}],
   Cmd("DestroyThread", alice)}

=============================================================================
