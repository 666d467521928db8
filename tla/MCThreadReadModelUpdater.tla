---------------------- MODULE MCThreadReadModelUpdater ----------------------
(***************************************************************************)
(* Instances of ThreadReadModelUpdater for TLC: two threads of one tag, an *)
(* administrator, a member and a stranger, two messages.                   *)
(***************************************************************************)
EXTENDS ThreadDas

CONSTANTS alice, bob, carol, m1, m2, t1, t2

MCAccount == {alice, bob, carol}
MCMessageId == {m1, m2}
MCThreads == {t1, t2}

Cmd(op, senderId) ==
  [op |-> op, senderId |-> senderId, administratorIds |-> {}, memberIds |-> {}, messageIds |-> {}]

Create == [Cmd("CreateThread", alice) EXCEPT !.administratorIds = {alice}, !.memberIds = {bob}]

\* Joins of members, of an administrator and of somebody refused; leaves; messages.
MCCommands ==
  {Create,
   Cmd("DestroyThread", alice),
   [Cmd("JoinAdministratorIds", alice) EXCEPT !.administratorIds = {bob}],
   [Cmd("JoinAdministratorIds", carol) EXCEPT !.administratorIds = {carol}],
   [Cmd("LeaveAdministratorIds", alice) EXCEPT !.administratorIds = {bob}],
   [Cmd("JoinMemberIds", alice) EXCEPT !.memberIds = {carol}],
   [Cmd("LeaveMemberIds", alice) EXCEPT !.memberIds = {bob}],
   [Cmd("AddMessages", alice) EXCEPT !.messageIds = {m1}],
   [Cmd("AddMessages", bob) EXCEPT !.messageIds = {m2}],
   [Cmd("RemoveMessages", bob) EXCEPT !.messageIds = {m1, m2}]}

\* Without the messages of a second sender and the join that is refused, which
\* matter to findings only.
MCFewerCommands ==
  MCCommands \ {[Cmd("AddMessages", alice) EXCEPT !.messageIds = {m1}],
                [Cmd("JoinAdministratorIds", carol) EXCEPT !.administratorIds = {carol}]}

\* The threads are alike: the tag's first event may as well be one of t1.
BeginsWithT1 == tagged # <<>> => tagged[1].thread = t1

=============================================================================
