------------------------ MODULE TypedPersistentThread ------------------------
(***************************************************************************)
(* The typed aggregate (aggregates/typed/PersistentThreadAggregate.scala), *)
(* a single EventSourcedBehavior whose state is an Option[Thread].         *)
(*                                                                         *)
(* Unlike the untyped one it keeps the thread it has destroyed, so that    *)
(* isRemoved compares the clock with the createAt of the DestroyThread,    *)
(* which is the client's, in every later command and in every replay.      *)
(*                                                                         *)
(* Akka applies an event to the state before it is written; an exception   *)
(* of the event handler stops the actor, and the next message for the      *)
(* thread starts it again.                                                 *)
(***************************************************************************)
EXTENDS ThreadProtocol, Sequences

CONSTANTS
  Commands,     \* the requests clients may send, a subset of Request
  Skew,         \* how far a client's clock may be ahead or behind
  MaxEvents,    \* bound: events stored
  MaxNow        \* bound: the clock

VARIABLES
  now,        \* Instant.now of the node
  mode,       \* up, recovering, stopped, or unrecoverable: a replay has thrown
  state,      \* State.thread, as a set of at most one ThreadState
  journal,    \* the stored events, each with its createdAt
  replayed    \* events replayed in this recovery

vars == <<now, mode, state, journal, replayed>>

Init ==
  /\ now = Skew
  /\ mode = "up"
  /\ state = {}
  /\ journal = <<>>
  /\ replayed = 0

-----------------------------------------------------------------------------

\* The operation of the thread t that the command c, or its event, calls.
Operation(t, c, at, clock) ==
  CASE c.op = "DestroyThread"         -> Destroy(t, c.senderId, at, clock)
    [] c.op = "JoinAdministratorIds"  -> JoinAdministratorIds(t, c.administratorIds, c.senderId, clock)
    [] c.op = "LeaveAdministratorIds" -> LeaveAdministratorIds(t, c.administratorIds, c.senderId, clock)
    [] c.op = "JoinMemberIds"         -> JoinMemberIds(t, c.memberIds, c.senderId, clock)
    [] c.op = "LeaveMemberIds"        -> LeaveMemberIds(t, c.memberIds, c.senderId, clock)
    [] c.op = "AddMessages"           -> AddMessages(t, MessagesOf(c), clock)
    [] c.op = "RemoveMessages"        -> RemoveMessages(t, c.messageIds, c.senderId, clock)

\* commandHandler: the event of c is to be persisted.
Persists(c, at) ==
  IF c.op = "CreateThread" THEN state = {}
  ELSE \E t \in state : Operation(t, c, at, now).right

\* eventHandler returns, and does not throw at .right.get.
Applies(e, at, clock) ==
  LET c == ToCommandRequest(e)
  IN  IF c.op = "CreateThread" THEN TRUE
      ELSE \A t \in state : Operation(t, c, at, clock).right

\* A second ThreadCreated, and anything before the first, leaves the state alone.
EventHandler(e, at, clock) ==
  LET c == ToCommandRequest(e)
  IN  IF c.op = "CreateThread"
      THEN IF state = {} THEN {NewThread(c.administratorIds, c.memberIds)} ELSE state
      ELSE {Operation(t, c, at, clock).thread : t \in state}

-----------------------------------------------------------------------------

\* Time may pass between the two handlers.
CommandPersisted(c, at) ==
  /\ mode = "up" /\ Len(journal) < MaxEvents
  /\ Persists(c, at)
  /\ now' \in {now, now + 1} /\ now' <= MaxNow
  /\ LET e == ToEvent(c, Len(journal) + 1)
     IN  IF Applies(e, at, now')
         THEN /\ state' = EventHandler(e, at, now')
              /\ journal' = Append(journal, [event |-> e, at |-> at])
              /\ UNCHANGED mode
         ELSE mode' = "stopped" /\ UNCHANGED <<state, journal>>
  /\ UNCHANGED replayed

\* A stop of any kind: passivation, a crash of the node, a rebalance.
Stop ==
  /\ mode \in {"up", "recovering"}
  /\ mode' = "stopped"
  /\ UNCHANGED <<now, state, journal, replayed>>

\* emptyState
Restart ==
  /\ mode \in {"stopped", "unrecoverable"}
  /\ mode' = "recovering"
  /\ state' = {} /\ replayed' = 0
  /\ UNCHANGED <<now, journal>>

Replay ==
  /\ mode = "recovering" /\ replayed < Len(journal)
  /\ LET r == journal[replayed + 1]
     IN  IF Applies(r.event, r.at, now)
         THEN /\ state' = EventHandler(r.event, r.at, now)
              /\ replayed' = replayed + 1
              /\ UNCHANGED mode
         ELSE mode' = "unrecoverable" /\ UNCHANGED <<state, replayed>>
  /\ UNCHANGED <<now, journal>>

RecoveryCompleted ==
  /\ mode = "recovering" /\ replayed = Len(journal)
  /\ mode' = "up"
  /\ UNCHANGED <<now, state, journal, replayed>>

Tick ==
  /\ now < MaxNow
  /\ now' = now + 1
  /\ UNCHANGED <<mode, state, journal, replayed>>

Next ==
  \/ \E c \in Commands : \E at \in now - Skew .. now + Skew : CommandPersisted(c, at)
  \/ Stop \/ Restart \/ Replay \/ RecoveryCompleted
  \/ Tick

Spec == Init /\ [][Next]_vars

-----------------------------------------------------------------------------
(* What the repository's documents say and the code does not do.           *)

\* slide/presentation.md:644: the state is replayed after a reboot.
ReplayedAfterReboot == mode # "unrecoverable"

=============================================================================
