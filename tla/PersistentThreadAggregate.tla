---------------------- MODULE PersistentThreadAggregate ----------------------
(***************************************************************************)
(* One thread of the write side (aggregates/untyped): the event-sourced    *)
(* actor PersistentThreadAggregate, its child ThreadAggregate and the      *)
(* journal.                                                                *)
(*                                                                         *)
(* The parent hands every command to the child, which validates it and     *)
(* changes state at once.  Until the child's response has come and, for a  *)
(* success, the event has been stored, the parent stashes whatever it      *)
(* receives.  Queries are forwarded and the child answers the asker        *)
(* directly.  After a restart the parent replays the journal by sending    *)
(* the child the commands its events convert back to, and does not wait    *)
(* for them.                                                               *)
(*                                                                         *)
(* Clients are the ask calls of the use cases: the i-th request sent is    *)
(* requests[i] and replies[i] is what its asker got.                       *)
(***************************************************************************)
EXTENDS ThreadAggregate, Sequences

CONSTANTS
  Clients,       \* the requests clients may send, a subset of Request
  MaxRequests,   \* bound: requests sent in a behaviour
  MaxFaults      \* bound: stops, child failures and rejected writes

ASSUME ClientsAssumption ==
  /\ Clients \subseteq Request
  /\ MaxRequests \in Nat
  /\ MaxFaults \in Nat

\* The administratorIds of a CreateThread are a NonEmptyList.
ASSUME CreatorsAssumption ==
  \A c \in Clients : c.op = "CreateThread" => c.administratorIds # {}

\* The messages of an AddMessages are a Seq.
ASSUME BatchesAssumption == \A c \in Clients : IsFiniteSet(c.messageIds)

VARIABLES
  requests,      \* sequence of the requests sent so far
  replies,       \* replies[i]: what the asker of requests[i] received
  mode,          \* the parent: stopped, recovering, ready (receiveCommand) or sending
  mailbox,       \* the parent's mailbox
  stash,         \* its stash
  current,       \* the request the sending closure holds, 0 outside sending
  write,         \* the persistAsync of the sending closure, and the response it holds
  replayed,      \* events this incarnation has handed to the child or stored
  child,         \* behaviour of the child
  childMailbox,  \* its mailbox
  journal,       \* the stored events
  faults         \* faults so far

(***************************************************************************)
(* History variables, which no action reads.                               *)
(***************************************************************************)
VARIABLES
  states,        \* states[i + 1]: the behaviour the first i events lead to
  applied,       \* events the state of this incarnation's child reflects
  dropped        \* requests that went to dead letters or were unhandled

clientVars == <<requests, replies>>
parentVars == <<mode, mailbox, stash, current, write, replayed>>
childVars == <<child, childMailbox, applied>>
journalVars == <<journal, states>>
vars == <<requests, replies, mode, mailbox, stash, current, write, replayed,
          child, childMailbox, journal, faults, states, applied, dropped>>

-----------------------------------------------------------------------------

NoReply == [answered |-> FALSE, ok |-> FALSE, value |-> {}]
Reply(ok, value) == [answered |-> TRUE, ok |-> ok, value |-> value]
Replies ==
  [answered : BOOLEAN, ok : BOOLEAN, value : (SUBSET Account) \cup (SUBSET Message)]

\* What the parent receives; ok is that of a response.
ParentMessage == [type : {"request", "response", "terminated"}, id : Nat, ok : BOOLEAN]
RequestMsg(i) == [type |-> "request", id |-> i, ok |-> FALSE]
ResponseMsg(i, ok) == [type |-> "response", id |-> i, ok |-> ok]
TerminatedMsg == [type |-> "terminated", id |-> 0, ok |-> FALSE]

\* What the child receives; the id of a replay is the number of the event.
ChildMessage == [type : {"replay", "command", "query"}, id : Nat]
ChildMsg(type, i) == [type |-> type, id |-> i]

NoWrite == [status |-> "none", ok |-> FALSE]
Write(status, ok) == [status |-> status, ok |-> ok]

\* The child after it was stopped by the supervisor strategy.
Dead == [phase |-> "terminated", thread |-> NoThread]

Durable == states[Len(states)]

IdsOf(s, type) == {s[i].id : i \in {j \in DOMAIN s : s[j].type = type}}

\* The requests this incarnation has received and not yet disposed of.
Held ==
  IdsOf(mailbox, "request") \cup IdsOf(stash, "request")
    \cup IdsOf(childMailbox, "query") \cup (IF mode = "sending" THEN {current} ELSE {})

\* childRef ! m: a message to a terminated actor goes to dead letters.
SendToChild(m) ==
  childMailbox' = IF child = Dead THEN childMailbox ELSE Append(childMailbox, m)

-----------------------------------------------------------------------------

Init ==
  /\ requests = <<>> /\ replies = <<>>
  /\ mode = "stopped"
  /\ mailbox = <<>> /\ stash = <<>>
  /\ current = 0
  /\ write = NoWrite
  /\ replayed = 0 /\ applied = 0
  /\ child = Initial
  /\ childMailbox = <<>>
  /\ journal = <<>> /\ states = <<Initial>>
  /\ faults = 0
  /\ dropped = {}

\* AddMessages carries message ids its use case has just generated.
Fresh(c) ==
  c.op = "AddMessages" =>
    \A i \in DOMAIN requests :
      requests[i].op = "AddMessages" => c.messageIds \cap requests[i].messageIds = {}

(***************************************************************************)
(* An ask reaches the thread's entity, which forwards it to the aggregate  *)
(* and creates the aggregate first when it is not there.                   *)
(***************************************************************************)
Ask(c) ==
  /\ Len(requests) < MaxRequests
  /\ Fresh(c)
  /\ requests' = Append(requests, c)
  /\ replies' = Append(replies, NoReply)
  /\ mailbox' = Append(mailbox, RequestMsg(Len(requests) + 1))
  /\ mode' = IF mode = "stopped" THEN "recovering" ELSE mode
  /\ UNCHANGED <<stash, current, write, replayed, childVars, journalVars, faults, dropped>>

\* Bugs the runs must notice: one event too many read, the last event not read.
MutReplayEvent ==
  /\ mode = "recovering"
  /\ replayed <= Len(journal)
  /\ replayed' = replayed + 1
  /\ SendToChild(ChildMsg("replay", replayed + 1))
  /\ UNCHANGED <<clientVars, mode, mailbox, stash, current, write, child, applied,
                 journalVars, faults, dropped>>

\* receiveRecover, an event: its command goes to the child, reply = false.
ReplayEvent ==
  /\ mode = "recovering"
  /\ replayed < Len(journal)
  /\ replayed' = replayed + 1
  /\ SendToChild(ChildMsg("replay", replayed + 1))
  /\ UNCHANGED <<clientVars, mode, mailbox, stash, current, write, child, applied,
                 journalVars, faults, dropped>>

MutRecoveryCompleted ==
  /\ mode = "recovering"
  /\ replayed + 1 >= Len(journal)
  /\ mode' = "ready"
  /\ UNCHANGED <<clientVars, mailbox, stash, current, write, replayed, childVars,
                 journalVars, faults, dropped>>

\* receiveRecover, RecoveryCompleted: every stored event has been handed over.
RecoveryCompleted ==
  /\ mode = "recovering"
  /\ replayed = Len(journal)
  /\ mode' = "ready"
  /\ UNCHANGED <<clientVars, mailbox, stash, current, write, replayed, childVars,
                 journalVars, faults, dropped>>

-----------------------------------------------------------------------------
(* receiveCommand *)

\* case m: CommandRequest with ToEvent
ReceiveCommand ==
  /\ mode = "ready" /\ mailbox # <<>>
  /\ LET m == Head(mailbox)
     IN  /\ m.type = "request" /\ IsCommand(requests[m.id])
         /\ SendToChild(ChildMsg("command", m.id))
         /\ current' = m.id
  /\ mode' = "sending"
  /\ mailbox' = Tail(mailbox)
  /\ UNCHANGED <<clientVars, stash, write, replayed, child, applied, journalVars, faults, dropped>>

\* case m => childRef forward m
ForwardQuery ==
  /\ mode = "ready" /\ mailbox # <<>>
  /\ LET m == Head(mailbox)
     IN  /\ m.type = "request" /\ ~IsCommand(requests[m.id])
         /\ SendToChild(ChildMsg("query", m.id))
         /\ dropped' = IF child = Dead THEN dropped \cup {m.id} ELSE dropped
  /\ mailbox' = Tail(mailbox)
  /\ UNCHANGED <<clientVars, mode, stash, current, write, replayed, child, applied,
                 journalVars, faults>>

\* The actor and its child are gone, and so is what they had queued.
Stopped ==
  /\ mode' = "stopped"
  /\ mailbox' = <<>> /\ stash' = <<>>
  /\ current' = 0
  /\ write' = NoWrite
  /\ replayed' = 0 /\ applied' = 0
  /\ child' = Initial /\ childMailbox' = <<>>
  /\ dropped' = dropped \cup Held
  /\ UNCHANGED <<clientVars, journalVars>>

\* case Terminated(childRef): context.stop(self)
ReceiveTerminated ==
  /\ mode = "ready" /\ mailbox # <<>>
  /\ Head(mailbox).type = "terminated"
  /\ Stopped
  /\ UNCHANGED faults

-----------------------------------------------------------------------------
(* sending *)

\* Bugs the runs must notice: no unstashAll(), or the stash put behind the mailbox.
MutResumeForgets(rest) ==
  /\ mailbox' = rest
  /\ stash' = <<>>
  /\ mode' = "ready"
  /\ current' = 0

MutResumeReorders(rest) ==
  /\ mailbox' = rest \o stash
  /\ stash' = <<>>
  /\ mode' = "ready"
  /\ current' = 0

\* unstashAll(); context.unbecome(), with rest still in the mailbox.
Resume(rest) ==
  /\ mailbox' = stash \o rest
  /\ stash' = <<>>
  /\ mode' = "ready"
  /\ current' = 0

\* A bug the runs must notice: the reply sent beside persistAsync, not in its handler.
MutSendingSuccess ==
  /\ mode = "sending" /\ mailbox # <<>>
  /\ LET m == Head(mailbox)
     IN  /\ m.type = "response"
         /\ IsSuccessResponse(requests[current], m.ok)
         /\ write' = Write("inflight", m.ok)
         /\ replies' = [replies EXCEPT ![current] = Reply(m.ok, {})]
  /\ mailbox' = Tail(mailbox)
  /\ UNCHANGED <<requests, mode, stash, current, replayed, childVars, journalVars, faults, dropped>>

\* case s: CommandSuccessResponse => persistAsync(event)
SendingSuccess ==
  /\ mode = "sending" /\ mailbox # <<>>
  /\ LET m == Head(mailbox)
     IN  /\ m.type = "response"
         /\ IsSuccessResponse(requests[current], m.ok)
         /\ write' = Write("inflight", m.ok)
  /\ mailbox' = Tail(mailbox)
  /\ UNCHANGED <<clientVars, mode, stash, current, replayed, childVars, journalVars, faults, dropped>>

\* A bug the runs must notice: the failure branch without unstashAll().
MutSendingFailure ==
  /\ mode = "sending" /\ mailbox # <<>>
  /\ LET m == Head(mailbox)
     IN  /\ m.type = "response"
         /\ ~IsSuccessResponse(requests[current], m.ok)
         /\ replies' = [replies EXCEPT ![current] = Reply(m.ok, {})]
  /\ mailbox' = Tail(mailbox)
  /\ mode' = "ready" /\ current' = 0
  /\ UNCHANGED <<requests, stash, write, replayed, childVars, journalVars, faults, dropped>>

\* case f: CommandFailureResponse
SendingFailure ==
  /\ mode = "sending" /\ mailbox # <<>>
  /\ LET m == Head(mailbox)
     IN  /\ m.type = "response"
         /\ ~IsSuccessResponse(requests[current], m.ok)
         /\ replies' = [replies EXCEPT ![current] = Reply(m.ok, {})]
  /\ Resume(Tail(mailbox))
  /\ UNCHANGED <<requests, write, replayed, childVars, journalVars, faults, dropped>>

\* A bug the runs must notice: queries not stashed but forwarded at once.
MutSendingStash ==
  /\ mode = "sending" /\ mailbox # <<>>
  /\ LET m == Head(mailbox)
     IN  /\ m.type = "request" /\ ~IsCommand(requests[m.id])
         /\ SendToChild(ChildMsg("query", m.id))
  /\ mailbox' = Tail(mailbox)
  /\ UNCHANGED <<clientVars, mode, stash, current, write, replayed, child, applied,
                 journalVars, faults, dropped>>

\* case _ => stash(): requests, and a Terminated too
SendingStash ==
  /\ mode = "sending" /\ mailbox # <<>>
  /\ Head(mailbox).type # "response"
  /\ stash' = Append(stash, Head(mailbox))
  /\ mailbox' = Tail(mailbox)
  /\ UNCHANGED <<clientVars, mode, current, write, replayed, childVars, journalVars, faults, dropped>>

\* The journal plugin stores the event.
JournalStores ==
  /\ write.status = "inflight"
  /\ write' = [write EXCEPT !.status = "stored"]
  /\ LET e == ToEvent(requests[current], current)
     IN  /\ journal' = Append(journal, e)
         /\ states' = Append(states, After(Durable, ToCommandRequest(e)))
  /\ replayed' = replayed + 1 /\ applied' = applied + 1
  /\ UNCHANGED <<clientVars, mode, mailbox, stash, current, child, childMailbox, faults, dropped>>

\* The handler of persistAsync.
Persisted ==
  /\ write.status = "stored"
  /\ replies' = [replies EXCEPT ![current] = Reply(write.ok, {})]
  /\ write' = NoWrite
  /\ Resume(mailbox)
  /\ UNCHANGED <<requests, replayed, childVars, journalVars, faults, dropped>>

(***************************************************************************)
(* The journal rejects the event.  onPersistRejected is not overridden: it *)
(* logs, the handler is not called and sending stays.                      *)
(***************************************************************************)
JournalRejects ==
  /\ faults < MaxFaults
  /\ write.status = "inflight"
  /\ write' = [write EXCEPT !.status = "rejected"]
  /\ faults' = faults + 1
  /\ UNCHANGED <<clientVars, mode, mailbox, stash, current, replayed, childVars, journalVars, dropped>>

-----------------------------------------------------------------------------
(* The child. *)

ChildRequest(m) == IF m.type = "replay" THEN ToCommandRequest(journal[m.id]) ELSE requests[m.id]

\* A replayed command: no response, even when it is rejected or unhandled.
ChildReplays ==
  /\ childMailbox # <<>>
  /\ LET m == Head(childMailbox)
     IN  /\ m.type = "replay"
         /\ child' = After(child, ChildRequest(m))
  /\ childMailbox' = Tail(childMailbox)
  /\ applied' = applied + 1
  /\ UNCHANGED <<clientVars, parentVars, journalVars, faults, dropped>>

\* A command: the state changes before the parent has stored anything.
ChildHandlesCommand ==
  /\ childMailbox # <<>>
  /\ LET m == Head(childMailbox)
         c == ChildRequest(m)
     IN  /\ m.type = "command"
         /\ mailbox' = IF Answers(child, c)
                       THEN Append(mailbox, ResponseMsg(m.id, Accepts(child, c)))
                       ELSE mailbox
         /\ child' = After(child, c)
  /\ childMailbox' = Tail(childMailbox)
  /\ UNCHANGED <<clientVars, mode, stash, current, write, replayed, applied, journalVars,
                 faults, dropped>>

\* A query: the answer goes to the asker, who waits in vain when it is unhandled.
ChildAnswersQuery ==
  /\ childMailbox # <<>>
  /\ LET m == Head(childMailbox)
         c == ChildRequest(m)
         a == Answer(child, c)
     IN  /\ m.type = "query"
         /\ IF Answers(child, c)
            THEN /\ replies' = [replies EXCEPT ![m.id] = Reply(a.right, a.value)]
                 /\ UNCHANGED dropped
            ELSE /\ dropped' = dropped \cup {m.id}
                 /\ UNCHANGED replies
  /\ childMailbox' = Tail(childMailbox)
  /\ UNCHANGED <<requests, parentVars, child, applied, journalVars, faults>>

(***************************************************************************)
(* The child throws while it handles a message: the supervisor stops it,   *)
(* its mailbox goes to dead letters and the parent is told.                *)
(***************************************************************************)
ChildFails ==
  /\ faults < MaxFaults
  /\ childMailbox # <<>>
  /\ child' = Dead
  /\ childMailbox' = <<>>
  /\ mailbox' = Append(mailbox, TerminatedMsg)
  /\ dropped' = dropped \cup IdsOf(childMailbox, "query")
  /\ faults' = faults + 1
  /\ UNCHANGED <<clientVars, mode, stash, current, write, replayed, applied, journalVars>>

(***************************************************************************)
(* The aggregate is stopped from outside at any moment: passivation after  *)
(* the receive timeout, a shard handed off, a failed write (onPersist-     *)
(* Failure stops the actor) or the end of the JVM.                         *)
(***************************************************************************)
Stop ==
  /\ faults < MaxFaults
  /\ mode # "stopped"
  /\ Stopped
  /\ faults' = faults + 1

-----------------------------------------------------------------------------

ParentStep ==
  \/ ReplayEvent \/ RecoveryCompleted
  \/ ReceiveCommand \/ ForwardQuery \/ ReceiveTerminated
  \/ SendingSuccess \/ SendingFailure \/ SendingStash \/ Persisted

ChildStep == ChildReplays \/ ChildHandlesCommand \/ ChildAnswersQuery

Fault == JournalRejects \/ ChildFails \/ Stop

Next == (\E c \in Clients : Ask(c)) \/ ParentStep \/ ChildStep \/ JournalStores \/ Fault

Spec == Init /\ [][Next]_vars

(***************************************************************************)
(* The dispatcher runs an actor whose mailbox is not empty, and the        *)
(* journal completes a write it was given.  Nobody is obliged to ask, and  *)
(* nothing has to fail.                                                    *)
(***************************************************************************)
Fairness == WF_vars(ParentStep) /\ WF_vars(ChildStep) /\ WF_vars(JournalStores)

FairSpec == Spec /\ Fairness

-----------------------------------------------------------------------------
(* Properties *)

TypeOK ==
  /\ requests \in Seq(Clients)
  /\ replies \in Seq(Replies) /\ Len(replies) = Len(requests)
  /\ mode \in {"stopped", "recovering", "ready", "sending"}
  /\ mailbox \in Seq(ParentMessage) /\ stash \in Seq(ParentMessage)
  /\ current \in 0..Len(requests)
  /\ write \in [status : {"none", "inflight", "stored", "rejected"}, ok : BOOLEAN]
  /\ replayed \in 0..Len(journal) /\ applied \in Nat
  /\ child \in Behaviour \cup {Dead}
  /\ childMailbox \in Seq(ChildMessage)
  /\ journal \in Seq(Event)
  /\ states \in Seq(Behaviour) /\ Len(states) = Len(journal) + 1
  /\ faults \in 0..MaxFaults
  /\ dropped \subseteq 1..Len(requests)

(***************************************************************************)
(* A client that was told its command succeeded finds the event in the     *)
(* journal, whatever stops or fails afterwards: persistAsync replies from  *)
(* its handler only.                                                       *)
(***************************************************************************)
AcknowledgedIsDurable ==
  \A i \in DOMAIN replies :
    replies[i].answered /\ replies[i].ok /\ IsCommand(requests[i])
      => \E k \in DOMAIN journal : journal[k] = ToEvent(requests[i], i)

(***************************************************************************)
(* Whenever the parent takes commands and the child has nothing left to    *)
(* do, the child's state is the one the journal stands for: the replay     *)
(* misses nothing and repeats nothing, and a live command the child has    *)
(* applied is either stored or never shows.                                *)
(***************************************************************************)
ChildReflectsJournal ==
  mode = "ready" /\ childMailbox = <<>> /\ child # Dead => child = Durable

(***************************************************************************)
(* No request gets lost between mailbox, stash, child and closure, and     *)
(* none is in two of those places: each is answered, dropped with a reason *)
(* or held.                                                                *)
(***************************************************************************)
Answered == {i \in DOMAIN replies : replies[i].answered}

RequestsAccountedFor ==
  /\ Answered \cup dropped \cup Held = DOMAIN requests
  /\ Answered \cap dropped = {} /\ Answered \cap Held = {} /\ dropped \cap Held = {}

(***************************************************************************)
(* Events are stored in the order in which their commands arrived, however *)
(* often those were stashed and unstashed, and none is stored twice.       *)
(***************************************************************************)
StoredInArrivalOrder ==
  \A j, k \in DOMAIN journal : j < k => journal[j].id < journal[k].id

\* A thread that exists always has an administrator (NonEmptyList, filterNot).
AdministratorsNeverEmpty ==
  \A k \in DOMAIN states : states[k].phase = "created" => states[k].thread.administratorIds # {}

\* The batch that would exceed Thread.MessagesLimit is refused as a whole.
MessagesWithinLimit ==
  \A k \in DOMAIN states : Cardinality(states[k].thread.messages) <= MessagesLimit

(***************************************************************************)
(* The actors implement the atomic thread of EventSourcedThread: although  *)
(* the child changes state before the event is stored, no client sees a    *)
(* state or a decision the journal does not stand for.                     *)
(***************************************************************************)
Atomic == INSTANCE EventSourcedThread
ImplementsEventSourcedThread == Atomic!Spec

(***************************************************************************)
(* The parent waits for something that will not come: the child has no     *)
(* case for the command or is dead, or the journal rejected the event.     *)
(***************************************************************************)
Blocked ==
  /\ mode = "sending"
  /\ IdsOf(childMailbox, "command") = {} /\ IdsOf(mailbox, "response") = {}
  /\ \/ write.status = "rejected"
     \/ /\ write.status = "none"
        /\ child = Dead \/ ~Answers(child, requests[current])

(***************************************************************************)
(* Every request is answered in the end, unless it is dropped by a stop or *)
(* the parent is blocked: stash and unstash forget nobody.                 *)
(***************************************************************************)
EventuallyDecided ==
  \A i \in 1..MaxRequests : i \in DOMAIN requests ~> i \in Answered \cup dropped \/ Blocked

(***************************************************************************)
(* The safety half of EventuallyDecided.  A request is stashed only while  *)
(* the parent is sending, for the stash is taken back on leaving; and a    *)
(* parent that is sending and not blocked has its decision on the way: the *)
(* command before the child, the response in its own mailbox, or the write *)
(* before the journal.  A stopped parent leaves nobody in its queues.      *)
(***************************************************************************)
DecisionUnderWay ==
  \/ IdsOf(childMailbox, "command") = {current}
  \/ IdsOf(mailbox, "response") = {current}
  \/ write.status \in {"inflight", "stored"}

NobodyWaitsInVain ==
  /\ stash # <<>> => mode = "sending"
  /\ mode = "sending" => DecisionUnderWay \/ Blocked
  /\ mode = "stopped" => Held = {}

-----------------------------------------------------------------------------
(* What the repository's documents say and the code does not do.           *)

\* slide/presentation.md:599 "Persists only on success"
PersistsOnlyOnSuccess ==
  \A k \in DOMAIN journal : Accepts(states[k], ToCommandRequest(journal[k]))

\* Those who left are no members.
LeaversAreNoMembers ==
  \A k \in DOMAIN journal :
    journal[k].type = "MemberIdsLeft" =>
      states[k + 1].thread.memberIds \cap journal[k].memberIds = {}

\* slide/presentation.md:600: suspended until a command response is returned
EveryAskAnswered == \A i \in 1..MaxRequests : i \in DOMAIN requests ~> i \in Answered \cup dropped

=============================================================================
