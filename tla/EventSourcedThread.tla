-------------------------- MODULE EventSourcedThread --------------------------
(***************************************************************************)
(* What one thread's aggregate promises to its clients, without actors:    *)
(* a command is decided in one step against the state the journal stands   *)
(* for; a success is reported only after its event is in the journal; a    *)
(* query sees what the journal stands for and nothing else; no request is  *)
(* decided or answered twice.  Any request may also stay unanswered, by a  *)
(* crash or because the thread has no case for it.                         *)
(*                                                                         *)
(* PersistentThreadAggregate implements this module under the identity     *)
(* mapping of the four variables.                                          *)
(***************************************************************************)
EXTENDS ThreadAggregate, Sequences

CONSTANTS Clients

VARIABLES
  requests,   \* requests sent so far
  replies,    \* what their askers received
  journal,    \* the stored events
  states      \* states[i + 1]: the behaviour the first i events lead to

vars == <<requests, replies, journal, states>>

NoReply == [answered |-> FALSE, ok |-> FALSE, value |-> {}]
Reply(ok, value) == [answered |-> TRUE, ok |-> ok, value |-> value]

Durable == states[Len(states)]

Recorded(i) == \E k \in DOMAIN journal : journal[k].id = i

Init ==
  /\ requests = <<>> /\ replies = <<>>
  /\ journal = <<>> /\ states = <<Initial>>

Submit(c) ==
  /\ requests' = Append(requests, c)
  /\ replies' = Append(replies, NoReply)
  /\ UNCHANGED <<journal, states>>

Undecided(i) == replies[i] = NoReply /\ ~Recorded(i)

\* The event of command i is stored, which settles the state it leads to.
Record(i) ==
  /\ IsCommand(requests[i]) /\ Undecided(i)
  /\ Answers(Durable, requests[i])
  /\ IsSuccessResponse(requests[i], Accepts(Durable, requests[i]))
  /\ journal' = Append(journal, ToEvent(requests[i], i))
  /\ states' = Append(states, After(Durable, requests[i]))
  /\ UNCHANGED <<requests, replies>>

\* The asker learns what was decided when the event was stored.
Acknowledge(i) ==
  /\ IsCommand(requests[i]) /\ replies[i] = NoReply
  /\ \E k \in DOMAIN journal :
       /\ journal[k].id = i
       /\ replies' = [replies EXCEPT ![i] = Reply(Accepts(states[k], requests[i]), {})]
  /\ UNCHANGED <<requests, journal, states>>

Refuse(i) ==
  /\ IsCommand(requests[i]) /\ Undecided(i)
  /\ Answers(Durable, requests[i])
  /\ ~Accepts(Durable, requests[i])
  /\ replies' = [replies EXCEPT ![i] = Reply(FALSE, {})]
  /\ UNCHANGED <<requests, journal, states>>

AnswerQuery(i) ==
  /\ ~IsCommand(requests[i]) /\ replies[i] = NoReply
  /\ Answers(Durable, requests[i])
  /\ LET a == Answer(Durable, requests[i])
     IN  replies' = [replies EXCEPT ![i] = Reply(a.right, a.value)]
  /\ UNCHANGED <<requests, journal, states>>

Next ==
  \/ \E c \in Clients : Submit(c)
  \/ \E i \in DOMAIN requests : Record(i) \/ Acknowledge(i) \/ Refuse(i) \/ AnswerQuery(i)

Spec == Init /\ [][Next]_vars

=============================================================================
