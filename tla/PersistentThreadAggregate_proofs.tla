------------------- MODULE PersistentThreadAggregate_proofs -------------------
(***************************************************************************)
(* Invariants of PersistentThreadAggregate, for every set of clients and   *)
(* every bound.                                                            *)
(***************************************************************************)
EXTENDS PersistentThreadAggregate, ThreadAggregate_proofs, SequenceTheorems

-----------------------------------------------------------------------------
(* The inductive invariant.                                                *)

\* A queued request names one that was sent.
Deliverable == {m \in ParentMessage : m.type = "request" => m.id \in DOMAIN requests}

\* What the child can find the command or the query of.
Processable ==
  {m \in ChildMessage :
     /\ m.type = "replay" => m.id \in DOMAIN journal
     /\ m.type = "command" => m.id \in DOMAIN requests /\ IsCommand(requests[m.id])
     /\ m.type = "query" => m.id \in DOMAIN requests /\ ~IsCommand(requests[m.id])}

\* A response is never stashed.
Stashable == {m \in Deliverable : m.type # "response"}

References ==
  /\ mailbox \in Seq(Deliverable) /\ stash \in Seq(Stashable)
  /\ childMailbox \in Seq(Processable)
  /\ child = Dead => childMailbox = <<>>

(***************************************************************************)
(* The command being decided is in one place: queued for the child, in the *)
(* child's response, or in the write.  It is the last thing the child was  *)
(* sent.                                                                   *)
(***************************************************************************)
CommandAt(j) == j \in DOMAIN childMailbox /\ childMailbox[j].type = "command"
ResponseAt(j) == j \in DOMAIN mailbox /\ mailbox[j].type = "response"

OneDecision ==
  /\ \A j \in Nat : CommandAt(j) =>
       /\ mode = "sending" /\ write.status = "none"
       /\ j = Len(childMailbox) /\ childMailbox[j].id = current
       /\ \A i \in Nat : ~ResponseAt(i)
  /\ \A j \in Nat : ResponseAt(j) =>
       /\ mode = "sending" /\ write.status = "none"
       /\ \A i \in Nat : ResponseAt(i) => i = j

\* The sending closure holds a command, and a write is in progress only there.
Closure ==
  /\ mode = "sending" => current \in DOMAIN requests /\ IsCommand(requests[current])
  /\ write.status # "none" => mode = "sending"
  /\ write.status = "stored" =>
       \E k \in DOMAIN journal : journal[k] = ToEvent(requests[current], current)

IInv == TypeOK /\ References /\ OneDecision /\ Closure /\ AcknowledgedIsDurable

LEMMA InitIInv == Init => IInv
<1> SUFFICES ASSUME Init PROVE IInv
  OBVIOUS
<1> USE DEF Init
<1>1. TypeOK
  BY ClientsAssumption DEF TypeOK, Initial, NoThread, NewThread, Behaviour, ThreadState, NoWrite, NotRemoved
<1>2. References
  BY DEF References
<1>3. Closure
  BY DEF Closure, NoWrite
<1>4. AcknowledgedIsDurable
  BY DEF AcknowledgedIsDurable
<1>5. OneDecision
  BY DEF OneDecision, CommandAt, ResponseAt
<1> QED
  BY <1>1, <1>2, <1>3, <1>4, <1>5 DEF IInv

-----------------------------------------------------------------------------
(* What the actions have in common.                                        *)

LEMMA SameReferences ==
  ASSUME UNCHANGED <<requests, journal>>
  PROVE  Deliverable' = Deliverable /\ Stashable' = Stashable /\ Processable' = Processable
BY DEF Deliverable, Stashable, Processable

LEMMA SameClosure ==
  ASSUME Closure, UNCHANGED <<requests, journal, mode, current, write>>
  PROVE  Closure'
BY DEF Closure

LEMMA SameAcknowledged ==
  ASSUME AcknowledgedIsDurable, UNCHANGED <<requests, replies, journal>>
  PROVE  AcknowledgedIsDurable'
BY DEF AcknowledgedIsDurable

\* One reply is given, and if it reports success the event is stored.
LEMMA OneReply ==
  ASSUME TypeOK, AcknowledgedIsDurable, UNCHANGED <<requests, journal>>,
         NEW i \in DOMAIN requests, NEW ok \in BOOLEAN,
         NEW value \in (SUBSET Account) \cup (SUBSET Message),
         replies' = [replies EXCEPT ![i] = Reply(ok, value)],
         ok /\ IsCommand(requests[i]) => \E k \in DOMAIN journal : journal[k] = ToEvent(requests[i], i)
  PROVE  /\ replies' \in Seq(Replies) /\ Len(replies') = Len(replies)
         /\ AcknowledgedIsDurable'
<1>1. Reply(ok, value) \in Replies
  BY DEF Reply, Replies
<1>2. i \in 1..Len(replies) /\ replies \in Seq(Replies) /\ DOMAIN replies = 1..Len(replies)
  BY DEF TypeOK
<1>3. replies' \in Seq(Replies) /\ Len(replies') = Len(replies)
  BY <1>1, <1>2, ExceptSeq
<1>4. DOMAIN replies' = DOMAIN replies
  BY <1>2, <1>3
<1>5. replies'[i].ok = ok
  BY <1>2 DEF Reply
<1>6. \A j \in DOMAIN replies : j # i => replies'[j] = replies[j]
  BY <1>2
<1> QED
  BY <1>3, <1>4, <1>5, <1>6 DEF AcknowledgedIsDurable

\* What is queued for the parent has the type of its messages.
LEMMA Queued ==
  /\ References => /\ mailbox \in Seq(ParentMessage) /\ stash \in Seq(ParentMessage)
                   /\ childMailbox \in Seq(ChildMessage)
  /\ References' => /\ mailbox' \in Seq(ParentMessage) /\ stash' \in Seq(ParentMessage)
                    /\ childMailbox' \in Seq(ChildMessage)
<1>1. /\ Deliverable \subseteq ParentMessage /\ Stashable \subseteq ParentMessage
      /\ Processable \subseteq ChildMessage
      /\ Deliverable' \subseteq ParentMessage /\ Stashable' \subseteq ParentMessage
      /\ Processable' \subseteq ChildMessage
  BY DEF Deliverable, Stashable, Processable
<1> QED
  BY <1>1, SeqMonotonic DEF References

LEMMA ParentReceives ==
  ASSUME References, mailbox # <<>>
  PROVE  Head(mailbox) \in Deliverable /\ Tail(mailbox) \in Seq(Deliverable)
BY HeadTailProperties DEF References

LEMMA ChildReceives ==
  ASSUME References, childMailbox # <<>>
  PROVE  Head(childMailbox) \in Processable /\ Tail(childMailbox) \in Seq(Processable)
BY HeadTailProperties DEF References

LEMMA ChildIsSent ==
  ASSUME References, NEW m \in Processable, SendToChild(m)
  PROVE  childMailbox' \in Seq(Processable) /\ (child = Dead => childMailbox' = <<>>)
BY AppendProperties DEF References, SendToChild

\* Removing the head shifts a queue by one.
LEMMA Shift ==
  ASSUME NEW S, NEW s \in Seq(S), s # <<>>
  PROVE  /\ Len(s) \in Nat \ {0} /\ Len(Tail(s)) = Len(s) - 1
         /\ 1 \in DOMAIN s /\ s[1] = Head(s)
         /\ \A j \in DOMAIN Tail(s) : j + 1 \in DOMAIN s /\ Tail(s)[j] = s[j + 1]
BY HeadTailProperties, LenProperties

LEMMA ResumeReferences ==
  ASSUME References, NEW rest \in Seq(Deliverable), Resume(rest)
  PROVE  mailbox' \in Seq(Deliverable) /\ stash' \in Seq(Stashable)
<1>1. stash \in Seq(Deliverable)
  BY SeqMonotonic DEF References, Stashable
<1> QED
  BY <1>1, ConcatProperties DEF Resume

\* A child with something to do is alive.
LEMMA AliveType ==
  ASSUME TypeOK, References, childMailbox # <<>>
  PROVE  child \in Behaviour
BY DEF TypeOK, References

LEMMA Alive == \A b \in Behaviour : b # Dead
BY DEF Behaviour, Dead

\* The ids in a queue are those of its elements.
LEMMA IdsOfSeq ==
  ASSUME NEW S, NEW s \in Seq(S), NEW type, NEW n \in IdsOf(s, type)
  PROVE  \E m \in S : m.type = type /\ m.id = n
BY ElementOfSeq, LenProperties DEF IdsOf

LEMMA HeldAreRequests ==
  ASSUME References, Closure
  PROVE  Held \subseteq DOMAIN requests
<1>1. IdsOf(mailbox, "request") \subseteq DOMAIN requests
  BY IdsOfSeq DEF References, Deliverable
<1>2. IdsOf(stash, "request") \subseteq DOMAIN requests
  BY IdsOfSeq DEF References, Stashable, Deliverable
<1>3. IdsOf(childMailbox, "query") \subseteq DOMAIN requests
  BY IdsOfSeq DEF References, Processable
<1> QED
  BY <1>1, <1>2, <1>3 DEF Held, Closure

-----------------------------------------------------------------------------
\* Only a parent in sending has a command or a response under way.
LEMMA Quiet ==
  ASSUME OneDecision, mode # "sending" \/ write.status # "none"
  PROVE  \A j \in Nat : ~CommandAt(j) /\ ~ResponseAt(j)
BY DEF OneDecision

\* The response at the head of the mailbox is all there is of the decision.
LEMMA LastTrace ==
  ASSUME References, OneDecision, mailbox # <<>>, Head(mailbox).type = "response"
  PROVE  /\ \A j \in DOMAIN Tail(mailbox) : Tail(mailbox)[j].type # "response"
         /\ \A j \in Nat : ~CommandAt(j)
         /\ write.status = "none"
<1>1. ResponseAt(1)
  BY Shift DEF References, ResponseAt
<1>2. \A j \in DOMAIN Tail(mailbox) : j \in Nat /\ j + 1 # 1
  BY HeadTailProperties, LenProperties DEF References
<1>3. \A j \in DOMAIN Tail(mailbox) : ~ResponseAt(j + 1)
  BY <1>1, <1>2 DEF OneDecision
<1> QED
  BY <1>1, <1>2, <1>3, Shift DEF References, OneDecision, ResponseAt

\* Queues without a command and without a response, whatever else happens.
LEMMA NoDecision ==
  ASSUME \A j \in DOMAIN childMailbox' : childMailbox'[j].type # "command",
         \A j \in DOMAIN mailbox' : mailbox'[j].type # "response"
  PROVE  OneDecision'
BY DEF OneDecision, CommandAt, ResponseAt

\* Resume brings no response back.
LEMMA ResumeIsQuiet ==
  ASSUME References, NEW rest \in Seq(Deliverable), Resume(rest),
         \A j \in DOMAIN rest : rest[j].type # "response"
  PROVE  \A j \in DOMAIN mailbox' : mailbox'[j].type # "response"
<1>1. stash \in Seq(Deliverable) /\ \A j \in DOMAIN stash : stash[j].type # "response"
  BY ElementOfSeq, LenProperties, SeqMonotonic DEF References, Stashable
<1> QED
  BY <1>1, ConcatProperties, LenProperties DEF Resume

\* No element of a given type comes in with an element of another.
LEMMA AppendQuiet ==
  ASSUME NEW S, NEW s \in Seq(S), NEW m \in S, NEW type, m.type # type,
         \A j \in DOMAIN s : s[j].type # type
  PROVE  \A j \in DOMAIN Append(s, m) : Append(s, m)[j].type # type
<1>1. DOMAIN Append(s, m) = 1..Len(s) + 1 /\ DOMAIN s = 1..Len(s) /\ Len(s) \in Nat
  BY AppendProperties, LenProperties
<1> QED
  BY <1>1, AppendProperties

\* What the parent sends the child for the request at the head of its mailbox.
LEMMA SentToChild ==
  ASSUME NEW s \in Seq(ParentMessage), s # <<>>, NEW type \in {"command", "query"}
  PROVE  LET m == ChildMsg(type, Head(s).id)
         IN  m \in ChildMessage /\ m.type = type /\ m.id \in Nat /\ Head(s).id \in Nat
<1>1. Head(s) \in ParentMessage
  BY HeadTailProperties
<1>2. Head(s).id \in Nat
  BY <1>1 DEF ParentMessage
<1> QED
  BY <1>2 DEF ChildMsg, ChildMessage

LEMMA DecisionStep == IInv /\ Next => OneDecision'
<1> SUFFICES ASSUME IInv, Next PROVE OneDecision'
  OBVIOUS
<1> USE DEF IInv
<1>a. /\ mailbox \in Seq(ParentMessage) /\ childMailbox \in Seq(ChildMessage)
      /\ Len(mailbox) \in Nat /\ Len(childMailbox) \in Nat
      /\ DOMAIN mailbox = 1..Len(mailbox) /\ DOMAIN childMailbox = 1..Len(childMailbox)
  BY LenProperties DEF TypeOK
<1>b. ASSUME mode # "sending" \/ write.status # "none"
      PROVE  /\ \A j \in DOMAIN childMailbox : childMailbox[j].type # "command"
             /\ \A j \in DOMAIN mailbox : mailbox[j].type # "response"
  BY <1>a, <1>b, Quiet DEF CommandAt, ResponseAt
<1>c. ASSUME UNCHANGED <<mode, current, write, childMailbox>>, NEW m \in ParentMessage,
             m.type # "response", mailbox' = Append(mailbox, m)
      PROVE  OneDecision'
  <2>1. \A j \in Nat : ResponseAt(j)' => ResponseAt(j)
    BY <1>a, <1>c DEF ResponseAt
  <2>2. \A j \in Nat : CommandAt(j)' => CommandAt(j)
    BY <1>c DEF CommandAt
  <2> QED
    BY <1>c, <2>1, <2>2 DEF OneDecision
<1>d. ASSUME UNCHANGED <<mode, current, write, mailbox>>, childMailbox # <<>>,
             childMailbox' = Tail(childMailbox)
      PROVE  OneDecision'
  <2>1. /\ Len(childMailbox') = Len(childMailbox) - 1
        /\ \A j \in DOMAIN childMailbox' : j \in Nat /\ childMailbox'[j] = childMailbox[j + 1]
                                           /\ j + 1 \in DOMAIN childMailbox
    BY <1>a, <1>d, Shift, HeadTailProperties, LenProperties
  <2>2. \A j \in Nat : CommandAt(j)' => CommandAt(j + 1)
    BY <2>1 DEF CommandAt
  <2>3. \A j \in Nat : ResponseAt(j)' => ResponseAt(j)
    BY <1>d DEF ResponseAt
  <2>4. ASSUME NEW j \in Nat, CommandAt(j)'
        PROVE  /\ mode' = "sending" /\ write'.status = "none"
               /\ j = Len(childMailbox') /\ childMailbox'[j].id = current'
               /\ \A i \in Nat : ~ResponseAt(i)'
    <3>1. CommandAt(j + 1) /\ j + 1 \in Nat /\ j \in DOMAIN childMailbox'
      BY <2>2, <2>4 DEF CommandAt
    <3>2. /\ mode = "sending" /\ write.status = "none" /\ j + 1 = Len(childMailbox)
          /\ childMailbox[j + 1].id = current /\ \A i \in Nat : ~ResponseAt(i)
      BY <3>1 DEF OneDecision
    <3> QED
      <4>1. j = Len(childMailbox')
        <5>1. Len(childMailbox') = Len(childMailbox) - 1 /\ j + 1 = Len(childMailbox) /\ Len(childMailbox) \in Nat
          BY ZenonT(30), <1>a, <2>1, <3>2
        <5> HIDE DEF IInv
        <5> QED
          BY <5>1
      <4>2. childMailbox'[j].id = current'
        BY <1>d, <2>1, <3>1, <3>2
      <4> QED
        BY ZenonT(30), <1>d, <2>3, <3>2, <4>1, <4>2
  <2> QED
    BY <1>d, <2>3, <2>4 DEF OneDecision
<1>1. ASSUME NEW c \in Clients, Ask(c) PROVE OneDecision'
  <2>1. RequestMsg(Len(requests) + 1) \in ParentMessage /\ RequestMsg(Len(requests) + 1).type # "response"
    BY DEF RequestMsg, ParentMessage, TypeOK
  <2>2. CASE mode = "stopped"
    BY <1>1, <1>a, <1>b, <2>1, <2>2, AppendQuiet, NoDecision DEF Ask, childVars
  <2>3. CASE mode # "stopped"
    BY <1>1, <1>c, <2>1, <2>3 DEF Ask, childVars
  <2> QED
    BY <2>2, <2>3
<1>2. ASSUME ReplayEvent PROVE OneDecision'
  <2>1. ChildMsg("replay", replayed + 1) \in ChildMessage /\ ChildMsg("replay", replayed + 1).type # "command"
    BY DEF ChildMsg, ChildMessage, TypeOK
  <2> QED
    BY <1>2, <1>a, <1>b, <2>1, AppendQuiet, NoDecision DEF ReplayEvent, SendToChild
<1>3. ASSUME RecoveryCompleted PROVE OneDecision'
  BY <1>3, <1>b, NoDecision DEF RecoveryCompleted, childVars
<1>4. ASSUME ReceiveCommand PROVE OneDecision'
  <2> DEFINE m == Head(mailbox)
  <2>1. m.id \in Nat /\ ChildMsg("command", m.id) \in ChildMessage
    BY <1>4, <1>a, SentToChild DEF ReceiveCommand
  <2>2. \A j \in Nat : ~ResponseAt(j)'
    BY <1>4, <1>a, <1>b, Shift DEF ReceiveCommand, ResponseAt
  <2>3. mode' = "sending" /\ write'.status = "none"
    BY <1>4 DEF ReceiveCommand, Closure
  <2>4. ASSUME NEW j \in Nat, CommandAt(j)'
        PROVE  j = Len(childMailbox') /\ childMailbox'[j].id = current'
    <3>1. childMailbox' = Append(childMailbox, ChildMsg("command", m.id)) /\ current' = m.id
      BY <1>4, <1>a, <1>b, <2>4 DEF ReceiveCommand, SendToChild, CommandAt
    <3>2. j \in 1..Len(childMailbox) + 1 /\ Len(childMailbox') = Len(childMailbox) + 1
      BY <1>a, <2>1, <2>4, <3>1, AppendProperties, LenProperties DEF CommandAt
    <3>3. j \notin DOMAIN childMailbox
      BY SMTT(30), <1>4, <1>a, <1>b, <2>1, <2>4, <3>1, AppendProperties DEF ReceiveCommand, CommandAt
    <3>4. j = Len(childMailbox) + 1
      BY <1>a, <3>2, <3>3
    <3> QED
      BY <1>a, <2>1, <3>1, <3>2, <3>4, AppendProperties DEF ChildMsg
  <2> QED
    BY <2>2, <2>3, <2>4 DEF OneDecision
<1>5. ASSUME ForwardQuery PROVE OneDecision'
  <2>1. ChildMsg("query", Head(mailbox).id) \in ChildMessage /\ ChildMsg("query", Head(mailbox).id).type # "command"
    BY <1>5, <1>a, SentToChild DEF ForwardQuery
  <2>2. \A j \in DOMAIN mailbox' : mailbox'[j].type # "response"
    BY <1>5, <1>a, <1>b, Shift DEF ForwardQuery
  <2> QED
    BY <1>5, <1>a, <1>b, <2>1, <2>2, AppendQuiet, NoDecision DEF ForwardQuery, SendToChild
<1>6. ASSUME Stopped PROVE OneDecision'
  BY <1>6, NoDecision DEF Stopped
<1>7. ASSUME SendingSuccess PROVE OneDecision'
  <2>1. \A j \in DOMAIN childMailbox : childMailbox[j].type # "command"
    BY <1>7, <1>a, LastTrace DEF SendingSuccess, CommandAt
  <2> QED
    BY <1>7, <2>1, LastTrace, NoDecision DEF SendingSuccess, childVars
<1>8. ASSUME SendingFailure PROVE OneDecision'
  <2>1. \A j \in DOMAIN childMailbox : childMailbox[j].type # "command"
    BY <1>8, <1>a, LastTrace DEF SendingFailure, CommandAt
  <2>2. \A j \in DOMAIN mailbox' : mailbox'[j].type # "response"
    BY <1>8, LastTrace, ParentReceives, ResumeIsQuiet DEF SendingFailure
  <2> QED
    BY <1>8, <2>1, <2>2, NoDecision DEF SendingFailure, childVars
<1>9. ASSUME SendingStash PROVE OneDecision'
  <2>1. \A j \in Nat : CommandAt(j)' => CommandAt(j)
    BY <1>9 DEF SendingStash, CommandAt, childVars
  <2>2. \A j \in Nat : ResponseAt(j)' => ResponseAt(j + 1)
    BY <1>9, <1>a, Shift DEF SendingStash, ResponseAt
  <2>3. UNCHANGED <<mode, current, write, childMailbox>>
    BY <1>9 DEF SendingStash, childVars
  <2> QED
    BY <2>1, <2>2, <2>3 DEF OneDecision
<1>10. ASSUME JournalStores PROVE OneDecision'
  BY <1>10, <1>b, NoDecision DEF JournalStores
<1>11. ASSUME Persisted PROVE OneDecision'
  <2>1. \A j \in DOMAIN mailbox' : mailbox'[j].type # "response"
    BY <1>11, <1>b, ResumeIsQuiet DEF Persisted, References
  <2> QED
    BY <1>11, <1>b, <2>1, NoDecision DEF Persisted, childVars
<1>12. ASSUME JournalRejects PROVE OneDecision'
  BY <1>12, <1>b, NoDecision DEF JournalRejects, childVars
<1>13. ASSUME ChildReplays PROVE OneDecision'
  BY <1>13, <1>d DEF ChildReplays, parentVars
<1>14. ASSUME ChildHandlesCommand PROVE OneDecision'
  <2> DEFINE m == Head(childMailbox)
             response == ResponseMsg(m.id, Accepts(child, ChildRequest(m)))
  <2>1. CommandAt(1)
    BY <1>14, <1>a, Shift DEF ChildHandlesCommand, CommandAt
  <2>2. /\ mode = "sending" /\ write.status = "none" /\ Len(childMailbox) = 1
        /\ \A j \in DOMAIN mailbox : mailbox[j].type # "response"
    <3>1. /\ mode = "sending" /\ write.status = "none" /\ 1 = Len(childMailbox)
          /\ \A i \in Nat : ~ResponseAt(i)
      BY <2>1 DEF OneDecision
    <3> QED
      <4>1. \A j \in DOMAIN mailbox : j \in Nat
        BY <1>a
      <4> QED
        BY <3>1, <4>1 DEF ResponseAt
  <2>3. \A j \in Nat : ~CommandAt(j)'
    BY <1>14, <1>a, <2>2, Shift, HeadTailProperties, LenProperties DEF ChildHandlesCommand, CommandAt
  <2>4. mailbox' = mailbox \/ mailbox' = Append(mailbox, response)
    BY <1>14 DEF ChildHandlesCommand
  <2>5. response \in ParentMessage
    <3>1. m.id \in Nat
      <4>1. m \in ChildMessage
        BY <1>14, <1>a, HeadTailProperties DEF ChildHandlesCommand
      <4> QED
        BY <4>1 DEF ChildMessage
    <3>2. Accepts(child, ChildRequest(m)) \in BOOLEAN
      BY DEF Accepts
    <3> QED
      BY <3>1, <3>2 DEF ResponseMsg, ParentMessage
  <2>6. ASSUME NEW j \in Nat, ResponseAt(j)' PROVE j = Len(mailbox) + 1
    <3>1. mailbox' = Append(mailbox, response)
      BY <2>2, <2>4, <2>6 DEF ResponseAt
    <3>2. j \in 1..Len(mailbox) + 1
      BY <1>a, <2>5, <2>6, <3>1, AppendProperties, LenProperties DEF ResponseAt
    <3>3. j \notin DOMAIN mailbox
      BY SMTT(30), <1>a, <2>2, <2>5, <2>6, <3>1, AppendProperties DEF ResponseAt
    <3> QED
      BY <1>a, <3>2, <3>3
  <2> QED
    BY <1>14, <2>2, <2>3, <2>6 DEF OneDecision, ChildHandlesCommand
<1>15. ASSUME ChildAnswersQuery PROVE OneDecision'
  BY <1>15, <1>d DEF ChildAnswersQuery, parentVars
<1>16. ASSUME ChildFails PROVE OneDecision'
  <2>1. TerminatedMsg \in ParentMessage /\ TerminatedMsg.type # "response"
    BY DEF TerminatedMsg, ParentMessage
  <2>2. ASSUME NEW j \in Nat, ResponseAt(j)' PROVE ResponseAt(j)
    <3>1. mailbox' = Append(mailbox, TerminatedMsg)
      BY <1>16 DEF ChildFails
    <3>2. j \in 1..Len(mailbox) + 1 /\ j # Len(mailbox) + 1
      BY <1>a, <2>1, <2>2, <3>1, AppendProperties, LenProperties DEF ResponseAt
    <3> QED
      BY <1>a, <2>1, <2>2, <3>1, <3>2, AppendProperties DEF ResponseAt
  <2>3. \A j \in Nat : ~CommandAt(j)'
    BY <1>16 DEF ChildFails, CommandAt
  <2> QED
    BY <1>16, <2>2, <2>3 DEF OneDecision, ChildFails
<1> QED
  BY <1>1, <1>2, <1>3, <1>4, <1>5, <1>6, <1>7, <1>8, <1>9, <1>10, <1>11, <1>12, <1>13, <1>14, <1>15, <1>16
  DEF Next, ParentStep, ChildStep, Fault, ReceiveTerminated, Stop

LEMMA NextIInv == IInv /\ [Next]_vars => IInv'
<1>u. ASSUME IInv, UNCHANGED vars PROVE IInv'
  BY <1>u DEF vars, IInv, TypeOK, References, Deliverable, Stashable, Processable, OneDecision,
              CommandAt, ResponseAt, Closure, AcknowledgedIsDurable
<1> SUFFICES ASSUME IInv, Next PROVE IInv'
  BY <1>u
<1> USE ClientsAssumption DEF IInv
<1>0. OneDecision'
  BY DecisionStep
<1>r. DOMAIN requests = 1..Len(requests)
  BY DEF TypeOK
<1>v. {} \in (SUBSET Account) \cup (SUBSET Message)
  OBVIOUS
<1>1. ASSUME NEW c \in Clients, Ask(c) PROVE IInv'
  <2>1. TypeOK'
    BY <1>1 DEF Ask, TypeOK, NoReply, Replies, ParentMessage, RequestMsg, childVars, journalVars
  <2>2. References'
    <3>1. \A i \in DOMAIN requests : i \in DOMAIN requests' /\ requests'[i] = requests[i]
      BY <1>1 DEF Ask, TypeOK
    <3>2. /\ Deliverable \subseteq Deliverable' /\ Stashable \subseteq Stashable'
          /\ Processable \subseteq Processable'
      BY <1>1, <3>1 DEF Ask, Deliverable, Stashable, Processable, journalVars
    <3>3. RequestMsg(Len(requests) + 1) \in Deliverable'
      BY <1>1 DEF Ask, TypeOK, Deliverable, RequestMsg, ParentMessage
    <3>4. mailbox \in Seq(Deliverable') /\ stash \in Seq(Stashable') /\ childMailbox \in Seq(Processable')
      BY <3>2, SeqMonotonic DEF References
    <3> QED
      BY <1>1, <3>3, <3>4 DEF Ask, References, childVars
  <2>3. Closure'
    BY <1>1 DEF Ask, Closure, TypeOK, journalVars
  <2>4. AcknowledgedIsDurable'
    <3>1. DOMAIN replies' = 1..Len(replies) + 1 /\ \A i \in DOMAIN replies : replies'[i] = replies[i]
      BY SMTT(30), <1>1 DEF Ask, TypeOK
    <3>2. ~replies'[Len(replies) + 1].answered
      BY <1>1 DEF Ask, TypeOK, NoReply
    <3>3. \A i \in DOMAIN replies : requests'[i] = requests[i]
      BY <1>1 DEF Ask, TypeOK
    <3> QED
      BY SMTT(30), <1>1, <3>1, <3>2, <3>3 DEF Ask, AcknowledgedIsDurable, TypeOK, journalVars
  <2> QED BY <1>0, <2>1, <2>2, <2>3, <2>4
<1>2. ASSUME ReplayEvent PROVE IInv'
  <2>1. ChildMsg("replay", replayed + 1) \in Processable
    BY <1>2 DEF ReplayEvent, TypeOK, Processable, ChildMsg, ChildMessage
  <2>2. References'
    BY <1>2, <2>1, ChildIsSent, SameReferences DEF ReplayEvent, References, clientVars, journalVars
  <2>3. TypeOK'
    BY <1>2, <2>2, Queued DEF ReplayEvent, TypeOK, clientVars, journalVars
  <2> QED
    BY <1>0, <1>2, <2>2, <2>3, SameClosure, SameAcknowledged DEF ReplayEvent, clientVars, journalVars
<1>3. ASSUME RecoveryCompleted PROVE IInv'
  BY <1>0, <1>3, SameReferences, SameAcknowledged
  DEF RecoveryCompleted, TypeOK, References, Closure, clientVars, childVars, journalVars
<1>4. ASSUME ReceiveCommand PROVE IInv'
  <2> DEFINE m == Head(mailbox)
  <2>1. /\ m.id \in DOMAIN requests /\ IsCommand(requests[m.id]) /\ m.id \in Nat
        /\ Tail(mailbox) \in Seq(Deliverable)
    BY <1>4, ParentReceives DEF ReceiveCommand, Deliverable, ParentMessage
  <2>2. ChildMsg("command", m.id) \in Processable
    BY <2>1 DEF Processable, ChildMsg, ChildMessage
  <2>3. References'
    BY <1>4, <2>1, <2>2, ChildIsSent, SameReferences DEF ReceiveCommand, References, clientVars, journalVars
  <2>4. TypeOK'
    BY <1>4, <2>1, <2>3, Queued DEF ReceiveCommand, TypeOK, clientVars, journalVars
  <2>5. Closure'
    BY <1>4, <2>1 DEF ReceiveCommand, Closure, clientVars
  <2> QED
    BY <1>0, <1>4, <2>3, <2>4, <2>5, SameAcknowledged DEF ReceiveCommand, clientVars, journalVars
<1>5. ASSUME ForwardQuery PROVE IInv'
  <2> DEFINE m == Head(mailbox)
  <2>1. /\ m.id \in DOMAIN requests /\ ~IsCommand(requests[m.id]) /\ m.id \in Nat
        /\ Tail(mailbox) \in Seq(Deliverable)
    BY <1>5, ParentReceives DEF ForwardQuery, Deliverable, ParentMessage
  <2>2. ChildMsg("query", m.id) \in Processable
    BY <2>1 DEF Processable, ChildMsg, ChildMessage
  <2>3. References'
    BY <1>5, <2>1, <2>2, ChildIsSent, SameReferences DEF ForwardQuery, References, clientVars, journalVars
  <2>4. TypeOK'
    BY <1>5, <1>r, <2>1, <2>3, Queued DEF ForwardQuery, TypeOK, clientVars, journalVars
  <2> QED
    BY <1>0, <1>5, <2>3, <2>4, SameClosure, SameAcknowledged DEF ForwardQuery, clientVars, journalVars
<1>6. ASSUME Stopped, faults' \in 0..MaxFaults PROVE IInv'
  <2>1. dropped' \subseteq DOMAIN requests
    BY <1>6, <1>r, HeldAreRequests DEF Stopped, TypeOK
  <2>2. TypeOK'
    BY <1>6, <1>r, <2>1 DEF Stopped, TypeOK, NoWrite, Initial, NoThread, NewThread, Behaviour,
                      ThreadState, NotRemoved, clientVars, journalVars
  <2>3. References'
    BY <1>6 DEF Stopped, References
  <2>4. Closure'
    BY <1>6 DEF Stopped, Closure, NoWrite
  <2> QED
    BY <1>0, <1>6, <2>2, <2>3, <2>4, SameAcknowledged DEF Stopped, clientVars, journalVars
<1>7. ASSUME ReceiveTerminated PROVE IInv'
  BY <1>6, <1>7 DEF ReceiveTerminated, TypeOK
<1>8. ASSUME SendingSuccess PROVE IInv'
  <2>1. Head(mailbox).ok \in BOOLEAN /\ Tail(mailbox) \in Seq(Deliverable)
    BY <1>8, ParentReceives DEF SendingSuccess, Deliverable, ParentMessage
  <2>2. References'
    BY <1>8, <2>1, SameReferences DEF SendingSuccess, References, clientVars, childVars, journalVars
  <2>3. TypeOK'
    BY <1>8, <2>1, <2>2, Queued DEF SendingSuccess, TypeOK, Write, clientVars, childVars, journalVars
  <2>4. Closure'
    BY <1>8 DEF SendingSuccess, Closure, Write, clientVars
  <2> QED
    BY <1>0, <1>8, <2>2, <2>3, <2>4, SameAcknowledged DEF SendingSuccess, clientVars, journalVars
<1>9. ASSUME SendingFailure PROVE IInv'
  <2> DEFINE m == Head(mailbox)
  <2>1. m.ok = FALSE /\ Tail(mailbox) \in Seq(Deliverable)
    BY <1>9, ParentReceives DEF SendingFailure, Deliverable, ParentMessage, IsSuccessResponse
  <2>2. current \in DOMAIN requests
    BY <1>9 DEF SendingFailure, Closure
  <2>3. References'
    BY <1>9, <2>1, SameReferences, ResumeReferences
    DEF SendingFailure, Resume, References, childVars, journalVars
  <2>4. /\ replies' \in Seq(Replies) /\ Len(replies') = Len(replies)
        /\ AcknowledgedIsDurable'
    <3>1. replies' = [replies EXCEPT ![current] = Reply(FALSE, {})]
      BY <1>9, <2>1 DEF SendingFailure
    <3>2. UNCHANGED <<requests, journal>>
      BY <1>9 DEF SendingFailure, journalVars
    <3> QED
      BY <1>v, <2>2, <3>1, <3>2, OneReply
  <2>5. TypeOK'
    BY <1>9, <2>3, <2>4, Queued DEF SendingFailure, Resume, TypeOK, childVars, journalVars
  <2>6. Closure'
    BY <1>9, LastTrace DEF SendingFailure, Resume, Closure
  <2> QED
    BY <1>0, <2>3, <2>4, <2>5, <2>6
<1>10. ASSUME SendingStash PROVE IInv'
  <2>1. Head(mailbox) \in Stashable /\ Tail(mailbox) \in Seq(Deliverable)
    BY <1>10, ParentReceives DEF SendingStash, Stashable
  <2>2. References'
    BY <1>10, <2>1, SameReferences, AppendProperties
    DEF SendingStash, References, clientVars, childVars, journalVars
  <2>3. TypeOK'
    BY <1>10, <2>2, Queued DEF SendingStash, TypeOK, clientVars, childVars, journalVars
  <2> QED
    BY <1>0, <1>10, <2>2, <2>3, SameClosure, SameAcknowledged DEF SendingStash, clientVars, journalVars
<1>11. ASSUME JournalStores PROVE IInv'
  <2>1. mode = "sending" /\ current \in DOMAIN requests /\ IsCommand(requests[current])
    BY <1>11 DEF JournalStores, Closure
  <2> DEFINE e == ToEvent(requests[current], current)
  <2>2. requests[current] \in Request /\ current \in Nat /\ e \in Event
    BY <2>1, ConversionType DEF TypeOK
  <2>3. ToCommandRequest(e) \in Request /\ IsCommand(ToCommandRequest(e))
    BY <2>2, ConversionType
  <2>4. Durable \in Behaviour
    BY DEF TypeOK, Durable
  <2>5. After(Durable, ToCommandRequest(e)) \in Behaviour
    BY <2>3, <2>4, AfterType
  <2>6. /\ journal' \in Seq(Event) /\ Len(journal') = Len(journal) + 1
        /\ journal'[Len(journal) + 1] = e
        /\ \A k \in DOMAIN journal : k \in DOMAIN journal' /\ journal'[k] = journal[k]
        /\ Len(journal) + 1 \in DOMAIN journal'
    BY SMTT(30), <1>11, <2>2, AppendProperties, LenProperties DEF JournalStores, TypeOK
  <2>7. states' \in Seq(Behaviour) /\ Len(states') = Len(states) + 1
    BY <1>11, <2>5, AppendProperties DEF JournalStores, TypeOK
  <2>8. TypeOK'
    <3>1. write' \in [status : {"none", "inflight", "stored", "rejected"}, ok : BOOLEAN]
      BY <1>11 DEF JournalStores, TypeOK
    <3> QED
      BY SMTT(30), <1>11, <2>6, <2>7, <3>1 DEF JournalStores, TypeOK, clientVars
  <2>9. References'
    <3>1. Processable \subseteq Processable'
      BY <1>11, <2>6 DEF JournalStores, Processable, clientVars
    <3>2. Deliverable' = Deliverable /\ Stashable' = Stashable
      BY <1>11 DEF JournalStores, Deliverable, Stashable, clientVars
    <3> QED
      BY <1>11, <3>1, <3>2, SeqMonotonic DEF JournalStores, References
  <2>10. Closure'
    BY <1>11, <2>1, <2>6 DEF JournalStores, Closure, clientVars
  <2>11. AcknowledgedIsDurable'
    <3>1. requests' = requests /\ replies' = replies
      BY <1>11 DEF JournalStores, clientVars
    <3> QED
      BY <2>6, <3>1 DEF AcknowledgedIsDurable
  <2> QED
    BY <1>0, <1>11, <2>8, <2>9, <2>10, <2>11
<1>12. ASSUME Persisted PROVE IInv'
  <2>1. current \in DOMAIN requests /\ write.ok \in BOOLEAN
    BY <1>12 DEF Persisted, Closure, TypeOK
  <2>2. \E k \in DOMAIN journal : journal[k] = ToEvent(requests[current], current)
    BY <1>12 DEF Persisted, Closure
  <2>3. /\ replies' \in Seq(Replies) /\ Len(replies') = Len(replies)
        /\ AcknowledgedIsDurable'
    <3>1. replies' = [replies EXCEPT ![current] = Reply(write.ok, {})]
      BY <1>12 DEF Persisted
    <3>2. UNCHANGED <<requests, journal>>
      BY <1>12 DEF Persisted, journalVars
    <3> QED
      BY <1>v, <2>1, <2>2, <3>1, <3>2, OneReply
  <2>4. References'
    <3>1. mailbox' \in Seq(Deliverable) /\ stash' \in Seq(Stashable)
      BY <1>12, ResumeReferences DEF Persisted, References
    <3> QED
      BY <1>12, <3>1, SameReferences DEF Persisted, References, childVars, journalVars
  <2>5. TypeOK'
    BY <1>12, <2>3, <2>4, Queued DEF Persisted, Resume, TypeOK, NoWrite, childVars, journalVars
  <2>6. Closure'
    BY <1>12 DEF Persisted, Resume, Closure, NoWrite
  <2> QED
    BY <1>0, <1>12, <2>3, <2>4, <2>5, <2>6
<1>13. ASSUME JournalRejects PROVE IInv'
  <2>1. References'
    BY <1>13, SameReferences DEF JournalRejects, References, clientVars, childVars, journalVars
  <2>2. TypeOK'
    <3>1. write' \in [status : {"none", "inflight", "stored", "rejected"}, ok : BOOLEAN]
      BY <1>13 DEF JournalRejects, TypeOK
    <3> QED
      BY SMTT(30), <1>13, <3>1 DEF JournalRejects, TypeOK, clientVars, childVars, journalVars
  <2>3. Closure'
    BY <1>13 DEF JournalRejects, Closure, TypeOK, clientVars
  <2> QED
    BY <1>0, <1>13, <2>1, <2>2, <2>3, SameAcknowledged DEF JournalRejects, clientVars, journalVars
<1>14. ASSUME ChildReplays PROVE IInv'
  <2>1. Head(childMailbox) \in Processable /\ Tail(childMailbox) \in Seq(Processable)
    BY <1>14, ChildReceives DEF ChildReplays
  <2>2. ChildRequest(Head(childMailbox)) \in Request /\ IsCommand(ChildRequest(Head(childMailbox)))
    BY <1>14, <2>1, ConversionType DEF ChildReplays, ChildRequest, Processable, TypeOK
  <2>3. child' \in Behaviour
    BY <1>14, <2>2, AliveType, AfterType DEF ChildReplays
  <2>4. References'
    BY <1>14, <2>1, <2>3, SameReferences, Alive DEF ChildReplays, References, clientVars, parentVars, journalVars
  <2>5. TypeOK'
    BY <1>14, <2>3, <2>4, Queued DEF ChildReplays, TypeOK, clientVars, parentVars, journalVars
  <2> QED
    BY <1>0, <1>14, <2>4, <2>5, SameClosure, SameAcknowledged
    DEF ChildReplays, clientVars, parentVars, journalVars
<1>15. ASSUME ChildHandlesCommand PROVE IInv'
  <2> DEFINE m == Head(childMailbox)
             c == ChildRequest(m)
  <2>1. m \in Processable /\ Tail(childMailbox) \in Seq(Processable)
    BY <1>15, ChildReceives DEF ChildHandlesCommand
  <2>2. c \in Request /\ IsCommand(c) /\ m.id \in Nat
    BY <1>15, <2>1 DEF ChildHandlesCommand, ChildRequest, Processable, ChildMessage, TypeOK
  <2>3. child' \in Behaviour /\ Accepts(child, c) \in BOOLEAN
    BY <1>15, <2>2, AliveType, AfterType DEF ChildHandlesCommand
  <2>4. ResponseMsg(m.id, Accepts(child, c)) \in Deliverable
    BY <2>2, <2>3 DEF ResponseMsg, Deliverable, ParentMessage
  <2>5. mailbox' \in Seq(Deliverable)
    BY <1>15, <2>4, AppendProperties DEF ChildHandlesCommand, References
  <2>6. References'
    BY <1>15, <2>1, <2>3, <2>5, SameReferences, Alive
    DEF ChildHandlesCommand, References, clientVars, journalVars
  <2>7. TypeOK'
    BY <1>15, <2>3, <2>6, Queued DEF ChildHandlesCommand, TypeOK, clientVars, journalVars
  <2> QED
    BY <1>0, <1>15, <2>6, <2>7, SameClosure, SameAcknowledged
    DEF ChildHandlesCommand, clientVars, journalVars
<1>16. ASSUME ChildAnswersQuery PROVE IInv'
  <2> DEFINE m == Head(childMailbox)
             c == ChildRequest(m)
             a == Answer(child, c)
  <2>1. m \in Processable /\ Tail(childMailbox) \in Seq(Processable)
    BY <1>16, ChildReceives DEF ChildAnswersQuery
  <2>2. /\ m.id \in DOMAIN requests /\ c = requests[m.id]
        /\ c \in Request /\ ~IsCommand(c)
    BY SMTT(30), <1>16, <2>1 DEF ChildAnswersQuery, ChildRequest, Processable, TypeOK
  <2>3. a.right \in BOOLEAN /\ a.value \in (SUBSET Account) \cup (SUBSET Message)
    BY <1>16, <2>2, AliveType, AnswerType DEF ChildAnswersQuery
  <2>4. References'
    BY <1>16, <2>1, SameReferences, AliveType, Alive
    DEF ChildAnswersQuery, References, parentVars, journalVars
  <2>5. /\ replies' \in Seq(Replies) /\ Len(replies') = Len(replies)
        /\ AcknowledgedIsDurable'
    <3>1. CASE Answers(child, c)
      <4>1. replies' = [replies EXCEPT ![m.id] = Reply(a.right, a.value)]
        BY <1>16, <3>1 DEF ChildAnswersQuery
      <4>2. UNCHANGED <<requests, journal>>
        BY <1>16 DEF ChildAnswersQuery, journalVars
      <4>3. ~IsCommand(requests[m.id])
        BY <2>2
      <4>4. TypeOK /\ AcknowledgedIsDurable
        OBVIOUS
      <4> HIDE DEF m, c, a, IInv
      <4> QED
        BY <2>2, <2>3, <4>1, <4>2, <4>3, <4>4, OneReply
    <3>2. CASE ~Answers(child, c)
      BY <1>16, <3>2, SameAcknowledged DEF ChildAnswersQuery, journalVars, TypeOK
    <3> QED
      BY <3>1, <3>2
  <2>6. dropped' \subseteq DOMAIN requests
    BY <1>16, <1>r, <2>2 DEF ChildAnswersQuery, TypeOK
  <2>7. TypeOK'
    BY <1>16, <1>r, <2>4, <2>5, <2>6, Queued DEF ChildAnswersQuery, TypeOK, parentVars, journalVars
  <2> QED
    BY <1>0, <1>16, <2>4, <2>5, <2>7, SameClosure DEF ChildAnswersQuery, parentVars, journalVars
<1>17. ASSUME ChildFails PROVE IInv'
  <2>1. TerminatedMsg \in Deliverable
    BY DEF TerminatedMsg, Deliverable, ParentMessage
  <2>2. References'
    BY <1>17, <2>1, SameReferences, AppendProperties DEF ChildFails, References, clientVars, journalVars
  <2>3. IdsOf(childMailbox, "query") \subseteq DOMAIN requests
    BY HeldAreRequests DEF Held
  <2>4. TypeOK'
    <3>1. dropped' \subseteq 1..Len(requests)
      <4>1. dropped' = dropped \cup IdsOf(childMailbox, "query") /\ dropped \subseteq 1..Len(requests)
        BY <1>17 DEF ChildFails, TypeOK
      <4> QED
        BY <1>r, <2>3, <4>1
    <3>2. faults' \in 0..MaxFaults
      BY <1>17 DEF ChildFails, TypeOK
    <3> QED
      BY <1>17, <2>2, <3>1, <3>2, Queued DEF ChildFails, TypeOK, clientVars, journalVars
  <2> QED
    BY <1>0, <1>17, <2>2, <2>4, SameClosure, SameAcknowledged DEF ChildFails, clientVars, journalVars
<1>18. ASSUME Stop PROVE IInv'
  BY <1>6, <1>18 DEF Stop, TypeOK
<1> QED
  BY <1>1, <1>2, <1>3, <1>4, <1>5, <1>7, <1>8, <1>9, <1>10, <1>11, <1>12, <1>13, <1>14, <1>15,
     <1>16, <1>17, <1>18 DEF Next, ParentStep, ChildStep, Fault

-----------------------------------------------------------------------------

LEMMA IInvHolds == Spec => []IInv
<1> QED
  BY InitIInv, NextIInv, PTL DEF Spec

(***************************************************************************)
(* Every variable keeps its type; in particular recovery never reads past  *)
(* the end of the journal.                                                 *)
(***************************************************************************)
THEOREM TypeCorrect == Spec => []TypeOK
<1>1. IInv => TypeOK
  BY DEF IInv
<1> QED
  BY <1>1, IInvHolds, PTL

(***************************************************************************)
(* A client that was told its command succeeded finds the event in the     *)
(* journal: receiveCommand and sending reply from the persistAsync handler *)
(* only, and a failure is never reported as a success.                     *)
(***************************************************************************)
THEOREM AcknowledgedDurably == Spec => []AcknowledgedIsDurable
<1>1. IInv => AcknowledgedIsDurable
  BY DEF IInv
<1> QED
  BY <1>1, IInvHolds, PTL

-----------------------------------------------------------------------------
(* What every state of the journal keeps of the domain model's promises.   *)

AllSound == \A k \in DOMAIN states : Sound(states[k])

LEMMA InitAllSound == Init => AllSound
<1>1. Sound(Initial)
  BY FS_EmptySet, MessagesLimitAssumption DEF Sound, Initial, NoThread, NewThread
<1> QED
  BY <1>1 DEF Init, AllSound

\* The journal grows by commands that were sent, and nothing else changes states.
LEMMA NextAllSound == IInv /\ AllSound /\ [Next]_vars => AllSound'
<1> SUFFICES ASSUME IInv, AllSound, [Next]_vars PROVE AllSound'
  OBVIOUS
<1> USE DEF IInv
<1>1. CASE JournalStores
  <2> DEFINE c == requests[current]
             b == After(Durable, c)
  <2>1. current \in DOMAIN requests /\ IsCommand(c)
    BY <1>1 DEF JournalStores, Closure
  <2>2. c \in Clients /\ c \in Request /\ current \in Nat
    BY <2>1, ClientsAssumption DEF TypeOK
  <2>3. Durable \in Behaviour /\ Sound(Durable) /\ Len(states) \in Nat
    BY DEF TypeOK, Durable, AllSound
  <2>4. Sound(b) /\ b \in Behaviour
    BY <2>1, <2>2, <2>3, AfterSound, AfterType, BatchesAssumption, CreatorsAssumption
  <2>5. states' = Append(states, b)
    BY <1>1, <2>1, <2>2, ReplayIsTheCommand DEF JournalStores
  <2>6. \A k \in DOMAIN states' : (k \in DOMAIN states /\ states'[k] = states[k]) \/ states'[k] = b
    BY <2>4, <2>5, AppendProperties DEF TypeOK
  <2> QED
    BY <2>4, <2>6 DEF AllSound
<1>2. CASE ~JournalStores
  <2>1. states' = states
    BY <1>2 DEF Next, vars, Ask, ParentStep, ReplayEvent, RecoveryCompleted, ReceiveCommand,
                ForwardQuery, ReceiveTerminated, Stopped, SendingSuccess, SendingFailure,
                SendingStash, Persisted, ChildStep, ChildReplays, ChildHandlesCommand,
                ChildAnswersQuery, Fault, JournalRejects, ChildFails, Stop, journalVars
  <2> QED
    BY <2>1 DEF AllSound
<1> QED
  BY <1>1, <1>2

LEMMA AllSoundHolds == Spec => []AllSound
<1> QED
  BY InitAllSound, NextAllSound, IInvHolds, PTL DEF Spec

(***************************************************************************)
(* Whatever is asked in whatever order, a thread that exists has an        *)
(* administrator: LeaveAdministratorIds refuses to remove the last one     *)
(* (AdministratorIds.filterNot).                                           *)
(***************************************************************************)
THEOREM AlwaysAdministered == Spec => []AdministratorsNeverEmpty
<1>1. AllSound => AdministratorsNeverEmpty
  BY DEF AllSound, Sound, AdministratorsNeverEmpty
<1> QED
  BY <1>1, AllSoundHolds, PTL

(***************************************************************************)
(* No thread ever holds more than Thread.MessagesLimit messages: addMessages*)
(* counts the batch before it adds it.                                     *)
(***************************************************************************)
THEOREM LimitRespected == Spec => []MessagesWithinLimit
<1>1. AllSound => MessagesWithinLimit
  BY DEF AllSound, Sound, MessagesWithinLimit
<1> QED
  BY <1>1, AllSoundHolds, PTL

=============================================================================
