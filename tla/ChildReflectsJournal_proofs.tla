--------------------- MODULE ChildReflectsJournal_proofs ---------------------
(***************************************************************************)
(* The child's state is the one the journal stands for, up to the replays  *)
(* it has still to process and the one command that is being decided.      *)
(***************************************************************************)
EXTENDS PersistentThreadAggregate_proofs

\* states is what the journal leads to, event by event.
StatesFollow ==
  /\ states[1] = Initial
  /\ \A k \in DOMAIN journal : states[k + 1] = After(states[k], ToCommandRequest(journal[k]))

\* Recovery ends when the whole journal has been handed over; a stop forgets all.
Recovered ==
  /\ mode \in {"ready", "sending"} => replayed = Len(journal)
  /\ mode = "stopped" => /\ child = Initial /\ childMailbox = <<>>
                         /\ replayed = 0 /\ applied = 0

(***************************************************************************)
(* In the queue s of a child that reflects a events, when r have been      *)
(* handed over: the replays of the events a + 1 .. r come first.           *)
(***************************************************************************)
Backlog(s, a, r) ==
  /\ a <= r /\ r - a <= Len(s)
  /\ \A j \in DOMAIN s : /\ s[j].type = "replay" <=> j <= r - a
                         /\ s[j].type = "replay" => s[j].id = a + j

Backlogged ==
  child # Dead => /\ Backlog(childMailbox, applied, replayed)
                  /\ mode = "recovering" => Len(childMailbox) = replayed - applied

\* The child has decided the current command and its event is not stored.
HasDecided ==
  /\ mode = "sending" /\ write.status # "stored"
  /\ \A j \in Nat : ~CommandAt(j)

ChildState ==
  child # Dead => /\ HasDecided => applied = replayed
                  /\ child = IF HasDecided THEN After(Durable, requests[current])
                             ELSE states[applied + 1]

\* The response says what a decision against the journal would say.
Verdict ==
  \A j \in Nat : ResponseAt(j) => /\ Answers(Durable, requests[current])
                                  /\ mailbox[j].ok = Accepts(Durable, requests[current])

SyncInv == IInv /\ StatesFollow /\ Recovered /\ Backlogged /\ ChildState /\ Verdict

-----------------------------------------------------------------------------
(* The queue of a child that is alive.                                     *)

\* A command or a query queues behind the replays.
LEMMA BacklogOther ==
  ASSUME NEW s \in Seq(ChildMessage), NEW a \in Nat, NEW r \in Nat, Backlog(s, a, r),
         NEW m \in ChildMessage, m.type # "replay"
  PROVE  Backlog(Append(s, m), a, r)
<1>1. /\ Len(s) \in Nat /\ DOMAIN s = 1..Len(s) /\ Len(Append(s, m)) = Len(s) + 1
      /\ DOMAIN Append(s, m) = 1..Len(s) + 1
      /\ Append(s, m)[Len(s) + 1] = m
      /\ \A j \in 1..Len(s) : Append(s, m)[j] = s[j]
  BY AppendProperties, LenProperties
<1>2. \A j \in 1..Len(s) + 1 : j \in 1..Len(s) \/ (j = Len(s) + 1 /\ ~(j <= r - a))
  BY <1>1 DEF Backlog
<1> QED
  BY <1>1, <1>2 DEF Backlog

\* The next event queues behind the replays when nothing else has.
LEMMA BacklogReplay ==
  ASSUME NEW s \in Seq(ChildMessage), NEW a \in Nat, NEW r \in Nat, Backlog(s, a, r),
         Len(s) = r - a
  PROVE  LET t == Append(s, ChildMsg("replay", r + 1))
         IN  Backlog(t, a, r + 1) /\ Len(t) = r + 1 - a
<1> DEFINE m == ChildMsg("replay", r + 1)
           t == Append(s, m)
<1>0. m \in ChildMessage /\ m.type = "replay" /\ m.id = r + 1
  BY DEF ChildMsg, ChildMessage
<1> HIDE DEF m
<1>1. /\ Len(s) \in Nat /\ DOMAIN s = 1..Len(s) /\ Len(t) = Len(s) + 1
      /\ DOMAIN t = 1..Len(s) + 1 /\ t[Len(s) + 1] = m
      /\ \A j \in 1..Len(s) : t[j] = s[j]
  BY <1>0, AppendProperties, LenProperties
<1>2. \A j \in 1..Len(s) + 1 : /\ j \in 1..Len(s) \/ j = Len(s) + 1
                               /\ j <= r + 1 - a
  BY <1>1
<1>3. \A j \in 1..Len(s) : s[j].type = "replay" /\ s[j].id = a + j
  BY <1>1 DEF Backlog
<1>4. r + 1 = a + (Len(s) + 1)
  BY <1>1
<1>5. \A j \in DOMAIN t : t[j].type = "replay" /\ t[j].id = a + j /\ j <= r + 1 - a
  BY <1>0, <1>1, <1>2, <1>3, <1>4
<1>6. a <= r + 1 /\ r + 1 - a <= Len(t) /\ Len(t) = r + 1 - a
  BY <1>1 DEF Backlog
<1> QED
  BY <1>5, <1>6 DEF Backlog, m

\* The child takes the head: the next event, or something else when none is left.
LEMMA BacklogTail ==
  ASSUME NEW s \in Seq(ChildMessage), NEW a \in Nat, NEW r \in Nat, Backlog(s, a, r), s # <<>>
  PROVE  /\ Head(s).type = "replay" => /\ Head(s).id = a + 1 /\ a < r
                                       /\ Backlog(Tail(s), a + 1, r)
         /\ Head(s).type # "replay" => a = r /\ Backlog(Tail(s), a, r)
<1>1. /\ Len(s) \in Nat \ {0} /\ DOMAIN s = 1..Len(s) /\ s[1] = Head(s) /\ 1 \in DOMAIN s
      /\ Len(Tail(s)) = Len(s) - 1 /\ DOMAIN Tail(s) = 1..Len(s) - 1
      /\ \A j \in 1..Len(s) - 1 : Tail(s)[j] = s[j + 1]
  BY Shift, HeadTailProperties, LenProperties
<1>2. \A j \in 1..Len(s) - 1 : j + 1 \in 1..Len(s)
  BY <1>1
<1>3. \A j \in DOMAIN Tail(s) : /\ Tail(s)[j].type = "replay" <=> j + 1 <= r - a
                                /\ Tail(s)[j].type = "replay" => Tail(s)[j].id = a + (j + 1)
  BY <1>1, <1>2 DEF Backlog
<1>4. Head(s).type = "replay" <=> 1 <= r - a
  BY <1>1 DEF Backlog
<1>5. a <= r /\ r - a <= Len(s)
  BY DEF Backlog
<1>6. CASE Head(s).type = "replay"
  <2>1. a < r /\ Head(s).id = a + 1
    BY <1>1, <1>4, <1>6 DEF Backlog
  <2>2. a + 1 <= r /\ r - (a + 1) <= Len(Tail(s))
    BY <1>1, <1>5, <2>1
  <2>3. \A j \in 1..Len(s) - 1 : (j + 1 <= r - a <=> j <= r - (a + 1)) /\ a + (j + 1) = (a + 1) + j
    BY <1>1
  <2> QED
    BY <1>1, <1>3, <1>6, <2>1, <2>2, <2>3 DEF Backlog
<1>7. CASE Head(s).type # "replay"
  <2>1. a = r
    BY <1>4, <1>5, <1>7
  <2>2. a <= r /\ r - a <= Len(Tail(s))
    BY <1>1, <2>1
  <2>3. \A j \in 1..Len(s) - 1 : ~(j + 1 <= r - a) /\ ~(j <= r - a)
    BY <1>1, <2>1
  <2> QED
    BY <1>1, <1>3, <1>7, <2>1, <2>2, <2>3 DEF Backlog
<1> QED
  BY <1>6, <1>7

-----------------------------------------------------------------------------

LEMMA InitSyncInv == Init => SyncInv
<1> SUFFICES ASSUME Init PROVE SyncInv
  OBVIOUS
<1> USE DEF Init
<1>1. IInv
  BY InitIInv
<1>2. StatesFollow /\ Recovered
  BY DEF StatesFollow, Recovered
<1>3. Backlogged
  BY DEF Backlogged, Backlog
<1>4. ChildState
  BY DEF ChildState, HasDecided
<1>5. Verdict
  BY DEF Verdict, ResponseAt
<1> QED
  BY <1>1, <1>2, <1>3, <1>4, <1>5 DEF SyncInv

\* Only a stored event extends the states.
LEMMA SameStates ==
  ASSUME [Next]_vars, ~JournalStores
  PROVE  UNCHANGED <<journal, states>>
BY DEF Next, vars, Ask, ParentStep, ReplayEvent, RecoveryCompleted, ReceiveCommand,
       ForwardQuery, ReceiveTerminated, Stopped, SendingSuccess, SendingFailure,
       SendingStash, Persisted, ChildStep, ChildReplays, ChildHandlesCommand,
       ChildAnswersQuery, Fault, JournalRejects, ChildFails, Stop, journalVars

\* A stored event extends them by what the stored command leads to.
LEMMA StoredState ==
  ASSUME IInv, JournalStores
  PROVE  /\ Len(journal') = Len(journal) + 1 /\ Len(states') = Len(states) + 1
         /\ Len(states) = Len(journal) + 1 /\ Len(journal) \in Nat
         /\ \A k \in 1..Len(journal) : journal'[k] = journal[k]
         /\ \A k \in 1..Len(states) : states'[k] = states[k]
         /\ ToCommandRequest(journal'[Len(journal) + 1]) = requests[current]
         /\ states'[Len(states) + 1] = After(Durable, requests[current])
<1> USE DEF IInv
<1> DEFINE c == requests[current]
<1>1. current \in DOMAIN requests /\ IsCommand(c)
  BY DEF JournalStores, Closure
<1>2. c \in Request /\ current \in Nat
  BY <1>1, ClientsAssumption DEF TypeOK
<1>3. ToCommandRequest(ToEvent(c, current)) = c /\ ToEvent(c, current) \in Event
  BY <1>1, <1>2, ReplayIsTheCommand, ConversionType
<1>4. /\ journal' = Append(journal, ToEvent(c, current))
      /\ states' = Append(states, After(Durable, c))
  BY <1>3 DEF JournalStores
<1>5. Durable \in Behaviour /\ After(Durable, c) \in Behaviour
  BY <1>1, <1>2, AfterType DEF TypeOK, Durable
<1> QED
  BY <1>3, <1>4, <1>5, AppendProperties, LenProperties DEF TypeOK

LEMMA StatesStep == SyncInv /\ [Next]_vars => StatesFollow'
<1> SUFFICES ASSUME SyncInv, [Next]_vars PROVE StatesFollow'
  OBVIOUS
<1> USE DEF SyncInv
<1>0. journal \in Seq(Event) /\ DOMAIN journal = 1..Len(journal)
  BY DEF IInv, TypeOK
<1>1. CASE JournalStores
  <2>1. journal' \in Seq(Event)
    BY NextIInv DEF IInv, TypeOK
  <2>2. DOMAIN journal' = 1..Len(journal) + 1
    BY <1>1, <2>1, StoredState
  <2>3. states'[1] = Initial
    BY <1>1, StoredState DEF StatesFollow
  <2>4. ASSUME NEW k \in 1..Len(journal)
        PROVE  states'[k + 1] = After(states'[k], ToCommandRequest(journal'[k]))
    <3>1. k \in 1..Len(states) /\ k + 1 \in 1..Len(states)
      BY <1>1, StoredState
    <3> QED
      BY <1>0, <1>1, <3>1, StoredState DEF StatesFollow
  <2>5. states'[Len(states) + 1] = After(states'[Len(states)], ToCommandRequest(journal'[Len(journal) + 1]))
    BY <1>1, StoredState DEF Durable
  <2>6. \A k \in DOMAIN journal' : k \in 1..Len(journal) \/ k = Len(journal) + 1
    BY <1>1, <2>2, StoredState
  <2>7. Len(states) = Len(journal) + 1
    BY <1>1, StoredState
  <2> QED
    BY <2>3, <2>4, <2>5, <2>6, <2>7 DEF StatesFollow
<1>2. CASE ~JournalStores
  BY <1>2, SameStates DEF StatesFollow
<1> QED
  BY <1>1, <1>2

\* Recovery and stops keep their account of the journal.
LEMMA RecoveredStep == SyncInv /\ [Next]_vars => Recovered'
<1> SUFFICES ASSUME SyncInv, [Next]_vars PROVE Recovered'
  OBVIOUS
<1> USE DEF SyncInv
<1>1. CASE JournalStores
  <2>1. mode' = "sending"
    BY <1>1 DEF JournalStores, IInv, Closure
  <2>2. replayed' = Len(journal')
    BY <1>1, <2>1, StoredState DEF JournalStores, Recovered, IInv, TypeOK
  <2> QED
    BY <2>1, <2>2 DEF Recovered
<1>2. CASE ~JournalStores /\ mode = "stopped"
  BY <1>2 DEF Next, vars, Ask, ParentStep, ReplayEvent, RecoveryCompleted, ReceiveCommand,
     ForwardQuery, ReceiveTerminated, SendingSuccess, SendingFailure, SendingStash, Persisted,
     ChildStep, ChildReplays, ChildHandlesCommand, ChildAnswersQuery, Fault, JournalRejects,
     ChildFails, Stop, Recovered, IInv, Closure, childVars
<1>3. CASE ~JournalStores /\ mode # "stopped" /\ Stopped
  BY <1>3 DEF Stopped, Recovered
<1>4. CASE ~JournalStores /\ mode # "stopped" /\ ~Stopped
  BY <1>4 DEF Next, vars, Ask, ParentStep, ReplayEvent, RecoveryCompleted, ReceiveCommand,
     ForwardQuery, ReceiveTerminated, SendingSuccess, SendingFailure, SendingStash, Persisted,
     Resume, ChildStep, ChildReplays, ChildHandlesCommand, ChildAnswersQuery, Fault,
     JournalRejects, ChildFails, Stop, Recovered, IInv, Closure, parentVars, childVars, journalVars
<1> QED
  BY <1>1, <1>2, <1>3, <1>4

\* Whoever sends to the child or takes from its queue keeps the replays in front.
LEMMA BackloggedStep == SyncInv /\ [Next]_vars => Backlogged'
<1> SUFFICES ASSUME SyncInv, [Next]_vars PROVE Backlogged'
  OBVIOUS
<1> USE DEF SyncInv
<1>t. /\ childMailbox \in Seq(ChildMessage) /\ replayed \in Nat /\ applied \in Nat
      /\ mailbox \in Seq(ParentMessage)
  BY LenProperties DEF IInv, TypeOK
<1>a. ASSUME UNCHANGED <<child, childMailbox, applied, replayed>>,
             mode' = "recovering" => mode = "recovering" \/ mode = "stopped"
      PROVE  Backlogged'
  BY <1>a DEF Backlogged, Recovered
<1>b. ASSUME NEW m \in ChildMessage, m.type # "replay", SendToChild(m),
             UNCHANGED <<child, applied, replayed>>, mode' # "recovering"
      PROVE  Backlogged'
  <2>1. CASE child = Dead
    BY <1>b, <2>1 DEF Backlogged
  <2>2. CASE child # Dead
    BY <1>b, <1>t, <2>2, BacklogOther DEF Backlogged, SendToChild
  <2> QED
    BY <2>1, <2>2
<1>c. ASSUME childMailbox # <<>>, childMailbox' = Tail(childMailbox)
      PROVE  /\ child # Dead /\ Backlog(childMailbox, applied, replayed)
             /\ Len(childMailbox) \in Nat /\ Len(childMailbox') = Len(childMailbox) - 1
  BY <1>c, <1>t, HeadTailProperties, LenProperties DEF Backlogged, IInv, References
<1>1. ASSUME NEW c \in Clients, Ask(c) PROVE Backlogged'
  BY <1>1, <1>a DEF Ask, childVars
<1>2. ASSUME ReplayEvent PROVE Backlogged'
  <2>1. CASE child = Dead
    BY <1>2, <2>1 DEF ReplayEvent, Backlogged
  <2>2. CASE child # Dead
    BY <1>2, <1>t, <2>2, BacklogReplay DEF ReplayEvent, Backlogged, SendToChild
  <2> QED
    BY <2>1, <2>2
<1>3. ASSUME RecoveryCompleted PROVE Backlogged'
  BY <1>3, <1>a DEF RecoveryCompleted, childVars
<1>4. ASSUME ReceiveCommand PROVE Backlogged'
  <2>1. LET m == ChildMsg("command", Head(mailbox).id) IN m \in ChildMessage /\ m.type # "replay"
    BY <1>4, <1>t, SentToChild DEF ReceiveCommand
  <2> QED
    BY <1>4, <1>b, <2>1 DEF ReceiveCommand
<1>5. ASSUME ForwardQuery PROVE Backlogged'
  <2>1. LET m == ChildMsg("query", Head(mailbox).id) IN m \in ChildMessage /\ m.type # "replay"
    BY <1>5, <1>t, SentToChild DEF ForwardQuery
  <2> QED
    BY <1>5, <1>b, <2>1 DEF ForwardQuery
<1>6. ASSUME Stopped PROVE Backlogged'
  BY <1>6 DEF Stopped, Backlogged, Backlog
<1>7. ASSUME SendingSuccess \/ SendingFailure \/ SendingStash \/ Persisted \/ JournalRejects
      PROVE  Backlogged'
  BY <1>7, <1>a DEF SendingSuccess, SendingFailure, SendingStash, Persisted, JournalRejects,
                    Resume, childVars
<1>8. ASSUME JournalStores PROVE Backlogged'
  <2>1. mode' = "sending"
    BY <1>8 DEF JournalStores, IInv, Closure
  <2>2. ASSUME child # Dead PROVE Backlog(childMailbox, applied + 1, replayed + 1)
    <3>1. Backlog(childMailbox, applied, replayed) /\ applied = replayed
      BY <1>8, <2>2, Quiet DEF JournalStores, Backlogged, ChildState, HasDecided, IInv, Closure
    <3>2. \A j \in DOMAIN childMailbox : j \in Nat \ {0}
      BY <1>t, LenProperties
    <3>3. \A j \in DOMAIN childMailbox : childMailbox[j].type # "replay"
      BY <1>t, <3>1, <3>2 DEF Backlog
    <3> QED
      BY <1>t, <3>1, <3>2, <3>3, LenProperties DEF Backlog
  <2> QED
    BY <1>8, <2>1, <2>2 DEF JournalStores, Backlogged
<1>9. ASSUME ChildReplays PROVE Backlogged'
  <2>1. /\ Backlog(Tail(childMailbox), applied + 1, replayed)
        /\ childMailbox' = Tail(childMailbox) /\ applied' = applied + 1
        /\ replayed' = replayed /\ mode' = mode /\ child # Dead
    BY <1>9, <1>c, <1>t, BacklogTail DEF ChildReplays, parentVars
  <2>2. mode' = "recovering" => Len(childMailbox') = replayed' - applied'
    BY <1>9, <1>c, <1>t, <2>1 DEF ChildReplays, Backlogged
  <2> QED
    BY <2>1, <2>2 DEF Backlogged
<1>10. ASSUME ChildHandlesCommand \/ ChildAnswersQuery PROVE Backlogged'
  <2>1. /\ applied = replayed /\ Backlog(Tail(childMailbox), applied, replayed)
        /\ childMailbox' = Tail(childMailbox) /\ applied' = applied
        /\ replayed' = replayed /\ mode' = mode /\ child # Dead
    BY <1>10, <1>c, <1>t, BacklogTail DEF ChildHandlesCommand, ChildAnswersQuery, parentVars
  <2>2. mode # "recovering"
    BY <1>10, <1>t, <2>1, HeadTailProperties, LenProperties
    DEF ChildHandlesCommand, ChildAnswersQuery, Backlogged
  <2> QED
    BY <2>1, <2>2 DEF Backlogged
<1>11. ASSUME ChildFails PROVE Backlogged'
  BY <1>11 DEF ChildFails, Backlogged
<1>12. CASE UNCHANGED vars
  BY <1>12, <1>a DEF vars
<1> QED
  BY <1>1, <1>2, <1>3, <1>4, <1>5, <1>6, <1>7, <1>8, <1>9, <1>10, <1>11, <1>12
  DEF Next, ParentStep, ChildStep, Fault, ReceiveTerminated, Stop

-----------------------------------------------------------------------------
(* The state of the child and what it answers.                             *)

\* With no event left to replay the child starts from what the journal stands for.
LEMMA DurableIsNext ==
  ASSUME SyncInv, applied = replayed, mode \in {"ready", "sending"}
  PROVE  states[applied + 1] = Durable
BY DEF SyncInv, Recovered, IInv, TypeOK, Durable

\* A child that has a command to handle has caught up and not decided it.
LEMMA CommandAtHead ==
  ASSUME SyncInv, childMailbox # <<>>, Head(childMailbox).type = "command"
  PROVE  /\ CommandAt(1) /\ ~HasDecided /\ mode = "sending" /\ Head(childMailbox).id = current
         /\ Len(childMailbox) = 1 /\ applied = replayed
         /\ child # Dead /\ child = Durable
         /\ ChildRequest(Head(childMailbox)) = requests[current]
<1> USE DEF SyncInv
<1>1. /\ childMailbox \in Seq(ChildMessage) /\ applied \in Nat /\ replayed \in Nat
      /\ child # Dead
  BY LenProperties DEF IInv, TypeOK, References
<1>2. CommandAt(1) /\ childMailbox[1] = Head(childMailbox)
  BY <1>1, Shift DEF CommandAt
<1>3. mode = "sending" /\ Head(childMailbox).id = current /\ Len(childMailbox) = 1
  BY <1>2 DEF IInv, OneDecision
<1>4. applied = replayed
  BY <1>1, BacklogTail DEF Backlogged
<1>5. ~HasDecided
  BY <1>2 DEF HasDecided
<1>6. child = Durable
  BY <1>1, <1>3, <1>4, <1>5, DurableIsNext DEF ChildState
<1> QED
  BY <1>1, <1>2, <1>3, <1>4, <1>5, <1>6 DEF ChildRequest

\* Whether the child has decided does not depend on the replays and queries it takes.
LEMMA StillDecided ==
  ASSUME childMailbox \in Seq(ChildMessage), childMailbox # <<>>,
         childMailbox' = Tail(childMailbox), Head(childMailbox).type # "command",
         UNCHANGED <<mode, write>>
  PROVE  HasDecided' <=> HasDecided
<1>1. /\ \A j \in DOMAIN childMailbox' :
           j \in Nat /\ j + 1 \in DOMAIN childMailbox /\ childMailbox'[j] = childMailbox[j + 1]
      /\ childMailbox[1] = Head(childMailbox)
      /\ \A j \in DOMAIN childMailbox : j # 1 => j - 1 \in DOMAIN childMailbox'
  BY Shift, HeadTailProperties, LenProperties
<1>2. \A j \in Nat : CommandAt(j)' => j + 1 \in Nat /\ CommandAt(j + 1)
  BY <1>1 DEF CommandAt
<1>3. ASSUME NEW j \in Nat, CommandAt(j) PROVE j - 1 \in Nat /\ CommandAt(j - 1)'
  <2>1. j # 1 /\ j \in DOMAIN childMailbox
    BY <1>1, <1>3 DEF CommandAt
  <2>2. j - 1 \in Nat /\ j - 1 \in DOMAIN childMailbox' /\ (j - 1) + 1 = j
    BY <1>1, <2>1
  <2>3. childMailbox'[j - 1] = childMailbox[j]
    BY <1>1, <2>2
  <2> QED
    BY <1>3, <2>2, <2>3 DEF CommandAt
<1> QED
  BY <1>2, <1>3 DEF HasDecided

\* A command that has just been sent to a child that is alive is not decided.
LEMMA SentUndecided ==
  ASSUME TypeOK, ReceiveCommand, child # Dead
  PROVE  ~HasDecided'
<1> DEFINE m == ChildMsg("command", Head(mailbox).id)
<1>1. mailbox \in Seq(ParentMessage) /\ childMailbox \in Seq(ChildMessage)
  BY DEF TypeOK
<1>2. m \in ChildMessage /\ m.type = "command"
  BY <1>1, SentToChild DEF ReceiveCommand
<1>3. childMailbox' = Append(childMailbox, m)
  BY DEF ReceiveCommand, SendToChild
<1>4. Len(childMailbox) + 1 \in Nat /\ Len(childMailbox) + 1 \in DOMAIN childMailbox'
      /\ childMailbox'[Len(childMailbox) + 1] = m
  BY <1>1, <1>2, <1>3, AppendProperties, LenProperties
<1> QED
  BY <1>2, <1>4 DEF HasDecided, CommandAt

LEMMA ChildStateStep == SyncInv /\ [Next]_vars => ChildState'
<1> SUFFICES ASSUME SyncInv, [Next]_vars PROVE ChildState'
  OBVIOUS
<1> USE DEF SyncInv
<1>t. /\ childMailbox \in Seq(ChildMessage) /\ replayed \in Nat /\ applied \in Nat
      /\ mailbox \in Seq(ParentMessage) /\ DOMAIN childMailbox = 1..Len(childMailbox)
  BY LenProperties DEF IInv, TypeOK
<1>a. ASSUME UNCHANGED <<child, applied, replayed, states, current>>,
             HasDecided' <=> HasDecided, HasDecided => requests'[current] = requests[current]
      PROVE  ChildState'
  BY <1>a DEF ChildState, Durable
<1>b. ASSUME UNCHANGED <<child, applied, states>>, ~HasDecided, ~HasDecided'
      PROVE  ChildState'
  BY <1>b DEF ChildState
<1>1. ASSUME NEW c \in Clients, Ask(c) PROVE ChildState'
  <2>1. HasDecided' <=> HasDecided
    BY <1>1 DEF Ask, HasDecided, CommandAt, childVars
  <2>2. HasDecided => requests'[current] = requests[current]
    BY <1>1 DEF Ask, HasDecided, IInv, Closure, TypeOK
  <2> QED
    BY <1>1, <1>a, <2>1, <2>2 DEF Ask, childVars, journalVars
<1>2. ASSUME ReplayEvent \/ RecoveryCompleted \/ ForwardQuery PROVE ChildState'
  <2>1. ~HasDecided /\ ~HasDecided'
    BY <1>2 DEF ReplayEvent, RecoveryCompleted, ForwardQuery, HasDecided
  <2> QED
    BY <1>2, <1>b, <2>1 DEF ReplayEvent, RecoveryCompleted, ForwardQuery, childVars, journalVars
<1>3. ASSUME ReceiveCommand PROVE ChildState'
  <2>1. CASE child = Dead
    BY <1>3, <2>1 DEF ReceiveCommand, ChildState
  <2>2. CASE child # Dead
    <3>1. ~HasDecided /\ ~HasDecided'
      BY <1>3, <2>2, SentUndecided DEF ReceiveCommand, HasDecided, IInv
    <3> QED
      BY <1>3, <1>b, <3>1 DEF ReceiveCommand, journalVars
  <2> QED
    BY <2>1, <2>2
<1>4. ASSUME Stopped PROVE ChildState'
  BY <1>4 DEF Stopped, ChildState, HasDecided, StatesFollow, journalVars
<1>5. ASSUME SendingSuccess PROVE ChildState'
  <2>1. (\A j \in Nat : ~CommandAt(j)) /\ write.status = "none"
    BY <1>5, LastTrace DEF SendingSuccess, IInv
  <2>2. HasDecided
    BY <1>5, <2>1 DEF SendingSuccess, HasDecided
  <2>3. HasDecided'
    BY <1>5, <2>1 DEF SendingSuccess, HasDecided, CommandAt, Write, childVars
  <2> QED
    BY <1>5, <1>a, <2>2, <2>3 DEF SendingSuccess, clientVars, childVars, journalVars
<1>6. ASSUME SendingFailure PROVE ChildState'
  <2> DEFINE c == requests[current]
  <2>1. (\A j \in Nat : ~CommandAt(j)) /\ write.status = "none" /\ mode = "sending"
    BY <1>6, LastTrace DEF SendingFailure, IInv
  <2>2. HasDecided
    BY <2>1 DEF HasDecided
  <2>3. ~Head(mailbox).ok /\ ResponseAt(1) /\ mailbox[1] = Head(mailbox)
    BY <1>6, <1>t, Shift DEF SendingFailure, IsSuccessResponse, ResponseAt
  <2>4. ~Accepts(Durable, c)
    BY <2>3 DEF Verdict
  <2>5. ASSUME child # Dead PROVE child = states[applied + 1]
    BY <2>1, <2>2, <2>4, <2>5, DurableIsNext DEF ChildState, After
  <2>6. ~HasDecided'
    BY <1>6 DEF SendingFailure, Resume, HasDecided
  <2> QED
    BY <1>6, <2>5, <2>6 DEF SendingFailure, ChildState, childVars, journalVars
<1>7. ASSUME SendingStash PROVE ChildState'
  <2>1. HasDecided' <=> HasDecided
    BY <1>7 DEF SendingStash, HasDecided, CommandAt, childVars
  <2> QED
    BY <1>7, <1>a, <2>1 DEF SendingStash, clientVars, childVars, journalVars
<1>8. ASSUME JournalStores PROVE ChildState'
  <2>1. HasDecided /\ mode = "sending"
    BY <1>8, Quiet DEF JournalStores, HasDecided, IInv, Closure
  <2>2. ~HasDecided'
    <3>1. write'.status = "stored"
      BY <1>8 DEF JournalStores, IInv, TypeOK
    <3> QED
      BY <3>1 DEF HasDecided
  <2>3. ASSUME child # Dead PROVE child = states'[applied + 1 + 1]
    <3>1. child = After(Durable, requests[current]) /\ applied = Len(journal)
      BY <2>1, <2>3 DEF ChildState, Recovered
    <3> QED
      BY <1>8, <3>1, StoredState
  <2> QED
    BY <1>8, <2>2, <2>3 DEF JournalStores, ChildState
<1>9. ASSUME Persisted PROVE ChildState'
  <2>1. ~HasDecided /\ ~HasDecided'
    BY <1>9 DEF Persisted, Resume, HasDecided
  <2> QED
    BY <1>9, <1>b, <2>1 DEF Persisted, childVars, journalVars
<1>10. ASSUME JournalRejects PROVE ChildState'
  <2>1. write.status # "stored" /\ write'.status # "stored"
    BY <1>10 DEF JournalRejects, IInv, TypeOK
  <2>2. HasDecided' <=> HasDecided
    BY <1>10, <2>1 DEF JournalRejects, HasDecided, CommandAt, childVars
  <2> QED
    BY <1>10, <1>a, <2>2 DEF JournalRejects, clientVars, childVars, journalVars
<1>d. childMailbox # <<>> => child # Dead /\ child \in Behaviour
  BY AliveType DEF IInv, References
<1>11. ASSUME ChildReplays PROVE ChildState'
  <2> DEFINE m == Head(childMailbox)
  <2>1. m.type = "replay" /\ m.id = applied + 1 /\ applied < replayed /\ childMailbox # <<>>
    BY <1>11, <1>d, <1>t, BacklogTail DEF ChildReplays, Backlogged
  <2>2. ~HasDecided /\ child = states[applied + 1]
    BY <1>d, <1>t, <2>1 DEF ChildState
  <2>3. ~HasDecided'
    BY <1>11, <1>t, <2>1, <2>2, StillDecided DEF ChildReplays, parentVars
  <2>4. applied + 1 \in DOMAIN journal
    BY <1>11, <2>1, ChildReceives DEF IInv, Processable
  <2>5. child' = states[applied + 1 + 1]
    BY <1>11, <2>1, <2>2, <2>4 DEF ChildReplays, ChildRequest, StatesFollow
  <2> QED
    BY <1>11, <2>3, <2>5 DEF ChildReplays, ChildState, journalVars
<1>12. ASSUME ChildHandlesCommand PROVE ChildState'
  <2>1. /\ mode = "sending" /\ Len(childMailbox) = 1 /\ applied = replayed /\ child = Durable
        /\ ChildRequest(Head(childMailbox)) = requests[current]
        /\ write.status = "none"
    BY <1>12, CommandAtHead DEF ChildHandlesCommand, IInv, OneDecision
  <2>2. child' = After(Durable, requests[current])
    BY <1>12, <2>1 DEF ChildHandlesCommand
  <2>3. HasDecided'
    <3>1. DOMAIN childMailbox' = {}
      BY <1>12, <1>t, <2>1, HeadTailProperties, LenProperties DEF ChildHandlesCommand
    <3> QED
      BY <1>12, <2>1, <3>1 DEF ChildHandlesCommand, HasDecided, CommandAt
  <2> QED
    BY <1>12, <2>1, <2>2, <2>3 DEF ChildHandlesCommand, ChildState, Durable, clientVars, journalVars
<1>13. ASSUME ChildAnswersQuery PROVE ChildState'
  <2>1. HasDecided' <=> HasDecided
    BY <1>13, <1>t, StillDecided DEF ChildAnswersQuery, parentVars
  <2> QED
    BY <1>13, <1>a, <2>1 DEF ChildAnswersQuery, parentVars, journalVars
<1>14. ASSUME ChildFails PROVE ChildState'
  BY <1>14 DEF ChildFails, ChildState
<1>15. CASE UNCHANGED vars
  <2>1. HasDecided' <=> HasDecided
    BY <1>15 DEF vars, HasDecided, CommandAt
  <2> QED
    BY <1>15, <1>a, <2>1 DEF vars
<1> QED
  BY <1>1, <1>2, <1>3, <1>4, <1>5, <1>6, <1>7, <1>8, <1>9, <1>10, <1>11, <1>12, <1>13, <1>14, <1>15
  DEF Next, ParentStep, ChildStep, Fault, ReceiveTerminated, Stop

LEMMA VerdictStep == SyncInv /\ [Next]_vars => Verdict'
<1> SUFFICES ASSUME SyncInv, [Next]_vars PROVE Verdict'
  OBVIOUS
<1> USE DEF SyncInv
<1>t. /\ mailbox \in Seq(ParentMessage) /\ Len(mailbox) \in Nat /\ DOMAIN mailbox = 1..Len(mailbox)
      /\ childMailbox \in Seq(ChildMessage)
  BY LenProperties DEF IInv, TypeOK
<1>o. OneDecision'
  BY NextIInv DEF IInv
<1>q. ASSUME mode' # "sending" \/ write'.status # "none"
      PROVE  Verdict'
  BY <1>o, <1>q DEF OneDecision, Verdict
\* The response is an old one, and nobody has touched what it was decided against.
<1>a. ASSUME UNCHANGED <<states, current>>,
             \A j \in Nat : ResponseAt(j)' => \E i \in Nat : ResponseAt(i) /\ mailbox'[j] = mailbox[i],
             mode = "sending" => requests'[current] = requests[current]
      PROVE  Verdict'
  <2>1. ASSUME NEW j \in Nat, ResponseAt(j)'
        PROVE  /\ Answers(Durable, requests[current])'
               /\ mailbox'[j].ok = Accepts(Durable, requests[current])'
    <3>1. PICK i \in Nat : ResponseAt(i) /\ mailbox'[j] = mailbox[i]
      BY <1>a, <2>1
    <3>2. mode = "sending"
      BY <3>1 DEF IInv, OneDecision
    <3> QED
      BY <1>a, <3>1, <3>2 DEF Verdict, Durable, Answers
  <2> QED
    BY <2>1 DEF Verdict
<1>b. ASSUME NEW m \in ParentMessage, m.type # "response", mailbox' = Append(mailbox, m)
      PROVE  \A j \in Nat : ResponseAt(j)' => ResponseAt(j) /\ mailbox'[j] = mailbox[j]
  <2>1. DOMAIN mailbox' = 1..Len(mailbox) + 1 /\ mailbox'[Len(mailbox) + 1] = m
        /\ \A j \in 1..Len(mailbox) : mailbox'[j] = mailbox[j]
    BY <1>b, <1>t, AppendProperties, LenProperties
  <2> QED
    BY <1>b, <1>t, <2>1 DEF ResponseAt
<1>c. ASSUME mailbox # <<>>, mailbox' = Tail(mailbox)
      PROVE  \A j \in Nat : ResponseAt(j)' => j + 1 \in Nat /\ ResponseAt(j + 1) /\ mailbox'[j] = mailbox[j + 1]
  BY <1>c, <1>t, Shift DEF ResponseAt
<1>1. ASSUME NEW c \in Clients, Ask(c) PROVE Verdict'
  <2>1. RequestMsg(Len(requests) + 1) \in ParentMessage /\ RequestMsg(Len(requests) + 1).type # "response"
    BY DEF RequestMsg, ParentMessage, IInv, TypeOK
  <2>2. mode = "sending" => requests'[current] = requests[current]
    BY <1>1 DEF Ask, IInv, Closure, TypeOK
  <2> QED
    BY <1>1, <1>a, <1>b, <2>1, <2>2 DEF Ask, childVars, journalVars
<1>2. ASSUME ReplayEvent \/ RecoveryCompleted \/ ForwardQuery PROVE Verdict'
  BY <1>2, <1>q DEF ReplayEvent, RecoveryCompleted, ForwardQuery
<1>3. ASSUME ReceiveCommand PROVE Verdict'
  <2>1. \A j \in Nat : ~ResponseAt(j)'
    BY <1>3, <1>c, Quiet DEF ReceiveCommand, IInv
  <2> QED
    BY <2>1 DEF Verdict
<1>4. ASSUME Stopped \/ SendingFailure \/ Persisted PROVE Verdict'
  BY <1>4, <1>q DEF Stopped, SendingFailure, Persisted, Resume
<1>5. ASSUME SendingSuccess PROVE Verdict'
  BY <1>5, <1>q DEF SendingSuccess, Write
<1>6. ASSUME SendingStash PROVE Verdict'
  BY <1>6, <1>a, <1>c DEF SendingStash, clientVars, journalVars
<1>7. ASSUME JournalStores \/ JournalRejects PROVE Verdict'
  <2>1. write'.status # "none"
    BY <1>7 DEF JournalStores, JournalRejects, IInv, TypeOK
  <2> QED
    BY <1>q, <2>1
<1>8. ASSUME ChildReplays \/ ChildAnswersQuery PROVE Verdict'
  BY <1>8, <1>a DEF ChildReplays, ChildAnswersQuery, ResponseAt, clientVars, parentVars, journalVars
<1>9. ASSUME ChildHandlesCommand PROVE Verdict'
  <2> DEFINE m == ResponseMsg(current, Accepts(Durable, requests[current]))
  <2>1. /\ child = Durable /\ ChildRequest(Head(childMailbox)) = requests[current]
        /\ Head(childMailbox).id = current /\ mode = "sending"
        /\ \A j \in Nat : ~ResponseAt(j)
    BY <1>9, CommandAtHead DEF ChildHandlesCommand, IInv, OneDecision
  <2>2. UNCHANGED <<requests, states, current>>
    BY <1>9 DEF ChildHandlesCommand, clientVars, journalVars
  <2>3. CASE mailbox' = mailbox
    BY <2>1, <2>3 DEF Verdict, ResponseAt
  <2>4. CASE mailbox' = Append(mailbox, m) /\ Answers(Durable, requests[current])
    <3>1. Accepts(Durable, requests[current]) \in BOOLEAN
      BY DEF Accepts
    <3>2. m \in ParentMessage /\ m.ok = Accepts(Durable, requests[current])
      BY <3>1 DEF ResponseMsg, ParentMessage, IInv, TypeOK
    <3>3. DOMAIN mailbox' = 1..Len(mailbox) + 1 /\ mailbox'[Len(mailbox) + 1] = m
          /\ \A j \in 1..Len(mailbox) : mailbox'[j] = mailbox[j]
      BY <1>t, <2>4, <3>2, AppendProperties, LenProperties
    <3>4. \A j \in Nat : ResponseAt(j)' => mailbox'[j] = m
      BY <1>t, <2>1, <3>3 DEF ResponseAt
    <3> QED
      BY <2>2, <2>4, <3>2, <3>4 DEF Verdict, Durable, Answers
  <2> QED
    BY <1>9, <2>1, <2>3, <2>4 DEF ChildHandlesCommand
<1>10. ASSUME ChildFails PROVE Verdict'
  <2>1. TerminatedMsg \in ParentMessage /\ TerminatedMsg.type # "response"
    BY DEF TerminatedMsg, ParentMessage
  <2> QED
    BY <1>10, <1>a, <1>b, <2>1 DEF ChildFails, clientVars, journalVars
<1>11. CASE UNCHANGED vars
  BY <1>11, <1>a DEF vars, ResponseAt
<1> QED
  BY <1>1, <1>2, <1>3, <1>4, <1>5, <1>6, <1>7, <1>8, <1>9, <1>10, <1>11
  DEF Next, ParentStep, ChildStep, Fault, ReceiveTerminated, Stop

LEMMA SyncInvHolds == Spec => []SyncInv
<1>1. SyncInv /\ [Next]_vars => SyncInv'
  BY NextIInv, StatesStep, RecoveredStep, BackloggedStep, ChildStateStep, VerdictStep DEF SyncInv
<1> QED
  BY InitSyncInv, <1>1, PTL DEF Spec

(***************************************************************************)
(* A parent in receiveCommand whose child is idle has a child in the state *)
(* the journal stands for, whatever was replayed, stopped, rejected or     *)
(* decided before: the replay sent without waiting for the child misses    *)
(* nothing and repeats nothing, and a decision that was not stored leaves  *)
(* no trace.                                                               *)
(***************************************************************************)
THEOREM ChildFollowsJournal == Spec => []ChildReflectsJournal
<1>1. SyncInv => ChildReflectsJournal
  <2> SUFFICES ASSUME SyncInv, mode = "ready", childMailbox = <<>>, child # Dead
               PROVE  child = Durable
    BY DEF ChildReflectsJournal
  <2>1. applied = replayed
    BY DEF SyncInv, Backlogged, Backlog, IInv, TypeOK
  <2>2. child = states[applied + 1]
    BY DEF SyncInv, ChildState, HasDecided
  <2> QED
    BY <2>1, <2>2, DurableIsNext
<1> QED
  BY <1>1, SyncInvHolds, PTL

=============================================================================
