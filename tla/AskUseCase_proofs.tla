-------------------------- MODULE AskUseCase_proofs --------------------------
(***************************************************************************)
(* Invariants of AskUseCase, for any commands, number of retries and calls.*)
(***************************************************************************)
EXTENDS AskUseCase, ThreadAggregate_proofs

-----------------------------------------------------------------------------
(* EventSourcedThread speaks of the same thread.                           *)

LEMMA AggregateProtocol ==
  /\ Aggregate!Initial = Initial
  /\ \A c : Aggregate!IsCommand(c) = IsCommand(c)
  /\ \A c, i : Aggregate!ToEvent(c, i) = ToEvent(c, i)
  /\ \A b, c : Aggregate!Answers(b, c) = Answers(b, c)
<1>1. Aggregate!Initial = Initial
  BY DEF Initial, Aggregate!Initial, NoThread, Aggregate!NoThread, NewThread, Aggregate!NewThread,
     NotRemoved, Aggregate!NotRemoved
<1>2. /\ \A c : Aggregate!IsCommand(c) = IsCommand(c)
      /\ \A b, c : Aggregate!Answers(b, c) = Answers(b, c)
  BY DEF IsCommand, Aggregate!IsCommand, Answers, Aggregate!Answers, Handled, Aggregate!Handled,
     CommandOp, Aggregate!CommandOp, QueryOp, Aggregate!QueryOp
<1>3. \A c, i : Aggregate!ToEvent(c, i) = ToEvent(c, i)
  BY DEF ToEvent, Aggregate!ToEvent, EventTypeOf, Aggregate!EventTypeOf
<1> QED
  BY <1>1, <1>2, <1>3

LEMMA AggregateCardinality == \A S : Aggregate!Cardinality(S) = Cardinality(S)
BY DEF Cardinality, Aggregate!Cardinality

LEMMA AggregateHandle ==
  ASSUME NEW t, NEW c, IsCommand(c)
  PROVE  Aggregate!Handle(t, c) = Handle(t, c)
<1> USE DEF Either, Aggregate!Either, IsRemoved, Aggregate!IsRemoved, NotRemoved, Aggregate!NotRemoved,
      MayAdminister, Aggregate!MayAdminister, IsAdministratorId, Aggregate!IsAdministratorId,
      MayRead, Aggregate!MayRead, IsMemberId, Aggregate!IsMemberId, Now, Aggregate!Now
<1>1. Aggregate!CommandCreate(t) = CommandCreate(t)
  BY DEF CommandCreate, Aggregate!CommandCreate
<1>2. Aggregate!CommandDestroy(t, c) = CommandDestroy(t, c)
  BY DEF CommandDestroy, Aggregate!CommandDestroy, Destroy, Aggregate!Destroy
<1>3. /\ Aggregate!CommandJoinAdministratorIds(t, c) = CommandJoinAdministratorIds(t, c)
      /\ Aggregate!CommandLeaveAdministratorIds(t, c) = CommandLeaveAdministratorIds(t, c)
  BY DEF CommandJoinAdministratorIds, Aggregate!CommandJoinAdministratorIds, JoinAdministratorIds,
     Aggregate!JoinAdministratorIds, CommandLeaveAdministratorIds, Aggregate!CommandLeaveAdministratorIds,
     LeaveAdministratorIds, Aggregate!LeaveAdministratorIds
<1>4. /\ Aggregate!CommandJoinMemberIds(t, c) = CommandJoinMemberIds(t, c)
      /\ Aggregate!CommandLeaveMemberIds(t, c) = CommandLeaveMemberIds(t, c)
  BY DEF CommandJoinMemberIds, Aggregate!CommandJoinMemberIds, CommandLeaveMemberIds,
     Aggregate!CommandLeaveMemberIds, JoinMemberIds, Aggregate!JoinMemberIds
<1>5. Aggregate!CommandAddMessages(t, c) = CommandAddMessages(t, c)
  BY AggregateCardinality DEF CommandAddMessages, Aggregate!CommandAddMessages, AddMessages, Aggregate!AddMessages,
     MessagesOf, Aggregate!MessagesOf
<1>6. Aggregate!CommandRemoveMessages(t, c) = CommandRemoveMessages(t, c)
  BY DEF CommandRemoveMessages, Aggregate!CommandRemoveMessages, RemoveMessages, Aggregate!RemoveMessages
<1> QED
  BY <1>1, <1>2, <1>3, <1>4, <1>5, <1>6 DEF Handle, Aggregate!Handle, IsCommand, CommandOp

LEMMA AggregateThread ==
  /\ \A b, c : IsCommand(c) => Aggregate!Accepts(b, c) = Accepts(b, c)
  /\ \A b, c : IsCommand(c) => Aggregate!After(b, c) = After(b, c)
<1>1. \A b, c : IsCommand(c) => Aggregate!Accepts(b, c) = Accepts(b, c)
  BY AggregateHandle DEF Accepts, Aggregate!Accepts
<1>2. \A b, c : IsCommand(c) => Aggregate!After(b, c) = After(b, c)
  BY <1>1, AggregateHandle DEF After, Aggregate!After, OnCreated, Aggregate!OnCreated, OnDestroyed,
     Aggregate!OnDestroyed, NoThread, Aggregate!NoThread, NewThread, Aggregate!NewThread,
     NotRemoved, Aggregate!NotRemoved
<1> QED
  BY <1>1, <1>2

-----------------------------------------------------------------------------
(* The inductive invariant.                                                *)

Answered == [answered : BOOLEAN, ok : BOOLEAN, value : {{}}]

RequestsInv ==
  /\ requests \in Seq(Commands)
  /\ replies \in Seq(Answered)
  /\ Len(replies) = Len(requests)

\* An event is that of a request, and of each request there is one at most.
JournalInv ==
  /\ journal \in Seq(Event)
  /\ states \in Seq(Behaviour)
  /\ Len(states) = Len(journal) + 1
  /\ \A n \in DOMAIN journal :
       /\ journal[n].id \in DOMAIN requests
       /\ journal[n] = ToEvent(requests[journal[n].id], journal[n].id)
       /\ states[n + 1] = After(states[n], requests[journal[n].id])
  /\ \A m, n \in DOMAIN journal : journal[m].id = journal[n].id => m = n

\* The event of request i is stored, and the thread accepted it.
StoredAccepted(i) ==
  \E n \in DOMAIN journal : journal[n].id = i /\ Accepts(states[n], requests[i])

\* A reply of success has an event that was accepted, one of failure has none.
ReplyInv ==
  \A i \in DOMAIN requests : replies[i].answered = TRUE =>
    /\ replies[i].ok = TRUE => StoredAccepted(i)
    /\ replies[i].ok = FALSE => ~StoredAccepted(i)

\* A call asks once.  What became of it is what was replied.
CallInvOf(k) ==
  /\ \E i \in DOMAIN requests : calls[k].asked = {i}
  /\ calls[k].after \subseteq 1 .. k - 1
  /\ \A j \in calls[k].after : calls[j].task = "succeeded"
  /\ \A i \in calls[k].asked :
       /\ calls[k].future = "succeeded" => replies[i].answered = TRUE /\ replies[i].ok = TRUE
       /\ calls[k].future = "failed" => replies[i].answered = TRUE /\ replies[i].ok = FALSE
  /\ calls[k].task \in {"succeeded", "failed"} => calls[k].future = calls[k].task

CallInv == calls \in Seq(Call) /\ \A k \in DOMAIN calls : CallInvOf(k)

IInv == RequestsInv /\ JournalInv /\ ReplyInv /\ CallInv /\ SuccessIsSeen

LEMMA InitIInv == Init => IInv
<1> SUFFICES ASSUME Init PROVE IInv
  OBVIOUS
<1>1. requests = <<>> /\ replies = <<>> /\ journal = <<>> /\ states = <<Initial>> /\ calls = <<>>
  BY AggregateProtocol DEF Init, Aggregate!Init
<1>2. Initial \in Behaviour
  BY DEF Initial, NoThread, NewThread, NotRemoved, Behaviour, ThreadState
<1>3. states \in Seq(Behaviour) /\ Len(states) = 1
  BY <1>1, <1>2
<1>4. /\ requests \in Seq(Commands) /\ replies \in Seq(Answered) /\ journal \in Seq(Event)
      /\ calls \in Seq(Call)
      /\ Len(requests) = 0 /\ Len(replies) = 0 /\ Len(journal) = 0
      /\ DOMAIN requests = {} /\ DOMAIN journal = {} /\ DOMAIN calls = {}
  BY <1>1
<1> QED
  BY <1>3, <1>4 DEF IInv, RequestsInv, JournalInv, ReplyInv, CallInv, SuccessIsSeen

\* A request has at most one event.
LEMMA StoredOnce ==
  ASSUME JournalInv, NEW i, NEW n \in DOMAIN journal, journal[n].id = i
  PROVE  StoredAccepted(i) <=> Accepts(states[n], requests[i])
BY DEF JournalInv, StoredAccepted

-----------------------------------------------------------------------------
(* The calls.                                                              *)

\* A step of call k leaves what it asked, and what was known when it began, and
\* only ends a task that has not ended.
LEMMA OneCall ==
  ASSUME IInv, UNCHANGED threadVars, NEW k \in DOMAIN calls, NEW r \in Call,
         calls' = [calls EXCEPT ![k] = r],
         r.asked = calls[k].asked, r.after = calls[k].after,
         calls[k].task = "succeeded" => r.task = "succeeded",
         \A i \in r.asked :
           /\ r.future = "succeeded" => replies[i].answered = TRUE /\ replies[i].ok = TRUE
           /\ r.future = "failed" => replies[i].answered = TRUE /\ replies[i].ok = FALSE,
         r.task \in {"succeeded", "failed"} => r.future = r.task
  PROVE  IInv'
<1>1. calls \in Seq(Call) /\ DOMAIN calls = 1 .. Len(calls) /\ Len(calls) \in Nat
  BY DEF IInv, CallInv
<1>2. /\ calls' \in Seq(Call) /\ DOMAIN calls' = DOMAIN calls
      /\ \A j \in DOMAIN calls : calls'[j] = IF j = k THEN r ELSE calls[j]
  BY <1>1
<1>3. RequestsInv' /\ JournalInv' /\ ReplyInv'
  BY DEF IInv, RequestsInv, JournalInv, ReplyInv, StoredAccepted, threadVars
<1>4. UNCHANGED <<requests, replies, journal, states>>
  BY DEF threadVars
<1>5. ASSUME NEW j \in DOMAIN calls PROVE CallInvOf(j)'
  <2>1. /\ calls'[j].asked = calls[j].asked /\ calls'[j].after = calls[j].after
        /\ calls[j].task = "succeeded" => calls'[j].task = "succeeded"
    BY <1>2
  <2>2. CallInvOf(j)
    BY DEF IInv, CallInv
  <2>3. ASSUME NEW i \in calls'[j].after PROVE calls'[i].task = "succeeded"
    <3>1. i \in 1 .. j - 1 /\ calls[i].task = "succeeded"
      BY <2>1, <2>2, <2>3 DEF CallInvOf
    <3>2. i \in DOMAIN calls
      BY <1>1, <3>1
    <3> QED
      BY <1>2, <3>1, <3>2
  <2>4. /\ \A i \in calls'[j].asked :
             /\ calls'[j].future = "succeeded" => replies[i].answered = TRUE /\ replies[i].ok = TRUE
             /\ calls'[j].future = "failed" => replies[i].answered = TRUE /\ replies[i].ok = FALSE
        /\ calls'[j].task \in {"succeeded", "failed"} => calls'[j].future = calls'[j].task
    <3>1. CASE j = k
      BY <1>2, <3>1
    <3>2. CASE j # k
      <4>1. calls'[j] = calls[j]
        BY <1>2, <3>2
      <4> QED
        BY <2>2, <4>1 DEF CallInvOf
    <3> QED
      BY <3>1, <3>2
  <2> QED
    BY <1>4, <2>1, <2>2, <2>3, <2>4 DEF CallInvOf
<1>6. SuccessIsSeen'
  <2> SUFFICES ASSUME NEW j \in DOMAIN calls, NEW i \in calls'[j].after
               PROVE  \E m \in DOMAIN journal :
                        /\ journal[m].id \in calls'[i].asked
                        /\ \A n \in DOMAIN journal : journal[n].id \in calls'[j].asked => m < n
    BY <1>2, <1>4 DEF SuccessIsSeen
  <2>1. CallInvOf(j)
    BY DEF IInv, CallInv
  <2>2. i \in calls[j].after /\ i \in DOMAIN calls
    BY <1>1, <1>2, <2>1 DEF CallInvOf
  <2>3. calls'[i].asked = calls[i].asked /\ calls'[j].asked = calls[j].asked
    BY <1>2, <2>2
  <2> QED
    BY <2>2, <2>3 DEF IInv, SuccessIsSeen
<1> QED
  BY <1>2, <1>3, <1>5, <1>6 DEF IInv, CallInv

LEMMA CallIInv ==
  ASSUME IInv, NEW k \in DOMAIN calls, CallStep(k)
  PROVE  IInv'
<1> DEFINE c == calls[k]
<1>1. c \in Call /\ CallInvOf(k) /\ UNCHANGED threadVars
  BY DEF IInv, CallInv, CallStep, ReplyArrives, AskTimesOut, Responds, Retry, DelayElapses, GivesUp
<1>2. CASE ReplyArrives(k)
  <2>1. PICK i \in c.asked :
          /\ c.future = "pending" /\ replies[i].answered
          /\ calls' = [calls EXCEPT ![k].future = Completed(replies[i])]
    BY <1>2 DEF ReplyArrives
  <2> DEFINE r == [c EXCEPT !.future = Completed(replies[i])]
  <2>2. c.asked = {i} /\ i \in DOMAIN requests
    BY <1>1, <2>1 DEF CallInvOf
  <2>3. replies[i] \in Answered
    BY <2>2 DEF IInv, RequestsInv
  <2>4. /\ Completed(replies[i]) \in {"succeeded", "failed"}
        /\ Completed(replies[i]) = "succeeded" => replies[i].ok = TRUE
        /\ Completed(replies[i]) = "failed" => replies[i].ok = FALSE
    BY <2>3 DEF Completed, Answered
  <2>5. replies[i].answered = TRUE
    BY <2>1, <2>3 DEF Answered
  <2>6. /\ r \in Call /\ r.asked = {i} /\ r.after = c.after /\ r.task = c.task
        /\ r.future = Completed(replies[i])
    BY <1>1, <2>2, <2>4 DEF Call
  <2>7. c.task \notin {"succeeded", "failed"}
    BY <1>1, <2>1 DEF CallInvOf
  <2>8. calls' = [calls EXCEPT ![k] = r]
    BY <2>1
  <2> HIDE DEF r
  <2> QED
    BY <1>1, <2>2, <2>4, <2>5, <2>6, <2>7, <2>8, OneCall
<1>3. CASE AskTimesOut(k)
  <2> DEFINE r == [c EXCEPT !.future = "timeout"]
  <2>1. c.future = "pending" /\ calls' = [calls EXCEPT ![k] = r]
    BY <1>3 DEF AskTimesOut
  <2>2. r \in Call /\ r.asked = c.asked /\ r.after = c.after /\ r.task = c.task /\ r.future = "timeout"
    BY <1>1 DEF Call
  <2>3. c.task \notin {"succeeded", "failed"}
    BY <1>1, <2>1 DEF CallInvOf
  <2> HIDE DEF r
  <2> QED
    BY <1>1, <2>1, <2>2, <2>3, OneCall
<1>4. CASE Responds(k)
  <2> DEFINE r == [c EXCEPT !.task = c.future]
  <2>1. c.task = "running" /\ c.future \in {"succeeded", "failed"} /\ calls' = [calls EXCEPT ![k] = r]
    BY <1>4 DEF Responds
  <2>2. r \in Call /\ r.asked = c.asked /\ r.after = c.after /\ r.task = c.future /\ r.future = c.future
    BY <1>1, <2>1 DEF Call
  <2> HIDE DEF r
  <2> QED
    BY <1>1, <2>1, <2>2, OneCall DEF CallInvOf
<1>5. CASE Retry(k)
  <2> DEFINE r == [c EXCEPT !.retries = @ - 1, !.task = "delayed"]
  <2>1. c.task = "running" /\ c.retries > 0 /\ calls' = [calls EXCEPT ![k] = r]
    BY <1>5 DEF Retry
  <2>2. /\ r \in Call /\ r.asked = c.asked /\ r.after = c.after /\ r.task = "delayed"
        /\ r.future = c.future
    <3>1. c.retries - 1 \in 0 .. MaxRetries
      BY <1>1, <2>1, UseCaseAssumption DEF Call
    <3> DEFINE n == c.retries - 1
    <3> HIDE DEF n
    <3>2. [c EXCEPT !.retries = n, !.task = "delayed"] \in Call
      BY <1>1, <3>1 DEF Call, n
    <3> QED
      BY <1>1, <3>2 DEF Call, n
  <2> HIDE DEF r
  <2> QED
    BY <1>1, <2>1, <2>2, OneCall DEF CallInvOf
<1>6. CASE DelayElapses(k)
  <2> DEFINE r == [c EXCEPT !.task = "running"]
  <2>1. c.task = "delayed" /\ calls' = [calls EXCEPT ![k] = r]
    BY <1>6 DEF DelayElapses
  <2>2. r \in Call /\ r.asked = c.asked /\ r.after = c.after /\ r.task = "running" /\ r.future = c.future
    BY <1>1 DEF Call
  <2> HIDE DEF r
  <2> QED
    BY <1>1, <2>1, <2>2, OneCall DEF CallInvOf
<1>7. CASE GivesUp(k)
  <2> DEFINE r == [c EXCEPT !.task = "timeout"]
  <2>1. c.task = "running" /\ calls' = [calls EXCEPT ![k] = r]
    BY <1>7 DEF GivesUp
  <2>2. r \in Call /\ r.asked = c.asked /\ r.after = c.after /\ r.task = "timeout" /\ r.future = c.future
    BY <1>1 DEF Call
  <2> HIDE DEF r
  <2> QED
    BY <1>1, <2>1, <2>2, OneCall DEF CallInvOf
<1> QED
  BY <1>2, <1>3, <1>4, <1>5, <1>6, <1>7 DEF CallStep

-----------------------------------------------------------------------------
(* The requests and the journal.                                           *)

LEMMA ExecuteIInv ==
  ASSUME IInv, NEW c \in Commands, Execute(c)
  PROVE  IInv'
<1> DEFINE i == Len(requests) + 1
           known == {k \in DOMAIN calls : calls[k].task = "succeeded"}
           call == [asked |-> {i}, future |-> "pending", retries |-> MaxRetries,
                    task |-> "running", after |-> known]
           none == [answered |-> FALSE, ok |-> FALSE, value |-> {}]
<1>1. /\ requests' = Append(requests, c)
      /\ replies' = Append(replies, none)
      /\ calls' = Append(calls, call)
      /\ UNCHANGED <<journal, states>>
  BY DEF Execute, Aggregate!Submit, Aggregate!NoReply
<1>2. /\ requests \in Seq(Commands) /\ replies \in Seq(Answered) /\ calls \in Seq(Call)
      /\ Len(replies) = Len(requests) /\ Len(requests) \in Nat /\ Len(calls) \in Nat
      /\ DOMAIN requests = 1 .. Len(requests) /\ DOMAIN calls = 1 .. Len(calls)
  BY DEF IInv, RequestsInv, CallInv
<1>3. known \subseteq 1 .. Len(calls) /\ known \subseteq DOMAIN calls
  BY <1>2
<1>4. call \in Call
  <2>1. known \in SUBSET Nat /\ i \in Nat /\ MaxRetries \in 0 .. MaxRetries
    BY <1>2, <1>3, UseCaseAssumption
  <2> HIDE DEF known, i
  <2> QED
    BY <2>1 DEF Call
<1>5. none \in Answered
  BY DEF Answered
<1>6. call.asked = {i} /\ call.after = known /\ call.future = "pending" /\ call.task = "running"
  OBVIOUS
<1> HIDE DEF call, none
<1>7. /\ requests' \in Seq(Commands) /\ replies' \in Seq(Answered)
      /\ Len(requests') = i /\ Len(replies') = i
      /\ DOMAIN requests' = 1 .. i
      /\ \A j \in DOMAIN requests : requests'[j] = requests[j] /\ replies'[j] = replies[j]
      /\ replies'[i] = none
  BY <1>1, <1>2, <1>5
<1>8. /\ calls' \in Seq(Call)
      /\ DOMAIN calls' = 1 .. Len(calls) + 1
      /\ \A k \in DOMAIN calls : calls'[k] = calls[k]
      /\ calls'[Len(calls) + 1] = call
  BY <1>1, <1>2, <1>4
<1>9. RequestsInv'
  BY <1>7 DEF RequestsInv
<1>10. JournalInv'
  BY <1>1, <1>2, <1>7 DEF IInv, JournalInv
<1>11. ReplyInv'
  <2> SUFFICES ASSUME NEW j \in 1 .. i, replies'[j].answered = TRUE
               PROVE  /\ replies'[j].ok = TRUE => StoredAccepted(j)'
                      /\ replies'[j].ok = FALSE => ~StoredAccepted(j)'
    BY <1>7 DEF ReplyInv
  <2>1. j # i
    BY <1>7 DEF none
  <2>2. j \in DOMAIN requests
    BY <1>2, <2>1
  <2>3. StoredAccepted(j)' <=> StoredAccepted(j)
    BY <1>1, <1>7, <2>2 DEF StoredAccepted
  <2>4. replies'[j] = replies[j]
    BY <1>7, <2>2
  <2> QED
    BY <2>2, <2>3, <2>4 DEF IInv, ReplyInv
<1>12. ASSUME NEW k \in DOMAIN calls PROVE CallInvOf(k)'
  <2>1. CallInvOf(k) /\ calls'[k] = calls[k]
    BY <1>8 DEF IInv, CallInv
  <2>2. \E j \in DOMAIN requests : calls[k].asked = {j}
    BY <2>1 DEF CallInvOf
  <2>3. \A j \in calls[k].asked : j \in DOMAIN requests' /\ replies'[j] = replies[j]
    BY <1>2, <1>7, <2>2
  <2>4. \A j \in calls[k].after : calls'[j].task = "succeeded"
    <3>1. \A j \in calls[k].after : j \in DOMAIN calls
      BY <1>2, <2>1 DEF CallInvOf
    <3> QED
      BY <1>8, <2>1, <3>1 DEF CallInvOf
  <2> QED
    BY <2>1, <2>2, <2>3, <2>4 DEF CallInvOf
<1>13. ASSUME NEW k \in Nat, k = Len(calls) + 1 PROVE CallInvOf(k)'
  <2>1. \A j \in known : calls'[j].task = "succeeded"
    BY <1>3, <1>8
  <2>2. i \in DOMAIN requests'
    BY <1>2, <1>7
  <2>3. known \subseteq 1 .. k - 1
    BY <1>2, <1>3, <1>13
  <2> HIDE DEF known, i
  <2>4. /\ calls'[k].asked = {i} /\ calls'[k].after = known
        /\ calls'[k].future = "pending" /\ calls'[k].task = "running"
    BY <1>6, <1>8, <1>13
  <2> QED
    BY <2>1, <2>2, <2>3, <2>4 DEF CallInvOf
<1>14. CallInv'
  <2>1. \A k \in DOMAIN calls' : k \in DOMAIN calls \/ (k \in Nat /\ k = Len(calls) + 1)
    BY <1>2, <1>8
  <2>2. \A k \in DOMAIN calls' : CallInvOf(k)'
    BY <1>12, <1>13, <2>1
  <2> QED
    BY <1>8, <2>2 DEF CallInv
<1>15. ASSUME NEW k \in DOMAIN calls', NEW j \in calls'[k].after
       PROVE  \E m \in DOMAIN journal' :
                /\ journal'[m].id \in calls'[j].asked
                /\ \A n \in DOMAIN journal' : journal'[n].id \in calls'[k].asked => m < n
  <2>1. CASE k \in DOMAIN calls
    <3>1. CallInvOf(k) /\ calls'[k] = calls[k]
      BY <1>8, <2>1 DEF IInv, CallInv
    <3>2. j \in calls[k].after /\ j \in DOMAIN calls
      <4>1. j \in calls[k].after
        BY <1>15, <3>1
      <4>2. j \in 1 .. k - 1
        BY <3>1, <4>1 DEF CallInvOf
      <4> QED
        BY <1>2, <2>1, <4>1, <4>2
    <3>3. calls'[j] = calls[j]
      BY <1>8, <3>2
    <3> QED
      BY <1>1, <2>1, <3>1, <3>2, <3>3 DEF IInv, SuccessIsSeen
  <2>2. CASE k = Len(calls) + 1
    <3>1. j \in DOMAIN calls /\ calls[j].task = "succeeded" /\ calls'[k].asked = {i}
      BY <1>6, <1>8, <1>15, <2>2
    <3>2. CallInvOf(j) /\ calls'[j] = calls[j]
      BY <1>8, <3>1 DEF IInv, CallInv
    <3>3. PICK a \in DOMAIN requests : calls[j].asked = {a} /\ replies[a].answered = TRUE
                                      /\ replies[a].ok = TRUE
      BY <3>1, <3>2 DEF CallInvOf
    <3>4. StoredAccepted(a)
      BY <3>3 DEF IInv, ReplyInv
    <3>5. PICK m \in DOMAIN journal : journal[m].id = a
      BY <3>4 DEF StoredAccepted
    <3>6. \A n \in DOMAIN journal : journal[n].id # i
      BY <1>2 DEF IInv, JournalInv
    <3> QED
      BY <1>1, <3>1, <3>2, <3>3, <3>5, <3>6
  <2> QED
    BY <1>2, <1>8, <2>1, <2>2
<1>16. SuccessIsSeen'
  BY <1>15 DEF SuccessIsSeen
<1> QED
  BY <1>9, <1>10, <1>11, <1>14, <1>16 DEF IInv

\* The calls see nothing of a step of the aggregate but a reply to one that had none.
LEMMA CallsWait ==
  ASSUME IInv, UNCHANGED <<requests, calls>>, NEW i \in DOMAIN requests,
         replies[i].answered = FALSE,
         \A j \in DOMAIN requests : j # i => replies'[j] = replies[j]
  PROVE  CallInv'
<1>1. ASSUME NEW k \in DOMAIN calls PROVE CallInvOf(k)'
  <2>1. CallInvOf(k)
    BY DEF IInv, CallInv
  <2>2. PICK a \in DOMAIN requests : calls[k].asked = {a}
    BY <2>1 DEF CallInvOf
  <2>3. CASE a # i
    <3>1. replies'[a] = replies[a]
      BY <2>2, <2>3
    <3> QED
      BY <2>1, <2>2, <3>1 DEF CallInvOf
  <2>4. CASE a = i
    <3>1. calls[k].future \notin {"succeeded", "failed"}
      BY <2>1, <2>2, <2>4 DEF CallInvOf
    <3> QED
      BY <2>1, <2>2, <3>1 DEF CallInvOf
  <2> QED
    BY <2>3, <2>4
<1> QED
  BY <1>1 DEF IInv, CallInv

LEMMA RecordIInv ==
  ASSUME IInv, NEW i \in DOMAIN requests, Aggregate!Record(i), UNCHANGED calls
  PROVE  IInv'
<1> DEFINE c == requests[i]
           l == Len(journal)
           e == ToEvent(c, i)
           b == After(states[l + 1], c)
<1>1. /\ requests \in Seq(Commands) /\ c \in Commands /\ c \in Request /\ IsCommand(c)
      /\ i \in Nat /\ l \in Nat /\ DOMAIN journal = 1 .. l
      /\ journal \in Seq(Event) /\ states \in Seq(Behaviour) /\ Len(states) = l + 1
      /\ DOMAIN states = 1 .. l + 1
  BY UseCaseAssumption DEF IInv, RequestsInv, JournalInv
<1>2. /\ journal' = Append(journal, e) /\ states' = Append(states, b)
      /\ UNCHANGED <<requests, replies>>
  BY <1>1, AggregateProtocol, AggregateThread DEF Aggregate!Record, Aggregate!Durable
<1>3. /\ \A n \in DOMAIN journal : journal[n].id # i
      /\ replies[i].answered = FALSE
  BY DEF Aggregate!Record, Aggregate!Undecided, Aggregate!Recorded, Aggregate!NoReply
<1>4. e \in Event /\ e.id = i
  BY <1>1, ConversionType DEF ToEvent
<1>5. b \in Behaviour
  BY <1>1, AfterType
<1> HIDE DEF b
<1>6. /\ journal' \in Seq(Event) /\ Len(journal') = l + 1 /\ DOMAIN journal' = 1 .. l + 1
      /\ \A n \in 1 .. l : journal'[n] = journal[n]
      /\ journal'[l + 1] = e
  <2> HIDE DEF e
  <2> QED
    BY <1>1, <1>2, <1>4
<1>7. /\ states' \in Seq(Behaviour) /\ Len(states') = l + 2
      /\ \A n \in 1 .. l + 1 : states'[n] = states[n]
      /\ states'[l + 2] = b
  BY <1>1, <1>2, <1>5
<1>8. JournalInv'
  <2>1. ASSUME NEW n \in 1 .. l + 1
        PROVE  /\ journal'[n].id \in DOMAIN requests'
               /\ journal'[n] = ToEvent(requests'[journal'[n].id], journal'[n].id)
               /\ states'[n + 1] = After(states'[n], requests'[journal'[n].id])
    <3>1. CASE n = l + 1
      <4>1. journal'[n].id = i /\ journal'[n] = ToEvent(c, i)
        BY <1>4, <1>6, <3>1
      <4>2. states'[n + 1] = After(states[l + 1], c) /\ states'[n] = states[l + 1]
        BY <1>1, <1>7, <3>1 DEF b
      <4> QED
        BY <1>2, <4>1, <4>2
    <3>2. CASE n \in 1 .. l
      <4>1. journal'[n] = journal[n] /\ states'[n] = states[n] /\ states'[n + 1] = states[n + 1]
        BY <1>1, <1>6, <1>7, <3>2
      <4> QED
        BY <1>1, <1>2, <3>2, <4>1 DEF IInv, JournalInv
    <3> QED
      BY <1>1, <3>1, <3>2
  <2>2. ASSUME NEW m \in 1 .. l + 1, NEW n \in 1 .. l + 1, journal'[m].id = journal'[n].id
        PROVE  m = n
    <3>1. \A k \in 1 .. l : journal'[k].id # i /\ journal'[k].id = journal[k].id
      BY <1>1, <1>3, <1>6
    <3>2. journal'[l + 1].id = i
      BY <1>4, <1>6
    <3>3. \A j, k \in 1 .. l : journal[j].id = journal[k].id => j = k
      BY <1>1 DEF IInv, JournalInv
    <3> QED
      BY <1>1, <2>2, <3>1, <3>2, <3>3
  <2> QED
    BY <1>6, <1>7, <2>1, <2>2 DEF JournalInv
<1>9. ReplyInv'
  <2> SUFFICES ASSUME NEW j \in DOMAIN requests, replies[j].answered = TRUE
               PROVE  /\ replies[j].ok = TRUE => StoredAccepted(j)'
                      /\ replies[j].ok = FALSE => ~StoredAccepted(j)'
    BY <1>2 DEF ReplyInv
  <2>1. j # i
    BY <1>3
  <2>2. StoredAccepted(j)' <=> StoredAccepted(j)
    <3>1. \A n \in 1 .. l : journal'[n] = journal[n] /\ states'[n] = states[n]
      BY <1>1, <1>6, <1>7
    <3>2. journal'[l + 1].id # j
      BY <1>4, <1>6, <2>1
    <3> QED
      BY <1>1, <1>2, <1>6, <3>1, <3>2 DEF StoredAccepted
  <2> QED
    BY <2>2 DEF IInv, ReplyInv
<1>10. RequestsInv' /\ CallInv'
  BY <1>2, <1>3, CallsWait DEF IInv, RequestsInv
<1>11. SuccessIsSeen'
  <2> SUFFICES ASSUME NEW k \in DOMAIN calls, NEW j \in calls[k].after
               PROVE  \E m \in 1 .. l + 1 :
                        /\ journal'[m].id \in calls[j].asked
                        /\ \A n \in 1 .. l + 1 : journal'[n].id \in calls[k].asked => m < n
    BY <1>6 DEF SuccessIsSeen
  <2>1. PICK m \in 1 .. l :
          /\ journal[m].id \in calls[j].asked
          /\ \A n \in 1 .. l : journal[n].id \in calls[k].asked => m < n
    BY <1>1 DEF IInv, SuccessIsSeen
  <2>2. m \in 1 .. l + 1 /\ journal'[m].id \in calls[j].asked
    BY <1>1, <1>6, <2>1
  <2>3. \A n \in 1 .. l + 1 : journal'[n].id \in calls[k].asked => m < n
    BY <1>1, <1>6, <2>1
  <2> QED
    BY <2>2, <2>3
<1> QED
  BY <1>8, <1>9, <1>10, <1>11 DEF IInv

LEMMA AcknowledgeIInv ==
  ASSUME IInv, NEW i \in DOMAIN requests, Aggregate!Acknowledge(i), UNCHANGED calls
  PROVE  IInv'
<1>1. requests[i] \in Request /\ IsCommand(requests[i])
  BY UseCaseAssumption DEF IInv, RequestsInv
<1>2. PICK n \in DOMAIN journal :
        /\ journal[n].id = i
        /\ replies' = [replies EXCEPT ![i] = Aggregate!Reply(Aggregate!Accepts(states[n], requests[i]), {})]
  BY DEF Aggregate!Acknowledge
<1> DEFINE ok == Accepts(states[n], requests[i])
           r == [answered |-> TRUE, ok |-> ok, value |-> {}]
<1>3. replies' = [replies EXCEPT ![i] = r]
  BY <1>1, <1>2, AggregateThread DEF Aggregate!Reply
<1>4. UNCHANGED <<requests, journal, states>> /\ replies[i].answered = FALSE
  BY DEF Aggregate!Acknowledge, Aggregate!NoReply
<1>5. r \in Answered /\ (r.ok = TRUE <=> ok) /\ (r.ok = FALSE <=> ~ok)
  BY DEF Accepts, Answered
<1>6. /\ replies \in Seq(Answered) /\ Len(replies) = Len(requests)
      /\ DOMAIN requests = 1 .. Len(requests) /\ DOMAIN replies = 1 .. Len(replies)
  BY DEF IInv, RequestsInv
<1> HIDE DEF ok, r
<1>7. /\ replies' \in Seq(Answered) /\ Len(replies') = Len(replies)
      /\ replies'[i] = r
      /\ \A j \in DOMAIN requests : j # i => replies'[j] = replies[j]
  BY <1>3, <1>5, <1>6
<1>8. RequestsInv' /\ JournalInv' /\ SuccessIsSeen'
  BY <1>4, <1>6, <1>7 DEF IInv, RequestsInv, JournalInv, SuccessIsSeen
<1>9. CallInv'
  BY <1>4, <1>7, CallsWait
<1>10. StoredAccepted(i) <=> ok
  BY <1>2, StoredOnce DEF IInv, ok
<1>11. ReplyInv'
  <2> SUFFICES ASSUME NEW j \in DOMAIN requests, replies'[j].answered = TRUE
               PROVE  /\ replies'[j].ok = TRUE => StoredAccepted(j)
                      /\ replies'[j].ok = FALSE => ~StoredAccepted(j)
    BY <1>4 DEF ReplyInv, StoredAccepted
  <2>1. CASE j = i
    BY <1>5, <1>7, <1>10, <2>1
  <2>2. CASE j # i
    BY <1>7, <2>2 DEF IInv, ReplyInv
  <2> QED
    BY <2>1, <2>2
<1> QED
  BY <1>8, <1>9, <1>11 DEF IInv

LEMMA RefuseIInv ==
  ASSUME IInv, NEW i \in DOMAIN requests, Aggregate!Refuse(i), UNCHANGED calls
  PROVE  IInv'
<1> DEFINE r == [answered |-> TRUE, ok |-> FALSE, value |-> {}]
<1>1. /\ replies' = [replies EXCEPT ![i] = r]
      /\ UNCHANGED <<requests, journal, states>>
      /\ replies[i].answered = FALSE
      /\ \A n \in DOMAIN journal : journal[n].id # i
  BY DEF Aggregate!Refuse, Aggregate!Reply, Aggregate!Undecided, Aggregate!Recorded, Aggregate!NoReply
<1>2. r \in Answered /\ r.ok = FALSE
  BY DEF Answered
<1>3. /\ replies \in Seq(Answered) /\ Len(replies) = Len(requests)
      /\ DOMAIN requests = 1 .. Len(requests) /\ DOMAIN replies = 1 .. Len(replies)
  BY DEF IInv, RequestsInv
<1> HIDE DEF r
<1>4. /\ replies' \in Seq(Answered) /\ Len(replies') = Len(replies)
      /\ replies'[i] = r
      /\ \A j \in DOMAIN requests : j # i => replies'[j] = replies[j]
  BY <1>1, <1>2, <1>3
<1>5. RequestsInv' /\ JournalInv' /\ SuccessIsSeen'
  BY <1>1, <1>3, <1>4 DEF IInv, RequestsInv, JournalInv, SuccessIsSeen
<1>6. CallInv'
  BY <1>1, <1>4, CallsWait
<1>7. ~StoredAccepted(i)
  BY <1>1 DEF StoredAccepted
<1>8. ReplyInv'
  <2> SUFFICES ASSUME NEW j \in DOMAIN requests, replies'[j].answered = TRUE
               PROVE  /\ replies'[j].ok = TRUE => StoredAccepted(j)
                      /\ replies'[j].ok = FALSE => ~StoredAccepted(j)
    BY <1>1 DEF ReplyInv, StoredAccepted
  <2>1. CASE j = i
    BY <1>2, <1>4, <1>7, <2>1
  <2>2. CASE j # i
    BY <1>4, <2>2 DEF IInv, ReplyInv
  <2> QED
    BY <2>1, <2>2
<1> QED
  BY <1>5, <1>6, <1>8 DEF IInv

LEMMA IInvHolds == Spec => []IInv
<1>1. IInv /\ [Next]_vars => IInv'
  <2> SUFFICES ASSUME IInv, [Next]_vars PROVE IInv'
    OBVIOUS
  <2>1. ASSUME NEW c \in Commands, Execute(c) PROVE IInv'
    BY <2>1, ExecuteIInv
  <2>2. CASE AggregateStep
    BY <2>2, RecordIInv, AcknowledgeIInv, RefuseIInv DEF AggregateStep
  <2>3. ASSUME NEW k \in DOMAIN calls, CallStep(k) PROVE IInv'
    BY <2>3, CallIInv
  <2>4. CASE UNCHANGED vars
    <3>1. UNCHANGED <<requests, replies, journal, states, calls>>
      BY <2>4 DEF vars
    <3>2. RequestsInv' /\ JournalInv'
      BY <3>1 DEF IInv, RequestsInv, JournalInv
    <3>3. ReplyInv'
      BY <3>1 DEF IInv, ReplyInv, StoredAccepted
    <3>4. CallInv' /\ SuccessIsSeen'
      BY <3>1 DEF IInv, CallInv, CallInvOf, SuccessIsSeen
    <3> QED
      BY <3>2, <3>3, <3>4 DEF IInv
  <2> QED
    BY <2>1, <2>2, <2>3, <2>4 DEF Next
<1> QED
  BY <1>1, InitIInv, PTL DEF Spec

-----------------------------------------------------------------------------
(* Theorems.                                                               *)

(***************************************************************************)
(* Every variable keeps its type: a call never refers to a request or to a *)
(* call that is not there.                                                 *)
(***************************************************************************)
THEOREM UseCaseTypeCorrect == Spec => []TypeOK
<1>1. IInv => TypeOK
  <2> SUFFICES ASSUME IInv PROVE TypeOK
    OBVIOUS
  <2>1. RequestsInv /\ JournalInv /\ CallInv
    BY DEF IInv
  <2>2. \A k \in DOMAIN calls : calls[k].asked \subseteq DOMAIN requests /\ calls[k].after \subseteq 1 .. k - 1
    BY <2>1 DEF CallInv, CallInvOf
  <2> QED
    BY <2>1, <2>2 DEF RequestsInv, Answered, JournalInv, CallInv, TypeOK
<1> QED
  BY <1>1, IInvHolds, PTL

(***************************************************************************)
(* A call stores one event at most, whenever its command is decided and    *)
(* however often and long its Future is retried: retryBackoff runs the     *)
(* same Future again and asks nothing anew.                                *)
(***************************************************************************)
THEOREM RetriesStoreOnce == Spec => []StoredOncePerCall
<1>1. IInv => StoredOncePerCall
  <2> SUFFICES ASSUME IInv, NEW k \in DOMAIN calls, NEW m \in DOMAIN journal,
                      NEW n \in DOMAIN journal,
                      journal[m].id \in calls[k].asked, journal[n].id \in calls[k].asked
               PROVE  m = n
    BY DEF StoredOncePerCall
  <2>1. journal[m].id = journal[n].id
    BY DEF IInv, CallInv, CallInvOf
  <2> QED
    BY <2>1 DEF IInv, JournalInv
<1> QED
  BY <1>1, IInvHolds, PTL

(***************************************************************************)
(* The result a caller gets, if it gets one, is that of its command: after *)
(* a success the event is stored and was accepted, after a failure the     *)
(* thread was not changed by it and is not going to be.                    *)
(***************************************************************************)
THEOREM CallersAreToldTheTruth == Spec => []ToldTheTruth
<1>1. IInv => ToldTheTruth
  <2> SUFFICES ASSUME IInv, NEW k \in DOMAIN calls
               PROVE  /\ calls[k].task = "succeeded" =>
                           \E n \in DOMAIN journal :
                             /\ journal[n].id \in calls[k].asked
                             /\ Accepts(states[n], ToCommandRequest(journal[n]))
                      /\ calls[k].task = "failed" =>
                           \A i \in calls[k].asked :
                             /\ ~Aggregate!Undecided(i)
                             /\ \A n \in DOMAIN journal : journal[n].id = i => states[n + 1] = states[n]
    BY DEF ToldTheTruth
  <2>1. CallInvOf(k)
    BY DEF IInv, CallInv
  <2>2. PICK i \in DOMAIN requests : calls[k].asked = {i}
    BY <2>1 DEF CallInvOf
  <2>3. requests[i] \in Request /\ IsCommand(requests[i]) /\ i \in Nat
    BY UseCaseAssumption DEF IInv, RequestsInv
  <2>4. \A n \in DOMAIN journal :
          journal[n].id = i => /\ ToCommandRequest(journal[n]) = requests[i]
                               /\ states[n + 1] = After(states[n], requests[i])
    BY <2>3, ReplayIsTheCommand DEF IInv, JournalInv
  <2>5. ASSUME calls[k].task = "succeeded"
        PROVE  \E n \in DOMAIN journal :
                 /\ journal[n].id \in calls[k].asked
                 /\ Accepts(states[n], ToCommandRequest(journal[n]))
    <3>1. replies[i].answered = TRUE /\ replies[i].ok = TRUE
      BY <2>1, <2>2, <2>5 DEF CallInvOf
    <3>2. StoredAccepted(i)
      BY <3>1 DEF IInv, ReplyInv
    <3> QED
      BY <2>2, <2>4, <3>2 DEF StoredAccepted
  <2>6. ASSUME calls[k].task = "failed"
        PROVE  \A j \in calls[k].asked :
                 /\ ~Aggregate!Undecided(j)
                 /\ \A n \in DOMAIN journal : journal[n].id = j => states[n + 1] = states[n]
    <3>1. replies[i].answered = TRUE /\ replies[i].ok = FALSE
      BY <2>1, <2>2, <2>6 DEF CallInvOf
    <3>2. ~StoredAccepted(i)
      BY <3>1 DEF IInv, ReplyInv
    <3>3. ~Aggregate!Undecided(i)
      BY <3>1 DEF Aggregate!Undecided, Aggregate!NoReply
    <3>4. \A n \in DOMAIN journal : journal[n].id = i => states[n + 1] = states[n]
      BY <2>4, <3>2 DEF StoredAccepted, After
    <3> QED
      BY <2>2, <3>3, <3>4
  <2> QED
    BY <2>5, <2>6
<1> QED
  BY <1>1, IInvHolds, PTL

(***************************************************************************)
(* A caller that calls again after it was told a success has the event of  *)
(* the earlier call before that of the later one.                          *)
(***************************************************************************)
THEOREM SuccessesAreSeen == Spec => []SuccessIsSeen
<1>1. IInv => SuccessIsSeen
  BY DEF IInv
<1> QED
  BY <1>1, IInvHolds, PTL

(***************************************************************************)
(* Each step of a call leaves it fewer steps to take, ToGo many at most:   *)
(* the variant behind EveryCallEnds, for any number of calls and retries.  *)
(***************************************************************************)
THEOREM CallsComeToTheirEnd == Spec => NearerItsEnd
<1>1. IInv /\ [Next]_vars =>
        \A k \in DOMAIN calls : calls'[k] = calls[k] \/ ToGo(calls'[k]) < ToGo(calls[k])
  <2> SUFFICES ASSUME IInv, [Next]_vars, NEW j \in DOMAIN calls
               PROVE  calls'[j] = calls[j] \/ ToGo(calls'[j]) < ToGo(calls[j])
    OBVIOUS
  <2>1. calls \in Seq(Call) /\ calls[j] \in Call /\ MaxRetries \in Nat
    BY UseCaseAssumption DEF IInv, CallInv
  <2>2. ASSUME NEW k \in DOMAIN calls, CallStep(k)
        PROVE  calls'[j] = calls[j] \/ ToGo(calls'[j]) < ToGo(calls[j])
    <3>1. CASE j # k
      BY <2>1, <2>2, <3>1 DEF CallStep, ReplyArrives, AskTimesOut, Responds, Retry, DelayElapses, GivesUp
    <3>2. CASE j = k
      <4> DEFINE c == calls[k]
                 d == calls'[k]
      <4>1. /\ c \in Call /\ c.retries \in Nat
            /\ c.future \in {"pending", "succeeded", "failed", "timeout"}
        BY <2>1, <3>2 DEF Call
      <4>2. ASSUME NEW f, f # "pending", c.future = "pending",
                   calls' = [calls EXCEPT ![k] = [c EXCEPT !.future = f]]
            PROVE  ToGo(d) < ToGo(c)
        <5>1. d.future = f /\ d.task = c.task /\ d.retries = c.retries
          BY <2>1, <4>1, <4>2 DEF Call
        <5> HIDE DEF c, d
        <5> QED
          BY <4>1, <4>2, <5>1 DEF ToGo, Ended
      <4>3. ASSUME NEW x, NEW r \in Nat, c.task \notin Ended,
                   calls' = [calls EXCEPT ![k] = [c EXCEPT !.task = x, !.retries = r]],
                   \/ x \in Ended
                   \/ x = "delayed" /\ r + 1 = c.retries /\ c.task # "delayed"
                   \/ x = "running" /\ r = c.retries /\ c.task = "delayed"
            PROVE  ToGo(d) < ToGo(c)
        <5>1. d.future = c.future /\ d.task = x /\ d.retries = r
          BY <2>1, <4>1, <4>3 DEF Call
        <5> HIDE DEF c, d
        <5> QED
          BY <4>1, <4>3, <5>1 DEF ToGo, Ended
      <4>4. CASE ReplyArrives(k)
        <5>1. PICK i \in c.asked :
                c.future = "pending" /\ calls' = [calls EXCEPT ![k].future = Completed(replies[i])]
          BY <4>4 DEF ReplyArrives
        <5>2. Completed(replies[i]) # "pending"
          BY DEF Completed
        <5> QED
          BY <3>2, <4>2, <5>1, <5>2
      <4>5. CASE AskTimesOut(k)
        BY <3>2, <4>2, <4>5 DEF AskTimesOut
      <4>6. CASE Responds(k)
        <5>1. /\ c.task = "running" /\ c.future \in Ended
              /\ calls' = [calls EXCEPT ![k] = [c EXCEPT !.task = c.future]]
          BY <4>6 DEF Responds, Ended
        <5>2. [c EXCEPT !.task = c.future] = [c EXCEPT !.task = c.future, !.retries = c.retries]
          BY <4>1 DEF Call
        <5> QED
          BY <3>2, <4>1, <4>3, <5>1, <5>2, ZenonT(30) DEF Ended
      <4>7. CASE Retry(k)
        <5>1. /\ c.task = "running" /\ c.retries > 0
              /\ calls' = [calls EXCEPT ![k] = [c EXCEPT !.retries = @ - 1, !.task = "delayed"]]
          BY <4>7 DEF Retry
        <5>2. [c EXCEPT !.retries = @ - 1, !.task = "delayed"]
                = [c EXCEPT !.task = "delayed", !.retries = c.retries - 1]
          BY <4>1 DEF Call
        <5>3. c.retries - 1 \in Nat /\ (c.retries - 1) + 1 = c.retries
          BY <4>1, <5>1
        <5> QED
          BY <3>2, <4>3, <5>1, <5>2, <5>3 DEF Ended
      <4>8. CASE DelayElapses(k)
        <5>1. c.task = "delayed" /\ calls' = [calls EXCEPT ![k] = [c EXCEPT !.task = "running"]]
          BY <4>8 DEF DelayElapses
        <5>2. [c EXCEPT !.task = "running"] = [c EXCEPT !.task = "running", !.retries = c.retries]
          BY <4>1 DEF Call
        <5> QED
          BY <3>2, <4>1, <4>3, <5>1, <5>2 DEF Ended
      <4>9. CASE GivesUp(k)
        <5>1. c.task = "running" /\ calls' = [calls EXCEPT ![k] = [c EXCEPT !.task = "timeout"]]
          BY <4>9 DEF GivesUp
        <5>2. [c EXCEPT !.task = "timeout"] = [c EXCEPT !.task = "timeout", !.retries = c.retries]
          BY <4>1 DEF Call
        <5> QED
          BY <3>2, <4>1, <4>3, <5>1, <5>2 DEF Ended
      <4> QED
        BY <2>2, <4>4, <4>5, <4>6, <4>7, <4>8, <4>9 DEF CallStep
    <3> QED
      BY <3>1, <3>2
  <2>3. ASSUME NEW c \in Commands, Execute(c) PROVE calls'[j] = calls[j]
    BY <2>1, <2>3 DEF Execute
  <2>4. CASE AggregateStep
    BY <2>4 DEF AggregateStep
  <2>5. CASE UNCHANGED vars
    BY <2>5 DEF vars
  <2> QED
    BY <2>2, <2>3, <2>4, <2>5 DEF Next
<1> QED
  BY <1>1, IInvHolds, PTL DEF Spec, NearerItsEnd

=============================================================================
