------------------------------ MODULE AskUseCase ------------------------------
(***************************************************************************)
(* The use cases of the write side (useCase/untyped): each call of execute *)
(* asks the thread's aggregate once, with a timeout, and retryBackoff      *)
(* wraps the Future of that ask.  A retry runs the same Future again: when *)
(* the ask has timed out, so has every retry, and what the aggregate       *)
(* answers later reaches nobody.                                           *)
(*                                                                         *)
(* The thread is the abstract one, EventSourcedThread, which the untyped   *)
(* aggregate implements: it decides and stores when it likes, and may      *)
(* never answer.  The callers wait for no one, so calls overlap freely.    *)
(***************************************************************************)
EXTENDS ThreadAggregate, Sequences

CONSTANTS
  Commands,     \* the commands use cases may be asked for
  MaxRetries,   \* maxRetries
  MaxCalls      \* bound: calls of a use case

ASSUME UseCaseAssumption ==
  /\ Commands \subseteq {c \in Request : IsCommand(c)}
  /\ MaxRetries \in Nat /\ MaxCalls \in Nat

VARIABLES
  requests, replies, journal, states,   \* of EventSourcedThread
  calls                                 \* the calls of execute so far

threadVars == <<requests, replies, journal, states>>
vars == <<requests, replies, journal, states, calls>>

Aggregate == INSTANCE EventSourcedThread WITH Clients <- Commands

(***************************************************************************)
(* asked    the requests sent for the call                                 *)
(* future   sourceFuture, the result of the ask                            *)
(* retries  the maxRetries of the current retryBackoff                     *)
(* task     what became of the Task: the caller learns its end             *)
(* after    history: the calls whose success was known when this one began *)
(***************************************************************************)
Call ==
  [asked : SUBSET Nat, future : {"pending", "succeeded", "failed", "timeout"},
   retries : 0 .. MaxRetries,
   task : {"running", "delayed", "succeeded", "failed", "timeout"}, after : SUBSET Nat]

Ended == {"succeeded", "failed", "timeout"}

Init == Aggregate!Init /\ calls = <<>>

\* AddMessages draws its message ids anew for each call.
Fresh(c) ==
  c.op = "AddMessages" =>
    \A i \in DOMAIN requests :
      requests[i].op = "AddMessages" => c.messageIds \cap requests[i].messageIds = {}

Execute(c) ==
  /\ Len(calls) < MaxCalls
  /\ Fresh(c)
  /\ Aggregate!Submit(c)
  /\ calls' = Append(calls, [asked |-> {Len(requests) + 1}, future |-> "pending",
                             retries |-> MaxRetries, task |-> "running",
                             after |-> {k \in DOMAIN calls : calls[k].task = "succeeded"}])

AggregateStep ==
  /\ \E i \in DOMAIN requests :
       Aggregate!Record(i) \/ Aggregate!Acknowledge(i) \/ Aggregate!Refuse(i)
  /\ UNCHANGED calls

-----------------------------------------------------------------------------
(* The ask: its Future is completed once. *)

Completed(reply) == IF reply.ok THEN "succeeded" ELSE "failed"

\* Bugs the runs must notice: whatever is answered is a success; a request that
\* is still undecided is one.
MutReplyArrives(k) ==
  /\ calls[k].future = "pending"
  /\ \E i \in calls[k].asked : replies[i].answered
  /\ calls' = [calls EXCEPT ![k].future = "succeeded"]
  /\ UNCHANGED threadVars

MutEarlyReplyArrives(k) ==
  /\ calls[k].future = "pending"
  /\ \E i \in calls[k].asked : replies[i].answered \/ Answers(Aggregate!Durable, requests[i])
  /\ calls' = [calls EXCEPT ![k].future = "succeeded"]
  /\ UNCHANGED threadVars

ReplyArrives(k) ==
  /\ calls[k].future = "pending"
  /\ \E i \in calls[k].asked :
       /\ replies[i].answered
       /\ calls' = [calls EXCEPT ![k].future = Completed(replies[i])]
  /\ UNCHANGED threadVars

AskTimesOut(k) ==
  /\ calls[k].future = "pending"
  /\ calls' = [calls EXCEPT ![k].future = "timeout"]
  /\ UNCHANGED threadVars

-----------------------------------------------------------------------------
(* retryBackoff *)

\* The Future ended with a response, which is mapped to the use case's own.
Responds(k) ==
  /\ calls[k].task = "running"
  /\ calls[k].future \in {"succeeded", "failed"}
  /\ calls' = [calls EXCEPT ![k].task = calls[k].future]
  /\ UNCHANGED threadVars

\* A bug the runs must notice: retries not counted.
MutRetry(k) ==
  /\ calls[k].task = "running" /\ calls[k].future = "timeout"
  /\ calls[k].retries > 0
  /\ calls' = [calls EXCEPT ![k].task = "delayed"]
  /\ UNCHANGED threadVars

\* case ex: AskTimeoutException, maxRetries > 0
Retry(k) ==
  /\ calls[k].task = "running" /\ calls[k].future = "timeout"
  /\ calls[k].retries > 0
  /\ calls' = [calls EXCEPT ![k].retries = @ - 1, ![k].task = "delayed"]
  /\ UNCHANGED threadVars

\* Bugs the runs must notice: the command is asked anew; a retry counted twice.
MutDelayElapses(k) ==
  /\ calls[k].task = "delayed"
  /\ Aggregate!Submit(requests[CHOOSE i \in calls[k].asked : TRUE])
  /\ calls' = [calls EXCEPT ![k].task = "running", ![k].future = "pending",
                            ![k].asked = @ \cup {Len(requests) + 1}]

MutLateDelayElapses(k) ==
  /\ calls[k].task = "delayed"
  /\ calls' = [calls EXCEPT ![k].task = "running", ![k].retries = @ - 1]
  /\ UNCHANGED threadVars

\* delayExecution
DelayElapses(k) ==
  /\ calls[k].task = "delayed"
  /\ calls' = [calls EXCEPT ![k].task = "running"]
  /\ UNCHANGED threadVars

GivesUp(k) ==
  /\ calls[k].task = "running" /\ calls[k].future = "timeout"
  /\ calls[k].retries = 0
  /\ calls' = [calls EXCEPT ![k].task = "timeout"]
  /\ UNCHANGED threadVars

-----------------------------------------------------------------------------

CallStep(k) ==
  \/ ReplyArrives(k) \/ AskTimesOut(k)
  \/ Responds(k) \/ Retry(k) \/ DelayElapses(k) \/ GivesUp(k)

Next ==
  \/ \E c \in Commands : Execute(c)
  \/ AggregateStep
  \/ \E k \in DOMAIN calls : CallStep(k)

Spec == Init /\ [][Next]_vars

\* Timers elapse and Tasks run; the aggregate owes nothing.
FairSpec ==
  Spec /\ \A k \in 1 .. MaxCalls : WF_vars(k \in DOMAIN calls /\ CallStep(k))

-----------------------------------------------------------------------------
(* Properties *)

TypeOK ==
  /\ requests \in Seq(Commands)
  /\ replies \in Seq([answered : BOOLEAN, ok : BOOLEAN, value : {{}}])
  /\ journal \in Seq(Event) /\ states \in Seq(Behaviour)
  /\ Len(replies) = Len(requests) /\ Len(states) = Len(journal) + 1
  /\ calls \in Seq(Call)
  /\ \A k \in DOMAIN calls :
       calls[k].asked \subseteq DOMAIN requests /\ calls[k].after \subseteq 1 .. k - 1

(***************************************************************************)
(* However often a call is retried and whenever its command is decided, at *)
(* most one event is stored for it: a thread is not created, nor a message *)
(* added, twice because an answer was late.                                *)
(***************************************************************************)
StoredOncePerCall ==
  \A k \in DOMAIN calls : \A m, n \in DOMAIN journal :
    journal[m].id \in calls[k].asked /\ journal[n].id \in calls[k].asked => m = n

(***************************************************************************)
(* What the caller is told is what happened, timeouts aside: the event of  *)
(* a success is in the journal, stored when the thread accepted the        *)
(* command; after a failure the command has not changed the thread and     *)
(* never will.                                                             *)
(***************************************************************************)
ToldTheTruth ==
  \A k \in DOMAIN calls :
    /\ calls[k].task = "succeeded" =>
         \E n \in DOMAIN journal :
           /\ journal[n].id \in calls[k].asked
           /\ Accepts(states[n], ToCommandRequest(journal[n]))
    /\ calls[k].task = "failed" =>
         \A i \in calls[k].asked :
           /\ ~Aggregate!Undecided(i)
           /\ \A n \in DOMAIN journal : journal[n].id = i => states[n + 1] = states[n]

(***************************************************************************)
(* A caller who has seen a success and then calls again finds it: the      *)
(* event of the earlier call is stored, and before that of the later one.  *)
(***************************************************************************)
SuccessIsSeen ==
  \A k \in DOMAIN calls : \A j \in calls[k].after :
    \E m \in DOMAIN journal :
      /\ journal[m].id \in calls[j].asked
      /\ \A n \in DOMAIN journal : journal[n].id \in calls[k].asked => m < n

\* The most steps the call c may still take.
ToGo(c) ==
  (IF c.future = "pending" THEN 1 ELSE 0)
  + (IF c.task \in Ended THEN 0
     ELSE 1 + 2 * c.retries + (IF c.task = "delayed" THEN 1 ELSE 0))

(***************************************************************************)
(* Whatever happens to a call leaves it fewer steps: however answers,      *)
(* timeouts, retries and delays follow on one another, no call goes round  *)
(* in circles.                                                             *)
(***************************************************************************)
NearerItsEnd ==
  [][\A k \in DOMAIN calls : calls'[k] = calls[k] \/ ToGo(calls'[k]) < ToGo(calls[k])]_vars

\* Every call ends, though the aggregate may never answer.
EveryCallEnds == \A k \in 1 .. MaxCalls :
    k \in DOMAIN calls ~> k \in DOMAIN calls /\ calls[k].task \in Ended

=============================================================================
