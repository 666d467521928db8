# thread-weaver in TLA+

thread-weaver is a chat application built with Akka as CQRS + event sourcing. A
*thread* is an event-sourced actor on the write side; a *read model updater*
(RMU) copies the events of all threads of a tag into SQL tables; queries read
the tables. This directory holds TLA+ models of that code, their TLC runs and
TLAPS proofs. Paths below are relative to `src/`; `untyped/` and `typed/` are
`modules/interface/src/main/scala/.../adaptor/aggregates/{untyped,typed}/`.
The production wiring (`modules/use-case/.../DISettings.scala`,
`modules/interface/.../adaptor/DISettings.scala`) selects the untyped design,
and that is the one modelled in full.

## Inventory

| component | state | operations | talks to | hard behaviour | what makes it correct |
|---|---|---|---|---|---|
| domain model `Thread` | administrators, members, messages, removedAt | join/leave administrators and members, add/remove/get messages, destroy | none (pure) | permission and limit checks, clock in `isRemoved` | never without administrator, never above the limit |
| `untyped/ThreadAggregate` (child) | one of three behaviours, the thread | one handler per request | answers the sender | requests without a case are unhandled | its state is what the journal stands for |
| `untyped/PersistentThreadAggregate` (parent) | behaviour stack, stash, pending write | recovery, command, query, response, `Terminated` | child, journal, asker | stash/unstash, write in flight, recovery, child failure | durable before acknowledged, in order, nobody forgotten |
| broker and sharding (`ThreadAggregates`, `ShardedThreadAggregates`, `ChildActorLookup`) | children, receive timeout | forward, create on demand, passivate | parent actors | passivation against a late request | at most one incarnation |
| protocol (`untyped/ThreadProtocol`) | none | `toEvent`, `toCommandRequest`, response traits | all | a response of the wrong trait | replay is the command decided |
| typed variants | as above, in `EventSourcedBehavior` | command and event handler | journal | event handler uses `.right.get` with the clock | replay never throws |
| RMU | kill switch, stream, offset in SQL | `Start`, batches, restarts | journal, database | offset per tag against number per thread, restarts, poison events, a batch that outlives its stream | every event in order, none passed over, rows = aggregate |
| RMU sharding and `ThreadToRMURouter` | children, receive timeout | Started/Stopped to Start/Stop | aggregates, RMU | Start and Stop unhandled | live threads are read |
| tagging | none | tag at write, tag at start | journal, RMU | `Math.abs` and `Int.MinValue` | both give the same tag |
| use cases | the ask | ask with timeout, retry | broker | retry of a completed future | every request answered or refused once |
| DAS queries | none | joins over the tables | database | duplicate rows, deleted rows | what members may see |
| HTTP, gRPC, validators, presenters, DI, metrics, client, charts, ULID | none of their own | parsing, layout, start-up | use cases | none | not modelled |

The interactions: a client's ask goes use case -> shard region -> entity
(`ShardedThreadAggregates`) -> `PersistentThreadAggregate` -> child. The child
answers a command to the parent, which persists and then answers the asker; the
child answers a query to the asker itself. Start and stop of a child notify the
subscribers, from where the router starts the RMU of the thread's tag, which
reads the journal.

## Modules

| module | models | contents |
|---|---|---|
| `Thread` | `domain/model/threads/Thread.scala` | one operator per operation of `ThreadImpl`, each with the `Either` it returns |
| `ThreadProtocol` | `untyped/ThreadProtocol.scala` | requests, events, `ToEvent`, `ToCommandRequest`, `IsSuccessResponse` |
| `ThreadAggregate` | `untyped/ThreadAggregate.scala` | the child's behaviours, what each handles, what it answers and becomes |
| `PersistentThreadAggregate` | `untyped/PersistentThreadAggregate.scala` | the state machine: parent, child, mailboxes, journal, clients, faults |
| `EventSourcedThread` | - | what the aggregate promises, without actors: decisions against the journal in one step |
| `AskUseCase` | `useCase/untyped/*.scala` | the ask, its timeout and `retryBackoff`, over an instance of `EventSourcedThread` |
| `TagPartition` | `JournalEventTagPartitioner`, `ThreadTag` | the two computations of a tag over an Int of any width |
| `ThreadLifecycle` | sharded aggregates, `ChildActorLookup`, `ThreadToRMURouter`, sharded updaters | who is started and stopped when, for several threads, with the updater wired either way |
| `ReadModelTables` | the SQL tables and actions | the rows, their keys, and the transaction of each event |
| `ThreadReadModelUpdater` | `ThreadReadModelUpdater.scala` | aggregates writing the journal, the updater's stream, its restarts and crashes |
| `EventProjection` | - | what the updater promises of the tables: readers that go through the tag in order, one transaction an event |
| `ThreadDas` | `das/ThreadDas.scala` | the queries over the updater's tables and who is shown what |
| `TypedPersistentThread` | `typed/PersistentThreadAggregate.scala` | command handler, event handler, recovery and the clock |
| `MC*` | - | the instances TLC checks |

`ThreadProtocol` extends `Thread`, `ThreadAggregate` extends `ThreadProtocol`;
`PersistentThreadAggregate`, `AskUseCase` and `ThreadReadModelUpdater` extend
`ThreadAggregate`, so the same handlers decide in each of them. Two composition
steps rest on the refinements: `AskUseCase` asks an *instance* of
`EventSourcedThread`, which `PersistentThreadAggregate` implements; and the step
`Write` of `ThreadReadModelUpdater` is the step `Record` of the same module with
the tag's journal as its output. `ThreadDas` extends `ThreadReadModelUpdater`.

### PersistentThreadAggregate

State and code: `mode` is the parent's lifecycle and behaviour stack (`ready` is
`receiveCommand`, `sending` is the closure pushed by `context.become`);
`current` is the command the closure holds; `write` its `persistAsync`;
`mailbox`, `stash`, `childMailbox` the queues; `child` the behaviour
`context.become` left in the child; `journal` the stored events; `requests` and
`replies` the asks of the use cases. `states`, `applied`, `dropped` are history
variables.

Actions are the message handlers: `ReplayEvent` and `RecoveryCompleted`
(`receiveRecover`), `ReceiveCommand`, `ForwardQuery`, `ReceiveTerminated`
(`receiveCommand`), `SendingSuccess`, `SendingFailure`, `SendingStash`
(`sending`), `Persisted` (the handler of `persistAsync`), `ChildReplays`,
`ChildHandlesCommand`, `ChildAnswersQuery` (the child), `ChildFails` (supervisor
strategy `Stop`), `Stop` (passivation, hand-off, a failed write, the end of the
JVM), `Ask` (the broker creates the entity when it is not there), and, for the
journal, `JournalStores` and `JournalRejects`.

What the model leaves out: stamps and texts; the reply flag, which is true for
every use case and false for every replayed command; the ULIDs, replaced by
request numbers; messages of several senders in one `AddMessages`; the ask
timeout, which is in `AskUseCase` (here a reply is given when it is sent).
`Stop` decides the fate of a write at once: a write that lands while the next
incarnation recovers, and an ask that reaches an incarnation while it
terminates, are not modelled. The internal stash of akka-persistence gives
unstashed messages back one by one, which has the same effect as putting them
all in front of the mailbox.

The three deviations from what the documents say are kept in the model, because
they are in the code: a failed join counts as a success response
(`IsSuccessResponse`), `LeaveMemberIds` joins (`CommandLeaveMemberIds`), and
requests without a case get no answer (`Handled`).

### AskUseCase

A call of `execute` (`Execute`) submits one command; `future` is the Future of
the ask, completed once by `ReplyArrives` or `AskTimesOut`; `retries` and `task`
are the recursion of `retryBackoff` (`Responds`, `Retry`, `DelayElapses`,
`GivesUp`). `sourceFuture` is a value, so a retry observes the Future that has
already failed; the command is not sent again. The thread decides whenever it
likes (`AggregateStep`), also after the caller has given up. Callers do not wait
for each other, and `after` remembers which successes were known when a call
began. An `AddMessages` carries new message ids, as the use case draws them.

### ThreadLifecycle

`shard`, `passivate` and `buffer` are Akka's shard (external: it holds back what
comes between `Passivate` and the entity's termination and starts the entity
again for it). `entityBox` and `aggregateBox` are the mailboxes of
`ShardedThreadAggregates` and of the aggregate it creates on demand
(`ForwardToActor`); `UnhandledTimeout` and `UnhandledStop` are the cases of
`unhandled`.

The aggregate is a parent and its child. What the two do with a request is left
to `PersistentThreadAggregate` (here it is taken and answered in one step,
`AggregateHandles`); what becomes of them is here. A child that throws is
stopped by its supervisor (`ChildFails`) and the parent gets a `Terminated`. It
ends the parent when the parent takes it (`AggregateTerminated`), which may be
behind other requests; those go to the dead child (`AggregateLoses`), and a
parent that waits for the answer to one of them, or to the command over which
the child failed, is `stuck`: it stashes `Terminated` and every later request
until a passivation stops it. Requests are not told apart here, so one that a
childless parent takes may be the command that makes it wait or a query that
does not. A failing journal stops the parent itself (`AggregateFails`).

`Started` and `Stopped` are what `preStart` and `postStop` of the child tell the
router, which forwards them (`RouterForwards`) to the updater: directly, as the
tests wire it (`UpdaterReceives`, the first Start counts and there is no case
for Stop), or to sharded entities, as `DISettings` wires it
(`ShardedUpdaterReceives`, where `forwardToActor` has no case for either). The
hash of each thread is chosen at the start and gives both tags.

### ReadModelTables, ThreadReadModelUpdater, EventProjection

`tables` holds the rows the code reads back; `MeetsKeys` says when the
transaction of an event violates a primary, unique or foreign key, `Committed`
what it leaves otherwise. `DeleteMessages` filters by message id alone, as the
code does. `tagged` is the tag's journal, each event with the sequence number
its thread gives it; `position` counts the tag. `ReadOffset` is
`getSequenceNrAction` and `eventsByTag`, `SendBatch` the grouping of SQL
actions, `Commit` the transaction of one event (a batch is not a transaction).
`KeyViolated`, `DatabaseFails` and `SourceFails` are the failures that make
`RestartSource` start again or give up, `BackoffElapsed` its timer, `Crash` the
end of the JVM. The restart counter may or may not be forgotten, since that
depends on how long the stream has run. Reading ahead of the database changes
nothing and is part of `SendBatch`.

When the database refuses a transaction, the batch is over with the stream. When
`eventsByTag` fails it is not: `mapAsync(1)` fails at once, nobody cancels the
`Future` of `db.run(DBIO.sequence(...))`, and what is left of the batch goes on
beside the backoff and the streams that follow. `orphans` holds such batches,
by the number of the fault that left them; `OrphanCommits` and `OrphanFails` are
their steps. `overlapped` remembers whether a stream has read its offset while
one of them was under way.

`EventProjection` is the same without streams: events are stored (`Store`), and
readers begin where the tables say (`Begin`), `Apply` one event after the other,
stop (`Stop`) or leave their place to another (`LeavePlace`). The stream is
reader 0, the batch abandoned at the i-th fault is reader i; `Places` gives the
event each of them has got to.

### ThreadDas

Each query is the set of rows its joins produce, filtered by the account. As in
the code, the account filter is a disjunction over the two outer joins, the
lists of administrators and members contain the asking account's own row only,
a message comes once for every pair of member and administrator, and neither
`deleted` nor `removed` is looked at. `ReadersAgree` states this exactly for the
messages: an account that may read is shown those the aggregate would give it
and, besides, every message that was removed. Destroyed threads are left out of
it: the aggregate answers nothing about them, the queries go on as before.

### TypedPersistentThread

The typed aggregate keeps the thread it has destroyed, so `isRemoved` compares
the clock with the stamp of the `DestroyThread`, which is the client's. The
command handler decides with the clock (`Persists`), the event handler calls
`.right.get` with a later one (`Applies`), at once or in a replay.

## Runs

| run | question | bounds |
|---|---|---|
| `core_safety` | type, durability of acknowledged commands, child = journal, no request lost or answered twice, events in arrival order, nobody waiting for nothing, administrators, limit, and the refinement of `EventSourcedThread` | a `CreateThread`, then any 3 of 14 requests, 1 fault anywhere |
| `core_liveness` | every request is decided or dropped unless the parent is blocked, under fairness | any 4 of 5 requests, 1 fault |
| `rejected_join_stored` | *violated*: events are stored only for accepted commands | 2 requests |
| `leavers_stay` | *violated*: those who left are no members | 2 requests |
| `command_blocks_thread` | *violated*: every ask is answered | 3 requests, no fault |
| `ask_use_case` | overlapping and retried calls store one event each at most, their callers are told what happened, a success is seen by later calls, every step brings a call nearer its end, every call ends | 3 calls of 4 commands, 1 retry each |
| `lifecycle` | passivation drops nothing and holds nothing back for good, requests are taken in order, every request is accounted for, Started and Stopped in step, tags agree but for one hash; every request is handled in the end or its aggregate waits for a dead child, which a passivation ends; live threads are read | 2 threads, 2 requests, 2 timeouts or failures of a child or the journal, both wirings, 3 choices of hashes |
| `updater_never_starts` | *violated*: the updater starts with the aggregate | sharded wiring |
| `read_model` | no event skipped, applied once when the thread is alone and no batch outlasts the backoff, rows = aggregate and queries = aggregate plus removed messages while undisturbed, `EventProjection`, who is shown a thread; every event is applied in the end | 2 threads in the tag, 4 events, 8 commands, batches of 2, 1 restart, 2 faults |
| `events_read_again` | *violated*: events are read since the last sequence number, batches of failed streams left aside | 2 threads |
| `removal_crosses_threads` | *violated*: a message is removed by its sender only | 2 threads |
| `typed_replay_throws` | *violated*: the state is replayed after a reboot | a clock ahead or behind by 1 |

The bounds of the runs of `MCPersistentThreadAggregate`: four requests
suffice for a command in the child, one in its response, a query and a command
behind it in the stash, and for a stash that is emptied twice; one fault gives a
restart with a journal of up to three events, a dead child or a rejected write
at every point. Three accounts are an administrator, a member and a stranger; a
limit of two messages lets a batch of two meet it or exceed it. `CreatedFirst`
(a state constraint of `core_safety`) spends the bound on a thread that exists;
`core_liveness` and the violations do without it.

Three calls are two that overlap and one that begins after either; one retry
gives a timeout before, during and after it. In `lifecycle` two threads share a
tag or do not; two requests and two stops put a request before, between and
behind a `Passivate` and a `StopThread`, with an aggregate that failed in
between. The Int of four bits has hashes of both signs and `Int.MinValue`. In
`read_model` four events are two of each thread in every order or four of one,
a batch of two can fail in its middle, and two faults are a failure while
recovering from a failure, or a crash while the batch of a failed stream goes
on; one restart is used up by the second. `BeginsWithT1` (a state constraint)
keeps one of two threads that are alike as the first of the tag; the second
sender's message and the join that is refused are left to the runs of the
findings (`MCFewerCommands`).

Deadlock checking is off in the runs because a system whose clients have
nothing more to ask has stopped.

### Fairness

Nowhere are clients obliged to ask or faults to happen.

* `PersistentThreadAggregate`: weak fairness of the parent, the child and the
  journal's write. Akka's dispatcher runs every actor with a message, and a
  journal plugin completes a write that was not failed or rejected.
  `EventuallyDecided` has an escape, `Blocked`: the parent waits for a response
  or a write that will not come; `command_blocks_thread` shows that this happens.
* `AskUseCase`: weak fairness of each call's own steps, since timers elapse and
  Tasks run. None for the aggregate: `EveryCallEnds` holds though it may never
  answer.
* `ThreadLifecycle`: weak fairness of each thread's actors and shard, and of the
  router and the updater. Receive timeouts and failures are not fair, so nobody
  is obliged to end an aggregate that waits for a dead child.
* `ThreadReadModelUpdater`: weak fairness of the stream's steps: it has demand,
  its backoff elapses and the database answers. The batches of failed streams
  need not go on. `EventuallyApplied` excepts an
  updater that was never started or has used up its restarts, and an event that
  the tables refuse: the stream meets it again after each restart, and the code
  has no way round it.

## Proofs

Each theorem holds for every value of the constants its assumptions admit: any
sets of accounts, message ids, threads and commands, any limit, batch size,
number of restarts and retries, width of Int and number of partitions, and any
bounds. What the runs show on small instances is the same formulas. Every
invariant, every refinement and the action property of the passing runs is
proved, and so is the condition under which the property that
`typed_replay_throws` violates holds.

| theorem | property | module |
|---|---|---|
| `TypeCorrect` | `TypeOK` | `PersistentThreadAggregate_proofs` |
| `AcknowledgedDurably` | `AcknowledgedIsDurable` | `PersistentThreadAggregate_proofs` |
| `AlwaysAdministered` | `AdministratorsNeverEmpty` | `PersistentThreadAggregate_proofs` |
| `LimitRespected` | `MessagesWithinLimit` | `PersistentThreadAggregate_proofs` |
| `ChildFollowsJournal` | `ChildReflectsJournal` | `ChildReflectsJournal_proofs` |
| `JournalInArrivalOrder` | `StoredInArrivalOrder` | `ArrivalOrder_proofs` |
| `NobodyForgotten` | `RequestsAccountedFor` | `ArrivalOrder_proofs` |
| `WaitingIsForSomething` | `NobodyWaitsInVain` | `ArrivalOrder_proofs` |
| `ActorsImplementThread` | `ImplementsEventSourcedThread` | `ArrivalOrder_proofs` |
| `ReplayIsTheCommand` | `ToCommandRequest(ToEvent(c, id)) = c` for commands | `ThreadAggregate_proofs` |
| `UseCaseTypeCorrect` | `TypeOK` | `AskUseCase_proofs` |
| `RetriesStoreOnce` | `StoredOncePerCall` | `AskUseCase_proofs` |
| `CallersAreToldTheTruth` | `ToldTheTruth` | `AskUseCase_proofs` |
| `SuccessesAreSeen` | `SuccessIsSeen` | `AskUseCase_proofs` |
| `CallsComeToTheirEnd` | `NearerItsEnd` | `AskUseCase_proofs` |
| `LifecycleTypeCorrect` | `TypeOK` | `ThreadLifecycle_proofs` |
| `PassivationIsLast` | `NothingBehindStop` | `ThreadLifecycle_proofs` |
| `EveryRequestAccounted` | `NoneUnaccounted` | `ThreadLifecycle_proofs` |
| `ShardWaitsForTheStopped` | `NobodyHeldBack` | `ThreadLifecycle_proofs` |
| `RequestsTakenInOrder` | `TakenInOrder` | `ThreadLifecycle_proofs` |
| `ToldOfEveryAggregate` | `ToldInStep` | `ThreadLifecycle_proofs` |
| `UpdaterReadsWhatIsWritten` | `TagsAgree` | `ThreadLifecycle_proofs` |
| `UpdaterTypeCorrect` | `TypeOK` | `ThreadReadModelUpdater_proofs` |
| `NoEventPassedOver` | `NothingSkipped` | `ThreadReadModelUpdater_proofs` |
| `UpdaterProjectsEvents` | `ImplementsProjection` | `ThreadReadModelUpdater_proofs` |
| `AppliedExactlyOnce` | `ExactlyOnceAlone` | `ThreadReadModelUpdater_proofs` |
| `RowsShowTheAggregate` | `ShowsTheAggregate` | `ThreadReadModelUpdater_proofs` |
| `ThreadsSeenByInvited` | `SeenByInvited` | `ThreadReadModelUpdater_proofs` |
| `QueriesAgreeWithAggregate` | `ReadersAgree` | `ThreadReadModelUpdater_proofs` |
| `ReplayedUnlessStampedAhead` | `ReplayedAfterReboot`, when no stamp is ahead of the clock | `TypedPersistentThread_proofs` |

Assumptions on the constants: the limit is a natural number
(`MessagesLimitAssumption`); clients send requests of the protocol and the bounds
are natural numbers (`ClientsAssumption`, `UpdaterAssumption`,
`UseCaseAssumption`, `LifecycleAssumption`); a `CreateThread` names an
administrator, because its field is a `NonEmptyList` (`CreatorsAssumption`, needed
only for `AlwaysAdministered`); a batch of messages is finite
(`BatchesAssumption`, needed only for `LimitRespected`); `MinInt` is negative and
there are between 1 and `Int.MaxValue` partitions (`PartitionAssumption`). TLC
evaluates each in the runs of the modules that declare it.

### PersistentThreadAggregate

In layers; each inductive invariant was an invariant of a TLC run with four
requests and two faults before it was proved.

1. `IInv`: `TypeOK` is not inductive. That the child finds the command a queued
   message names needs `References`; that `JournalStores` turns a command, and not
   a query or nothing, into an event needs `Closure`; and that a response or a
   write belongs to the command in `current` needs `OneDecision`: the command
   being decided is in the child's queue, in a response, or in a write, at most
   once and in one of them. `AcknowledgedIsDurable` follows from `Closure`: a
   stored write has its event in the journal.
2. `AllSound`: every state of the history has an administrator and respects the
   limit, because `After` preserves both (`HandleSound`, one case per handler).
   The lemmas about handlers are in `ThreadAggregate_proofs`.
3. `SyncInv` adds where the child stands. The replays that recovery has sent and
   the child has not processed stand in front of its queue, in order
   (`Backlogged`); the child is in the state of the first `applied` events, or
   one command ahead once it has decided `current` (`ChildState`); what it said
   is what a decision against the journal would say (`Verdict`). The parent does
   not wait for the replay, so commands and queries may be queued behind
   replays; this is why `Backlogged` is needed.
4. `OrderInv` adds the numbers of the requests: journal before the command being
   decided, before the stash, before the mailbox, each ascending
   (`ArrivalOrder`); each request is in one place (`RequestsAccountedFor`); and a
   verdict stays true until its event is stored (`DecidedOnce`).
5. The refinement, under the identity mapping: `JournalStores` is `Record`,
   `Persisted` is `Acknowledge`, `SendingFailure` is `Refuse`,
   `ChildAnswersQuery` is `AnswerQuery`, `Ask` is `Submit`, and every other step
   leaves requests, replies, journal and states alone. A query is answered from
   the durable state since, when it reaches the head of the child's queue, no
   replay is left and no command is undecided.
6. `NobodyWaitsInVain`, the safety half of `EventuallyDecided`: a parent in
   `sending` has its decision under way (in the child's queue, in a response of
   its own mailbox, or in the write), or is `Blocked`; nothing is stashed while
   it is not `sending`; and an actor that has stopped holds nobody. The
   invariant of the order is strengthened by `Awaited`, which says where the
   command of a sending parent is and that a stopped actor keeps no queue.

### AskUseCase

`SuccessIsSeen` alone is not inductive: that the event of an earlier call stands
before that of a later one needs that the earlier call's task, future, reply and
event agree. `IInv` states it link by link: a call has asked one request, and
what became of its future is what was replied (`CallInv`); a reply of success
has an accepted event, one of failure has none and never will (`ReplyInv`); each
event is that of one request, and no request has two (`JournalInv`). A call
knows only successes before it, whose events are stored when it is submitted;
its own event can only be appended. `NearerItsEnd` needs only the types: `ToGo`
counts two steps per retry left, one for the ask, one for a delay and one for
the end, and every step of a call makes it smaller; what remains for
`EveryCallEnds` is that a call which has not ended can take a step. The
definitions of `EventSourcedThread` are used through its instance, and a lemma
says that both read the protocol alike.

### ThreadLifecycle

`ToldInv` is inductive once it knows who can have a child (`ChildInv`): a child
tells one thing when it starts and another when it ends, its own failure
included, so the parity of what was told says whether it lives (`Alive`), and a
parent that ends after its child tells nothing.
`NothingBehindStop` needs the types of the mailboxes (`BoxInv`) and that a
passivating shard puts nothing behind the stop message. `NoneUnaccounted` says
only which requests there are; what is inductive is that each stands in exactly
one place and that no mailbox holds one twice (`PlaceInv`: `HeldOnce`,
`Distinct`). For requests not to disappear when an entity terminates its mailbox
must be empty then, which is `GoneInv` and follows from `NothingBehindStop`.
Each step is shown to move some requests from one place to one other (`Moves`),
and one lemma does the rest. `UpdaterReadsWhatIsWritten` is arithmetic on
remainders of both signs: the two computations agree for every hash but the
smallest (`PartitionsAgree`); for that one `Math.abs` returns its argument, and
the remainder is zero or negative (`SmallestHash`), in which case it is the
number of no tag that is written.

`NobodyHeldBack` is what `EventuallyHandled` owes to safety: the shard holds
requests back only while it passivates, and while it does the entity has the
stop message in its mailbox or is gone, nothing waits in the mailbox of an actor
that is not there, and a parent without its child has the `Terminated` before it
unless it waits for the child's answer. A shard that waited for a termination
nobody causes is the failure it excludes; the stale `Passivate` of an earlier
incarnation is the step that makes it worth proving. For `TakenInOrder` the
order has to be taken over all three places at once (`Underway`): requests move
between them, from the front of one to the back of the next, and a restart puts
the buffer where the mailbox was, which is empty then. A `Terminated` between
the requests does not disturb their order (`AscendingBetween`).

### ThreadReadModelUpdater

`IInv` is what makes the offset harmless with any number of threads in the tag:
an event's number in its thread is at most its number in the tag
(`JournalInv`), what has been applied is a prefix of the tag and no row is ahead
of it (`TablesInv`), and a running stream has gone past nothing that is missing
(`StreamInv`), nor has a batch whose stream has failed (`OrphanInv`). Hence
whoever commits an event finds all before it applied (`Ready`), one lemma about
a transaction serves stream and abandoned batch alike (`TransactIInv`), and the
largest row number never points past an event that is missing. The refinement
uses only this: `Commit` and `OrphanCommits` are `Apply`, `Write` is `Store`,
`ReadOffset` is `Begin`, a failure of the source is `LeavePlace`, and whatever
else ends a stream or a batch is `Stop`.

That events are applied *once* holds only while the tag has a single thread and
no stream reads its offset while the batch of an earlier one is under way
(`overlapped`). `AloneInv` is conditional on both: if n events are applied they
are the first n, the row's number is n (`AloneRows`), and one reader at most,
the stream or an abandoned batch, stands at n (`AlonePlaces`). Without the
second condition it is false: see the findings.

What the rows show needs neither condition: who applied an event does not
matter, only whether it was applied before. A thread is
`Undisturbed` as long as no event was applied twice and no other thread removed
a message of it. `ThreadJournal` states how the events of each thread lie in the
tag: numbered 1, 2, ... without a gap, ascending, each leading from one of the
aggregate's behaviours to the next. `ContentInv` adds that the applied events of
t are exactly those up to its row's number (`Counted`), as long as none was
applied twice (`Once`), so that the next of them anybody applies is the next of
the thread (`NextOfItsThread`), and that the
rows show the behaviour of that number (`Faithful`). `FollowsShows` is the heart
of it: the transaction of an event and the command that it stands for change
tables and thread alike, one case per event; every other thread is `Untouched`.
`Misreported` excepts the two events that findings below are about. That an
event is read again, or a removal crosses threads, are the findings
`events_read_again` and `removal_crosses_threads`: the theorem says that with
`Misreported` they are the only ways for the two sides to part.

`ThreadsSeenByInvited` needs no such condition: a transaction gives a thread no
account its event does not name (`CommittedInvites`). `QueriesAgreeWithAggregate`
(the same accounts, the same messages and the removed ones besides)
follows from `ShowsTheAggregate`, that a row of t is joined to exactly its
administrators and members (`SeesItsAccounts`), and that no aggregate holds a
thread with a `removedAt` (`NotRemovedInv`), for which the accounts would be
refused.

### TypedPersistentThread

`typed_replay_throws` finds a journal that cannot be replayed. The theorem
`ReplayedUnlessStampedAhead` shows that there is no other way to one: if no
`DestroyThread` is stored with a stamp the clock has not passed
(`DestroyedInThePast`, an action property that restricts the specification and
that the code does not ensure), then every later replay succeeds, for any
clock that does not run backwards. `ReplayInv` says that there is a sequence of
threads, one per stored event, each reached from the one before it by a command
whose acceptance does not depend on the clock (`ClockIgnored`) or after which
nothing is accepted any more (`RemovedRefuses`).

### Only model-checked

`EventuallyDecided`, `EveryCallEnds`, `EventuallyHandled`, `AliveThreadsAreRead`
and `EventuallyApplied`: liveness under fairness is beyond the prover. Of four
of them a safety half is proved: `NobodyWaitsInVain`, `NearerItsEnd`,
`NobodyHeldBack`, and `NothingSkipped` for `EventuallyApplied`. The seven
violations are counterexamples of TLC.

## Findings

* `rejected_join_stored`: `JoinAdministratorIdsResponse` extends
  `CommandSuccessResponse` (`ThreadProtocol.scala:158`), so the event of a
  rejected join is stored. The aggregate itself recovers correctly, since the
  replayed join is rejected again; the read model shows an administrator who
  is none.
* `leavers_stay`: `commandLeaveMemberIds` calls `joinMemberIds`
  (`untyped/ThreadAggregate.scala:41`, in the typed aggregate too), while the
  read model deletes the leavers.
* `command_blocks_thread`: a command without a case in the child's behaviour
  leaves the parent in `sending` for good.
* `events_read_again`: the offset counts the events of one thread, `eventsByTag`
  those of the tag. Nothing is skipped, but with several threads in a tag a
  restarted stream reads events again, and a repeated insert is refused by its
  key, restart after restart.
* `removal_crosses_threads`: the `MessagesRemoved` event carries all ids that were
  asked for, and the rows are marked by message id alone, whatever their thread
  and sender.
* `updater_never_starts`: with the wiring of the programs, Start and Stop of the
  updater reach `forwardToActor`, which has a case for the aggregates'
  `BaseCommandRequest` only, and are unhandled.
* `typed_replay_throws`: the typed aggregate accepts a command while the clock
  has not passed the stamp of a `DestroyThread`; replayed later it is refused,
  `.right.get` throws, and the thread can not be recovered. The sentence of
  `slide/presentation.md` it is held against is about a persistence actor in
  general, on the slide of the untyped test.

Beside these, seen while modelling and contradicting no document: joining an
account that is a member already is accepted by the aggregate and refused by the
unique key of the read model (the escape of `EventuallyApplied`); an updater
whose stream has given up ignores every later Start; a batch that outlasts the
backoff after a failure of `eventsByTag` may commit events that the restarted
stream commits as well, also when the tag has one thread only, so that an
administrator who left and joined again, for instance, is missing in the rows; a
parent whose child dies while it is waiting stashes everything until it is
passivated; `maxRetries` never sends the command again; the two computations of
the tag differ for `Int.MinValue`; queries show removed messages and destroyed
threads, and a message as often as its thread has pairs of members and
administrators, which the limit counts.

## Plan

Left, in this order:

1. A write that lands while the next incarnation recovers (two writers of one
   journal), once a journal plugin's promise for it is fixed.
2. `ThreadLifecycle` with a repaired `forwardToActor`, should it be repaired: the
   stream belongs to a materializer of the actor system and there is no
   `postStop`, so that it would outlive its actor. As the programs are wired it
   never starts.
3. The typed queries, broker and sharding.

## Not modelled

* HTTP and gRPC adaptation, validation and presentation are stateless; what they
  let through is the constant of requests or commands of each module. DI,
  configuration, metrics, load tests, charts and the API client hold no logic of
  threads; nor do the JavaScript files under `swagger/`, which are vendored.
* Serialization is a format conversion. `ThreadEventJSONSerializer` has a case for
  `ThreadCreated` only, and `akka.conf` binds only that event to it; the others
  use Akka's default.
* ULID generation is replaced by numbering; ids that collide are left out.
* `parent_id`: `CreateThreadUseCaseUntypeImpl` passes no parent, although the HTTP
  request carries one.
* Duplicates within a list of ids (a join that names an account twice violates
  the unique key) are abstracted by sets.
* `eventsByTag` is modelled as LevelDB's plugin has it, numbering the events of
  a tag; what DynamoDB's does with an offset is not in this code.
* Rebalancing of shards and failures of the cluster; failures of the journal in
  the typed aggregate.
* `offset` and `limit` of the queries: without an `ORDER BY` a page is whatever
  the database returns.
