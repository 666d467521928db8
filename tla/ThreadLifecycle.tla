--------------------------- MODULE ThreadLifecycle ---------------------------
(***************************************************************************)
(* When threads and their updater live.  A request reaches the shard of    *)
(* its thread, the entity (ShardedThreadAggregates) and the aggregate, and *)
(* starts what is not there; an idle entity asks to be passivated and      *)
(* takes the aggregate with it.  Each start and stop of an aggregate is    *)
(* told to ThreadToRMURouter, which tells the updater of the thread's tag: *)
(* the ThreadReadModelUpdater itself in the wiring of the tests            *)
(* (DITestSettings), a sharded entity in that of the programs              *)
(* (DISettings).                                                           *)
(*                                                                         *)
(* The shard is Akka's: it buffers what comes for an entity from its       *)
(* Passivate to its termination and then starts the entity anew.           *)
(*                                                                         *)
(* The aggregate is two actors: PersistentThreadAggregate takes requests   *)
(* and waits for the answer of its child ThreadAggregate.  Here a request  *)
(* is taken and answered in one step; what the two do with it is the       *)
(* module PersistentThreadAggregate.  What becomes of the aggregate when   *)
(* the child fails is here: it ends when it takes the Terminated, unless   *)
(* it waits for an answer of the dead child; then it stashes for ever.     *)
(***************************************************************************)
EXTENDS TagPartition, Sequences, FiniteSets

CONSTANTS
  Threads,       \* ThreadIds
  Hashes,        \* the hashes the ThreadIds may have together
  Wirings,       \* how the updater may be wired: direct, sharded
  MaxRequests,   \* bound: requests sent in a behaviour
  MaxStops       \* bound: receive timeouts and failures

ASSUME LifecycleAssumption ==
  /\ Hashes \subseteq [Threads -> Hash]
  /\ Wirings \subseteq {"direct", "sharded"}
  /\ MaxRequests \in Nat /\ MaxStops \in Nat

VARIABLES
  hash, wiring,    \* chosen once
  shard,           \* shard[t]: what the shard knows of the entity: none, active, passivating
  passivate,       \* threads whose entity's Passivate is on its way to the shard
  buffer,          \* buffer[t]: what the shard holds back
  entities,        \* threads whose entity is alive
  entityBox,       \* the mailbox of each entity
  aggregates,      \* threads whose aggregate is alive
  aggregateBox,    \* the mailbox of each aggregate, and its stash
  childless,       \* threads whose aggregate is alive without its child
  stuck,           \* those whose aggregate waits for the dead child's answer
  routerBox,       \* the router's mailbox
  updaterBox,      \* the mailbox of the updater or its shard region
  updaters,        \* sharded: tags whose entity ShardedThreadReadModelUpdaters is alive
  streams,         \* the tags whose events are being read
  requests,        \* requests sent so far
  stops            \* receive timeouts and failures so far

\* History: requests an aggregate took, requests gone with an actor, and what
\* was told of each thread's aggregate.
VARIABLES handled, lost, told

shardVars == <<shard, passivate, buffer>>
entityVars == <<entities, entityBox>>
childVars == <<childless, stuck>>
aggregateVars == <<aggregates, aggregateBox, childVars, handled>>
updaterVars == <<updaters, streams>>
fixed == <<hash, wiring>>
vars == <<hash, wiring, shard, passivate, buffer, entities, entityBox, aggregates, aggregateBox,
          childless, stuck, routerBox, updaterBox, updaters, streams, requests, stops,
          handled, lost, told>>

RequestMsg(i) == [type |-> "request", id |-> i]
ReceiveTimeout == [type |-> "ReceiveTimeout", id |-> 0]
StopThread == [type |-> "StopThread", id |-> 0]
Terminated == [type |-> "Terminated", id |-> 0]
EntityMessage == [type : {"request", "ReceiveTimeout", "StopThread"}, id : Nat]
AggregateMessage == [type : {"request", "Terminated"}, id : Nat]

RouterMsg(type, t) == [type |-> type, thread |-> t]
RouterMessage == [type : {"Start", "Started", "Stopped"}, thread : Threads]

UpdaterMsg(type, tag) == [type |-> type, tag |-> tag]
UpdaterMessage == [type : {"Start", "Stop"}, tag : Tag]

IdsIn(box) == {box[i].id : i \in {j \in DOMAIN box : box[j].type = "request"}}

Init ==
  /\ hash \in Hashes /\ wiring \in Wirings
  /\ shard = [t \in Threads |-> "none"]
  /\ passivate = {}
  /\ buffer = [t \in Threads |-> <<>>]
  /\ entities = {} /\ entityBox = [t \in Threads |-> <<>>]
  /\ aggregates = {} /\ aggregateBox = [t \in Threads |-> <<>>]
  /\ childless = {} /\ stuck = {}
  /\ routerBox = <<>> /\ updaterBox = <<>>
  /\ updaters = {} /\ streams = {}
  /\ requests = 0 /\ stops = 0
  /\ handled = {} /\ lost = {}
  /\ told = [t \in Threads |-> <<>>]

-----------------------------------------------------------------------------
(* The shard of the threads (Akka). *)

Request(t) ==
  /\ requests < MaxRequests
  /\ requests' = requests + 1
  /\ LET m == RequestMsg(requests + 1)
     IN  IF shard[t] = "passivating"
         THEN /\ buffer' = [buffer EXCEPT ![t] = Append(@, m)]
              /\ UNCHANGED <<shard, entityVars>>
         ELSE /\ shard' = [shard EXCEPT ![t] = "active"]
              /\ entities' = entities \cup {t}
              /\ entityBox' = [entityBox EXCEPT ![t] = Append(@, m)]
              /\ UNCHANGED buffer
  /\ UNCHANGED <<fixed, passivate, aggregateVars, routerBox, updaterBox, updaterVars, stops,
                 lost, told>>

\* Passivate(stopMessage = StopThread)
ShardPassivates(t) ==
  /\ t \in passivate
  /\ passivate' = passivate \ {t}
  /\ IF shard[t] = "active"
     THEN /\ shard' = [shard EXCEPT ![t] = "passivating"]
          /\ entityBox' = [entityBox EXCEPT ![t] = Append(@, StopThread)]
     ELSE UNCHANGED <<shard, entityBox>>
  /\ UNCHANGED <<fixed, buffer, entities, aggregateVars, routerBox, updaterBox, updaterVars,
                 requests, stops, lost, told>>

\* The entity has terminated: it is started anew for what was buffered.
EntityTerminated(t) ==
  /\ shard[t] = "passivating" /\ t \notin entities
  /\ IF buffer[t] = <<>>
     THEN shard' = [shard EXCEPT ![t] = "none"] /\ UNCHANGED entities
     ELSE shard' = [shard EXCEPT ![t] = "active"] /\ entities' = entities \cup {t}
  /\ entityBox' = [entityBox EXCEPT ![t] = buffer[t]]
  /\ buffer' = [buffer EXCEPT ![t] = <<>>]
  /\ UNCHANGED <<fixed, passivate, aggregateVars, routerBox, updaterBox, updaterVars,
                 requests, stops, lost, told>>

-----------------------------------------------------------------------------
(* The aggregate tells its subscribers when it starts and stops. *)

\* preStart of PersistentThreadAggregate (a Start the router has no case for)
\* and of ThreadAggregate.
Started(t) ==
  /\ routerBox' = routerBox \o <<RouterMsg("Start", t), RouterMsg("Started", t)>>
  /\ told' = [told EXCEPT ![t] = Append(@, "Started")]

\* A bug the runs must notice: no postStop.
MutStopped(t) == UNCHANGED <<routerBox, told>>

\* postStop of ThreadAggregate
Stopped(t) ==
  /\ routerBox' = Append(routerBox, RouterMsg("Stopped", t))
  /\ told' = [told EXCEPT ![t] = Append(@, "Stopped")]

\* The aggregate ends, and with it its child and what it had in its mailbox.
AggregateEnds(t) ==
  /\ aggregates' = aggregates \ {t}
  /\ aggregateBox' = [aggregateBox EXCEPT ![t] = <<>>]
  /\ childless' = childless \ {t} /\ stuck' = stuck \ {t}
  /\ IF t \in aggregates \ childless THEN Stopped(t) ELSE UNCHANGED <<routerBox, told>>

\* The aggregate takes the next message of its mailbox.
Takes(t, type) ==
  /\ t \notin stuck
  /\ aggregateBox[t] # <<>> /\ Head(aggregateBox[t]).type = type

AggregateHandles(t) ==
  /\ t \notin childless
  /\ Takes(t, "request")
  /\ handled' = handled \cup {Head(aggregateBox[t]).id}
  /\ aggregateBox' = [aggregateBox EXCEPT ![t] = Tail(@)]
  /\ UNCHANGED <<fixed, shardVars, entityVars, aggregates, childVars, routerBox, updaterBox,
                 updaterVars, requests, stops, lost, told>>

\* A request taken meanwhile goes to the dead child; for a command the
\* aggregate then waits.
AggregateLoses(t) ==
  /\ t \in childless
  /\ Takes(t, "request")
  /\ lost' = lost \cup {Head(aggregateBox[t]).id}
  /\ aggregateBox' = [aggregateBox EXCEPT ![t] = Tail(@)]
  /\ stuck' \in {stuck, stuck \cup {t}}
  /\ UNCHANGED <<fixed, shardVars, entityVars, aggregates, childless, handled, routerBox,
                 updaterBox, updaterVars, requests, stops, told>>

\* ThreadAggregate throws and is stopped: over a query or a replayed command,
\* or over the command for which the aggregate waits.
ChildFails(t) ==
  /\ stops < MaxStops /\ stops' = stops + 1
  /\ t \in aggregates \ childless
  /\ childless' = childless \cup {t}
  /\ Stopped(t)
  /\ \/ /\ aggregateBox' = [aggregateBox EXCEPT ![t] = Append(@, Terminated)]
        /\ UNCHANGED <<stuck, lost>>
     \/ /\ Takes(t, "request")
        /\ lost' = lost \cup {Head(aggregateBox[t]).id}
        /\ aggregateBox' = [aggregateBox EXCEPT ![t] = Append(Tail(@), Terminated)]
        /\ stuck' = stuck \cup {t}
  /\ UNCHANGED <<fixed, shardVars, entityVars, aggregates, handled, updaterBox, updaterVars,
                 requests>>

\* case Terminated: context.stop(self)
AggregateTerminated(t) ==
  /\ Takes(t, "Terminated")
  /\ AggregateEnds(t)
  /\ lost' = lost \cup IdsIn(aggregateBox[t])
  /\ UNCHANGED <<fixed, shardVars, entityVars, handled, updaterBox, updaterVars, requests, stops>>

\* The journal fails, and Akka Persistence stops the aggregate.
AggregateFails(t) ==
  /\ stops < MaxStops /\ stops' = stops + 1
  /\ t \in aggregates \ childless
  /\ AggregateEnds(t)
  /\ lost' = lost \cup IdsIn(aggregateBox[t])
  /\ UNCHANGED <<fixed, shardVars, entityVars, handled, updaterBox, updaterVars, requests>>

-----------------------------------------------------------------------------
(* The entity, ShardedThreadAggregates. *)

Receives(t, type) ==
  /\ entityBox[t] # <<>> /\ Head(entityBox[t]).type = type
  /\ entityBox' = [entityBox EXCEPT ![t] = Tail(@)]

\* A bug the runs must notice: the command that creates the aggregate not forwarded.
MutForwardToActor(t) ==
  /\ Receives(t, "request")
  /\ aggregateBox' = IF t \in aggregates
                     THEN [aggregateBox EXCEPT ![t] = Append(@, Head(entityBox[t]))]
                     ELSE aggregateBox
  /\ aggregates' = aggregates \cup {t}
  /\ IF t \in aggregates THEN UNCHANGED <<routerBox, told>> ELSE Started(t)
  /\ UNCHANGED <<fixed, shardVars, entities, childVars, handled, updaterBox, updaterVars,
                 requests, stops, lost>>

\* A bug the runs must notice: the creating command put back behind the others.
MutForwardAgain(t) ==
  /\ entityBox[t] # <<>> /\ Head(entityBox[t]).type = "request"
  /\ IF t \in aggregates
     THEN /\ aggregateBox' = [aggregateBox EXCEPT ![t] = Append(@, Head(entityBox[t]))]
          /\ entityBox' = [entityBox EXCEPT ![t] = Tail(@)]
          /\ UNCHANGED <<routerBox, told>>
     ELSE /\ entityBox' = [entityBox EXCEPT ![t] = Append(Tail(@), Head(@))]
          /\ UNCHANGED aggregateBox
          /\ Started(t)
  /\ aggregates' = aggregates \cup {t}
  /\ UNCHANGED <<fixed, shardVars, entities, childVars, handled, updaterBox, updaterVars,
                 requests, stops, lost>>

\* forwardToActor: the aggregate is created when it is not there.
ForwardToActor(t) ==
  /\ Receives(t, "request")
  /\ aggregateBox' = [aggregateBox EXCEPT ![t] = Append(@, Head(entityBox[t]))]
  /\ aggregates' = aggregates \cup {t}
  /\ IF t \in aggregates THEN UNCHANGED <<routerBox, told>> ELSE Started(t)
  /\ UNCHANGED <<fixed, shardVars, entities, childVars, handled, updaterBox, updaterVars,
                 requests, stops, lost>>

\* The receive timeout of an idle entity fires.
EntityTimesOut(t) ==
  /\ stops < MaxStops
  /\ t \in entities /\ entityBox[t] = <<>>
  /\ entityBox' = [entityBox EXCEPT ![t] = <<ReceiveTimeout>>]
  /\ stops' = stops + 1
  /\ UNCHANGED <<fixed, shardVars, entities, aggregateVars, routerBox, updaterBox, updaterVars,
                 requests, lost, told>>

\* A bug the runs must notice: the entity sends itself the StopThread.
MutUnhandledTimeout(t) ==
  /\ entityBox[t] # <<>> /\ Head(entityBox[t]) = ReceiveTimeout
  /\ entityBox' = [entityBox EXCEPT ![t] = Append(Tail(@), StopThread)]
  /\ UNCHANGED <<fixed, shardVars, entities, aggregateVars, routerBox, updaterBox,
                 updaterVars, requests, stops, lost, told>>

\* unhandled, case ReceiveTimeout
UnhandledTimeout(t) ==
  /\ Receives(t, "ReceiveTimeout")
  /\ passivate' = passivate \cup {t}
  /\ UNCHANGED <<fixed, shard, buffer, entities, aggregateVars, routerBox, updaterBox,
                 updaterVars, requests, stops, lost, told>>

\* A bug the runs must notice: StopThread unhandled.
MutUnhandledStop(t) ==
  /\ Receives(t, "StopThread")
  /\ UNCHANGED <<fixed, shardVars, entities, aggregateVars, routerBox, updaterBox,
                 updaterVars, requests, stops, lost, told>>

\* unhandled, case StopThread: context.stop(self), the aggregate first.
UnhandledStop(t) ==
  /\ Receives(t, "StopThread")
  /\ entities' = entities \ {t}
  /\ AggregateEnds(t)
  /\ lost' = lost \cup IdsIn(Tail(entityBox[t])) \cup IdsIn(aggregateBox[t])
  /\ UNCHANGED <<fixed, shardVars, handled, updaterBox, updaterVars, requests, stops>>

-----------------------------------------------------------------------------
(* The router and the updater. *)

RouterForwards ==
  /\ routerBox # <<>>
  /\ routerBox' = Tail(routerBox)
  /\ LET m == Head(routerBox)
         tag == FromThreadId(hash[m.thread])
     IN  updaterBox' = CASE m.type = "Started" -> Append(updaterBox, UpdaterMsg("Start", tag))
                         [] m.type = "Stopped" -> Append(updaterBox, UpdaterMsg("Stop", tag))
                         [] OTHER -> updaterBox
  /\ UNCHANGED <<fixed, shardVars, entityVars, aggregateVars, updaterVars, requests, stops,
                 lost, told>>

\* A bug the runs must notice: a Stop that ends the stream.
MutUpdaterReceives ==
  /\ wiring = "direct" /\ updaterBox # <<>>
  /\ updaterBox' = Tail(updaterBox)
  /\ LET m == Head(updaterBox)
     IN  streams' = IF m.type = "Stop" THEN {}
                    ELSE IF streams = {} THEN {m.tag} ELSE streams
  /\ UNCHANGED <<fixed, shardVars, entityVars, aggregateVars, routerBox, updaters, requests,
                 stops, lost, told>>

\* ThreadReadModelUpdater.receive: the first Start counts, there is no case for Stop.
UpdaterReceives ==
  /\ wiring = "direct" /\ updaterBox # <<>>
  /\ updaterBox' = Tail(updaterBox)
  /\ LET m == Head(updaterBox)
     IN  streams' = IF m.type = "Start" /\ streams = {} THEN {m.tag} ELSE streams
  /\ UNCHANGED <<fixed, shardVars, entityVars, aggregateVars, routerBox, updaters, requests,
                 stops, lost, told>>

(***************************************************************************)
(* The shard region starts ShardedThreadReadModelUpdaters for the tag.     *)
(* Its receive is forwardToActor, which has a case for BaseCommandRequest  *)
(* only; Start and Stop are no such requests and end in unhandled.         *)
(***************************************************************************)
ShardedUpdaterReceives ==
  /\ wiring = "sharded" /\ updaterBox # <<>>
  /\ updaterBox' = Tail(updaterBox)
  /\ updaters' = updaters \cup {Head(updaterBox).tag}
  /\ UNCHANGED <<fixed, shardVars, entityVars, aggregateVars, routerBox, streams, requests,
                 stops, lost, told>>

\* Its receive timeout, Passivate and StopThread.
ShardedUpdaterPassivates ==
  /\ \E tag \in updaters : updaters' = updaters \ {tag}
  /\ UNCHANGED <<fixed, shardVars, entityVars, aggregateVars, routerBox, updaterBox, streams,
                 requests, stops, lost, told>>

-----------------------------------------------------------------------------

ThreadStep(t) ==
  \/ ShardPassivates(t) \/ EntityTerminated(t)
  \/ ForwardToActor(t) \/ UnhandledTimeout(t) \/ UnhandledStop(t)
  \/ AggregateHandles(t) \/ AggregateLoses(t) \/ AggregateTerminated(t)

UpdaterStep == RouterForwards \/ UpdaterReceives \/ ShardedUpdaterReceives

Next ==
  \/ \E t \in Threads : Request(t) \/ ThreadStep(t) \/ EntityTimesOut(t)
  \/ \E t \in Threads : ChildFails(t) \/ AggregateFails(t)
  \/ UpdaterStep \/ ShardedUpdaterPassivates

Spec == Init /\ [][Next]_vars

\* Actors with messages run, shards do what they were asked.
FairSpec == Spec /\ (\A t \in Threads : WF_vars(ThreadStep(t))) /\ WF_vars(UpdaterStep)

-----------------------------------------------------------------------------
(* Properties *)

TypeOK ==
  /\ hash \in Hashes /\ wiring \in Wirings
  /\ shard \in [Threads -> {"none", "active", "passivating"}]
  /\ passivate \subseteq Threads
  /\ buffer \in [Threads -> Seq(EntityMessage)]
  /\ entities \subseteq Threads /\ entityBox \in [Threads -> Seq(EntityMessage)]
  /\ aggregates \subseteq Threads /\ aggregateBox \in [Threads -> Seq(AggregateMessage)]
  /\ stuck \subseteq childless /\ childless \subseteq aggregates
  /\ routerBox \in Seq(RouterMessage) /\ updaterBox \in Seq(UpdaterMessage)
  /\ updaters \subseteq Tag /\ streams \subseteq Tag
  /\ requests \in 0 .. MaxRequests /\ stops \in 0 .. MaxStops
  /\ handled \subseteq 1 .. requests /\ lost \subseteq 1 .. requests
  /\ told \in [Threads -> Seq({"Started", "Stopped"})]

(***************************************************************************)
(* Passivation loses no request that comes after it was decided: nothing   *)
(* stands behind a StopThread, and what does not stand before it waits in  *)
(* the shard.  The entity must ask the shard and not stop by itself.       *)
(***************************************************************************)
NothingBehindStop ==
  \A t \in Threads : \A i \in DOMAIN entityBox[t] :
    entityBox[t][i] = StopThread => i = Len(entityBox[t]) /\ shard[t] = "passivating"

\* The requests the system holds, by place.
Waiting(t) == IdsIn(buffer[t]) \cup IdsIn(entityBox[t]) \cup IdsIn(aggregateBox[t])

(***************************************************************************)
(* Every request is handled, lost with a stopped actor, or waiting, and it *)
(* is one of the three.                                                    *)
(***************************************************************************)
NoneUnaccounted ==
  LET waiting == UNION {Waiting(t) : t \in Threads}
  IN  /\ handled \cup lost \cup waiting = 1 .. requests
      /\ handled \cap lost = {} /\ handled \cap waiting = {} /\ lost \cap waiting = {}

(***************************************************************************)
(* A thread takes its requests in the order in which they were sent,       *)
(* whether they found it asleep, awake or going to sleep: what the shard   *)
(* held back comes behind what the entity had, and before what is sent     *)
(* once the entity is back.                                                *)
(***************************************************************************)
Underway(t) == aggregateBox[t] \o entityBox[t] \o buffer[t]

Ascending(q) ==
  \A i, j \in DOMAIN q :
    i < j /\ q[i].type = "request" /\ q[j].type = "request" => q[i].id < q[j].id

TakenInOrder == \A t \in Threads : Ascending(Underway(t))

\* What is in a mailbox is before somebody who is alive, and the shard knows who is;
\* an aggregate without its child has yet to hear of it, or waits for its answer.
BoxesAlive(t) ==
  /\ aggregateBox[t] # <<>> => t \in aggregates
  /\ t \in childless \ stuck => \E i \in DOMAIN aggregateBox[t] : aggregateBox[t][i] = Terminated
  /\ t \in aggregates \/ entityBox[t] # <<>> \/ shard[t] = "active" => t \in entities
  /\ t \in entities => shard[t] # "none"

\* The shard holds back while the entity is gone or has its StopThread before it.
HeldForStop(t) ==
  /\ buffer[t] # <<>> => shard[t] = "passivating"
  /\ shard[t] = "passivating" /\ t \in entities =>
       \E i \in DOMAIN entityBox[t] : entityBox[t][i] = StopThread

(***************************************************************************)
(* The safety half of EventuallyHandled: no request stands before a dead   *)
(* actor, no aggregate misses the end of its child but one that waits for  *)
(* it, and the shard never waits for a termination that nothing brings     *)
(* about, however timeouts, requests and stale Passivates cross.           *)
(***************************************************************************)
NobodyHeldBack == \A t \in Threads : BoxesAlive(t) /\ HeldForStop(t)

(***************************************************************************)
(* A thread has one ThreadAggregate at a time, and what is told about it   *)
(* is in step: Started and Stopped alternate through failures and          *)
(* passivations, and the last one says whether it is alive.  One that      *)
(* failed is not told of again when its parent ends.                       *)
(***************************************************************************)
ToldInStep ==
  \A t \in Threads :
    /\ \A i \in DOMAIN told[t] : told[t][i] = IF i % 2 = 1 THEN "Started" ELSE "Stopped"
    /\ t \in aggregates \ childless <=> Len(told[t]) % 2 = 1

(***************************************************************************)
(* The updater of a thread is started for the tag its events are written   *)
(* with, unless the thread has the smallest hash and that is no multiple   *)
(* of numPartition: then it is started for a tag no event is written with. *)
(***************************************************************************)
Mistagged(h) == h = MinInt /\ Remainder(h, NumPartition) # 0

TagsAgree ==
  \A t \in Threads :
    IF Mistagged(hash[t]) THEN \A h \in Hash : Partition(h) # FromThreadId(hash[t])
                          ELSE Partition(hash[t]) = FromThreadId(hash[t])

(***************************************************************************)
(* Every request is handled in the end, or lost with an actor that has     *)
(* stopped, unless its thread's aggregate waits for a dead child.  For     *)
(* those who wait there only the passivation ends it, and does.            *)
(***************************************************************************)
EventuallyHandled ==
  /\ \A i \in 1 .. MaxRequests :
       i <= requests ~> i \in handled \cup lost \cup UNION {IdsIn(aggregateBox[t]) : t \in stuck}
  /\ \A t \in Threads : t \in stuck /\ shard[t] = "passivating" ~> t \notin stuck

(***************************************************************************)
(* With the updater wired directly and all threads in one tag, the events  *)
(* of a thread that is alive are read in the end, whichever threads start  *)
(* and stop around it.                                                     *)
(***************************************************************************)
OneTag == \A t, u \in Threads : FromThreadId(hash[t]) = FromThreadId(hash[u])

AliveThreadsAreRead ==
  \A t \in Threads :
    t \in aggregates /\ wiring = "direct" /\ OneTag /\ hash[t] # MinInt
      ~> Partition(hash[t]) \in streams

-----------------------------------------------------------------------------
(* What the repository's documents say and the code does not do.           *)

\* slide/presentation.md:226, :1171: the updater starts with the aggregate.
UpdaterStartsWithAggregate ==
  \A t \in Threads : t \in aggregates ~> FromThreadId(hash[t]) \in streams

=============================================================================
