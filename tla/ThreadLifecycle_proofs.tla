----------------------- MODULE ThreadLifecycle_proofs -----------------------
(***************************************************************************)
(* Invariants of ThreadLifecycle, for any threads, hashes, wirings, size   *)
(* of Int, number of partitions and bounds.                                *)
(***************************************************************************)
EXTENDS ThreadLifecycle, SequenceTheorems, TLAPS

-----------------------------------------------------------------------------
(* The two computations of a tag.                                          *)

LEMMA TagType ==
  ASSUME NEW h \in Hash
  PROVE  FromThreadId(h) \in Tag
<1> DEFINE a == Abs(h)
<1>1. a \in Int /\ NumPartition \in Nat \ {0} /\ NumPartition \in Int
  BY PartitionAssumption DEF Abs, Hash
<1>2. a % NumPartition \in 0 .. NumPartition - 1 /\ (-a) % NumPartition \in 0 .. NumPartition - 1
  <2> HIDE DEF a
  <2> QED
    BY <1>1
<1> QED
  BY <1>1, <1>2 DEF FromThreadId, Remainder, Tag

\* The partitioner takes the absolute value of the remainder, ThreadTag the
\* remainder of the absolute value: the same, where there is an absolute value.
LEMMA PartitionsAgree ==
  ASSUME NEW h \in Hash, h # MinInt
  PROVE  FromThreadId(h) = Partition(h)
<1> DEFINE n == NumPartition
           r == h % n
           s == (-h) % n
<1>1. /\ MinInt \in Int /\ MinInt < 0 /\ n \in Int /\ 0 < n /\ n < -MinInt
      /\ h \in Int /\ MinInt <= h /\ h < -MinInt
  BY PartitionAssumption DEF Hash
<1>2. r \in 0 .. n - 1 /\ s \in 0 .. n - 1
  <2> HIDE DEF n
  <2> QED
    BY <1>1
<1>3. CASE h >= 0
  <2>1. Abs(h) = h /\ Remainder(h, n) = r
    BY <1>1, <1>3 DEF Abs, Remainder
  <2>2. Abs(r) = r
    BY <1>1, <1>2 DEF Abs
  <2> QED
    BY <2>1, <2>2 DEF FromThreadId, Partition
<1>4. CASE h < 0
  <2>1. Abs(h) = -h /\ Remainder(h, n) = -s /\ Remainder(-h, n) = s
    BY <1>1, <1>4 DEF Abs, Remainder
  <2>2. Abs(-s) = s
    <3> HIDE DEF s
    <3> QED
      BY <1>1, <1>2 DEF Abs
  <2> QED
    BY <2>1, <2>2 DEF FromThreadId, Partition
<1> QED
  BY <1>1, <1>3, <1>4

\* The smallest Int has none: its remainder is a tag only when it is zero.
LEMMA SmallestHash ==
  ASSUME NEW h \in Hash, h = MinInt
  PROVE  IF Mistagged(h) THEN \A g \in Hash : Partition(g) # FromThreadId(h)
                         ELSE Partition(h) = FromThreadId(h)
<1> DEFINE n == NumPartition
           s == (-h) % n
<1>1. MinInt \in Int /\ MinInt < 0 /\ n \in Int /\ 0 < n /\ n < -MinInt
  BY PartitionAssumption
<1>2. s \in 0 .. n - 1
  <2> HIDE DEF n
  <2> QED
    BY <1>1
<1>3. FromThreadId(h) = -s /\ Remainder(h, n) = -s
  BY <1>1 DEF FromThreadId, Remainder, Abs
<1>4. ASSUME NEW g \in Hash PROVE Partition(g) >= 0
  <2> DEFINE r == Remainder(g, n)
  <2>1. r \in -n + 1 .. n - 1
    <3>1. g \in Int /\ -g \in Int
      BY <1>1 DEF Hash
    <3>2. g % n \in 0 .. n - 1 /\ (-g) % n \in 0 .. n - 1
      <4> HIDE DEF n
      <4> QED
        BY <1>1, <3>1
    <3> QED
      BY <1>1, <3>2 DEF Remainder
  <2>2. Partition(g) = Abs(r)
    BY DEF Partition
  <2> HIDE DEF r
  <2> QED
    BY <1>1, <2>1, <2>2 DEF Abs
<1>5. CASE s = 0
  <2>1. Partition(h) = 0 /\ FromThreadId(h) = 0 /\ ~Mistagged(h)
    BY <1>1, <1>3, <1>5 DEF Partition, Abs, Mistagged
  <2> QED
    BY <2>1
<1>6. CASE s # 0
  <2>1. Mistagged(h) /\ FromThreadId(h) < 0
    BY <1>2, <1>3, <1>6 DEF Mistagged
  <2> QED
    BY <1>2, <1>3, <1>4, <2>1
<1> QED
  BY <1>5, <1>6

\* The steps of the shard, the entity, the aggregate and the child of one thread.
ByThread(t) ==
  Request(t) \/ ThreadStep(t) \/ EntityTimesOut(t) \/ ChildFails(t) \/ AggregateFails(t)

HashInv == hash \in [Threads -> Hash]

LEMMA HashInvHolds == Spec => []HashInv
<1>1. Init => HashInv
  BY LifecycleAssumption DEF Init, HashInv
<1>2. HashInv /\ [Next]_vars => HashInv'
  <2> SUFFICES ASSUME HashInv, [Next]_vars PROVE hash' = hash
    BY DEF HashInv
  <2> QED
    BY DEF Next, ThreadStep, UpdaterStep, vars, fixed, Request, ShardPassivates, EntityTerminated,
           ForwardToActor, UnhandledTimeout, UnhandledStop, AggregateHandles, AggregateLoses,
           AggregateTerminated, EntityTimesOut, ChildFails, AggregateFails, RouterForwards,
           UpdaterReceives, ShardedUpdaterReceives, ShardedUpdaterPassivates
<1> QED
  BY <1>1, <1>2, PTL DEF Spec

(***************************************************************************)
(* An updater started for a thread reads the tag its events are written    *)
(* with, for every hash of the thread but one: the smallest Int, when it   *)
(* is no multiple of numPartition.  That thread's updater is started for a *)
(* tag that no event of any thread is written with.                        *)
(***************************************************************************)
THEOREM UpdaterReadsWhatIsWritten == Spec => []TagsAgree
<1>1. ASSUME NEW h \in Hash
      PROVE  IF Mistagged(h) THEN \A g \in Hash : Partition(g) # FromThreadId(h)
                             ELSE Partition(h) = FromThreadId(h)
  <2>1. CASE h = MinInt
    BY <2>1, SmallestHash
  <2>2. CASE h # MinInt
    BY <2>2, PartitionsAgree DEF Mistagged
  <2> QED
    BY <2>1, <2>2
<1>2. HashInv => TagsAgree
  BY <1>1 DEF HashInv, TagsAgree
<1> QED
  BY <1>2, HashInvHolds, PTL

-----------------------------------------------------------------------------
(* What is told of aggregates.                                             *)

ChildInv == stuck \subseteq childless /\ childless \subseteq aggregates /\ aggregates \subseteq Threads

ToldInv ==
  /\ ChildInv
  /\ told \in [Threads -> Seq({"Started", "Stopped"})]
  /\ ToldInStep

LEMMA Parity == \A n \in Nat : (n + 1) % 2 = 1 <=> n % 2 # 1
OBVIOUS

\* The child of a thread's aggregate is alive.
Alive(t) == t \in aggregates \ childless

\* Nothing is told, and no child starts or stops.
LEMMA ToldAlone ==
  ASSUME ToldInv, ChildInv', told' = told, \A t \in Threads : Alive(t)' <=> Alive(t)
  PROVE  ToldInv'
BY DEF ToldInv, ToldInStep, Alive

\* The next thing told of t is s, and t's child is alive afterwards when s is Started.
LEMMA ToldMore ==
  ASSUME ToldInv, ChildInv', NEW t \in Threads, NEW s \in {"Started", "Stopped"},
         s = "Started" <=> ~Alive(t),
         told' = [told EXCEPT ![t] = Append(@, s)],
         Alive(t)' <=> s = "Started",
         \A u \in Threads : u # t => (Alive(u)' <=> Alive(u))
  PROVE  ToldInv'
<1>1. told[t] \in Seq({"Started", "Stopped"}) /\ Len(told[t]) \in Nat
  BY DEF ToldInv
<1> DEFINE new == Append(told[t], s)
<1>2. /\ new \in Seq({"Started", "Stopped"})
      /\ Len(new) = Len(told[t]) + 1
      /\ \A i \in 1 .. Len(told[t]) : new[i] = told[t][i]
      /\ new[Len(told[t]) + 1] = s
      /\ DOMAIN new = 1 .. Len(told[t]) + 1
  BY <1>1
<1> HIDE DEF new
<1>3. told' = [told EXCEPT ![t] = new]
  BY DEF new
<1>4. told' \in [Threads -> Seq({"Started", "Stopped"})]
  BY <1>2, <1>3 DEF ToldInv
<1>5. \A u \in Threads : told'[u] = IF u = t THEN new ELSE told[u]
  BY <1>3 DEF ToldInv
<1>6. s = IF (Len(told[t]) + 1) % 2 = 1 THEN "Started" ELSE "Stopped"
  <2>1. Alive(t) <=> Len(told[t]) % 2 = 1
    BY DEF ToldInv, ToldInStep, Alive
  <2>2. (Len(told[t]) + 1) % 2 = 1 <=> ~Alive(t)
    BY <1>1, <2>1, Parity
  <2> QED
    BY <2>2
<1>7. \A i \in DOMAIN new : new[i] = IF i % 2 = 1 THEN "Started" ELSE "Stopped"
  <2>1. \A i \in 1 .. Len(told[t]) : told[t][i] = IF i % 2 = 1 THEN "Started" ELSE "Stopped"
    BY <1>1 DEF ToldInv, ToldInStep
  <2>2. ASSUME NEW i \in 1 .. Len(told[t]) + 1
        PROVE  new[i] = IF i % 2 = 1 THEN "Started" ELSE "Stopped"
    <3>1. CASE i = Len(told[t]) + 1
      BY <1>2, <1>6, <3>1
    <3>2. CASE i \in 1 .. Len(told[t])
      BY <1>2, <2>1, <3>2
    <3> QED
      BY <1>1, <3>1, <3>2
  <2> QED
    BY <1>2, <2>2
<1>8. Alive(t)' <=> Len(new) % 2 = 1
  <2>1. Alive(t) <=> Len(told[t]) % 2 = 1
    BY DEF ToldInv, ToldInStep, Alive
  <2>2. Len(new) % 2 = 1 <=> ~Alive(t)
    BY <1>1, <1>2, <2>1, Parity
  <2> QED
    BY <2>2
<1>9. ToldInStep'
  <2> SUFFICES ASSUME NEW u \in Threads
               PROVE  /\ \A i \in DOMAIN told'[u] :
                           told'[u][i] = IF i % 2 = 1 THEN "Started" ELSE "Stopped"
                      /\ Alive(u)' <=> Len(told'[u]) % 2 = 1
    BY DEF ToldInStep, Alive
  <2>1. CASE u = t
    BY <1>5, <1>7, <1>8, <2>1
  <2>2. CASE u # t
    <3>1. told'[u] = told[u] /\ (Alive(u)' <=> Alive(u))
      BY <1>5, <2>2
    <3> QED
      BY <3>1 DEF ToldInv, ToldInStep, Alive
  <2> QED
    BY <2>1, <2>2
<1> QED
  BY <1>4, <1>9 DEF ToldInv

LEMMA EndsIsTold ==
  ASSUME ToldInv, NEW t \in Threads, AggregateEnds(t)
  PROVE  ToldInv'
<1>1. /\ ChildInv'
      /\ ~Alive(t)' /\ \A u \in Threads : u # t => (Alive(u)' <=> Alive(u))
  BY DEF AggregateEnds, ToldInv, ChildInv, Alive
<1>2. CASE Alive(t)
  BY <1>1, <1>2, ToldMore DEF AggregateEnds, Stopped, Alive
<1>3. CASE ~Alive(t)
  <2>1. told' = told
    BY <1>3 DEF AggregateEnds, Alive
  <2> QED
    BY <1>1, <1>3, <2>1, ToldAlone
<1> QED
  BY <1>2, <1>3

LEMMA ChildFailsIsTold ==
  ASSUME ToldInv, NEW t \in Threads, ChildFails(t)
  PROVE  ToldInv'
<1>1. /\ t \in aggregates \ childless /\ childless' = childless \cup {t} /\ aggregates' = aggregates
      /\ stuck' \subseteq stuck \cup {t}
      /\ told' = [told EXCEPT ![t] = Append(@, "Stopped")]
  BY DEF ChildFails, Stopped
<1>2. ChildInv'
  BY <1>1 DEF ToldInv, ChildInv
<1>3. Alive(t) /\ ~Alive(t)' /\ \A u \in Threads : u # t => (Alive(u)' <=> Alive(u))
  BY <1>1 DEF Alive
<1> QED
  BY <1>1, <1>2, <1>3, ToldMore

LEMMA StartsIsTold ==
  ASSUME ToldInv, NEW t \in Threads, ForwardToActor(t)
  PROVE  ToldInv'
<1>1. aggregates' = aggregates \cup {t} /\ UNCHANGED <<childless, stuck>>
  BY DEF ForwardToActor, childVars
<1>2. ChildInv'
  BY <1>1 DEF ToldInv, ChildInv
<1>3. \A u \in Threads : u # t => (Alive(u)' <=> Alive(u))
  BY <1>1 DEF Alive
<1>4. CASE t \notin aggregates
  <2>1. t \notin childless
    BY <1>4 DEF ToldInv, ChildInv
  <2>2. ~Alive(t) /\ Alive(t)'
    BY <1>1, <1>4, <2>1 DEF Alive
  <2>3. told' = [told EXCEPT ![t] = Append(@, "Started")]
    BY <1>4 DEF ForwardToActor, Started
  <2> QED
    BY <1>2, <1>3, <2>2, <2>3, ToldMore
<1>5. CASE t \in aggregates
  <2>1. told' = told /\ (Alive(t)' <=> Alive(t))
    BY <1>1, <1>5 DEF ForwardToActor, Alive
  <2> QED
    BY <1>2, <1>3, <2>1, ToldAlone
<1> QED
  BY <1>4, <1>5

LEMMA ToldInvHolds == Spec => []ToldInv
<1>1. Init => ToldInv
  BY DEF Init, ToldInv, ToldInStep, ChildInv
<1>2. ToldInv /\ [Next]_vars => ToldInv'
  <2> SUFFICES ASSUME ToldInv, [Next]_vars PROVE ToldInv'
    OBVIOUS
  <2>1. ASSUME NEW t \in Threads, ForwardToActor(t) PROVE ToldInv'
    BY <2>1, StartsIsTold
  <2>2. ASSUME NEW t \in Threads, UnhandledStop(t) \/ AggregateTerminated(t) \/ AggregateFails(t)
        PROVE  ToldInv'
    BY <2>2, EndsIsTold DEF UnhandledStop, AggregateTerminated, AggregateFails
  <2>3. ASSUME NEW t \in Threads, ChildFails(t) PROVE ToldInv'
    BY <2>3, ChildFailsIsTold
  <2>4. ASSUME NEW t \in Threads, AggregateLoses(t) PROVE ToldInv'
    <3>1. UNCHANGED <<aggregates, childless, told>> /\ stuck' \subseteq stuck \cup {t} /\ t \in childless
      BY <2>4 DEF AggregateLoses
    <3>2. ChildInv' /\ \A u \in Threads : Alive(u)' <=> Alive(u)
      BY <3>1 DEF ToldInv, ChildInv, Alive
    <3> QED
      BY <3>1, <3>2, ToldAlone
  <2>5. ASSUME UNCHANGED <<aggregates, childless, stuck, told>> PROVE ToldInv'
    BY <2>5, ToldAlone DEF ToldInv, ChildInv, Alive
  <2>6. ASSUME NEW t \in Threads,
               \/ Request(t) \/ ShardPassivates(t) \/ EntityTerminated(t) \/ UnhandledTimeout(t)
               \/ AggregateHandles(t) \/ EntityTimesOut(t)
        PROVE  ToldInv'
    BY <2>5, <2>6
       DEF Request, ShardPassivates, EntityTerminated, UnhandledTimeout, AggregateHandles,
           EntityTimesOut, aggregateVars, childVars
  <2>7. CASE UpdaterStep \/ ShardedUpdaterPassivates \/ UNCHANGED vars
    BY <2>5, <2>7
       DEF UpdaterStep, RouterForwards, UpdaterReceives, ShardedUpdaterReceives,
           ShardedUpdaterPassivates, aggregateVars, childVars, vars
  <2> QED
    BY <2>1, <2>2, <2>3, <2>4, <2>6, <2>7 DEF Next, ThreadStep
<1> QED
  BY <1>1, <1>2, PTL DEF Spec

(***************************************************************************)
(* Through any failures and passivations the router is told Started and    *)
(* Stopped of a thread in turn, and the last one told says whether its     *)
(* ThreadAggregate is alive: an entity never starts a second one, none     *)
(* ends untold, and the end of one that failed is not told again when its  *)
(* parent ends.                                                            *)
(***************************************************************************)
THEOREM ToldOfEveryAggregate == Spec => []ToldInStep
<1>1. ToldInv => ToldInStep
  BY DEF ToldInv
<1> QED
  BY <1>1, ToldInvHolds, PTL

-----------------------------------------------------------------------------
(* Types.                                                                  *)

\* The requests sent so far; what an entity, an aggregate and anybody may find in
\* the mailbox.
Sent(n) == [type : {"request"}, id : 1 .. n]
Mail(n) == Sent(n) \cup {ReceiveTimeout, StopThread}
Letters(n) == Sent(n) \cup {Terminated}
Post(n) == Mail(n) \cup Letters(n)

FixedInv == hash \in Hashes /\ wiring \in Wirings

BoxInv ==
  /\ requests \in 0 .. MaxRequests
  /\ stops \in 0 .. MaxStops
  /\ shard \in [Threads -> {"none", "active", "passivating"}]
  /\ passivate \subseteq Threads
  /\ entities \subseteq Threads
  /\ buffer \in [Threads -> Seq(Sent(requests))]
  /\ entityBox \in [Threads -> Seq(Mail(requests))]
  /\ aggregateBox \in [Threads -> Seq(Letters(requests))]
  /\ handled \subseteq 1 .. requests
  /\ lost \subseteq 1 .. requests

RouteInv ==
  /\ aggregates \subseteq Threads
  /\ routerBox \in Seq(RouterMessage)
  /\ updaterBox \in Seq(UpdaterMessage)
  /\ updaters \subseteq Tag
  /\ streams \subseteq Tag

\* What was sent stays sent.
LEMMA SentGrows ==
  ASSUME NEW n \in Nat
  PROVE  /\ Seq(Sent(n)) \subseteq Seq(Sent(n + 1))
         /\ Seq(Mail(n)) \subseteq Seq(Mail(n + 1))
         /\ Seq(Letters(n)) \subseteq Seq(Letters(n + 1))
         /\ Seq(Post(n)) \subseteq Seq(Post(n + 1))
         /\ RequestMsg(n + 1) \in Sent(n + 1)
<1>1. Sent(n) \subseteq Sent(n + 1)
  BY DEF Sent
<1>2. /\ Mail(n) \subseteq Mail(n + 1) /\ Letters(n) \subseteq Letters(n + 1)
      /\ Post(n) \subseteq Post(n + 1)
  BY <1>1 DEF Mail, Letters, Post
<1>3. RequestMsg(n + 1) \in Sent(n + 1)
  BY DEF Sent, RequestMsg
<1>4. \A A, B : A \subseteq B => Seq(A) \subseteq Seq(B)
  OBVIOUS
<1> QED
  BY <1>1, <1>2, <1>3, <1>4

LEMMA SentIsMail ==
  ASSUME NEW n \in Nat
  PROVE  /\ Sent(n) \subseteq Mail(n) /\ Sent(n) \subseteq Letters(n)
         /\ Seq(Sent(n)) \subseteq Seq(Mail(n)) /\ Seq(Sent(n)) \subseteq Seq(Letters(n))
         /\ Seq(Sent(n)) \subseteq Seq(Post(n)) /\ Seq(Mail(n)) \subseteq Seq(Post(n))
         /\ Seq(Letters(n)) \subseteq Seq(Post(n))
<1>1. /\ Sent(n) \subseteq Mail(n) /\ Sent(n) \subseteq Letters(n)
      /\ Sent(n) \subseteq Post(n) /\ Mail(n) \subseteq Post(n) /\ Letters(n) \subseteq Post(n)
  BY DEF Mail, Letters, Post
<1>2. \A A, B : A \subseteq B => Seq(A) \subseteq Seq(B)
  OBVIOUS
<1> QED
  BY <1>1, <1>2

LEMMA IdsInSent ==
  ASSUME NEW n \in Nat, NEW box \in Seq(Post(n))
  PROVE  IdsIn(box) \subseteq 1 .. n
<1>1. \A i \in DOMAIN box : box[i] \in Post(n)
  OBVIOUS
<1>2. \A m \in Post(n) : m.type = "request" => m.id \in 1 .. n
  BY DEF Post, Mail, Letters, Sent, ReceiveTimeout, StopThread, Terminated
<1> QED
  BY <1>1, <1>2 DEF IdsIn

LEMMA RouteInvHolds == Spec => [](HashInv /\ RouteInv)
<1>1. Init => HashInv /\ RouteInv
  BY LifecycleAssumption DEF Init, HashInv, RouteInv
<1>2. HashInv /\ RouteInv /\ [Next]_vars => RouteInv'
  <2> SUFFICES ASSUME HashInv, RouteInv, [Next]_vars PROVE RouteInv'
    OBVIOUS
  <2> USE DEF RouteInv
  <2>1. ASSUME NEW t \in Threads, ForwardToActor(t) PROVE RouteInv'
    <3>1. RouterMsg("Start", t) \in RouterMessage /\ RouterMsg("Started", t) \in RouterMessage
      BY DEF RouterMsg, RouterMessage
    <3>2. <<RouterMsg("Start", t), RouterMsg("Started", t)>> \in Seq(RouterMessage)
      BY <3>1
    <3>3. routerBox' \in Seq(RouterMessage)
      <4> DEFINE both == <<RouterMsg("Start", t), RouterMsg("Started", t)>>
      <4>1. routerBox' = routerBox \/ routerBox' = routerBox \o both
        BY <2>1 DEF ForwardToActor, Started
      <4> HIDE DEF both
      <4>2. both \in Seq(RouterMessage)
        BY <3>2 DEF both
      <4>3. routerBox \o both \in Seq(RouterMessage)
        BY <4>2
      <4> QED
        BY <4>1, <4>3
    <3> QED
      BY <2>1, <3>3 DEF ForwardToActor, updaterVars
  <2>2. ASSUME NEW t \in Threads,
               \/ UnhandledStop(t) \/ AggregateTerminated(t) \/ AggregateFails(t)
               \/ ChildFails(t)
        PROVE  RouteInv'
    <3>1. aggregates' \in {aggregates, aggregates \ {t}} /\ UNCHANGED <<updaterBox, updaters, streams>>
      BY <2>2 DEF UnhandledStop, AggregateTerminated, AggregateFails, AggregateEnds, ChildFails,
                  updaterVars
    <3>2. RouterMsg("Stopped", t) \in RouterMessage
      BY DEF RouterMsg, RouterMessage
    <3>3. routerBox' = routerBox \/ routerBox' = Append(routerBox, RouterMsg("Stopped", t))
      BY <2>2 DEF UnhandledStop, AggregateTerminated, AggregateFails, AggregateEnds, ChildFails, Stopped
    <3>4. routerBox' \in Seq(RouterMessage)
      BY <3>2, <3>3
    <3> QED
      BY <3>1, <3>4
  <2>3. ASSUME NEW t \in Threads,
               \/ Request(t) \/ ShardPassivates(t) \/ EntityTerminated(t) \/ UnhandledTimeout(t)
               \/ AggregateHandles(t) \/ AggregateLoses(t) \/ EntityTimesOut(t)
        PROVE  RouteInv'
    BY <2>3
       DEF Request, ShardPassivates, EntityTerminated, UnhandledTimeout, AggregateHandles,
           AggregateLoses, EntityTimesOut, aggregateVars, updaterVars
  <2>4. CASE RouterForwards
    <3> DEFINE m == Head(routerBox)
               tag == FromThreadId(hash[m.thread])
    <3>1. m \in RouterMessage /\ Tail(routerBox) \in Seq(RouterMessage)
      BY <2>4 DEF RouterForwards
    <3>2. tag \in Tag
      BY <3>1, TagType DEF HashInv, RouterMessage
    <3> HIDE DEF tag
    <3>3. UpdaterMsg("Start", tag) \in UpdaterMessage /\ UpdaterMsg("Stop", tag) \in UpdaterMessage
      BY <3>2 DEF UpdaterMsg, UpdaterMessage
    <3>4. \/ updaterBox' = updaterBox
          \/ updaterBox' = Append(updaterBox, UpdaterMsg("Start", tag))
          \/ updaterBox' = Append(updaterBox, UpdaterMsg("Stop", tag))
      BY <2>4 DEF RouterForwards, tag
    <3>5. updaterBox' \in Seq(UpdaterMessage)
      BY <3>3, <3>4, SMTT(20)
    <3>6. routerBox' \in Seq(RouterMessage) /\ UNCHANGED <<aggregates, updaters, streams>>
      BY <2>4, <3>1 DEF RouterForwards, aggregateVars, updaterVars
    <3> QED
      BY <3>5, <3>6
  <2>5. CASE UpdaterReceives \/ ShardedUpdaterReceives
    <3>1. /\ Head(updaterBox) \in UpdaterMessage /\ Tail(updaterBox) \in Seq(UpdaterMessage)
          /\ updaterBox' = Tail(updaterBox)
      BY <2>5 DEF UpdaterReceives, ShardedUpdaterReceives
    <3>2. Head(updaterBox).tag \in Tag
      BY <3>1 DEF UpdaterMessage
    <3>3. updaters' \subseteq Tag /\ streams' \subseteq Tag
      BY <2>5, <3>2 DEF UpdaterReceives, ShardedUpdaterReceives
    <3> QED
      BY <2>5, <3>1, <3>3 DEF UpdaterReceives, ShardedUpdaterReceives, aggregateVars
  <2>6. CASE ShardedUpdaterPassivates \/ UNCHANGED vars
    BY <2>6 DEF ShardedUpdaterPassivates, aggregateVars, vars
  <2> QED
    BY <2>1, <2>2, <2>3, <2>4, <2>5, <2>6 DEF Next, ThreadStep, UpdaterStep
<1> QED
  BY <1>1, <1>2, HashInvHolds, PTL DEF Spec

-----------------------------------------------------------------------------
(* Mailboxes.                                                              *)

LEMMA InitBox == Init => BoxInv /\ NothingBehindStop
BY LifecycleAssumption DEF Init, BoxInv, NothingBehindStop

\* No action looks at more than the box of one thread: nothing behind a
\* StopThread there, nothing behind one anywhere.
LEMMA OneBox ==
  ASSUME NothingBehindStop, NEW t \in Threads,
         \A u \in Threads : u # t => entityBox'[u] = entityBox[u] /\ shard'[u] = shard[u],
         \A i \in DOMAIN entityBox'[t] :
           entityBox'[t][i] = StopThread => i = Len(entityBox'[t]) /\ shard'[t] = "passivating"
  PROVE  NothingBehindStop'
BY DEF NothingBehindStop

LEMMA RequestBox ==
  ASSUME BoxInv, NothingBehindStop, NEW t \in Threads, Request(t)
  PROVE  BoxInv' /\ NothingBehindStop'
<1> DEFINE n == requests
           m == RequestMsg(n + 1)
<1>1. n \in Nat /\ n < MaxRequests /\ requests' = n + 1
  BY LifecycleAssumption DEF BoxInv, Request
<1>2. /\ Seq(Sent(n)) \subseteq Seq(Sent(n + 1)) /\ Seq(Mail(n)) \subseteq Seq(Mail(n + 1))
      /\ Seq(Letters(n)) \subseteq Seq(Letters(n + 1))
      /\ m \in Sent(n + 1) /\ m \in Mail(n + 1)
  BY <1>1, SentGrows, SentIsMail
<1>3. m # StopThread
  BY DEF RequestMsg, StopThread
<1>4. UNCHANGED <<passivate, aggregateBox, handled, lost, stops>>
  BY DEF Request, aggregateVars
<1>5. buffer[t] \in Seq(Sent(n)) /\ entityBox[t] \in Seq(Mail(n))
  BY DEF BoxInv
<1>6. Append(buffer[t], m) \in Seq(Sent(n + 1)) /\ Append(entityBox[t], m) \in Seq(Mail(n + 1))
  BY <1>2, <1>5
<1>7. /\ requests' \in 0 .. MaxRequests /\ stops' \in 0 .. MaxStops
      /\ passivate' \subseteq Threads
      /\ buffer \in [Threads -> Seq(Sent(requests'))]
      /\ entityBox \in [Threads -> Seq(Mail(requests'))]
      /\ aggregateBox' \in [Threads -> Seq(Letters(requests'))]
      /\ handled' \subseteq 1 .. requests' /\ lost' \subseteq 1 .. requests'
  <2>1. 1 .. n \subseteq 1 .. requests' /\ requests' \in 0 .. MaxRequests
    BY <1>1, LifecycleAssumption
  <2> QED
    BY <1>1, <1>2, <1>4, <2>1 DEF BoxInv
<1>8. CASE shard[t] = "passivating"
  <2>1. /\ buffer' = [buffer EXCEPT ![t] = Append(buffer[t], m)]
        /\ UNCHANGED <<shard, entities, entityBox>>
    BY <1>8 DEF Request, entityVars
  <2> HIDE DEF m, n
  <2>2. buffer' \in [Threads -> Seq(Sent(n + 1))]
    BY <1>2, <1>6, <2>1 DEF BoxInv, n
  <2>3. BoxInv'
    BY <1>1, <1>7, <2>1, <2>2 DEF BoxInv, n
  <2> QED
    BY <2>1, <2>3 DEF NothingBehindStop
<1>9. CASE shard[t] # "passivating"
  <2>1. /\ shard' = [shard EXCEPT ![t] = "active"]
        /\ entities' = entities \cup {t}
        /\ entityBox' = [entityBox EXCEPT ![t] = Append(entityBox[t], m)]
        /\ UNCHANGED buffer
    BY <1>9 DEF Request
  <2> HIDE DEF m, n
  <2>2. entityBox' \in [Threads -> Seq(Mail(n + 1))]
    BY <1>2, <1>6, <2>1 DEF BoxInv, n
  <2>3. BoxInv'
    BY <1>1, <1>7, <2>1, <2>2 DEF BoxInv, n
  <2>4. \A i \in DOMAIN entityBox[t] : entityBox[t][i] # StopThread
    BY <1>9 DEF NothingBehindStop
  <2>5. \A i \in DOMAIN Append(entityBox[t], m) : Append(entityBox[t], m)[i] # StopThread
    BY <1>3, <1>5, <2>4
  <2>6. entityBox'[t] = Append(entityBox[t], m)
    BY <2>1 DEF BoxInv
  <2>7. \A u \in Threads : u # t => entityBox'[u] = entityBox[u] /\ shard'[u] = shard[u]
    BY <2>1 DEF BoxInv
  <2> QED
    BY <2>3, <2>5, <2>6, <2>7, OneBox
<1> QED
  BY <1>8, <1>9

LEMMA ShardPassivatesBox ==
  ASSUME BoxInv, NothingBehindStop, NEW t \in Threads, ShardPassivates(t)
  PROVE  BoxInv' /\ NothingBehindStop'
<1>1. /\ passivate' \subseteq Threads
      /\ UNCHANGED <<buffer, entities, aggregateBox, handled, requests, stops, lost>>
  BY DEF ShardPassivates, aggregateVars, BoxInv
<1>2. CASE shard[t] # "active"
  <2>1. UNCHANGED <<shard, entityBox>>
    BY <1>2 DEF ShardPassivates
  <2> QED
    BY <1>1, <2>1 DEF BoxInv, NothingBehindStop
<1>3. CASE shard[t] = "active"
  <2>1. /\ shard' = [shard EXCEPT ![t] = "passivating"]
        /\ entityBox' = [entityBox EXCEPT ![t] = Append(entityBox[t], StopThread)]
    BY <1>3 DEF ShardPassivates
  <2>2. StopThread \in Mail(requests) /\ entityBox[t] \in Seq(Mail(requests))
    BY DEF BoxInv, Mail
  <2>3. Append(entityBox[t], StopThread) \in Seq(Mail(requests))
    BY <2>2
  <2>4. BoxInv'
    BY <1>1, <2>1, <2>3 DEF BoxInv
  <2>5. \A i \in DOMAIN entityBox[t] : entityBox[t][i] # StopThread
    BY <1>3 DEF NothingBehindStop
  <2>6. \A i \in DOMAIN Append(entityBox[t], StopThread) :
          Append(entityBox[t], StopThread)[i] = StopThread => i = Len(Append(entityBox[t], StopThread))
    BY <2>2, <2>5
  <2>7. entityBox'[t] = Append(entityBox[t], StopThread) /\ shard'[t] = "passivating"
    BY <2>1 DEF BoxInv
  <2>8. \A u \in Threads : u # t => entityBox'[u] = entityBox[u] /\ shard'[u] = shard[u]
    BY <2>1 DEF BoxInv
  <2> QED
    BY <2>4, <2>6, <2>7, <2>8, OneBox
<1> QED
  BY <1>2, <1>3

LEMMA EntityTerminatedBox ==
  ASSUME BoxInv, NothingBehindStop, NEW t \in Threads, EntityTerminated(t)
  PROVE  BoxInv' /\ NothingBehindStop'
<1>1. /\ entityBox' = [entityBox EXCEPT ![t] = buffer[t]]
      /\ buffer' = [buffer EXCEPT ![t] = <<>>]
      /\ UNCHANGED <<passivate, aggregateBox, handled, requests, stops, lost>>
  BY DEF EntityTerminated, aggregateVars
<1>2. \/ shard' = [shard EXCEPT ![t] = "none"] /\ entities' = entities
      \/ shard' = [shard EXCEPT ![t] = "active"] /\ entities' = entities \cup {t}
  BY DEF EntityTerminated
<1>3. requests \in Nat /\ buffer[t] \in Seq(Sent(requests))
  BY DEF BoxInv
<1>4. buffer[t] \in Seq(Mail(requests))
  BY <1>3, SentIsMail
<1>5. /\ entityBox' \in [Threads -> Seq(Mail(requests))]
      /\ buffer' \in [Threads -> Seq(Sent(requests))]
  BY <1>1, <1>4 DEF BoxInv
<1>6. BoxInv'
  BY <1>1, <1>2, <1>5 DEF BoxInv
<1>7. entityBox'[t] = buffer[t]
  BY <1>1 DEF BoxInv
<1>8. \A i \in DOMAIN buffer[t] : buffer[t][i] # StopThread
  <2>1. \A s \in Sent(requests) : s # StopThread
    BY DEF Sent, StopThread
  <2> QED
    BY <1>3, <2>1
<1>9. \A u \in Threads : u # t => entityBox'[u] = entityBox[u] /\ shard'[u] = shard[u]
  BY <1>1, <1>2 DEF BoxInv
<1> QED
  BY <1>6, <1>7, <1>8, <1>9, OneBox

\* The entity takes the first message of its mailbox.
LEMMA ReceivesBox ==
  ASSUME BoxInv, NothingBehindStop, NEW t \in Threads, NEW type, Receives(t, type),
         shard' = shard
  PROVE  /\ entityBox' \in [Threads -> Seq(Mail(requests))]
         /\ Head(entityBox[t]) \in Mail(requests) /\ Head(entityBox[t]).type = type
         /\ Tail(entityBox[t]) \in Seq(Mail(requests))
         /\ NothingBehindStop'
<1>1. entityBox[t] \in Seq(Mail(requests)) /\ entityBox[t] # <<>>
  BY DEF Receives, BoxInv
<1>2. /\ Tail(entityBox[t]) \in Seq(Mail(requests))
      /\ Head(entityBox[t]) \in Mail(requests)
      /\ Len(Tail(entityBox[t])) = Len(entityBox[t]) - 1
      /\ Len(entityBox[t]) \in Nat \ {0}
      /\ DOMAIN Tail(entityBox[t]) = 1 .. Len(entityBox[t]) - 1
      /\ DOMAIN entityBox[t] = 1 .. Len(entityBox[t])
      /\ \A i \in 1 .. Len(entityBox[t]) - 1 : Tail(entityBox[t])[i] = entityBox[t][i + 1]
  BY <1>1
<1>3. entityBox' = [entityBox EXCEPT ![t] = Tail(entityBox[t])]
  BY DEF Receives
<1>4. /\ entityBox'[t] = Tail(entityBox[t])
      /\ \A u \in Threads : u # t => entityBox'[u] = entityBox[u]
      /\ entityBox' \in [Threads -> Seq(Mail(requests))]
  BY <1>2, <1>3 DEF BoxInv
<1>5. ASSUME NEW i \in DOMAIN entityBox'[t], entityBox'[t][i] = StopThread
      PROVE  i = Len(entityBox'[t]) /\ shard'[t] = "passivating"
  <2>1. i \in 1 .. Len(entityBox[t]) - 1 /\ entityBox[t][i + 1] = StopThread
    BY <1>2, <1>4, <1>5
  <2>2. i + 1 \in DOMAIN entityBox[t]
    BY <1>2, <2>1
  <2>3. i + 1 = Len(entityBox[t]) /\ shard[t] = "passivating"
    BY <2>1, <2>2 DEF NothingBehindStop
  <2> QED
    BY <1>2, <1>4, <2>1, <2>3
<1>6. NothingBehindStop'
  BY <1>4, <1>5, OneBox
<1> QED
  BY <1>2, <1>4, <1>6 DEF Receives

LEMMA ForwardBox ==
  ASSUME BoxInv, NothingBehindStop, NEW t \in Threads, ForwardToActor(t)
  PROVE  BoxInv' /\ NothingBehindStop'
<1>1. /\ Receives(t, "request")
      /\ aggregateBox' = [aggregateBox EXCEPT ![t] = Append(aggregateBox[t], Head(entityBox[t]))]
      /\ UNCHANGED <<shard, passivate, buffer, entities, handled, requests, stops, lost>>
  BY DEF ForwardToActor, shardVars
<1>2. /\ entityBox' \in [Threads -> Seq(Mail(requests))]
      /\ Head(entityBox[t]) \in Mail(requests) /\ Head(entityBox[t]).type = "request"
      /\ NothingBehindStop'
  BY <1>1, ReceivesBox
<1>3. Head(entityBox[t]) \in Letters(requests)
  BY <1>2 DEF Mail, Letters, ReceiveTimeout, StopThread
<1>4. Append(aggregateBox[t], Head(entityBox[t])) \in Seq(Letters(requests))
  BY <1>3 DEF BoxInv
<1>5. aggregateBox' \in [Threads -> Seq(Letters(requests))]
  BY <1>1, <1>4 DEF BoxInv
<1> QED
  BY <1>1, <1>2, <1>5 DEF BoxInv

LEMMA TimeoutBox ==
  ASSUME BoxInv, NothingBehindStop, NEW t \in Threads, UnhandledTimeout(t)
  PROVE  BoxInv' /\ NothingBehindStop'
<1>1. /\ Receives(t, "ReceiveTimeout")
      /\ passivate' \subseteq Threads
      /\ UNCHANGED <<shard, buffer, entities, aggregateBox, handled, requests, stops, lost>>
  BY DEF UnhandledTimeout, aggregateVars, BoxInv
<1>2. entityBox' \in [Threads -> Seq(Mail(requests))] /\ NothingBehindStop'
  BY <1>1, ReceivesBox
<1> QED
  BY <1>1, <1>2 DEF BoxInv

\* An aggregate that ends loses requests that were sent.
LEMMA EndsBox ==
  ASSUME BoxInv, NEW t \in Threads, AggregateEnds(t)
  PROVE  /\ aggregateBox' \in [Threads -> Seq(Letters(requests))]
         /\ IdsIn(aggregateBox[t]) \subseteq 1 .. requests
<1>1. requests \in Nat /\ aggregateBox[t] \in Seq(Letters(requests))
  BY DEF BoxInv
<1>2. aggregateBox[t] \in Seq(Post(requests))
  BY <1>1, SentIsMail
<1>3. aggregateBox' \in [Threads -> Seq(Letters(requests))]
  BY DEF AggregateEnds, BoxInv
<1> QED
  BY <1>1, <1>2, <1>3, IdsInSent

LEMMA StopBox ==
  ASSUME BoxInv, NothingBehindStop, NEW t \in Threads, UnhandledStop(t)
  PROVE  BoxInv' /\ NothingBehindStop'
<1>1. /\ Receives(t, "StopThread") /\ AggregateEnds(t)
      /\ entities' \subseteq Threads
      /\ lost' = lost \cup IdsIn(Tail(entityBox[t])) \cup IdsIn(aggregateBox[t])
      /\ UNCHANGED <<shard, passivate, buffer, handled, requests, stops>>
  BY DEF UnhandledStop, shardVars, BoxInv
<1>2. /\ entityBox' \in [Threads -> Seq(Mail(requests))] /\ NothingBehindStop'
      /\ Tail(entityBox[t]) \in Seq(Mail(requests))
  BY <1>1, ReceivesBox
<1>3. /\ aggregateBox' \in [Threads -> Seq(Letters(requests))]
      /\ IdsIn(aggregateBox[t]) \subseteq 1 .. requests
  BY <1>1, EndsBox
<1>4. IdsIn(Tail(entityBox[t])) \subseteq 1 .. requests
  <2>1. requests \in Nat
    BY DEF BoxInv
  <2>2. Tail(entityBox[t]) \in Seq(Post(requests))
    BY <1>2, <2>1, SentIsMail
  <2> QED
    BY <2>1, <2>2, IdsInSent
<1>5. lost' \subseteq 1 .. requests
  BY <1>1, <1>3, <1>4 DEF BoxInv
<1> QED
  BY <1>1, <1>2, <1>3, <1>5 DEF BoxInv

LEMMA FailsBox ==
  ASSUME BoxInv, NothingBehindStop, NEW t \in Threads, AggregateFails(t) \/ AggregateTerminated(t)
  PROVE  BoxInv' /\ NothingBehindStop'
<1>1. /\ AggregateEnds(t)
      /\ lost' = lost \cup IdsIn(aggregateBox[t])
      /\ UNCHANGED <<shard, passivate, buffer, entities, entityBox, handled, requests>>
  BY DEF AggregateFails, AggregateTerminated, shardVars, entityVars
<1>2. /\ aggregateBox' \in [Threads -> Seq(Letters(requests))]
      /\ IdsIn(aggregateBox[t]) \subseteq 1 .. requests
  BY <1>1, EndsBox
<1>3. lost' \subseteq 1 .. requests
  BY <1>1, <1>2 DEF BoxInv
<1>4. stops' \in 0 .. MaxStops
  <2>1. stops \in 0 .. MaxStops /\ MaxStops \in Nat
    BY LifecycleAssumption DEF BoxInv
  <2>2. stops' = stops \/ (stops < MaxStops /\ stops' = stops + 1)
    BY DEF AggregateFails, AggregateTerminated
  <2> QED
    BY <2>1, <2>2
<1> QED
  BY <1>1, <1>2, <1>3, <1>4 DEF BoxInv, NothingBehindStop

\* The aggregate takes a request from its mailbox.
LEMMA TakesBox ==
  ASSUME BoxInv, NEW t \in Threads, Takes(t, "request")
  PROVE  /\ aggregateBox[t] \in Seq(Letters(requests)) /\ aggregateBox[t] # <<>>
         /\ Head(aggregateBox[t]).type = "request" /\ Head(aggregateBox[t]).id \in 1 .. requests
         /\ Tail(aggregateBox[t]) \in Seq(Letters(requests))
<1>1. /\ aggregateBox[t] \in Seq(Letters(requests)) /\ aggregateBox[t] # <<>>
      /\ Head(aggregateBox[t]).type = "request"
  BY DEF Takes, BoxInv
<1>2. Head(aggregateBox[t]) \in Letters(requests) /\ Tail(aggregateBox[t]) \in Seq(Letters(requests))
  BY <1>1
<1>3. Head(aggregateBox[t]).id \in 1 .. requests
  BY <1>1, <1>2 DEF Letters, Sent, Terminated
<1> QED
  BY <1>1, <1>2, <1>3

LEMMA HandlesBox ==
  ASSUME BoxInv, NothingBehindStop, NEW t \in Threads, AggregateHandles(t) \/ AggregateLoses(t)
  PROVE  BoxInv' /\ NothingBehindStop'
<1>1. /\ Takes(t, "request")
      /\ handled' \subseteq handled \cup {Head(aggregateBox[t]).id}
      /\ lost' \subseteq lost \cup {Head(aggregateBox[t]).id}
      /\ aggregateBox' = [aggregateBox EXCEPT ![t] = Tail(aggregateBox[t])]
      /\ UNCHANGED <<shard, passivate, buffer, entities, entityBox, requests, stops>>
  BY DEF AggregateHandles, AggregateLoses, shardVars, entityVars
<1>2. Head(aggregateBox[t]).id \in 1 .. requests /\ Tail(aggregateBox[t]) \in Seq(Letters(requests))
  BY <1>1, TakesBox
<1>3. aggregateBox' \in [Threads -> Seq(Letters(requests))]
  BY <1>1, <1>2 DEF BoxInv
<1>4. handled' \subseteq 1 .. requests /\ lost' \subseteq 1 .. requests
  BY <1>1, <1>2 DEF BoxInv
<1> QED
  BY <1>1, <1>3, <1>4 DEF BoxInv, NothingBehindStop

LEMMA ChildFailsBox ==
  ASSUME BoxInv, NothingBehindStop, NEW t \in Threads, ChildFails(t)
  PROVE  BoxInv' /\ NothingBehindStop'
<1> DEFINE box == aggregateBox[t]
<1>1. /\ stops < MaxStops /\ stops' = stops + 1
      /\ UNCHANGED <<shard, passivate, buffer, entities, entityBox, handled, requests>>
  BY DEF ChildFails, shardVars, entityVars
<1>2. \/ aggregateBox' = [aggregateBox EXCEPT ![t] = Append(box, Terminated)] /\ lost' = lost
      \/ /\ Takes(t, "request")
         /\ aggregateBox' = [aggregateBox EXCEPT ![t] = Append(Tail(box), Terminated)]
         /\ lost' = lost \cup {Head(box).id}
  BY DEF ChildFails
<1>3. Terminated \in Letters(requests) /\ box \in Seq(Letters(requests))
  BY DEF BoxInv, Letters
<1>4. Takes(t, "request") => Head(box).id \in 1 .. requests /\ Tail(box) \in Seq(Letters(requests))
  BY TakesBox
<1> HIDE DEF box
<1>5. /\ Append(box, Terminated) \in Seq(Letters(requests))
      /\ Takes(t, "request") => Append(Tail(box), Terminated) \in Seq(Letters(requests))
  BY <1>3, <1>4
<1>6. aggregateBox' \in [Threads -> Seq(Letters(requests))] /\ lost' \subseteq 1 .. requests
  BY <1>2, <1>4, <1>5 DEF BoxInv
<1>7. stops' \in 0 .. MaxStops
  BY <1>1, LifecycleAssumption DEF BoxInv
<1> QED
  BY <1>1, <1>6, <1>7 DEF BoxInv, NothingBehindStop

LEMMA TimesOutBox ==
  ASSUME BoxInv, NothingBehindStop, NEW t \in Threads, EntityTimesOut(t)
  PROVE  BoxInv' /\ NothingBehindStop'
<1>1. /\ stops < MaxStops /\ stops' = stops + 1
      /\ entityBox' = [entityBox EXCEPT ![t] = <<ReceiveTimeout>>]
      /\ UNCHANGED <<shard, passivate, buffer, entities, aggregateBox, handled, requests, lost>>
  BY DEF EntityTimesOut, shardVars, aggregateVars
<1>2. ReceiveTimeout \in Mail(requests) /\ ReceiveTimeout # StopThread
  BY DEF Mail, ReceiveTimeout, StopThread
<1>3. <<ReceiveTimeout>> \in Seq(Mail(requests))
  BY <1>2
<1>4. BoxInv'
  BY <1>1, <1>3, LifecycleAssumption DEF BoxInv
<1>5. entityBox'[t] = <<ReceiveTimeout>> /\ \A u \in Threads : u # t => entityBox'[u] = entityBox[u]
  BY <1>1 DEF BoxInv
<1>6. \A i \in DOMAIN entityBox'[t] : entityBox'[t][i] # StopThread
  BY <1>2, <1>5
<1>7. NothingBehindStop'
  BY <1>1, <1>5, <1>6, OneBox
<1> QED
  BY <1>4, <1>7

LEMMA BoxInvHolds == Spec => [](BoxInv /\ NothingBehindStop)
<1>1. BoxInv /\ NothingBehindStop /\ [Next]_vars => BoxInv' /\ NothingBehindStop'
  <2> SUFFICES ASSUME BoxInv, NothingBehindStop, [Next]_vars PROVE BoxInv' /\ NothingBehindStop'
    OBVIOUS
  <2>1. ASSUME NEW t \in Threads, ByThread(t) PROVE BoxInv' /\ NothingBehindStop'
    BY <2>1, RequestBox, ShardPassivatesBox, EntityTerminatedBox, ForwardBox, TimeoutBox, StopBox,
       HandlesBox, TimesOutBox, ChildFailsBox, FailsBox DEF ByThread, ThreadStep
  <2>2. CASE UpdaterStep \/ ShardedUpdaterPassivates \/ UNCHANGED vars
    <3>1. UNCHANGED <<requests, stops, shard, passivate, buffer, entities, entityBox, aggregateBox,
                      handled, lost>>
      BY <2>2 DEF UpdaterStep, RouterForwards, UpdaterReceives, ShardedUpdaterReceives,
                  ShardedUpdaterPassivates, shardVars, entityVars, aggregateVars, vars
    <3> QED
      BY <3>1 DEF BoxInv, NothingBehindStop
  <2> QED
    BY <2>1, <2>2 DEF Next, ByThread
<1> QED
  BY <1>1, InitBox, PTL DEF Spec

(***************************************************************************)
(* Passivation loses no request sent after it was decided, for any number  *)
(* of threads, requests and timeouts: the StopThread is the last message   *)
(* an entity finds, and what comes after it is with the shard.             *)
(***************************************************************************)
THEOREM PassivationIsLast == Spec => []NothingBehindStop
<1> QED
  BY BoxInvHolds, PTL

LEMMA FixedInvHolds == Spec => []FixedInv
<1>1. Init => FixedInv
  BY DEF Init, FixedInv
<1>2. FixedInv /\ [Next]_vars => FixedInv'
  <2> SUFFICES ASSUME FixedInv, [Next]_vars PROVE UNCHANGED <<hash, wiring>>
    BY DEF FixedInv
  <2> QED
    BY DEF Next, ThreadStep, UpdaterStep, vars, fixed, Request, ShardPassivates, EntityTerminated,
           ForwardToActor, UnhandledTimeout, UnhandledStop, AggregateHandles, AggregateLoses,
           AggregateTerminated, EntityTimesOut, ChildFails, AggregateFails, RouterForwards,
           UpdaterReceives, ShardedUpdaterReceives, ShardedUpdaterPassivates
<1> QED
  BY <1>1, <1>2, PTL DEF Spec

(***************************************************************************)
(* Every variable keeps its type: no message is ever in a mailbox that has *)
(* no place for it, and the router and the updater are told of the threads *)
(* and tags there are.                                                     *)
(***************************************************************************)
THEOREM LifecycleTypeCorrect == Spec => []TypeOK
<1>1. FixedInv /\ BoxInv /\ RouteInv /\ ToldInv => TypeOK
  <2> SUFFICES ASSUME FixedInv, BoxInv, RouteInv, ToldInv PROVE TypeOK
    OBVIOUS
  <2>1. requests \in Nat
    BY DEF BoxInv
  <2>2. /\ Mail(requests) \subseteq EntityMessage /\ Sent(requests) \subseteq EntityMessage
        /\ Letters(requests) \subseteq AggregateMessage
    BY <2>1 DEF Mail, Letters, Sent, ReceiveTimeout, StopThread, Terminated, EntityMessage,
                AggregateMessage
  <2>3. /\ Seq(Mail(requests)) \subseteq Seq(EntityMessage)
        /\ Seq(Sent(requests)) \subseteq Seq(EntityMessage)
        /\ Seq(Letters(requests)) \subseteq Seq(AggregateMessage)
    BY <2>2
  <2> QED
    BY <2>3 DEF FixedInv, BoxInv, RouteInv, ToldInv, ChildInv, TypeOK
<1> QED
  BY <1>1, FixedInvHolds, BoxInvHolds, RouteInvHolds, ToldInvHolds, PTL

-----------------------------------------------------------------------------
(* Every request has one place.                                            *)

\* No request is twice in a mailbox.
Distinct(box) ==
  \A i, j \in DOMAIN box :
    box[i].type = "request" /\ box[j].type = "request" /\ box[i].id = box[j].id => i = j

LEMMA IdsMember ==
  ASSUME NEW box, NEW x
  PROVE  x \in IdsIn(box) <=> \E i \in DOMAIN box : box[i].type = "request" /\ box[i].id = x
BY DEF IdsIn

LEMMA IdsEmpty == IdsIn(<<>>) = {} /\ Distinct(<<>>)
BY DEF IdsIn, Distinct

LEMMA LenZero == \A S : \A s \in Seq(S) : Len(s) = 0 => s = <<>>
BY EmptySeq

LEMMA IdsTail ==
  ASSUME NEW S, NEW box \in Seq(S), box # <<>>, Distinct(box)
  PROVE  /\ Distinct(Tail(box))
         /\ Head(box).type = "request" =>
              /\ Head(box).id \in IdsIn(box)
              /\ IdsIn(Tail(box)) = IdsIn(box) \ {Head(box).id}
         /\ Head(box).type # "request" => IdsIn(Tail(box)) = IdsIn(box)
<1> DEFINE l == Len(box)
           tail == Tail(box)
<1>1. /\ l \in Nat \ {0} /\ DOMAIN box = 1 .. l /\ DOMAIN tail = 1 .. l - 1
      /\ \A i \in 1 .. l - 1 : tail[i] = box[i + 1]
      /\ Head(box) = box[1]
  OBVIOUS
<1> HIDE DEF l, tail
<1>2. Distinct(tail)
  <2> SUFFICES ASSUME NEW i \in 1 .. l - 1, NEW j \in 1 .. l - 1,
                      tail[i].type = "request", tail[j].type = "request", tail[i].id = tail[j].id
               PROVE  i = j
    BY <1>1 DEF Distinct
  <2>1. i + 1 \in 1 .. l /\ j + 1 \in 1 .. l /\ tail[i] = box[i + 1] /\ tail[j] = box[j + 1]
    BY <1>1
  <2>2. i + 1 = j + 1
    BY <1>1, <2>1 DEF Distinct
  <2> QED
    BY <2>2
<1>3. ASSUME NEW x PROVE x \in IdsIn(tail) <=> \E i \in 2 .. l : box[i].type = "request" /\ box[i].id = x
  <2>1. ASSUME NEW i \in 1 .. l - 1, tail[i].type = "request", tail[i].id = x
        PROVE  \E j \in 2 .. l : box[j].type = "request" /\ box[j].id = x
    <3>1. i + 1 \in 2 .. l /\ tail[i] = box[i + 1]
      BY <1>1
    <3> QED
      BY <2>1, <3>1
  <2>2. ASSUME NEW i \in 2 .. l, box[i].type = "request", box[i].id = x
        PROVE  \E j \in 1 .. l - 1 : tail[j].type = "request" /\ tail[j].id = x
    <3>1. i - 1 \in 1 .. l - 1 /\ tail[i - 1] = box[(i - 1) + 1] /\ (i - 1) + 1 = i
      BY <1>1
    <3> QED
      BY <2>2, <3>1
  <2> QED
    BY <1>1, <2>1, <2>2, IdsMember
<1>4. \A x : x \in IdsIn(box) <=> \E i \in 1 .. l : box[i].type = "request" /\ box[i].id = x
  BY <1>1, IdsMember
<1>5. ASSUME Head(box).type = "request"
      PROVE  Head(box).id \in IdsIn(box) /\ IdsIn(tail) = IdsIn(box) \ {Head(box).id}
  <2>1. Head(box).id \in IdsIn(box)
    BY <1>1, <1>4, <1>5
  <2>2. Head(box).id \notin IdsIn(tail)
    <3> SUFFICES ASSUME NEW i \in 2 .. l, box[i].type = "request", box[i].id = box[1].id PROVE FALSE
      BY <1>1, <1>3
    <3> QED
      BY <1>1, <1>5 DEF Distinct
  <2>3. ASSUME NEW x \in IdsIn(box), x # Head(box).id PROVE x \in IdsIn(tail)
    <3>1. PICK i \in 1 .. l : box[i].type = "request" /\ box[i].id = x
      BY <1>4, <2>3
    <3>2. i \in 2 .. l
      BY <1>1, <2>3, <3>1
    <3> QED
      BY <1>3, <3>1, <3>2
  <2>4. \A x : x \in IdsIn(tail) => x \in IdsIn(box)
    BY <1>1, <1>3, <1>4
  <2> QED
    BY <2>1, <2>2, <2>3, <2>4
<1>6. ASSUME Head(box).type # "request" PROVE IdsIn(tail) = IdsIn(box)
  <2>1. ASSUME NEW x \in IdsIn(box) PROVE x \in IdsIn(tail)
    <3>1. PICK i \in 1 .. l : box[i].type = "request" /\ box[i].id = x
      BY <1>4
    <3>2. i \in 2 .. l
      BY <1>1, <1>6, <3>1
    <3> QED
      BY <1>3, <3>1, <3>2
  <2>2. \A x : x \in IdsIn(tail) => x \in IdsIn(box)
    BY <1>1, <1>3, <1>4
  <2> QED
    BY <2>1, <2>2
<1> QED
  BY <1>2, <1>5, <1>6 DEF tail

LEMMA IdsAppend ==
  ASSUME NEW S, NEW box \in Seq(S), NEW m, Distinct(box)
  PROVE  /\ m.type = "request" =>
              /\ IdsIn(Append(box, m)) = IdsIn(box) \cup {m.id}
              /\ m.id \notin IdsIn(box) => Distinct(Append(box, m))
         /\ m.type # "request" => IdsIn(Append(box, m)) = IdsIn(box) /\ Distinct(Append(box, m))
<1> DEFINE l == Len(box)
           new == Append(box, m)
<1>1. /\ l \in Nat /\ DOMAIN box = 1 .. l /\ DOMAIN new = 1 .. l + 1
      /\ \A i \in 1 .. l : new[i] = box[i]
      /\ new[l + 1] = m
  OBVIOUS
<1> HIDE DEF l, new
<1>2. \A x : x \in IdsIn(box) <=> \E i \in 1 .. l : box[i].type = "request" /\ box[i].id = x
  BY <1>1, IdsMember
<1>3. \A x : x \in IdsIn(new) <=> x \in IdsIn(box) \/ (m.type = "request" /\ m.id = x)
  <2> SUFFICES ASSUME NEW x
               PROVE  x \in IdsIn(new) <=> x \in IdsIn(box) \/ (m.type = "request" /\ m.id = x)
    OBVIOUS
  <2>1. x \in IdsIn(new) <=> \E i \in 1 .. l + 1 : new[i].type = "request" /\ new[i].id = x
    BY <1>1, IdsMember
  <2>2. \A i \in 1 .. l + 1 : i \in 1 .. l \/ i = l + 1
    BY <1>1
  <2>3. l + 1 \in 1 .. l + 1 /\ 1 .. l \subseteq 1 .. l + 1
    BY <1>1
  <2> QED
    BY <1>1, <1>2, <2>1, <2>2, <2>3
<1>4. ASSUME m.type = "request" => m.id \notin IdsIn(box) PROVE Distinct(new)
  <2>1. ASSUME NEW i \in 1 .. l, m.type = "request" PROVE ~(box[i].type = "request" /\ box[i].id = m.id)
    BY <1>2, <1>4, <2>1
  <2> QED
    BY <1>1, <2>1 DEF Distinct
<1> QED
  BY <1>3, <1>4 DEF new

\* An entity that is not there has no mail, and the shard knows of it.
GoneInv ==
  /\ \A t \in Threads : t \notin entities => entityBox[t] = <<>>
  /\ \A t \in Threads : shard[t] = "active" => t \in entities

LEMMA GoneInvHolds == Spec => []GoneInv
<1>1. Init => GoneInv
  BY DEF Init, GoneInv
<1>2. BoxInv /\ NothingBehindStop /\ GoneInv /\ [Next]_vars => GoneInv'
  <2> SUFFICES ASSUME BoxInv, NothingBehindStop, GoneInv, [Next]_vars PROVE GoneInv'
    OBVIOUS
  <2>0. /\ shard \in [Threads -> {"none", "active", "passivating"}]
        /\ entityBox \in [Threads -> Seq(Mail(requests))]
    BY DEF BoxInv
  <2>1. ASSUME NEW t \in Threads, Request(t) PROVE GoneInv'
    <3>1. CASE shard[t] = "passivating"
      BY <2>1, <3>1 DEF Request, entityVars, GoneInv
    <3>2. CASE shard[t] # "passivating"
      BY <2>0, <2>1, <3>2 DEF Request, GoneInv
    <3> QED
      BY <3>1, <3>2
  <2>2. ASSUME NEW t \in Threads, ShardPassivates(t) PROVE GoneInv'
    <3>1. CASE shard[t] = "active"
      BY <2>0, <2>2, <3>1 DEF ShardPassivates, GoneInv
    <3>2. CASE shard[t] # "active"
      BY <2>2, <3>2 DEF ShardPassivates, GoneInv
    <3> QED
      BY <3>1, <3>2
  <2>3. ASSUME NEW t \in Threads, EntityTerminated(t) PROVE GoneInv'
    <3>1. CASE buffer[t] = <<>>
      BY <2>0, <2>3, <3>1 DEF EntityTerminated, GoneInv
    <3>2. CASE buffer[t] # <<>>
      BY <2>0, <2>3, <3>2 DEF EntityTerminated, GoneInv
    <3> QED
      BY <3>1, <3>2
  <2>4. ASSUME NEW t \in Threads, ForwardToActor(t) \/ UnhandledTimeout(t) PROVE GoneInv'
    <3>1. /\ entityBox[t] # <<>> /\ entityBox' = [entityBox EXCEPT ![t] = Tail(entityBox[t])]
          /\ UNCHANGED <<shard, entities>>
      BY <2>4 DEF ForwardToActor, UnhandledTimeout, Receives, shardVars
    <3> QED
      BY <2>0, <3>1 DEF GoneInv
  <2>5. ASSUME NEW t \in Threads, UnhandledStop(t) PROVE GoneInv'
    <3>1. /\ entityBox[t] # <<>> /\ Head(entityBox[t]).type = "StopThread"
          /\ entityBox' = [entityBox EXCEPT ![t] = Tail(entityBox[t])]
          /\ shard' = shard /\ entities' = entities \ {t}
      BY <2>5 DEF UnhandledStop, Receives, shardVars
    <3>2. entityBox[t] \in Seq(Mail(requests)) /\ Head(entityBox[t]) \in Mail(requests)
      BY <2>0, <3>1
    <3>3. Head(entityBox[t]) = StopThread
      BY <3>1, <3>2 DEF Mail, Sent, ReceiveTimeout
    <3>4. 1 \in DOMAIN entityBox[t] /\ entityBox[t][1] = StopThread
      BY <3>1, <3>2, <3>3
    <3>5. Len(entityBox[t]) = 1 /\ shard[t] = "passivating"
      BY <3>4 DEF NothingBehindStop
    <3>6. Tail(entityBox[t]) \in Seq(Mail(requests)) /\ Len(Tail(entityBox[t])) = 0
      BY <3>1, <3>2, <3>5
    <3>7. Tail(entityBox[t]) = <<>>
      BY <3>6, LenZero
    <3> QED
      BY <2>0, <3>1, <3>5, <3>7 DEF GoneInv
  <2>6. ASSUME NEW t \in Threads, EntityTimesOut(t) PROVE GoneInv'
    BY <2>0, <2>6 DEF EntityTimesOut, shardVars, GoneInv
  <2>7. ASSUME NEW t \in Threads,
               \/ AggregateHandles(t) \/ AggregateLoses(t) \/ AggregateTerminated(t)
               \/ ChildFails(t) \/ AggregateFails(t)
        PROVE  GoneInv'
    BY <2>7 DEF AggregateHandles, AggregateLoses, AggregateTerminated, ChildFails, AggregateFails,
                shardVars, entityVars, GoneInv
  <2>8. CASE UpdaterStep \/ ShardedUpdaterPassivates \/ UNCHANGED vars
    BY <2>8 DEF UpdaterStep, RouterForwards, UpdaterReceives, ShardedUpdaterReceives,
                ShardedUpdaterPassivates, shardVars, entityVars, vars, GoneInv
  <2> QED
    BY <2>1, <2>2, <2>3, <2>4, <2>5, <2>6, <2>7, <2>8 DEF Next, ThreadStep
<1> QED
  BY <1>1, <1>2, BoxInvHolds, PTL DEF Spec

\* The places a request may be in, and those there.
Place == ({"buffer", "entity", "aggregate"} \X Threads) \cup {<<"handled", 0>>, <<"lost", 0>>}

Held(x) ==
  CASE x[1] = "buffer" -> IdsIn(buffer[x[2]])
    [] x[1] = "entity" -> IdsIn(entityBox[x[2]])
    [] x[1] = "aggregate" -> IdsIn(aggregateBox[x[2]])
    [] x[1] = "handled" -> handled
    [] x[1] = "lost" -> lost

HeldOnce ==
  /\ \A i \in 1 .. requests : \E x \in Place : i \in Held(x)
  /\ \A x, y \in Place : x # y => Held(x) \cap Held(y) = {}

PlaceInv ==
  /\ HeldOnce
  /\ \A t \in Threads : Distinct(buffer[t]) /\ Distinct(entityBox[t]) /\ Distinct(aggregateBox[t])

LEMMA Places ==
  /\ \A t \in Threads :
       /\ <<"buffer", t>> \in Place /\ <<"entity", t>> \in Place /\ <<"aggregate", t>> \in Place
       /\ <<"buffer", t>> # <<"entity", t>> /\ <<"entity", t>> # <<"aggregate", t>>
       /\ <<"aggregate", t>> # <<"handled", 0>> /\ <<"aggregate", t>> # <<"lost", 0>>
  /\ <<"handled", 0>> \in Place /\ <<"lost", 0>> \in Place
  /\ \A x \in Place :
       \/ \E t \in Threads : x \in {<<"buffer", t>>, <<"entity", t>>, <<"aggregate", t>>}
       \/ x = <<"handled", 0>> \/ x = <<"lost", 0>>
BY DEF Place

LEMMA HeldIs ==
  /\ \A t : Held(<<"buffer", t>>) = IdsIn(buffer[t])
  /\ \A t : Held(<<"entity", t>>) = IdsIn(entityBox[t])
  /\ \A t : Held(<<"aggregate", t>>) = IdsIn(aggregateBox[t])
  /\ Held(<<"handled", 0>>) = handled /\ Held(<<"lost", 0>>) = lost
BY DEF Held

LEMMA HeldWillBe ==
  /\ \A t : Held(<<"buffer", t>>)' = IdsIn(buffer'[t])
  /\ \A t : Held(<<"entity", t>>)' = IdsIn(entityBox'[t])
  /\ \A t : Held(<<"aggregate", t>>)' = IdsIn(aggregateBox'[t])
  /\ Held(<<"handled", 0>>)' = handled' /\ Held(<<"lost", 0>>)' = lost'
BY DEF Held, IdsIn

\* A step that moves the requests D from x to y.
LEMMA Moves ==
  ASSUME HeldOnce, NEW x \in Place, NEW y \in Place, x # y, NEW D, D \subseteq Held(x),
         requests' = requests, Held(x)' = Held(x) \ D, Held(y)' = Held(y) \cup D,
         \A z \in Place : z # x /\ z # y => Held(z)' = Held(z)
  PROVE  HeldOnce'
<1>1. ASSUME NEW i \in 1 .. requests PROVE \E z \in Place : i \in Held(z)'
  <2>1. PICK z \in Place : i \in Held(z)
    BY <1>1 DEF HeldOnce
  <2>2. i \in Held(x)' \/ i \in Held(y)' \/ i \in Held(z)'
    BY <2>1
  <2> QED
    BY <2>1, <2>2
<1>2. ASSUME NEW u \in Place, NEW v \in Place, u # v PROVE Held(u)' \cap Held(v)' = {}
  <2>1. Held(u) \cap Held(v) = {}
    BY <1>2 DEF HeldOnce
  <2>2. (u # x => Held(u) \cap Held(x) = {}) /\ (v # x => Held(v) \cap Held(x) = {})
    BY <1>2 DEF HeldOnce
  <2>3. (u # y => Held(u) \cap Held(y) = {}) /\ (v # y => Held(v) \cap Held(y) = {})
    BY <1>2 DEF HeldOnce
  <2> QED
    BY <1>2, <2>1, <2>2, <2>3
<1>3. /\ \A i \in 1 .. requests : \E z \in Place : i \in Held(z)'
      /\ \A u, v \in Place : u # v => Held(u)' \cap Held(v)' = {}
  BY <1>1, <1>2
<1> QED
  BY <1>3 DEF HeldOnce

\* A request that is sent arrives at x.
LEMMA Arrives ==
  ASSUME HeldOnce, requests \in Nat, NEW x \in Place,
         requests' = requests + 1, Held(x)' = Held(x) \cup {requests + 1},
         \A z \in Place : Held(z) \subseteq 1 .. requests,
         \A z \in Place : z # x => Held(z)' = Held(z)
  PROVE  HeldOnce'
<1>1. ASSUME NEW i \in 1 .. requests + 1 PROVE \E z \in Place : i \in Held(z)'
  <2>1. CASE i = requests + 1
    BY <2>1
  <2>2. CASE i \in 1 .. requests
    <3>1. PICK z \in Place : i \in Held(z)
      BY <2>2 DEF HeldOnce
    <3>2. i \in Held(x)' \/ i \in Held(z)'
      BY <3>1
    <3> QED
      BY <3>1, <3>2
  <2> QED
    BY <1>1, <2>1, <2>2
<1>2. ASSUME NEW u \in Place, NEW v \in Place, u # v PROVE Held(u)' \cap Held(v)' = {}
  <2>1. Held(u) \cap Held(v) = {} /\ requests + 1 \notin Held(u) /\ requests + 1 \notin Held(v)
    BY <1>2 DEF HeldOnce
  <2> QED
    BY <1>2, <2>1
<1>3. /\ \A i \in 1 .. requests' : \E z \in Place : i \in Held(z)'
      /\ \A u, v \in Place : u # v => Held(u)' \cap Held(v)' = {}
  BY <1>1, <1>2
<1> QED
  BY <1>3 DEF HeldOnce

LEMMA HeldWereSent ==
  ASSUME BoxInv
  PROVE  /\ requests \in Nat /\ \A x \in Place : Held(x) \subseteq 1 .. requests
         /\ \A t \in Threads : IdsIn(buffer[t]) \subseteq 1 .. requests
         /\ \A t \in Threads : IdsIn(entityBox[t]) \subseteq 1 .. requests
<1>1. requests \in Nat /\ handled \subseteq 1 .. requests /\ lost \subseteq 1 .. requests
  BY DEF BoxInv
<1>2. /\ Seq(Sent(requests)) \subseteq Seq(Post(requests)) /\ Seq(Mail(requests)) \subseteq Seq(Post(requests))
      /\ Seq(Letters(requests)) \subseteq Seq(Post(requests))
  BY <1>1, SentIsMail
<1>3. ASSUME NEW t \in Threads
      PROVE  /\ IdsIn(buffer[t]) \subseteq 1 .. requests
             /\ IdsIn(entityBox[t]) \subseteq 1 .. requests
             /\ IdsIn(aggregateBox[t]) \subseteq 1 .. requests
  BY <1>1, <1>2, IdsInSent DEF BoxInv
<1>4. ASSUME NEW x \in Place PROVE Held(x) \subseteq 1 .. requests
  <2>1. ASSUME NEW t \in Threads, x \in {<<"buffer", t>>, <<"entity", t>>, <<"aggregate", t>>}
        PROVE  Held(x) \subseteq 1 .. requests
    BY <1>3, <2>1, HeldIs
  <2>2. CASE x = <<"handled", 0>> \/ x = <<"lost", 0>>
    BY <1>1, <2>2, HeldIs
  <2> QED
    BY <2>1, <2>2, Places
<1> QED
  BY <1>1, <1>3, <1>4

LEMMA RequestPlace ==
  ASSUME BoxInv, PlaceInv, NEW t \in Threads, Request(t)
  PROVE  PlaceInv'
<1> DEFINE m == RequestMsg(requests + 1)
<1>1. /\ requests \in Nat /\ \A z \in Place : Held(z) \subseteq 1 .. requests
      /\ IdsIn(buffer[t]) \subseteq 1 .. requests /\ IdsIn(entityBox[t]) \subseteq 1 .. requests
  BY HeldWereSent
<1>2. m.type = "request" /\ m.id = requests + 1
  BY DEF RequestMsg
<1> HIDE DEF m
<1>3. requests' = requests + 1 /\ UNCHANGED <<aggregateBox, handled, lost>>
  BY DEF Request, aggregateVars
<1>4. CASE shard[t] = "passivating"
  <2>1. buffer' = [buffer EXCEPT ![t] = Append(buffer[t], m)] /\ UNCHANGED entityBox
    BY <1>4 DEF Request, entityVars, m
  <2>2. buffer'[t] = Append(buffer[t], m) /\ \A u \in Threads : u # t => buffer'[u] = buffer[u]
    BY <2>1 DEF BoxInv
  <2>3. buffer[t] \in Seq(Sent(requests)) /\ Distinct(buffer[t])
    BY DEF BoxInv, PlaceInv
  <2>4. requests + 1 \notin IdsIn(buffer[t])
    BY <1>1
  <2>5. IdsIn(buffer'[t]) = IdsIn(buffer[t]) \cup {requests + 1} /\ Distinct(buffer'[t])
    BY <1>2, <2>2, <2>3, <2>4, IdsAppend
  <2>6. HeldOnce'
    <3>1. Held(<<"buffer", t>>)' = Held(<<"buffer", t>>) \cup {requests + 1}
      BY <2>5, HeldIs, HeldWillBe
    <3>2. ASSUME NEW z \in Place, z # <<"buffer", t>> PROVE Held(z)' = Held(z)
      <4>1. ASSUME NEW u \in Threads, z \in {<<"buffer", u>>, <<"entity", u>>, <<"aggregate", u>>}
            PROVE  Held(z)' = Held(z)
        <5>1. z = <<"buffer", u>> => buffer'[u] = buffer[u]
          BY <2>2, <3>2
        <5> QED
          BY <1>3, <2>1, <4>1, <5>1, HeldIs, HeldWillBe
      <4>2. CASE z = <<"handled", 0>> \/ z = <<"lost", 0>>
        BY <1>3, <4>2, HeldIs, HeldWillBe
      <4> QED
        BY <4>1, <4>2, Places
    <3>3. <<"buffer", t>> \in Place /\ HeldOnce
      BY Places DEF PlaceInv
    <3> QED
      BY <1>1, <1>3, <3>1, <3>2, <3>3, Arrives
  <2> QED
    BY <1>3, <2>1, <2>2, <2>5, <2>6 DEF PlaceInv
<1>5. CASE shard[t] # "passivating"
  <2>1. entityBox' = [entityBox EXCEPT ![t] = Append(entityBox[t], m)] /\ UNCHANGED buffer
    BY <1>5 DEF Request, m
  <2>2. /\ entityBox'[t] = Append(entityBox[t], m)
        /\ \A u \in Threads : u # t => entityBox'[u] = entityBox[u]
    BY <2>1 DEF BoxInv
  <2>3. entityBox[t] \in Seq(Mail(requests)) /\ Distinct(entityBox[t])
    BY DEF BoxInv, PlaceInv
  <2>4. requests + 1 \notin IdsIn(entityBox[t])
    BY <1>1
  <2>5. IdsIn(entityBox'[t]) = IdsIn(entityBox[t]) \cup {requests + 1} /\ Distinct(entityBox'[t])
    BY <1>2, <2>2, <2>3, <2>4, IdsAppend
  <2>6. HeldOnce'
    <3>1. Held(<<"entity", t>>)' = Held(<<"entity", t>>) \cup {requests + 1}
      BY <2>5, HeldIs, HeldWillBe
    <3>2. ASSUME NEW z \in Place, z # <<"entity", t>> PROVE Held(z)' = Held(z)
      <4>1. ASSUME NEW u \in Threads, z \in {<<"buffer", u>>, <<"entity", u>>, <<"aggregate", u>>}
            PROVE  Held(z)' = Held(z)
        <5>1. z = <<"entity", u>> => entityBox'[u] = entityBox[u]
          BY <2>2, <3>2
        <5> QED
          BY <1>3, <2>1, <4>1, <5>1, HeldIs, HeldWillBe
      <4>2. CASE z = <<"handled", 0>> \/ z = <<"lost", 0>>
        BY <1>3, <4>2, HeldIs, HeldWillBe
      <4> QED
        BY <4>1, <4>2, Places
    <3>3. <<"entity", t>> \in Place /\ HeldOnce
      BY Places DEF PlaceInv
    <3> QED
      BY <1>1, <1>3, <3>1, <3>2, <3>3, Arrives
  <2> QED
    BY <1>3, <2>1, <2>2, <2>5, <2>6 DEF PlaceInv
<1> QED
  BY <1>4, <1>5

\* A step after which the places hold what they held.
LEMMA StaysPlace ==
  ASSUME PlaceInv, UNCHANGED <<requests, buffer, handled, lost>>,
         \A u \in Threads : /\ IdsIn(entityBox'[u]) = IdsIn(entityBox[u]) /\ Distinct(entityBox'[u])
                            /\ IdsIn(aggregateBox'[u]) = IdsIn(aggregateBox[u])
                            /\ Distinct(aggregateBox'[u])
  PROVE  PlaceInv'
<1>1. \A z \in Place : Held(z)' = Held(z)
  BY HeldIs, HeldWillBe, Places
<1>2. HeldOnce'
  BY <1>1 DEF PlaceInv, HeldOnce
<1> QED
  BY <1>2 DEF PlaceInv

\* One that touches no mailbox of an aggregate.
LEMMA StaysPlaceEntity ==
  ASSUME PlaceInv, UNCHANGED <<requests, buffer, aggregateBox, handled, lost>>,
         \A u \in Threads : IdsIn(entityBox'[u]) = IdsIn(entityBox[u]) /\ Distinct(entityBox'[u])
  PROVE  PlaceInv'
<1>1. \A u \in Threads : IdsIn(aggregateBox'[u]) = IdsIn(aggregateBox[u]) /\ Distinct(aggregateBox'[u])
  BY DEF PlaceInv
<1> QED
  BY <1>1, StaysPlace

LEMMA ShardPassivatesPlace ==
  ASSUME BoxInv, PlaceInv, NEW t \in Threads, ShardPassivates(t)
  PROVE  PlaceInv'
<1>1. UNCHANGED <<requests, buffer, aggregateBox, handled, lost>>
  BY DEF ShardPassivates, aggregateVars
<1>2. entityBox' = entityBox \/ entityBox' = [entityBox EXCEPT ![t] = Append(entityBox[t], StopThread)]
  BY DEF ShardPassivates
<1>3. \A u \in Threads : entityBox'[u] = entityBox[u] \/ entityBox'[u] = Append(entityBox[u], StopThread)
  BY <1>2 DEF BoxInv
<1>4. ASSUME NEW u \in Threads
      PROVE  IdsIn(entityBox'[u]) = IdsIn(entityBox[u]) /\ Distinct(entityBox'[u])
  <2>1. Distinct(entityBox[u]) /\ entityBox[u] \in Seq(Mail(requests)) /\ StopThread.type # "request"
    BY DEF BoxInv, PlaceInv, StopThread
  <2>2. /\ IdsIn(Append(entityBox[u], StopThread)) = IdsIn(entityBox[u])
        /\ Distinct(Append(entityBox[u], StopThread))
    BY <2>1, IdsAppend
  <2> QED
    BY <1>3, <2>1, <2>2
<1> QED
  BY <1>1, <1>4, StaysPlaceEntity

LEMMA TimesOutPlace ==
  ASSUME BoxInv, PlaceInv, NEW t \in Threads, EntityTimesOut(t)
  PROVE  PlaceInv'
<1>1. UNCHANGED <<requests, buffer, aggregateBox, handled, lost>>
  BY DEF EntityTimesOut, aggregateVars, shardVars
<1>2. /\ \A u \in Threads : u # t => entityBox'[u] = entityBox[u]
      /\ entityBox'[t] = <<ReceiveTimeout>> /\ entityBox[t] = <<>>
  BY DEF EntityTimesOut, BoxInv
<1>3. IdsIn(<<ReceiveTimeout>>) = {} /\ Distinct(<<ReceiveTimeout>>)
  BY DEF IdsIn, Distinct, ReceiveTimeout
<1>4. \A u \in Threads : IdsIn(entityBox'[u]) = IdsIn(entityBox[u]) /\ Distinct(entityBox'[u])
  BY <1>2, <1>3, IdsEmpty DEF PlaceInv
<1> QED
  BY <1>1, <1>4, StaysPlaceEntity

LEMMA TimeoutPlace ==
  ASSUME BoxInv, PlaceInv, NEW t \in Threads, UnhandledTimeout(t)
  PROVE  PlaceInv'
<1>1. UNCHANGED <<requests, buffer, aggregateBox, handled, lost>>
  BY DEF UnhandledTimeout, aggregateVars
<1>2. /\ entityBox[t] # <<>> /\ Head(entityBox[t]).type # "request"
      /\ \A u \in Threads : u # t => entityBox'[u] = entityBox[u]
      /\ entityBox'[t] = Tail(entityBox[t])
  BY DEF UnhandledTimeout, Receives, BoxInv
<1>3. entityBox[t] \in Seq(Mail(requests)) /\ Distinct(entityBox[t])
  BY DEF BoxInv, PlaceInv
<1>4. IdsIn(entityBox'[t]) = IdsIn(entityBox[t]) /\ Distinct(entityBox'[t])
  BY <1>2, <1>3, IdsTail
<1>5. \A u \in Threads : IdsIn(entityBox'[u]) = IdsIn(entityBox[u]) /\ Distinct(entityBox'[u])
  BY <1>2, <1>4 DEF PlaceInv
<1> QED
  BY <1>1, <1>5, StaysPlaceEntity

LEMMA TerminatedPlace ==
  ASSUME BoxInv, GoneInv, PlaceInv, NEW t \in Threads, EntityTerminated(t)
  PROVE  PlaceInv'
<1>1. UNCHANGED <<requests, aggregateBox, handled, lost>>
  BY DEF EntityTerminated, aggregateVars
<1>2. /\ \A u \in Threads : u # t => entityBox'[u] = entityBox[u] /\ buffer'[u] = buffer[u]
      /\ entityBox'[t] = buffer[t] /\ buffer'[t] = <<>> /\ entityBox[t] = <<>>
  BY DEF EntityTerminated, BoxInv, GoneInv
<1>3. HeldOnce'
  <2>1. /\ Held(<<"buffer", t>>)' = Held(<<"buffer", t>>) \ IdsIn(buffer[t])
        /\ Held(<<"entity", t>>)' = Held(<<"entity", t>>) \cup IdsIn(buffer[t])
        /\ IdsIn(buffer[t]) \subseteq Held(<<"buffer", t>>)
    BY <1>2, HeldIs, HeldWillBe, IdsEmpty
  <2>2. \A z \in Place : z # <<"buffer", t>> /\ z # <<"entity", t>> => Held(z)' = Held(z)
    BY <1>1, <1>2, HeldIs, HeldWillBe, Places
  <2>3. HeldOnce /\ <<"buffer", t>> \in Place /\ <<"entity", t>> \in Place
        /\ <<"buffer", t>> # <<"entity", t>>
    BY Places DEF PlaceInv
  <2> QED
    BY <1>1, <2>1, <2>2, <2>3, Moves
<1> QED
  BY <1>1, <1>2, <1>3, IdsEmpty DEF PlaceInv

LEMMA ForwardPlace ==
  ASSUME BoxInv, PlaceInv, NEW t \in Threads, ForwardToActor(t)
  PROVE  PlaceInv'
<1> DEFINE m == Head(entityBox[t])
<1>1. UNCHANGED <<requests, buffer, handled, lost>>
  BY DEF ForwardToActor, shardVars
<1>2. /\ entityBox[t] # <<>> /\ m.type = "request"
      /\ \A u \in Threads : u # t => entityBox'[u] = entityBox[u] /\ aggregateBox'[u] = aggregateBox[u]
      /\ entityBox'[t] = Tail(entityBox[t])
      /\ aggregateBox'[t] = Append(aggregateBox[t], m)
  BY DEF ForwardToActor, Receives, BoxInv
<1>3. /\ entityBox[t] \in Seq(Mail(requests)) /\ Distinct(entityBox[t])
      /\ aggregateBox[t] \in Seq(Letters(requests)) /\ Distinct(aggregateBox[t])
  BY DEF BoxInv, PlaceInv
<1> HIDE DEF m
<1>4. /\ m.id \in IdsIn(entityBox[t])
      /\ IdsIn(entityBox'[t]) = IdsIn(entityBox[t]) \ {m.id} /\ Distinct(entityBox'[t])
  BY <1>2, <1>3, IdsTail DEF m
<1>5. /\ HeldOnce /\ <<"entity", t>> \in Place /\ <<"aggregate", t>> \in Place
      /\ <<"entity", t>> # <<"aggregate", t>>
  BY Places DEF PlaceInv
<1>6. m.id \notin IdsIn(aggregateBox[t])
  <2>1. Held(<<"entity", t>>) \cap Held(<<"aggregate", t>>) = {}
    BY <1>5 DEF HeldOnce
  <2> QED
    BY <1>4, <2>1, HeldIs
<1>7. IdsIn(aggregateBox'[t]) = IdsIn(aggregateBox[t]) \cup {m.id} /\ Distinct(aggregateBox'[t])
  BY <1>2, <1>3, <1>6, IdsAppend
<1>8. HeldOnce'
  <2>1. /\ Held(<<"entity", t>>)' = Held(<<"entity", t>>) \ {m.id}
        /\ Held(<<"aggregate", t>>)' = Held(<<"aggregate", t>>) \cup {m.id}
        /\ {m.id} \subseteq Held(<<"entity", t>>)
    BY <1>4, <1>7, HeldIs, HeldWillBe
  <2>2. \A z \in Place : z # <<"entity", t>> /\ z # <<"aggregate", t>> => Held(z)' = Held(z)
    BY <1>1, <1>2, HeldIs, HeldWillBe, Places
  <2> QED
    BY <1>1, <1>5, <2>1, <2>2, Moves, ZenonT(30)
<1> QED
  BY <1>1, <1>2, <1>4, <1>7, <1>8 DEF PlaceInv

\* The aggregate takes a request from its mailbox, and it goes to x.
LEMMA TakesPlace ==
  ASSUME BoxInv, PlaceInv, NEW t \in Threads, Takes(t, "request"),
         NEW x \in {<<"handled", 0>>, <<"lost", 0>>},
         UNCHANGED <<requests, buffer, entityBox>>,
         Held(x)' = Held(x) \cup {Head(aggregateBox[t]).id},
         \A y \in {<<"handled", 0>>, <<"lost", 0>>} : y # x => Held(y)' = Held(y),
         \A u \in Threads : u # t => aggregateBox'[u] = aggregateBox[u],
         IdsIn(aggregateBox'[t]) = IdsIn(Tail(aggregateBox[t])), Distinct(aggregateBox'[t])
  PROVE  PlaceInv'
<1> DEFINE m == Head(aggregateBox[t])
<1>1. /\ aggregateBox[t] \in Seq(Letters(requests)) /\ aggregateBox[t] # <<>>
      /\ m.type = "request" /\ Distinct(aggregateBox[t])
  BY TakesBox DEF PlaceInv
<1> HIDE DEF m
<1>2. /\ m.id \in IdsIn(aggregateBox[t])
      /\ IdsIn(aggregateBox'[t]) = IdsIn(aggregateBox[t]) \ {m.id}
  BY <1>1, IdsTail DEF m
<1>3. HeldOnce'
  <2>1. /\ Held(<<"aggregate", t>>)' = Held(<<"aggregate", t>>) \ {m.id}
        /\ Held(x)' = Held(x) \cup {m.id}
        /\ {m.id} \subseteq Held(<<"aggregate", t>>)
    BY <1>2, HeldIs, HeldWillBe DEF m
  <2>2. \A z \in Place : z # <<"aggregate", t>> /\ z # x => Held(z)' = Held(z)
    BY HeldIs, HeldWillBe, Places
  <2>3. HeldOnce /\ <<"aggregate", t>> \in Place /\ x \in Place /\ <<"aggregate", t>> # x
    BY Places DEF PlaceInv
  <2> QED
    BY <2>1, <2>2, <2>3, Moves
<1> QED
  BY <1>3 DEF PlaceInv

LEMMA HandlesPlace ==
  ASSUME BoxInv, PlaceInv, NEW t \in Threads, AggregateHandles(t) \/ AggregateLoses(t)
  PROVE  PlaceInv'
<1>1. /\ Takes(t, "request") /\ UNCHANGED <<requests, buffer, entityBox>>
      /\ \A u \in Threads : u # t => aggregateBox'[u] = aggregateBox[u]
      /\ aggregateBox'[t] = Tail(aggregateBox[t])
  BY DEF AggregateHandles, AggregateLoses, shardVars, entityVars, BoxInv
<1>2. Distinct(aggregateBox'[t])
  <2>1. aggregateBox[t] \in Seq(Letters(requests)) /\ aggregateBox[t] # <<>> /\ Distinct(aggregateBox[t])
    BY <1>1, TakesBox DEF PlaceInv
  <2> QED
    BY <1>1, <2>1, IdsTail
<1>3. CASE AggregateHandles(t)
  <2>1. handled' = handled \cup {Head(aggregateBox[t]).id} /\ lost' = lost
    BY <1>3 DEF AggregateHandles
  <2>2. /\ Held(<<"handled", 0>>)' = Held(<<"handled", 0>>) \cup {Head(aggregateBox[t]).id}
        /\ Held(<<"lost", 0>>)' = Held(<<"lost", 0>>)
    BY <2>1, HeldIs, HeldWillBe
  <2> QED
    BY <1>1, <1>2, <2>2, TakesPlace
<1>4. CASE AggregateLoses(t)
  <2>1. lost' = lost \cup {Head(aggregateBox[t]).id} /\ handled' = handled
    BY <1>4 DEF AggregateLoses
  <2>2. /\ Held(<<"lost", 0>>)' = Held(<<"lost", 0>>) \cup {Head(aggregateBox[t]).id}
        /\ Held(<<"handled", 0>>)' = Held(<<"handled", 0>>)
    BY <2>1, HeldIs, HeldWillBe
  <2> QED
    BY <1>1, <1>2, <2>2, TakesPlace
<1> QED
  BY <1>3, <1>4

LEMMA ChildFailsPlace ==
  ASSUME BoxInv, PlaceInv, NEW t \in Threads, ChildFails(t)
  PROVE  PlaceInv'
<1> DEFINE box == aggregateBox[t]
<1>1. UNCHANGED <<requests, buffer, entityBox, handled>>
  BY DEF ChildFails, shardVars, entityVars
<1>2. /\ \A u \in Threads : u # t => aggregateBox'[u] = aggregateBox[u]
      /\ \/ aggregateBox'[t] = Append(box, Terminated) /\ lost' = lost
         \/ /\ Takes(t, "request") /\ aggregateBox'[t] = Append(Tail(box), Terminated)
            /\ lost' = lost \cup {Head(box).id}
  BY DEF ChildFails, BoxInv
<1>3. box \in Seq(Letters(requests)) /\ Distinct(box) /\ Terminated.type # "request"
  BY DEF BoxInv, PlaceInv, Terminated
<1>4. CASE aggregateBox'[t] = Append(box, Terminated) /\ lost' = lost
  <2>1. IdsIn(aggregateBox'[t]) = IdsIn(box) /\ Distinct(aggregateBox'[t])
    <3> HIDE DEF box
    <3> QED
      BY <1>3, <1>4, IdsAppend
  <2>2. \A u \in Threads : /\ IdsIn(entityBox'[u]) = IdsIn(entityBox[u]) /\ Distinct(entityBox'[u])
                           /\ IdsIn(aggregateBox'[u]) = IdsIn(aggregateBox[u])
                           /\ Distinct(aggregateBox'[u])
    BY <1>1, <1>2, <2>1 DEF PlaceInv
  <2> QED
    BY <1>1, <1>4, <2>2, StaysPlace
<1>5. CASE Takes(t, "request") /\ aggregateBox'[t] = Append(Tail(box), Terminated)
           /\ lost' = lost \cup {Head(box).id}
  <2>1. IdsIn(aggregateBox'[t]) = IdsIn(Tail(box)) /\ Distinct(aggregateBox'[t])
    <3>1. box # <<>> /\ Tail(box) \in Seq(Letters(requests))
      BY <1>5, TakesBox
    <3> HIDE DEF box
    <3>2. Distinct(Tail(box))
      BY <1>3, <3>1, IdsTail
    <3> QED
      BY <1>3, <1>5, <3>1, <3>2, IdsAppend
  <2>2. /\ Held(<<"lost", 0>>)' = Held(<<"lost", 0>>) \cup {Head(aggregateBox[t]).id}
        /\ Held(<<"handled", 0>>)' = Held(<<"handled", 0>>)
    BY <1>1, <1>5, HeldIs, HeldWillBe
  <2> QED
    BY <1>1, <1>2, <1>5, <2>1, <2>2, TakesPlace
<1> QED
  BY <1>2, <1>4, <1>5

\* An aggregate that ends loses what was in its mailbox.
LEMMA EndsPlace ==
  ASSUME BoxInv, PlaceInv, NEW t \in Threads, AggregateEnds(t),
         UNCHANGED <<requests, buffer, handled>>, lost' = lost \cup IdsIn(aggregateBox[t]),
         \A u \in Threads : IdsIn(entityBox'[u]) = IdsIn(entityBox[u]) /\ Distinct(entityBox'[u])
  PROVE  PlaceInv'
<1>1. /\ \A u \in Threads : u # t => aggregateBox'[u] = aggregateBox[u]
      /\ aggregateBox'[t] = <<>>
  BY DEF AggregateEnds, BoxInv
<1>2. HeldOnce'
  <2>1. /\ Held(<<"aggregate", t>>)' = Held(<<"aggregate", t>>) \ IdsIn(aggregateBox[t])
        /\ Held(<<"lost", 0>>)' = Held(<<"lost", 0>>) \cup IdsIn(aggregateBox[t])
        /\ IdsIn(aggregateBox[t]) \subseteq Held(<<"aggregate", t>>)
    BY <1>1, HeldIs, HeldWillBe, IdsEmpty
  <2>2. \A z \in Place : z # <<"aggregate", t>> /\ z # <<"lost", 0>> => Held(z)' = Held(z)
    BY <1>1, HeldIs, HeldWillBe, Places
  <2>3. /\ HeldOnce /\ <<"aggregate", t>> \in Place /\ <<"lost", 0>> \in Place
        /\ <<"aggregate", t>> # <<"lost", 0>>
    BY Places DEF PlaceInv
  <2> QED
    BY <2>1, <2>2, <2>3, Moves
<1> QED
  BY <1>1, <1>2, IdsEmpty DEF PlaceInv

LEMMA FailsPlace ==
  ASSUME BoxInv, PlaceInv, NEW t \in Threads, AggregateFails(t) \/ AggregateTerminated(t)
  PROVE  PlaceInv'
<1>1. /\ AggregateEnds(t) /\ lost' = lost \cup IdsIn(aggregateBox[t])
      /\ UNCHANGED <<requests, buffer, entityBox, handled>>
  BY DEF AggregateFails, AggregateTerminated, shardVars, entityVars
<1>2. \A u \in Threads : IdsIn(entityBox'[u]) = IdsIn(entityBox[u]) /\ Distinct(entityBox'[u])
  BY <1>1 DEF PlaceInv
<1> QED
  BY <1>1, <1>2, EndsPlace

LEMMA StopPlace ==
  ASSUME BoxInv, NothingBehindStop, PlaceInv, NEW t \in Threads, UnhandledStop(t)
  PROVE  PlaceInv'
<1>1. /\ entityBox[t] # <<>> /\ Head(entityBox[t]).type = "StopThread"
      /\ entityBox' = [entityBox EXCEPT ![t] = Tail(entityBox[t])]
      /\ AggregateEnds(t)
      /\ lost' = lost \cup IdsIn(Tail(entityBox[t])) \cup IdsIn(aggregateBox[t])
      /\ UNCHANGED <<requests, buffer, handled>>
  BY DEF UnhandledStop, Receives, shardVars
<1>2. /\ entityBox[t] \in Seq(Mail(requests)) /\ Head(entityBox[t]) \in Mail(requests)
      /\ Distinct(entityBox[t])
  BY <1>1 DEF BoxInv, PlaceInv
<1>3. Head(entityBox[t]) = StopThread
  BY <1>1, <1>2 DEF Mail, Sent, ReceiveTimeout
<1>4. 1 \in DOMAIN entityBox[t] /\ entityBox[t][1] = StopThread
  BY <1>1, <1>2, <1>3
<1>5. Len(entityBox[t]) = 1
  BY <1>4 DEF NothingBehindStop
<1>6. Tail(entityBox[t]) \in Seq(Mail(requests)) /\ Len(Tail(entityBox[t])) = 0
  BY <1>1, <1>2, <1>5
<1>7. IdsIn(Tail(entityBox[t])) = {}
  BY <1>6, IdsEmpty, LenZero
<1>8. lost' = lost \cup IdsIn(aggregateBox[t])
  BY <1>1, <1>7
<1>9. /\ IdsIn(Tail(entityBox[t])) = IdsIn(entityBox[t]) /\ Distinct(Tail(entityBox[t]))
  BY <1>1, <1>2, IdsTail
<1>10. /\ entityBox'[t] = Tail(entityBox[t])
       /\ \A u \in Threads : u # t => entityBox'[u] = entityBox[u]
  BY <1>1 DEF BoxInv
<1>11. \A u \in Threads : IdsIn(entityBox'[u]) = IdsIn(entityBox[u]) /\ Distinct(entityBox'[u])
  BY <1>9, <1>10 DEF PlaceInv
<1> QED
  BY <1>1, <1>8, <1>11, EndsPlace

LEMMA PlaceInvHolds == Spec => []PlaceInv
<1>1. Init => PlaceInv
  <2> SUFFICES ASSUME Init PROVE PlaceInv
    OBVIOUS
  <2>1. /\ requests = 0 /\ handled = {} /\ lost = {}
        /\ \A t \in Threads : buffer[t] = <<>> /\ entityBox[t] = <<>> /\ aggregateBox[t] = <<>>
    BY DEF Init
  <2>2. \A x \in Place : Held(x) = {}
    BY <2>1, HeldIs, Places, IdsEmpty
  <2> QED
    BY <2>1, <2>2, IdsEmpty DEF PlaceInv, HeldOnce
<1>2. BoxInv /\ NothingBehindStop /\ GoneInv /\ PlaceInv /\ [Next]_vars => PlaceInv'
  <2> SUFFICES ASSUME BoxInv, NothingBehindStop, GoneInv, PlaceInv, [Next]_vars PROVE PlaceInv'
    OBVIOUS
  <2>1. ASSUME NEW t \in Threads, ByThread(t) PROVE PlaceInv'
    BY <2>1, RequestPlace, ShardPassivatesPlace, TerminatedPlace, ForwardPlace, TimeoutPlace,
       StopPlace, HandlesPlace, TimesOutPlace, ChildFailsPlace, FailsPlace DEF ByThread, ThreadStep
  <2>2. CASE UpdaterStep \/ ShardedUpdaterPassivates \/ UNCHANGED vars
    <3>1. UNCHANGED <<requests, buffer, entityBox, aggregateBox, handled, lost>>
      BY <2>2 DEF UpdaterStep, RouterForwards, UpdaterReceives, ShardedUpdaterReceives,
                  ShardedUpdaterPassivates, shardVars, entityVars, aggregateVars, vars
    <3>2. \A u \in Threads : IdsIn(entityBox'[u]) = IdsIn(entityBox[u]) /\ Distinct(entityBox'[u])
      BY <3>1 DEF PlaceInv
    <3> QED
      BY <3>1, <3>2, StaysPlaceEntity
  <2> QED
    BY <2>1, <2>2 DEF Next, ByThread
<1> QED
  BY <1>1, <1>2, BoxInvHolds, GoneInvHolds, PTL DEF Spec

(***************************************************************************)
(* Every request sent is handled, lost with an actor that stopped or still *)
(* waiting, and only one of these: no step of the shard, the entity or the *)
(* aggregate drops one or duplicates it.  Each step takes some requests    *)
(* from one place to one other (Moves), which needs that an entity that    *)
(* has terminated left its mailbox empty (GoneInv, NothingBehindStop).     *)
(***************************************************************************)
THEOREM EveryRequestAccounted == Spec => []NoneUnaccounted
<1>1. BoxInv /\ PlaceInv => NoneUnaccounted
  <2> SUFFICES ASSUME BoxInv, PlaceInv PROVE NoneUnaccounted
    OBVIOUS
  <2> DEFINE waiting == UNION {Waiting(t) : t \in Threads}
  <2>1. \A i : i \in waiting <=> \E t \in Threads : i \in Waiting(t)
    OBVIOUS
  <2>2. \A i, t : i \in Waiting(t) <=>
          i \in IdsIn(buffer[t]) \/ i \in IdsIn(entityBox[t]) \/ i \in IdsIn(aggregateBox[t])
    BY DEF Waiting
  <2> HIDE DEF waiting
  <2>3. \A i : i \in waiting <=>
          \E t \in Threads : \/ i \in Held(<<"buffer", t>>) \/ i \in Held(<<"entity", t>>)
                             \/ i \in Held(<<"aggregate", t>>)
    <3>1. ASSUME NEW i, NEW t
          PROVE  i \in Waiting(t) <=> \/ i \in Held(<<"buffer", t>>) \/ i \in Held(<<"entity", t>>)
                                       \/ i \in Held(<<"aggregate", t>>)
      <4>1. /\ Held(<<"buffer", t>>) = IdsIn(buffer[t]) /\ Held(<<"entity", t>>) = IdsIn(entityBox[t])
            /\ Held(<<"aggregate", t>>) = IdsIn(aggregateBox[t])
        BY HeldIs
      <4> QED
        BY <2>2, <4>1
    <3> QED
      BY <2>1, <3>1
  <2>4. /\ \A i \in 1 .. requests : \E x \in Place : i \in Held(x)
        /\ \A x \in Place : Held(x) \subseteq 1 .. requests
        /\ \A x, y \in Place : x # y => Held(x) \cap Held(y) = {}
    BY HeldWereSent DEF PlaceInv, HeldOnce
  <2>5. handled = Held(<<"handled", 0>>) /\ lost = Held(<<"lost", 0>>)
    BY HeldIs
  <2>6. ASSUME NEW i \in 1 .. requests PROVE i \in handled \/ i \in lost \/ i \in waiting
    BY <2>3, <2>4, <2>5, Places
  <2>7. handled \cup lost \subseteq 1 .. requests /\ waiting \subseteq 1 .. requests
    BY <2>3, <2>4, <2>5, Places
  <2>8. handled \cap lost = {}
    <3>1. <<"handled", 0>> # <<"lost", 0>>
      OBVIOUS
    <3> QED
      BY <2>4, <2>5, <3>1, Places
  <2>9. ASSUME NEW x \in {<<"handled", 0>>, <<"lost", 0>>}, NEW i \in Held(x) PROVE i \notin waiting
    <3>1. x \in Place
      BY Places
    <3>2. \A t \in Threads : x # <<"buffer", t>> /\ x # <<"entity", t>> /\ x # <<"aggregate", t>>
      OBVIOUS
    <3> QED
      BY <2>3, <2>4, <2>9, <3>1, <3>2, Places
  <2>10. /\ handled \cup lost \cup waiting = 1 .. requests
        /\ handled \cap lost = {} /\ handled \cap waiting = {} /\ lost \cap waiting = {}
    BY <2>5, <2>6, <2>7, <2>8, <2>9
  <2> QED
    BY <2>10 DEF NoneUnaccounted, waiting
<1> QED
  BY <1>1, BoxInvHolds, PlaceInvHolds, PTL

-----------------------------------------------------------------------------
(* Nobody is held back for ever.                                           *)

\* No action changes what is kept for more than one thread.
LEMMA OneHeld ==
  ASSUME NobodyHeldBack, NEW t \in Threads,
         \A u \in Threads : u # t =>
           /\ aggregateBox'[u] = aggregateBox[u] /\ entityBox'[u] = entityBox[u]
           /\ buffer'[u] = buffer[u] /\ shard'[u] = shard[u]
           /\ u \in aggregates' <=> u \in aggregates
           /\ u \in childless' <=> u \in childless
           /\ u \in stuck' <=> u \in stuck
           /\ u \in entities' <=> u \in entities,
         BoxesAlive(t)', HeldForStop(t)'
  PROVE  NobodyHeldBack'
<1> SUFFICES ASSUME NEW u \in Threads PROVE BoxesAlive(u)' /\ HeldForStop(u)'
  BY DEF NobodyHeldBack
<1>1. CASE u = t
  BY <1>1
<1>2. CASE u # t
  BY <1>2 DEF NobodyHeldBack, BoxesAlive, HeldForStop
<1> QED
  BY <1>1, <1>2

\* A message that is not the head stays when the head is taken, and when more come.
LEMMA MessageStays ==
  ASSUME NEW S, NEW box \in Seq(S), NEW m, \E i \in DOMAIN box : box[i] = m
  PROVE  /\ box # <<>> /\ Head(box) # m => \E i \in DOMAIN Tail(box) : Tail(box)[i] = m
         /\ \A more : \E i \in DOMAIN Append(box, more) : Append(box, more)[i] = m
<1>1. PICK i \in 1 .. Len(box) : box[i] = m
  BY LenProperties
<1>2. ASSUME box # <<>>, Head(box) # m PROVE \E j \in DOMAIN Tail(box) : Tail(box)[j] = m
  <2>1. /\ Len(box) \in Nat \ {0} /\ DOMAIN box = 1 .. Len(box) /\ box[1] = Head(box)
        /\ DOMAIN Tail(box) = 1 .. Len(box) - 1
        /\ \A j \in 1 .. Len(box) - 1 : Tail(box)[j] = box[j + 1]
    BY <1>2, HeadTailProperties, LenProperties
  <2>2. i # 1
    BY <1>1, <1>2, <2>1
  <2>3. i - 1 \in 1 .. Len(box) - 1 /\ (i - 1) + 1 = i
    BY <2>1, <2>2
  <2> QED
    BY <1>1, <2>1, <2>3
<1>3. ASSUME NEW more PROVE \E j \in DOMAIN Append(box, more) : Append(box, more)[j] = m
  <2>1. i \in DOMAIN Append(box, more) /\ Append(box, more)[i] = box[i]
    OBVIOUS
  <2> QED
    BY <1>1, <2>1
<1> QED
  BY <1>2, <1>3

\* A message that has come is there.
LEMMA MessageThere ==
  ASSUME NEW S, NEW box \in Seq(S), NEW m
  PROVE  \E i \in DOMAIN Append(box, m) : Append(box, m)[i] = m
<1>1. Len(box) + 1 \in DOMAIN Append(box, m) /\ Append(box, m)[Len(box) + 1] = m
  OBVIOUS
<1> QED
  BY <1>1

LEMMA RequestHeld ==
  ASSUME BoxInv, NobodyHeldBack, NEW t \in Threads, Request(t)
  PROVE  NobodyHeldBack'
<1>1. UNCHANGED <<aggregates, aggregateBox, childless, stuck>> /\ BoxesAlive(t) /\ HeldForStop(t)
  BY DEF Request, aggregateVars, childVars, NobodyHeldBack
<1>2. CASE shard[t] = "passivating"
  <2>1. /\ UNCHANGED <<shard, entities, entityBox>>
        /\ \A u \in Threads : u # t => buffer'[u] = buffer[u]
    BY <1>2 DEF Request, entityVars, BoxInv
  <2>2. BoxesAlive(t)' /\ HeldForStop(t)'
    BY <1>1, <1>2, <2>1 DEF BoxesAlive, HeldForStop
  <2> QED
    BY <1>1, <2>1, <2>2, OneHeld
<1>3. CASE shard[t] # "passivating"
  <2>1. /\ shard' = [shard EXCEPT ![t] = "active"] /\ entities' = entities \cup {t}
        /\ buffer' = buffer
        /\ \A u \in Threads : u # t => entityBox'[u] = entityBox[u]
    BY <1>3 DEF Request, BoxInv
  <2>2. shard'[t] = "active" /\ \A u \in Threads : u # t => shard'[u] = shard[u]
    BY <2>1 DEF BoxInv
  <2>3. BoxesAlive(t)' /\ HeldForStop(t)'
    BY <1>1, <1>3, <2>1, <2>2 DEF BoxesAlive, HeldForStop
  <2> QED
    BY <1>1, <2>1, <2>2, <2>3, OneHeld
<1> QED
  BY <1>2, <1>3

LEMMA ShardPassivatesHeld ==
  ASSUME BoxInv, NobodyHeldBack, NEW t \in Threads, ShardPassivates(t)
  PROVE  NobodyHeldBack'
<1>1. /\ UNCHANGED <<buffer, entities, aggregates, aggregateBox, childless, stuck>>
      /\ BoxesAlive(t) /\ HeldForStop(t)
  BY DEF ShardPassivates, aggregateVars, childVars, NobodyHeldBack
<1>2. CASE shard[t] # "active"
  BY <1>1, <1>2 DEF ShardPassivates, NobodyHeldBack, BoxesAlive, HeldForStop
<1>3. CASE shard[t] = "active"
  <2> DEFINE box == Append(entityBox[t], StopThread)
  <2>1. /\ shard' = [shard EXCEPT ![t] = "passivating"]
        /\ entityBox' = [entityBox EXCEPT ![t] = box]
    BY <1>3 DEF ShardPassivates
  <2>2. /\ shard'[t] = "passivating" /\ entityBox'[t] = box
        /\ \A u \in Threads : u # t => shard'[u] = shard[u] /\ entityBox'[u] = entityBox[u]
    BY <2>1 DEF BoxInv
  <2>3. \E i \in DOMAIN box : box[i] = StopThread
    <3>1. entityBox[t] \in Seq(Mail(requests))
      BY DEF BoxInv
    <3> QED
      BY <3>1, MessageThere
  <2>4. t \in entities'
    BY <1>1, <1>3 DEF BoxesAlive, NobodyHeldBack
  <2> QED
    BY <1>1, <2>2, <2>3, <2>4, OneHeld DEF BoxesAlive, HeldForStop
<1> QED
  BY <1>2, <1>3

LEMMA EntityTerminatedHeld ==
  ASSUME BoxInv, NobodyHeldBack, NEW t \in Threads, EntityTerminated(t)
  PROVE  NobodyHeldBack'
<1>1. /\ UNCHANGED <<aggregates, aggregateBox, childless, stuck>>
      /\ BoxesAlive(t) /\ t \notin entities
  BY DEF EntityTerminated, aggregateVars, childVars, NobodyHeldBack
<1>2. /\ entityBox'[t] = buffer[t] /\ buffer'[t] = <<>>
      /\ \A u \in Threads : u # t => entityBox'[u] = entityBox[u] /\ buffer'[u] = buffer[u]
  BY DEF EntityTerminated, BoxInv
<1>3. /\ \A u \in Threads : u # t => shard'[u] = shard[u] /\ (u \in entities' <=> u \in entities)
      /\ IF buffer[t] = <<>> THEN shard'[t] = "none" /\ t \notin entities'
                             ELSE shard'[t] = "active" /\ t \in entities'
  BY <1>1 DEF EntityTerminated, BoxInv
<1>4. BoxesAlive(t)' /\ HeldForStop(t)'
  BY <1>1, <1>2, <1>3 DEF BoxesAlive, HeldForStop
<1> QED
  BY <1>1, <1>2, <1>3, <1>4, OneHeld

LEMMA EntityHeld ==
  ASSUME BoxInv, NothingBehindStop, NobodyHeldBack, NEW t \in Threads,
         ForwardToActor(t) \/ UnhandledTimeout(t) \/ UnhandledStop(t)
  PROVE  NobodyHeldBack'
<1>1. /\ entityBox[t] \in Seq(Mail(requests)) /\ entityBox[t] # <<>>
      /\ entityBox'[t] = Tail(entityBox[t])
      /\ \A u \in Threads : u # t => entityBox'[u] = entityBox[u]
  BY DEF ForwardToActor, UnhandledTimeout, UnhandledStop, Receives, BoxInv
<1>2. UNCHANGED <<shard, buffer>> /\ BoxesAlive(t) /\ HeldForStop(t) /\ t \in entities
  BY <1>1 DEF ForwardToActor, UnhandledTimeout, UnhandledStop, shardVars, NobodyHeldBack, BoxesAlive
<1>3. ASSUME Head(entityBox[t]).type # "StopThread", entities' = entities PROVE HeldForStop(t)'
  <2>1. Head(entityBox[t]) # StopThread
    BY <1>3 DEF StopThread
  <2>2. ASSUME \E i \in DOMAIN entityBox[t] : entityBox[t][i] = StopThread
        PROVE  \E i \in DOMAIN entityBox'[t] : entityBox'[t][i] = StopThread
    <3> DEFINE box == entityBox[t]
    <3>1. /\ box \in Seq(Mail(requests)) /\ box # <<>> /\ Head(box) # StopThread
          /\ \E i \in DOMAIN box : box[i] = StopThread
          /\ entityBox'[t] = Tail(box)
      BY <1>1, <2>1, <2>2
    <3> HIDE DEF box
    <3>2. \E i \in DOMAIN Tail(box) : Tail(box)[i] = StopThread
      BY <3>1, MessageStays, ZenonT(30)
    <3> QED
      BY <3>1, <3>2
  <2> QED
    BY <1>1, <1>2, <1>3, <2>2 DEF HeldForStop
<1>4. CASE ForwardToActor(t)
  <2>1. /\ Head(entityBox[t]).type # "StopThread" /\ UNCHANGED <<entities, childless, stuck>>
        /\ aggregates' = aggregates \cup {t}
        /\ aggregateBox'[t] = Append(aggregateBox[t], Head(entityBox[t]))
        /\ \A u \in Threads : u # t => aggregateBox'[u] = aggregateBox[u]
    BY <1>4 DEF ForwardToActor, Receives, childVars, BoxInv
  <2>2. aggregateBox[t] \in Seq(Letters(requests))
    BY DEF BoxInv
  <2>3. BoxesAlive(t)'
    <3>1. t \in childless \ stuck =>
            \E i \in DOMAIN aggregateBox'[t] : aggregateBox'[t][i] = Terminated
      BY <1>2, <2>1, <2>2, MessageStays DEF BoxesAlive
    <3> QED
      BY <1>2, <2>1, <3>1 DEF BoxesAlive
  <2> QED
    BY <1>1, <1>2, <1>3, <2>1, <2>3, OneHeld
<1>5. CASE UnhandledTimeout(t)
  <2>1. /\ Head(entityBox[t]).type # "StopThread"
        /\ UNCHANGED <<entities, aggregates, aggregateBox, childless, stuck>>
    BY <1>5 DEF UnhandledTimeout, Receives, aggregateVars, childVars
  <2>2. BoxesAlive(t)'
    BY <1>2, <2>1 DEF BoxesAlive
  <2> QED
    BY <1>1, <1>2, <1>3, <2>1, <2>2, OneHeld
<1>6. CASE UnhandledStop(t)
  <2>1. /\ entities' = entities \ {t} /\ aggregates' = aggregates \ {t}
        /\ childless' = childless \ {t} /\ stuck' = stuck \ {t}
        /\ aggregateBox'[t] = <<>>
        /\ \A u \in Threads : u # t => aggregateBox'[u] = aggregateBox[u]
    BY <1>6 DEF UnhandledStop, AggregateEnds, BoxInv
  <2>2. entityBox'[t] = <<>> /\ shard[t] = "passivating"
    <3>1. Head(entityBox[t]) \in Mail(requests) /\ Head(entityBox[t]).type = "StopThread"
      BY <1>1, <1>6, HeadTailProperties DEF UnhandledStop, Receives
    <3>2. Head(entityBox[t]) = StopThread
      BY <3>1 DEF Mail, Sent, ReceiveTimeout, StopThread
    <3>3. 1 \in DOMAIN entityBox[t] /\ entityBox[t][1] = StopThread
      BY <1>1, <3>2, HeadTailProperties, LenProperties
    <3>4. Len(entityBox[t]) = 1 /\ shard[t] = "passivating"
      BY <3>3 DEF NothingBehindStop
    <3>5. Tail(entityBox[t]) \in Seq(Mail(requests)) /\ Len(Tail(entityBox[t])) = 0
      BY <1>1, <3>4, HeadTailProperties
    <3> QED
      BY <1>1, <3>4, <3>5, EmptySeq
  <2>3. BoxesAlive(t)' /\ HeldForStop(t)'
    BY <1>2, <2>1, <2>2 DEF BoxesAlive, HeldForStop
  <2> QED
    BY <1>1, <1>2, <2>1, <2>3, OneHeld
<1> QED
  BY <1>4, <1>5, <1>6

LEMMA AggregateHeld ==
  ASSUME BoxInv, NobodyHeldBack, NEW t \in Threads,
         \/ AggregateHandles(t) \/ AggregateLoses(t) \/ AggregateTerminated(t)
         \/ ChildFails(t) \/ AggregateFails(t)
  PROVE  NobodyHeldBack'
<1>1. /\ UNCHANGED <<shard, buffer, entities, entityBox>> /\ BoxesAlive(t) /\ HeldForStop(t)
      /\ \A u \in Threads : u # t => aggregateBox'[u] = aggregateBox[u]
  BY DEF AggregateHandles, AggregateLoses, AggregateTerminated, ChildFails, AggregateFails,
         AggregateEnds, shardVars, entityVars, NobodyHeldBack, BoxInv
<1>2. HeldForStop(t)'
  BY <1>1 DEF HeldForStop
<1>3. aggregateBox[t] \in Seq(Letters(requests))
  BY DEF BoxInv
<1>4. CASE AggregateHandles(t)
  <2>1. aggregateBox[t] # <<>> /\ t \notin childless /\ UNCHANGED <<aggregates, childless, stuck>>
    BY <1>4 DEF AggregateHandles, Takes, childVars
  <2>2. BoxesAlive(t)'
    BY <1>1, <2>1 DEF BoxesAlive
  <2> QED
    BY <1>1, <1>2, <2>1, <2>2, OneHeld
<1>5. CASE AggregateLoses(t)
  <2>1. /\ aggregateBox[t] # <<>> /\ Head(aggregateBox[t]).type = "request"
        /\ aggregateBox'[t] = Tail(aggregateBox[t]) /\ t \in childless \ stuck
        /\ UNCHANGED <<aggregates, childless>> /\ stuck' \in {stuck, stuck \cup {t}}
    BY <1>5 DEF AggregateLoses, Takes, BoxInv
  <2>2. Head(aggregateBox[t]) # Terminated
    BY <2>1 DEF Terminated
  <2>3. \E i \in DOMAIN aggregateBox'[t] : aggregateBox'[t][i] = Terminated
    <3>1. \E i \in DOMAIN aggregateBox[t] : aggregateBox[t][i] = Terminated
      BY <1>1, <2>1 DEF BoxesAlive
    <3>2. \E i \in DOMAIN Tail(aggregateBox[t]) : Tail(aggregateBox[t])[i] = Terminated
      BY <1>3, <2>1, <2>2, <3>1, MessageStays, ZenonT(30)
    <3> QED
      BY <2>1, <3>2
  <2>4. BoxesAlive(t)'
    BY <1>1, <2>1, <2>3 DEF BoxesAlive
  <2> QED
    BY <1>1, <1>2, <2>1, <2>4, OneHeld
<1>6. CASE AggregateTerminated(t) \/ AggregateFails(t)
  <2>1. /\ aggregates' = aggregates \ {t} /\ aggregateBox'[t] = <<>>
        /\ childless' = childless \ {t} /\ stuck' = stuck \ {t}
    BY <1>6 DEF AggregateTerminated, AggregateFails, AggregateEnds, BoxInv
  <2>2. BoxesAlive(t)'
    BY <1>1, <2>1 DEF BoxesAlive
  <2> QED
    BY <1>1, <1>2, <2>1, <2>2, OneHeld
<1>7. CASE ChildFails(t)
  <2>1. /\ t \in aggregates /\ aggregates' = aggregates /\ childless' = childless \cup {t}
        /\ stuck' \in {stuck, stuck \cup {t}}
    BY <1>7 DEF ChildFails
  <2>2. \/ aggregateBox'[t] = Append(aggregateBox[t], Terminated)
        \/ /\ Tail(aggregateBox[t]) \in Seq(Letters(requests))
           /\ aggregateBox'[t] = Append(Tail(aggregateBox[t]), Terminated)
    BY <1>7, TakesBox DEF ChildFails, BoxInv
  <2>3. \E i \in DOMAIN aggregateBox'[t] : aggregateBox'[t][i] = Terminated
    BY <1>3, <2>2, MessageThere
  <2>4. BoxesAlive(t)'
    BY <1>1, <2>1, <2>3 DEF BoxesAlive
  <2> QED
    BY <1>1, <1>2, <2>1, <2>4, OneHeld
<1> QED
  BY <1>4, <1>5, <1>6, <1>7

LEMMA TimesOutHeld ==
  ASSUME BoxInv, NobodyHeldBack, NEW t \in Threads, EntityTimesOut(t)
  PROVE  NobodyHeldBack'
<1>1. /\ UNCHANGED <<shard, buffer, entities, aggregates, aggregateBox, childless, stuck>>
      /\ BoxesAlive(t) /\ HeldForStop(t)
  BY DEF EntityTimesOut, shardVars, aggregateVars, childVars, NobodyHeldBack
<1>2. /\ t \in entities /\ entityBox[t] = <<>>
      /\ \A u \in Threads : u # t => entityBox'[u] = entityBox[u]
  BY DEF EntityTimesOut, BoxInv
<1>3. shard[t] # "passivating"
  BY <1>1, <1>2 DEF HeldForStop
<1>4. BoxesAlive(t)' /\ HeldForStop(t)'
  BY <1>1, <1>2, <1>3 DEF BoxesAlive, HeldForStop
<1> QED
  BY <1>1, <1>2, <1>4, OneHeld

LEMMA HeldBackHolds == Spec => [](BoxInv /\ NobodyHeldBack)
<1>1. Init => NobodyHeldBack
  BY DEF Init, NobodyHeldBack, BoxesAlive, HeldForStop
<1>2. BoxInv /\ NothingBehindStop /\ NobodyHeldBack /\ [Next]_vars => NobodyHeldBack'
  <2> SUFFICES ASSUME BoxInv, NothingBehindStop, NobodyHeldBack, [Next]_vars PROVE NobodyHeldBack'
    OBVIOUS
  <2>1. ASSUME NEW t \in Threads, ByThread(t) PROVE NobodyHeldBack'
    BY <2>1, RequestHeld, ShardPassivatesHeld, EntityTerminatedHeld, EntityHeld, AggregateHeld,
       TimesOutHeld DEF ByThread, ThreadStep
  <2>2. CASE UpdaterStep \/ ShardedUpdaterPassivates \/ UNCHANGED vars
    <3>1. UNCHANGED <<shard, buffer, entities, entityBox, aggregates, aggregateBox, childless, stuck>>
      BY <2>2 DEF UpdaterStep, RouterForwards, UpdaterReceives, ShardedUpdaterReceives,
                  ShardedUpdaterPassivates, shardVars, entityVars, aggregateVars, childVars, vars
    <3> QED
      BY <3>1 DEF NobodyHeldBack, BoxesAlive, HeldForStop
  <2> QED
    BY <2>1, <2>2 DEF Next, ByThread
<1> QED
  BY <1>1, <1>2, BoxInvHolds, PTL DEF Spec

(***************************************************************************)
(* A shard that holds requests back waits for an entity that is gone or    *)
(* has the StopThread before it, no mailbox of a dead actor holds anything *)
(* and an aggregate that goes on without its child has its Terminated      *)
(* still before it or waits for the child's answer, for any number of      *)
(* threads, requests, timeouts and failures.                               *)
(***************************************************************************)
THEOREM ShardWaitsForTheStopped == Spec => []NobodyHeldBack
<1> QED
  BY HeldBackHolds, PTL

-----------------------------------------------------------------------------
(* The order of the requests under way.                                    *)

\* A part cut out leaves the rest in order.
LEMMA AscendingCut ==
  ASSUME NEW S, NEW a \in Seq(S), NEW x \in Seq(S), NEW b \in Seq(S), Ascending(a \o (x \o b))
  PROVE  Ascending(a \o b)
<1> DEFINE q == a \o (x \o b)
           r == a \o b
           at(i) == IF i <= Len(a) THEN i ELSE i + Len(x)
<1>1. Len(a) \in Nat /\ Len(x) \in Nat /\ Len(b) \in Nat
  BY LenProperties
<1>2. /\ x \o b \in Seq(S) /\ Len(x \o b) = Len(x) + Len(b)
      /\ \A i \in 1 .. Len(x) + Len(b) : (x \o b)[i] = IF i <= Len(x) THEN x[i] ELSE b[i - Len(x)]
  BY ConcatProperties
<1>3. /\ DOMAIN q = 1 .. Len(a) + (Len(x) + Len(b))
      /\ \A i \in 1 .. Len(a) + (Len(x) + Len(b)) :
           q[i] = IF i <= Len(a) THEN a[i] ELSE (x \o b)[i - Len(a)]
  BY <1>2, ConcatProperties, LenProperties
<1>4. /\ DOMAIN r = 1 .. Len(a) + Len(b)
      /\ \A i \in 1 .. Len(a) + Len(b) : r[i] = IF i <= Len(a) THEN a[i] ELSE b[i - Len(a)]
  BY ConcatProperties, LenProperties
<1>5. Ascending(q)
  OBVIOUS
<1> HIDE DEF q, r
<1>6. ASSUME NEW i \in DOMAIN r PROVE at(i) \in DOMAIN q /\ q[at(i)] = r[i]
  <2>1. CASE i <= Len(a)
    BY <1>1, <1>3, <1>4, <2>1
  <2>2. CASE i > Len(a)
    <3>1. /\ i + Len(x) \in DOMAIN q /\ ~(i + Len(x) <= Len(a)) /\ ~(i <= Len(a))
          /\ (i + Len(x)) - Len(a) \in 1 .. Len(x) + Len(b)
          /\ ~((i + Len(x)) - Len(a) <= Len(x)) /\ ((i + Len(x)) - Len(a)) - Len(x) = i - Len(a)
      BY <1>1, <1>3, <1>4, <2>2
    <3>2. (x \o b)[(i + Len(x)) - Len(a)] = b[i - Len(a)]
      BY <1>2, <3>1
    <3>3. q[i + Len(x)] = b[i - Len(a)]
      <4> DEFINE k == i + Len(x)
      <4>1. k \in 1 .. Len(a) + (Len(x) + Len(b)) /\ ~(k <= Len(a))
        BY <1>3, <3>1
      <4> HIDE DEF k
      <4>2. q[k] = (x \o b)[k - Len(a)]
        BY <1>3, <4>1
      <4> QED
        BY <3>2, <4>2 DEF k
    <3>4. r[i] = b[i - Len(a)]
      BY <1>4, <3>1
    <3> QED
      BY <2>2, <3>1, <3>3, <3>4
  <2> QED
    BY <1>1, <1>4, <2>1, <2>2
<1>7. \A i, j \in DOMAIN r : i < j => at(i) < at(j)
  BY <1>1, <1>4
<1> HIDE DEF at
<1>8. Ascending(r)
  BY <1>5, <1>6, <1>7 DEF Ascending
<1> QED
  BY <1>8 DEF r

\* A message behind the others, which is no request or a later one.
LEMMA AscendingMore ==
  ASSUME NEW S, NEW q \in Seq(S), NEW m \in S, Ascending(q),
         m.type = "request" => \A i \in DOMAIN q : q[i].type = "request" => q[i].id < m.id
  PROVE  Ascending(Append(q, m))
<1> DEFINE r == Append(q, m)
<1>1. /\ Len(q) \in Nat /\ DOMAIN q = 1 .. Len(q) /\ DOMAIN r = 1 .. Len(q) + 1
      /\ r[Len(q) + 1] = m /\ \A i \in 1 .. Len(q) : r[i] = q[i]
  BY AppendProperties, LenProperties
<1> HIDE DEF r
<1>2. ASSUME NEW i \in DOMAIN r, NEW j \in DOMAIN r, i < j,
             r[i].type = "request", r[j].type = "request"
      PROVE  r[i].id < r[j].id
  <2>1. i \in 1 .. Len(q) /\ (j \in 1 .. Len(q) \/ j = Len(q) + 1)
    BY <1>1, <1>2
  <2> QED
    BY <1>1, <1>2, <2>1 DEF Ascending
<1>3. Ascending(r)
  BY <1>2 DEF Ascending
<1> QED
  BY <1>3 DEF r

LEMMA HeadFirst ==
  ASSUME NEW S, NEW s \in Seq(S), s # <<>>
  PROVE  /\ <<Head(s)>> \in Seq(S) /\ Tail(s) \in Seq(S) /\ Head(s) \in S
         /\ s = <<Head(s)>> \o Tail(s)
<1>1. /\ Head(s) \in S /\ Tail(s) \in Seq(S) /\ Len(Tail(s)) = Len(s) - 1
      /\ \A i \in 1 .. Len(s) - 1 : Tail(s)[i] = s[i + 1]
      /\ Len(s) \in Nat \ {0} /\ Head(s) = s[1]
  BY HeadTailProperties, LenProperties
<1> DEFINE h == <<Head(s)>>
           r == h \o Tail(s)
<1>2. h \in Seq(S) /\ Len(h) = 1 /\ h[1] = Head(s)
  BY <1>1
<1> HIDE DEF h
<1>3. /\ r \in Seq(S) /\ Len(r) = Len(s)
      /\ \A i \in 1 .. Len(s) : r[i] = IF i <= 1 THEN h[i] ELSE Tail(s)[i - 1]
  <2>1. /\ r \in Seq(S) /\ Len(r) = Len(h) + Len(Tail(s))
        /\ \A i \in 1 .. Len(h) + Len(Tail(s)) :
             r[i] = IF i <= Len(h) THEN h[i] ELSE Tail(s)[i - Len(h)]
    BY <1>1, <1>2, ConcatProperties
  <2>2. Len(h) + Len(Tail(s)) = Len(s)
    BY <1>1, <1>2
  <2> QED
    BY <1>2, <2>1, <2>2
<1> HIDE DEF r
<1>4. ASSUME NEW i \in 1 .. Len(s) PROVE r[i] = s[i]
  <2>1. CASE i = 1
    BY <1>1, <1>2, <1>3, <2>1
  <2>2. CASE i # 1
    <3>1. i - 1 \in 1 .. Len(s) - 1 /\ (i - 1) + 1 = i /\ ~(i <= 1)
      BY <1>1, <2>2
    <3> QED
      BY <1>1, <1>3, <3>1
  <2> QED
    BY <2>1, <2>2
<1>5. r = s
  BY <1>3, <1>4, SeqEqual
<1> QED
  BY <1>1, <1>2, <1>5 DEF h, r

\* A message in between that is no request.
LEMMA AscendingBetween ==
  ASSUME NEW S, NEW a \in Seq(S), NEW b \in Seq(S), NEW m \in S, m.type # "request", Ascending(a \o b)
  PROVE  Ascending(Append(a, m) \o b)
<1> DEFINE q == a \o b
           c == Append(a, m)
           r == c \o b
           at(i) == IF i <= Len(a) THEN i ELSE i - 1
<1>1. /\ c \in Seq(S) /\ Len(a) \in Nat /\ Len(b) \in Nat /\ Len(c) = Len(a) + 1
      /\ c[Len(a) + 1] = m /\ \A i \in 1 .. Len(a) : c[i] = a[i]
  BY AppendProperties, LenProperties
<1>2. /\ DOMAIN q = 1 .. Len(a) + Len(b)
      /\ \A i \in 1 .. Len(a) + Len(b) : q[i] = IF i <= Len(a) THEN a[i] ELSE b[i - Len(a)]
  BY ConcatProperties, LenProperties
<1> HIDE DEF c
<1>3. /\ DOMAIN r = 1 .. Len(c) + Len(b)
      /\ \A i \in 1 .. Len(c) + Len(b) : r[i] = IF i <= Len(c) THEN c[i] ELSE b[i - Len(c)]
  <2>1. c \in Seq(S)
    BY <1>1
  <2>2. /\ c \o b \in Seq(S) /\ Len(c \o b) = Len(c) + Len(b)
        /\ \A i \in 1 .. Len(c) + Len(b) : (c \o b)[i] = IF i <= Len(c) THEN c[i] ELSE b[i - Len(c)]
    BY <2>1, ConcatProperties
  <2> QED
    BY <2>2, LenProperties
<1>4. Ascending(q)
  OBVIOUS
<1> HIDE DEF q, r
<1>5. ASSUME NEW i \in DOMAIN r, r[i].type = "request" PROVE at(i) \in DOMAIN q /\ q[at(i)] = r[i]
  <2>1. CASE i <= Len(a)
    BY <1>1, <1>2, <1>3, <2>1
  <2>2. CASE i = Len(a) + 1
    BY <1>1, <1>3, <1>5, <2>2
  <2>3. CASE i > Len(a) + 1
    <3> DEFINE k == i - 1
    <3>1. /\ k \in DOMAIN q /\ ~(k <= Len(a)) /\ ~(i <= Len(c)) /\ ~(i <= Len(a))
          /\ k - Len(a) = i - Len(c) /\ i \in 1 .. Len(c) + Len(b)
      BY <1>1, <1>2, <1>3, <2>3
    <3>2. r[i] = b[i - Len(c)] /\ at(i) = k
      BY <1>3, <3>1
    <3> HIDE DEF k, at
    <3>3. q[k] = b[k - Len(a)]
      BY <1>2, <3>1
    <3> QED
      BY <3>1, <3>2, <3>3
  <2> QED
    BY <1>1, <1>3, <2>1, <2>2, <2>3
<1>6. \A i, j \in DOMAIN r : i < j /\ r[i].type = "request" /\ r[j].type = "request" => at(i) < at(j)
  <2>1. r[Len(a) + 1] = m
    BY <1>1, <1>3
  <2> QED
    BY <1>1, <1>3, <2>1
<1> HIDE DEF at
<1>7. Ascending(r)
  BY <1>4, <1>5, <1>6 DEF Ascending
<1> QED
  BY <1>7 DEF r, c

LEMMA AscendingTail ==
  ASSUME NEW S, NEW a \in Seq(S), NEW b \in Seq(S), a # <<>>, Ascending(a \o b)
  PROVE  Tail(a) \in Seq(S) /\ Ascending(Tail(a) \o b)
<1> DEFINE h == <<Head(a)>>
           y == Tail(a) \o b
<1>1. h \in Seq(S) /\ Tail(a) \in Seq(S) /\ a = h \o Tail(a)
  BY HeadFirst
<1>2. a \o b = h \o y /\ y \in Seq(S)
  BY <1>1, ConcatAssociative, ConcatProperties
<1> HIDE DEF h
<1>3. <<>> \in Seq(S) /\ y \in Seq(S) /\ h \o y \in Seq(S)
  BY <1>1, <1>2, ConcatProperties
<1> HIDE DEF y
<1>4. <<>> \o (h \o y) = h \o y /\ <<>> \o y = y
  BY <1>3, ConcatEmptySeq
<1>5. Ascending(<<>> \o (h \o y))
  BY <1>2, <1>4
<1>6. Ascending(<<>> \o y)
  BY <1>1, <1>3, <1>5, AscendingCut
<1> QED
  BY <1>1, <1>4, <1>6 DEF y

\* What is under way for t, and that an action concerns one thread only.
LEMMA BoxesOf ==
  ASSUME BoxInv, NEW t \in Threads
  PROVE  /\ aggregateBox[t] \in Seq(Post(requests)) /\ entityBox[t] \in Seq(Post(requests))
         /\ buffer[t] \in Seq(Post(requests)) /\ Underway(t) \in Seq(Post(requests))
         /\ Underway(t) = aggregateBox[t] \o (entityBox[t] \o buffer[t])
<1>1. /\ aggregateBox[t] \in Seq(Post(requests)) /\ entityBox[t] \in Seq(Post(requests))
      /\ buffer[t] \in Seq(Post(requests))
  <2>1. requests \in Nat
    BY DEF BoxInv
  <2> QED
    BY <2>1, SentIsMail DEF BoxInv
<1>2. aggregateBox[t] \o entityBox[t] \in Seq(Post(requests))
  BY <1>1, ConcatProperties
<1>3. Underway(t) \in Seq(Post(requests))
  BY <1>1, <1>2, ConcatProperties DEF Underway
<1>4. Underway(t) = aggregateBox[t] \o (entityBox[t] \o buffer[t])
  <2> DEFINE M == Post(requests)
             a == aggregateBox[t]
             e == entityBox[t]
             b == buffer[t]
  <2>1. a \in Seq(M) /\ e \in Seq(M) /\ b \in Seq(M)
    BY <1>1
  <2>2. Underway(t) = (a \o e) \o b
    BY DEF Underway
  <2> HIDE DEF M, a, e, b
  <2>3. (a \o e) \o b = a \o (e \o b)
    BY <2>1, ConcatAssociative
  <2>4. Underway(t) = a \o (e \o b)
    BY <2>2, <2>3
  <2> QED
    BY <2>4 DEF a, e, b
<1> QED
  BY <1>1, <1>3, <1>4

LEMMA OneOrder ==
  ASSUME TakenInOrder, NEW t \in Threads,
         \A u \in Threads : u # t => /\ aggregateBox'[u] = aggregateBox[u]
                                     /\ entityBox'[u] = entityBox[u] /\ buffer'[u] = buffer[u],
         Ascending(aggregateBox'[t] \o entityBox'[t] \o buffer'[t])
  PROVE  TakenInOrder'
<1> SUFFICES ASSUME NEW u \in Threads PROVE Ascending(aggregateBox'[u] \o entityBox'[u] \o buffer'[u])
  BY DEF TakenInOrder, Underway, Ascending
<1>1. CASE u = t
  BY <1>1
<1>2. CASE u # t
  BY <1>2 DEF TakenInOrder, Underway
<1> QED
  BY <1>1, <1>2

LEMMA SameOrder ==
  ASSUME TakenInOrder, UNCHANGED <<buffer, entityBox, aggregateBox>>
  PROVE  TakenInOrder'
<1> SUFFICES ASSUME NEW u \in Threads PROVE Ascending(aggregateBox'[u] \o entityBox'[u] \o buffer'[u])
  BY DEF TakenInOrder, Underway, Ascending
<1> QED
  BY DEF TakenInOrder, Underway

LEMMA RequestOrder ==
  ASSUME BoxInv, NobodyHeldBack, TakenInOrder, NEW t \in Threads, Request(t)
  PROVE  TakenInOrder'
<1> DEFINE m == RequestMsg(requests + 1)
           M == Post(requests + 1)
           a == aggregateBox[t]
           e == entityBox[t]
           b == buffer[t]
<1>1. requests \in Nat /\ m \in M /\ m.id = requests + 1
  <2>1. requests \in Nat /\ requests + 1 \in Nat
    BY DEF BoxInv
  <2>2. RequestMsg(requests + 1) \in Sent(requests + 1)
    BY <2>1, SentGrows
  <2>3. Sent(requests + 1) \subseteq Post(requests + 1)
    BY DEF Post, Mail
  <2> QED
    BY <2>1, <2>2, <2>3 DEF RequestMsg
<1>2. a \in Seq(M) /\ e \in Seq(M) /\ b \in Seq(M) /\ Underway(t) \in Seq(M)
  BY <1>1, BoxesOf, SentGrows
<1>3. \A i \in DOMAIN Underway(t) : Underway(t)[i].type = "request" => Underway(t)[i].id < requests + 1
  <2>1. \A i \in DOMAIN Underway(t) : Underway(t)[i] \in Post(requests)
    BY BoxesOf, ElementOfSeq, LenProperties
  <2>2. \A s \in Post(requests) : s.type = "request" => s.id \in 1 .. requests
    BY DEF Post, Mail, Letters, Sent, ReceiveTimeout, StopThread, Terminated
  <2> QED
    BY <1>1, <2>1, <2>2
<1>4. Ascending(Append(Underway(t), m))
  <2> HIDE DEF m, M
  <2> QED
    BY <1>1, <1>2, <1>3, AscendingMore DEF TakenInOrder
<1>5. aggregateBox' = aggregateBox
  BY DEF Request, aggregateVars
<1>6. CASE shard[t] = "passivating"
  <2>1. /\ entityBox' = entityBox /\ buffer'[t] = Append(b, m)
        /\ \A u \in Threads : u # t => buffer'[u] = buffer[u]
    BY <1>6 DEF Request, entityVars, BoxInv
  <2>2. a \o e \o Append(b, m) = Append(a \o e \o b, m)
    <3> HIDE DEF m, M, a, e, b
    <3>1. a \o e \in Seq(M) /\ <<m>> \in Seq(M) /\ (a \o e) \o b \in Seq(M)
      BY <1>1, <1>2, ConcatProperties
    <3>2. Append(b, m) = b \o <<m>> /\ Append(a \o e \o b, m) = (a \o e \o b) \o <<m>>
      BY <1>1, <1>2, <3>1, AppendIsConcat
    <3> QED
      BY <1>2, <3>1, <3>2, ConcatAssociative
  <2>3. Ascending(aggregateBox'[t] \o entityBox'[t] \o buffer'[t])
    BY <1>4, <1>5, <2>1, <2>2 DEF Underway
  <2> QED
    BY <1>5, <2>1, <2>3, OneOrder
<1>7. CASE shard[t] # "passivating"
  <2>1. /\ buffer' = buffer /\ entityBox'[t] = Append(e, m)
        /\ \A u \in Threads : u # t => entityBox'[u] = entityBox[u]
    BY <1>7 DEF Request, BoxInv
  <2>2. b = <<>>
    BY <1>7 DEF NobodyHeldBack, HeldForStop
  <2>3. a \o Append(e, m) \o b = Append(a \o e \o b, m)
    <3> HIDE DEF m, M, a, e, b
    <3>1. /\ a \o e \in Seq(M) /\ <<m>> \in Seq(M)
          /\ Append(e, m) \in Seq(M) /\ a \o Append(e, m) \in Seq(M)
      BY <1>1, <1>2, ConcatProperties, AppendProperties
    <3>2. a \o Append(e, m) \o b = a \o Append(e, m) /\ a \o e \o b = a \o e
      BY <2>2, <3>1, ConcatEmptySeq
    <3>3. Append(e, m) = e \o <<m>> /\ Append(a \o e, m) = (a \o e) \o <<m>>
      BY <1>1, <1>2, <3>1, AppendIsConcat
    <3>4. a \o (e \o <<m>>) = (a \o e) \o <<m>>
      BY <1>2, <3>1, ConcatAssociative
    <3> QED
      BY <3>2, <3>3, <3>4
  <2>4. Ascending(aggregateBox'[t] \o entityBox'[t] \o buffer'[t])
    BY <1>4, <1>5, <2>1, <2>3 DEF Underway
  <2> QED
    BY <1>5, <2>1, <2>4, OneOrder
<1> QED
  BY <1>6, <1>7

\* A message of the shard or of the clock comes to an entity nothing is held back from.
LEMMA SignalOrder ==
  ASSUME BoxInv, TakenInOrder, NEW t \in Threads, buffer[t] = <<>>,
         NEW m \in {ReceiveTimeout, StopThread},
         UNCHANGED <<aggregateBox, buffer>>,
         entityBox' = [entityBox EXCEPT ![t] = Append(entityBox[t], m)]
  PROVE  TakenInOrder'
<1> DEFINE M == Post(requests)
           a == aggregateBox[t]
           e == entityBox[t]
<1>1. m \in M /\ m.type # "request"
  BY DEF Post, Mail, ReceiveTimeout, StopThread
<1>2. a \in Seq(M) /\ e \in Seq(M)
  BY BoxesOf
<1>3. /\ entityBox'[t] = Append(e, m)
      /\ \A u \in Threads : u # t => entityBox'[u] = entityBox[u]
  BY DEF BoxInv
<1>4. Ascending(a \o e \o <<>>)
  BY DEF TakenInOrder, Underway
<1> HIDE DEF M, a, e
<1>5. a \o e \in Seq(M) /\ <<m>> \in Seq(M) /\ Append(e, m) \in Seq(M) /\ a \o Append(e, m) \in Seq(M)
  BY <1>1, <1>2, ConcatProperties, AppendProperties
<1>6. a \o e \o <<>> = a \o e /\ a \o Append(e, m) \o <<>> = a \o Append(e, m)
  BY <1>5, ConcatEmptySeq
<1>7. a \o Append(e, m) = Append(a \o e, m)
  <2>1. Append(e, m) = e \o <<m>> /\ Append(a \o e, m) = (a \o e) \o <<m>>
    BY <1>1, <1>2, <1>5, AppendIsConcat
  <2> QED
    BY <1>2, <1>5, <2>1, ConcatAssociative
<1>8. Ascending(a \o Append(e, m) \o <<>>)
  BY <1>1, <1>4, <1>5, <1>6, <1>7, AscendingMore
<1> QED
  BY <1>3, <1>8, OneOrder DEF a

LEMMA ShardOrder ==
  ASSUME BoxInv, NobodyHeldBack, TakenInOrder, NEW t \in Threads,
         ShardPassivates(t) \/ EntityTerminated(t) \/ EntityTimesOut(t)
  PROVE  TakenInOrder'
<1>1. BoxesAlive(t) /\ HeldForStop(t) /\ UNCHANGED aggregateBox
  BY DEF ShardPassivates, EntityTerminated, EntityTimesOut, aggregateVars, NobodyHeldBack
<1>2. CASE ShardPassivates(t)
  <2>1. CASE shard[t] = "active"
    BY <1>1, <1>2, <2>1, SignalOrder DEF ShardPassivates, HeldForStop
  <2>2. CASE shard[t] # "active"
    BY <1>1, <1>2, <2>2, SameOrder DEF ShardPassivates
  <2> QED
    BY <2>1, <2>2
<1>3. CASE EntityTerminated(t)
  <2>1. entityBox[t] = <<>> /\ entityBox'[t] = buffer[t] /\ buffer'[t] = <<>>
    BY <1>1, <1>3 DEF EntityTerminated, BoxesAlive, BoxInv
  <2>2. \A u \in Threads : u # t => entityBox'[u] = entityBox[u] /\ buffer'[u] = buffer[u]
    BY <1>3 DEF EntityTerminated, BoxInv
  <2>3. aggregateBox[t] \o buffer[t] \o <<>> = aggregateBox[t] \o <<>> \o buffer[t]
    <3>1. aggregateBox[t] \in Seq(Post(requests)) /\ buffer[t] \in Seq(Post(requests))
      BY BoxesOf
    <3> QED
      BY <3>1, ConcatProperties, ConcatEmptySeq
  <2>4. Ascending(aggregateBox'[t] \o entityBox'[t] \o buffer'[t])
    BY <1>1, <2>1, <2>3 DEF TakenInOrder, Underway
  <2> QED
    BY <1>1, <2>2, <2>4, OneOrder
<1>4. CASE EntityTimesOut(t)
  <2>1. /\ entityBox[t] = <<>> /\ t \in entities /\ UNCHANGED buffer
        /\ entityBox' = [entityBox EXCEPT ![t] = <<ReceiveTimeout>>]
    BY <1>4 DEF EntityTimesOut, shardVars
  <2>2. buffer[t] = <<>>
    BY <1>1, <2>1 DEF HeldForStop
  <2>3. Append(entityBox[t], ReceiveTimeout) = <<ReceiveTimeout>>
    BY <2>1
  <2> QED
    BY <1>1, <2>1, <2>2, <2>3, SignalOrder
<1> QED
  BY <1>2, <1>3, <1>4

LEMMA ForwardOrder ==
  ASSUME BoxInv, TakenInOrder, NEW t \in Threads, ForwardToActor(t)
  PROVE  TakenInOrder'
<1> DEFINE M == Post(requests)
           a == aggregateBox[t]
           e == entityBox[t]
           b == buffer[t]
<1>1. a \in Seq(M) /\ e \in Seq(M) /\ b \in Seq(M) /\ e # <<>>
  BY BoxesOf DEF ForwardToActor, Receives
<1>2. /\ entityBox'[t] = Tail(e) /\ aggregateBox'[t] = Append(a, Head(e)) /\ buffer' = buffer
      /\ \A u \in Threads : u # t => entityBox'[u] = entityBox[u] /\ aggregateBox'[u] = aggregateBox[u]
  BY DEF ForwardToActor, Receives, shardVars, BoxInv
<1>3. Append(a, Head(e)) \o Tail(e) = a \o e
  <2> HIDE DEF M, a, e
  <2>1. /\ <<Head(e)>> \in Seq(M) /\ Tail(e) \in Seq(M) /\ Head(e) \in M
        /\ e = <<Head(e)>> \o Tail(e)
    BY <1>1, HeadFirst
  <2>2. Append(a, Head(e)) = a \o <<Head(e)>>
    BY <1>1, <2>1, AppendIsConcat
  <2> QED
    BY <1>1, <2>1, <2>2, ConcatAssociative
<1>4. Ascending(aggregateBox'[t] \o entityBox'[t] \o buffer'[t])
  BY <1>2, <1>3 DEF TakenInOrder, Underway
<1> QED
  BY <1>2, <1>4, OneOrder

\* Whoever takes or loses messages takes a part out.
LEMMA CutOrder ==
  ASSUME BoxInv, TakenInOrder, NEW t \in Threads,
         \/ UnhandledTimeout(t) \/ UnhandledStop(t) \/ AggregateHandles(t) \/ AggregateLoses(t)
         \/ AggregateTerminated(t) \/ ChildFails(t) \/ AggregateFails(t)
  PROVE  TakenInOrder'
<1> DEFINE M == Post(requests)
           a == aggregateBox[t]
           e == entityBox[t]
           b == buffer[t]
<1>1. /\ a \in Seq(M) /\ e \in Seq(M) /\ b \in Seq(M) /\ e \o b \in Seq(M)
      /\ <<>> \in Seq(M) /\ Ascending(a \o (e \o b)) /\ a \o e \o b = a \o (e \o b)
  <2>1. a \in Seq(M) /\ e \in Seq(M) /\ b \in Seq(M)
    BY BoxesOf
  <2>2. Underway(t) = a \o (e \o b) /\ Ascending(Underway(t))
    BY BoxesOf DEF TakenInOrder
  <2>3. a \o e \o b = a \o (e \o b)
    BY <2>2 DEF Underway
  <2>4. e \o b \in Seq(M)
    BY <2>1, ConcatProperties
  <2>5. <<>> \in Seq(M)
    OBVIOUS
  <2> QED
    BY <2>1, <2>2, <2>3, <2>4, <2>5
<1>2. /\ buffer' = buffer
      /\ \A u \in Threads : u # t => entityBox'[u] = entityBox[u] /\ aggregateBox'[u] = aggregateBox[u]
  BY DEF UnhandledTimeout, UnhandledStop, AggregateHandles, AggregateLoses, AggregateTerminated,
         ChildFails, AggregateFails, AggregateEnds, Receives, shardVars, entityVars, aggregateVars,
         BoxInv
<1>3. ASSUME e # <<>>
      PROVE  /\ Tail(e) \in Seq(M) /\ Tail(e) \o b \in Seq(M) /\ <<Head(e)>> \in Seq(M)
             /\ e \o b = <<Head(e)>> \o (Tail(e) \o b)
  <2> HIDE DEF M, e, b
  <2>1. <<Head(e)>> \in Seq(M) /\ Tail(e) \in Seq(M) /\ e = <<Head(e)>> \o Tail(e)
    BY <1>1, <1>3, HeadFirst
  <2> QED
    BY <1>1, <2>1, ConcatAssociative, ConcatProperties
<1>4. a # <<>> => Tail(a) \in Seq(M) /\ Ascending(Tail(a) \o (e \o b))
  <2> HIDE DEF M, a, e, b
  <2> QED
    BY <1>1, AscendingTail
<1>5. CASE UnhandledTimeout(t)
  <2>1. entityBox'[t] = Tail(e) /\ e # <<>> /\ aggregateBox' = aggregateBox
    BY <1>5 DEF UnhandledTimeout, Receives, aggregateVars, BoxInv
  <2>2. Ascending(a \o (Tail(e) \o b))
    <3> HIDE DEF M, a, e, b
    <3> QED
      BY <1>1, <1>3, <2>1, AscendingCut
  <2>3. a \o Tail(e) \o b = a \o (Tail(e) \o b)
    <3> HIDE DEF M, a, e, b
    <3> QED
      BY <1>1, <1>3, <2>1, ConcatAssociative, SMTT(20)
  <2> QED
    BY <1>2, <2>1, <2>2, <2>3, OneOrder
<1>6. CASE UnhandledStop(t)
  <2>1. entityBox'[t] = Tail(e) /\ e # <<>> /\ aggregateBox'[t] = <<>>
    BY <1>6 DEF UnhandledStop, AggregateEnds, Receives, BoxInv
  <2>2. Ascending(<<>> \o Tail(e) \o b)
    <3> HIDE DEF M, a, e, b
    <3> DEFINE x == a \o <<Head(e)>>
    <3>1. x \in Seq(M) /\ a \o (e \o b) = x \o (Tail(e) \o b)
      <4> DEFINE h == <<Head(e)>>
                 y == Tail(e) \o b
      <4>1. h \in Seq(M) /\ y \in Seq(M) /\ e \o b = h \o y
        BY <1>3, <2>1
      <4>2. x = a \o h
        OBVIOUS
      <4> HIDE DEF h, y, x
      <4>3. x \in Seq(M)
        BY <1>1, <4>1, <4>2, ConcatProperties
      <4>4. a \in Seq(M) /\ h \in Seq(M) /\ y \in Seq(M)
        BY <1>1, <4>1
      <4>5. (a \o h) \o y = a \o (h \o y)
        BY <4>4, ConcatAssociative
      <4>6. x \in Seq(M) /\ a \o (e \o b) = x \o y
        BY <4>1, <4>2, <4>3, <4>5
      <4> QED
        BY <4>6 DEF y
    <3>2. x \o (Tail(e) \o b) \in Seq(M) /\ <<>> \o (x \o (Tail(e) \o b)) = x \o (Tail(e) \o b)
      BY <1>3, <2>1, <3>1, ConcatProperties, ConcatEmptySeq
    <3> HIDE DEF x
    <3>3. Ascending(<<>> \o (Tail(e) \o b))
      BY <1>1, <1>3, <2>1, <3>1, <3>2, AscendingCut
    <3> QED
      BY <1>1, <1>3, <2>1, <3>3, ConcatAssociative
  <2> QED
    BY <1>2, <2>1, <2>2, OneOrder
<1>7. CASE AggregateHandles(t) \/ AggregateLoses(t)
  <2>1. aggregateBox'[t] = Tail(a) /\ a # <<>> /\ entityBox' = entityBox
    BY <1>7 DEF AggregateHandles, AggregateLoses, Takes, entityVars, BoxInv
  <2>2. Ascending(Tail(a) \o e \o b)
    <3> HIDE DEF M, a, e, b
    <3>1. Tail(a) \in Seq(M) /\ Ascending(Tail(a) \o (e \o b))
      BY <1>4, <2>1
    <3>2. Tail(a) \o e \o b = Tail(a) \o (e \o b)
      BY <1>1, <3>1, ConcatAssociative
    <3> QED
      BY <3>1, <3>2
  <2> QED
    BY <1>2, <2>1, <2>2, OneOrder
<1>8. CASE AggregateTerminated(t) \/ AggregateFails(t)
  <2>1. aggregateBox'[t] = <<>> /\ entityBox' = entityBox
    BY <1>8 DEF AggregateTerminated, AggregateFails, AggregateEnds, entityVars, BoxInv
  <2>2. Ascending(<<>> \o e \o b)
    <3> HIDE DEF M, a, e, b
    <3>1. <<>> \o (a \o (e \o b)) = a \o (e \o b)
      BY <1>1, ConcatProperties, ConcatEmptySeq
    <3>2. Ascending(<<>> \o (e \o b))
      BY <1>1, <3>1, AscendingCut
    <3> QED
      BY <1>1, <3>2, ConcatAssociative
  <2> QED
    BY <1>2, <2>1, <2>2, OneOrder
<1>9. CASE ChildFails(t)
  <2>1. /\ entityBox' = entityBox /\ Terminated \in M /\ Terminated.type # "request"
        /\ \/ aggregateBox'[t] = Append(a, Terminated)
           \/ a # <<>> /\ aggregateBox'[t] = Append(Tail(a), Terminated)
    BY <1>9 DEF ChildFails, Takes, entityVars, BoxInv, Post, Letters, Terminated
  <2>2. ASSUME NEW x \in Seq(M), Ascending(x \o (e \o b))
        PROVE  Ascending(Append(x, Terminated) \o e \o b)
    <3> HIDE DEF M, a, e, b
    <3> DEFINE y == e \o b
               c == Append(x, Terminated)
    <3>1. y \in Seq(M) /\ Ascending(x \o y)
      BY <1>1, <2>2
    <3>2. c \in Seq(M)
      BY <2>1, AppendProperties
    <3>3. c \o e \o b = c \o y
      <4> HIDE DEF c
      <4> QED
        BY <1>1, <3>2, ConcatAssociative, SMTT(20)
    <3> HIDE DEF y
    <3>4. Ascending(c \o y)
      BY <2>1, <3>1, AscendingBetween
    <3> QED
      BY <3>3, <3>4
  <2>3. Ascending(aggregateBox'[t] \o e \o b)
    <3> HIDE DEF M, a, e, b
    <3> QED
      BY <1>1, <1>4, <2>1, <2>2
  <2> QED
    BY <1>2, <2>1, <2>3, OneOrder
<1> QED
  BY <1>5, <1>6, <1>7, <1>8, <1>9

(***************************************************************************)
(* The requests of a thread stay in the order in which they were sent on   *)
(* their way through shard, entity and aggregate, whatever times out,      *)
(* passivates, fails and starts anew.                                      *)
(***************************************************************************)
THEOREM RequestsTakenInOrder == Spec => []TakenInOrder
<1>1. Init => TakenInOrder
  <2> SUFFICES ASSUME Init PROVE TakenInOrder
    OBVIOUS
  <2>1. \A t \in Threads : Underway(t) = <<>>
    BY DEF Init, Underway
  <2> QED
    BY <2>1 DEF TakenInOrder, Ascending
<1>2. BoxInv /\ NobodyHeldBack /\ TakenInOrder /\ [Next]_vars => TakenInOrder'
  <2> SUFFICES ASSUME BoxInv, NobodyHeldBack, TakenInOrder, [Next]_vars PROVE TakenInOrder'
    OBVIOUS
  <2>1. ASSUME NEW t \in Threads, ByThread(t) PROVE TakenInOrder'
    BY <2>1, RequestOrder, ShardOrder, ForwardOrder, CutOrder DEF ByThread, ThreadStep
  <2>2. CASE UpdaterStep \/ ShardedUpdaterPassivates \/ UNCHANGED vars
    <3>1. UNCHANGED <<buffer, entityBox, aggregateBox>>
      BY <2>2 DEF UpdaterStep, RouterForwards, UpdaterReceives, ShardedUpdaterReceives,
                  ShardedUpdaterPassivates, shardVars, entityVars, aggregateVars, vars
    <3> QED
      BY <3>1, SameOrder
  <2> QED
    BY <2>1, <2>2 DEF Next, ByThread
<1> QED
  BY <1>1, <1>2, HeldBackHolds, PTL DEF Spec

=============================================================================
