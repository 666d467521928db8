--------------------- MODULE TypedPersistentThread_proofs ---------------------
(***************************************************************************)
(* When the typed aggregate can be replayed: the run typed_replay_throws   *)
(* shows a thread whose journal no longer replays, and the theorem here    *)
(* that a DestroyThread stamped level with the node's clock, or ahead of   *)
(* it, is the only way to such a journal.                                  *)
(***************************************************************************)
EXTENDS TypedPersistentThread, SequenceTheorems, TLAPS

-----------------------------------------------------------------------------
(* A thread that is not removed ignores the clock.                         *)

\* Every operation yields a thread, and only Destroy marks it as removed.
LEMMA OperationType ==
  ASSUME NEW t \in ThreadState, NEW c \in Request, IsCommand(c), c.op # "CreateThread",
         NEW at \in Int, NEW clock \in Int
  PROVE  LET r == Operation(t, c, at, clock)
         IN  /\ r.thread \in ThreadState
             /\ \/ r.thread.removedAt = t.removedAt
                \/ c.op = "DestroyThread" /\ r.thread.removedAt = at
<1> USE DEF ThreadState, Either
<1>1. /\ c.senderId \in Account /\ c.administratorIds \in SUBSET Account
      /\ c.memberIds \in SUBSET Account /\ MessagesOf(c) \in SUBSET Message
  BY DEF Request, MessagesOf, Message
<1>2. CASE c.op = "DestroyThread"
  BY <1>2 DEF Operation, Destroy
<1>3. CASE c.op = "JoinAdministratorIds"
  BY <1>1, <1>3 DEF Operation, JoinAdministratorIds
<1>4. CASE c.op = "LeaveAdministratorIds"
  BY <1>1, <1>4 DEF Operation, LeaveAdministratorIds
<1>5. CASE c.op = "JoinMemberIds"
  BY <1>1, <1>5 DEF Operation, JoinMemberIds
<1>6. CASE c.op = "LeaveMemberIds"
  BY <1>1, <1>6 DEF Operation, LeaveMemberIds
<1>7. CASE c.op = "AddMessages"
  BY <1>1, <1>7 DEF Operation, AddMessages
<1>8. CASE c.op = "RemoveMessages"
  BY <1>1, <1>8 DEF Operation, RemoveMessages
<1> QED
  BY <1>2, <1>3, <1>4, <1>5, <1>6, <1>7, <1>8 DEF IsCommand, CommandOp

\* While removedAt is None the clock is not asked for anything else.
LEMMA ClockIgnored ==
  ASSUME NEW t \in ThreadState, t.removedAt = NotRemoved,
         NEW c \in Request, IsCommand(c), c.op # "CreateThread",
         NEW at \in Int, NEW clock \in Int, NEW later \in Int
  PROVE  Operation(t, c, at, clock) = Operation(t, c, at, later)
<1>1. IsRemoved(t, clock) = IsRemoved(t, later)
  BY DEF IsRemoved
<1>2. /\ \A a : MayAdminister(t, a, clock) = MayAdminister(t, a, later)
      /\ \A a : MayRead(t, a, clock) = MayRead(t, a, later)
  BY <1>1 DEF MayAdminister, MayRead
<1>3. CASE c.op = "DestroyThread"
  BY <1>2, <1>3 DEF Operation, Destroy
<1>4. CASE c.op = "JoinAdministratorIds"
  BY <1>2, <1>4 DEF Operation, JoinAdministratorIds
<1>5. CASE c.op = "LeaveAdministratorIds"
  BY <1>2, <1>5 DEF Operation, LeaveAdministratorIds
<1>6. CASE c.op = "JoinMemberIds"
  BY <1>2, <1>6 DEF Operation, JoinMemberIds
<1>7. CASE c.op = "LeaveMemberIds"
  BY <1>2, <1>7 DEF Operation, LeaveMemberIds
<1>8. CASE c.op = "AddMessages"
  BY <1>1, <1>8 DEF Operation, AddMessages
<1>9. CASE c.op = "RemoveMessages"
  BY <1>2, <1>9 DEF Operation, RemoveMessages
<1> QED
  BY <1>3, <1>4, <1>5, <1>6, <1>7, <1>8, <1>9 DEF IsCommand, CommandOp

\* Once the clock is past removedAt every operation is refused.
LEMMA RemovedRefuses ==
  ASSUME NEW t \in ThreadState, NEW clock \in Int, t.removedAt # NotRemoved, t.removedAt < clock,
         NEW c \in Request, IsCommand(c), c.op # "CreateThread", NEW at \in Int
  PROVE  Operation(t, c, at, clock).right = FALSE
<1>1. IsRemoved(t, clock)
  BY DEF IsRemoved, ThreadState
<1> USE DEF Either
<1>2. \A a : MayAdminister(t, a, clock) = FALSE /\ MayRead(t, a, clock) = FALSE
  BY <1>1 DEF MayAdminister, MayRead
<1>3. CASE c.op = "DestroyThread"
  BY <1>2, <1>3 DEF Operation, Destroy
<1>4. CASE c.op = "JoinAdministratorIds"
  BY <1>2, <1>4 DEF Operation, JoinAdministratorIds
<1>5. CASE c.op = "LeaveAdministratorIds"
  BY <1>2, <1>5 DEF Operation, LeaveAdministratorIds
<1>6. CASE c.op = "JoinMemberIds"
  BY <1>2, <1>6 DEF Operation, JoinMemberIds
<1>7. CASE c.op = "LeaveMemberIds"
  BY <1>2, <1>7 DEF Operation, LeaveMemberIds
<1>8. CASE c.op = "AddMessages"
  BY <1>1, <1>8 DEF Operation, AddMessages
<1>9. CASE c.op = "RemoveMessages"
  BY <1>2, <1>9 DEF Operation, RemoveMessages
<1> QED
  BY <1>3, <1>4, <1>5, <1>6, <1>7, <1>8, <1>9 DEF IsCommand, CommandOp

\* The command comes back from its event.
LEMMA CommandOfEvent ==
  ASSUME NEW c \in Request, IsCommand(c), NEW i \in Nat
  PROVE  /\ ToCommandRequest(ToEvent(c, i)) = c
         /\ ToEvent(c, i).type = "ThreadDestroyed" <=> c.op = "DestroyThread"
<1>1. RequestOpOf[EventTypeOf[c.op]] = c.op
  BY DEF IsCommand, CommandOp, EventTypeOf, RequestOpOf
<1>2. EventTypeOf[c.op] = "ThreadDestroyed" <=> c.op = "DestroyThread"
  BY DEF IsCommand, CommandOp, EventTypeOf
<1>3. ToCommandRequest(ToEvent(c, i)) = c
  BY <1>1 DEF ToCommandRequest, ToEvent, Request
<1> QED
  BY <1>2, <1>3 DEF ToEvent

-----------------------------------------------------------------------------
(* The history of a thread.                                                *)

\* Clients send commands, and clocks are ahead or behind by Skew at most.
Admissible == Skew \in Nat /\ Commands \subseteq {c \in Request : IsCommand(c)}

Entry == {[event |-> ToEvent(c, i), at |-> at] : c \in Commands, i \in Nat, at \in Int}

\* The event of the entry r leads from the state s to u, whenever it is applied.
Leads(s, r, u) ==
  LET c == ToCommandRequest(r.event)
  IN  IF c.op = "CreateThread"
      THEN u = IF s = {} THEN {NewThread(c.administratorIds, c.memberIds)} ELSE s
      ELSE \A clock \in Int :
             /\ \A t \in s : Operation(t, c, r.at, clock).right
             /\ u = {Operation(t, c, r.at, clock).thread : t \in s}

\* h[k] is the state after k events, and the actor is where its mode says.
IsHistory(h) ==
  /\ h \in [0 .. Len(journal) -> SUBSET ThreadState]
  /\ h[0] = {}
  /\ \A k \in 1 .. Len(journal) : Leads(h[k - 1], journal[k], h[k])
  /\ \A k \in 0 .. Len(journal) : \A t \in h[k] :
       t.removedAt = NotRemoved \/ (k = Len(journal) /\ t.removedAt < now)
  /\ mode = "up" => state = h[Len(journal)]
  /\ mode = "recovering" => replayed <= Len(journal) /\ state = h[replayed]

(***************************************************************************)
(* The inductive invariant: whatever the clock says at a replay, it meets  *)
(* the states the thread went through, for at most the last of them is     *)
(* removed, and that was before now.                                       *)
(***************************************************************************)
ReplayInv ==
  /\ now \in Int /\ mode \in {"up", "recovering", "stopped"}
  /\ journal \in Seq(Entry) /\ replayed \in Nat
  /\ \E h : IsHistory(h)

\* No DestroyThread is persisted with a createAt level with or ahead of the clock.
DestroyedInThePast ==
  \A k \in DOMAIN journal' \ DOMAIN journal :
    journal'[k].event.type = "ThreadDestroyed" => journal'[k].at < now

\* What leads somewhere is applied without an exception, at every clock.
LEMMA LeadsApplies ==
  ASSUME NEW r, NEW u, Leads(state, r, u), NEW clock \in Int
  PROVE  Applies(r.event, r.at, clock) /\ EventHandler(r.event, r.at, clock) = u
<1> DEFINE c == ToCommandRequest(r.event)
<1>1. CASE c.op = "CreateThread"
  BY <1>1 DEF Leads, Applies, EventHandler
<1>2. CASE c.op # "CreateThread"
  BY <1>2 DEF Leads, Applies, EventHandler
<1> QED
  BY <1>1, <1>2

LEMMA InitReplayInv ==
  ASSUME Admissible, Init
  PROVE  ReplayInv
<1> DEFINE h == [k \in 0 .. 0 |-> {}]
<1>1. Len(journal) = 0 /\ journal \in Seq(Entry) /\ now \in Int /\ replayed \in Nat
  BY DEF Init, Admissible
<1>2. IsHistory(h)
  <2>1. h \in [0 .. Len(journal) -> SUBSET ThreadState]
    BY <1>1
  <2>2. h[0] = {} /\ 1 .. Len(journal) = {} /\ \A k \in 0 .. Len(journal) : h[k] = {}
    BY <1>1
  <2>3. mode = "up" /\ state = {}
    BY DEF Init
  <2> HIDE DEF h
  <2> QED
    BY <1>1, <2>1, <2>2, <2>3 DEF IsHistory
<1> QED
  BY <1>1, <1>2 DEF ReplayInv, Init

\* The state a persisted command leads to.
LEMMA PersistedLeads ==
  ASSUME Admissible, ReplayInv, NEW h, IsHistory(h), NEW c \in Commands, NEW at \in Int,
         mode = "up", Persists(c, at), now' \in {now, now + 1},
         NEW i \in Nat, Applies(ToEvent(c, i), at, now'),
         c.op = "DestroyThread" => at < now
  PROVE  LET r == [event |-> ToEvent(c, i), at |-> at]
             u == EventHandler(ToEvent(c, i), at, now')
         IN  /\ u \in SUBSET ThreadState /\ Leads(state, r, u)
             /\ \A t \in state : t.removedAt = NotRemoved
             /\ \A t \in u : t.removedAt = NotRemoved \/ t.removedAt < now'
<1> DEFINE e == ToEvent(c, i)
           r == [event |-> e, at |-> at]
           u == EventHandler(e, at, now')
<1>1. /\ c \in Request /\ IsCommand(c) /\ ToCommandRequest(e) = c
      /\ now \in Int /\ now' \in Int /\ now <= now'
  BY CommandOfEvent DEF Admissible, ReplayInv
<1>2. state = h[Len(journal)] /\ state \in SUBSET ThreadState
      /\ \A t \in state : t.removedAt = NotRemoved \/ t.removedAt < now
  BY LenProperties DEF IsHistory, ReplayInv
<1>3. CASE c.op = "CreateThread"
  <2>1. state = {} /\ u = {NewThread(c.administratorIds, c.memberIds)}
    BY <1>1, <1>3 DEF Persists, EventHandler
  <2>2. NewThread(c.administratorIds, c.memberIds) \in ThreadState
    BY <1>1 DEF NewThread, ThreadState, Request, NotRemoved
  <2>3. Leads(state, r, u)
    BY <1>1, <1>3, <2>1 DEF Leads
  <2> QED
    BY <2>1, <2>2, <2>3 DEF NewThread
<1>4. CASE c.op # "CreateThread"
  <2>1. /\ \A t \in state : Operation(t, c, at, now').right
        /\ u = {Operation(t, c, at, now').thread : t \in state}
    BY <1>1, <1>4 DEF Applies, EventHandler
  <2>2. ASSUME NEW t \in state PROVE t.removedAt = NotRemoved
    <3>1. CASE t.removedAt # NotRemoved
      <4>1. t \in ThreadState /\ t.removedAt < now'
        BY <1>1, <1>2, <3>1 DEF ThreadState
      <4>2. Operation(t, c, at, now').right = FALSE
        BY <1>1, <1>4, <3>1, <4>1, RemovedRefuses
      <4> QED
        BY <2>1, <4>2
    <3> QED
      BY <3>1
  <2>3. ASSUME NEW clock \in Int, NEW t \in state
        PROVE  Operation(t, c, at, clock) = Operation(t, c, at, now')
    <3>1. t \in ThreadState /\ t.removedAt = NotRemoved
      BY <1>2, <2>2
    <3> QED
      BY <1>1, <1>4, <3>1, ClockIgnored
  <2>4. Leads(state, r, u)
    <3>1. ASSUME NEW clock \in Int
          PROVE  /\ \A t \in state : Operation(t, c, at, clock).right
                 /\ u = {Operation(t, c, at, clock).thread : t \in state}
      BY <2>1, <2>3
    <3>2. r.event = e /\ r.at = at
      OBVIOUS
    <3> HIDE DEF u, r, e
    <3> QED
      BY <1>1, <1>4, <3>1, <3>2 DEF Leads
  <2>5. ASSUME NEW t \in state
        PROVE  LET w == Operation(t, c, at, now').thread
               IN  w \in ThreadState /\ (w.removedAt = NotRemoved \/ w.removedAt < now')
    <3> DEFINE w == Operation(t, c, at, now').thread
    <3>1. t \in ThreadState /\ t.removedAt = NotRemoved
      BY <1>2, <2>2
    <3>2. /\ w \in ThreadState
          /\ w.removedAt = t.removedAt \/ (c.op = "DestroyThread" /\ w.removedAt = at)
      BY <1>1, <1>4, <3>1, OperationType
    <3> HIDE DEF w
    <3>3. c.op = "DestroyThread" => at < now'
      BY <1>1
    <3>4. w \in ThreadState /\ (w.removedAt = NotRemoved \/ w.removedAt < now')
      BY <3>1, <3>2, <3>3
    <3> QED
      BY <3>4 DEF w
  <2> QED
    BY <2>1, <2>2, <2>4, <2>5
<1> QED
  BY <1>3, <1>4

\* Time goes on, or the mode changes, and the history stays what it was.
LEMMA HistoryStays ==
  ASSUME ReplayInv, NEW h, IsHistory(h), UNCHANGED journal,
         now' \in {now, now + 1}, replayed' \in Nat,
         mode' \in {"up", "recovering", "stopped"},
         mode' = "up" => state' = h[Len(journal)],
         mode' = "recovering" => replayed' <= Len(journal) /\ state' = h[replayed']
  PROVE  ReplayInv'
<1>1. now' \in Int /\ now <= now' /\ now \in Int
  BY DEF ReplayInv
<1>2. \A k \in 0 .. Len(journal) : \A t \in h[k] : t \in ThreadState /\ t.removedAt \in Int
  BY DEF IsHistory, ThreadState
<1>3. IsHistory(h)'
  BY <1>1, <1>2 DEF IsHistory
<1> QED
  BY <1>1, <1>3 DEF ReplayInv

LEMMA PersistedReplayInv ==
  ASSUME Admissible, ReplayInv, NEW h, IsHistory(h), NEW c \in Commands, NEW at \in Int,
         CommandPersisted(c, at), DestroyedInThePast
  PROVE  ReplayInv'
<1> DEFINE n == Len(journal)
           e == ToEvent(c, n + 1)
           r == [event |-> e, at |-> at]
<1>1. n \in Nat /\ n + 1 \in Nat /\ now \in Int /\ journal \in Seq(Entry)
  BY LenProperties DEF ReplayInv
<1>2. now' \in {now, now + 1} /\ now' \in Int /\ mode = "up" /\ Persists(c, at) /\ replayed' = replayed
  BY <1>1 DEF CommandPersisted
<1>3. CASE ~Applies(e, at, now')
  <2>1. mode' = "stopped" /\ UNCHANGED <<state, journal>>
    BY <1>3 DEF CommandPersisted
  <2> QED
    BY <1>2, <2>1, HistoryStays DEF ReplayInv
<1>4. CASE Applies(e, at, now')
  <2>1. /\ state' = EventHandler(e, at, now') /\ journal' = Append(journal, r)
        /\ mode' = "up"
    BY <1>2, <1>4 DEF CommandPersisted
  <2>2. c \in Request /\ IsCommand(c) /\ r \in Entry
    <3>1. c \in Request /\ IsCommand(c)
      BY DEF Admissible
    <3>2. \E i \in Nat : r = [event |-> ToEvent(c, i), at |-> at]
      BY <1>1
    <3> HIDE DEF r
    <3>3. r \in Entry
      BY <3>2 DEF Entry
    <3> QED
      BY <3>1, <3>3
  <2>3. /\ journal' \in Seq(Entry) /\ Len(journal') = n + 1 /\ DOMAIN journal' = 1 .. n + 1
        /\ DOMAIN journal = 1 .. n
        /\ journal'[n + 1] = r /\ \A k \in 1 .. n : journal'[k] = journal[k]
    BY <1>1, <2>1, <2>2, AppendProperties, LenProperties
  <2>4. c.op = "DestroyThread" => at < now
    <3>1. n + 1 \in DOMAIN journal' \ DOMAIN journal
      BY <1>1, <2>3
    <3>2. c.op = "DestroyThread" => e.type = "ThreadDestroyed"
      BY <1>1, <2>2, CommandOfEvent
    <3>3. journal'[n + 1].event = e /\ journal'[n + 1].at = at
      BY <2>3
    <3> QED
      BY <3>1, <3>2, <3>3 DEF DestroyedInThePast
  <2>5. /\ state' \in SUBSET ThreadState /\ Leads(state, r, state')
        /\ \A t \in state : t.removedAt = NotRemoved
        /\ \A t \in state' : t.removedAt = NotRemoved \/ t.removedAt < now'
    BY <1>1, <1>2, <1>4, <2>1, <2>4, PersistedLeads
  <2> HIDE DEF r, e, n
  <2>6. /\ h \in [0 .. n -> SUBSET ThreadState] /\ h[0] = {} /\ state = h[n]
        /\ \A k \in 1 .. n : Leads(h[k - 1], journal[k], h[k])
        /\ \A k \in 0 .. n : \A t \in h[k] : t.removedAt = NotRemoved \/ k = n
    BY <1>2 DEF IsHistory, n
  <2>7. PICK g : /\ g \in [0 .. n + 1 -> SUBSET ThreadState] /\ g[n + 1] = state'
                 /\ \A k \in 0 .. n : g[k] = h[k]
    <3> DEFINE f == [k \in 0 .. n + 1 |-> IF k <= n THEN h[k] ELSE state']
    <3>1. /\ f \in [0 .. n + 1 -> SUBSET ThreadState] /\ f[n + 1] = state'
          /\ \A k \in 0 .. n : f[k] = h[k]
      BY <1>1, <2>5, <2>6
    <3> QED
      BY <3>1
  <2>8. g[0] = {}
    BY <1>1, <2>6, <2>7
  <2>9. ASSUME NEW k \in 1 .. n + 1 PROVE Leads(g[k - 1], journal'[k], g[k])
    <3>1. CASE k \in 1 .. n
      <4>1. k \in 0 .. n /\ k - 1 \in 0 .. n
        BY <1>1, <3>1
      <4>2. g[k - 1] = h[k - 1] /\ g[k] = h[k] /\ journal'[k] = journal[k]
        BY <2>3, <2>7, <3>1, <4>1
      <4> QED
        BY <2>6, <3>1, <4>2
    <3>2. CASE k = n + 1
      <4>1. k - 1 = n /\ n \in 0 .. n
        BY <1>1, <3>2
      <4>2. g[k - 1] = state /\ g[k] = state' /\ journal'[k] = r
        BY <2>3, <2>6, <2>7, <3>2, <4>1
      <4> QED
        BY <2>5, <4>2
    <3> QED
      BY <1>1, <3>1, <3>2
  <2>10. ASSUME NEW k \in 0 .. n + 1, NEW t \in g[k]
         PROVE  t.removedAt = NotRemoved \/ (k = n + 1 /\ t.removedAt < now')
    <3>1. CASE k \in 0 .. n
      BY <2>5, <2>6, <2>7, <3>1
    <3>2. CASE k = n + 1
      BY <2>5, <2>7, <3>2
    <3> QED
      BY <1>1, <3>1, <3>2
  <2>11. IsHistory(g)'
    <3>1. g \in [0 .. Len(journal') -> SUBSET ThreadState]
      BY <2>3, <2>7
    <3>2. \A k \in 1 .. Len(journal') : Leads(g[k - 1], journal'[k], g[k])
      BY <2>3, <2>9
    <3>3. \A k \in 0 .. Len(journal') : \A t \in g[k] :
            t.removedAt = NotRemoved \/ (k = Len(journal') /\ t.removedAt < now')
      BY <2>3, <2>10
    <3>4. state' = g[Len(journal')]
      BY <2>3, <2>7
    <3> QED
      BY <2>1, <2>8, <3>1, <3>2, <3>3, <3>4 DEF IsHistory
  <2> QED
    BY <1>2, <2>1, <2>3, <2>11 DEF ReplayInv
<1> QED
  BY <1>3, <1>4

LEMMA ReplayReplayInv ==
  ASSUME ReplayInv, NEW h, IsHistory(h), Replay
  PROVE  ReplayInv'
<1> DEFINE r == journal[replayed + 1]
<1>1. /\ replayed \in Nat /\ replayed < Len(journal) /\ Len(journal) \in Nat /\ now \in Int
      /\ state = h[replayed] /\ UNCHANGED <<now, journal>>
  BY LenProperties DEF Replay, ReplayInv, IsHistory
<1>2. Leads(state, r, h[replayed + 1])
  <2>1. replayed + 1 \in 1 .. Len(journal) /\ (replayed + 1) - 1 = replayed
    BY <1>1
  <2>2. Leads(h[(replayed + 1) - 1], journal[replayed + 1], h[replayed + 1])
    BY <2>1 DEF IsHistory
  <2> QED
    BY <1>1, <2>1, <2>2
<1>3. Applies(r.event, r.at, now) /\ EventHandler(r.event, r.at, now) = h[replayed + 1]
  BY <1>1, <1>2, LeadsApplies
<1>4. mode' = "recovering" /\ replayed' = replayed + 1 /\ state' = h[replayed']
  BY <1>3 DEF Replay
<1> QED
  BY <1>1, <1>4, HistoryStays

LEMMA NextReplayInv ==
  ASSUME Admissible, ReplayInv, [Next]_vars, [DestroyedInThePast]_vars
  PROVE  ReplayInv'
<1>1. PICK h : IsHistory(h)
  BY DEF ReplayInv
<1>2. ASSUME NEW c \in Commands, NEW at \in now - Skew .. now + Skew, CommandPersisted(c, at)
      PROVE  ReplayInv'
  <2>1. at \in Int
    OBVIOUS
  <2>2. CASE UNCHANGED vars
    BY <1>1, <2>2, HistoryStays DEF vars, ReplayInv, IsHistory
  <2>3. CASE DestroyedInThePast
    BY <1>1, <1>2, <2>1, <2>3, PersistedReplayInv
  <2> QED
    BY <2>2, <2>3
<1>3. CASE Stop
  BY <1>1, <1>3, HistoryStays DEF Stop, ReplayInv
<1>4. CASE Restart
  BY <1>1, <1>4, HistoryStays, LenProperties, SMTT(20) DEF Restart, ReplayInv, IsHistory
<1>5. CASE Replay
  BY <1>1, <1>5, ReplayReplayInv
<1>6. CASE RecoveryCompleted
  BY <1>1, <1>6, HistoryStays DEF RecoveryCompleted, ReplayInv, IsHistory
<1>7. CASE Tick
  BY <1>1, <1>7, HistoryStays DEF Tick, ReplayInv, IsHistory
<1>8. CASE UNCHANGED vars
  BY <1>1, <1>8, HistoryStays DEF vars, ReplayInv, IsHistory
<1> QED
  BY <1>2, <1>3, <1>4, <1>5, <1>6, <1>7, <1>8 DEF Next

(***************************************************************************)
(* However often it stops and is replayed, a typed thread comes back to    *)
(* life as long as no DestroyThread is stamped level with the clock of the *)
(* node or ahead of it: eventHandler's right.get never throws in recovery. *)
(* Only the stamps of destructions matter, those of no other command.      *)
(***************************************************************************)
THEOREM ReplayedUnlessStampedAhead ==
  ASSUME Admissible
  PROVE  Spec /\ [][DestroyedInThePast]_vars => []ReplayedAfterReboot
<1>1. Init => ReplayInv
  BY InitReplayInv
<1>2. ReplayInv /\ [Next]_vars /\ [DestroyedInThePast]_vars => ReplayInv'
  BY NextReplayInv
<1>3. ReplayInv => ReplayedAfterReboot
  BY DEF ReplayInv, ReplayedAfterReboot
<1> QED
  BY <1>1, <1>2, <1>3, PTL DEF Spec

=============================================================================
