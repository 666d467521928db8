----------------------- MODULE ThreadReadModelUpdater -----------------------
(***************************************************************************)
(* The read model updater of one tag (readModelUpdater/ThreadReadModel-    *)
(* Updater.scala) beside the aggregates that write the tag's events.       *)
(*                                                                         *)
(* The updater runs one stream: it reads the largest sequence_nr of the    *)
(* tag's rows, asks the journal for the tag's events after that offset,    *)
(* turns them into SQL and runs them in batches, each event in its own     *)
(* transaction.  Whatever fails makes the stream start again from the      *)
(* offset query, until the restarts are used up.  The Future of a batch    *)
(* the database already has is not cancelled by a failure of the source:   *)
(* what is left of it goes on beside the backoff and the next stream.      *)
(*                                                                         *)
(* The journal numbers the events of a tag 1, 2, ... and eventsByTag       *)
(* leaves out its offset, as LevelDB's plugin does.  Events read ahead of  *)
(* the database change nothing, so reading is part of SendBatch.           *)
(***************************************************************************)
EXTENDS ThreadAggregate, ReadModelTables, Sequences

CONSTANTS
  Commands,       \* the commands clients may send, a subset of Request
  SqlBatchSize,   \* sqlBatchSize
  MaxRestarts,    \* backoffSettings.maxRestarts
  MaxEvents,      \* bound: events stored
  MaxFaults       \* bound: failures of the database or journal, crashes

ASSUME UpdaterAssumption ==
  /\ Commands \subseteq Request
  /\ SqlBatchSize \in Nat \ {0}
  /\ MaxRestarts \in Nat /\ MaxEvents \in Nat /\ MaxFaults \in Nat

VARIABLES
  tagged,     \* the tag's events in the journal: a sequence of Envelopes
  states,     \* states[t][i + 1]: the aggregate's behaviour after i events
  tables,     \* the read model
  stream,     \* none (killSwitch empty), starting, running, backoff or ended
  position,   \* the last event this stream has gone through, or its offset; 0 unless running
  batch,      \* the last event of the batch given to the database
  orphans,    \* orphans[i]: what is left of the batch abandoned at the i-th fault
  restarts,   \* restarts counted by RestartSource
  faults      \* faults so far

\* History: events whose transaction was committed, once and more than once;
\* whether a stream has read its offset before such a batch had ended.
VARIABLES applied, again, overlapped

journalVars == <<tagged, states>>
streamVars == <<stream, position, batch, restarts>>
historyVars == <<applied, again, overlapped>>
vars == <<tagged, states, tables, stream, position, batch, orphans, restarts, faults,
          applied, again, overlapped>>

\* A batch the database is done with.
Done == [position |-> 0, batch |-> 0]
Slots == 1 .. MaxFaults

Current(t) == states[t][Len(states[t])]

Init ==
  /\ tagged = <<>>
  /\ states = [t \in Threads |-> <<Initial>>]
  /\ tables = EmptyTables
  /\ stream = "none" /\ position = 0 /\ batch = 0 /\ restarts = 0
  /\ orphans = [i \in Slots |-> Done]
  /\ faults = 0
  /\ applied = {} /\ again = {} /\ overlapped = FALSE

\* AddMessages carries message ids its use case has just generated.
Fresh(c) ==
  c.op = "AddMessages" =>
    \A k \in DOMAIN tagged :
      tagged[k].event.type = "MessagesAdded" => c.messageIds \cap tagged[k].event.messageIds = {}

(***************************************************************************)
(* An aggregate decides a command and stores its event, tagged on the way  *)
(* to the journal: the step Record of EventSourcedThread.                  *)
(***************************************************************************)
Write(t, c) ==
  /\ Len(tagged) < MaxEvents
  /\ IsCommand(c) /\ Fresh(c)
  /\ Answers(Current(t), c)
  /\ IsSuccessResponse(c, Accepts(Current(t), c))
  /\ tagged' = Append(tagged, [thread |-> t, sequenceNr |-> Len(states[t]),
                               event |-> ToEvent(c, Len(tagged) + 1)])
  /\ states' = [states EXCEPT ![t] = Append(@, After(Current(t), c))]
  /\ UNCHANGED <<tables, streamVars, orphans, faults, historyVars>>

-----------------------------------------------------------------------------

\* case s: Start, when there is no killSwitch yet.  Any later Start is ignored.
Start ==
  /\ stream = "none"
  /\ stream' = "starting"
  /\ UNCHANGED <<journalVars, tables, position, batch, orphans, restarts, faults, historyVars>>

\* A bug the runs must notice: the offset taken as the first event to read.
MutReadOffset ==
  /\ stream = "starting"
  /\ stream' = "running"
  /\ position' = LastSequenceNr(tables) + 1
  /\ batch' = position'
  /\ overlapped' = (overlapped \/ \E i \in Slots : orphans[i] # Done)
  /\ UNCHANGED <<journalVars, tables, orphans, restarts, faults, applied, again>>

\* The offset query, and eventsByTag from there.
ReadOffset ==
  /\ stream = "starting"
  /\ stream' = "running"
  /\ position' = LastSequenceNr(tables)
  /\ batch' = position'
  /\ overlapped' = (overlapped \/ \E i \in Slots : orphans[i] # Done)
  /\ UNCHANGED <<journalVars, tables, orphans, restarts, faults, applied, again>>

\* Bugs the runs must notice: more taken than there is, or a full batch waited for.
MutSendBatch ==
  /\ stream = "running" /\ batch = position
  /\ batch' = position + SqlBatchSize
  /\ UNCHANGED <<journalVars, tables, stream, position, orphans, restarts, faults, historyVars>>

MutSendFullBatch ==
  /\ stream = "running" /\ batch = position
  /\ batch' = position + SqlBatchSize
  /\ batch' <= Len(tagged)
  /\ UNCHANGED <<journalVars, tables, stream, position, orphans, restarts, faults, historyVars>>

\* mapAsync(1): the next batch goes to the database when the last one is done.
SendBatch ==
  /\ stream = "running" /\ batch = position
  /\ batch' \in position + 1 .. position + SqlBatchSize
  /\ batch' <= Len(tagged)
  /\ UNCHANGED <<journalVars, tables, stream, position, orphans, restarts, faults, historyVars>>

Working == stream = "running" /\ position < batch

\* The transaction of the k-th event is committed.
Transact(k) ==
  /\ MeetsKeys(tables, tagged[k])
  /\ tables' = Committed(tables, tagged[k])
  /\ again' = again \cup (applied \cap {k})
  /\ applied' = applied \cup {k}

\* A bug the runs must notice: an event whose SQL fails is passed over.
MutCommit ==
  /\ Working
  /\ \/ Transact(position + 1)
     \/ ~MeetsKeys(tables, tagged[position + 1]) /\ UNCHANGED <<tables, applied, again>>
  /\ position' = position + 1
  /\ UNCHANGED <<journalVars, stream, batch, orphans, restarts, faults, overlapped>>

\* The next event of the batch.
Commit ==
  /\ Working
  /\ Transact(position + 1)
  /\ position' = position + 1
  /\ UNCHANGED <<journalVars, stream, batch, orphans, restarts, faults, overlapped>>

(***************************************************************************)
(* The source ends in a failure.  RestartSource forgets the restarts so    *)
(* far when this one has run for longer than minBackoff, and gives up when *)
(* they have reached maxRestarts; the killSwitch stays.                    *)
(***************************************************************************)
Restart ==
  /\ \E counted \in {0, restarts} :
       IF counted = MaxRestarts
       THEN stream' = "ended" /\ restarts' = counted
       ELSE stream' = "backoff" /\ restarts' = counted + 1
  /\ position' = 0 /\ batch' = 0
  /\ UNCHANGED <<journalVars, tables, historyVars>>

Fault == faults < MaxFaults /\ faults' = faults + 1

\* The next transaction violates a key: the rest of the batch is not run.
KeyViolated ==
  /\ Working
  /\ ~MeetsKeys(tables, tagged[position + 1])
  /\ Restart
  /\ UNCHANGED <<orphans, faults>>

\* The offset query fails, or a transaction for another reason.
DatabaseFails ==
  /\ Fault
  /\ stream = "starting" \/ Working
  /\ Restart
  /\ UNCHANGED orphans

\* eventsByTag fails: mapAsync fails at once, and leaves its Future to itself.
SourceFails ==
  /\ Fault
  /\ stream = "running"
  /\ Restart
  /\ orphans' = IF Working
                THEN [orphans EXCEPT ![faults'] = [position |-> position, batch |-> batch]]
                ELSE orphans

\* The next event of a batch whose stream has failed.
OrphanCommits(i) ==
  /\ orphans[i] # Done
  /\ LET k == orphans[i].position + 1
     IN  /\ Transact(k)
         /\ orphans' = [orphans EXCEPT ![i] = IF k = @.batch THEN Done ELSE [@ EXCEPT !.position = k]]
  /\ UNCHANGED <<journalVars, streamVars, faults, overlapped>>

\* It violates a key, or fails otherwise: the rest is not run, and nobody is told.
OrphanFails(i) ==
  /\ orphans[i] # Done
  /\ orphans' = [orphans EXCEPT ![i] = Done]
  /\ UNCHANGED <<journalVars, tables, streamVars, faults, historyVars>>

BackoffElapsed ==
  /\ stream = "backoff"
  /\ stream' = "starting"
  /\ UNCHANGED <<journalVars, tables, position, batch, orphans, restarts, faults, historyVars>>

\* The JVM ends: a transaction is committed or it is not, all else is gone.
Crash ==
  /\ Fault
  /\ stream # "none"
  /\ stream' = "none" /\ restarts' = 0
  /\ position' = 0 /\ batch' = 0
  /\ orphans' = [i \in Slots |-> Done]
  /\ UNCHANGED <<journalVars, tables, historyVars>>

-----------------------------------------------------------------------------

StreamStep == ReadOffset \/ SendBatch \/ Commit \/ KeyViolated \/ BackoffElapsed

Next ==
  \/ \E t \in Threads, c \in Commands : Write(t, c)
  \/ Start \/ StreamStep
  \/ DatabaseFails \/ SourceFails \/ Crash
  \/ \E i \in Slots : OrphanCommits(i) \/ OrphanFails(i)

Spec == Init /\ [][Next]_vars

(***************************************************************************)
(* A materialized stream with demand goes on, its timers elapse and the    *)
(* database answers.  Nobody is obliged to write, to send Start, or to go  *)
(* on with a batch whose stream has failed.                                *)
(***************************************************************************)
FairSpec == Spec /\ WF_vars(StreamStep)

-----------------------------------------------------------------------------
(* Properties *)

TypeOK ==
  /\ tagged \in Seq(Envelope)
  /\ states \in [Threads -> Seq(Behaviour)]
  /\ \A t \in Threads : Len(states[t]) \in 1 .. Len(tagged) + 1
  /\ tables \in Tables
  /\ stream \in {"none", "starting", "running", "backoff", "ended"}
  /\ position \in 0 .. Len(tagged) /\ batch \in position .. Len(tagged)
  /\ orphans \in [Slots -> [position : 0 .. Len(tagged), batch : 0 .. Len(tagged)]]
  /\ \A i \in Slots : orphans[i] # Done => orphans[i].position < orphans[i].batch
  /\ restarts \in 0 .. MaxRestarts
  /\ faults \in 0 .. MaxFaults
  /\ applied \subseteq DOMAIN tagged /\ again \subseteq applied /\ overlapped \in BOOLEAN

(***************************************************************************)
(* No event is ever passed over: whatever has been applied, everything     *)
(* before it has, and a stream that starts now (the offset is the largest  *)
(* number of a single thread, the positions count the whole tag) starts at *)
(* an event no later than the first one that is missing.                   *)
(***************************************************************************)
NothingSkipped ==
  /\ \A k \in applied : 1 .. k \subseteq applied
  /\ 1 .. LastSequenceNr(tables) \subseteq applied

\* The tag's events are all of one thread.
OneThread == \A j, k \in DOMAIN tagged : tagged[j].thread = tagged[k].thread

(***************************************************************************)
(* As long as the tag has events of one thread only, failures, restarts    *)
(* and crashes at any point, inside a batch too, make no event applied     *)
(* twice: the sequence_nr is written in the event's transaction.  It takes *)
(* that a batch whose stream has failed ends, or dies with the JVM, before *)
(* the next stream reads its offset: the backoff is all that the code has  *)
(* for this, and a batch that outlasts it may commit what the new stream   *)
(* applies as well.                                                        *)
(***************************************************************************)
ExactlyOnceAlone ==
  OneThread /\ ~overlapped => again = {} /\ LastSequenceNr(tables) = Cardinality(applied)

\* The event reports what the aggregate did not do: a rejected join, a leave
\* that joined.
Misreported(t, e, n) ==
  e.type = "MemberIdsLeft" \/ ~Accepts(states[t][n], ToCommandRequest(e))

\* None of the first n events of t is misreported.
Reported(t, n) ==
  \A k \in DOMAIN tagged :
    tagged[k].thread = t /\ tagged[k].sequenceNr <= n
      => ~Misreported(t, tagged[k].event, tagged[k].sequenceNr)

\* No event of t was applied twice, no other thread's event named a message of t.
Undisturbed(t) ==
  /\ \A k \in again : tagged[k].thread # t
  /\ \A k \in applied :
       tagged[k].thread # t /\ tagged[k].event.type = "MessagesRemoved"
         => \A m \in tables.messages[t] : m.id \notin tagged[k].event.messageIds

(***************************************************************************)
(* However the events of the tag's threads are mixed, the row of a thread  *)
(* shows what its aggregate held when it had stored sequence_nr events,    *)
(* unless one of those was misreported: only a second application of an    *)
(* event and a removal across threads disturb it.                          *)
(***************************************************************************)
ShowsTheAggregate ==
  \A t \in Threads :
    LET n == tables.row[t].sequenceNr
        b == states[t][n + 1]
    IN  HasRow(tables, t) /\ Undisturbed(t) /\ Reported(t, n)
        => /\ tables.row[t].removed <=> b.phase = "destroyed"
           /\ b.phase = "created" =>
                /\ tables.administratorIds[t] = b.thread.administratorIds
                /\ tables.memberIds[t] = b.thread.memberIds
                /\ {m \in tables.messages[t] : m.id \notin tables.deleted} = b.thread.messages

(***************************************************************************)
(* The tables change as EventProjection says.  Its readers are the stream, *)
(* which is number 0, and the batches of the streams that failed.          *)
(***************************************************************************)
Places ==
  [r \in 0 .. MaxFaults |->
    CASE r = 0 /\ stream = "running"    -> position
      [] r \in Slots /\ orphans[r] # Done -> orphans[r].position
      [] OTHER                          -> -1]

Projection == INSTANCE EventProjection WITH Readers <- 0 .. MaxFaults, place <- Places
ImplementsProjection == Projection!Spec

(***************************************************************************)
(* Again and again the tables have every stored event, through failures    *)
(* and restarts (so no event, of which there are MaxEvents at most, waits  *)
(* for ever), unless the updater is not running any more or it stands      *)
(* before an event the tables refuse.                                      *)
(***************************************************************************)
Refused == Working /\ ~MeetsKeys(tables, tagged[position + 1])

EventuallyApplied ==
  []<>(DOMAIN tagged \subseteq applied \/ stream \in {"none", "ended"} \/ Refused)

-----------------------------------------------------------------------------
(* What the repository's documents say and the code does not do.           *)

\* slide/presentation.md:1206: events are read since the last sequence number;
\* those of a batch that was still under way at the restart left aside.
ReadSinceLastSequenceNr == ~overlapped => again = {}

\* Thread.scala:172: a message is removed by its sender only.
RemovedBySenderOnly ==
  \A t \in Threads : \A m \in tables.messages[t] :
    m.id \in tables.deleted =>
      \E k \in DOMAIN tagged :
        /\ tagged[k].event.type = "MessagesRemoved"
        /\ m.id \in tagged[k].event.messageIds
        /\ m.senderId = tagged[k].event.senderId

=============================================================================
