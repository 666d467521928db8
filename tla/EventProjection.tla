--------------------------- MODULE EventProjection ---------------------------
(***************************************************************************)
(* What the read model updater promises of the tables, without streams,    *)
(* batches, restarts or crashes.  Readers go through the tag, each in its  *)
(* order, and apply one event at a time in a single transaction.  A reader *)
(* begins where the tables say, and by then everything before has been     *)
(* applied; it may stop anywhere, or leave its place to another.  Nothing  *)
(* else ever changes the tables.                                           *)
(*                                                                         *)
(* ThreadReadModelUpdater implements this module: its stream is a reader,  *)
(* and so is each batch a failed stream has left to the database.          *)
(***************************************************************************)
EXTENDS ReadModelTables, Sequences

CONSTANT Readers

VARIABLES
  tagged,    \* the events of the tag, in order
  tables,    \* the read model
  applied,   \* the events applied so far
  place      \* the events each reader has gone through, -1 when it does not read

vars == <<tagged, tables, applied, place>>

Init ==
  /\ tagged = <<>>
  /\ tables = EmptyTables
  /\ applied = {}
  /\ place = [r \in Readers |-> -1]

\* One more event is stored.
Store ==
  /\ Len(tagged') = Len(tagged) + 1
  /\ \A k \in DOMAIN tagged : tagged'[k] = tagged[k]
  /\ UNCHANGED <<tables, applied, place>>

\* A reader begins, and passes over nothing that is missing.
Begin(r) ==
  /\ place[r] = -1
  /\ 1 .. LastSequenceNr(tables) \subseteq applied
  /\ place' = [place EXCEPT ![r] = LastSequenceNr(tables)]
  /\ UNCHANGED <<tagged, tables, applied>>

\* A reader applies the next event, and may stop at that.
Apply(r) ==
  /\ place[r] \in 0 .. Len(tagged) - 1
  /\ LET k == place[r] + 1
     IN  /\ MeetsKeys(tables, tagged[k])
         /\ tables' = Committed(tables, tagged[k])
         /\ applied' = applied \cup {k}
         /\ \E p \in {k, -1} : place' = [place EXCEPT ![r] = p]
  /\ UNCHANGED tagged

LeavePlace(r, s) ==
  /\ place[s] = -1
  /\ place' = [place EXCEPT ![r] = -1, ![s] = place[r]]
  /\ UNCHANGED <<tagged, tables, applied>>

\* Some readers stop.
Stop ==
  /\ \E S \in SUBSET Readers : place' = [r \in Readers |-> IF r \in S THEN -1 ELSE place[r]]
  /\ UNCHANGED <<tagged, tables, applied>>

Next ==
  \/ Store \/ Stop
  \/ \E r \in Readers : Begin(r) \/ Apply(r)
  \/ \E r, s \in Readers : LeavePlace(r, s)

Spec == Init /\ [][Next]_vars

=============================================================================
