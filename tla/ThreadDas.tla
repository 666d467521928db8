------------------------------ MODULE ThreadDas ------------------------------
(***************************************************************************)
(* The queries of the read side (das/ThreadDas.scala) over the tables the  *)
(* updater keeps, and what an account may learn from them.                 *)
(*                                                                         *)
(* A result is the set of the rows the joins produce, each row with the    *)
(* pair of member and administrator it was joined with: a record comes     *)
(* once for every pair.  No query has an ORDER BY, so offset and limit cut *)
(* a part out of a result in whatever order the database has; the results  *)
(* here are whole.  getThreadById takes one row.                           *)
(***************************************************************************)
EXTENDS ThreadReadModelUpdater

\* joinLeft: a row of the left table without a partner is kept, with null.
OuterJoin(ids) == IF ids = {} THEN {{}} ELSE {{a} : a \in ids}

\* A bug the runs must notice: the joins made without the thread's id.
MutJoined(t) ==
  IF HasRow(tables, t)
  THEN OuterJoin(UNION {tables.memberIds[u] : u \in Threads})
         \X OuterJoin(UNION {tables.administratorIds[u] : u \in Threads})
  ELSE {}

\* The thread's row, joined with its members and with its administrators.
Joined(t) ==
  IF HasRow(tables, t)
  THEN OuterJoin(tables.memberIds[t]) \X OuterJoin(tables.administratorIds[t])
  ELSE {}

\* A bug the runs must notice: administrators forgotten in the filter.
MutJoinedFor(accountId, t) == {r \in Joined(t) : accountId \in r[1]}

\* The filter on the account, which looks at neither removed nor deleted.
JoinedFor(accountId, t) == {r \in Joined(t) : accountId \in r[1] \cup r[2]}

GetThreadById(accountId, t) == IF JoinedFor(accountId, t) # {} THEN {t} ELSE {}

GetThreadsByAccountId(accountId) == UNION {{t} \X JoinedFor(accountId, t) : t \in Threads}

\* Both lists keep the asking account's own row only.
GetAdministratorsByThreadId(accountId, t) == tables.administratorIds[t] \cap {accountId}
GetMembersByThreadId(accountId, t) == tables.memberIds[t] \cap {accountId}

GetMessagesByThreadId(accountId, t) == JoinedFor(accountId, t) \X tables.messages[t]

-----------------------------------------------------------------------------
(* Properties *)

\* The thread appears in what the account is shown, its messages included.
Sees(a, t) == JoinedFor(a, t) # {}

(***************************************************************************)
(* Whoever is shown a thread was named its administrator or member by an   *)
(* event of that thread: no join, replay, restart or mix of the tag's      *)
(* threads shows it to anybody else.                                       *)
(***************************************************************************)
InvitedBy(e, a) ==
  \/ e.type = "ThreadCreated" /\ a \in e.administratorIds \cup e.memberIds
  \/ e.type = "AdministratorIdsJoined" /\ a \in e.administratorIds
  \/ e.type = "MemberIdsAdded" /\ a \in e.memberIds

SeenByInvited ==
  \A t \in Threads, a \in Account :
    Sees(a, t) => \E k \in applied : tagged[k].thread = t /\ InvitedBy(tagged[k].event, a)

(***************************************************************************)
(* The two sides of the system let the same accounts read: as long as an   *)
(* undisturbed thread is not destroyed, the queries show it, its place in  *)
(* the lists and its messages to an account exactly when the aggregate,    *)
(* after as many events, would answer that account.  They do not answer    *)
(* alike: to the messages the aggregate gives the queries add, since they  *)
(* do not look at deleted, every message that was removed.                 *)
(***************************************************************************)
Removed(t) == {m \in tables.messages[t] : m.id \in tables.deleted}

AnswersAgree(t, a, thread) ==
  LET reads == MayRead(thread, a, Now)
      shown == {x[2] : x \in GetMessagesByThreadId(a, t)}
  IN  /\ GetThreadById(a, t) # {} <=> reads
      /\ (\E x \in GetThreadsByAccountId(a) : x[1] = t) <=> reads
      /\ GetAdministratorsByThreadId(a, t) # {} <=> IsAdministratorId(thread, a)
      /\ GetMembersByThreadId(a, t) # {} <=> a \in thread.memberIds
      /\ shown \ Removed(t) = GetMessages(thread, a, Now).value
      /\ shown \cap Removed(t) = IF reads THEN Removed(t) ELSE {}

ReadersAgree ==
  \A t \in Threads :
    LET n == tables.row[t].sequenceNr
        b == states[t][n + 1]
    IN  HasRow(tables, t) /\ b.phase = "created" /\ Undisturbed(t) /\ Reported(t, n)
        => \A a \in Account : AnswersAgree(t, a, b.thread)

=============================================================================
