------------------------- MODULE ArrivalOrder_proofs -------------------------
(***************************************************************************)
(* The numbers of the requests in the parent's queues, in its stash, in    *)
(* the child's queue, in the sending closure and in the journal: who comes *)
(* before whom, and that nobody is lost or in two places.                  *)
(***************************************************************************)
EXTENDS ChildReflectsJournal_proofs

\* Every number of A is smaller than every number of B.
Before(A, B) == \A a \in A, b \in B : a < b

\* The elements of this type are numbered upwards.
Ascending(s, type) ==
  \A i, j \in DOMAIN s : i < j /\ s[i].type = type /\ s[j].type = type => s[i].id < s[j].id

Arrived == IdsOf(mailbox, "request")
Waiting == IdsOf(stash, "request")
Asked == IdsOf(childMailbox, "query")
Stored == {journal[k].id : k \in DOMAIN journal}

ArrivalOrder ==
  /\ Ascending(mailbox, "request") /\ Ascending(stash, "request")
  /\ Ascending(childMailbox, "query")
  /\ Before(Waiting, Arrived) /\ Before(Asked, Waiting \cup Arrived)
  /\ Before(Stored, Waiting \cup Arrived)
  /\ mode = "sending" => Before({current}, Waiting \cup Arrived)
  /\ mode = "sending" /\ write.status # "stored" => Before(Stored, {current})
  /\ mode # "sending" => stash = <<>>
  /\ Stored \subseteq DOMAIN requests
  /\ StoredInArrivalOrder

\* A reply that has not come is the empty one.
Silent == \A i \in DOMAIN replies : ~replies[i].answered => replies[i] = NoReply

(***************************************************************************)
(* What the parent acts on is what a decision in one step would have been: *)
(* the child has nothing behind the command, and its verdict, carried by   *)
(* the response and then by the write, stays true until the event is       *)
(* stored.                                                                 *)
(***************************************************************************)
DecidedOnce ==
  /\ HasDecided => childMailbox = <<>>
  /\ write.status = "inflight" => /\ Answers(Durable, requests[current])
                                  /\ write.ok = Accepts(Durable, requests[current])
                                  /\ IsSuccessResponse(requests[current], write.ok)
  /\ write.status = "stored" =>
       \E k \in DOMAIN journal : /\ journal[k].id = current
                                 /\ write.ok = Accepts(states[k], requests[current])

OrderInv == SyncInv /\ ArrivalOrder /\ RequestsAccountedFor /\ Silent /\ DecidedOnce

-----------------------------------------------------------------------------
(* The numbers in a queue.                                                 *)

LEMMA IdsMember ==
  ASSUME NEW s, NEW type, NEW n
  PROVE  n \in IdsOf(s, type) <=> \E j \in DOMAIN s : s[j].type = type /\ s[j].id = n
BY DEF IdsOf

\* Taking the head.
LEMMA IdsTail ==
  ASSUME NEW S, \A m \in S : m.id \in Nat, NEW s \in Seq(S), s # <<>>, NEW type
  PROVE  /\ Head(s).type = type => IdsOf(s, type) = IdsOf(Tail(s), type) \cup {Head(s).id}
         /\ Head(s).type # type => IdsOf(s, type) = IdsOf(Tail(s), type)
         /\ Ascending(s, type) => /\ Ascending(Tail(s), type)
                                  /\ Head(s).type = type => Before({Head(s).id}, IdsOf(Tail(s), type))
<1>1. /\ Len(s) \in Nat \ {0} /\ DOMAIN s = 1..Len(s) /\ s[1] = Head(s)
      /\ Len(Tail(s)) = Len(s) - 1 /\ DOMAIN Tail(s) = 1..Len(s) - 1
      /\ \A j \in 1..Len(s) - 1 : Tail(s)[j] = s[j + 1]
  BY Shift, HeadTailProperties, LenProperties
<1>2. \A j \in 1..Len(s) - 1 : j + 1 \in 1..Len(s) /\ 1 < j + 1
  BY <1>1
<1>3. \A j \in 1..Len(s) : j = 1 \/ (j - 1 \in 1..Len(s) - 1 /\ (j - 1) + 1 = j)
  BY <1>1
<1>4. ASSUME NEW n
      PROVE  n \in IdsOf(Tail(s), type) <=> \E j \in 1..Len(s) - 1 : s[j + 1].type = type /\ s[j + 1].id = n
  <2> DEFINE t == Tail(s)
  <2>1. DOMAIN t = 1..Len(s) - 1 /\ \A j \in 1..Len(s) - 1 : t[j] = s[j + 1]
    BY <1>1
  <2> HIDE DEF t
  <2>2. n \in IdsOf(t, type) <=> \E j \in DOMAIN t : t[j].type = type /\ t[j].id = n
    BY IdsMember
  <2>3. n \in IdsOf(t, type) <=> \E j \in 1..Len(s) - 1 : s[j + 1].type = type /\ s[j + 1].id = n
    BY <2>1, <2>2
  <2> QED
    BY <2>3 DEF t
<1>5. \A n : n \in IdsOf(s, type) <=> \E j \in 1..Len(s) : s[j].type = type /\ s[j].id = n
  BY <1>1 DEF IdsOf
<1>6. \A n : n \in IdsOf(s, type) <=> n \in IdsOf(Tail(s), type) \/ (Head(s).type = type /\ n = Head(s).id)
  <2>1. ASSUME NEW n \in IdsOf(Tail(s), type) PROVE n \in IdsOf(s, type)
    BY <1>2, <1>4, <1>5, <2>1
  <2>2. ASSUME Head(s).type = type PROVE Head(s).id \in IdsOf(s, type)
    BY <1>1, <1>5, <2>2
  <2>3. ASSUME NEW n \in IdsOf(s, type)
        PROVE  n \in IdsOf(Tail(s), type) \/ (Head(s).type = type /\ n = Head(s).id)
    <3>1. PICK j \in 1..Len(s) : s[j].type = type /\ s[j].id = n
      BY <1>5
    <3> QED
      BY <1>1, <1>3, <1>4, <3>1
  <2> QED
    BY <2>1, <2>2, <2>3
<1>7. ASSUME Ascending(s, type) PROVE Ascending(Tail(s), type)
  <2>1. \A i, j \in 1..Len(s) - 1 : i < j => i + 1 < j + 1
    BY <1>1
  <2> QED
    BY <1>1, <1>2, <1>7, <2>1 DEF Ascending
<1>8. ASSUME Ascending(s, type), Head(s).type = type PROVE Before({Head(s).id}, IdsOf(Tail(s), type))
  <2>1. ASSUME NEW n \in IdsOf(Tail(s), type) PROVE Head(s).id < n
    <3>1. PICK j \in 1..Len(s) - 1 : s[j + 1].type = type /\ s[j + 1].id = n
      BY <1>4
    <3>2. 1 \in DOMAIN s /\ j + 1 \in DOMAIN s /\ 1 < j + 1
      BY <1>1, <1>2
    <3>3. s[1].type = type /\ s[j + 1].type = type
      BY <1>1, <1>8, <3>1
    <3>4. s[1].id < s[j + 1].id
      BY <1>8, <3>2, <3>3 DEF Ascending
    <3> QED
      BY <1>1, <3>1, <3>4
  <2> QED
    BY <2>1 DEF Before
<1> QED
  BY <1>6, <1>7, <1>8

\* Adding at the end.
LEMMA IdsAppend ==
  ASSUME NEW S, NEW s \in Seq(S), NEW m \in S, NEW type
  PROVE  \A n : n \in IdsOf(Append(s, m), type)
                <=> n \in IdsOf(s, type) \/ (m.type = type /\ n = m.id)
<1> DEFINE t == Append(s, m)
<1>1. /\ Len(s) \in Nat /\ DOMAIN s = 1..Len(s) /\ DOMAIN t = 1..Len(s) + 1
      /\ t[Len(s) + 1] = m /\ \A j \in 1..Len(s) : t[j] = s[j]
  BY AppendProperties, LenProperties
<1> HIDE DEF t
<1>2. \A j : j \in 1..Len(s) + 1 <=> j \in 1..Len(s) \/ j = Len(s) + 1
  BY <1>1
<1>3. \A n : n \in IdsOf(t, type) <=> \E j \in 1..Len(s) + 1 : t[j].type = type /\ t[j].id = n
  BY <1>1 DEF IdsOf
<1>4. \A n : n \in IdsOf(s, type) <=> \E j \in 1..Len(s) : s[j].type = type /\ s[j].id = n
  BY <1>1 DEF IdsOf
<1>5. \A n : n \in IdsOf(t, type) <=> n \in IdsOf(s, type) \/ (m.type = type /\ n = m.id)
  <2>1. ASSUME NEW n, NEW j \in 1..Len(s) + 1, t[j].type = type, t[j].id = n
        PROVE  n \in IdsOf(s, type) \/ (m.type = type /\ n = m.id)
    BY <1>1, <1>2, <1>4, <2>1
  <2>2. ASSUME NEW n \in IdsOf(s, type) PROVE n \in IdsOf(t, type)
    BY <1>1, <1>2, <1>3, <1>4
  <2>3. ASSUME m.type = type PROVE m.id \in IdsOf(t, type)
    BY <1>1, <1>2, <1>3, <2>3
  <2> QED
    BY <1>3, <2>1, <2>2, <2>3
<1> QED
  BY <1>5 DEF t

LEMMA IdsAppendSame ==
  ASSUME NEW S, NEW s \in Seq(S), NEW m \in S, NEW type
  PROVE  m.type = type => IdsOf(Append(s, m), type) = IdsOf(s, type) \cup {m.id}
BY IdsAppend

LEMMA AscendingAppend ==
  ASSUME NEW S, NEW s \in Seq(S), NEW m \in S, NEW type,
         Ascending(s, type), m.type = type => Before(IdsOf(s, type), {m.id})
  PROVE  Ascending(Append(s, m), type)
<1> DEFINE t == Append(s, m)
<1>1. /\ Len(s) \in Nat /\ DOMAIN s = 1..Len(s) /\ DOMAIN t = 1..Len(s) + 1
      /\ t[Len(s) + 1] = m /\ \A j \in 1..Len(s) : t[j] = s[j]
  BY AppendProperties, LenProperties
<1> HIDE DEF t
<1>2. \A j : j \in 1..Len(s) + 1 <=> j \in 1..Len(s) \/ j = Len(s) + 1
  BY <1>1
<1>4. \A n : n \in IdsOf(s, type) <=> \E j \in 1..Len(s) : s[j].type = type /\ s[j].id = n
  BY <1>1 DEF IdsOf
<1> SUFFICES ASSUME NEW i \in 1..Len(s) + 1, NEW j \in 1..Len(s) + 1, i < j,
                    t[i].type = type, t[j].type = type
             PROVE  t[i].id < t[j].id
  BY <1>1 DEF Ascending, t
<1>5. i \in 1..Len(s)
  BY <1>1
<1>6. CASE j \in 1..Len(s)
  BY <1>1, <1>5, <1>6 DEF Ascending
<1>7. CASE j = Len(s) + 1
  <2>1. t[i].id \in IdsOf(s, type) /\ m.type = type
    BY <1>1, <1>4, <1>5, <1>7
  <2> QED
    BY <1>1, <1>7, <2>1 DEF Before
<1> QED
  BY <1>2, <1>6, <1>7

\* An element of another type changes nothing.
LEMMA AppendOther ==
  ASSUME NEW S, NEW s \in Seq(S), NEW m \in S, NEW type, m.type # type
  PROVE  /\ IdsOf(Append(s, m), type) = IdsOf(s, type)
         /\ Ascending(s, type) => Ascending(Append(s, m), type)
<1>1. \A n : n \in IdsOf(Append(s, m), type) <=> n \in IdsOf(s, type)
  BY IdsAppend
<1>2. Ascending(s, type) => Ascending(Append(s, m), type)
  BY AscendingAppend
<1> QED
  BY <1>1, <1>2

\* An element of the type comes last.
LEMMA AscendingLast ==
  ASSUME NEW S, NEW s \in Seq(S), NEW m \in S, NEW type,
         Ascending(s, type), Before(IdsOf(s, type), {m.id})
  PROVE  Ascending(Append(s, m), type)
BY AscendingAppend

\* Putting the stash in front of the mailbox.
LEMMA IdsConcat ==
  ASSUME NEW S, NEW s \in Seq(S), NEW r \in Seq(S), NEW type
  PROVE  /\ IdsOf(s \o r, type) = IdsOf(s, type) \cup IdsOf(r, type)
         /\ Ascending(s, type) /\ Ascending(r, type) /\ Before(IdsOf(s, type), IdsOf(r, type))
              => Ascending(s \o r, type)
<1> DEFINE t == s \o r
<1>1. /\ Len(s) \in Nat /\ DOMAIN s = 1..Len(s) /\ Len(r) \in Nat /\ DOMAIN r = 1..Len(r)
      /\ DOMAIN t = 1..Len(s) + Len(r)
      /\ \A j \in 1..Len(s) + Len(r) : t[j] = IF j <= Len(s) THEN s[j] ELSE r[j - Len(s)]
  BY ConcatProperties, LenProperties
<1> HIDE DEF t
<1>2. \A j \in 1..Len(s) + Len(r) :
        \/ j \in 1..Len(s) /\ j <= Len(s)
        \/ j - Len(s) \in 1..Len(r) /\ ~(j <= Len(s))
  BY <1>1
<1>3. \A j \in 1..Len(s) : j \in 1..Len(s) + Len(r) /\ t[j] = s[j]
  BY <1>1
<1>4. \A j \in 1..Len(r) : Len(s) + j \in 1..Len(s) + Len(r) /\ t[Len(s) + j] = r[j]
  <2>1. \A j \in 1..Len(r) : /\ Len(s) + j \in 1..Len(s) + Len(r) /\ ~(Len(s) + j <= Len(s))
                             /\ (Len(s) + j) - Len(s) = j
    BY <1>1
  <2> QED
    BY <1>1, <2>1
<1>5. \A n : n \in IdsOf(t, type) <=> \E j \in 1..Len(s) + Len(r) : t[j].type = type /\ t[j].id = n
  BY <1>1 DEF IdsOf
<1>6. \A n : n \in IdsOf(s, type) <=> \E j \in 1..Len(s) : s[j].type = type /\ s[j].id = n
  BY <1>1 DEF IdsOf
<1>7. \A n : n \in IdsOf(r, type) <=> \E j \in 1..Len(r) : r[j].type = type /\ r[j].id = n
  BY <1>1 DEF IdsOf
<1>8. \A n : n \in IdsOf(t, type) <=> n \in IdsOf(s, type) \cup IdsOf(r, type)
  <2>1. ASSUME NEW n, NEW j \in 1..Len(s) + Len(r), t[j].type = type, t[j].id = n
        PROVE  n \in IdsOf(s, type) \cup IdsOf(r, type)
    <3>1. CASE j \in 1..Len(s) /\ j <= Len(s)
      BY <1>1, <1>6, <2>1, <3>1
    <3>2. CASE j - Len(s) \in 1..Len(r) /\ ~(j <= Len(s))
      BY <1>1, <1>7, <2>1, <3>2
    <3> QED
      BY <1>2, <3>1, <3>2
  <2>2. ASSUME NEW n \in IdsOf(s, type) PROVE n \in IdsOf(t, type)
    BY <1>3, <1>5, <1>6
  <2>3. ASSUME NEW n \in IdsOf(r, type) PROVE n \in IdsOf(t, type)
    BY <1>4, <1>5, <1>7
  <2> QED
    BY <1>5, <2>1, <2>2, <2>3
<1>9. ASSUME Ascending(s, type), Ascending(r, type), Before(IdsOf(s, type), IdsOf(r, type))
      PROVE  Ascending(t, type)
  <2> SUFFICES ASSUME NEW i \in 1..Len(s) + Len(r), NEW j \in 1..Len(s) + Len(r), i < j,
                      t[i].type = type, t[j].type = type
               PROVE  t[i].id < t[j].id
    BY <1>1 DEF Ascending
  <2>1. CASE j <= Len(s)
    <3>1. i \in 1..Len(s) /\ j \in 1..Len(s)
      BY <1>1, <2>1
    <3> QED
      BY <1>1, <1>3, <1>9, <3>1 DEF Ascending
  <2>2. CASE i <= Len(s) /\ ~(j <= Len(s))
    <3>1. i \in 1..Len(s) /\ j - Len(s) \in 1..Len(r)
      BY <1>1, <2>2
    <3>2. t[i].id \in IdsOf(s, type) /\ t[j].id \in IdsOf(r, type)
      BY <1>1, <1>6, <1>7, <2>2, <3>1
    <3> QED
      BY <1>9, <3>2 DEF Before
  <2>3. CASE ~(i <= Len(s)) /\ ~(j <= Len(s))
    <3>1. i - Len(s) \in 1..Len(r) /\ j - Len(s) \in 1..Len(r) /\ i - Len(s) < j - Len(s)
      BY <1>1, <2>3
    <3>2. t[i] = r[i - Len(s)] /\ t[j] = r[j - Len(s)]
      BY <1>1, <2>3
    <3> QED
      BY <1>1, <1>9, <3>1, <3>2 DEF Ascending
  <2>4. (~(i <= Len(s)) => ~(j <= Len(s)))
    BY <1>1
  <2> QED
    BY <2>1, <2>2, <2>3, <2>4
<1> QED
  BY <1>8, <1>9 DEF t

LEMMA IdsEmpty == \A type : IdsOf(<<>>, type) = {} /\ Ascending(<<>>, type)
BY DEF IdsOf, Ascending

-----------------------------------------------------------------------------
(* The order of arrival.                                                   *)

LEMMA InitOrderInv == Init => OrderInv
<1> SUFFICES ASSUME Init PROVE OrderInv
  OBVIOUS
<1> USE DEF Init
<1>1. SyncInv
  BY InitSyncInv
<1>2. ArrivalOrder
  BY IdsEmpty DEF ArrivalOrder, Arrived, Waiting, Asked, Stored, Before, StoredInArrivalOrder
<1>3. RequestsAccountedFor
  BY IdsEmpty DEF RequestsAccountedFor, Answered, Held
<1>4. Silent
  BY DEF Silent
<1>5. DecidedOnce
  BY DEF DecidedOnce, HasDecided, ResponseAt, NoWrite
<1> QED
  BY <1>1, <1>2, <1>3, <1>4, <1>5 DEF OrderInv

\* Whoever is queued has asked.
LEMMA QueuesAreRequests ==
  ASSUME References
  PROVE  /\ Arrived \subseteq DOMAIN requests /\ Waiting \subseteq DOMAIN requests
         /\ Asked \subseteq {i \in DOMAIN requests : ~IsCommand(requests[i])}
<1>1. Arrived \subseteq DOMAIN requests
  BY IdsOfSeq DEF References, Deliverable, Arrived
<1>2. Waiting \subseteq DOMAIN requests
  BY IdsOfSeq DEF References, Stashable, Deliverable, Waiting
<1>3. Asked \subseteq {i \in DOMAIN requests : ~IsCommand(requests[i])}
  BY IdsOfSeq DEF References, Processable, Asked
<1> QED
  BY <1>1, <1>2, <1>3

LEMMA SameStored ==
  ASSUME UNCHANGED journal
  PROVE  Stored' = Stored /\ (StoredInArrivalOrder' <=> StoredInArrivalOrder)
BY DEF Stored, StoredInArrivalOrder

\* The parent takes the next message; no number of the rest is below it.
LEMMA ParentTakes ==
  ASSUME TypeOK, ArrivalOrder, mailbox # <<>>
  PROVE  LET m == Head(mailbox)
             rest == IdsOf(Tail(mailbox), "request")
         IN  /\ m \in ParentMessage /\ Tail(mailbox) \in Seq(ParentMessage)
             /\ m.type = "request" => Arrived = rest \cup {m.id} /\ Before({m.id}, rest)
             /\ m.type # "request" => Arrived = rest
             /\ Ascending(Tail(mailbox), "request")
<1>1. \A m \in ParentMessage : m.id \in Nat
  BY DEF ParentMessage
<1>2. mailbox \in Seq(ParentMessage) /\ Ascending(mailbox, "request")
  BY DEF TypeOK, ArrivalOrder
<1> QED
  BY <1>1, <1>2, IdsTail, HeadTailProperties DEF Arrived

LEMMA ChildTakes ==
  ASSUME TypeOK, ArrivalOrder, childMailbox # <<>>
  PROVE  LET m == Head(childMailbox)
             rest == IdsOf(Tail(childMailbox), "query")
         IN  /\ m \in ChildMessage
             /\ m.type = "query" => Asked = rest \cup {m.id} /\ Before({m.id}, rest)
             /\ m.type # "query" => Asked = rest
             /\ Ascending(Tail(childMailbox), "query")
<1>1. \A m \in ChildMessage : m.id \in Nat
  BY DEF ChildMessage
<1>2. childMailbox \in Seq(ChildMessage) /\ Ascending(childMailbox, "query")
  BY DEF TypeOK, ArrivalOrder
<1> QED
  BY <1>1, <1>2, IdsTail, HeadTailProperties DEF Asked

\* The parent gets a message.
LEMMA ParentGets ==
  ASSUME TypeOK, ArrivalOrder, NEW m \in ParentMessage, mailbox' = Append(mailbox, m)
  PROVE  /\ m.type = "request" => /\ Arrived' = Arrived \cup {m.id}
                                  /\ Before(Arrived, {m.id}) => Ascending(mailbox', "request")
         /\ m.type # "request" => Arrived' = Arrived /\ Ascending(mailbox', "request")
<1>1. mailbox \in Seq(ParentMessage) /\ Ascending(mailbox, "request")
  BY DEF TypeOK, ArrivalOrder
<1>2. Arrived = IdsOf(mailbox, "request") /\ Arrived' = IdsOf(mailbox', "request")
  BY DEF Arrived, IdsOf
<1>3. m.type = "request" => IdsOf(mailbox', "request") = IdsOf(mailbox, "request") \cup {m.id}
  BY <1>1, IdsAppendSame
<1>4. m.type # "request" => IdsOf(mailbox', "request") = IdsOf(mailbox, "request")
  BY <1>1, AppendOther
<1>5. m.type # "request" => Ascending(mailbox', "request")
  BY <1>1, AppendOther
<1>6. Before(IdsOf(mailbox, "request"), {m.id}) => Ascending(mailbox', "request")
  BY <1>1, AscendingLast
<1> QED
  BY <1>2, <1>3, <1>4, <1>5, <1>6

\* The child is sent something.
LEMMA ChildGets ==
  ASSUME TypeOK, ArrivalOrder, NEW m \in ChildMessage, SendToChild(m)
  PROVE  /\ child = Dead \/ m.type # "query" => Asked' = Asked /\ Ascending(childMailbox', "query")
         /\ child # Dead /\ m.type = "query" =>
              /\ Asked' = Asked \cup {m.id}
              /\ Before(Asked, {m.id}) => Ascending(childMailbox', "query")
<1>1. childMailbox \in Seq(ChildMessage) /\ Ascending(childMailbox, "query")
  BY DEF TypeOK, ArrivalOrder
<1>2. Asked = IdsOf(childMailbox, "query") /\ Asked' = IdsOf(childMailbox', "query")
  BY DEF Asked, IdsOf
<1>3. CASE child = Dead
  BY <1>1, <1>2, <1>3 DEF SendToChild
<1>4. CASE child # Dead
  <2>1. childMailbox' = Append(childMailbox, m)
    BY <1>4 DEF SendToChild
  <2>2. m.type = "query" => IdsOf(childMailbox', "query") = IdsOf(childMailbox, "query") \cup {m.id}
    BY <1>1, <2>1, IdsAppendSame
  <2>3. m.type # "query" => IdsOf(childMailbox', "query") = IdsOf(childMailbox, "query")
    BY <1>1, <2>1, AppendOther
  <2>4. m.type # "query" => Ascending(childMailbox', "query")
    BY <1>1, <2>1, AppendOther
  <2>5. Before(IdsOf(childMailbox, "query"), {m.id}) => Ascending(childMailbox', "query")
    BY <1>1, <2>1, AscendingLast
  <2> QED
    BY <1>2, <1>4, <2>2, <2>3, <2>4, <2>5
<1> QED
  BY <1>3, <1>4

\* unstashAll: those who waited come before the rest.
LEMMA Resumed ==
  ASSUME TypeOK, ArrivalOrder, NEW rest \in Seq(ParentMessage), Resume(rest),
         Ascending(rest, "request"), IdsOf(rest, "request") = Arrived
  PROVE  /\ Arrived' = Waiting \cup Arrived /\ Waiting' = {}
         /\ Ascending(mailbox', "request") /\ Ascending(stash', "request")
<1>1. stash \in Seq(ParentMessage) /\ Ascending(stash, "request")
  BY DEF TypeOK, ArrivalOrder
<1>2. Before(IdsOf(stash, "request"), IdsOf(rest, "request"))
  BY DEF ArrivalOrder, Waiting
<1>3. Arrived' = IdsOf(mailbox', "request") /\ Waiting' = IdsOf(stash', "request")
  BY DEF Arrived, Waiting, IdsOf
<1> QED
  BY <1>1, <1>2, <1>3, IdsConcat, IdsEmpty DEF Resume, Arrived, Waiting

LEMMA OrderStep == OrderInv /\ [Next]_vars => ArrivalOrder'
<1> SUFFICES ASSUME OrderInv, [Next]_vars PROVE ArrivalOrder'
  OBVIOUS
<1> USE DEF OrderInv, SyncInv
<1>t. /\ TypeOK /\ References /\ Closure /\ OneDecision
      /\ Len(requests) \in Nat /\ DOMAIN requests = 1..Len(requests)
      /\ current \in 0..Len(requests)
  BY LenProperties DEF IInv, TypeOK
<1>n. /\ Arrived \subseteq 1..Len(requests) /\ Waiting \subseteq 1..Len(requests)
      /\ Asked \subseteq 1..Len(requests) /\ Stored \subseteq 1..Len(requests)
  BY <1>t, QueuesAreRequests DEF ArrivalOrder
<1>e. mode # "sending" => Waiting = {}
  BY IdsEmpty DEF ArrivalOrder, Waiting
\* Nothing moves that the order speaks of.
<1>a. ASSUME UNCHANGED <<stash, current, journal>>, DOMAIN requests \subseteq DOMAIN requests',
             Arrived' = Arrived, Asked' = Asked,
             Ascending(mailbox', "request"), Ascending(childMailbox', "query"),
             mode' = "sending" => mode = "sending", mode = "sending" => mode' = "sending",
             write'.status # "stored" => write.status # "stored"
      PROVE  ArrivalOrder'
  <2>1. Waiting' = Waiting /\ Ascending(stash', "request") /\ (mode' # "sending" => stash' = <<>>)
    BY <1>a DEF ArrivalOrder, Waiting, IdsOf
  <2>2. Stored' = Stored /\ StoredInArrivalOrder' /\ Stored \subseteq DOMAIN requests
    BY <1>a, SameStored DEF ArrivalOrder
  <2> QED
    BY <1>a, <2>1, <2>2 DEF ArrivalOrder
\* The parent resumes.
<1>r. ASSUME NEW rest \in Seq(ParentMessage), Resume(rest), Ascending(rest, "request"),
             IdsOf(rest, "request") = Arrived, UNCHANGED <<requests, childMailbox, journal>>
      PROVE  ArrivalOrder'
  <2>1. /\ Arrived' = Waiting \cup Arrived /\ Waiting' = {} /\ mode' # "sending" /\ stash' = <<>>
        /\ Ascending(mailbox', "request") /\ Ascending(stash', "request")
    BY <1>t, <1>r, Resumed DEF Resume
  <2>2. Asked' = Asked /\ Ascending(childMailbox', "query")
    BY <1>r DEF ArrivalOrder, Asked, IdsOf
  <2>3. Stored' = Stored /\ StoredInArrivalOrder' /\ Stored' \subseteq DOMAIN requests'
    BY <1>r, SameStored DEF ArrivalOrder
  <2>4. Before(Asked, Waiting \cup Arrived) /\ Before(Stored, Waiting \cup Arrived)
    BY DEF ArrivalOrder
  <2>5. /\ Before(Waiting', Arrived') /\ Before(Asked', Waiting' \cup Arrived')
        /\ Before(Stored', Waiting' \cup Arrived')
    BY <2>1, <2>2, <2>3, <2>4 DEF Before
  <2> QED
    BY <2>1, <2>2, <2>3, <2>5 DEF ArrivalOrder
<1>1. ASSUME NEW c \in Clients, Ask(c) PROVE ArrivalOrder'
  <2> DEFINE n == Len(requests) + 1
  <2>1. RequestMsg(n) \in ParentMessage /\ RequestMsg(n).type = "request" /\ RequestMsg(n).id = n
    BY <1>t DEF RequestMsg, ParentMessage
  <2>2. Before(Arrived, {n})
    BY <1>t, <1>n DEF Before
  <2>3. Arrived' = Arrived \cup {n} /\ Ascending(mailbox', "request")
    BY <1>1, <1>t, <2>1, <2>2, ParentGets DEF Ask
  <2>4. /\ Waiting' = Waiting /\ Asked' = Asked /\ Ascending(stash', "request")
        /\ Ascending(childMailbox', "query")
    BY <1>1 DEF Ask, childVars, ArrivalOrder, Waiting, Asked, IdsOf
  <2>5. Stored' = Stored /\ StoredInArrivalOrder'
    BY <1>1, SameStored DEF Ask, journalVars, ArrivalOrder
  <2>6. DOMAIN requests' = 1..n
    BY <1>1, <1>t DEF Ask, TypeOK
  <2>7. /\ Before(Waiting', Arrived') /\ Before(Asked', Waiting' \cup Arrived')
        /\ Before(Stored', Waiting' \cup Arrived') /\ Stored' \subseteq DOMAIN requests'
    BY <1>t, <1>n, <2>3, <2>4, <2>5, <2>6 DEF ArrivalOrder, Before
  <2>8. mode' = "sending" => mode = "sending" /\ current' = current /\ write' = write
    BY <1>1 DEF Ask
  <2>9. mode' = "sending" => Before({current'}, Waiting' \cup Arrived')
    BY <1>t, <1>n, <2>3, <2>4, <2>8 DEF ArrivalOrder, Before
  <2>10. mode' # "sending" => stash' = <<>>
    BY <1>1 DEF Ask, ArrivalOrder
  <2> QED
    BY <2>3, <2>4, <2>5, <2>7, <2>8, <2>9, <2>10 DEF ArrivalOrder
<1>2. ASSUME ReplayEvent PROVE ArrivalOrder'
  <2>1. ChildMsg("replay", replayed + 1) \in ChildMessage /\ ChildMsg("replay", replayed + 1).type # "query"
    BY <1>t DEF ChildMsg, ChildMessage, TypeOK
  <2>2. Asked' = Asked /\ Ascending(childMailbox', "query")
    BY <1>2, <1>t, <2>1, ChildGets DEF ReplayEvent
  <2>3. Arrived' = Arrived /\ Ascending(mailbox', "request")
    BY <1>2 DEF ReplayEvent, ArrivalOrder, Arrived, IdsOf
  <2> QED
    BY <1>2, <1>a, <2>2, <2>3 DEF ReplayEvent, clientVars, journalVars
<1>3. ASSUME RecoveryCompleted PROVE ArrivalOrder'
  <2>1. /\ Arrived' = Arrived /\ Ascending(mailbox', "request")
        /\ Asked' = Asked /\ Ascending(childMailbox', "query")
    BY <1>3 DEF RecoveryCompleted, childVars, ArrivalOrder, Arrived, Asked, IdsOf
  <2> QED
    BY <1>3, <1>a, <2>1 DEF RecoveryCompleted, clientVars, journalVars
<1>4. ASSUME ReceiveCommand \/ ForwardQuery PROVE ArrivalOrder'
  <2> DEFINE m == Head(mailbox)
  <2>1. /\ m.type = "request" /\ m \in ParentMessage /\ mode = "ready" /\ mailbox # <<>>
        /\ mailbox' = Tail(mailbox) /\ UNCHANGED <<requests, stash, journal, write, child>>
    BY <1>4, <1>t, ParentTakes DEF ReceiveCommand, ForwardQuery, clientVars, journalVars
  <2>2. Arrived' = IdsOf(Tail(mailbox), "request")
    BY <2>1 DEF Arrived, IdsOf
  <2>3. /\ Arrived = Arrived' \cup {m.id} /\ Before({m.id}, Arrived')
        /\ Ascending(mailbox', "request")
    BY <1>t, <2>1, <2>2, ParentTakes
  <2>4. Waiting = {} /\ Waiting' = {} /\ stash' = <<>> /\ Ascending(stash', "request")
    BY <1>e, <2>1, IdsEmpty DEF ArrivalOrder, Waiting, IdsOf
  <2>5. Stored' = Stored /\ StoredInArrivalOrder' /\ Stored' \subseteq DOMAIN requests'
    BY <2>1, SameStored DEF ArrivalOrder
  <2>6. /\ Before(Asked, Arrived) /\ Before(Stored, Arrived)
        /\ Before(Asked, {m.id}) /\ Before(Stored, {m.id})
    BY <2>3 DEF ArrivalOrder, Before
  <2>7. CASE ReceiveCommand
    <3>1. ChildMsg("command", m.id) \in ChildMessage /\ ChildMsg("command", m.id).type # "query"
      BY <2>1 DEF ChildMsg, ChildMessage, ParentMessage
    <3>2. Asked' = Asked /\ Ascending(childMailbox', "query")
      BY <1>t, <2>7, <3>1, ChildGets DEF ReceiveCommand
    <3>3. mode' = "sending" /\ current' = m.id
      BY <2>7 DEF ReceiveCommand
    <3>4. /\ Before(Waiting', Arrived') /\ Before(Asked', Waiting' \cup Arrived')
          /\ Before(Stored', Waiting' \cup Arrived') /\ Before({current'}, Waiting' \cup Arrived')
          /\ Before(Stored', {current'})
      BY <2>3, <2>4, <2>5, <2>6, <3>2, <3>3 DEF Before
    <3> QED
      BY <2>3, <2>4, <2>5, <3>2, <3>3, <3>4 DEF ArrivalOrder
  <2>8. CASE ForwardQuery
    <3>1. /\ ChildMsg("query", m.id) \in ChildMessage /\ ChildMsg("query", m.id).type = "query"
          /\ ChildMsg("query", m.id).id = m.id
      BY <2>1 DEF ChildMsg, ChildMessage, ParentMessage
    <3>2. Asked' \subseteq Asked \cup {m.id} /\ Ascending(childMailbox', "query")
      BY <1>t, <2>6, <2>8, <3>1, ChildGets DEF ForwardQuery
    <3>3. mode' # "sending"
      BY <2>1, <2>8 DEF ForwardQuery
    <3>4. /\ Before(Waiting', Arrived') /\ Before(Asked', Waiting' \cup Arrived')
          /\ Before(Stored', Waiting' \cup Arrived')
      BY <2>3, <2>4, <2>5, <2>6, <3>2 DEF Before
    <3> QED
      BY <2>3, <2>4, <2>5, <3>2, <3>3, <3>4 DEF ArrivalOrder
  <2> QED
    BY <1>4, <2>7, <2>8
<1>5. ASSUME Stopped PROVE ArrivalOrder'
  <2>1. /\ Arrived' = {} /\ Waiting' = {} /\ Asked' = {}
        /\ Ascending(mailbox', "request") /\ Ascending(stash', "request")
        /\ Ascending(childMailbox', "query") /\ mode' # "sending" /\ stash' = <<>>
    BY <1>5 DEF Stopped, Arrived, Waiting, Asked, IdsOf, Ascending
  <2>2. Stored' = Stored /\ StoredInArrivalOrder' /\ Stored' \subseteq DOMAIN requests'
    BY <1>5, SameStored DEF Stopped, clientVars, journalVars, ArrivalOrder
  <2> QED
    BY <2>1, <2>2 DEF ArrivalOrder, Before
<1>6. ASSUME SendingSuccess PROVE ArrivalOrder'
  <2>1. /\ mailbox # <<>> /\ Head(mailbox).type = "response" /\ mailbox' = Tail(mailbox)
        /\ UNCHANGED <<requests, mode, stash, current, childMailbox, journal>>
    BY <1>6 DEF SendingSuccess, clientVars, childVars, journalVars
  <2>2. Arrived' = Arrived /\ Ascending(mailbox', "request")
    <3>1. Arrived' = IdsOf(Tail(mailbox), "request")
      BY <2>1 DEF Arrived, IdsOf
    <3> QED
      BY <1>t, <2>1, <3>1, ParentTakes
  <2>3. Asked' = Asked /\ Ascending(childMailbox', "query")
    BY <2>1 DEF ArrivalOrder, Asked, IdsOf
  <2>4. write.status = "none"
    BY <1>t, <2>1, LastTrace
  <2> QED
    BY <1>a, <2>1, <2>2, <2>3, <2>4
<1>7. ASSUME SendingFailure PROVE ArrivalOrder'
  <2>1. /\ mailbox # <<>> /\ Head(mailbox).type = "response" /\ Resume(Tail(mailbox))
        /\ UNCHANGED <<requests, childMailbox, journal>>
    BY <1>7 DEF SendingFailure, childVars, journalVars
  <2>2. /\ Tail(mailbox) \in Seq(ParentMessage) /\ Ascending(Tail(mailbox), "request")
        /\ IdsOf(Tail(mailbox), "request") = Arrived
    BY <1>t, <2>1, ParentTakes
  <2> QED
    BY <1>r, <2>1, <2>2
<1>8. ASSUME SendingStash PROVE ArrivalOrder'
  <2> DEFINE m == Head(mailbox)
  <2>1. /\ m.type # "response" /\ m \in ParentMessage /\ mode = "sending" /\ mailbox # <<>>
        /\ mailbox' = Tail(mailbox) /\ stash' = Append(stash, m)
        /\ UNCHANGED <<requests, mode, current, write, childMailbox, journal>>
    BY <1>8, <1>t, ParentTakes DEF SendingStash, clientVars, childVars, journalVars
  <2>2. Arrived' = IdsOf(Tail(mailbox), "request") /\ Waiting' = IdsOf(Append(stash, m), "request")
    BY <2>1 DEF Arrived, Waiting, IdsOf
  <2>3. /\ m.type = "request" => Arrived = Arrived' \cup {m.id} /\ Before({m.id}, Arrived')
        /\ m.type # "request" => Arrived = Arrived'
        /\ Ascending(mailbox', "request")
    BY <1>t, <2>1, <2>2, ParentTakes
  <2>4. stash \in Seq(ParentMessage) /\ Ascending(stash, "request")
    BY <1>t DEF TypeOK, ArrivalOrder
  <2>5. Asked' = Asked /\ Ascending(childMailbox', "query")
    BY <2>1 DEF ArrivalOrder, Asked, IdsOf
  <2>6. Stored' = Stored /\ StoredInArrivalOrder' /\ Stored' \subseteq DOMAIN requests'
    BY <2>1, SameStored DEF ArrivalOrder
  <2>7. CASE m.type = "request"
    <3>1. Waiting' = Waiting \cup {m.id}
      BY <2>1, <2>2, <2>4, <2>7, IdsAppendSame DEF Waiting
    <3>2. Ascending(stash', "request")
      <4>1. Before(IdsOf(stash, "request"), {m.id})
        BY <2>3, <2>7 DEF ArrivalOrder, Before, Waiting
      <4> QED
        BY <2>1, <2>4, <4>1, AscendingLast
    <3>3. Waiting' \cup Arrived' = Waiting \cup Arrived
      BY <2>3, <2>7, <3>1
    <3>4. Before(Waiting', Arrived')
      BY <2>3, <2>7, <3>1 DEF ArrivalOrder, Before
    <3> QED
      BY <2>1, <2>3, <2>5, <2>6, <3>2, <3>3, <3>4 DEF ArrivalOrder
  <2>8. CASE m.type # "request"
    <3>1. Waiting' = Waiting
      BY <2>1, <2>2, <2>4, <2>8, AppendOther DEF Waiting
    <3>2. Ascending(stash', "request")
      BY <2>1, <2>4, <2>8, AppendOther
    <3> QED
      BY <2>1, <2>3, <2>5, <2>6, <2>8, <3>1, <3>2 DEF ArrivalOrder
  <2> QED
    BY <2>7, <2>8
<1>9. ASSUME JournalStores PROVE ArrivalOrder'
  <2>1. /\ mode = "sending" /\ write.status = "inflight" /\ current \in DOMAIN requests
        /\ UNCHANGED <<requests, mode, mailbox, stash, current, childMailbox>>
        /\ journal' = Append(journal, ToEvent(requests[current], current))
    BY <1>9, <1>t DEF JournalStores, Closure, clientVars
  <2>2. ToEvent(requests[current], current).id = current
    BY DEF ToEvent
  <2>3. /\ journal \in Seq(Event) /\ ToEvent(requests[current], current) \in Event
    BY <1>t, <2>1, ClientsAssumption, ConversionType DEF TypeOK, Closure
  <2>4. /\ DOMAIN journal = 1..Len(journal) /\ Len(journal) \in Nat
        /\ DOMAIN journal' = 1..Len(journal) + 1 /\ journal'[Len(journal) + 1].id = current
        /\ \A k \in 1..Len(journal) : journal'[k] = journal[k]
    BY <2>1, <2>2, <2>3, AppendProperties, LenProperties
  <2>5. \A k : k \in 1..Len(journal) + 1 <=> k \in 1..Len(journal) \/ k = Len(journal) + 1
    BY <2>4
  <2>6. Stored' = Stored \cup {current}
    BY <2>4, <2>5 DEF Stored
  <2>7. Before(Stored, {current}) /\ Before({current}, Waiting \cup Arrived)
    BY <2>1 DEF ArrivalOrder
  <2>8. StoredInArrivalOrder'
    <3> SUFFICES ASSUME NEW i \in 1..Len(journal) + 1, NEW j \in 1..Len(journal) + 1, i < j
                 PROVE  journal'[i].id < journal'[j].id
      BY <2>4 DEF StoredInArrivalOrder
    <3>1. i \in 1..Len(journal)
      BY <2>4
    <3>2. CASE j \in 1..Len(journal)
      BY <2>4, <3>1, <3>2 DEF ArrivalOrder, StoredInArrivalOrder
    <3>3. CASE j = Len(journal) + 1
      <4>1. journal[i].id \in Stored
        BY <2>4, <3>1 DEF Stored
      <4> QED
        BY <2>4, <2>7, <3>1, <3>3, <4>1 DEF Before
    <3> QED
      BY <2>5, <3>2, <3>3
  <2>9. /\ Arrived' = Arrived /\ Waiting' = Waiting /\ Asked' = Asked
        /\ Ascending(mailbox', "request") /\ Ascending(stash', "request")
        /\ Ascending(childMailbox', "query")
    BY <2>1 DEF ArrivalOrder, Arrived, Waiting, Asked, IdsOf
  <2>10. Before(Stored', Waiting' \cup Arrived') /\ Stored' \subseteq DOMAIN requests'
    BY <2>1, <2>6, <2>7, <2>9 DEF ArrivalOrder, Before
  <2>11. write'.status = "stored"
    BY <1>9, <1>t DEF JournalStores, TypeOK
  <2> QED
    BY <2>1, <2>8, <2>9, <2>10, <2>11 DEF ArrivalOrder
<1>10. ASSUME Persisted PROVE ArrivalOrder'
  <2>1. /\ Resume(mailbox) /\ mailbox \in Seq(ParentMessage) /\ Ascending(mailbox, "request")
        /\ UNCHANGED <<requests, childMailbox, journal>>
    BY <1>10, <1>t DEF Persisted, TypeOK, ArrivalOrder, childVars, journalVars
  <2> QED
    BY <1>r, <2>1 DEF Arrived
<1>11. ASSUME JournalRejects PROVE ArrivalOrder'
  <2>1. /\ Arrived' = Arrived /\ Ascending(mailbox', "request")
        /\ Asked' = Asked /\ Ascending(childMailbox', "query")
    BY <1>11 DEF JournalRejects, childVars, ArrivalOrder, Arrived, Asked, IdsOf
  <2>2. write.status # "stored"
    BY <1>11 DEF JournalRejects
  <2> QED
    BY <1>11, <1>a, <2>1, <2>2 DEF JournalRejects, clientVars, journalVars
\* The child takes something that is not a query.
<1>c. ASSUME childMailbox # <<>>, childMailbox' = Tail(childMailbox)
      PROVE  /\ Ascending(childMailbox', "query") /\ Asked' \subseteq Asked
             /\ Head(childMailbox).type # "query" => Asked' = Asked
  <2>1. Asked' = IdsOf(Tail(childMailbox), "query")
    BY <1>c DEF Asked, IdsOf
  <2> QED
    BY <1>t, <1>c, <2>1, ChildTakes
<1>12. ASSUME ChildReplays PROVE ArrivalOrder'
  <2>1. Asked' = Asked /\ Ascending(childMailbox', "query")
    BY <1>12, <1>c DEF ChildReplays
  <2>2. Arrived' = Arrived /\ Ascending(mailbox', "request")
    BY <1>12 DEF ChildReplays, parentVars, ArrivalOrder, Arrived, IdsOf
  <2> QED
    BY <1>12, <1>a, <2>1, <2>2 DEF ChildReplays, clientVars, parentVars, journalVars
<1>13. ASSUME ChildHandlesCommand PROVE ArrivalOrder'
  <2> DEFINE m == ResponseMsg(current, Accepts(Durable, requests[current]))
  <2>1. /\ child = Durable /\ ChildRequest(Head(childMailbox)) = requests[current]
        /\ Head(childMailbox).id = current
    BY <1>13, CommandAtHead DEF ChildHandlesCommand
  <2>2. m \in ParentMessage /\ m.type # "request"
    BY <1>t DEF ResponseMsg, ParentMessage, Accepts
  <2>3. mailbox' = mailbox \/ mailbox' = Append(mailbox, m)
    BY <1>13, <2>1 DEF ChildHandlesCommand
  <2>4. Arrived' = Arrived /\ Ascending(mailbox', "request")
    <3>1. CASE mailbox' = mailbox
      BY <3>1 DEF ArrivalOrder, Arrived, IdsOf
    <3>2. CASE mailbox' = Append(mailbox, m)
      BY <1>t, <2>2, <3>2, ParentGets
    <3> QED
      BY <2>3, <3>1, <3>2
  <2>5. Asked' = Asked /\ Ascending(childMailbox', "query")
    BY <1>13, <1>c DEF ChildHandlesCommand
  <2> QED
    BY <1>13, <1>a, <2>4, <2>5 DEF ChildHandlesCommand, clientVars, journalVars
\* The child's queue shrinks and the parent's requests stay.
<1>d. ASSUME UNCHANGED <<requests, mode, stash, current, write, journal>>, Arrived' = Arrived,
             Asked' \subseteq Asked, Ascending(mailbox', "request"), Ascending(childMailbox', "query")
      PROVE  ArrivalOrder'
  <2>1. Waiting' = Waiting /\ Ascending(stash', "request")
    BY <1>d DEF ArrivalOrder, Waiting, IdsOf
  <2>2. Stored' = Stored /\ StoredInArrivalOrder'
    BY <1>d, SameStored DEF ArrivalOrder
  <2>3. Before(Asked', Waiting' \cup Arrived')
    BY <1>d, <2>1 DEF ArrivalOrder, Before
  <2> QED
    BY <1>d, <2>1, <2>2, <2>3 DEF ArrivalOrder
<1>14. ASSUME ChildAnswersQuery PROVE ArrivalOrder'
  <2>1. Asked' \subseteq Asked /\ Ascending(childMailbox', "query")
    BY <1>14, <1>c DEF ChildAnswersQuery
  <2>2. Arrived' = Arrived /\ Ascending(mailbox', "request")
    BY <1>14 DEF ChildAnswersQuery, parentVars, ArrivalOrder, Arrived, IdsOf
  <2> QED
    BY <1>14, <1>d, <2>1, <2>2 DEF ChildAnswersQuery, parentVars, journalVars
<1>15. ASSUME ChildFails PROVE ArrivalOrder'
  <2>1. TerminatedMsg \in ParentMessage /\ TerminatedMsg.type # "request"
    BY DEF TerminatedMsg, ParentMessage
  <2>2. Arrived' = Arrived /\ Ascending(mailbox', "request")
    BY <1>15, <1>t, <2>1, ParentGets DEF ChildFails
  <2>3. Asked' = {} /\ Ascending(childMailbox', "query")
    BY <1>15 DEF ChildFails, Asked, IdsOf, Ascending
  <2> QED
    BY <1>15, <1>d, <2>2, <2>3 DEF ChildFails, clientVars, journalVars
<1>16. CASE UNCHANGED vars
  <2>1. /\ Arrived' = Arrived /\ Ascending(mailbox', "request")
        /\ Asked' = Asked /\ Ascending(childMailbox', "query")
    BY <1>16 DEF vars, ArrivalOrder, Arrived, Asked, IdsOf
  <2> QED
    BY <1>16, <1>a, <2>1 DEF vars
<1> QED
  BY <1>1, <1>2, <1>3, <1>4, <1>5, <1>6, <1>7, <1>8, <1>9, <1>10, <1>11, <1>12, <1>13, <1>14,
     <1>15, <1>16
  DEF Next, ParentStep, ChildStep, Fault, ReceiveTerminated, Stop

-----------------------------------------------------------------------------
(* Nobody is forgotten, nobody is answered twice.                          *)

Closing == IF mode = "sending" THEN {current} ELSE {}

\* A reply moves its asker from those held to those answered.
LEMMA OneAnswer ==
  ASSUME TypeOK, RequestsAccountedFor, Silent, UNCHANGED <<requests, dropped>>,
         NEW i \in DOMAIN requests, NEW ok, NEW value,
         replies' = [replies EXCEPT ![i] = Reply(ok, value)],
         Held = Held' \cup {i}, i \notin Held'
  PROVE  RequestsAccountedFor' /\ Silent'
<1>1. /\ DOMAIN replies = DOMAIN requests /\ DOMAIN replies' = DOMAIN replies
      /\ replies'[i].answered
      /\ \A j \in DOMAIN replies : j # i => replies'[j] = replies[j]
  BY LenProperties DEF TypeOK, Reply
<1>2. Answered' = Answered \cup {i}
  BY <1>1 DEF Answered
<1>3. RequestsAccountedFor'
  BY <1>1, <1>2 DEF RequestsAccountedFor
<1>4. Silent'
  BY <1>1 DEF Silent, NoReply
<1> QED
  BY <1>3, <1>4

\* What is dropped moves from those held to those dropped.
LEMMA SomeDropped ==
  ASSUME RequestsAccountedFor, Silent, UNCHANGED <<requests, replies>>,
         NEW D, dropped' = dropped \cup D, Held = Held' \cup D, D \cap Held' = {}
  PROVE  RequestsAccountedFor' /\ Silent'
<1>1. Answered' = Answered
  BY DEF Answered
<1> QED
  BY <1>1 DEF RequestsAccountedFor, Silent, NoReply

LEMMA AccountStep == OrderInv /\ [Next]_vars => RequestsAccountedFor' /\ Silent'
<1> SUFFICES ASSUME OrderInv, [Next]_vars PROVE RequestsAccountedFor' /\ Silent'
  OBVIOUS
<1> USE DEF OrderInv, SyncInv
<1>t. /\ TypeOK /\ References /\ Closure /\ OneDecision
      /\ Len(requests) \in Nat /\ DOMAIN requests = 1..Len(requests)
  BY LenProperties DEF IInv, TypeOK
<1>n. /\ Arrived \subseteq DOMAIN requests /\ Waiting \subseteq DOMAIN requests
      /\ Asked \subseteq {i \in DOMAIN requests : ~IsCommand(requests[i])}
  BY <1>t, QueuesAreRequests
\* Nobody is in two places.
<1>d. /\ Arrived \cap Waiting = {} /\ Asked \cap (Waiting \cup Arrived) = {}
      /\ Closing \cap (Arrived \cup Waiting \cup Asked) = {}
  <2>1. Arrived \cap Waiting = {} /\ Asked \cap (Waiting \cup Arrived) = {}
    BY <1>t, <1>n DEF ArrivalOrder, Before
  <2>2. mode = "sending" => /\ current \notin Arrived /\ current \notin Waiting
                            /\ current \in DOMAIN requests /\ IsCommand(requests[current])
    BY <1>t, <1>n DEF ArrivalOrder, Before, Closure
  <2> QED
    BY <1>n, <2>1, <2>2 DEF Closing
\* Nobody moves, or from one place to the next.
<1>s. ASSUME UNCHANGED <<requests, replies, dropped>>, Held' = Held
      PROVE  RequestsAccountedFor' /\ Silent'
  <2>1. dropped' = dropped \cup {} /\ Held = Held' \cup {} /\ {} \cap Held' = {}
    BY <1>s
  <2> QED
    BY <1>s, <2>1, SomeDropped
<1>w. ASSUME UNCHANGED stash PROVE Waiting' = Waiting
  BY <1>w DEF Waiting, IdsOf
<1>m. ASSUME UNCHANGED mailbox PROVE Arrived' = Arrived
  BY <1>m DEF Arrived, IdsOf
<1>q. ASSUME UNCHANGED childMailbox PROVE Asked' = Asked
  BY <1>q DEF Asked, IdsOf
<1>h. Held = Arrived \cup Waiting \cup Asked \cup Closing
  BY DEF Held, Arrived, Waiting, Asked, Closing
<1>hp. Held' = Arrived' \cup Waiting' \cup Asked' \cup Closing'
  BY DEF Held, Arrived, Waiting, Asked, Closing, IdsOf
<1>1. ASSUME NEW c \in Clients, Ask(c) PROVE RequestsAccountedFor' /\ Silent'
  <2> DEFINE n == Len(requests) + 1
  <2>1. RequestMsg(n) \in ParentMessage /\ RequestMsg(n).type = "request" /\ RequestMsg(n).id = n
    BY <1>t DEF RequestMsg, ParentMessage
  <2>2. Arrived' = Arrived \cup {n}
    BY <1>1, <1>t, <2>1, ParentGets DEF Ask
  <2>3. Waiting' = Waiting /\ Asked' = Asked /\ Closing' = Closing
    BY <1>1, <1>w, <1>q DEF Ask, childVars, Closing
  <2>4. /\ DOMAIN requests' = 1..n /\ DOMAIN replies' = 1..n /\ DOMAIN replies = 1..Len(requests)
        /\ replies'[n] = NoReply /\ \A j \in DOMAIN replies : replies'[j] = replies[j]
    BY <1>1, <1>t, AppendProperties, LenProperties DEF Ask, TypeOK
  <2>5. \A j : j \in 1..n <=> j \in 1..Len(requests) \/ j = n
    BY <1>t
  <2>6. n \notin 1..Len(requests)
    BY <1>t
  <2>7. Answered' = Answered
    BY <2>4, <2>5 DEF Answered, NoReply
  <2>8. Held' = Held \cup {n} /\ n \notin Answered /\ n \notin dropped /\ dropped' = dropped
    BY <1>1, <1>h, <1>hp, <2>2, <2>3, <2>4, <2>6 DEF Ask, Answered, TypeOK, IInv
  <2>9. RequestsAccountedFor'
    BY <1>t, <2>4, <2>5, <2>7, <2>8 DEF RequestsAccountedFor
  <2> QED
    BY <2>4, <2>5, <2>9 DEF Silent, NoReply
<1>2. ASSUME ReplayEvent \/ RecoveryCompleted \/ JournalStores \/ JournalRejects
      PROVE  RequestsAccountedFor' /\ Silent'
  <2>1. Closing' = Closing
    BY <1>2 DEF ReplayEvent, RecoveryCompleted, JournalStores, JournalRejects, Closing
  <2>2. Arrived' = Arrived /\ Waiting' = Waiting
    BY <1>2, <1>w, <1>m DEF ReplayEvent, RecoveryCompleted, JournalStores, JournalRejects
  <2>3. Asked' = Asked
    <3>1. CASE ReplayEvent
      <4>1. ChildMsg("replay", replayed + 1) \in ChildMessage /\ ChildMsg("replay", replayed + 1).type # "query"
        BY <1>t DEF ChildMsg, ChildMessage, TypeOK
      <4> QED
        BY <1>t, <3>1, <4>1, ChildGets DEF ReplayEvent
    <3> QED
      BY <1>2, <1>q, <3>1 DEF RecoveryCompleted, JournalStores, JournalRejects, childVars
  <2>4. UNCHANGED <<requests, replies, dropped>>
    BY <1>2 DEF ReplayEvent, RecoveryCompleted, JournalStores, JournalRejects, clientVars
  <2> QED
    BY <1>h, <1>hp, <1>s, <2>1, <2>2, <2>3, <2>4
\* The parent takes a request.
<1>k. ASSUME mailbox # <<>>, mailbox' = Tail(mailbox)
      PROVE  LET m == Head(mailbox)
             IN  /\ m \in ParentMessage
                 /\ m.type = "request" => Arrived = Arrived' \cup {m.id} /\ m.id \notin Arrived'
                 /\ m.type # "request" => Arrived' = Arrived
  <2>1. Arrived' = IdsOf(Tail(mailbox), "request")
    BY <1>k DEF Arrived, IdsOf
  <2>2. Head(mailbox) \in ParentMessage /\ (Head(mailbox)).id \in Nat
    BY <1>t, <1>k, ParentTakes DEF ParentMessage
  <2> QED
    BY <1>t, <1>k, <2>1, <2>2, ParentTakes DEF Before
<1>3. ASSUME ReceiveCommand PROVE RequestsAccountedFor' /\ Silent'
  <2> DEFINE m == Head(mailbox)
  <2>1. m \in ParentMessage /\ Arrived = Arrived' \cup {m.id}
    BY <1>3, <1>k DEF ReceiveCommand
  <2>2. Waiting' = Waiting /\ Closing = {} /\ Closing' = {m.id}
    BY <1>3, <1>w DEF ReceiveCommand, Closing
  <2>3. Asked' = Asked
    <3>1. ChildMsg("command", m.id) \in ChildMessage /\ ChildMsg("command", m.id).type # "query"
      BY <2>1 DEF ChildMsg, ChildMessage, ParentMessage
    <3> QED
      BY <1>3, <1>t, <3>1, ChildGets DEF ReceiveCommand
  <2> QED
    BY <1>3, <1>h, <1>hp, <1>s, <2>1, <2>2, <2>3 DEF ReceiveCommand, clientVars
<1>4. ASSUME ForwardQuery PROVE RequestsAccountedFor' /\ Silent'
  <2> DEFINE m == Head(mailbox)
  <2>1. m \in ParentMessage /\ Arrived = Arrived' \cup {m.id} /\ m.id \notin Arrived'
    BY <1>4, <1>k DEF ForwardQuery
  <2>2. Waiting' = Waiting /\ Closing = {} /\ Closing' = {}
    BY <1>4, <1>w DEF ForwardQuery, Closing
  <2>3. /\ ChildMsg("query", m.id) \in ChildMessage /\ ChildMsg("query", m.id).type = "query"
        /\ ChildMsg("query", m.id).id = m.id
    BY <2>1 DEF ChildMsg, ChildMessage, ParentMessage
  <2>4. IF child = Dead THEN Asked' = Asked ELSE Asked' = Asked \cup {m.id}
    BY <1>4, <1>t, <2>3, ChildGets DEF ForwardQuery
  <2>5. CASE child # Dead
    <3>1. UNCHANGED <<requests, replies, dropped>>
      BY <1>4, <2>5 DEF ForwardQuery, clientVars
    <3>2. Held' = Held
      BY <1>h, <1>hp, <2>1, <2>2, <2>4, <2>5
    <3> QED
      BY <1>s, <3>1, <3>2
  <2>6. CASE child = Dead
    <3>1. dropped' = dropped \cup {m.id} /\ UNCHANGED <<requests, replies>>
      BY <1>4, <2>6 DEF ForwardQuery, clientVars
    <3>2. Held = Held' \cup {m.id} /\ {m.id} \cap Held' = {}
      BY <1>d, <1>h, <1>hp, <2>1, <2>2, <2>4, <2>6
    <3> QED
      BY <3>1, <3>2, SomeDropped
  <2> QED
    BY <2>5, <2>6
<1>5. ASSUME Stopped PROVE RequestsAccountedFor' /\ Silent'
  <2>1. /\ Arrived' = {} /\ Waiting' = {} /\ Asked' = {} /\ Closing' = {}
        /\ dropped' = dropped \cup Held /\ UNCHANGED <<requests, replies>>
    BY <1>5 DEF Stopped, Arrived, Waiting, Asked, IdsOf, Closing, clientVars
  <2>2. Held' = {}
    BY <1>hp, <2>1
  <2>3. Held = Held' \cup Held /\ Held \cap Held' = {}
    BY <2>2
  <2> QED
    BY <2>1, <2>3, SomeDropped
<1>6. ASSUME SendingSuccess PROVE RequestsAccountedFor' /\ Silent'
  <2>1. Arrived' = Arrived
    BY <1>6, <1>k DEF SendingSuccess
  <2>2. Waiting' = Waiting /\ Asked' = Asked /\ Closing' = Closing
    BY <1>6, <1>w, <1>q DEF SendingSuccess, childVars, Closing
  <2>3. UNCHANGED <<requests, replies, dropped>> /\ Held' = Held
    BY <1>6, <1>h, <1>hp, <2>1, <2>2 DEF SendingSuccess, clientVars
  <2> QED
    BY <1>s, <2>3
\* The closure replies and resumes.
<1>r. ASSUME mode = "sending", NEW rest \in Seq(ParentMessage), Resume(rest), Ascending(rest, "request"),
             IdsOf(rest, "request") = Arrived, UNCHANGED <<requests, childMailbox, dropped>>,
             NEW ok, replies' = [replies EXCEPT ![current] = Reply(ok, {})]
      PROVE  RequestsAccountedFor' /\ Silent'
  <2>1. Arrived' = Waiting \cup Arrived /\ Waiting' = {}
    BY <1>t, <1>r, Resumed
  <2>2. Asked' = Asked /\ Closing = {current} /\ Closing' = {}
    BY <1>q, <1>r DEF Closing, Resume
  <2>3. Held = Held' \cup {current} /\ current \notin Held'
    BY <1>d, <1>h, <1>hp, <2>1, <2>2
  <2>4. current \in DOMAIN requests
    BY <1>r, <1>t DEF Closure
  <2> QED
    BY <1>r, <1>t, <2>3, <2>4, OneAnswer
<1>7. ASSUME SendingFailure PROVE RequestsAccountedFor' /\ Silent'
  <2>1. /\ mailbox # <<>> /\ Head(mailbox).type = "response" /\ Resume(Tail(mailbox))
        /\ UNCHANGED <<requests, childMailbox, dropped>> /\ mode = "sending"
        /\ replies' = [replies EXCEPT ![current] = Reply((Head(mailbox)).ok, {})]
    BY <1>7 DEF SendingFailure, childVars
  <2>2. /\ Tail(mailbox) \in Seq(ParentMessage) /\ Ascending(Tail(mailbox), "request")
        /\ IdsOf(Tail(mailbox), "request") = Arrived
    BY <1>t, <2>1, ParentTakes
  <2> QED
    BY <1>r, <2>1, <2>2
<1>8. ASSUME Persisted PROVE RequestsAccountedFor' /\ Silent'
  <2>1. /\ Resume(mailbox) /\ mailbox \in Seq(ParentMessage) /\ Ascending(mailbox, "request")
        /\ UNCHANGED <<requests, childMailbox, dropped>> /\ mode = "sending"
        /\ replies' = [replies EXCEPT ![current] = Reply(write.ok, {})]
    BY <1>8, <1>t DEF Persisted, TypeOK, ArrivalOrder, childVars, Closure
  <2>2. IdsOf(mailbox, "request") = Arrived
    BY DEF Arrived
  <2> QED
    BY <1>r, <2>1, <2>2
<1>9. ASSUME SendingStash PROVE RequestsAccountedFor' /\ Silent'
  <2> DEFINE m == Head(mailbox)
  <2>1. /\ m \in ParentMessage /\ m.type # "response" /\ stash \in Seq(ParentMessage)
        /\ m.type = "request" => Arrived = Arrived' \cup {m.id}
        /\ m.type # "request" => Arrived' = Arrived
    BY <1>9, <1>k, <1>t DEF SendingStash, TypeOK
  <2>2. Asked' = Asked /\ Closing' = Closing /\ stash' = Append(stash, m)
    BY <1>9, <1>q DEF SendingStash, childVars, Closing
  <2>3. Waiting' = IdsOf(Append(stash, m), "request")
    BY <2>2 DEF Waiting, IdsOf
  <2>4. Arrived' \cup Waiting' = Arrived \cup Waiting
    <3>1. CASE m.type = "request"
      <4>1. Waiting' = Waiting \cup {m.id}
        BY <2>1, <2>3, <3>1, IdsAppendSame DEF Waiting
      <4> QED
        BY <2>1, <3>1, <4>1
    <3>2. CASE m.type # "request"
      <4>1. Waiting' = Waiting
        BY <2>1, <2>3, <3>2, AppendOther DEF Waiting
      <4> QED
        BY <2>1, <3>2, <4>1
    <3> QED
      BY <3>1, <3>2
  <2>5. UNCHANGED <<requests, replies, dropped>>
    BY <1>9 DEF SendingStash, clientVars
  <2>6. Held' = Held
    BY <1>h, <1>hp, <2>2, <2>4
  <2> QED
    BY <1>s, <2>5, <2>6
\* The child takes something.
<1>c. ASSUME childMailbox # <<>>, childMailbox' = Tail(childMailbox)
      PROVE  LET m == Head(childMailbox)
             IN  /\ m \in ChildMessage
                 /\ m.type = "query" => Asked = Asked' \cup {m.id} /\ m.id \notin Asked'
                 /\ m.type # "query" => Asked' = Asked
  <2>1. Asked' = IdsOf(Tail(childMailbox), "query")
    BY <1>c DEF Asked, IdsOf
  <2>2. Head(childMailbox) \in ChildMessage /\ (Head(childMailbox)).id \in Nat
    BY <1>t, <1>c, ChildTakes DEF ChildMessage
  <2> QED
    BY <1>t, <1>c, <2>1, <2>2, ChildTakes DEF Before
<1>10. ASSUME ChildReplays PROVE RequestsAccountedFor' /\ Silent'
  <2>1. Asked' = Asked
    BY <1>10, <1>c DEF ChildReplays
  <2>2. Arrived' = Arrived /\ Waiting' = Waiting /\ Closing' = Closing
    BY <1>10, <1>m, <1>w DEF ChildReplays, parentVars, Closing
  <2>3. UNCHANGED <<requests, replies, dropped>> /\ Held' = Held
    BY <1>10, <1>h, <1>hp, <2>1, <2>2 DEF ChildReplays, clientVars
  <2> QED
    BY <1>s, <2>3
<1>11. ASSUME ChildHandlesCommand PROVE RequestsAccountedFor' /\ Silent'
  <2> DEFINE m == ResponseMsg(current, Accepts(Durable, requests[current]))
  <2>1. Asked' = Asked /\ Waiting' = Waiting /\ Closing' = Closing
    BY <1>11, <1>c, <1>w DEF ChildHandlesCommand, Closing
  <2>2. mailbox' = mailbox \/ mailbox' = Append(mailbox, m)
    BY <1>11, CommandAtHead DEF ChildHandlesCommand
  <2>3. m \in ParentMessage /\ m.type # "request"
    BY <1>t DEF ResponseMsg, ParentMessage, Accepts, TypeOK
  <2>4. Arrived' = Arrived
    BY <1>m, <1>t, <2>2, <2>3, ParentGets
  <2>5. UNCHANGED <<requests, replies, dropped>> /\ Held' = Held
    BY <1>11, <1>h, <1>hp, <2>1, <2>4 DEF ChildHandlesCommand, clientVars
  <2> QED
    BY <1>s, <2>5
<1>12. ASSUME ChildAnswersQuery PROVE RequestsAccountedFor' /\ Silent'
  <2> DEFINE m == Head(childMailbox)
             a == Answer(child, ChildRequest(m))
  <2>1. m.type = "query" /\ Asked = Asked' \cup {m.id} /\ m.id \notin Asked'
    BY <1>12, <1>c DEF ChildAnswersQuery
  <2>2. Arrived' = Arrived /\ Waiting' = Waiting /\ Closing' = Closing
    BY <1>12, <1>m, <1>w DEF ChildAnswersQuery, parentVars, Closing
  <2>3. Held = Held' \cup {m.id} /\ m.id \notin Held'
    BY <1>d, <1>h, <1>hp, <2>1, <2>2
  <2>4. m.id \in DOMAIN requests /\ requests' = requests
    BY <1>12, <1>n, <2>1 DEF ChildAnswersQuery
  <2>5. CASE Answers(child, ChildRequest(m))
    <3>1. replies' = [replies EXCEPT ![m.id] = Reply(a.right, a.value)] /\ dropped' = dropped
      BY <1>12, <2>5 DEF ChildAnswersQuery
    <3> QED
      BY <1>t, <2>3, <2>4, <3>1, OneAnswer
  <2>6. CASE ~Answers(child, ChildRequest(m))
    <3>1. dropped' = dropped \cup {m.id} /\ replies' = replies
      BY <1>12, <2>6 DEF ChildAnswersQuery
    <3>2. {m.id} \cap Held' = {}
      BY <2>3
    <3> QED
      BY <2>3, <2>4, <3>1, <3>2, SomeDropped
  <2> QED
    BY <2>5, <2>6
<1>13. ASSUME ChildFails PROVE RequestsAccountedFor' /\ Silent'
  <2>1. TerminatedMsg \in ParentMessage /\ TerminatedMsg.type # "request"
    BY DEF TerminatedMsg, ParentMessage
  <2>2. Arrived' = Arrived /\ Waiting' = Waiting /\ Closing' = Closing
    BY <1>13, <1>t, <1>w, <2>1, ParentGets DEF ChildFails, Closing
  <2>3. Asked' = {} /\ dropped' = dropped \cup Asked /\ UNCHANGED <<requests, replies>>
    BY <1>13 DEF ChildFails, Asked, IdsOf, clientVars
  <2>4. Held = Held' \cup Asked /\ Asked \cap Held' = {}
    BY <1>d, <1>h, <1>hp, <2>2, <2>3
  <2> QED
    BY <2>3, <2>4, SomeDropped
<1>14. CASE UNCHANGED vars
  <2>1. Arrived' = Arrived /\ Waiting' = Waiting /\ Asked' = Asked /\ Closing' = Closing
    BY <1>14, <1>m, <1>w, <1>q DEF vars, Closing
  <2>2. UNCHANGED <<requests, replies, dropped>> /\ Held' = Held
    BY <1>14, <1>h, <1>hp, <2>1 DEF vars
  <2> QED
    BY <1>s, <2>2
<1> QED
  BY <1>1, <1>2, <1>3, <1>4, <1>5, <1>6, <1>7, <1>8, <1>9, <1>10, <1>11, <1>12, <1>13, <1>14
  DEF Next, ParentStep, ChildStep, Fault, ReceiveTerminated, Stop

-----------------------------------------------------------------------------
(* The decision.                                                           *)

\* A child that has decided has nothing left to do.
LEMMA DecidedIsIdle == OrderInv /\ [Next]_vars => (HasDecided' => childMailbox' = <<>>)
<1> SUFFICES ASSUME OrderInv, [Next]_vars, HasDecided' PROVE childMailbox' = <<>>
  OBVIOUS
<1> USE DEF OrderInv, SyncInv
<1>t. TypeOK /\ References /\ Closure /\ OneDecision /\ childMailbox \in Seq(ChildMessage)
  BY DEF IInv, TypeOK
<1>a. ASSUME UNCHANGED childMailbox, HasDecided PROVE childMailbox' = <<>>
  BY <1>a DEF DecidedOnce
<1>1. ASSUME NEW c \in Clients, Ask(c) PROVE childMailbox' = <<>>
  BY <1>1, <1>a DEF Ask, HasDecided, CommandAt, childVars
<1>2. CASE ReplayEvent \/ RecoveryCompleted \/ ForwardQuery \/ Stopped \/ SendingFailure \/ Persisted
  BY <1>2 DEF ReplayEvent, RecoveryCompleted, ForwardQuery, Stopped, SendingFailure, Persisted,
              Resume, HasDecided
<1>3. CASE ReceiveCommand
  <2>1. child = Dead
    BY <1>t, <1>3, SentUndecided
  <2> QED
    BY <1>t, <1>3, <2>1 DEF ReceiveCommand, SendToChild, References
<1>4. CASE SendingSuccess
  <2>1. (\A j \in Nat : ~CommandAt(j)) /\ write.status = "none"
    BY <1>t, <1>4, LastTrace DEF SendingSuccess
  <2>2. HasDecided
    BY <1>4, <2>1 DEF SendingSuccess, HasDecided
  <2> QED
    BY <1>4, <1>a, <2>2 DEF SendingSuccess, childVars
<1>5. CASE SendingStash
  BY <1>5, <1>a DEF SendingStash, HasDecided, CommandAt, childVars
<1>6. CASE JournalStores
  <2>1. write'.status = "stored"
    BY <1>6, <1>t DEF JournalStores, TypeOK
  <2> QED
    BY <2>1 DEF HasDecided
<1>7. CASE JournalRejects
  <2>1. HasDecided
    BY <1>t, <1>7, Quiet DEF JournalRejects, HasDecided, Closure
  <2> QED
    BY <1>7, <1>a, <2>1 DEF JournalRejects, childVars
<1>8. CASE ChildReplays \/ ChildAnswersQuery
  <2>1. /\ childMailbox # <<>> /\ childMailbox' = Tail(childMailbox)
        /\ Head(childMailbox).type # "command" /\ UNCHANGED <<mode, write>>
    BY <1>8 DEF ChildReplays, ChildAnswersQuery, parentVars
  <2>2. HasDecided
    BY <1>t, <2>1, StillDecided
  <2> QED
    BY <2>1, <2>2 DEF DecidedOnce
<1>9. CASE ChildHandlesCommand
  <2>1. Len(childMailbox) = 1 /\ childMailbox # <<>>
    BY <1>9, CommandAtHead DEF ChildHandlesCommand
  <2> QED
    BY <1>t, <1>9, <2>1, HeadTailProperties, EmptySeq DEF ChildHandlesCommand
<1>10. CASE ChildFails
  BY <1>10 DEF ChildFails
<1>11. CASE UNCHANGED vars
  BY <1>11, <1>a DEF vars, HasDecided, CommandAt
<1> QED
  BY <1>1, <1>2, <1>3, <1>4, <1>5, <1>6, <1>7, <1>8, <1>9, <1>10, <1>11
  DEF Next, ParentStep, ChildStep, Fault, ReceiveTerminated, Stop

LEMMA DecidedStep == OrderInv /\ [Next]_vars => DecidedOnce'
<1> SUFFICES ASSUME OrderInv, [Next]_vars PROVE DecidedOnce'
  OBVIOUS
<1> USE DEF OrderInv, SyncInv
<1>t. TypeOK /\ References /\ Closure /\ OneDecision /\ mailbox \in Seq(ParentMessage)
  BY DEF IInv, TypeOK
<1>i. HasDecided' => childMailbox' = <<>>
  BY DecidedIsIdle
\* The write and what it was decided against stay.
<1>a. ASSUME UNCHANGED <<states, journal, current, write>>,
             mode = "sending" => requests'[current] = requests[current]
      PROVE  DecidedOnce'
  <2>1. CASE write.status = "none"
    BY <1>a, <1>i, <2>1 DEF DecidedOnce
  <2>2. CASE write.status # "none"
    <3>1. requests'[current] = requests[current]
      BY <1>a, <1>t, <2>2 DEF Closure
    <3> QED
      BY <1>a, <1>i, <3>1 DEF DecidedOnce, Durable, Answers
  <2> QED
    BY <2>1, <2>2
<1>1. CASE SendingSuccess
  <2>1. ResponseAt(1) /\ mailbox[1] = Head(mailbox)
    BY <1>t, <1>1, Shift DEF SendingSuccess, ResponseAt
  <2>2. /\ Answers(Durable, requests[current])
        /\ (Head(mailbox)).ok = Accepts(Durable, requests[current])
    BY <2>1 DEF Verdict
  <2>3. write' = Write("inflight", (Head(mailbox)).ok) /\ IsSuccessResponse(requests[current], (Head(mailbox)).ok)
    BY <1>1 DEF SendingSuccess
  <2>4. UNCHANGED <<requests, current, journal, states>>
    BY <1>1 DEF SendingSuccess, clientVars, journalVars
  <2> QED
    BY <1>i, <2>2, <2>3, <2>4 DEF DecidedOnce, Write, Durable, Answers
<1>2. CASE JournalStores
  <2>1. write'.status = "stored" /\ write'.ok = write.ok /\ UNCHANGED <<requests, current>>
    BY <1>2, <1>t DEF JournalStores, TypeOK, clientVars
  <2>2. write.ok = Accepts(Durable, requests[current])
    BY <1>2 DEF JournalStores, DecidedOnce
  <2>3. /\ journal \in Seq(Event) /\ ToEvent(requests[current], current) \in Event
        /\ journal' = Append(journal, ToEvent(requests[current], current))
    BY <1>2, <1>t, ClientsAssumption, ConversionType DEF TypeOK, Closure, JournalStores
  <2>4. Len(journal) + 1 \in DOMAIN journal' /\ journal'[Len(journal) + 1].id = current
    BY <2>3, AppendProperties, LenProperties DEF ToEvent
  <2>5. states'[Len(journal) + 1] = Durable
    BY <1>2, StoredState DEF Durable
  <2> QED
    BY <1>i, <2>1, <2>2, <2>4, <2>5 DEF DecidedOnce
<1>3. CASE JournalRejects
  <2>1. write'.status = "rejected"
    BY <1>3, <1>t DEF JournalRejects, TypeOK
  <2> QED
    BY <1>i, <2>1 DEF DecidedOnce
<1>4. CASE Stopped \/ SendingFailure \/ Persisted
  <2>1. write'.status = "none"
    <3>1. CASE SendingFailure
      BY <1>t, <3>1, LastTrace DEF SendingFailure
    <3> QED
      BY <1>4, <3>1 DEF Stopped, Persisted, NoWrite
  <2> QED
    BY <1>i, <2>1 DEF DecidedOnce
<1>5. ASSUME NEW c \in Clients, Ask(c) PROVE DecidedOnce'
  <2>1. mode = "sending" => requests'[current] = requests[current]
    BY <1>5, <1>t DEF Ask, Closure, TypeOK
  <2> QED
    BY <1>5, <1>a, <2>1 DEF Ask, journalVars
<1>6. CASE ReceiveCommand
  <2>1. write'.status = "none"
    BY <1>6, <1>t DEF ReceiveCommand, Closure
  <2> QED
    BY <1>i, <2>1 DEF DecidedOnce
<1>7. CASE \/ ReplayEvent \/ RecoveryCompleted \/ ForwardQuery \/ SendingStash
           \/ ChildReplays \/ ChildHandlesCommand \/ ChildAnswersQuery \/ ChildFails
  BY <1>7, <1>a DEF ReplayEvent, RecoveryCompleted, ForwardQuery, SendingStash, ChildReplays,
     ChildHandlesCommand, ChildAnswersQuery, ChildFails, clientVars, parentVars, journalVars
<1>8. CASE UNCHANGED vars
  BY <1>8, <1>a DEF vars
<1> QED
  BY <1>1, <1>2, <1>3, <1>4, <1>5, <1>6, <1>7, <1>8
  DEF Next, ParentStep, ChildStep, Fault, ReceiveTerminated, Stop

LEMMA OrderInvHolds == Spec => []OrderInv
<1>1. SyncInv /\ [Next]_vars => SyncInv'
  BY NextIInv, StatesStep, RecoveredStep, BackloggedStep, ChildStateStep, VerdictStep DEF SyncInv
<1>2. OrderInv /\ [Next]_vars => OrderInv'
  BY <1>1, OrderStep, AccountStep, DecidedStep DEF OrderInv
<1> QED
  BY InitOrderInv, <1>2, PTL DEF Spec

(***************************************************************************)
(* The journal holds the accepted commands in the order in which they      *)
(* reached the parent, each at most once: whatever sending stashed comes   *)
(* back in front of what arrived later.                                    *)
(***************************************************************************)
THEOREM JournalInArrivalOrder == Spec => []StoredInArrivalOrder
<1>1. OrderInv => StoredInArrivalOrder
  BY DEF OrderInv, ArrivalOrder
<1> QED
  BY <1>1, OrderInvHolds, PTL

(***************************************************************************)
(* Every request is in exactly one place: answered, dropped by a stop, a   *)
(* dead child or a missing case, or held by one of the queues or the       *)
(* closure.  No path through stash, unstashAll, restart and failure loses  *)
(* one or answers one twice.                                               *)
(***************************************************************************)
THEOREM NobodyForgotten == Spec => []RequestsAccountedFor
<1>1. OrderInv => RequestsAccountedFor
  BY DEF OrderInv
<1> QED
  BY <1>1, OrderInvHolds, PTL

-----------------------------------------------------------------------------
(* Who waits, waits for something.                                         *)

(***************************************************************************)
(* A parent that is sending and has neither a command before the child nor *)
(* a write in progress has the child's response in its mailbox, unless the *)
(* child did not answer or is dead.  The response is to the current        *)
(* command.                                                                *)
(***************************************************************************)
Awaited ==
  /\ \A j \in Nat : ResponseAt(j) => mailbox[j].id = current
  /\ HasDecided /\ write.status = "none" =>
       (\E j \in Nat : ResponseAt(j)) \/ child = Dead \/ ~Answers(child, requests[current])
  /\ mode = "stopped" => mailbox = <<>>

\* The queue only grows at its end, by what is no response.
LEMMA ResponsesStay ==
  ASSUME NEW m \in ParentMessage, m.type # "response", mailbox \in Seq(ParentMessage),
         mailbox' = Append(mailbox, m)
  PROVE  /\ \A j \in Nat : ResponseAt(j)' <=> ResponseAt(j)
         /\ \A j \in Nat : ResponseAt(j) => mailbox'[j] = mailbox[j]
<1>1. /\ DOMAIN mailbox = 1..Len(mailbox) /\ DOMAIN mailbox' = 1..Len(mailbox) + 1
      /\ Len(mailbox) \in Nat /\ mailbox'[Len(mailbox) + 1] = m
      /\ \A j \in 1..Len(mailbox) : mailbox'[j] = mailbox[j]
  BY AppendProperties, LenProperties
<1>2. \A j \in 1..Len(mailbox) + 1 : j \in 1..Len(mailbox) \/ j = Len(mailbox) + 1
  BY <1>1
<1>3. \A j \in 1..Len(mailbox) : j \in 1..Len(mailbox) + 1
  BY <1>1
<1> QED
  BY <1>1, <1>2, <1>3 DEF ResponseAt

\* Every case for a command is in Handled: what has none changes nothing.
LEMMA UnansweredIsRefused ==
  ASSUME NEW b, NEW c, IsCommand(c), b.phase \in {"initial", "created", "destroyed"}, ~Answers(b, c)
  PROVE  After(b, c) = b
BY DEF After, Accepts, Answers, Handled, IsCommand

LEMMA AwaitedStep == OrderInv /\ Awaited /\ [Next]_vars => Awaited'
<1> SUFFICES ASSUME OrderInv, Awaited, [Next]_vars PROVE Awaited'
  OBVIOUS
<1> USE DEF OrderInv, SyncInv
<1>t. /\ TypeOK /\ References /\ Closure /\ OneDecision
      /\ mailbox \in Seq(ParentMessage) /\ childMailbox \in Seq(ChildMessage)
  BY DEF IInv, TypeOK
\* Nothing to wait for, and no response.
<1>a. ASSUME mode' \in {"ready", "recovering"} \/ mailbox' = <<>>, mode' # "sending",
             \A j \in DOMAIN mailbox' : mailbox'[j].type # "response",
             mode' = "stopped" => mailbox' = <<>>
      PROVE  Awaited'
  BY <1>a DEF Awaited, HasDecided, ResponseAt
<1>q. ASSUME mode # "sending" PROVE \A j \in DOMAIN mailbox : mailbox[j].type # "response"
  <2>1. \A j \in DOMAIN mailbox : j \in Nat
    BY <1>t, LenProperties
  <2> QED
    BY <1>q, <1>t, <2>1, Quiet DEF ResponseAt
<1>1. ASSUME NEW c \in Clients, Ask(c) PROVE Awaited'
  <2> DEFINE m == RequestMsg(Len(requests) + 1)
  <2>1. m \in ParentMessage /\ m.type # "response" /\ mailbox' = Append(mailbox, m)
    BY <1>1, <1>t, LenProperties DEF Ask, RequestMsg, ParentMessage, TypeOK
  <2> HIDE DEF m
  <2>2. CASE mode # "sending"
    <3>1. mode' \in {"ready", "recovering"}
      BY <1>1, <1>t, <2>2 DEF Ask, TypeOK
    <3>2. \A j \in DOMAIN mailbox' : mailbox'[j].type # "response"
      BY <1>q, <1>t, <2>1, <2>2, AppendQuiet
    <3> QED
      BY <1>a, <3>1, <3>2
  <2>3. CASE mode = "sending"
    <3>1. /\ mode' = "sending" /\ UNCHANGED <<current, write, child, childMailbox>>
          /\ requests'[current] = requests[current]
      BY <1>1, <1>t, <2>3 DEF Ask, childVars, Closure, TypeOK
    <3>2. HasDecided' <=> HasDecided
      BY <2>3, <3>1 DEF HasDecided, CommandAt
    <3> QED
      BY <1>t, <2>1, <3>1, <3>2, ResponsesStay DEF Awaited, Answers
  <2> QED
    BY <2>2, <2>3
<1>2. CASE ReplayEvent \/ RecoveryCompleted
  <2>1. mode = "recovering" /\ mode' \in {"recovering", "ready"} /\ mailbox' = mailbox
    BY <1>2 DEF ReplayEvent, RecoveryCompleted
  <2> QED
    BY <1>a, <1>q, <2>1
<1>3. CASE ForwardQuery
  <2>1. \A j \in DOMAIN mailbox' : mailbox'[j].type # "response"
    BY <1>3, <1>q, <1>t, Shift DEF ForwardQuery
  <2> QED
    BY <1>3, <1>a, <2>1 DEF ForwardQuery
<1>4. CASE Stopped
  BY <1>4, <1>a DEF Stopped
<1>5. CASE ReceiveCommand
  <2>1. \A j \in Nat : ~ResponseAt(j)'
    BY <1>5, <1>q, <1>t, Shift DEF ReceiveCommand, ResponseAt
  <2>2. HasDecided' => child' = Dead
    BY <1>5, <1>t, SentUndecided DEF ReceiveCommand
  <2> QED
    BY <1>5, <2>1, <2>2 DEF ReceiveCommand, Awaited
<1>6. CASE SendingSuccess
  <2>1. \A j \in DOMAIN mailbox' : mailbox'[j].type # "response"
    BY <1>6, <1>t, LastTrace DEF SendingSuccess
  <2>2. write'.status = "inflight" /\ mode' = "sending"
    BY <1>6 DEF SendingSuccess, Write
  <2> QED
    BY <2>1, <2>2 DEF Awaited, ResponseAt
<1>7. CASE SendingFailure
  <2>1. \A j \in DOMAIN mailbox' : mailbox'[j].type # "response"
    BY <1>7, <1>t, LastTrace, ParentReceives, ResumeIsQuiet DEF SendingFailure
  <2> QED
    BY <1>7, <1>a, <2>1 DEF SendingFailure, Resume
<1>8. CASE Persisted
  <2>1. \A j \in DOMAIN mailbox : mailbox[j].type # "response"
    <3>1. \A j \in DOMAIN mailbox : j \in Nat
      BY <1>t, LenProperties
    <3> QED
      BY <1>8, <1>t, <3>1, Quiet DEF Persisted, ResponseAt
  <2>2. \A j \in DOMAIN mailbox' : mailbox'[j].type # "response"
    BY <1>8, <1>t, <2>1, ResumeIsQuiet DEF Persisted, References
  <2> QED
    BY <1>8, <1>a, <2>2 DEF Persisted, Resume
<1>9. CASE SendingStash
  <2>1. /\ mode = "sending" /\ UNCHANGED <<requests, mode, current, write, child, childMailbox>>
        /\ mailbox # <<>> /\ Head(mailbox).type # "response" /\ mailbox' = Tail(mailbox)
    BY <1>9 DEF SendingStash, clientVars, childVars
  <2>2. HasDecided' <=> HasDecided
    BY <2>1 DEF HasDecided, CommandAt
  <2>3. /\ Len(mailbox) \in Nat \ {0} /\ DOMAIN mailbox = 1..Len(mailbox)
        /\ mailbox[1] = Head(mailbox) /\ DOMAIN mailbox' = 1..Len(mailbox) - 1
        /\ \A j \in 1..Len(mailbox) - 1 : mailbox'[j] = mailbox[j + 1]
    BY <1>t, <2>1, Shift, HeadTailProperties, LenProperties
  <2>4. ASSUME NEW j \in Nat, ResponseAt(j) PROVE j - 1 \in Nat /\ ResponseAt(j - 1)'
    <3>1. j \in 1..Len(mailbox) /\ j # 1
      BY <2>1, <2>3, <2>4 DEF ResponseAt
    <3>2. j - 1 \in 1..Len(mailbox) - 1 /\ (j - 1) + 1 = j /\ j - 1 \in Nat
      BY <2>3, <3>1
    <3> QED
      BY <2>3, <2>4, <3>2 DEF ResponseAt
  <2>5. \A j \in Nat : ResponseAt(j)' => j + 1 \in Nat /\ ResponseAt(j + 1) /\ mailbox'[j] = mailbox[j + 1]
    BY <1>t, <2>1, Shift DEF ResponseAt
  <2> QED
    BY <2>1, <2>2, <2>4, <2>5 DEF Awaited
<1>10. CASE JournalStores \/ JournalRejects
  <2>1. write'.status # "none" /\ mode' = "sending"
    BY <1>10, <1>t DEF JournalStores, JournalRejects, Closure, TypeOK
  <2>2. \A j \in Nat : ~ResponseAt(j)'
    BY <1>10, <1>t, Quiet DEF JournalStores, JournalRejects, ResponseAt
  <2> QED
    BY <2>1, <2>2 DEF Awaited
<1>11. CASE ChildReplays \/ ChildAnswersQuery
  <2>1. /\ childMailbox # <<>> /\ childMailbox' = Tail(childMailbox)
        /\ Head(childMailbox).type # "command" /\ UNCHANGED <<mode, write, mailbox, current>>
    BY <1>11 DEF ChildReplays, ChildAnswersQuery, parentVars
  <2>2. ~HasDecided'
    BY <1>t, <2>1, StillDecided DEF DecidedOnce
  <2> QED
    BY <2>1, <2>2 DEF Awaited, ResponseAt
<1>12. CASE ChildHandlesCommand
  <2> DEFINE m == Head(childMailbox)
             c == requests[current]
             r == ResponseMsg(current, Accepts(child, c))
  <2>1. /\ mode = "sending" /\ m.id = current /\ child # Dead
        /\ ChildRequest(m) = c /\ \A j \in Nat : ~ResponseAt(j)
    BY <1>12, <1>t, CommandAtHead DEF ChildHandlesCommand, OneDecision
  <2>2. IsCommand(c) /\ current \in Nat /\ child \in Behaviour
    BY <1>t, <2>1 DEF Closure, TypeOK
  <2>3. UNCHANGED <<requests, mode, current>> /\ child' = After(child, c)
    BY <1>12, <2>1 DEF ChildHandlesCommand, clientVars
  <2>4. CASE Answers(child, c)
    <3>1. mailbox' = Append(mailbox, r)
      BY <1>12, <2>1, <2>4 DEF ChildHandlesCommand
    <3>2. r.id = current /\ r.type = "response" /\ r \in ParentMessage
      BY <2>2, AfterType DEF ResponseMsg, ParentMessage, Accepts, Behaviour
    <3> HIDE DEF r
    <3>3. /\ DOMAIN mailbox = 1..Len(mailbox) /\ DOMAIN mailbox' = 1..Len(mailbox) + 1
          /\ Len(mailbox) \in Nat /\ mailbox'[Len(mailbox) + 1] = r
          /\ \A j \in 1..Len(mailbox) : mailbox'[j] = mailbox[j]
      BY <1>t, <3>1, <3>2, AppendProperties, LenProperties
    <3>4. \E j \in Nat : ResponseAt(j)'
      <4>1. PICK j \in Nat : j = Len(mailbox) + 1
        BY <3>3
      <4> QED
        BY <3>2, <3>3, <4>1 DEF ResponseAt
    <3>5. ASSUME NEW j \in Nat, ResponseAt(j)' PROVE mailbox'[j].id = current
      <4>1. j \in 1..Len(mailbox) \/ j = Len(mailbox) + 1
        BY <3>3, <3>5 DEF ResponseAt
      <4>2. j \notin 1..Len(mailbox)
        BY <2>1, <3>3, <3>5 DEF ResponseAt
      <4> QED
        BY <3>2, <3>3, <4>1, <4>2
    <3> QED
      BY <2>1, <2>3, <3>4, <3>5 DEF Awaited
  <2>5. CASE ~Answers(child, c)
    <3>1. mailbox' = mailbox
      BY <1>12, <2>1, <2>5 DEF ChildHandlesCommand
    <3>2. child' = child
      BY <2>2, <2>3, <2>5, UnansweredIsRefused DEF Behaviour
    <3> QED
      BY <2>1, <2>3, <2>5, <3>1, <3>2 DEF Awaited, ResponseAt, Answers
  <2> QED
    BY <2>4, <2>5
<1>13. CASE ChildFails
  <2>1. TerminatedMsg \in ParentMessage /\ TerminatedMsg.type # "response"
    BY DEF TerminatedMsg, ParentMessage
  <2>2. mailbox' = Append(mailbox, TerminatedMsg) /\ UNCHANGED <<mode, current>> /\ child' = Dead
    BY <1>13 DEF ChildFails
  <2>3. mode # "stopped"
    BY <1>13 DEF ChildFails, Recovered
  <2> QED
    BY <1>t, <2>1, <2>2, <2>3, ResponsesStay DEF Awaited
<1>14. CASE UNCHANGED vars
  BY <1>14 DEF vars, Awaited, HasDecided, CommandAt, ResponseAt, Answers
<1> QED
  BY <1>1, <1>2, <1>3, <1>4, <1>5, <1>6, <1>7, <1>8, <1>9, <1>10, <1>11, <1>12, <1>13, <1>14
  DEF Next, ParentStep, ChildStep, Fault, ReceiveTerminated, Stop

\* The command, the response or the write that the parent waits for, or nothing.
LEMMA WaitsForSomething == OrderInv /\ Awaited => NobodyWaitsInVain
<1> SUFFICES ASSUME OrderInv, Awaited PROVE NobodyWaitsInVain
  OBVIOUS
<1> USE DEF OrderInv, SyncInv
<1>t. /\ TypeOK /\ References /\ Closure /\ OneDecision
      /\ DOMAIN mailbox \subseteq Nat /\ DOMAIN childMailbox \subseteq Nat
  BY LenProperties DEF IInv, TypeOK
<1>1. stash # <<>> => mode = "sending"
  BY DEF ArrivalOrder
<1>2. ASSUME mode = "stopped" PROVE Held = {}
  <2>1. mailbox = <<>> /\ stash = <<>> /\ childMailbox = <<>>
    BY <1>1, <1>2 DEF Awaited, Recovered
  <2> QED
    BY <1>2, <2>1, IdsEmpty DEF Held
<1>3. ASSUME mode = "sending" PROVE DecisionUnderWay \/ Blocked
  <2>1. CASE \E j \in Nat : CommandAt(j)
    <3>1. IdsOf(childMailbox, "command") = {current}
      BY <1>t, <2>1, IdsMember DEF OneDecision, CommandAt
    <3> QED
      BY <3>1 DEF DecisionUnderWay
  <2>2. CASE \E j \in Nat : ResponseAt(j)
    <3>1. IdsOf(mailbox, "response") = {current}
      BY <1>t, <2>2, IdsMember DEF Awaited, ResponseAt
    <3> QED
      BY <3>1 DEF DecisionUnderWay
  <2>3. CASE \A j \in Nat : ~CommandAt(j) /\ ~ResponseAt(j)
    <3>1. IdsOf(childMailbox, "command") = {} /\ IdsOf(mailbox, "response") = {}
      BY <1>t, <2>3, IdsMember DEF CommandAt, ResponseAt
    <3>2. CASE write.status = "none"
      BY <1>3, <2>3, <3>1, <3>2 DEF Awaited, HasDecided, Blocked
    <3>3. CASE write.status # "none"
      BY <1>3, <1>t, <3>1, <3>3 DEF DecisionUnderWay, Blocked, TypeOK
    <3> QED
      BY <3>2, <3>3
  <2> QED
    BY <2>1, <2>2, <2>3
<1> QED
  BY <1>1, <1>2, <1>3 DEF NobodyWaitsInVain

(***************************************************************************)
(* Whatever stops, fails or is asked in between, a request that sending    *)
(* stashed is behind a decision that is on its way, and the only parents   *)
(* that wait for ever are the ones Blocked describes: the child has no     *)
(* case for the command or is dead, or the journal rejected the event.     *)
(***************************************************************************)
THEOREM WaitingIsForSomething == Spec => []NobodyWaitsInVain
<1>1. Init => Awaited
  BY DEF Init, Awaited, HasDecided, ResponseAt
<1>2. Spec => []Awaited
  BY <1>1, AwaitedStep, OrderInvHolds, PTL DEF Spec
<1> QED
  BY <1>2, OrderInvHolds, WaitsForSomething, PTL

-----------------------------------------------------------------------------
(* The refinement.                                                         *)

\* The operators of the instance are copies of the module's own.
LEMMA AtomicProtocol ==
  /\ Atomic!Initial = Initial
  /\ \A c : Atomic!IsCommand(c) = IsCommand(c)
  /\ \A c, i : Atomic!ToEvent(c, i) = ToEvent(c, i)
  /\ \A c, ok : Atomic!IsSuccessResponse(c, ok) = IsSuccessResponse(c, ok)
  /\ \A b, c : Atomic!Answers(b, c) = Answers(b, c)
  /\ \A ok, value : Atomic!Reply(ok, value) = Reply(ok, value)
<1>1. Atomic!Initial = Initial
  BY DEF Initial, Atomic!Initial, NoThread, Atomic!NoThread, NewThread, Atomic!NewThread,
     NotRemoved, Atomic!NotRemoved
<1>2. /\ \A c : Atomic!IsCommand(c) = IsCommand(c)
      /\ \A b, c : Atomic!Answers(b, c) = Answers(b, c)
      /\ \A c, ok : Atomic!IsSuccessResponse(c, ok) = IsSuccessResponse(c, ok)
      /\ \A ok, value : Atomic!Reply(ok, value) = Reply(ok, value)
  BY DEF IsCommand, Atomic!IsCommand, Answers, Atomic!Answers, Handled, Atomic!Handled, CommandOp,
     Atomic!CommandOp, QueryOp, Atomic!QueryOp, IsSuccessResponse, Atomic!IsSuccessResponse,
     Reply, Atomic!Reply
<1>3. \A c, i : Atomic!ToEvent(c, i) = ToEvent(c, i)
  BY DEF ToEvent, Atomic!ToEvent, EventTypeOf, Atomic!EventTypeOf
<1> QED
  BY <1>1, <1>2, <1>3

LEMMA AtomicCardinality == \A S : Atomic!Cardinality(S) = Cardinality(S)
BY DEF Cardinality, Atomic!Cardinality

LEMMA AtomicHandle ==
  ASSUME NEW t, NEW c, IsCommand(c)
  PROVE  Atomic!Handle(t, c) = Handle(t, c)
<1> USE DEF Either, Atomic!Either, IsRemoved, Atomic!IsRemoved, NotRemoved, Atomic!NotRemoved,
      MayAdminister, Atomic!MayAdminister, IsAdministratorId, Atomic!IsAdministratorId,
      MayRead, Atomic!MayRead, IsMemberId, Atomic!IsMemberId, Now, Atomic!Now
<1>1. Atomic!CommandCreate(t) = CommandCreate(t)
  BY DEF CommandCreate, Atomic!CommandCreate
<1>2. Atomic!CommandDestroy(t, c) = CommandDestroy(t, c)
  BY DEF CommandDestroy, Atomic!CommandDestroy, Destroy, Atomic!Destroy
<1>3. /\ Atomic!CommandJoinAdministratorIds(t, c) = CommandJoinAdministratorIds(t, c)
      /\ Atomic!CommandLeaveAdministratorIds(t, c) = CommandLeaveAdministratorIds(t, c)
  BY DEF CommandJoinAdministratorIds, Atomic!CommandJoinAdministratorIds, JoinAdministratorIds,
     Atomic!JoinAdministratorIds, CommandLeaveAdministratorIds, Atomic!CommandLeaveAdministratorIds,
     LeaveAdministratorIds, Atomic!LeaveAdministratorIds
<1>4. /\ Atomic!CommandJoinMemberIds(t, c) = CommandJoinMemberIds(t, c)
      /\ Atomic!CommandLeaveMemberIds(t, c) = CommandLeaveMemberIds(t, c)
  BY DEF CommandJoinMemberIds, Atomic!CommandJoinMemberIds, CommandLeaveMemberIds,
     Atomic!CommandLeaveMemberIds, JoinMemberIds, Atomic!JoinMemberIds
<1>5. Atomic!CommandAddMessages(t, c) = CommandAddMessages(t, c)
  BY AtomicCardinality DEF CommandAddMessages, Atomic!CommandAddMessages, AddMessages, Atomic!AddMessages,
     MessagesOf, Atomic!MessagesOf
<1>6. Atomic!CommandRemoveMessages(t, c) = CommandRemoveMessages(t, c)
  BY DEF CommandRemoveMessages, Atomic!CommandRemoveMessages, RemoveMessages, Atomic!RemoveMessages
<1> QED
  BY <1>1, <1>2, <1>3, <1>4, <1>5, <1>6 DEF Handle, Atomic!Handle, IsCommand, CommandOp

LEMMA AtomicThread ==
  /\ \A b, c : IsCommand(c) => Atomic!Accepts(b, c) = Accepts(b, c)
  /\ \A b, c : IsCommand(c) => Atomic!After(b, c) = After(b, c)
  /\ \A b, c : Atomic!Answer(b, c) = Answer(b, c)
<1>1. \A b, c : IsCommand(c) => Atomic!Accepts(b, c) = Accepts(b, c)
  BY AtomicHandle DEF Accepts, Atomic!Accepts
<1>2. \A b, c : IsCommand(c) => Atomic!After(b, c) = After(b, c)
  BY <1>1, AtomicHandle DEF After, Atomic!After, OnCreated, Atomic!OnCreated, OnDestroyed,
     Atomic!OnDestroyed, NoThread, Atomic!NoThread, NewThread, Atomic!NewThread,
     NotRemoved, Atomic!NotRemoved
<1>3. \A b, c : Atomic!Answer(b, c) = Answer(b, c)
  BY DEF Answer, Atomic!Answer, EitherValue, Atomic!EitherValue, GetAdministratorIds,
     Atomic!GetAdministratorIds, GetMemberIds, Atomic!GetMemberIds, GetMessages,
     Atomic!GetMessages, IsRemoved, Atomic!IsRemoved, NotRemoved, Atomic!NotRemoved,
     MayRead, Atomic!MayRead, IsMemberId, Atomic!IsMemberId, Now, Atomic!Now
<1> QED
  BY <1>1, <1>2, <1>3

LEMMA AtomicInit == Init => Atomic!Init
BY AtomicProtocol DEF Init, Atomic!Init

LEMMA AtomicStep == OrderInv /\ [Next]_vars => [Atomic!Next]_(Atomic!vars)
<1> SUFFICES ASSUME OrderInv, [Next]_vars PROVE Atomic!Next \/ UNCHANGED Atomic!vars
  OBVIOUS
<1> USE DEF OrderInv, SyncInv
<1>t. TypeOK /\ References /\ Closure /\ OneDecision /\ mailbox \in Seq(ParentMessage)
  BY DEF IInv, TypeOK
<1>d. DOMAIN replies = DOMAIN requests /\ Atomic!Durable = Durable
  BY <1>t, LenProperties DEF TypeOK, Atomic!Durable, Durable
\* A request that is held has had no answer.
<1>n. \A i \in Held : i \in DOMAIN requests /\ replies[i] = Atomic!NoReply
  BY <1>d DEF RequestsAccountedFor, Answered, Silent, NoReply, Atomic!NoReply
<1>c. ASSUME mode = "sending"
      PROVE  /\ current \in DOMAIN requests /\ IsCommand(requests[current])
             /\ replies[current] = Atomic!NoReply
             /\ write.status # "stored" => ~Atomic!Recorded(current)
  <2>1. current \in Held /\ IsCommand(requests[current])
    BY <1>t, <1>c DEF Held, Closure
  <2>2. write.status # "stored" => ~Atomic!Recorded(current)
    <3>1. current \in Nat
      BY <1>t DEF TypeOK
    <3>2. write.status # "stored" => current \notin Stored
      BY <1>c, <3>1 DEF ArrivalOrder, Before
    <3> QED
      BY <3>2 DEF Stored, Atomic!Recorded
  <2> QED
    BY <1>n, <2>1, <2>2
<1>1. ASSUME NEW c \in Clients, Ask(c) PROVE Atomic!Next
  <2>1. Atomic!Submit(c)
    BY <1>1 DEF Ask, Atomic!Submit, NoReply, Atomic!NoReply, journalVars
  <2> QED
    BY <2>1 DEF Atomic!Next
<1>2. CASE SendingFailure
  <2>1. /\ mode = "sending" /\ mailbox # <<>> /\ (Head(mailbox)).type = "response"
        /\ ~IsSuccessResponse(requests[current], (Head(mailbox)).ok)
        /\ replies' = [replies EXCEPT ![current] = Reply((Head(mailbox)).ok, {})]
        /\ UNCHANGED <<requests, journal, states>>
    BY <1>2 DEF SendingFailure, journalVars
  <2>2. ResponseAt(1) /\ mailbox[1] = Head(mailbox) /\ write.status = "none"
    BY <1>t, <2>1, Shift, LastTrace DEF ResponseAt
  <2>3. (Head(mailbox)).ok = FALSE
    BY <1>t, <2>1, HeadTailProperties DEF IsSuccessResponse, ParentMessage
  <2>4. Answers(Durable, requests[current]) /\ ~Accepts(Durable, requests[current])
    BY <2>2, <2>3 DEF Verdict
  <2>5. Atomic!Refuse(current)
    BY <1>c, <1>d, <2>1, <2>2, <2>3, <2>4, AtomicProtocol, AtomicThread
    DEF Atomic!Refuse, Atomic!Undecided
  <2> QED
    BY <1>c, <2>1, <2>5 DEF Atomic!Next
<1>3. CASE JournalStores
  <2> DEFINE c == requests[current]
  <2>1. mode = "sending" /\ write.status = "inflight" /\ UNCHANGED <<requests, replies>>
    BY <1>3, <1>t DEF JournalStores, Closure, clientVars
  <2>2. c \in Request /\ current \in Nat
    BY <1>c, <1>t, <2>1, ClientsAssumption DEF TypeOK
  <2>3. /\ journal' = Append(journal, ToEvent(c, current))
        /\ states' = Append(states, After(Durable, c))
    BY <1>3, <1>c, <2>1, <2>2, ReplayIsTheCommand DEF JournalStores
  <2>4. Answers(Durable, c) /\ IsSuccessResponse(c, Accepts(Durable, c))
    BY <2>1 DEF DecidedOnce
  <2>5. Atomic!Record(current)
    BY <1>c, <1>d, <2>1, <2>3, <2>4, AtomicProtocol, AtomicThread DEF Atomic!Record, Atomic!Undecided
  <2> QED
    BY <1>c, <2>1, <2>5 DEF Atomic!Next
<1>4. CASE Persisted
  <2>1. /\ mode = "sending" /\ write.status = "stored" /\ UNCHANGED <<requests, journal, states>>
        /\ replies' = [replies EXCEPT ![current] = Reply(write.ok, {})]
    BY <1>4, <1>t DEF Persisted, Closure, journalVars
  <2>2. PICK k \in DOMAIN journal : journal[k].id = current /\ write.ok = Accepts(states[k], requests[current])
    BY <2>1 DEF DecidedOnce
  <2>3. Atomic!Acknowledge(current)
    BY <1>c, <2>1, <2>2, AtomicProtocol, AtomicThread DEF Atomic!Acknowledge
  <2> QED
    BY <1>c, <2>1, <2>3 DEF Atomic!Next
<1>5. CASE ChildAnswersQuery
  <2> DEFINE m == Head(childMailbox)
             c == ChildRequest(m)
             a == Answer(child, c)
  <2>1. /\ childMailbox # <<>> /\ m.type = "query" /\ UNCHANGED <<requests, journal, states>>
        /\ m \in Processable
    BY <1>5, <1>t, ChildReceives DEF ChildAnswersQuery, journalVars
  <2>2. c = requests[m.id] /\ ~IsCommand(c) /\ m.id \in DOMAIN requests
    BY <2>1 DEF ChildRequest, Processable
  <2>3. child # Dead /\ ~HasDecided
    BY <1>t, <2>1 DEF References, DecidedOnce
  <2>4. applied = replayed /\ mode # "recovering" /\ mode # "stopped"
    <3>1. /\ childMailbox \in Seq(ChildMessage) /\ applied \in Nat /\ replayed \in Nat
      BY <1>t, LenProperties DEF TypeOK
    <3>2. applied = replayed
      BY <2>1, <2>3, <3>1, BacklogTail DEF Backlogged
    <3>3. mode # "recovering"
      BY <2>1, <2>3, <3>1, <3>2, LenProperties, EmptySeq DEF Backlogged
    <3> QED
      BY <2>1, <3>2, <3>3 DEF Recovered
  <2>5. child = Durable
    <3>1. mode \in {"ready", "sending"}
      BY <1>t, <2>4 DEF TypeOK
    <3> QED
      BY <2>3, <2>4, <3>1, DurableIsNext DEF ChildState
  <2>6. replies[m.id] = Atomic!NoReply
    <3>1. m.id \in IdsOf(childMailbox, "query")
      <4>1. childMailbox \in Seq(ChildMessage) /\ 1 \in DOMAIN childMailbox /\ m = childMailbox[1]
        BY <1>t, <2>1, LenProperties, EmptySeq, HeadTailProperties DEF TypeOK
      <4> QED
        BY <2>1, <4>1 DEF IdsOf
    <3> QED
      BY <1>n, <3>1 DEF Held
  <2>7. CASE Answers(child, c)
    <3>1. replies' = [replies EXCEPT ![m.id] = Reply(a.right, a.value)]
      BY <1>5, <2>7 DEF ChildAnswersQuery
    <3>2. Atomic!AnswerQuery(m.id)
      BY <1>d, <2>1, <2>2, <2>5, <2>6, <2>7, <3>1, AtomicProtocol, AtomicThread DEF Atomic!AnswerQuery
    <3> QED
      BY <2>2, <3>2 DEF Atomic!Next
  <2>8. CASE ~Answers(child, c)
    BY <1>5, <2>1, <2>8 DEF ChildAnswersQuery, Atomic!vars
  <2> QED
    BY <2>7, <2>8
<1>6. CASE \/ ReplayEvent \/ RecoveryCompleted \/ ReceiveCommand \/ ForwardQuery \/ Stopped
           \/ SendingSuccess \/ SendingStash \/ JournalRejects \/ ChildReplays
           \/ ChildHandlesCommand \/ ChildFails
  BY <1>6 DEF ReplayEvent, RecoveryCompleted, ReceiveCommand, ForwardQuery, Stopped,
     SendingSuccess, SendingStash, JournalRejects, ChildReplays, ChildHandlesCommand, ChildFails,
     clientVars, journalVars, Atomic!vars
<1>7. CASE UNCHANGED vars
  BY <1>7 DEF vars, Atomic!vars
<1> QED
  BY <1>1, <1>2, <1>3, <1>4, <1>5, <1>6, <1>7
  DEF Next, ParentStep, ChildStep, Fault, ReceiveTerminated, Stop

(***************************************************************************)
(* The two actors with their queues, stash and restarts implement the      *)
(* thread that decides every command in one step against its journal.      *)
(***************************************************************************)
THEOREM ActorsImplementThread == Spec => ImplementsEventSourcedThread
<1> QED
  BY AtomicInit, AtomicStep, OrderInvHolds, PTL DEF Spec, ImplementsEventSourcedThread, Atomic!Spec

=============================================================================
