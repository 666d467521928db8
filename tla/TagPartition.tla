---------------------------- MODULE TagPartition ----------------------------
(***************************************************************************)
(* The two computations of a thread's tag: the one its events are written  *)
(* with (JournalEventTagPartitioner) and the one its updater is started    *)
(* for (ThreadTag.fromThreadId).  Both hash the ThreadId to an Int and     *)
(* reduce it to one of numPartition numbers; the names made of the numbers *)
(* are equal when these are (the category is "thread" in every setting).   *)
(*                                                                         *)
(* MinInt is Int.MinValue, so that MinInt .. -MinInt - 1 is Int.           *)
(***************************************************************************)
EXTENDS Integers

CONSTANTS MinInt, NumPartition

ASSUME PartitionAssumption ==
  /\ MinInt \in Int /\ MinInt < 0
  /\ NumPartition \in 1 .. -MinInt - 1

Hash == MinInt .. -MinInt - 1
Tag == -NumPartition + 1 .. NumPartition - 1

\* Math.abs: the smallest Int is its own absolute value.
Abs(x) == IF x < 0 /\ x # MinInt THEN -x ELSE x

\* The operator % of the JVM: the remainder has the sign of the dividend.
Remainder(x, n) == IF x < 0 THEN -((-x) % n) ELSE x % n

\* JournalEventTagPartitioner.partition
Partition(h) == Abs(Remainder(h, NumPartition))

\* Bugs the runs must notice: no remainder; no absolute value.
MutFromThreadId(h) == Abs(h)
MutSignedFromThreadId(h) == Remainder(h, NumPartition)

\* ThreadTag.fromThreadId
FromThreadId(h) == Remainder(Abs(h), NumPartition)

=============================================================================
