-------------------------- MODULE MCThreadLifecycle --------------------------
(***************************************************************************)
(* Instances of ThreadLifecycle for TLC: two threads, Ints from -4 to 3,   *)
(* three partitions; hashes of both signs, in one tag and in two, and the  *)
(* smallest.                                                               *)
(***************************************************************************)
EXTENDS ThreadLifecycle, TLC

CONSTANTS t1, t2

MCThreads == {t1, t2}
MCMinInt == -4
MCHashes == {t1 :> -1 @@ t2 :> 1, t1 :> -1 @@ t2 :> 3, t1 :> -4 @@ t2 :> 2}

=============================================================================
