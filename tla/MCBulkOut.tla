------------------------------ MODULE MCBulkOut ------------------------------
(* Instances of BulkOut for TLC: the sending threads are interchangeable.   *)
EXTENDS BulkOut, TLC

ThreadSymmetry == Permutations(Threads)
=============================================================================
