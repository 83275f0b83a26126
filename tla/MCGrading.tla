----------------------------- MODULE MCGrading -----------------------------
(* Instances of Grading for TLC. *)
EXTENDS Grading, TLC

CONSTANTS s1, s2, t1, t2

OneSub  == {s1}
TwoSubs == {s1, s2}
NoSubs  == {}
TwoThreads == {t1, t2}

Interchangeable == Permutations(Threads)
=============================================================================
