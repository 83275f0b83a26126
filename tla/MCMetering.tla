----------------------------- MODULE MCMetering -----------------------------
(* Instances of Metering for TLC. *)
EXTENDS Metering, TLC

CONSTANTS t1, t2

TwoThreads == {t1, t2}
Interchangeable == Permutations(Threads)
=============================================================================
