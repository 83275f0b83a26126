----------------------------- MODULE MCSittings -----------------------------
(* Instances of Sittings for TLC. *)
EXTENDS Sittings, TLC

CONSTANTS t1, t2, cat, ann, bob, q1, q2, q3

TwoThreads == {t1, t2}
OneEmail == {cat}
TwoNames == {ann, bob}
\* A fixed slot and a slot that draws from a variant set of two.
TwoSlots == {1, 2}
SecondSlot == {2}
ApartPool == <<<<q1>>, <<q2, q3>>>>

Interchangeable == Permutations(Threads) \cup Permutations(Names)
=============================================================================
