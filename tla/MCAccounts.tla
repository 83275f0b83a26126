----------------------------- MODULE MCAccounts -----------------------------
(* Small instances of Accounts for TLC. *)
EXTENDS Accounts, TLC

CONSTANTS i1, i2, e1, e2, e3, t1, t2

TwoIds == {i1, i2}
ThreeEmails == {e1, e2, e3}
TwoThreads == {t1, t2}

Interchangeable == Permutations(Ids) \cup Permutations(Emails) \cup Permutations(Threads)
=============================================================================
