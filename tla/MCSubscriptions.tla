-------------------------- MODULE MCSubscriptions --------------------------
(* Small instances of Subscriptions for TLC. *)
EXTENDS Subscriptions, TLC

CONSTANTS o1, s1, s2, c1, c2, t1, t2, w1, starter

OneOrg == {o1}
TwoSubs == {s1, s2}
TwoCustomers == {c1, c2}
OnePlan == {starter}
TwoThreads == {t1, t2}
OneWorker == {w1}
=============================================================================
