------------------------------ MODULE MCRoster ------------------------------
(* Small instances of Roster for TLC. *)
EXTENDS Roster, TLC

CONSTANTS p1, p2, p3, t1, t2, o1, o2, i1, i2

ThreePeople == {p1, p2, p3}
TwoThreads == {t1, t2}
TwoOrgs == {o1, o2}
TwoInvites == {i1, i2}

Interchangeable ==
  Permutations(People) \cup Permutations(Threads) \cup Permutations(Orgs)
    \cup Permutations(Invites)
=============================================================================
