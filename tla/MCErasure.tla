------------------------------ MODULE MCErasure ------------------------------
EXTENDS Erasure, TLC

CONSTANTS i1, i2, ann, bob, t1, t2

TwoInvites == {i1, i2}
TwoEmails == {ann, bob}
OneThread == {t1}
TwoThreads == {t1, t2}

\* Two candidates on one link; one candidate on two.
TwoSittings ==
  {[j \in Invites |-> IF j = i THEN Emails ELSE {}] : i \in Invites}
    \cup {[j \in Invites |-> {e}] : e \in Emails}

Interchangeable ==
  Permutations(Invites) \cup Permutations(Emails)
=============================================================================
