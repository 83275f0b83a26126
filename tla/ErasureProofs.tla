---------------------------- MODULE ErasureProofs ----------------------------
(***************************************************************************)
(* Proofs about Erasure, for every number of invitations, addresses,       *)
(* handlers, requests and erasures, however they overlap.                  *)
(***************************************************************************)
EXTENDS Erasure, TLAPS

-----------------------------------------------------------------------------
(***************************************************************************)
(* Types.  A thread that is not idle knows whom it works for.              *)
(***************************************************************************)
Knows(l) ==
  /\ l.pc \in {"candidate", "deliver"} => l.inv \in Invites
  /\ l.pc \in {"candidate", "request"} => l.email \in Emails
  /\ l.pc = "candidate" => l.todo # <<>>
  /\ l.pc \in {"request", "sweep"} => l.n \in 1..MaxErasures

Typed == TypeOK /\ \A t \in Threads : Knows(th[t])

LEMMA IdleType == Idle \in Thread /\ Knows(Idle) /\ Idle.pc = "idle"
<1>1. Unsent \in Invite
  BY DEF Unsent, Invite
<1>2. <<>> \in Seq(Commits)
  OBVIOUS
<1> DEFINE none == [i \in Invites |-> Unsent]
<1>3. none \in [Invites -> Invite]
  BY <1>1
<1>4. Idle = [pc |-> "idle", inv |-> NoInvite, email |-> NoEmail, todo |-> <<>>, n |-> 0,
              old |-> none, new |-> none, sittings |-> {}, found |-> {}]
  BY DEF Idle
<1> HIDE DEF none
<1> QED
  BY <1>2, <1>3, <1>4 DEF Thread, Knows

LEMMA PlanType ==
  ASSUME NEW k \in DOMAIN Plan
  PROVE  Plan[k] \in Seq(Commits) /\ Plan[k] # <<>>
<1>1. k \in {"start", "submit", "draft", "event", "feedback"}
  BY DEF Plan
<1>2. /\ <<"attempt", "mark">> \in Seq(Commits) /\ <<"mark", "attempt", "submission">> \in Seq(Commits)
      /\ <<"mark", "draft">> \in Seq(Commits) /\ <<"mark">> \in Seq(Commits)
      /\ <<"feedback">> \in Seq(Commits)
  BY DEF Commits
<1>3. /\ Plan["start"] = <<"attempt", "mark">> /\ Plan["submit"] = <<"mark", "attempt", "submission">>
      /\ Plan["draft"] = <<"mark", "draft">> /\ Plan["event"] = <<"mark">>
      /\ Plan["feedback"] = <<"feedback">>
  BY DEF Plan
<1>4. /\ <<"attempt", "mark">> # <<>> /\ <<"mark", "attempt", "submission">> # <<>>
      /\ <<"mark", "draft">> # <<>> /\ <<"mark">> # <<>> /\ <<"feedback">> # <<>>
  OBVIOUS
<1> HIDE DEF Plan
<1> QED
  BY <1>1, <1>2, <1>3, <1>4, Zenon

\* A table whose rows were updated in place.
LEMMA RowsSeq ==
  ASSUME NEW S, NEW s \in Seq(S), NEW g \in [DOMAIN s -> S]
  PROVE  g \in Seq(S)
<1>1. DOMAIN s = 1..Len(s) /\ Len(s) \in Nat
  OBVIOUS
<1>2. g \in [1..Len(s) -> S]
  BY <1>1
<1> QED
  BY <1>1, <1>2

\* A thread goes on, idle or with what it knows.
LEMMA GotoType ==
  ASSUME Typed, NEW t \in Threads, NEW l \in Thread, Knows(l), Goto(t, l)
  PROVE  th' \in [Threads -> Thread] /\ \A u \in Threads : Knows(th'[u])
BY DEF Typed, TypeOK, Goto

LEMMA ListsType ==
  ASSUME Typed, NEW t \in Threads
  PROVE  ListsWritten(th[t]) \in [Invites -> Invite]
<1>1. \A i \in Invites : th[t].old[i] \in Invite /\ th[t].new[i] \in Invite /\ lists[i] \in Invite
  BY DEF Typed, TypeOK, Thread
<1> QED
  BY <1>1 DEF ListsWritten, Column, Invite

LEMMA InHandType ==
  ASSUME Typed, NEW t \in Threads
  PROVE  InHand(t) \subseteq Sittings
<1>1. CASE At(t, "candidate")
  BY <1>1 DEF InHand, At, Erasing, Typed, Knows, Sittings
<1>2. CASE At(t, "deliver")
  BY <1>2 DEF InHand, At, Erasing, Typed, Knows, Sittings
<1>3. CASE Erasing(t)
  BY <1>3 DEF InHand, At, Erasing
<1>4. CASE ~ At(t, "candidate") /\ ~ At(t, "deliver") /\ ~ Erasing(t)
  BY <1>4 DEF InHand, At, Erasing
<1> QED
  BY <1>1, <1>2, <1>3, <1>4

LEMMA WrittenType ==
  ASSUME Typed, NEW t \in Threads
  PROVE  Written(t, InHand(t)) \subseteq Sittings
BY InHandType DEF Written, Typed, TypeOK

LEMMA FoundType ==
  ASSUME Typed, NEW P \in SUBSET Sittings
  PROVE  Found(P) \subseteq [id : Nat, email : Emails]
<1>1. ASSUME NEW m \in DOMAIN subs, <<subs[m].inv, subs[m].who>> \in P
      PROVE  m \in Nat /\ subs[m].who \in Emails
  BY <1>1 DEF Typed, TypeOK, Sittings
<1>2. SUFFICES ASSUME NEW f \in Found(P) PROVE f \in [id : Nat, email : Emails]
  OBVIOUS
<1>3. PICK m \in DOMAIN subs : <<subs[m].inv, subs[m].who>> \in P /\ f = [id |-> m, email |-> subs[m].who]
  BY DEF Found
<1> QED
  BY <1>1, <1>3

\* One commit of a candidate's request.
LEMMA CommittedType ==
  ASSUME Typed, NEW t \in Threads, At(t, "candidate"), Committed(t)
  PROVE  /\ th' \in [Threads -> Thread] /\ \A u \in Threads : Knows(th'[u])
         /\ overlapped' \subseteq Sittings
         /\ UNCHANGED <<addressed, sent, aged, lists, requests, erasures, forgotten>>
<1>1. th[t] \in Thread /\ Knows(th[t]) /\ th[t].pc = "candidate"
  BY DEF Typed, TypeOK, At
<1>2. th[t].todo \in Seq(Commits) /\ th[t].todo # <<>>
  BY <1>1 DEF Thread, Knows
<1>3. Tail(th[t].todo) \in Seq(Commits)
  BY <1>2
<1> DEFINE l == [th[t] EXCEPT !.todo = Tail(@)]
<1>5. l \in Thread
  BY <1>1, <1>3 DEF Thread
<1>6. l.pc = th[t].pc /\ l.inv = th[t].inv /\ l.email = th[t].email /\ l.n = th[t].n
      /\ l.todo = Tail(th[t].todo)
  BY <1>1 DEF Thread
<1>7. Tail(th[t].todo) # <<>> => Knows(l)
  BY <1>1, <1>6 DEF Knows
<1>8. Goto(t, IF Tail(th[t].todo) = <<>> THEN Idle ELSE l)
  BY DEF Committed
<1>9. UNCHANGED <<addressed, sent, aged, lists, requests, erasures, forgotten>>
  BY DEF Committed, posted
<1> HIDE DEF l
<1>10. \E m \in Thread : Knows(m) /\ Goto(t, m)
  BY <1>5, <1>7, <1>8, IdleType
<1>11. th' \in [Threads -> Thread] /\ \A u \in Threads : Knows(th'[u])
  BY <1>10, GotoType
<1> QED
  BY <1>9, <1>11, WrittenType DEF Committed

LEMMA TombstoneType ==
  ASSUME Typed, NEW t \in Threads, Erasing(t), NEW i \in Invites, NEW e \in Emails
  PROVE  Tombstone(t, i, e) \in Tombstones
BY DEF Typed, Knows, Erasing, Tombstone, Tombstones

LEMMA TypedInit == Init => Typed
<1> SUFFICES ASSUME Init PROVE Typed
  OBVIOUS
<1>1. Unsent \in Invite
  BY DEF Unsent, Invite
<1>2. \A t \in Threads : th[t] = Idle
  BY DEF Init
<1> QED
  BY <1>1, <1>2, IdleType, ErasureAssumption DEF Init, Typed, TypeOK

LEMMA TypedStep == Typed /\ [Next]_vars => Typed'
<1> SUFFICES ASSUME Typed, [Next]_vars PROVE Typed'
  OBVIOUS
<1> USE DEF posted, person, history
<1>1. ASSUME NEW t \in Threads, NEW i \in Invites, CreateInvite(t, i)
      PROVE  Typed'
  <2> DEFINE made == [lists EXCEPT ![i] = [to |-> addressed[i], log |-> {}]]
             full == [made EXCEPT ![i].log = addressed[i]]
             l == [Idle EXCEPT !.pc = "deliver", !.inv = i, !.old = made, !.new = full]
  <2>1. addressed[i] \subseteq Emails
    BY DEF Typed, TypeOK
  <2>2. made \in [Invites -> Invite] /\ full \in [Invites -> Invite]
    BY <2>1 DEF Typed, TypeOK, Invite
  <2>3. lists' = made /\ Goto(t, l) /\ sent' = sent \cup {i}
        /\ UNCHANGED <<addressed, aged, attempts, subs, rows, requests, erasures, forgotten, overlapped>>
    BY <1>1 DEF CreateInvite
  <2> HIDE DEF made, full
  <2>4. l \in Thread /\ Knows(l)
    BY <2>2, IdleType DEF Thread, Knows
  <2> HIDE DEF l
  <2>5. th' \in [Threads -> Thread] /\ \A u \in Threads : Knows(th'[u])
    BY <2>3, <2>4, GotoType
  <2> QED
    BY <2>2, <2>3, <2>5 DEF Typed, TypeOK
<1>2. ASSUME NEW t \in Threads, SaveDeliveries(t)
      PROVE  Typed'
  <2>1. th' \in [Threads -> Thread] /\ \A u \in Threads : Knows(th'[u])
    BY <1>2, IdleType, GotoType DEF SaveDeliveries
  <2>2. lists' \in [Invites -> Invite] /\ overlapped' \subseteq Sittings
    BY <1>2, ListsType, WrittenType DEF SaveDeliveries
  <2> QED
    BY <1>2, <2>1, <2>2 DEF SaveDeliveries, Typed, TypeOK
<1>3. ASSUME NEW t \in Threads, NEW k \in DOMAIN Plan, NEW i \in Invites, NEW e \in Emails,
             Ask(t, k, i, e)
      PROVE  Typed'
  <2>1. \A n \in AttemptOf(i, e) \cup {0} : n \in Nat
    BY DEF AttemptOf, Typed, TypeOK
  <2>2. PICK n \in Nat : Goto(t, [Idle EXCEPT !.pc = "candidate", !.inv = i, !.email = e,
                                              !.todo = Plan[k], !.n = n])
    BY <1>3, <2>1 DEF Ask
  <2> DEFINE l == [Idle EXCEPT !.pc = "candidate", !.inv = i, !.email = e,
                               !.todo = Plan[k], !.n = n]
  <2>3. l \in Thread /\ Knows(l)
    BY IdleType, PlanType DEF Thread, Knows
  <2> HIDE DEF l
  <2>4. th' \in [Threads -> Thread] /\ \A u \in Threads : Knows(th'[u])
    BY <2>2, <2>3, GotoType DEF l
  <2>5. requests' \in 0..MaxRequests
    BY <1>3, ErasureAssumption DEF Ask, Typed, TypeOK
  <2>6. UNCHANGED <<addressed, sent, aged, lists, attempts, subs, rows, erasures, forgotten, overlapped>>
    BY <1>3 DEF Ask
  <2> QED
    BY <2>4, <2>5, <2>6 DEF Typed, TypeOK
<1>4. ASSUME NEW t \in Threads, NEW c \in {"mark", "draft"}, PutRow(t, c)
      PROVE  Typed'
  <2>1. th[t].inv \in Invites /\ th[t].email \in Emails
    BY <1>4 DEF PutRow, Makes, At, Typed, Knows
  <2>2. [kind |-> c, inv |-> th[t].inv, who |-> th[t].email] \in Row
    BY <2>1 DEF Row, Who
  <2>3. /\ th' \in [Threads -> Thread] /\ \A u \in Threads : Knows(th'[u])
        /\ overlapped' \subseteq Sittings
        /\ UNCHANGED <<addressed, sent, aged, lists, requests, erasures, forgotten>>
    BY <1>4, CommittedType DEF PutRow, Makes
  <2> QED
    BY <1>4, <2>2, <2>3 DEF PutRow, Typed, TypeOK
<1>5. ASSUME NEW t \in Threads, PutAttempt(t)
      PROVE  Typed'
  <2>1. th[t].inv \in Invites /\ th[t].email \in Emails
    BY <1>5 DEF PutAttempt, Makes, At, Typed, Knows
  <2>2. [inv |-> th[t].inv, who |-> th[t].email, old |-> FALSE, said |-> FALSE] \in CandidateAttempt
    BY <2>1 DEF CandidateAttempt, Who
  <2>3. /\ th' \in [Threads -> Thread] /\ \A u \in Threads : Knows(th'[u])
        /\ overlapped' \subseteq Sittings
        /\ UNCHANGED <<addressed, sent, aged, lists, requests, erasures, forgotten>>
    BY <1>5, CommittedType DEF PutAttempt, Makes
  <2>4. attempts' \in Seq(CandidateAttempt)
    BY <1>5, <2>2 DEF PutAttempt, Typed, TypeOK
  <2> QED
    BY <1>5, <2>3, <2>4 DEF PutAttempt, Typed, TypeOK
<1>6. ASSUME NEW t \in Threads, PutSubmission(t)
      PROVE  Typed'
  <2>1. th[t].inv \in Invites /\ th[t].email \in Emails
    BY <1>6 DEF PutSubmission, Makes, At, Typed, Knows
  <2>2. [inv |-> th[t].inv, who |-> th[t].email, code |-> TRUE, result |-> "none"] \in Submission
    BY <2>1 DEF Submission, Who
  <2>3. /\ th' \in [Threads -> Thread] /\ \A u \in Threads : Knows(th'[u])
        /\ overlapped' \subseteq Sittings
        /\ UNCHANGED <<addressed, sent, aged, lists, requests, erasures, forgotten>>
    BY <1>6, CommittedType DEF PutSubmission, Makes
  <2>4. subs' \in Seq(Submission)
    BY <1>6, <2>2 DEF PutSubmission, Typed, TypeOK
  <2> QED
    BY <1>6, <2>3, <2>4 DEF PutSubmission, Typed, TypeOK
<1>7. ASSUME NEW t \in Threads, PutFeedback(t)
      PROVE  Typed'
  <2>1. /\ th' \in [Threads -> Thread] /\ \A u \in Threads : Knows(th'[u])
        /\ overlapped' \subseteq Sittings
        /\ UNCHANGED <<addressed, sent, aged, lists, requests, erasures, forgotten>>
    BY <1>7, CommittedType DEF PutFeedback, Makes
  <2>2. attempts' \in Seq(CandidateAttempt)
    <3>1. attempts \in Seq(CandidateAttempt)
      BY DEF Typed, TypeOK
    <3>2. attempts' = [attempts EXCEPT ![th[t].n].said = TRUE]
      BY <1>7 DEF PutFeedback
    <3>3. attempts \in [DOMAIN attempts -> CandidateAttempt]
      BY <3>1
    <3>4. attempts' \in [DOMAIN attempts -> CandidateAttempt]
      BY <3>2, <3>3 DEF CandidateAttempt
    <3> QED
      BY <3>1, <3>4, RowsSeq
  <2> QED
    BY <1>7, <2>1, <2>2 DEF PutFeedback, Typed, TypeOK
<1>8. ASSUME NEW t \in Threads, NEW e \in Emails, EraseCandidate(t, e)
      PROVE  Typed'
  <2> DEFINE new == [i \in Invites |-> Scrubbed(lists[i], e)]
             P == sent \X {e}
             l == [Idle EXCEPT !.pc = "request", !.email = e, !.n = erasures + 1,
                               !.old = lists, !.new = new, !.sittings = P, !.found = Found(P)]
  <2>1. new \in [Invites -> Invite] /\ lists \in [Invites -> Invite]
    BY DEF Scrubbed, Typed, TypeOK, Invite
  <2>2. P \in SUBSET Sittings
    BY DEF Typed, TypeOK, Sittings
  <2>3. erasures + 1 \in Nat /\ erasures + 1 \in 1..MaxErasures /\ erasures + 1 \in 0..MaxErasures
    BY <1>8, ErasureAssumption DEF EraseCandidate, Typed, TypeOK
  <2>4. Found(P) \subseteq [id : Nat, email : Emails]
    BY <2>2, FoundType
  <2>5. Goto(t, l) /\ erasures' = erasures + 1
        /\ UNCHANGED <<addressed, sent, aged, lists, attempts, subs, rows, requests, forgotten, overlapped>>
    BY <1>8 DEF EraseCandidate
  <2> HIDE DEF new, P
  <2>6. l \in Thread /\ Knows(l)
    BY <2>1, <2>2, <2>3, <2>4, IdleType DEF Thread, Knows
  <2> HIDE DEF l
  <2>7. th' \in [Threads -> Thread] /\ \A u \in Threads : Knows(th'[u])
    BY <2>5, <2>6, GotoType
  <2> QED
    BY <2>3, <2>5, <2>7 DEF Typed, TypeOK
<1>9. ASSUME NEW t \in Threads, Sweep(t)
      PROVE  Typed'
  <2> DEFINE new == [i \in Invites |-> [to |-> lists[i].to \cap Kept(i, Expired),
                                        log |-> lists[i].log \cap Kept(i, Expired)]]
             l == [Idle EXCEPT !.pc = "sweep", !.n = erasures + 1,
                               !.old = lists, !.new = new,
                               !.sittings = Expired, !.found = Found(Expired)]
  <2>1. new \in [Invites -> Invite] /\ lists \in [Invites -> Invite]
    BY DEF Typed, TypeOK, Invite
  <2>2. Expired \in SUBSET Sittings
    BY DEF Expired
  <2>3. erasures + 1 \in Nat /\ erasures + 1 \in 1..MaxErasures /\ erasures + 1 \in 0..MaxErasures
    BY <1>9, ErasureAssumption DEF Sweep, Typed, TypeOK
  <2>4. Found(Expired) \subseteq [id : Nat, email : Emails]
    BY <2>2, FoundType
  <2>5. Goto(t, l) /\ erasures' = erasures + 1
        /\ UNCHANGED <<addressed, sent, aged, lists, attempts, subs, rows, requests, forgotten, overlapped>>
    BY <1>9 DEF Sweep
  <2> HIDE DEF new
  <2>6. l \in Thread /\ Knows(l)
    BY <2>1, <2>2, <2>3, <2>4, IdleType DEF Thread, Knows
  <2> HIDE DEF l
  <2>7. th' \in [Threads -> Thread] /\ \A u \in Threads : Knows(th'[u])
    BY <2>5, <2>6, GotoType
  <2> QED
    BY <2>3, <2>5, <2>7 DEF Typed, TypeOK
<1>10. ASSUME NEW t \in Threads, CommitErasure(t)
       PROVE  Typed'
  <2>0. Erasing(t) /\ th[t] \in Thread /\ th[t].sittings \subseteq Sittings
        /\ th[t].found \subseteq [id : Nat, email : Emails]
    BY <1>10 DEF CommitErasure, Typed, TypeOK, Thread
  <2>1. ASSUME NEW i \in Invites, NEW w, <<i, w>> \in th[t].sittings
        PROVE  Tombstone(t, i, w) \in Who
    BY <2>0, <2>1, TombstoneType DEF Sittings, Who
  <2>2. attempts' \in Seq(CandidateAttempt)
    <3>1. ASSUME NEW n \in DOMAIN attempts PROVE attempts'[n] \in CandidateAttempt
      <4>1. attempts[n] \in CandidateAttempt
        BY DEF Typed, TypeOK
      <4>2. CASE <<attempts[n].inv, attempts[n].who>> \in th[t].sittings
        <5>1. Tombstone(t, attempts[n].inv, attempts[n].who) \in Who
          BY <2>1, <4>1, <4>2 DEF CandidateAttempt
        <5>2. attempts'[n] = Anonymous(attempts[n], Tombstone(t, attempts[n].inv, attempts[n].who))
          BY <1>10, <4>2 DEF CommitErasure
        <5> QED
          BY <4>1, <5>1, <5>2 DEF Anonymous, CandidateAttempt
      <4>3. CASE <<attempts[n].inv, attempts[n].who>> \notin th[t].sittings
        BY <1>10, <4>1, <4>3 DEF CommitErasure
      <4> QED
        BY <4>2, <4>3
    <3>2. attempts' = [n \in DOMAIN attempts |-> attempts'[n]]
      BY <1>10 DEF CommitErasure
    <3>3. attempts \in Seq(CandidateAttempt)
      BY DEF Typed, TypeOK
    <3>4. attempts' \in [DOMAIN attempts -> CandidateAttempt]
      BY <3>1, <3>2
    <3> QED
      BY <3>3, <3>4, RowsSeq
  <2>3. subs' \in Seq(Submission)
    <3>1. ASSUME NEW n \in DOMAIN subs PROVE subs'[n] \in Submission
      <4>1. subs[n] \in Submission
        BY DEF Typed, TypeOK
      <4> DEFINE by == {f \in th[t].found : f.id = n}
                 w == Tombstone(t, subs[n].inv, (CHOOSE f \in by : TRUE).email)
      <4>2. CASE by = {}
        BY <1>10, <4>1, <4>2 DEF CommitErasure
      <4>3. CASE by # {}
        <5>1. (CHOOSE f \in by : TRUE) \in by
          BY <4>3
        <5>2. (CHOOSE f \in by : TRUE).email \in Emails
          BY <2>0, <5>1
        <5>3. w \in Who
          BY <2>0, <4>1, <5>2, TombstoneType DEF Submission, Who
        <5>4. subs'[n] = [subs[n] EXCEPT !.who = w, !.code = FALSE, !.result = Wiped(@)]
          BY <1>10, <4>3 DEF CommitErasure
        <5>5. Wiped(subs[n].result) \in {"none", "full", "late", "erased"}
          BY <4>1 DEF Wiped, Submission
        <5> HIDE DEF w
        <5> QED
          BY <4>1, <5>3, <5>4, <5>5 DEF Submission
      <4> QED
        BY <4>2, <4>3
    <3>2. subs' = [n \in DOMAIN subs |-> subs'[n]]
      BY <1>10 DEF CommitErasure
    <3>3. subs \in Seq(Submission)
      BY DEF Typed, TypeOK
    <3>4. subs' \in [DOMAIN subs -> Submission]
      BY <3>1, <3>2
    <3> QED
      BY <3>3, <3>4, RowsSeq
  <2>4. rows' \subseteq Row
    <3>1. ASSUME NEW r \in rows, <<r.inv, r.who>> \in th[t].sittings
          PROVE  [r EXCEPT !.who = Tombstone(t, r.inv, r.who)] \in Row
      <4>1. r \in Row
        BY DEF Typed, TypeOK
      <4>2. Tombstone(t, r.inv, r.who) \in Who
        BY <2>1, <3>1, <4>1 DEF Row
      <4> QED
        BY <4>1, <4>2 DEF Row
    <3>2. \A r \in rows : r \in Row
      BY DEF Typed, TypeOK
    <3> QED
      BY <1>10, <3>1, <3>2 DEF CommitErasure
  <2>5. th' \in [Threads -> Thread] /\ \A u \in Threads : Knows(th'[u])
    BY <1>10, IdleType, GotoType DEF CommitErasure
  <2>6. lists' \in [Invites -> Invite]
    BY <1>10, ListsType DEF CommitErasure
  <2>7. forgotten' \subseteq Sittings /\ overlapped' \subseteq Sittings
    BY <1>10, <2>0 DEF CommitErasure, Touched, Typed, TypeOK
  <2> QED
    BY <1>10, <2>2, <2>3, <2>4, <2>5, <2>6, <2>7 DEF CommitErasure, Typed, TypeOK
<1>11. CASE Age
  <2>1. attempts \in Seq(CandidateAttempt)
    BY DEF Typed, TypeOK
  <2> DEFINE h(n) == [attempts[n] EXCEPT !.old = TRUE]
  <2>2. attempts' = [n \in DOMAIN attempts |-> h(n)]
    BY <1>11 DEF Age
  <2>3. ASSUME NEW n \in DOMAIN attempts PROVE h(n) \in CandidateAttempt
    <3>1. attempts[n] \in CandidateAttempt
      BY <2>1
    <3> QED
      BY <3>1 DEF CandidateAttempt
  <2> HIDE DEF h
  <2>4. attempts' \in [DOMAIN attempts -> CandidateAttempt]
    BY <2>2, <2>3
  <2>5. attempts' \in Seq(CandidateAttempt)
    BY <2>1, <2>4, RowsSeq
  <2> QED
    BY <1>11, <2>5 DEF Age, Typed, TypeOK
<1>12. ASSUME NEW n \in DOMAIN subs, Callback(n)
       PROVE  Typed'
  <2>1. subs' \in Seq(Submission)
    <3>1. subs \in Seq(Submission)
      BY DEF Typed, TypeOK
    <3> DEFINE v == IF is_erased(subs[n].who) THEN "late" ELSE "full"
    <3>2. subs' = [subs EXCEPT ![n].result = v]
      BY <1>12 DEF Callback
    <3>v. v \in {"none", "full", "late", "erased"}
      OBVIOUS
    <3> HIDE DEF v
    <3>3. subs \in [DOMAIN subs -> Submission]
      BY <3>1
    <3>4. subs' \in [DOMAIN subs -> Submission]
      BY <3>2, <3>3, <3>v DEF Submission
    <3> QED
      BY <3>1, <3>4, RowsSeq
  <2> QED
    BY <1>12, <2>1 DEF Callback, Typed, TypeOK
<1>13. CASE UNCHANGED vars
  BY <1>13 DEF vars, Typed, TypeOK
<1> QED
  BY <1>1, <1>2, <1>3, <1>4, <1>5, <1>6, <1>7, <1>8, <1>9, <1>10, <1>11, <1>12, <1>13 DEF Next, PutMark, PutDraft

\* Every reachable state is well typed.
THEOREM TypeCorrect == Spec => []TypeOK
<1>1. Spec => []Typed
  BY TypedInit, TypedStep, PTL DEF Spec
<1>2. Typed => TypeOK
  BY DEF Typed
<1> QED
  BY <1>1, <1>2, PTL

-----------------------------------------------------------------------------
(***************************************************************************)
(* Keys, and when a sitting may be erased.  Every erasure has a number of  *)
(* its own, and its tombstones carry it, so a tombstone it writes is found *)
(* nowhere yet (Fresh).  Submissions found for one sitting are one row     *)
(* (FoundOnce).  What a pass of the sweep found expired still is, or was   *)
(* begun anew while it ran (FoundExpired).                                 *)
(***************************************************************************)
Numbered ==
  /\ \A t \in Threads : Erasing(t) => th[t].n \in 1..erasures
  /\ \A t, u \in Threads : Erasing(t) /\ Erasing(u) /\ th[t].n = th[u].n => t = u

FreshIn(table) ==
  \A n \in DOMAIN table : table[n].who \in Tombstones =>
    /\ table[n].who.run \in 1..erasures
    /\ \A t \in Threads : Erasing(t) => table[n].who.run # th[t].n

KeyOf(table) ==
  \A m, n \in DOMAIN table :
    table[m].inv = table[n].inv /\ table[m].who = table[n].who => m = n

FoundOnce ==
  \A t \in Threads : Erasing(t) =>
    \A f, g \in th[t].found :
      /\ f.id \in DOMAIN subs
      /\ g.id \in DOMAIN subs /\ subs[f.id].inv = subs[g.id].inv /\ f.email = g.email
           => f.id = g.id

FoundExpired ==
  \A t \in Threads : At(t, "sweep") =>
    \A p \in th[t].sittings : \A n \in AttemptOf(p[1], p[2]) :
      attempts[n].old \/ p \in overlapped

AsNamed ==
  \A t \in Threads : At(t, "request") => \A p \in th[t].sittings : p[2] = th[t].email

Due ==
  /\ Typed /\ Numbered
  /\ FreshIn(attempts) /\ FreshIn(subs) /\ KeyOf(attempts) /\ KeyOf(subs)
  /\ FoundOnce /\ FoundExpired /\ AsNamed

LEMMA DueInit == Init => Due
<1> SUFFICES ASSUME Init PROVE Due
  OBVIOUS
<1>1. \A t \in Threads : th[t].pc = "idle"
  BY IdleType DEF Init
<1>2. attempts = <<>> /\ subs = <<>> /\ DOMAIN attempts = {} /\ DOMAIN subs = {}
  BY DEF Init
<1>3. Numbered /\ FoundOnce /\ FoundExpired /\ AsNamed
  BY <1>1 DEF Numbered, FoundOnce, FoundExpired, AsNamed, Erasing, At
<1>4. FreshIn(attempts) /\ FreshIn(subs) /\ KeyOf(attempts) /\ KeyOf(subs)
  BY <1>2 DEF FreshIn, KeyOf
<1> QED
  BY <1>3, <1>4, TypedInit DEF Due

\* A step that starts no erasure: nobody erases who did not before, with what
\* they found before, and erasures are as many.
Steady ==
  /\ erasures' = erasures
  /\ \A t \in Threads : Erasing(t)' => Erasing(t) /\ th'[t] = th[t]
  /\ overlapped \subseteq overlapped'

\* Such a step that leaves the tables alone.
LEMMA DueSteady ==
  ASSUME Due, Typed', Steady, UNCHANGED <<attempts, subs>>
  PROVE  Due'
<1>1. Numbered'
  BY DEF Due, Numbered, Steady
<1>2. FreshIn(attempts)' /\ FreshIn(subs)'
  BY DEF Due, FreshIn, Steady
<1>3. KeyOf(attempts)' /\ KeyOf(subs)'
  BY DEF Due, KeyOf
<1>4. FoundOnce'
  BY DEF Due, FoundOnce, Steady
<1>5. \A t \in Threads : At(t, "sweep")' => At(t, "sweep") /\ th'[t] = th[t]
  BY DEF Steady, At, Erasing
<1>6. \A t \in Threads : At(t, "request")' => At(t, "request") /\ th'[t] = th[t]
  BY DEF Steady, At, Erasing
<1>7. FoundExpired'
  BY <1>5 DEF Due, FoundExpired, Steady, AttemptOf
<1>8. AsNamed'
  BY <1>6 DEF Due, AsNamed
<1> QED
  BY <1>1, <1>2, <1>3, <1>4, <1>7, <1>8 DEF Due

\* A thread that goes on as no eraser.
LEMMA GoesOn ==
  ASSUME Typed, NEW t \in Threads, NEW l \in Thread, l.pc \notin {"request", "sweep"}, Goto(t, l)
  PROVE  \A u \in Threads : Erasing(u)' => Erasing(u) /\ th'[u] = th[u] /\ u # t
BY DEF Typed, TypeOK, Goto, Erasing

\* A commit of a candidate's request is steady, and is noted by whoever erases.
LEMMA CommittedSteady ==
  ASSUME Typed, NEW t \in Threads, At(t, "candidate"), Committed(t)
  PROVE  /\ Steady
         /\ (\E u \in Threads : Erasing(u)) => <<th[t].inv, th[t].email>> \in overlapped'
<1>1. th[t] \in Thread /\ th[t].pc = "candidate"
  BY DEF Typed, TypeOK, At
<1>2. \A u \in Threads : u # t => th'[u] = th[u]
  BY DEF Committed, Goto, Typed, TypeOK
<1>3. th'[t] = Idle \/ th'[t] = [th[t] EXCEPT !.todo = Tail(@)]
  BY DEF Committed, Goto, Typed, TypeOK
<1>4. th'[t].pc \in {"idle", "candidate"}
  BY <1>1, <1>3, IdleType DEF Thread
<1>5. \A u \in Threads : Erasing(u)' => Erasing(u) /\ th'[u] = th[u]
  BY <1>2, <1>4 DEF Erasing
<1>6. overlapped' = Written(t, InHand(t)) /\ erasures' = erasures
  BY DEF Committed
<1>7. ~ Erasing(t) /\ InHand(t) = {<<th[t].inv, th[t].email>>}
  BY <1>1 DEF Erasing, InHand, At
<1> QED
  BY <1>5, <1>6, <1>7 DEF Steady, Written

\* What one commit of an erasure does to the attempts and the submissions.
LEMMA TombstoneFresh ==
  ASSUME Due, NEW t \in Threads, Erasing(t), NEW i \in Invites, NEW e \in Emails
  PROVE  /\ Tombstone(t, i, e) \in Tombstones \ Emails
         /\ Tombstone(t, i, e).run = th[t].n
<1>1. Typed
  BY DEF Due
<1> QED
  BY <1>1, TombstoneType, ErasureAssumption DEF Tombstone

LEMMA AttemptsErased ==
  ASSUME Due, NEW t \in Threads, CommitErasure(t)
  PROVE  \A n \in DOMAIN attempts :
           \/ /\ <<attempts[n].inv, attempts[n].who>> \notin th[t].sittings
              /\ attempts'[n] = attempts[n]
           \/ /\ <<attempts[n].inv, attempts[n].who>> \in th[t].sittings
              /\ attempts[n].who \in Emails /\ attempts[n].inv \in Invites
              /\ attempts'[n].inv = attempts[n].inv
              /\ attempts'[n].who = Tombstone(t, attempts[n].inv, attempts[n].who)
<1> TAKE n \in DOMAIN attempts
<1>1. attempts[n] \in CandidateAttempt /\ th[t].sittings \subseteq Sittings
  BY DEF Due, Typed, TypeOK, Thread
<1>2. CASE <<attempts[n].inv, attempts[n].who>> \notin th[t].sittings
  BY <1>2 DEF CommitErasure
<1>3. CASE <<attempts[n].inv, attempts[n].who>> \in th[t].sittings
  <2>1. attempts[n].who \in Emails /\ attempts[n].inv \in Invites
    BY <1>1, <1>3 DEF Sittings
  <2>2. attempts'[n] = Anonymous(attempts[n], Tombstone(t, attempts[n].inv, attempts[n].who))
    BY <1>3 DEF CommitErasure
  <2> QED
    BY <1>1, <1>3, <2>1, <2>2 DEF Anonymous, CandidateAttempt
<1> QED
  BY <1>2, <1>3

LEMMA SubmissionsErased ==
  ASSUME Due, NEW t \in Threads, CommitErasure(t)
  PROVE  \A n \in DOMAIN subs :
           /\ subs'[n].inv = subs[n].inv /\ subs[n].inv \in Invites
           /\ \/ subs'[n].who = subs[n].who
              \/ \E f \in th[t].found : /\ f.id = n /\ f.email \in Emails
                                        /\ subs'[n].who = Tombstone(t, subs[n].inv, f.email)
<1> TAKE n \in DOMAIN subs
<1>1. subs[n] \in Submission /\ th[t].found \subseteq [id : Nat, email : Emails]
  BY DEF Due, Typed, TypeOK, Thread
<1> DEFINE by == {f \in th[t].found : f.id = n}
<1>2. CASE by = {}
  <2>1. subs'[n] = subs[n]
    BY <1>2 DEF CommitErasure
  <2> QED
    BY <1>1, <2>1 DEF Submission
<1>3. CASE by # {}
  <2> DEFINE f == CHOOSE g \in by : TRUE
             w == Tombstone(t, subs[n].inv, f.email)
  <2>1. f \in by
    BY <1>3
  <2>2. subs'[n] = [subs[n] EXCEPT !.who = w, !.code = FALSE, !.result = Wiped(@)]
    BY <1>3 DEF CommitErasure
  <2>3. f.email \in Emails
    BY <1>1, <2>1
  <2>4. subs'[n].who = w /\ subs'[n].inv = subs[n].inv
    BY <1>1, <2>2 DEF Submission
  <2> HIDE DEF f
  <2> QED
    BY <1>1, <2>1, <2>3, <2>4 DEF Submission
<1> QED
  BY <1>2, <1>3

LEMMA DueCommitErasure ==
  ASSUME Due, Typed', NEW t \in Threads, CommitErasure(t)
  PROVE  Due'
<1>0. /\ Erasing(t) /\ Goto(t, Idle) /\ erasures' = erasures
      /\ overlapped \subseteq overlapped'
      /\ DOMAIN attempts' = DOMAIN attempts /\ DOMAIN subs' = DOMAIN subs
  BY DEF CommitErasure
<1>t. \A i \in Invites : \A e \in Emails :
        /\ Tombstone(t, i, e) \in Tombstones /\ Tombstone(t, i, e) \notin Emails
        /\ Tombstone(t, i, e).run = th[t].n
  BY <1>0, TombstoneFresh
<1>a. \A n \in DOMAIN attempts :
           \/ /\ <<attempts[n].inv, attempts[n].who>> \notin th[t].sittings
              /\ attempts'[n] = attempts[n]
           \/ /\ <<attempts[n].inv, attempts[n].who>> \in th[t].sittings
              /\ attempts[n].who \in Emails /\ attempts[n].inv \in Invites
              /\ attempts'[n].inv = attempts[n].inv
              /\ attempts'[n].who = Tombstone(t, attempts[n].inv, attempts[n].who)
  BY AttemptsErased
<1>s. \A n \in DOMAIN subs :
           /\ subs'[n].inv = subs[n].inv /\ subs[n].inv \in Invites
           /\ \/ subs'[n].who = subs[n].who
              \/ \E f \in th[t].found : /\ f.id = n /\ f.email \in Emails
                                        /\ subs'[n].who = Tombstone(t, subs[n].inv, f.email)
  BY SubmissionsErased
<1>1. \A u \in Threads : Erasing(u)' => Erasing(u) /\ th'[u] = th[u] /\ u # t
  BY <1>0, IdleType, GoesOn DEF Due
<1>2. th[t].n \in 1..erasures
  BY <1>0 DEF Due, Numbered
<1>3. \A u \in Threads : Erasing(u)' => th[u].n # th[t].n
  BY <1>0, <1>1 DEF Due, Numbered
<1>4. Numbered'
  BY <1>0, <1>1 DEF Due, Numbered
<1>5. FreshIn(attempts)' /\ FreshIn(subs)'
  <2>1. ASSUME NEW n \in DOMAIN attempts, attempts'[n].who \in Tombstones
        PROVE  attempts'[n].who.run = th[t].n \/ attempts'[n].who = attempts[n].who
    BY <1>0, <1>a, <1>t
  <2>2. ASSUME NEW n \in DOMAIN subs, subs'[n].who \in Tombstones
        PROVE  subs'[n].who.run = th[t].n \/ subs'[n].who = subs[n].who
    BY <1>0, <1>s, <1>t
  <2> QED
    BY <1>0, <1>1, <1>2, <1>3, <2>1, <2>2 DEF Due, FreshIn
<1>6. KeyOf(attempts)'
  <2> SUFFICES ASSUME NEW m \in DOMAIN attempts, NEW n \in DOMAIN attempts,
                      attempts'[m].inv = attempts'[n].inv, attempts'[m].who = attempts'[n].who
               PROVE  m = n
    BY <1>0 DEF KeyOf
  <2>1. \A k \in DOMAIN attempts : attempts[k].who \in Emails \/ attempts[k].who.run # th[t].n
    <3> TAKE k \in DOMAIN attempts
    <3>1. attempts[k] \in CandidateAttempt
      BY DEF Due, Typed, TypeOK
    <3>2. attempts[k].who \in Emails \/ attempts[k].who \in Tombstones
      BY <3>1 DEF CandidateAttempt, Who
    <3> QED
      BY <1>0, <3>2 DEF Due, FreshIn
  <2>2. \A k \in DOMAIN attempts : \A i \in Invites : \A e \in Emails :
          attempts[k].who # Tombstone(t, i, e)
    BY <1>0, <2>1, <1>t
  <2>3. \A i \in Invites : \A d, e \in Emails : Tombstone(t, i, d) = Tombstone(t, i, e) => d = e
    BY DEF Tombstone
  <2>4. attempts[m].inv = attempts[n].inv /\ attempts[m].who = attempts[n].who
    <3> DEFINE mine(k) == <<attempts[k].inv, attempts[k].who>> \in th[t].sittings
    <3>1. CASE mine(m) /\ mine(n)
      BY <1>a, <2>3, <3>1
    <3>2. CASE ~ mine(m) /\ ~ mine(n)
      BY <1>a, <3>2
    <3>3. CASE mine(m) /\ ~ mine(n)
      BY <1>a, <2>2, <3>3
    <3>4. CASE ~ mine(m) /\ mine(n)
      BY <1>a, <2>2, <3>4
    <3> QED
      BY <3>1, <3>2, <3>3, <3>4
  <2> QED
    BY <2>4 DEF Due, KeyOf
<1>7. KeyOf(subs)'
  <2> SUFFICES ASSUME NEW m \in DOMAIN subs, NEW n \in DOMAIN subs,
                      subs'[m].inv = subs'[n].inv, subs'[m].who = subs'[n].who
               PROVE  m = n
    BY <1>0 DEF KeyOf
  <2>1. \A k \in DOMAIN subs : subs[k].who \in Emails \/ subs[k].who.run # th[t].n
    <3> TAKE k \in DOMAIN subs
    <3>1. subs[k] \in Submission
      BY DEF Due, Typed, TypeOK
    <3>2. subs[k].who \in Emails \/ subs[k].who \in Tombstones
      BY <3>1 DEF Submission, Who
    <3> QED
      BY <1>0, <3>2 DEF Due, FreshIn
  <2>2. \A k \in DOMAIN subs : \A i \in Invites : \A e \in Emails :
          subs[k].who # Tombstone(t, i, e)
    BY <1>0, <2>1, <1>t
  <2>3. \A i \in Invites : \A d, e \in Emails : Tombstone(t, i, d) = Tombstone(t, i, e) => d = e
    BY DEF Tombstone
  <2>4. subs[m].inv = subs[n].inv /\ subs[m].inv \in Invites
    BY <1>s
  <2>5. CASE subs'[m].who = subs[m].who /\ subs'[n].who = subs[n].who
    BY <2>4, <2>5 DEF Due, KeyOf
  <2>6. CASE ~ (subs'[m].who = subs[m].who /\ subs'[n].who = subs[n].who)
    <3>1. PICK f \in th[t].found, g \in th[t].found :
            /\ f.id = m /\ f.email \in Emails /\ g.id = n /\ g.email \in Emails
            /\ subs'[m].who = Tombstone(t, subs[m].inv, f.email)
            /\ subs'[n].who = Tombstone(t, subs[n].inv, g.email)
      BY <2>2, <2>4, <2>6, <1>s
    <3>2. f.email = g.email
      BY <2>3, <2>4, <3>1, ZenonT(30)
    <3> QED
      BY <1>0, <2>4, <3>1, <3>2 DEF Due, FoundOnce
  <2> QED
    BY <2>5, <2>6
<1>8. FoundOnce'
  BY <1>0, <1>1, <1>s DEF Due, FoundOnce
<1>9. FoundExpired'
  <2> SUFFICES ASSUME NEW u \in Threads, At(u, "sweep")', NEW p \in th'[u].sittings,
                      NEW n \in AttemptOf(p[1], p[2])'
               PROVE  attempts'[n].old \/ p \in overlapped'
    BY DEF FoundExpired
  <2>1. At(u, "sweep") /\ th'[u] = th[u]
    BY <1>1 DEF At, Erasing
  <2>2. p[2] \in Emails /\ p \in th[u].sittings
    BY <2>1 DEF Due, Typed, TypeOK, Thread, Sittings
  <2>3. n \in DOMAIN attempts /\ attempts'[n].inv = p[1] /\ attempts'[n].who = p[2]
    BY <1>0 DEF AttemptOf
  <2>4. attempts'[n] = attempts[n]
    <3>1. CASE <<attempts[n].inv, attempts[n].who>> \in th[t].sittings
      BY <1>a, <1>t, <2>2, <2>3, <3>1
    <3> QED
      BY <1>a, <2>3, <3>1
  <2>5. n \in AttemptOf(p[1], p[2])
    BY <2>3, <2>4 DEF AttemptOf
  <2> QED
    BY <1>0, <2>1, <2>2, <2>4, <2>5 DEF Due, FoundExpired
<1>10. AsNamed'
  <2>1. \A u \in Threads : At(u, "request")' => At(u, "request") /\ th'[u] = th[u]
    BY <1>1 DEF At, Erasing
  <2> QED
    BY <2>1 DEF Due, AsNamed
<1> QED
  BY <1>4, <1>5, <1>6, <1>7, <1>8, <1>9, <1>10 DEF Due

LEMMA AttemptEmail ==
  ASSUME Typed, NEW n \in DOMAIN attempts
  PROVE  attempts[n] \in CandidateAttempt /\ n \in Nat
BY DEF Typed, TypeOK

LEMMA DueInPlace ==
  ASSUME Due, Typed', Steady,
         DOMAIN attempts' = DOMAIN attempts,
         \A n \in DOMAIN attempts :
           /\ attempts'[n].inv = attempts[n].inv /\ attempts'[n].who = attempts[n].who
           /\ attempts[n].old => attempts'[n].old,
         DOMAIN subs' = DOMAIN subs,
         \A n \in DOMAIN subs :
           subs'[n].inv = subs[n].inv /\ subs'[n].who = subs[n].who
  PROVE  Due'
<1>1. Numbered'
  BY DEF Due, Numbered, Steady
<1>2. FreshIn(attempts)' /\ FreshIn(subs)'
  BY DEF Due, FreshIn, Steady
<1>3. KeyOf(attempts)' /\ KeyOf(subs)'
  BY DEF Due, KeyOf
<1>4. FoundOnce'
  BY DEF Due, FoundOnce, Steady
<1>5. \A t \in Threads : (At(t, "sweep")' => At(t, "sweep") /\ th'[t] = th[t])
                      /\ (At(t, "request")' => At(t, "request") /\ th'[t] = th[t])
  BY DEF Steady, At, Erasing
<1>6. \A i, w : AttemptOf(i, w)' = AttemptOf(i, w)
  BY DEF AttemptOf
<1>7. \A i, w : \A n \in AttemptOf(i, w) : n \in DOMAIN attempts
  BY DEF AttemptOf
<1>8. FoundExpired'
  BY <1>5, <1>6, <1>7 DEF Due, FoundExpired, Steady
<1>9. AsNamed'
  BY <1>5 DEF Due, AsNamed
<1> QED
  BY <1>1, <1>2, <1>3, <1>4, <1>8, <1>9 DEF Due

LEMMA DueBegins ==
  ASSUME Due, Typed', NEW t \in Threads, At(t, "idle"), NEW l, NEW P, Goto(t, l),
         l.pc \in {"request", "sweep"}, l.n = erasures + 1, erasures' = erasures + 1,
         l.sittings = P, l.found = Found(P),
         l.pc = "request" => \A p \in P : p[2] = l.email,
         l.pc = "sweep" => \A p \in P : \A n \in AttemptOf(p[1], p[2]) : attempts[n].old,
         UNCHANGED <<attempts, subs, overlapped>>
  PROVE  Due'
<1>1. erasures \in Nat /\ erasures' = erasures + 1
  BY DEF Due, Typed, TypeOK
<1>2. th'[t] = l /\ \A u \in Threads \ {t} : th'[u] = th[u]
  BY DEF Due, Typed, TypeOK, Goto
<1>3. \A u \in Threads : Erasing(u)' => u = t \/ (Erasing(u) /\ th'[u] = th[u] /\ u # t)
  BY <1>2 DEF Erasing
<1>4. Numbered'
  BY <1>1, <1>2, <1>3 DEF Due, Numbered
<1>5. FreshIn(attempts)' /\ FreshIn(subs)'
  <2>1. \A n \in DOMAIN attempts : attempts[n].who \in Tombstones =>
          attempts[n].who.run \in 1..erasures' /\ attempts[n].who.run # l.n
    BY <1>1 DEF Due, FreshIn
  <2>2. \A n \in DOMAIN subs : subs[n].who \in Tombstones =>
          subs[n].who.run \in 1..erasures' /\ subs[n].who.run # l.n
    BY <1>1 DEF Due, FreshIn
  <2> QED
    BY <1>2, <1>3, <2>1, <2>2 DEF Due, FreshIn
<1>6. KeyOf(attempts)' /\ KeyOf(subs)'
  BY DEF Due, KeyOf
<1>7. FoundOnce'
  <2>1. ASSUME NEW f \in Found(P)
        PROVE  f.id \in DOMAIN subs /\ f.email = subs[f.id].who
    <3>1. PICK n \in DOMAIN subs : f = [id |-> n, email |-> subs[n].who]
      BY DEF Found
    <3> QED
      BY <3>1
  <2>2. \A f, g \in l.found :
          /\ f.id \in DOMAIN subs
          /\ g.id \in DOMAIN subs /\ subs[f.id].inv = subs[g.id].inv /\ f.email = g.email
               => f.id = g.id
    BY <2>1 DEF Due, KeyOf
  <2> QED
    BY <1>2, <1>3, <2>2 DEF Due, FoundOnce
<1>8. \A u \in Threads \ {t} : (At(u, "sweep")' => At(u, "sweep")) /\ (At(u, "request")' => At(u, "request"))
  BY <1>2 DEF At
<1>9. FoundExpired'
  BY <1>2, <1>8 DEF Due, FoundExpired, At, AttemptOf
<1>10. AsNamed'
  BY <1>2, <1>8 DEF Due, AsNamed, At
<1> QED
  BY <1>4, <1>5, <1>6, <1>7, <1>9, <1>10 DEF Due

LEMMA DueStep == Due /\ [Next]_vars => Due'
<1> SUFFICES ASSUME Due, [Next]_vars PROVE Due'
  OBVIOUS
<1> USE DEF posted, person, history
<1>0. Typed /\ Typed'
  BY TypedStep DEF Due
<1>1. ASSUME NEW t \in Threads, NEW i \in Invites, CreateInvite(t, i)
      PROVE  Due'
  <2>1. \A u \in Threads \ {t} : th'[u] = th[u]
    BY <1>1 DEF CreateInvite, Goto, Due, Typed, TypeOK
  <2>2. th'[t].pc = "deliver"
    BY <1>0, <1>1, IdleType DEF CreateInvite, Goto, Typed, TypeOK, Thread
  <2>3. Steady
    BY <1>1, <2>1, <2>2 DEF CreateInvite, Steady, Erasing
  <2> QED
    BY <1>0, <1>1, <2>3, DueSteady DEF CreateInvite
<1>2. ASSUME NEW t \in Threads, SaveDeliveries(t)
      PROVE  Due'
  <2>1. \A u \in Threads : Erasing(u)' => Erasing(u) /\ th'[u] = th[u]
    BY <1>0, <1>2, IdleType, GoesOn DEF SaveDeliveries
  <2>2. Steady
    BY <1>2, <2>1 DEF SaveDeliveries, Steady, Written
  <2> QED
    BY <1>0, <1>2, <2>2, DueSteady DEF SaveDeliveries
<1>3. ASSUME NEW t \in Threads, NEW k \in DOMAIN Plan, NEW i \in Invites, NEW e \in Emails,
             Ask(t, k, i, e)
      PROVE  Due'
  <2>1. PICK n : Goto(t, [Idle EXCEPT !.pc = "candidate", !.inv = i, !.email = e,
                                      !.todo = Plan[k], !.n = n])
    BY <1>3 DEF Ask
  <2>2. \A u \in Threads \ {t} : th'[u] = th[u]
    BY <2>1 DEF Goto, Due, Typed, TypeOK
  <2>3. th'[t].pc = "candidate"
    BY <1>0, <2>1, IdleType DEF Goto, Typed, TypeOK, Thread
  <2>4. Steady
    BY <1>3, <2>2, <2>3 DEF Ask, Steady, Erasing
  <2> QED
    BY <1>0, <1>3, <2>4, DueSteady DEF Ask
<1>4. ASSUME NEW t \in Threads, NEW c \in {"mark", "draft"}, PutRow(t, c)
      PROVE  Due'
  BY <1>0, <1>4, CommittedSteady, DueSteady DEF PutRow, Makes
<1>5. ASSUME NEW t \in Threads, PutAttempt(t)
      PROVE  Due'
  <2>1. /\ Steady
        /\ (\E u \in Threads : Erasing(u)) => <<th[t].inv, th[t].email>> \in overlapped'
    BY <1>0, <1>5, CommittedSteady DEF PutAttempt, Makes
  <2>2. CASE AttemptOf(th[t].inv, th[t].email) # {}
    BY <1>0, <1>5, <2>1, <2>2, DueSteady DEF PutAttempt
  <2>3. CASE AttemptOf(th[t].inv, th[t].email) = {}
    <3> DEFINE a == [inv |-> th[t].inv, who |-> th[t].email, old |-> FALSE, said |-> FALSE]
               N == Len(attempts) + 1
    <3>1. attempts \in Seq(CandidateAttempt) /\ th[t].email \in Emails
      BY <1>0, <1>5 DEF PutAttempt, Makes, At, Typed, TypeOK, Knows
    <3>2. attempts' = Append(attempts, a)
      BY <1>5, <2>3 DEF PutAttempt
    <3>3. /\ DOMAIN attempts' = DOMAIN attempts \cup {N}
          /\ N \notin DOMAIN attempts
          /\ \A n \in DOMAIN attempts : attempts'[n] = attempts[n]
          /\ attempts'[N] = a
      BY <3>1, <3>2
    <3>4. a.inv = th[t].inv /\ a.who = th[t].email
      OBVIOUS
    <3> HIDE DEF a, N
    <3>5. Numbered' /\ FreshIn(subs)' /\ KeyOf(subs)' /\ FoundOnce'
      BY <1>5, <2>1 DEF PutAttempt, Due, Numbered, FreshIn, KeyOf, FoundOnce, Steady
    <3>6. FreshIn(attempts)'
      BY <2>1, <3>1, <3>3, <3>4, ErasureAssumption DEF Due, FreshIn, Steady
    <3>7. KeyOf(attempts)'
      <4>1. \A n \in DOMAIN attempts : ~ (attempts[n].inv = a.inv /\ attempts[n].who = a.who)
        BY <2>3, <3>4 DEF AttemptOf
      <4> QED
        BY <3>3, <4>1 DEF Due, KeyOf
    <3>8. FoundExpired'
      <4> SUFFICES ASSUME NEW u \in Threads, At(u, "sweep")', NEW p \in th'[u].sittings,
                          NEW n \in AttemptOf(p[1], p[2])'
                   PROVE  attempts'[n].old \/ p \in overlapped'
        BY DEF FoundExpired
      <4>1. At(u, "sweep") /\ th'[u] = th[u] /\ Erasing(u)
        BY <2>1 DEF At, Erasing, Steady
      <4>2. n \in DOMAIN attempts' /\ attempts'[n].inv = p[1] /\ attempts'[n].who = p[2]
        BY DEF AttemptOf
      <4>3. CASE n \in DOMAIN attempts
        <5>1. n \in AttemptOf(p[1], p[2])
          BY <3>3, <4>2, <4>3 DEF AttemptOf
        <5> QED
          BY <2>1, <3>3, <4>1, <4>3, <5>1 DEF Due, FoundExpired, Steady
      <4>4. CASE n = N
        <5>1. p \in Sittings
          BY <1>0, <4>1 DEF Typed, TypeOK, Thread
        <5>2. p = <<th[t].inv, th[t].email>>
          BY <3>3, <3>4, <4>2, <4>4, <5>1 DEF Sittings
        <5> QED
          BY <2>1, <4>1, <5>2
      <4> QED
        BY <3>3, <4>2, <4>3, <4>4
    <3>9. AsNamed'
      <4>1. \A u \in Threads : At(u, "request")' => At(u, "request") /\ th'[u] = th[u]
        BY <2>1 DEF Steady, At, Erasing
      <4> QED
        BY <4>1 DEF Due, AsNamed
    <3> QED
      BY <1>0, <3>5, <3>6, <3>7, <3>8, <3>9 DEF Due
  <2> QED
    BY <2>2, <2>3
<1>6. ASSUME NEW t \in Threads, PutSubmission(t)
      PROVE  Due'
  <2>1. Steady
    BY <1>0, <1>6, CommittedSteady DEF PutSubmission, Makes
  <2>2. CASE SubmissionOf(th[t].inv, th[t].email) # {}
    BY <1>0, <1>6, <2>1, <2>2, DueSteady DEF PutSubmission
  <2>3. CASE SubmissionOf(th[t].inv, th[t].email) = {}
    <3> DEFINE a == [inv |-> th[t].inv, who |-> th[t].email, code |-> TRUE, result |-> "none"]
               N == Len(subs) + 1
    <3>1. subs \in Seq(Submission) /\ th[t].email \in Emails
      BY <1>0, <1>6 DEF PutSubmission, Makes, At, Typed, TypeOK, Knows
    <3>2. subs' = Append(subs, a)
      BY <1>6, <2>3 DEF PutSubmission
    <3>3. /\ DOMAIN subs' = DOMAIN subs \cup {N}
          /\ N \notin DOMAIN subs
          /\ \A n \in DOMAIN subs : subs'[n] = subs[n]
          /\ subs'[N] = a
      BY <3>1, <3>2
    <3>4. a.inv = th[t].inv /\ a.who = th[t].email
      OBVIOUS
    <3> HIDE DEF a, N
    <3>5. Numbered' /\ FreshIn(attempts)' /\ KeyOf(attempts)'
      BY <1>6, <2>1 DEF PutSubmission, Due, Numbered, FreshIn, KeyOf, Steady
    <3>6. FreshIn(subs)'
      BY <2>1, <3>1, <3>3, <3>4, ErasureAssumption DEF Due, FreshIn, Steady
    <3>7. KeyOf(subs)'
      <4>1. \A n \in DOMAIN subs : ~ (subs[n].inv = a.inv /\ subs[n].who = a.who)
        BY <2>3, <3>4 DEF SubmissionOf
      <4> QED
        BY <3>3, <4>1 DEF Due, KeyOf
    <3>8. FoundOnce'
      BY <2>1, <3>3 DEF Due, FoundOnce, Steady
    <3>9. AsNamed' /\ FoundExpired'
      <4>1. \A u \in Threads : (At(u, "request")' => At(u, "request") /\ th'[u] = th[u])
                            /\ (At(u, "sweep")' => At(u, "sweep") /\ th'[u] = th[u])
        BY <2>1 DEF Steady, At, Erasing
      <4> QED
        BY <1>6, <2>1, <4>1 DEF PutSubmission, Due, AsNamed, FoundExpired, AttemptOf, Steady
    <3> QED
      BY <1>0, <3>5, <3>6, <3>7, <3>8, <3>9 DEF Due
  <2> QED
    BY <2>2, <2>3
<1>7. ASSUME NEW t \in Threads, PutFeedback(t)
      PROVE  Due'
  <2>1. Steady
    BY <1>0, <1>7, CommittedSteady DEF PutFeedback, Makes
  <2>2. /\ DOMAIN attempts' = DOMAIN attempts
        /\ \A n \in DOMAIN attempts :
             /\ attempts'[n].inv = attempts[n].inv /\ attempts'[n].who = attempts[n].who
             /\ attempts[n].old => attempts'[n].old
    <3>1. attempts' = [attempts EXCEPT ![th[t].n].said = TRUE]
      BY <1>7 DEF PutFeedback
    <3>2. \A n \in DOMAIN attempts : attempts[n] \in CandidateAttempt
      BY <1>0, AttemptEmail
    <3> QED
      BY <3>1, <3>2 DEF CandidateAttempt
  <2> QED
    BY <1>0, <1>7, <2>1, <2>2, DueInPlace DEF PutFeedback
<1>8. ASSUME NEW t \in Threads, NEW e \in Emails, EraseCandidate(t, e)
      PROVE  Due'
  <2> DEFINE P == sent \X {e}
             l == [Idle EXCEPT !.pc = "request", !.email = e, !.n = erasures + 1,
                               !.old = lists,
                               !.new = [i \in Invites |-> Scrubbed(lists[i], e)],
                               !.sittings = P, !.found = Found(P)]
  <2>1. /\ l.pc = "request" /\ l.email = e /\ l.n = erasures + 1
        /\ l.sittings = P /\ l.found = Found(P)
    BY DEF Idle
  <2>2. /\ At(t, "idle") /\ Goto(t, l) /\ erasures' = erasures + 1
        /\ UNCHANGED <<attempts, subs, overlapped>>
    BY <1>8 DEF EraseCandidate
  <2>3. \A p \in P : p[2] = e
    OBVIOUS
  <2> HIDE DEF l, P
  <2> QED
    BY <1>0, <2>1, <2>2, <2>3, DueBegins
<1>9. ASSUME NEW t \in Threads, Sweep(t)
      PROVE  Due'
  <2> DEFINE l == [Idle EXCEPT !.pc = "sweep", !.n = erasures + 1,
                               !.old = lists,
                               !.new = [i \in Invites |->
                                          [to |-> lists[i].to \cap Kept(i, Expired),
                                           log |-> lists[i].log \cap Kept(i, Expired)]],
                               !.sittings = Expired, !.found = Found(Expired)]
  <2>1. /\ l.pc = "sweep" /\ l.n = erasures + 1
        /\ l.sittings = Expired /\ l.found = Found(Expired)
    BY DEF Idle
  <2>2. /\ At(t, "idle") /\ Goto(t, l) /\ erasures' = erasures + 1
        /\ UNCHANGED <<attempts, subs, overlapped>>
    BY <1>9 DEF Sweep
  <2>3. \A p \in Expired : \A n \in AttemptOf(p[1], p[2]) : attempts[n].old
    BY DEF Expired, AttemptOf, Due, KeyOf
  <2> HIDE DEF l
  <2> QED
    BY <1>0, <2>1, <2>2, <2>3, DueBegins
<1>10. ASSUME NEW t \in Threads, CommitErasure(t)
       PROVE  Due'
  BY <1>0, <1>10, DueCommitErasure
<1>11. CASE Age
  <2>1. Steady
    BY <1>11 DEF Age, Steady, Erasing
  <2> DEFINE h(n) == [attempts[n] EXCEPT !.old = TRUE]
  <2>2. attempts' = [n \in DOMAIN attempts |-> h(n)]
    BY <1>11 DEF Age
  <2>3. \A n \in DOMAIN attempts :
          h(n).inv = attempts[n].inv /\ h(n).who = attempts[n].who /\ h(n).old = TRUE
    <3> TAKE n \in DOMAIN attempts
    <3>1. attempts[n] \in CandidateAttempt
      BY <1>0, AttemptEmail
    <3> QED
      BY <3>1 DEF CandidateAttempt
  <2> HIDE DEF h
  <2> QED
    BY <1>0, <1>11, <2>1, <2>2, <2>3, DueInPlace DEF Age
<1>12. ASSUME NEW n \in DOMAIN subs, Callback(n)
       PROVE  Due'
  <2>1. Steady
    BY <1>12 DEF Callback, Steady, Erasing
  <2>2. /\ DOMAIN subs' = DOMAIN subs
        /\ \A m \in DOMAIN subs :
             subs'[m].inv = subs[m].inv /\ subs'[m].who = subs[m].who
    <3> DEFINE v == IF is_erased(subs[n].who) THEN "late" ELSE "full"
    <3>1. subs' = [subs EXCEPT ![n].result = v]
      BY <1>12 DEF Callback
    <3>2. \A m \in DOMAIN subs : subs[m] \in Submission
      BY <1>0 DEF Typed, TypeOK
    <3> HIDE DEF v
    <3> QED
      BY <3>1, <3>2 DEF Submission
  <2> QED
    BY <1>0, <1>12, <2>1, <2>2, DueInPlace DEF Callback
<1>13. CASE UNCHANGED vars
  <2>1. Steady
    BY <1>13 DEF vars, Steady, Erasing
  <2> QED
    BY <1>0, <1>13, <2>1, DueSteady DEF vars
<1> QED
  BY <1>1, <1>2, <1>3, <1>4, <1>5, <1>6, <1>7, <1>8, <1>9, <1>10, <1>11, <1>12, <1>13 DEF Next, PutMark, PutDraft

\* No erasure runs into a unique constraint, and is rolled back for it.
THEOREM KeysCorrect == Spec => []KeysHold
<1>1. Spec => []Due
  BY DueInit, DueStep, PTL DEF Spec
<1>2. Due => KeysHold
  BY DEF Due, KeyOf, KeysHold
<1> QED
  BY <1>1, <1>2, PTL

\* A sitting is anonymised for its own age or at its candidate's request, never
\* for another's.
THEOREM DueCorrect == Spec => ErasedOnlyWhenDue
<1> DEFINE due(n) == \/ attempts[n].old \/ <<attempts[n].inv, attempts[n].who>> \in overlapped
                     \/ \E t \in Threads : At(t, "request") /\ th[t].email = attempts[n].who
           step == \A n \in DOMAIN attempts :
                     ~ is_erased(attempts[n].who) /\ is_erased(attempts'[n].who) => due(n)
<1>1. ASSUME Due, [Next]_vars PROVE step
  <2> SUFFICES ASSUME NEW n \in DOMAIN attempts,
                      ~ is_erased(attempts[n].who), is_erased(attempts'[n].who)
               PROVE  due(n)
    OBVIOUS
  <2>1. ASSUME attempts'[n].who = attempts[n].who PROVE FALSE
    BY <2>1 DEF is_erased
  <2>2. ASSUME NEW t \in Threads, CommitErasure(t) PROVE due(n)
    <3>1. <<attempts[n].inv, attempts[n].who>> \in th[t].sittings
      <4>1. CASE <<attempts[n].inv, attempts[n].who>> \notin th[t].sittings
        BY <1>1, <2>1, <2>2, <4>1, AttemptsErased DEF Due, Typed
      <4> QED
        BY <4>1
    <3>2. n \in AttemptOf(attempts[n].inv, attempts[n].who)
      BY DEF AttemptOf
    <3>3. CASE At(t, "sweep")
      BY <1>1, <3>1, <3>2, <3>3 DEF Due, FoundExpired
    <3>4. CASE At(t, "request")
      BY <1>1, <3>1, <3>4 DEF Due, AsNamed
    <3> QED
      BY <2>2, <3>3, <3>4 DEF CommitErasure, Erasing, At
  <2>3. ASSUME NEW t \in Threads, PutAttempt(t) PROVE FALSE
    <3>1. attempts \in Seq(CandidateAttempt)
      BY <1>1 DEF Due, Typed, TypeOK
    <3>2. attempts'[n] = attempts[n]
      BY <2>3, <3>1 DEF PutAttempt
    <3> QED
      BY <2>1, <3>2
  <2>4. ASSUME NEW t \in Threads, PutFeedback(t) PROVE FALSE
    <3>1. attempts[n] \in CandidateAttempt
      BY <1>1, AttemptEmail DEF Due
    <3>2. attempts' = [attempts EXCEPT ![th[t].n].said = TRUE]
      BY <2>4 DEF PutFeedback
    <3>3. attempts'[n].who = attempts[n].who
      BY <3>1, <3>2 DEF CandidateAttempt
    <3> QED
      BY <2>1, <3>3
  <2>5. ASSUME Age PROVE FALSE
    <3>1. attempts[n] \in CandidateAttempt
      BY <1>1, AttemptEmail DEF Due
    <3>2. attempts'[n] = [attempts[n] EXCEPT !.old = TRUE]
      BY <2>5 DEF Age
    <3>3. attempts'[n].who = attempts[n].who
      BY <3>1, <3>2 DEF CandidateAttempt
    <3> QED
      BY <2>1, <3>3
  <2>6. ASSUME UNCHANGED attempts PROVE FALSE
    BY <2>1, <2>6
  <2> QED
    BY <1>1, <2>2, <2>3, <2>4, <2>5, <2>6, ZenonT(30)
       DEF Next, PutMark, PutDraft, vars, person, CreateInvite, SaveDeliveries, Ask, PutRow, PutSubmission,
           EraseCandidate, Sweep, Callback
<1>2. Spec => []Due
  BY DueInit, DueStep, PTL DEF Spec
<1> QED
  BY <1>1, <1>2, PTL DEF Spec, ErasedOnlyWhenDue

-----------------------------------------------------------------------------
(***************************************************************************)
(* Lists.  An eraser writes an invitation's lists as it computed them: who *)
(* came or went since it loaded them is among the overlapped.              *)
(***************************************************************************)
Crossed(i, e) == <<i, e>> \in overlapped
Sat(i, e) == AttemptOf(i, e) # {}
Serves(t, i, e) == At(t, "candidate") /\ th[t].inv = i /\ th[t].email = e
Sends(t, i) == At(t, "deliver") /\ th[t].inv = i

\* The eraser t found something on i.
Loaded(t, i) ==
  \/ th[t].new[i] # th[t].old[i]
  \/ \E e \in Emails : <<i, e>> \in th[t].sittings

\* Both lists lose the same people, those erased among them.
Cut(l, i, e) ==
  /\ e \in l.new[i].to => e \in l.old[i].to
  /\ e \in l.new[i].log => e \in l.old[i].log
  /\ e \in l.old[i].to /\ e \in l.old[i].log => (e \in l.new[i].to <=> e \in l.new[i].log)
  /\ <<i, e>> \in l.sittings => e \notin l.new[i].to /\ e \notin l.new[i].log

\* What has become of the lists that t loaded.
Since(t, i, e) ==
  /\ Loaded(t, i) /\ e \in lists[i].to => e \in th[t].old[i].to \/ Crossed(i, e)
  /\ Loaded(t, i) /\ e \in lists[i].log => e \in th[t].old[i].log \/ Crossed(i, e)
  /\ e \in th[t].old[i].to => e \in lists[i].to \/ Crossed(i, e)
  /\ e \in th[t].old[i].log =>
       (e \in lists[i].log /\ e \in th[t].old[i].to) \/ Crossed(i, e)
  /\ e \in th[t].old[i].to /\ e \notin th[t].new[i].to =>
       <<i, e>> \in th[t].sittings \/ ~ Sat(i, e) \/ Crossed(i, e)

Erases(t) ==
  \A i \in Invites : /\ i \notin sent => ~ Loaded(t, i)
                     /\ \A e \in Emails : Cut(th[t], i, e) /\ Since(t, i, e)

\* The second commit of an invitation lists no one who was taken off it.
Delivers(t, i) ==
  /\ i \in sent
  /\ \A j \in Invites : /\ th[t].new[j].to = th[t].old[j].to
                        /\ j # i => th[t].new[j].log = th[t].old[j].log
  /\ \A e \in Emails : /\ e \in th[t].new[i].log => e \in lists[i].to \/ Crossed(i, e)
                       /\ <<i, e>> \in forgotten => Crossed(i, e)

\* What a candidate's request was checked for.
Admitted(i, e) ==
  /\ i \in sent
  /\ e \in lists[i].to \/ Crossed(i, e)
  /\ <<i, e>> \in forgotten => Crossed(i, e)

ListsOf(i, e) ==
  /\ i \notin sent =>
       e \notin lists[i].to /\ e \notin lists[i].log /\ <<i, e>> \notin forgotten
  /\ Sat(i, e) => i \in sent /\ (e \in lists[i].to \/ Crossed(i, e))
  /\ e \in lists[i].log => e \in lists[i].to \/ Crossed(i, e)
  /\ <<i, e>> \in forgotten /\ ~ Crossed(i, e) =>
       e \notin lists[i].to /\ e \notin lists[i].log

Listed ==
  /\ \A t \in Threads : Erasing(t) => Erases(t)
  /\ \A t \in Threads, i \in Invites : Sends(t, i) => Delivers(t, i)
  /\ \A t \in Threads, i \in Invites, e \in Emails : Serves(t, i, e) => Admitted(i, e)
  /\ \A i \in Invites, e \in Emails : ListsOf(i, e)

LEMMA ListedInit == Init => Listed
<1> SUFFICES ASSUME Init PROVE Listed
  OBVIOUS
<1>1. \A t \in Threads : th[t].pc = "idle"
  BY IdleType DEF Init
<1>2. /\ attempts = <<>> /\ forgotten = {} /\ \A i \in Invites : lists[i] = Unsent
      /\ Unsent.to = {} /\ Unsent.log = {}
  BY DEF Init, Unsent
<1>3. \A i \in Invites, e \in Emails : ~ Sat(i, e)
  BY <1>2 DEF Sat, AttemptOf
<1> QED
  BY <1>1, <1>2, <1>3 DEF Listed, Erasing, Sends, Serves, At, ListsOf

\* The steps that leave the lists alone.
LEMMA ListedThreads ==
  ASSUME Typed, Typed', Listed, UNCHANGED <<sent, lists, forgotten>>, overlapped \subseteq overlapped',
         \A u \in Threads : Erasing(u)' => (Erasing(u) /\ th'[u] = th[u]) \/ Erases(u)',
         \A u \in Threads : At(u, "deliver")' => At(u, "deliver") /\ th'[u] = th[u],
         \A u \in Threads, i \in Invites, e \in Emails :
           Serves(u, i, e)' => Serves(u, i, e) \/ e \in lists[i].to,
         \A i \in Invites, e \in Emails : Sat(i, e)' =>
           \/ Sat(i, e)
           \/ /\ \E t \in Threads : Serves(t, i, e)
              /\ \A u \in Threads : Erasing(u) => Crossed(i, e)'
  PROVE  Listed'
<1>1. \A i, e : Crossed(i, e) => Crossed(i, e)'
  BY DEF Crossed
<1>2. \A i \in Invites, e \in Emails : ListsOf(i, e)
  BY DEF Listed
<1>3. ASSUME NEW u \in Threads, Erasing(u), th'[u] = th[u] PROVE Erases(u)'
  <2>1. Erases(u)
    BY <1>3 DEF Listed
  <2>2. ASSUME NEW i \in Invites PROVE Loaded(u, i)' <=> Loaded(u, i)
    BY <1>3 DEF Loaded
  <2>3. ASSUME NEW i \in Invites, NEW e \in Emails PROVE Cut(th[u], i, e)' /\ Since(u, i, e)'
    <3>1. Cut(th[u], i, e) /\ Since(u, i, e)
      BY <2>1 DEF Erases
    <3>2. Cut(th[u], i, e)'
      BY <1>3, <3>1 DEF Cut
    <3>3. ~ Sat(i, e) /\ ~ Crossed(i, e)' => ~ Sat(i, e)'
      BY <1>3
    <3>4. Since(u, i, e)'
      BY <1>1, <1>3, <2>2, <3>1, <3>3 DEF Since
    <3> QED
      BY <3>2, <3>4
  <2> QED
    BY <2>1, <2>2, <2>3 DEF Erases
<1>4. ASSUME NEW u \in Threads, NEW i \in Invites, Sends(u, i)' PROVE Delivers(u, i)'
  <2>1. Sends(u, i) /\ th'[u] = th[u]
    BY <1>4 DEF Sends, At
  <2>2. Delivers(u, i)
    BY <2>1 DEF Listed
  <2> QED
    BY <1>1, <2>1, <2>2 DEF Delivers
<1>5. ASSUME NEW u \in Threads, NEW i \in Invites, NEW e \in Emails, Serves(u, i, e)'
      PROVE  Admitted(i, e)'
  <2>1. Admitted(i, e) \/ e \in lists[i].to
    BY <1>5 DEF Listed
  <2>2. Admitted(i, e)
    BY <1>2, <2>1 DEF Admitted, ListsOf
  <2> QED
    BY <1>1, <2>2 DEF Admitted
<1>6. ASSUME NEW i \in Invites, NEW e \in Emails PROVE ListsOf(i, e)'
  <2>1. ListsOf(i, e)
    BY <1>2
  <2>2. Sat(i, e)' => Sat(i, e) \/ Admitted(i, e)
    BY DEF Listed
  <2>3. Sat(i, e)' => i \in sent /\ (e \in lists[i].to \/ Crossed(i, e))
    BY <2>1, <2>2 DEF ListsOf, Admitted
  <2> QED
    BY <1>1, <2>1, <2>3 DEF ListsOf
<1> QED
  BY <1>3, <1>4, <1>5, <1>6 DEF Listed

-----------------------------------------------------------------------------
LEMMA ListedCreate ==
  ASSUME Typed, Listed, NEW t \in Threads, NEW i0 \in Invites, CreateInvite(t, i0)
  PROVE  Listed'
<1> DEFINE made == [lists EXCEPT ![i0] = [to |-> addressed[i0], log |-> {}]]
           full == [made EXCEPT ![i0].log = addressed[i0]]
           l == [Idle EXCEPT !.pc = "deliver", !.inv = i0, !.old = made, !.new = full]
<1>1. /\ At(t, "idle") /\ i0 \notin sent /\ sent' = sent \cup {i0} /\ lists' = made /\ Goto(t, l)
      /\ UNCHANGED <<attempts, overlapped, forgotten>>
  BY DEF CreateInvite, person, history
<1>2. /\ made[i0].to = addressed[i0] /\ made[i0].log = {}
      /\ \A j \in Invites : j # i0 => made[j] = lists[j]
      /\ full[i0].to = made[i0].to /\ full[i0].log = addressed[i0]
      /\ \A j \in Invites : j # i0 => full[j] = made[j]
  BY DEF Typed, TypeOK
<1>3. l.pc = "deliver" /\ l.inv = i0 /\ l.old = made /\ l.new = full
  BY DEF Idle
<1> HIDE DEF made, full, l
<1>4. th'[t] = l /\ \A u \in Threads : u # t => th'[u] = th[u]
  BY <1>1 DEF Goto, Typed, TypeOK
<1>5. \A i, e : (Crossed(i, e)' <=> Crossed(i, e)) /\ (Sat(i, e)' <=> Sat(i, e))
  BY <1>1 DEF Crossed, Sat, AttemptOf
<1>6. \A i \in Invites, e \in Emails : ListsOf(i, e)
  BY DEF Listed
<1>7. ASSUME NEW u \in Threads, Erasing(u)' PROVE Erases(u)'
  <2>1. u # t /\ th'[u] = th[u] /\ Erases(u)
    BY <1>3, <1>4, <1>7 DEF Listed, Erasing
  <2>2. ASSUME NEW i \in Invites PROVE Loaded(u, i)' <=> Loaded(u, i)
    BY <2>1 DEF Loaded
  <2>3. ASSUME NEW i \in Invites, NEW e \in Emails PROVE Cut(th[u], i, e)' /\ Since(u, i, e)'
    <3>1. Cut(th[u], i, e) /\ Since(u, i, e)
      BY <2>1 DEF Erases
    <3>2. Cut(th[u], i, e)'
      BY <2>1, <3>1 DEF Cut
    <3>3. CASE i # i0
      <4>1. lists'[i] = lists[i]
        BY <1>1, <1>2, <3>3
      <4> QED
        BY <1>5, <2>1, <2>2, <3>1, <3>2, <4>1 DEF Since
    <3>4. CASE i = i0
      <4>1. ~ Loaded(u, i) /\ ListsOf(i, e)
        BY <1>1, <1>6, <2>1, <3>4 DEF Erases
      <4>2. th[u].new[i] = th[u].old[i]
        BY <4>1 DEF Loaded
      <4>3. e \notin lists[i].to /\ e \notin lists[i].log
        BY <1>1, <3>4, <4>1 DEF ListsOf
      <4> QED
        BY <1>5, <2>1, <2>2, <3>1, <3>2, <4>1, <4>2, <4>3 DEF Since
    <3> QED
      BY <3>3, <3>4
  <2>4. \A i \in Invites : i \notin sent' => ~ Loaded(u, i)'
    BY <1>1, <2>1, <2>2 DEF Erases
  <2> QED
    BY <2>3, <2>4 DEF Erases
<1>8. ASSUME NEW u \in Threads, NEW i \in Invites, Sends(u, i)' PROVE Delivers(u, i)'
  <2>1. CASE u = t
    <3>1. i = i0
      BY <1>3, <1>4, <1>8, <2>1 DEF Sends
    <3>2. \A e \in Emails : <<i, e>> \notin forgotten
      BY <1>1, <1>6, <3>1 DEF ListsOf
    <3>3. i \in sent' /\ \A j \in Invites : /\ th'[u].new[j].to = th'[u].old[j].to
                                            /\ j # i => th'[u].new[j].log = th'[u].old[j].log
      BY <1>1, <1>2, <1>3, <1>4, <2>1, <3>1
    <3>4. \A e \in Emails : e \in th'[u].new[i].log => e \in lists'[i].to
      BY <1>1, <1>2, <1>3, <1>4, <2>1, <3>1
    <3> QED
      BY <1>1, <3>2, <3>3, <3>4 DEF Delivers
  <2>2. CASE u # t
    <3>1. th'[u] = th[u] /\ Sends(u, i)
      BY <1>4, <1>8, <2>2 DEF Sends, At
    <3>2. Delivers(u, i)
      BY <3>1 DEF Listed
    <3>3. lists'[i] = lists[i]
      BY <1>1, <1>2, <3>2 DEF Delivers
    <3> QED
      BY <1>1, <1>5, <3>1, <3>2, <3>3 DEF Delivers
  <2> QED
    BY <2>1, <2>2
<1>9. ASSUME NEW u \in Threads, NEW i \in Invites, NEW e \in Emails, Serves(u, i, e)'
      PROVE  Admitted(i, e)'
  <2>1. Serves(u, i, e)
    BY <1>3, <1>4, <1>9 DEF Serves, At
  <2>2. Admitted(i, e)
    BY <2>1 DEF Listed
  <2>3. lists'[i] = lists[i]
    BY <1>1, <1>2, <2>2 DEF Admitted
  <2> QED
    BY <1>1, <1>5, <2>2, <2>3 DEF Admitted
<1>10. ASSUME NEW i \in Invites, NEW e \in Emails PROVE ListsOf(i, e)'
  <2>1. ListsOf(i, e)
    BY <1>6
  <2> QED
    BY <1>1, <1>2, <1>5, <2>1 DEF ListsOf
<1> QED
  BY <1>7, <1>8, <1>9, <1>10 DEF Listed

\* A commit writes the lists that its thread changed.
LEMMA ListsAre ==
  ASSUME Typed, NEW t \in Threads, lists' = ListsWritten(th[t]), NEW i \in Invites
  PROVE  /\ IF th[t].new[i].to # th[t].old[i].to
            THEN lists'[i].to = th[t].new[i].to ELSE lists'[i].to = lists[i].to
         /\ IF th[t].new[i].log # th[t].old[i].log
            THEN lists'[i].log = th[t].new[i].log ELSE lists'[i].log = lists[i].log
BY DEF ListsWritten, Column

LEMMA ListedSave ==
  ASSUME Typed, Listed, NEW t \in Threads, SaveDeliveries(t)
  PROVE  Listed'
<1>1. PICK i0 \in Invites : i0 = th[t].inv
  BY DEF SaveDeliveries, At, Typed, Knows
<1>2. /\ At(t, "deliver") /\ lists' = ListsWritten(th[t]) /\ Goto(t, Idle)
      /\ overlapped' = Written(t, InHand(t)) /\ UNCHANGED <<sent, attempts, forgotten>>
  BY DEF SaveDeliveries, posted, person
<1>3. Sends(t, i0) /\ Delivers(t, i0)
  BY <1>1, <1>2 DEF Sends, Listed
<1>4. th'[t].pc = "idle" /\ \A u \in Threads : u # t => th'[u] = th[u]
  BY <1>2, IdleType DEF Goto, Typed, TypeOK
<1>5. /\ \A i \in Invites : lists'[i].to = lists[i].to /\ (i # i0 => lists'[i].log = lists[i].log)
      /\ lists'[i0].log = lists[i0].log \/ lists'[i0].log = th[t].new[i0].log
  BY <1>2, <1>3, ListsAre DEF Delivers
\* An eraser takes the invitation's log for what it was.
<1>6. /\ \A i, e : Crossed(i, e) => Crossed(i, e)'
      /\ \A u \in Threads : Erasing(u) => \A e \in Emails : Crossed(i0, e)'
  <2>1. InHand(t) = {i0} \X Emails
    BY <1>1, <1>2 DEF InHand, At, Erasing
  <2>2. \A u \in Threads : Erasing(u) => u # t
    BY <1>2 DEF Erasing, At
  <2> QED
    BY <1>2, <2>1, <2>2 DEF Written, Crossed
<1>7. \A i, e : Sat(i, e)' <=> Sat(i, e)
  BY <1>2 DEF Sat, AttemptOf
<1>8. ASSUME NEW u \in Threads, Erasing(u)' PROVE Erases(u)'
  <2>1. th'[u] = th[u] /\ Erases(u) /\ Erasing(u)
    BY <1>4, <1>8 DEF Listed, Erasing
  <2>2. ASSUME NEW i \in Invites PROVE Loaded(u, i)' <=> Loaded(u, i)
    BY <2>1 DEF Loaded
  <2>3. ASSUME NEW i \in Invites, NEW e \in Emails PROVE Cut(th[u], i, e)' /\ Since(u, i, e)'
    <3>1. Cut(th[u], i, e) /\ Since(u, i, e)
      BY <2>1 DEF Erases
    <3>2. Cut(th[u], i, e)'
      BY <2>1, <3>1 DEF Cut
    <3>3. i # i0 \/ Crossed(i, e)'
      BY <1>6, <2>1
    <3>4. Since(u, i, e)'
      BY <1>5, <1>6, <1>7, <2>1, <2>2, <3>1, <3>3 DEF Since
    <3> QED
      BY <3>2, <3>4
  <2> QED
    BY <1>2, <2>1, <2>2, <2>3 DEF Erases
<1>9. ASSUME NEW u \in Threads, NEW i \in Invites, Sends(u, i)' PROVE Delivers(u, i)'
  <2>1. th'[u] = th[u] /\ Sends(u, i)
    BY <1>4, <1>9 DEF Sends, At
  <2>2. Delivers(u, i)
    BY <2>1 DEF Listed
  <2> QED
    BY <1>2, <1>5, <1>6, <2>1, <2>2 DEF Delivers
<1>10. ASSUME NEW u \in Threads, NEW i \in Invites, NEW e \in Emails, Serves(u, i, e)'
       PROVE  Admitted(i, e)'
  <2>1. Serves(u, i, e)
    BY <1>4, <1>10 DEF Serves, At
  <2>2. Admitted(i, e)
    BY <2>1 DEF Listed
  <2> QED
    BY <1>2, <1>5, <1>6, <2>2 DEF Admitted
<1>11. ASSUME NEW i \in Invites, NEW e \in Emails PROVE ListsOf(i, e)'
  <2>1. ListsOf(i, e)
    BY DEF Listed
  <2>2. CASE i # i0
    BY <1>2, <1>5, <1>6, <1>7, <2>1, <2>2 DEF ListsOf
  <2>3. CASE i = i0
    BY <1>2, <1>3, <1>5, <1>6, <1>7, <2>1, <2>3 DEF ListsOf, Delivers
  <2> QED
    BY <2>2, <2>3
<1> QED
  BY <1>8, <1>9, <1>10, <1>11 DEF Listed

-----------------------------------------------------------------------------
\* What an erasure takes off an invitation while another thread has it in hand
\* is noted.
LEMMA Noted ==
  ASSUME Typed, NEW t \in Threads, CommitErasure(t), NEW i \in Invites, NEW e \in Emails,
         NEW u \in Threads, u # t, Erasing(u) \/ Serves(u, i, e) \/ Sends(u, i),
         <<i, e>> \in th[t].sittings \/ (e \in th[t].old[i].to /\ e \notin th[t].new[i].to)
  PROVE  Crossed(i, e)'
<1>1. <<i, e>> \in InHand(u)
  <2>1. CASE Erasing(u)
    BY <2>1 DEF InHand, Erasing, At, Sittings
  <2>2. CASE Serves(u, i, e)
    BY <2>2 DEF InHand, Erasing, At, Serves
  <2>3. CASE Sends(u, i)
    BY <2>3 DEF InHand, Erasing, At, Sends
  <2> QED
    BY <2>1, <2>2, <2>3
<1>2. <<i, e>> \in Touched(t)
  BY DEF Touched, Sittings
<1>3. <<i, e>> \in overlapped'
  BY <1>1, <1>2 DEF CommitErasure
<1> QED
  BY <1>3 DEF Crossed

\* Apart from the overlapped, an erasure lists nobody who was not listed, and
\* takes off both lists of an invitation those it had found there.
LEMMA TakesOff ==
  ASSUME Typed, Listed, NEW t \in Threads, CommitErasure(t),
         NEW i \in Invites, NEW e \in Emails, ~ Crossed(i, e)
  PROVE  /\ e \in lists'[i].to => e \in lists[i].to
         /\ e \in lists'[i].log => e \in lists[i].log /\ e \in lists'[i].to
         /\ (e \in lists[i].to /\ e \notin lists'[i].to) \/ (e \in lists[i].log /\ e \notin lists'[i].log) =>
              e \in th[t].old[i].to /\ e \notin th[t].new[i].to
         /\ <<i, e>> \in th[t].sittings => e \notin lists'[i].to /\ e \notin lists'[i].log
<1>1. lists' = ListsWritten(th[t]) /\ Erasing(t)
  BY DEF CommitErasure
<1>2. /\ IF th[t].new[i].to # th[t].old[i].to
         THEN lists'[i].to = th[t].new[i].to ELSE lists'[i].to = lists[i].to
      /\ IF th[t].new[i].log # th[t].old[i].log
         THEN lists'[i].log = th[t].new[i].log ELSE lists'[i].log = lists[i].log
  BY <1>1, ListsAre
<1>3. Cut(th[t], i, e) /\ Since(t, i, e)
  BY <1>1 DEF Listed, Erases
<1>4. ListsOf(i, e)
  BY DEF Listed
<1>5. /\ th[t].new[i].to # th[t].old[i].to => Loaded(t, i)
      /\ th[t].new[i].log # th[t].old[i].log => Loaded(t, i)
      /\ <<i, e>> \in th[t].sittings => Loaded(t, i)
  BY DEF Loaded
<1>6. e \in lists'[i].to => e \in lists[i].to
  BY <1>2, <1>3 DEF Cut, Since
<1>7. e \in lists'[i].log => e \in lists[i].log
  BY <1>2, <1>3 DEF Cut, Since
<1>8. e \in lists[i].to /\ e \notin lists'[i].to => e \in th[t].old[i].to /\ e \notin th[t].new[i].to
  BY <1>2, <1>3, <1>5 DEF Since
<1>9. e \in lists[i].log /\ e \notin lists'[i].log => e \in th[t].old[i].to /\ e \notin th[t].new[i].to
  BY <1>2, <1>3, <1>5 DEF Cut, Since
<1>10. e \in lists'[i].log => e \in lists'[i].to
  <2> SUFFICES ASSUME e \in lists'[i].log, e \notin lists'[i].to PROVE FALSE
    OBVIOUS
  <2>1. e \in lists[i].log /\ e \in lists[i].to
    BY <1>4, <1>7 DEF ListsOf
  <2>2. e \in th[t].old[i].to /\ e \notin th[t].new[i].to
    BY <1>8, <2>1
  <2>3. e \in th[t].old[i].log
    BY <1>3, <1>5, <2>1, <2>2 DEF Since
  <2>4. e \notin th[t].new[i].log
    BY <1>3, <2>2, <2>3 DEF Cut
  <2> QED
    BY <1>2, <2>3, <2>4
<1>11. <<i, e>> \in th[t].sittings => e \notin lists'[i].to
  BY <1>2, <1>3, <1>5 DEF Cut, Since
<1> QED
  BY <1>6, <1>7, <1>8, <1>9, <1>10, <1>11

LEMMA ListedCommit ==
  ASSUME Due, Listed, NEW t \in Threads, CommitErasure(t)
  PROVE  Listed'
<1>0. Typed
  BY DEF Due
<1>1. /\ Erasing(t) /\ Goto(t, Idle) /\ sent' = sent /\ overlapped \subseteq overlapped'
      /\ forgotten' = forgotten \cup th[t].sittings /\ lists' = ListsWritten(th[t])
  BY DEF CommitErasure, posted
<1>2. th'[t].pc = "idle" /\ \A u \in Threads : u # t => th'[u] = th[u]
  BY <1>0, <1>1, IdleType DEF Goto, Typed, TypeOK
<1>3. \A i, e : Crossed(i, e) => Crossed(i, e)'
  BY <1>1 DEF Crossed
<1>4. ASSUME NEW i \in Invites, NEW e \in Emails, Sat(i, e)'
      PROVE  Sat(i, e) /\ <<i, e>> \notin th[t].sittings
  <2>1. PICK n \in DOMAIN attempts' : attempts'[n].inv = i /\ attempts'[n].who = e
    BY <1>4 DEF Sat, AttemptOf
  <2>2. n \in DOMAIN attempts
    BY <2>1 DEF CommitErasure
  <2>3. attempts'[n] = attempts[n] /\ <<attempts[n].inv, attempts[n].who>> \notin th[t].sittings
    <3>1. \A j \in Invites, w \in Emails : Tombstone(t, j, w) \notin Emails
      BY <1>1, TombstoneFresh
    <3> QED
      BY <2>1, <2>2, <3>1, AttemptsErased
  <2> QED
    BY <2>1, <2>2, <2>3 DEF Sat, AttemptOf
\* What is still uncrossed, and off the lists now, was in nobody else's hands.
<1>5. ASSUME NEW i \in Invites, NEW e \in Emails, ~ Crossed(i, e)',
             NEW u \in Threads, u # t, Erasing(u) \/ Serves(u, i, e) \/ Sends(u, i)
      PROVE  /\ e \in lists'[i].to <=> e \in lists[i].to
             /\ e \in lists'[i].log <=> e \in lists[i].log
             /\ <<i, e>> \notin th[t].sittings
  <2>1. ~ Crossed(i, e)
    BY <1>3, <1>5
  <2>2. ~ (<<i, e>> \in th[t].sittings \/ (e \in th[t].old[i].to /\ e \notin th[t].new[i].to))
    BY <1>0, <1>5, Noted
  <2> QED
    BY <1>0, <2>1, <2>2, TakesOff
<1>6. ASSUME NEW u \in Threads, Erasing(u)' PROVE Erases(u)'
  <2>1. u # t /\ th'[u] = th[u] /\ Erasing(u) /\ Erases(u)
    BY <1>2, <1>6 DEF Listed, Erasing
  <2>2. ASSUME NEW i \in Invites PROVE Loaded(u, i)' <=> Loaded(u, i)
    BY <2>1 DEF Loaded
  <2>3. ASSUME NEW i \in Invites, NEW e \in Emails PROVE Cut(th[u], i, e)' /\ Since(u, i, e)'
    <3>1. Cut(th[u], i, e) /\ Since(u, i, e)
      BY <2>1 DEF Erases
    <3>2. Cut(th[u], i, e)'
      BY <2>1, <3>1 DEF Cut
    <3>3. Since(u, i, e)'
      <4>1. CASE Crossed(i, e)'
        BY <4>1 DEF Since
      <4>2. CASE ~ Crossed(i, e)'
        <5>1. /\ e \in lists'[i].to <=> e \in lists[i].to
              /\ e \in lists'[i].log <=> e \in lists[i].log
              /\ ~ Crossed(i, e) /\ (Sat(i, e)' => Sat(i, e))
          BY <1>3, <1>4, <1>5, <2>1, <4>2
        <5> QED
          BY <2>1, <2>2, <3>1, <5>1 DEF Since
      <4> QED
        BY <4>1, <4>2
    <3> QED
      BY <3>2, <3>3
  <2> QED
    BY <1>1, <2>1, <2>2, <2>3 DEF Erases
<1>7. ASSUME NEW u \in Threads, NEW i \in Invites, Sends(u, i)' PROVE Delivers(u, i)'
  <2>1. u # t /\ th'[u] = th[u] /\ Sends(u, i)
    BY <1>2, <1>7 DEF Sends, At
  <2>2. Delivers(u, i)
    BY <2>1 DEF Listed
  <2>3. ASSUME NEW e \in Emails
        PROVE  /\ e \in th'[u].new[i].log => e \in lists'[i].to \/ Crossed(i, e)'
               /\ <<i, e>> \in forgotten' => Crossed(i, e)'
    <3>1. CASE Crossed(i, e)'
      BY <3>1
    <3>2. CASE ~ Crossed(i, e)'
      <4>1. /\ e \in lists'[i].to <=> e \in lists[i].to
            /\ <<i, e>> \notin th[t].sittings /\ ~ Crossed(i, e)
        BY <1>3, <1>5, <2>1, <3>2
      <4> QED
        BY <1>1, <2>1, <2>2, <4>1 DEF Delivers
    <3> QED
      BY <3>1, <3>2
  <2> QED
    BY <1>1, <2>1, <2>2, <2>3 DEF Delivers
<1>8. ASSUME NEW u \in Threads, NEW i \in Invites, NEW e \in Emails, Serves(u, i, e)'
      PROVE  Admitted(i, e)'
  <2>1. u # t /\ Serves(u, i, e)
    BY <1>2, <1>8 DEF Serves, At
  <2>2. Admitted(i, e)
    BY <2>1 DEF Listed
  <2>3. CASE Crossed(i, e)'
    BY <1>1, <2>2, <2>3 DEF Admitted
  <2>4. CASE ~ Crossed(i, e)'
    <3>1. /\ e \in lists'[i].to <=> e \in lists[i].to
          /\ <<i, e>> \notin th[t].sittings /\ ~ Crossed(i, e)
      BY <1>3, <1>5, <2>1, <2>4
    <3> QED
      BY <1>1, <2>2, <3>1 DEF Admitted
  <2> QED
    BY <2>3, <2>4
<1>9. ASSUME NEW i \in Invites, NEW e \in Emails PROVE ListsOf(i, e)'
  <2>1. ListsOf(i, e) /\ Cut(th[t], i, e) /\ Since(t, i, e) /\ (i \notin sent => ~ Loaded(t, i))
    BY <1>1 DEF Listed, Erases
  <2>2. i \notin sent =>
          lists'[i].to = lists[i].to /\ lists'[i].log = lists[i].log /\ <<i, e>> \notin th[t].sittings
    BY <1>0, <1>1, <2>1, ListsAre DEF Loaded
  <2>3. CASE Crossed(i, e)'
    BY <1>1, <1>4, <2>1, <2>2, <2>3 DEF ListsOf
  <2>4. CASE ~ Crossed(i, e)'
    <3>1. ~ Crossed(i, e)
      BY <1>3, <2>4
    <3>2. /\ e \in lists'[i].to => e \in lists[i].to
          /\ e \in lists'[i].log => e \in lists[i].log /\ e \in lists'[i].to
          /\ e \in lists[i].to /\ e \notin lists'[i].to =>
               e \in th[t].old[i].to /\ e \notin th[t].new[i].to
          /\ <<i, e>> \in th[t].sittings => e \notin lists'[i].to /\ e \notin lists'[i].log
      BY <1>0, <3>1, TakesOff
    <3>3. Sat(i, e)' => Sat(i, e) /\ e \in lists'[i].to
      BY <1>4, <2>1, <3>1, <3>2 DEF ListsOf, Since
    <3> QED
      BY <1>1, <2>1, <2>2, <3>1, <3>2, <3>3 DEF ListsOf
  <2> QED
    BY <2>3, <2>4
<1> QED
  BY <1>6, <1>7, <1>8, <1>9 DEF Listed

-----------------------------------------------------------------------------
\* An eraser begins with the lists as they are; K are those who stay.
LEMMA ErasesFirst ==
  ASSUME Typed, Listed, NEW t \in Threads, NEW l, NEW K, th'[t] = l,
         UNCHANGED <<sent, lists, attempts, overlapped>>,
         l.old = lists,
         \A i \in Invites, e \in Emails :
           /\ e \in l.new[i].to <=> e \in lists[i].to /\ <<i, e>> \in K
           /\ e \in l.new[i].log <=> e \in lists[i].log /\ <<i, e>> \in K
           /\ <<i, e>> \in l.sittings => <<i, e>> \notin K
           /\ e \in lists[i].to /\ <<i, e>> \notin K => <<i, e>> \in l.sittings \/ ~ Sat(i, e),
         \A i \in Invites \ sent :
           l.new[i] = lists[i] /\ \A e \in Emails : <<i, e>> \notin l.sittings
  PROVE  Erases(t)'
<1>1. \A i, e : (Crossed(i, e)' <=> Crossed(i, e)) /\ (Sat(i, e)' <=> Sat(i, e))
  BY DEF Crossed, Sat, AttemptOf
<1>2. \A i \in Invites : i \notin sent' => ~ Loaded(t, i)'
  BY DEF Loaded
<1>3. ASSUME NEW i \in Invites, NEW e \in Emails PROVE Cut(th[t], i, e)' /\ Since(t, i, e)'
  <2>1. ListsOf(i, e)
    BY DEF Listed
  <2>2. Cut(th[t], i, e)'
    BY DEF Cut
  <2>3. Since(t, i, e)'
    BY <1>1, <2>1 DEF Since, ListsOf
  <2> QED
    BY <2>2, <2>3
<1> QED
  BY <1>2, <1>3 DEF Erases

LEMMA ListedBegins ==
  ASSUME Due, Typed', Listed, NEW t \in Threads,
         (\E e \in Emails : EraseCandidate(t, e)) \/ Sweep(t)
  PROVE  Listed'
<1> USE DEF person, posted, history
<1>0. Typed
  BY DEF Due
<1>1. \A i \in Invites, e \in Emails : ListsOf(i, e)
  BY DEF Listed
<1>2. \A i \in Invites : lists[i] \in Invite
  BY <1>0 DEF Typed, TypeOK
<1>3. \A i \in Invites \ sent : lists[i].to = {} /\ lists[i].log = {}
  BY <1>1, <1>2 DEF ListsOf, Invite
<1>4. PICK l \in Thread : th'[t] = l /\ Goto(t, l)
  <2>1. PICK l : Goto(t, l)
    BY DEF EraseCandidate, Sweep
  <2>2. th'[t] = l
    BY <1>0, <2>1 DEF Goto, Typed, TypeOK
  <2>3. l \in Thread
    BY <2>2 DEF Typed, TypeOK
  <2> QED
    BY <2>1, <2>2, <2>3
<1>5. /\ UNCHANGED <<sent, lists, attempts, overlapped, forgotten>>
      /\ \A u \in Threads : u # t => th'[u] = th[u]
  BY <1>0, <1>4 DEF EraseCandidate, Sweep, Goto, Typed, TypeOK
<1>6. l.pc \in {"request", "sweep"} /\ Erases(t)'
  <2>1. ASSUME NEW e \in Emails, EraseCandidate(t, e)
        PROVE  l.pc \in {"request", "sweep"} /\ Erases(t)'
    <3> DEFINE gone == [i \in Invites |-> Scrubbed(lists[i], e)]
               K == {p \in Sittings : p[2] # e}
    <3>1. l = [Idle EXCEPT !.pc = "request", !.email = e, !.n = erasures + 1,
                           !.old = lists, !.new = gone,
                           !.sittings = sent \X {e}, !.found = Found(sent \X {e})]
      BY <1>0, <1>4, <2>1 DEF EraseCandidate, Goto, Typed, TypeOK
    <3>2. /\ l.pc = "request" /\ l.old = lists /\ l.new = gone /\ l.sittings = sent \X {e}
      BY <3>1 DEF Idle
    <3>3. \A i \in Invites : /\ gone[i].to = lists[i].to \ {e}
                             /\ gone[i].log = lists[i].log \ {e}
      BY DEF Scrubbed
    <3>4. \A i \in Invites \ sent : gone[i] = lists[i]
      BY <1>2, <1>3 DEF Scrubbed, Invite
    <3> HIDE DEF gone
    <3>5. \A i \in Invites, x \in Emails : <<i, x>> \in K <=> x # e
      BY DEF Sittings
    <3>6. \A i \in Invites, x \in Emails : <<i, x>> \in l.sittings <=> i \in sent /\ x = e
      BY <3>2
    <3> HIDE DEF K
    <3>7. \A i \in Invites, x \in Emails :
            /\ x \in l.new[i].to <=> x \in lists[i].to /\ <<i, x>> \in K
            /\ x \in l.new[i].log <=> x \in lists[i].log /\ <<i, x>> \in K
            /\ <<i, x>> \in l.sittings => <<i, x>> \notin K
            /\ x \in lists[i].to /\ <<i, x>> \notin K => <<i, x>> \in l.sittings
      <4> TAKE i \in Invites, x \in Emails
      <4>1. (<<i, x>> \in K <=> x # e) /\ (<<i, x>> \in l.sittings <=> i \in sent /\ x = e)
        BY <3>5, <3>6
      <4>2. l.new[i].to = lists[i].to \ {e} /\ l.new[i].log = lists[i].log \ {e}
        BY <3>2, <3>3
      <4>3. i \in sent \/ lists[i].to = {}
        BY <1>3
      <4> QED
        BY <4>1, <4>2, <4>3
    <3>8. \A i \in Invites \ sent :
            l.new[i] = lists[i] /\ \A x \in Emails : <<i, x>> \notin l.sittings
      BY <3>2, <3>4, <3>6
    <3>9. Erases(t)'
      BY <1>0, <1>4, <1>5, <3>2, <3>7, <3>8, ErasesFirst
    <3> QED
      BY <3>2, <3>9
  <2>2. ASSUME Sweep(t)
        PROVE  l.pc \in {"request", "sweep"} /\ Erases(t)'
    <3> DEFINE left == [i \in Invites |->
                         [to |-> lists[i].to \cap Kept(i, Expired),
                          log |-> lists[i].log \cap Kept(i, Expired)]]
               K == {p \in Sittings : p[2] \in Kept(p[1], Expired)}
    <3>1. l = [Idle EXCEPT !.pc = "sweep", !.n = erasures + 1,
                           !.old = lists, !.new = left,
                           !.sittings = Expired, !.found = Found(Expired)]
      BY <1>0, <1>4, <2>2 DEF Sweep, Goto, Typed, TypeOK
    <3>2. /\ l.pc = "sweep" /\ l.old = lists /\ l.new = left /\ l.sittings = Expired
      BY <3>1 DEF Idle
    <3>3. \A i \in Invites : /\ left[i].to = lists[i].to \cap Kept(i, Expired)
                             /\ left[i].log = lists[i].log \cap Kept(i, Expired)
      OBVIOUS
    <3>4. \A i \in Invites \ sent : left[i] = lists[i]
      BY <1>2, <1>3 DEF Invite
    <3> HIDE DEF left
    <3>5. \A i \in Invites, x \in Emails : <<i, x>> \in K <=> x \in Kept(i, Expired)
      BY DEF Sittings
    <3> HIDE DEF K
    <3>6. \A i \in Invites, x \in Emails :
            /\ <<i, x>> \in Expired => x \notin Kept(i, Expired)
            /\ x \notin Kept(i, Expired) => <<i, x>> \in Expired \/ ~ Sat(i, x)
      BY DEF Kept, Unerased, Sat
    <3>7. \A i \in Invites, x \in Emails : <<i, x>> \in Expired => Sat(i, x)
      BY DEF Expired, Sat
    <3>8. \A i \in Invites, x \in Emails :
            /\ x \in l.new[i].to <=> x \in lists[i].to /\ <<i, x>> \in K
            /\ x \in l.new[i].log <=> x \in lists[i].log /\ <<i, x>> \in K
            /\ <<i, x>> \in l.sittings => <<i, x>> \notin K
            /\ x \in lists[i].to /\ <<i, x>> \notin K => <<i, x>> \in l.sittings \/ ~ Sat(i, x)
      BY <3>2, <3>3, <3>5, <3>6, ZenonT(30)
    <3>9. \A i \in Invites \ sent :
            l.new[i] = lists[i] /\ \A x \in Emails : <<i, x>> \notin l.sittings
      BY <1>1, <3>2, <3>4, <3>7 DEF ListsOf
    <3>10. Erases(t)'
      BY <1>0, <1>4, <1>5, <3>2, <3>8, <3>9, ErasesFirst
    <3> QED
      BY <3>2, <3>10
  <2> QED
    BY <2>1, <2>2
<1>7. \A u \in Threads : Erasing(u)' => (Erasing(u) /\ th'[u] = th[u]) \/ Erases(u)'
  <2>1. \A u \in Threads : u # t => (Erasing(u)' => Erasing(u))
    BY <1>5 DEF Erasing
  <2> QED
    BY <1>5, <1>6, <2>1
<1>8. \A u \in Threads : /\ At(u, "deliver")' => At(u, "deliver") /\ th'[u] = th[u]
                         /\ \A i, e : Serves(u, i, e)' => Serves(u, i, e)
  BY <1>4, <1>5, <1>6 DEF At, Serves
<1>9. \A i, e : Sat(i, e)' => Sat(i, e)
  BY <1>5 DEF Sat, AttemptOf
<1> QED
  BY <1>0, <1>5, <1>7, <1>8, <1>9, ListedThreads

\* A commit of a candidate's request: it begins its own sitting, if any.
LEMMA ListedCommitted ==
  ASSUME Typed, Typed', Listed, NEW t \in Threads, At(t, "candidate"), Committed(t),
         \A i \in Invites, e \in Emails : Sat(i, e)' => Sat(i, e) \/ Serves(t, i, e)
  PROVE  Listed'
<1>1. /\ Steady
      /\ (\E u \in Threads : Erasing(u)) => <<th[t].inv, th[t].email>> \in overlapped'
  BY CommittedSteady
<1>2. UNCHANGED <<sent, lists, forgotten>>
  BY DEF Committed, posted
<1>3. PICK l : /\ Goto(t, l)
               /\ l.pc = "idle" \/ (l.pc = "candidate" /\ l.inv = th[t].inv /\ l.email = th[t].email)
  <2>1. th[t] \in Thread
    BY DEF Typed, TypeOK
  <2>2. Goto(t, Idle) \/ Goto(t, [th[t] EXCEPT !.todo = Tail(@)])
    BY DEF Committed
  <2>3. /\ [th[t] EXCEPT !.todo = Tail(@)].pc = "candidate"
        /\ [th[t] EXCEPT !.todo = Tail(@)].inv = th[t].inv
        /\ [th[t] EXCEPT !.todo = Tail(@)].email = th[t].email
    BY <2>1 DEF At, Thread
  <2> QED
    BY <2>2, <2>3, IdleType
<1>4. th'[t] = l /\ \A u \in Threads : u # t => th'[u] = th[u]
  BY <1>3 DEF Goto, Typed, TypeOK
<1>5. \A u \in Threads : /\ At(u, "deliver")' => At(u, "deliver") /\ th'[u] = th[u]
                         /\ \A i, e : Serves(u, i, e)' => Serves(u, i, e)
  BY <1>3, <1>4 DEF At, Serves
<1>6. \A i \in Invites, e \in Emails : Serves(t, i, e) =>
        \A u \in Threads : Erasing(u) => Crossed(i, e)'
  BY <1>1 DEF Serves, Crossed
<1>7. \A u \in Threads : Erasing(u)' => Erasing(u) /\ th'[u] = th[u]
  BY <1>1 DEF Steady
<1>8. overlapped \subseteq overlapped'
  BY <1>1 DEF Steady
<1> QED
  BY <1>2, <1>5, <1>6, <1>7, <1>8, ListedThreads

-----------------------------------------------------------------------------
LEMMA ListedStep == Due /\ Due' /\ Listed /\ [Next]_vars => Listed'
<1> SUFFICES ASSUME Due, Due', Listed, [Next]_vars PROVE Listed'
  OBVIOUS
<1> USE DEF posted, person, history
<1>0. Typed /\ Typed'
  BY DEF Due
\* What leaves every thread and every attempt where it is.
<1>q. ASSUME UNCHANGED <<sent, lists, forgotten, overlapped, th>>,
             \A i \in Invites, e \in Emails : Sat(i, e)' => Sat(i, e)
      PROVE  Listed'
  <2>1. \A u \in Threads : /\ Erasing(u)' => Erasing(u) /\ th'[u] = th[u]
                           /\ At(u, "deliver")' => At(u, "deliver") /\ th'[u] = th[u]
                           /\ \A i, e : Serves(u, i, e)' => Serves(u, i, e)
    BY <1>q DEF Erasing, At, Serves
  <2> QED
    BY <1>0, <1>q, <2>1, ListedThreads
<1>1. ASSUME NEW t \in Threads, NEW k \in DOMAIN Plan, NEW i \in Invites, NEW e \in Emails,
             Ask(t, k, i, e)
      PROVE  Listed'
  <2>1. PICK n : Goto(t, [Idle EXCEPT !.pc = "candidate", !.inv = i, !.email = e,
                                      !.todo = Plan[k], !.n = n])
    BY <1>1 DEF Ask
  <2>2. /\ th'[t].pc = "candidate" /\ th'[t].inv = i /\ th'[t].email = e
        /\ \A u \in Threads : u # t => th'[u] = th[u]
    BY <1>0, <2>1 DEF Goto, Idle, Typed, TypeOK
  <2>3. /\ UNCHANGED <<sent, lists, forgotten, overlapped, attempts>> /\ e \in lists[i].to
    BY <1>1 DEF Ask
  <2>4. \A u \in Threads : /\ Erasing(u)' => Erasing(u) /\ th'[u] = th[u]
                           /\ At(u, "deliver")' => At(u, "deliver") /\ th'[u] = th[u]
                           /\ \A j, x : Serves(u, j, x)' => Serves(u, j, x) \/ (j = i /\ x = e)
    BY <2>2 DEF Erasing, At, Serves
  <2>5. \A j, x : Sat(j, x)' => Sat(j, x)
    BY <2>3 DEF Sat, AttemptOf
  <2> QED
    BY <1>0, <2>3, <2>4, <2>5, ListedThreads
<1>2. ASSUME NEW t \in Threads, \/ PutMark(t) \/ PutDraft(t) \/ PutSubmission(t)
      PROVE  Listed'
  <2>1. At(t, "candidate") /\ Committed(t) /\ UNCHANGED attempts
    BY <1>2 DEF PutMark, PutDraft, PutRow, PutSubmission, Makes
  <2>2. \A j, x : Sat(j, x)' => Sat(j, x)
    BY <2>1 DEF Sat, AttemptOf
  <2> QED
    BY <1>0, <2>1, <2>2, ListedCommitted
<1>3. ASSUME NEW t \in Threads, PutAttempt(t)
      PROVE  Listed'
  <2>1. At(t, "candidate") /\ Committed(t)
    BY <1>3 DEF PutAttempt, Makes
  <2>2. ASSUME NEW i \in Invites, NEW e \in Emails, Sat(i, e)'
        PROVE  Sat(i, e) \/ Serves(t, i, e)
    <3>1. PICK n \in DOMAIN attempts' : attempts'[n].inv = i /\ attempts'[n].who = e
      BY <2>2 DEF Sat, AttemptOf
    <3>2. attempts \in Seq(CandidateAttempt)
      BY <1>0 DEF Typed, TypeOK
    <3>3. CASE n \in DOMAIN attempts
      <4>1. attempts'[n] = attempts[n]
        BY <1>3, <3>2, <3>3 DEF PutAttempt
      <4> QED
        BY <3>1, <3>3, <4>1 DEF Sat, AttemptOf
    <3>4. CASE n \notin DOMAIN attempts
      <4>1. attempts'[n] = [inv |-> th[t].inv, who |-> th[t].email, old |-> FALSE, said |-> FALSE]
        BY <1>3, <3>1, <3>2, <3>4 DEF PutAttempt
      <4>2. th[t].inv = i /\ th[t].email = e
        BY <3>1, <4>1
      <4> QED
        BY <2>1, <4>2 DEF Serves
    <3> QED
      BY <3>3, <3>4
  <2> QED
    BY <1>0, <2>1, <2>2, ListedCommitted
<1>4. ASSUME NEW t \in Threads, PutFeedback(t)
      PROVE  Listed'
  <2>1. At(t, "candidate") /\ Committed(t)
    BY <1>4 DEF PutFeedback, Makes
  <2>2. ASSUME NEW i \in Invites, NEW e \in Emails, Sat(i, e)' PROVE Sat(i, e)
    <3>1. attempts' = [attempts EXCEPT ![th[t].n].said = TRUE]
      BY <1>4 DEF PutFeedback
    <3>2. DOMAIN attempts' = DOMAIN attempts
      BY <3>1
    <3>3. PICK n \in DOMAIN attempts : attempts'[n].inv = i /\ attempts'[n].who = e
      BY <2>2, <3>2 DEF Sat, AttemptOf
    <3>4. attempts[n] \in CandidateAttempt
      BY <1>0, AttemptEmail
    <3>5. attempts[n].inv = i /\ attempts[n].who = e
      BY <3>1, <3>3, <3>4 DEF CandidateAttempt
    <3> QED
      BY <3>5 DEF Sat, AttemptOf
  <2> QED
    BY <1>0, <2>1, <2>2, ListedCommitted
<1>5. CASE Age
  <2>1. ASSUME NEW i \in Invites, NEW e \in Emails, Sat(i, e)' PROVE Sat(i, e)
    <3>1. DOMAIN attempts' = DOMAIN attempts
      BY <1>5 DEF Age
    <3>2. PICK n \in DOMAIN attempts : attempts'[n].inv = i /\ attempts'[n].who = e
      BY <2>1, <3>1 DEF Sat, AttemptOf
    <3>3. attempts[n] \in CandidateAttempt /\ attempts'[n] = [attempts[n] EXCEPT !.old = TRUE]
      BY <1>0, <1>5, AttemptEmail DEF Age
    <3>4. attempts[n].inv = i /\ attempts[n].who = e
      BY <3>2, <3>3 DEF CandidateAttempt
    <3> QED
      BY <3>4 DEF Sat, AttemptOf
  <2> QED
    BY <1>5, <1>q, <2>1 DEF Age
<1>6. CASE (\E n \in DOMAIN subs : Callback(n)) \/ UNCHANGED vars
  <2>1. UNCHANGED <<sent, lists, forgotten, overlapped, th, attempts>>
    BY <1>6 DEF Callback, vars
  <2>2. \A j, x : Sat(j, x)' => Sat(j, x)
    BY <2>1 DEF Sat, AttemptOf
  <2> QED
    BY <1>q, <2>1, <2>2
<1>7. ASSUME NEW t \in Threads, (\E e \in Emails : EraseCandidate(t, e)) \/ Sweep(t)
      PROVE  Listed'
  BY <1>0, <1>7, ListedBegins
<1>8. ASSUME NEW t \in Threads, NEW i \in Invites, CreateInvite(t, i) PROVE Listed'
  BY <1>0, <1>8, ListedCreate
<1>9. ASSUME NEW t \in Threads, SaveDeliveries(t) \/ CommitErasure(t) PROVE Listed'
  BY <1>0, <1>9, ListedSave, ListedCommit
<1> QED
  BY <1>1, <1>2, <1>3, <1>4, <1>5, <1>6, <1>7, <1>8, <1>9 DEF Next

\* Whoever has a sitting that is not erased is still admitted to it: retiring
\* the addresses of an old invitation strands nobody, but for those who came,
\* or were taken off, while it was being done (_expire_invite_recipients).
THEOREM NobodyIsStranded == Spec => []NobodyStranded
<1>1. Due /\ Listed => NobodyStranded
  <2> SUFFICES ASSUME Due, Listed, NEW n \in DOMAIN attempts,
                      ~ is_erased(attempts[n].who),
                      <<attempts[n].inv, attempts[n].who>> \notin overlapped
      PROVE  attempts[n].who \in lists[attempts[n].inv].to
    BY DEF NobodyStranded
  <2>1. PICK i \in Invites, e \in Emails : attempts[n].inv = i /\ attempts[n].who = e
    <3>1. attempts[n] \in CandidateAttempt
      BY AttemptEmail DEF Due
    <3> QED
      BY <3>1 DEF CandidateAttempt, Who, is_erased
  <2>2. Sat(i, e)
    BY <2>1 DEF Sat, AttemptOf
  <2>3. ListsOf(i, e)
    BY DEF Listed
  <2> QED
    BY <2>1, <2>2, <2>3 DEF ListsOf, Crossed
<1> QED
  BY <1>1, DueInit, DueStep, ListedInit, ListedStep, PTL DEF Spec

-----------------------------------------------------------------------------
(***************************************************************************)
(* Rows.  A row under a tombstone is an erased sitting's (Buried), and     *)
(* keeps none of its candidate's words (Quiet, Blank).  An eraser has all  *)
(* the submissions of its sittings (Has), but for the overlapped.          *)
(***************************************************************************)
Buried(r) ==
  /\ is_erased(r.who) => Of(r) \in forgotten
  /\ Of(r) \in forgotten => is_erased(r.who) \/ Of(r) \in overlapped
Quiet(a) == is_erased(a.who) => ~ a.said \/ Of(a) \in overlapped
Blank(s) == is_erased(s.who) => (~ s.code /\ s.result # "full") \/ Of(s) \in overlapped

Interred ==
  /\ \A n \in DOMAIN attempts : Buried(attempts[n]) /\ Quiet(attempts[n])
  /\ \A n \in DOMAIN subs : Buried(subs[n]) /\ Blank(subs[n])
  /\ \A r \in rows : Buried(r)

\* What a request's plan may have left.
Rest ==
  {<<"attempt", "mark">>, <<"mark">>, <<"mark", "attempt", "submission">>,
   <<"attempt", "submission">>, <<"submission">>, <<"mark", "draft">>, <<"draft">>,
   <<"feedback">>}

\* A candidate has an attempt by the time the submission is put, and feedback
\* goes to the attempt of whoever gives it.
Asking(t) ==
  /\ th[t].todo \in Rest
  /\ th[t].todo = <<"feedback">> =>
       th[t].n \in DOMAIN attempts /\ Of(attempts[th[t].n]) = <<th[t].inv, th[t].email>>
  /\ th[t].todo = <<"submission">> =>
       Sat(th[t].inv, th[t].email) \/ Crossed(th[t].inv, th[t].email)

Has(t) ==
  /\ \A f \in th[t].found :
       /\ f.id \in DOMAIN subs /\ Of(subs[f.id]) = <<subs[f.id].inv, f.email>>
       /\ Of(subs[f.id]) \in th[t].sittings
       /\ subs[f.id].who = f.email \/ Of(subs[f.id]) \in overlapped
  /\ \A n \in DOMAIN subs : <<subs[n].inv, subs[n].who>> \in th[t].sittings =>
       (\E f \in th[t].found : f.id = n) \/ <<subs[n].inv, subs[n].who>> \in overlapped

RowsKept ==
  /\ Interred /\ SittingWhole
  /\ \A t \in Threads : At(t, "candidate") => Asking(t)
  /\ \A t \in Threads : Erasing(t) => Has(t)

LEMMA RowsKeptInit == Init => RowsKept
<1> SUFFICES ASSUME Init PROVE RowsKept
  OBVIOUS
<1>1. \A t \in Threads : th[t].pc = "idle"
  BY IdleType DEF Init
<1>2. attempts = <<>> /\ subs = <<>> /\ rows = {}
  BY DEF Init
<1>3. Interred /\ SittingWhole
  BY <1>2 DEF Interred, SittingWhole
<1> QED
  BY <1>1, <1>3 DEF RowsKept, Erasing, At

\* Whose a row is: a sitting's, its own unless it is under a tombstone.
LEMMA OfType ==
  ASSUME NEW r, r.inv \in Invites, r.who \in Who
  PROVE  /\ Of(r) \in Sittings /\ Of(r)[1] = r.inv
         /\ r.who \in Emails <=> ~ is_erased(r.who)
         /\ ~ is_erased(r.who) => Of(r) = <<r.inv, r.who>>
         /\ <<r.inv, r.who>> \in Sittings => ~ is_erased(r.who)
<1>1. \A w \in Tombstones : w.email \in Emails
  BY DEF Tombstones
<1> QED
  BY <1>1, ErasureAssumption DEF Of, is_erased, Who, Sittings

LEMMA RowTypes ==
  ASSUME Typed
  PROVE  /\ \A n \in DOMAIN attempts : attempts[n].inv \in Invites /\ attempts[n].who \in Who
         /\ \A n \in DOMAIN subs : subs[n].inv \in Invites /\ subs[n].who \in Who
         /\ \A r \in rows : r \in Row /\ r.inv \in Invites /\ r.who \in Who
<1>1. \A n \in DOMAIN attempts : attempts[n] \in CandidateAttempt
  BY DEF Typed, TypeOK
<1>2. \A n \in DOMAIN subs : subs[n] \in Submission
  BY DEF Typed, TypeOK
<1>3. \A r \in rows : r \in Row
  BY DEF Typed, TypeOK
<1> QED
  BY <1>1, <1>2, <1>3 DEF CandidateAttempt, Submission, Row

\* A table's rows keep the names they had.
Keeps(old, new) ==
  /\ DOMAIN old \subseteq DOMAIN new
  /\ \A n \in DOMAIN old : new[n].inv = old[n].inv /\ new[n].who = old[n].who

LEMMA SatKept ==
  ASSUME Keeps(attempts, attempts'), NEW i, NEW e, Sat(i, e)
  PROVE  Sat(i, e)'
<1>1. PICK n \in DOMAIN attempts : attempts[n].inv = i /\ attempts[n].who = e
  BY DEF Sat, AttemptOf
<1>2. n \in DOMAIN attempts' /\ attempts'[n].inv = i /\ attempts'[n].who = e
  BY <1>1 DEF Keeps
<1> QED
  BY <1>2 DEF Sat, AttemptOf

\* An eraser that goes on, when whatever is added to the submissions is noted.
LEMMA HasKept ==
  ASSUME NEW u \in Threads, Has(u), th'[u] = th[u],
         Keeps(subs, subs'), overlapped \subseteq overlapped',
         \A n \in DOMAIN subs' \ DOMAIN subs : <<subs'[n].inv, subs'[n].who>> \in overlapped'
  PROVE  Has(u)'
<1>1. \A n \in DOMAIN subs : Of(subs'[n]) = Of(subs[n])
  BY DEF Keeps, Of
<1>2. \A f \in th[u].found :
       /\ f.id \in DOMAIN subs' /\ Of(subs'[f.id]) = <<subs'[f.id].inv, f.email>>
       /\ Of(subs'[f.id]) \in th[u].sittings
       /\ subs'[f.id].who = f.email \/ Of(subs'[f.id]) \in overlapped'
  BY <1>1 DEF Has, Keeps
<1>3. \A n \in DOMAIN subs' : <<subs'[n].inv, subs'[n].who>> \in th[u].sittings =>
       (\E f \in th[u].found : f.id = n) \/ <<subs'[n].inv, subs'[n].who>> \in overlapped'
  BY DEF Has, Keeps
<1> QED
  BY <1>2, <1>3 DEF Has

\* A request that waits, when no attempt is taken away.
LEMMA AskingKept ==
  ASSUME NEW u \in Threads, Asking(u), th'[u] = th[u],
         Keeps(attempts, attempts'), overlapped \subseteq overlapped'
  PROVE  Asking(u)'
<1>1. \A n \in DOMAIN attempts : Of(attempts'[n]) = Of(attempts[n])
  BY DEF Keeps, Of
<1>2. th[u].todo = <<"feedback">> =>
       th[u].n \in DOMAIN attempts' /\ Of(attempts'[th[u].n]) = <<th[u].inv, th[u].email>>
  BY <1>1 DEF Asking, Keeps
<1>3. Sat(th[u].inv, th[u].email) => (\E i, e : i = th[u].inv /\ e = th[u].email /\ Sat(i, e)')
  BY SatKept
<1>4. Crossed(th[u].inv, th[u].email) => <<th[u].inv, th[u].email>> \in overlapped'
  BY DEF Crossed
<1> QED
  BY <1>2, <1>3, <1>4 DEF Asking, Crossed, Sat, AttemptOf

-----------------------------------------------------------------------------
\* The steps that add no row, and rename none.
LEMMA RowsInPlace ==
  ASSUME Typed, RowsKept,
         Keeps(attempts, attempts'), DOMAIN attempts' = DOMAIN attempts,
         Keeps(subs, subs'), DOMAIN subs' = DOMAIN subs,
         UNCHANGED <<rows, forgotten>>, overlapped \subseteq overlapped',
         \A n \in DOMAIN attempts : attempts'[n].said =>
           attempts[n].said \/ ~ is_erased(attempts[n].who) \/ Of(attempts[n]) \in overlapped',
         \A n \in DOMAIN subs : is_erased(subs[n].who) =>
           /\ subs'[n].code => subs[n].code
           /\ subs'[n].result = "full" => subs[n].result = "full",
         \A u \in Threads : At(u, "candidate")' =>
           (At(u, "candidate") /\ th'[u] = th[u]) \/ Asking(u)',
         \A u \in Threads : Erasing(u)' => (Erasing(u) /\ th'[u] = th[u]) \/ Has(u)'
  PROVE  RowsKept'
<1>1. /\ \A n \in DOMAIN attempts : Of(attempts'[n]) = Of(attempts[n])
      /\ \A n \in DOMAIN subs : Of(subs'[n]) = Of(subs[n])
  BY DEF Keeps, Of
<1>2. Interred'
  <2>1. ASSUME NEW n \in DOMAIN attempts' PROVE Buried(attempts[n])' /\ Quiet(attempts[n])'
    <3>1. /\ Buried(attempts[n]) /\ Quiet(attempts[n]) /\ Of(attempts'[n]) = Of(attempts[n])
          /\ attempts'[n].who = attempts[n].who
      BY <1>1 DEF RowsKept, Interred, Keeps
    <3> QED
      BY <3>1 DEF Buried, Quiet
  <2>2. ASSUME NEW n \in DOMAIN subs' PROVE Buried(subs[n])' /\ Blank(subs[n])'
    <3>1. /\ Buried(subs[n]) /\ Blank(subs[n]) /\ Of(subs'[n]) = Of(subs[n])
          /\ subs'[n].who = subs[n].who
      BY <1>1 DEF RowsKept, Interred, Keeps
    <3> QED
      BY <3>1 DEF Buried, Blank
  <2>3. ASSUME NEW r \in rows PROVE Buried(r)'
    BY DEF RowsKept, Interred, Buried
  <2> QED
    BY <2>1, <2>2, <2>3 DEF Interred
<1>3. SittingWhole'
  <2>1. ASSUME NEW n \in DOMAIN subs', Of(subs'[n]) \notin overlapped'
        PROVE  AttemptOf(subs[n].inv, subs[n].who)' # {}
    <3>1. Of(subs[n]) \notin overlapped /\ subs'[n].inv = subs[n].inv /\ subs'[n].who = subs[n].who
      BY <1>1, <2>1 DEF Keeps
    <3>2. PICK m \in DOMAIN attempts : attempts[m].inv = subs[n].inv /\ attempts[m].who = subs[n].who
      BY <3>1 DEF RowsKept, SittingWhole, AttemptOf
    <3>3. attempts'[m].inv = subs'[n].inv /\ attempts'[m].who = subs'[n].who /\ m \in DOMAIN attempts'
      BY <3>1, <3>2 DEF Keeps
    <3> QED
      BY <3>3 DEF AttemptOf
  <2>2. ASSUME NEW r \in rows, NEW n \in DOMAIN attempts',
               Of(r) = Of(attempts'[n]), Of(r) \notin overlapped'
        PROVE  r.who = attempts'[n].who
    BY <1>1, <2>2 DEF RowsKept, SittingWhole, Keeps
  <2> QED
    BY <2>1, <2>2 DEF SittingWhole
<1>4. ASSUME NEW u \in Threads, At(u, "candidate")' PROVE Asking(u)'
  BY <1>4, AskingKept DEF RowsKept
<1>5. ASSUME NEW u \in Threads, Erasing(u)' PROVE Has(u)'
  BY <1>5, HasKept DEF RowsKept
<1> QED
  BY <1>2, <1>3, <1>4, <1>5 DEF RowsKept

\* The steps that leave the rows alone.
LEMMA RowsAlone ==
  ASSUME Typed, RowsKept, UNCHANGED <<attempts, subs, rows, forgotten>>,
         overlapped \subseteq overlapped',
         \A u \in Threads : At(u, "candidate")' =>
           (At(u, "candidate") /\ th'[u] = th[u]) \/ Asking(u)',
         \A u \in Threads : Erasing(u)' => (Erasing(u) /\ th'[u] = th[u]) \/ Has(u)'
  PROVE  RowsKept'
<1>1. Keeps(attempts, attempts') /\ Keeps(subs, subs')
  BY DEF Keeps
<1> QED
  BY <1>1, RowsInPlace

\* A request begins.
LEMMA RowsAsk ==
  ASSUME Typed, RowsKept, NEW t \in Threads, NEW k \in DOMAIN Plan,
         NEW i0 \in Invites, NEW e0 \in Emails, Ask(t, k, i0, e0)
  PROVE  RowsKept'
<1>1. UNCHANGED <<attempts, subs, rows, forgotten, overlapped>>
  BY DEF Ask, person, history
<1>2. PICK n \in IF k = "feedback" THEN AttemptOf(i0, e0) ELSE {0} :
        Goto(t, [Idle EXCEPT !.pc = "candidate", !.inv = i0, !.email = e0, !.todo = Plan[k], !.n = n])
  BY DEF Ask
<1>3. /\ th'[t].pc = "candidate" /\ th'[t].inv = i0 /\ th'[t].email = e0
      /\ th'[t].todo = Plan[k] /\ th'[t].n = n
      /\ \A u \in Threads : u # t => th'[u] = th[u]
  BY <1>2 DEF Goto, Idle, Typed, TypeOK
<1>4. k \in {"start", "submit", "draft", "event", "feedback"}
  BY DEF Plan
<1>5. /\ Plan["start"] = <<"attempt", "mark">> /\ Plan["submit"] = <<"mark", "attempt", "submission">>
      /\ Plan["draft"] = <<"mark", "draft">> /\ Plan["event"] = <<"mark">>
      /\ Plan["feedback"] = <<"feedback">>
  BY DEF Plan
<1>6. Plan[k] \in Rest /\ Plan[k] # <<"submission">>
  <2>1. CASE k = "start"
    BY <1>5, <2>1 DEF Rest
  <2>2. CASE k = "submit"
    BY <1>5, <2>2 DEF Rest
  <2>3. CASE k = "draft"
    BY <1>5, <2>3 DEF Rest
  <2>4. CASE k = "event"
    BY <1>5, <2>4 DEF Rest
  <2>5. CASE k = "feedback"
    BY <1>5, <2>5 DEF Rest
  <2> QED
    BY <1>4, <2>1, <2>2, <2>3, <2>4, <2>5
<1>7. Plan[k] = <<"feedback">> => k = "feedback"
  <2>1. <<"attempt", "mark">> # <<"feedback">> /\ <<"mark", "attempt", "submission">> # <<"feedback">>
        /\ <<"mark", "draft">> # <<"feedback">> /\ <<"mark">> # <<"feedback">>
    OBVIOUS
  <2> HIDE DEF Plan
  <2> QED
    BY <1>4, <1>5, <2>1, Zenon
<1>8. k = "feedback" => n \in DOMAIN attempts /\ Of(attempts[n]) = <<i0, e0>>
  <2> SUFFICES ASSUME k = "feedback" PROVE n \in DOMAIN attempts /\ Of(attempts[n]) = <<i0, e0>>
    OBVIOUS
  <2>1. n \in DOMAIN attempts /\ attempts[n].inv = i0 /\ attempts[n].who = e0
    BY <1>2 DEF AttemptOf
  <2> QED
    BY <2>1, RowTypes, OfType
<1>9. Asking(t)'
  BY <1>1, <1>3, <1>6, <1>7, <1>8 DEF Asking
<1>10. \A u \in Threads : /\ At(u, "candidate")' => (At(u, "candidate") /\ th'[u] = th[u]) \/ Asking(u)'
                          /\ Erasing(u)' => Erasing(u) /\ th'[u] = th[u]
  BY <1>3, <1>9 DEF At, Erasing
<1> QED
  BY <1>1, <1>10, RowsAlone

\* An eraser begins with what there is.
LEMMA HasFirst ==
  ASSUME Typed, NEW t \in Threads, NEW P \in SUBSET Sittings,
         th'[t].sittings = P, th'[t].found = Found(P), UNCHANGED <<subs, overlapped>>
  PROVE  Has(t)'
<1>1. ASSUME NEW f \in Found(P)
      PROVE  /\ f.id \in DOMAIN subs /\ Of(subs[f.id]) = <<subs[f.id].inv, f.email>>
             /\ Of(subs[f.id]) \in P /\ subs[f.id].who = f.email
  <2>1. PICK n \in DOMAIN subs : /\ <<subs[n].inv, subs[n].who>> \in P
                                 /\ f = [id |-> n, email |-> subs[n].who]
    BY DEF Found
  <2>2. f.id = n /\ f.email = subs[n].who
    BY <2>1
  <2>3. Of(subs[n]) = <<subs[n].inv, subs[n].who>>
    BY <2>1, RowTypes, OfType
  <2> QED
    BY <2>1, <2>2, <2>3
<1>2. ASSUME NEW n \in DOMAIN subs, <<subs[n].inv, subs[n].who>> \in P
      PROVE  \E f \in Found(P) : f.id = n
  <2>1. [id |-> n, email |-> subs[n].who] \in Found(P)
    BY <1>2 DEF Found
  <2> QED
    BY <2>1
<1> QED
  BY <1>1, <1>2 DEF Has

LEMMA RowsBegins ==
  ASSUME Typed, RowsKept, NEW t \in Threads,
         (\E e \in Emails : EraseCandidate(t, e)) \/ Sweep(t)
  PROVE  RowsKept'
<1> USE DEF person, posted, history
<1>1. UNCHANGED <<attempts, subs, rows, forgotten, overlapped>>
  BY DEF EraseCandidate, Sweep
<1>2. /\ \A u \in Threads : u # t => th'[u] = th[u]
      /\ th'[t].pc # "candidate" /\ Has(t)'
  <2>1. ASSUME NEW e \in Emails, EraseCandidate(t, e)
        PROVE  /\ \A u \in Threads : u # t => th'[u] = th[u]
               /\ th'[t].pc # "candidate" /\ Has(t)'
    <3> DEFINE P == sent \X {e}
               gone == [i \in Invites |-> Scrubbed(lists[i], e)]
    <3>1. Goto(t, [Idle EXCEPT !.pc = "request", !.email = e, !.n = erasures + 1,
                               !.old = lists, !.new = gone, !.sittings = P, !.found = Found(P)])
      BY <2>1 DEF EraseCandidate
    <3>2. P \in SUBSET Sittings
      BY DEF Typed, TypeOK, Sittings
    <3> HIDE DEF gone, P
    <3>3. /\ \A u \in Threads : u # t => th'[u] = th[u]
          /\ th'[t].pc = "request" /\ th'[t].sittings = P /\ th'[t].found = Found(P)
      BY <3>1 DEF Goto, Idle, Typed, TypeOK
    <3>4. PICK Q \in SUBSET Sittings : Q = P
      BY <3>2
    <3> QED
      BY <1>1, <3>3, <3>4, HasFirst
  <2>2. ASSUME Sweep(t)
        PROVE  /\ \A u \in Threads : u # t => th'[u] = th[u]
               /\ th'[t].pc # "candidate" /\ Has(t)'
    <3> DEFINE left == [i \in Invites |->
                         [to |-> lists[i].to \cap Kept(i, Expired),
                          log |-> lists[i].log \cap Kept(i, Expired)]]
    <3>1. Goto(t, [Idle EXCEPT !.pc = "sweep", !.n = erasures + 1,
                               !.old = lists, !.new = left,
                               !.sittings = Expired, !.found = Found(Expired)])
      BY <2>2 DEF Sweep
    <3> HIDE DEF left
    <3>2. PICK Q \in SUBSET Sittings : Q = Expired
      BY DEF Expired
    <3>3. /\ \A u \in Threads : u # t => th'[u] = th[u]
          /\ th'[t].pc = "sweep" /\ th'[t].sittings = Q /\ th'[t].found = Found(Q)
      BY <3>1, <3>2 DEF Goto, Idle, Typed, TypeOK
    <3> QED
      BY <1>1, <3>3, HasFirst
  <2> QED
    BY <2>1, <2>2
<1>3. \A u \in Threads : /\ At(u, "candidate")' => At(u, "candidate") /\ th'[u] = th[u]
                         /\ Erasing(u)' => (Erasing(u) /\ th'[u] = th[u]) \/ Has(u)'
  BY <1>2 DEF At, Erasing
<1> QED
  BY <1>1, <1>3, RowsAlone

-----------------------------------------------------------------------------
\* A commit of a request is for a sitting that is not erased, or is noted; so it
\* is if an eraser is at work.
LEMMA CommitFacts ==
  ASSUME Typed, Typed', Listed, NEW t \in Threads, At(t, "candidate"), Committed(t)
  PROVE  \E i \in Invites, e \in Emails :
           /\ th[t].inv = i /\ th[t].email = e
           /\ forgotten' = forgotten /\ overlapped \subseteq overlapped'
           /\ <<i, e>> \in forgotten => <<i, e>> \in overlapped
           /\ \A u \in Threads : Erasing(u)' =>
                Erasing(u) /\ th'[u] = th[u] /\ <<i, e>> \in overlapped'
           /\ \A u \in Threads : At(u, "candidate")' =>
                \/ At(u, "candidate") /\ th'[u] = th[u]
                \/ /\ u = t /\ th'[t].todo = Tail(th[t].todo) /\ Tail(th[t].todo) # <<>>
                   /\ th'[t].inv = i /\ th'[t].email = e
<1>1. PICK i \in Invites, e \in Emails : th[t].inv = i /\ th[t].email = e
  BY DEF Typed, Knows, At
<1>2. /\ Steady
      /\ (\E u \in Threads : Erasing(u)) => <<th[t].inv, th[t].email>> \in overlapped'
  BY CommittedSteady
<1>3. forgotten' = forgotten
  BY DEF Committed
<1>4. <<i, e>> \in forgotten => <<i, e>> \in overlapped
  <2>1. Serves(t, i, e)
    BY <1>1 DEF Serves
  <2>2. Admitted(i, e)
    BY <2>1 DEF Listed
  <2> QED
    BY <2>2 DEF Admitted, Crossed
<1>5. \A u \in Threads : u # t => th'[u] = th[u]
  BY DEF Committed, Goto, Typed, TypeOK
<1>6. th[t] \in Thread
  BY DEF Typed, TypeOK
<1>7. CASE Tail(th[t].todo) = <<>>
  <2>1. th'[t].pc = "idle"
    BY <1>7, IdleType DEF Committed, Goto, Typed, TypeOK
  <2>2. \A u \in Threads : At(u, "candidate")' => At(u, "candidate") /\ th'[u] = th[u]
    BY <1>5, <2>1 DEF At
  <2> QED
    BY <1>1, <1>2, <1>3, <1>4, <2>2 DEF Steady
<1>8. CASE Tail(th[t].todo) # <<>>
  <2>1. th'[t] = [th[t] EXCEPT !.todo = Tail(@)]
    BY <1>8 DEF Committed, Goto, Typed, TypeOK
  <2>2. th'[t].todo = Tail(th[t].todo) /\ th'[t].inv = i /\ th'[t].email = e
    BY <1>1, <1>6, <2>1 DEF Thread
  <2>3. \A u \in Threads : At(u, "candidate")' =>
           (At(u, "candidate") /\ th'[u] = th[u]) \/ u = t
    BY <1>5 DEF At
  <2> QED
    BY <1>1, <1>2, <1>3, <1>4, <1>8, <2>2, <2>3 DEF Steady
<1> QED
  BY <1>7, <1>8

\* A request goes on, with an attempt by the time the submission is put.
LEMMA RestTail ==
  ASSUME NEW s \in Rest, Tail(s) # <<>>
  PROVE  /\ Tail(s) \in Rest /\ Tail(s) # <<"feedback">>
         /\ Tail(s) = <<"submission">> => Head(s) = "attempt"
<1>1. CASE s = <<"attempt", "mark">>
  <2>1. Tail(s) = <<"mark">> /\ <<"mark">> # <<"feedback">> /\ <<"mark">> # <<"submission">>
    BY <1>1
  <2> QED
    BY <2>1 DEF Rest
<1>2. CASE s = <<"mark", "attempt", "submission">>
  <2>1. /\ Tail(s) = <<"attempt", "submission">> /\ <<"attempt", "submission">> # <<"feedback">>
        /\ <<"attempt", "submission">> # <<"submission">>
    BY <1>2
  <2> QED
    BY <2>1 DEF Rest
<1>3. CASE s = <<"attempt", "submission">>
  <2>1. Tail(s) = <<"submission">> /\ <<"submission">> # <<"feedback">> /\ Head(s) = "attempt"
    BY <1>3
  <2> QED
    BY <2>1 DEF Rest
<1>4. CASE s = <<"mark", "draft">>
  <2>1. Tail(s) = <<"draft">> /\ <<"draft">> # <<"feedback">> /\ <<"draft">> # <<"submission">>
    BY <1>4
  <2> QED
    BY <2>1 DEF Rest
<1>5. Tail(<<"mark">>) = <<>> /\ Tail(<<"submission">>) = <<>> /\ Tail(<<"draft">>) = <<>>
      /\ Tail(<<"feedback">>) = <<>>
  OBVIOUS
<1> QED
  BY <1>1, <1>2, <1>3, <1>4, <1>5 DEF Rest

LEMMA AskingOn ==
  ASSUME NEW t \in Threads, Asking(t), NEW i \in Invites, NEW e \in Emails,
         th'[t].todo = Tail(th[t].todo), Tail(th[t].todo) # <<>>,
         th'[t].inv = i, th'[t].email = e,
         Head(th[t].todo) = "attempt" => Sat(i, e)'
  PROVE  Asking(t)'
<1>1. PICK s \in Rest : s = th[t].todo
  BY DEF Asking
<1>2. Tail(s) \in Rest /\ Tail(s) # <<"feedback">> /\ (Tail(s) = <<"submission">> => Head(s) = "attempt")
  BY <1>1, RestTail
<1> QED
  BY <1>1, <1>2 DEF Asking, Sat, AttemptOf

\* A row under an address, of a sitting in a request's hands.
LEMMA Live ==
  ASSUME NEW r, NEW i \in Invites, NEW e \in Emails, r.inv = i, r.who = e
  PROVE  Of(r) = <<i, e>> /\ ~ is_erased(r.who)
<1>1. r.inv \in Invites /\ r.who \in Who
  BY DEF Who
<1> QED
  BY <1>1, OfType

\* Rows of such a sitting are under its address too, unless it is noted.
LEMMA Mates ==
  ASSUME NEW r, r.inv \in Invites, r.who \in Who, Buried(r),
         NEW i \in Invites, NEW e \in Emails, Of(r) = <<i, e>>,
         <<i, e>> \in forgotten => <<i, e>> \in overlapped
  PROVE  <<i, e>> \in overlapped \/ (r.inv = i /\ r.who = e)
<1>1. CASE is_erased(r.who)
  BY <1>1 DEF Buried
<1>2. CASE ~ is_erased(r.who)
  <2>1. Of(r) = <<r.inv, r.who>>
    BY <1>2, OfType
  <2> QED
    BY <2>1
<1> QED
  BY <1>1, <1>2

LEMMA RowsPutRow ==
  ASSUME Typed, Typed', Listed, RowsKept, NEW t \in Threads, NEW c \in {"mark", "draft"}, PutRow(t, c)
  PROVE  RowsKept'
<1>1. /\ At(t, "candidate") /\ Committed(t) /\ Head(th[t].todo) = c /\ UNCHANGED <<attempts, subs>>
      /\ rows' = rows \cup {[kind |-> c, inv |-> th[t].inv, who |-> th[t].email]}
  BY DEF PutRow, Makes
<1>2. PICK i \in Invites, e \in Emails :
           /\ th[t].inv = i /\ th[t].email = e
           /\ forgotten' = forgotten /\ overlapped \subseteq overlapped'
           /\ <<i, e>> \in forgotten => <<i, e>> \in overlapped
           /\ \A u \in Threads : Erasing(u)' =>
                Erasing(u) /\ th'[u] = th[u] /\ <<i, e>> \in overlapped'
           /\ \A u \in Threads : At(u, "candidate")' =>
                \/ At(u, "candidate") /\ th'[u] = th[u]
                \/ /\ u = t /\ th'[t].todo = Tail(th[t].todo) /\ Tail(th[t].todo) # <<>>
                   /\ th'[t].inv = i /\ th'[t].email = e
  BY <1>1, CommitFacts
<1> DEFINE x == [kind |-> c, inv |-> i, who |-> e]
<1>3. x.inv = i /\ x.who = e /\ rows' = rows \cup {x}
  BY <1>1, <1>2
<1> HIDE DEF x
<1>4. Of(x) = <<i, e>> /\ ~ is_erased(x.who)
  BY <1>3, Live
<1>5. Keeps(attempts, attempts') /\ Keeps(subs, subs')
  BY <1>1 DEF Keeps
<1>6. Interred'
  <2>1. ASSUME NEW r, Buried(r) PROVE Buried(r)'
    BY <1>2, <2>1 DEF Buried
  <2>2. Buried(x)'
    BY <1>2, <1>4 DEF Buried
  <2>3. ASSUME NEW n \in DOMAIN attempts' PROVE Buried(attempts[n])' /\ Quiet(attempts[n])'
    BY <1>1, <1>2 DEF RowsKept, Interred, Buried, Quiet
  <2>4. ASSUME NEW n \in DOMAIN subs' PROVE Buried(subs[n])' /\ Blank(subs[n])'
    BY <1>1, <1>2 DEF RowsKept, Interred, Buried, Blank
  <2>5. \A r \in rows' : Buried(r)'
    BY <1>3, <2>1, <2>2 DEF RowsKept, Interred
  <2> QED
    BY <2>3, <2>4, <2>5 DEF Interred
<1>7. SittingWhole'
  <2>1. \A n \in DOMAIN subs : Of(subs[n]) \notin overlapped' =>
          AttemptOf(subs[n].inv, subs[n].who) # {}
    BY <1>2 DEF RowsKept, SittingWhole
  <2>2. ASSUME NEW r \in rows', NEW n \in DOMAIN attempts,
               Of(r) = Of(attempts[n]), Of(r) \notin overlapped'
        PROVE  r.who = attempts[n].who
    <3>1. CASE r \in rows
      BY <1>2, <2>2, <3>1 DEF RowsKept, SittingWhole
    <3>2. CASE r = x
      <4>1. Buried(attempts[n]) /\ attempts[n].inv \in Invites /\ attempts[n].who \in Who
        BY RowTypes DEF RowsKept, Interred
      <4> QED
        BY <1>2, <1>3, <1>4, <2>2, <3>2, <4>1, Mates
    <3> QED
      BY <1>3, <3>1, <3>2
  <2> QED
    BY <1>1, <2>1, <2>2 DEF SittingWhole, AttemptOf
<1>8. ASSUME NEW u \in Threads, At(u, "candidate")' PROVE Asking(u)'
  <2>1. CASE At(u, "candidate") /\ th'[u] = th[u]
    BY <1>2, <1>5, <2>1, AskingKept DEF RowsKept
  <2>2. CASE ~ (At(u, "candidate") /\ th'[u] = th[u])
    <3>1. /\ u = t /\ th'[t].todo = Tail(th[t].todo) /\ Tail(th[t].todo) # <<>>
          /\ th'[t].inv = i /\ th'[t].email = e /\ Asking(t)
      BY <1>1, <1>2, <1>8, <2>2 DEF RowsKept
    <3>2. Head(th[t].todo) # "attempt"
      BY <1>1
    <3> QED
      BY <3>1, <3>2, AskingOn
  <2> QED
    BY <2>1, <2>2
<1>9. ASSUME NEW u \in Threads, Erasing(u)' PROVE Has(u)'
  <2>1. \A n \in DOMAIN subs' \ DOMAIN subs : <<subs'[n].inv, subs'[n].who>> \in overlapped'
    BY <1>1
  <2> QED
    BY <1>2, <1>5, <1>9, <2>1, HasKept DEF RowsKept
<1> QED
  BY <1>6, <1>7, <1>8, <1>9 DEF RowsKept

-----------------------------------------------------------------------------
LEMMA RowsPutAttempt ==
  ASSUME Typed, Typed', Listed, RowsKept, NEW t \in Threads, PutAttempt(t)
  PROVE  RowsKept'
<1>1. At(t, "candidate") /\ Committed(t) /\ Head(th[t].todo) = "attempt" /\ UNCHANGED <<subs, rows>>
  BY DEF PutAttempt, Makes
<1>2. PICK i \in Invites, e \in Emails :
           /\ th[t].inv = i /\ th[t].email = e
           /\ forgotten' = forgotten /\ overlapped \subseteq overlapped'
           /\ <<i, e>> \in forgotten => <<i, e>> \in overlapped
           /\ \A u \in Threads : Erasing(u)' =>
                Erasing(u) /\ th'[u] = th[u] /\ <<i, e>> \in overlapped'
           /\ \A u \in Threads : At(u, "candidate")' =>
                \/ At(u, "candidate") /\ th'[u] = th[u]
                \/ /\ u = t /\ th'[t].todo = Tail(th[t].todo) /\ Tail(th[t].todo) # <<>>
                   /\ th'[t].inv = i /\ th'[t].email = e
  BY <1>1, CommitFacts
<1>3. Keeps(subs, subs')
  BY <1>1 DEF Keeps
\* What follows once the attempt is there.
<1>4. ASSUME Keeps(attempts, attempts'), Sat(i, e)'
      PROVE  \A u \in Threads : At(u, "candidate")' => Asking(u)'
  <2> SUFFICES ASSUME NEW u \in Threads, At(u, "candidate")' PROVE Asking(u)'
    OBVIOUS
  <2>1. CASE At(u, "candidate") /\ th'[u] = th[u]
    BY <1>2, <1>4, <2>1, AskingKept DEF RowsKept
  <2>2. CASE ~ (At(u, "candidate") /\ th'[u] = th[u])
    <3>1. /\ u = t /\ th'[t].todo = Tail(th[t].todo) /\ Tail(th[t].todo) # <<>>
          /\ th'[t].inv = i /\ th'[t].email = e /\ Asking(t)
      BY <1>1, <1>2, <2>2 DEF RowsKept
    <3> QED
      BY <1>4, <3>1, AskingOn
  <2> QED
    BY <2>1, <2>2
<1>5. CASE AttemptOf(i, e) # {}
  <2>1. attempts' = attempts
    BY <1>2, <1>5 DEF PutAttempt
  <2>2. Keeps(attempts, attempts') /\ Sat(i, e)'
    BY <1>5, <2>1 DEF Keeps, Sat, AttemptOf
  <2>3. \A u \in Threads : At(u, "candidate")' => Asking(u)'
    BY <1>4, <2>2
  <2>4. UNCHANGED <<attempts, subs, rows, forgotten>> /\ overlapped \subseteq overlapped'
    BY <1>1, <1>2, <2>1
  <2> QED
    BY <1>2, <2>3, <2>4, RowsAlone
<1>6. CASE AttemptOf(i, e) = {}
  <2> DEFINE a == [inv |-> i, who |-> e, old |-> FALSE, said |-> FALSE]
             N == Len(attempts) + 1
  <2>1. attempts \in Seq(CandidateAttempt) /\ attempts' = Append(attempts, a)
    BY <1>2, <1>6 DEF PutAttempt, Typed, TypeOK
  <2>2. /\ DOMAIN attempts' = DOMAIN attempts \cup {N} /\ N \notin DOMAIN attempts
        /\ \A n \in DOMAIN attempts : attempts'[n] = attempts[n]
        /\ attempts'[N] = a
    BY <2>1
  <2>3. a.inv = i /\ a.who = e
    OBVIOUS
  <2> HIDE DEF a, N
  <2>4. Of(a) = <<i, e>> /\ ~ is_erased(a.who)
    BY <2>3, Live
  <2>5. Keeps(attempts, attempts') /\ Sat(i, e)'
    BY <2>2, <2>3 DEF Keeps, Sat, AttemptOf
  <2>6. Interred'
    <3>1. ASSUME NEW r, Buried(r) PROVE Buried(r)'
      BY <1>2, <3>1 DEF Buried
    <3>2. ASSUME NEW n \in DOMAIN attempts' PROVE Buried(attempts[n])' /\ Quiet(attempts[n])'
      <4>1. CASE n \in DOMAIN attempts
        <5>1. attempts'[n] = attempts[n] /\ Buried(attempts[n]) /\ Quiet(attempts[n])
          BY <2>2, <4>1 DEF RowsKept, Interred
        <5> QED
          BY <1>2, <5>1 DEF Buried, Quiet
      <4>2. CASE n = N
        BY <1>2, <2>2, <2>4, <4>2 DEF Buried, Quiet
      <4> QED
        BY <2>2, <4>1, <4>2
    <3>3. ASSUME NEW n \in DOMAIN subs' PROVE Buried(subs[n])' /\ Blank(subs[n])'
      BY <1>1, <1>2 DEF RowsKept, Interred, Buried, Blank
    <3>4. \A r \in rows' : Buried(r)'
      BY <1>1, <3>1 DEF RowsKept, Interred
    <3> QED
      BY <3>2, <3>3, <3>4 DEF Interred
  <2>7. SittingWhole'
    <3>1. ASSUME NEW n \in DOMAIN subs', Of(subs'[n]) \notin overlapped'
          PROVE  AttemptOf(subs[n].inv, subs[n].who)' # {}
      <4>1. subs' = subs /\ Of(subs[n]) \notin overlapped
        BY <1>1, <1>2, <3>1
      <4>2. PICK m \in DOMAIN attempts : attempts[m].inv = subs[n].inv /\ attempts[m].who = subs[n].who
        BY <4>1 DEF RowsKept, SittingWhole, AttemptOf
      <4>3. m \in DOMAIN attempts' /\ attempts'[m] = attempts[m]
        BY <2>2
      <4> QED
        BY <4>1, <4>2, <4>3 DEF AttemptOf
    <3>2. ASSUME NEW r \in rows', NEW n \in DOMAIN attempts',
                 Of(r) = Of(attempts'[n]), Of(r) \notin overlapped'
          PROVE  r.who = attempts'[n].who
      <4>1. CASE n \in DOMAIN attempts
        <5>1. attempts'[n] = attempts[n]
          BY <2>2, <4>1
        <5> QED
          BY <1>1, <1>2, <3>2, <4>1, <5>1 DEF RowsKept, SittingWhole
      <4>2. CASE n = N
        <5>1. Buried(r) /\ r.inv \in Invites /\ r.who \in Who
          BY <1>1, RowTypes DEF RowsKept, Interred
        <5>2. Of(r) = <<i, e>> /\ <<i, e>> \notin overlapped
          BY <1>2, <2>2, <2>4, <3>2, <4>2
        <5>3. r.inv = i /\ r.who = e
          BY <1>2, <5>1, <5>2, Mates
        <5> QED
          BY <2>2, <2>3, <4>2, <5>3
      <4> QED
        BY <2>2, <4>1, <4>2
    <3> QED
      BY <3>1, <3>2 DEF SittingWhole
  <2>8. \A u \in Threads : At(u, "candidate")' => Asking(u)'
    BY <1>4, <2>5
  <2>9. ASSUME NEW u \in Threads, Erasing(u)' PROVE Has(u)'
    <3>1. \A n \in DOMAIN subs' \ DOMAIN subs : <<subs'[n].inv, subs'[n].who>> \in overlapped'
      BY <1>1
    <3> QED
      BY <1>2, <1>3, <2>9, <3>1, HasKept DEF RowsKept
  <2> QED
    BY <2>6, <2>7, <2>8, <2>9 DEF RowsKept
<1> QED
  BY <1>5, <1>6

LEMMA RowsPutSubmission ==
  ASSUME Typed, Typed', Listed, RowsKept, NEW t \in Threads, PutSubmission(t)
  PROVE  RowsKept'
<1>1. /\ At(t, "candidate") /\ Committed(t) /\ Head(th[t].todo) = "submission"
      /\ UNCHANGED <<attempts, rows>>
  BY DEF PutSubmission, Makes
<1>2. PICK i \in Invites, e \in Emails :
           /\ th[t].inv = i /\ th[t].email = e
           /\ forgotten' = forgotten /\ overlapped \subseteq overlapped'
           /\ <<i, e>> \in forgotten => <<i, e>> \in overlapped
           /\ \A u \in Threads : Erasing(u)' =>
                Erasing(u) /\ th'[u] = th[u] /\ <<i, e>> \in overlapped'
           /\ \A u \in Threads : At(u, "candidate")' =>
                \/ At(u, "candidate") /\ th'[u] = th[u]
                \/ /\ u = t /\ th'[t].todo = Tail(th[t].todo) /\ Tail(th[t].todo) # <<>>
                   /\ th'[t].inv = i /\ th'[t].email = e
  BY <1>1, CommitFacts
<1>3. Keeps(attempts, attempts')
  BY <1>1 DEF Keeps
<1>4. ASSUME NEW u \in Threads, At(u, "candidate")' PROVE Asking(u)'
  <2>1. CASE At(u, "candidate") /\ th'[u] = th[u]
    BY <1>2, <1>3, <2>1, AskingKept DEF RowsKept
  <2>2. CASE ~ (At(u, "candidate") /\ th'[u] = th[u])
    <3>1. /\ u = t /\ th'[t].todo = Tail(th[t].todo) /\ Tail(th[t].todo) # <<>>
          /\ th'[t].inv = i /\ th'[t].email = e /\ Asking(t)
      BY <1>1, <1>2, <1>4, <2>2 DEF RowsKept
    <3>2. Head(th[t].todo) # "attempt"
      BY <1>1
    <3> QED
      BY <3>1, <3>2, AskingOn
  <2> QED
    BY <2>1, <2>2
<1>5. CASE SubmissionOf(i, e) # {}
  <2>1. UNCHANGED <<attempts, subs, rows, forgotten>> /\ overlapped \subseteq overlapped'
    BY <1>1, <1>2, <1>5 DEF PutSubmission
  <2> QED
    BY <1>2, <1>4, <2>1, RowsAlone
<1>6. CASE SubmissionOf(i, e) = {}
  <2> DEFINE s == [inv |-> i, who |-> e, code |-> TRUE, result |-> "none"]
             N == Len(subs) + 1
  <2>1. subs \in Seq(Submission) /\ subs' = Append(subs, s)
    BY <1>2, <1>6 DEF PutSubmission, Typed, TypeOK
  <2>2. /\ DOMAIN subs' = DOMAIN subs \cup {N} /\ N \notin DOMAIN subs
        /\ \A n \in DOMAIN subs : subs'[n] = subs[n]
        /\ subs'[N] = s
    BY <2>1
  <2>3. s.inv = i /\ s.who = e
    OBVIOUS
  <2> HIDE DEF s, N
  <2>4. Of(s) = <<i, e>> /\ ~ is_erased(s.who)
    BY <2>3, Live
  <2>5. Keeps(subs, subs')
    BY <2>2 DEF Keeps
  <2>6. Interred'
    <3>1. ASSUME NEW n \in DOMAIN attempts' PROVE Buried(attempts[n])' /\ Quiet(attempts[n])'
      BY <1>1, <1>2 DEF RowsKept, Interred, Buried, Quiet
    <3>2. ASSUME NEW n \in DOMAIN subs' PROVE Buried(subs[n])' /\ Blank(subs[n])'
      <4>1. CASE n \in DOMAIN subs
        <5>1. subs'[n] = subs[n] /\ Buried(subs[n]) /\ Blank(subs[n])
          BY <2>2, <4>1 DEF RowsKept, Interred
        <5> QED
          BY <1>2, <5>1 DEF Buried, Blank
      <4>2. CASE n = N
        BY <1>2, <2>2, <2>4, <4>2 DEF Buried, Blank
      <4> QED
        BY <2>2, <4>1, <4>2
    <3>3. ASSUME NEW r \in rows' PROVE Buried(r)'
      BY <1>1, <1>2 DEF RowsKept, Interred, Buried
    <3> QED
      BY <3>1, <3>2, <3>3 DEF Interred
  <2>7. SittingWhole'
    <3>1. ASSUME NEW n \in DOMAIN subs', Of(subs'[n]) \notin overlapped'
          PROVE  AttemptOf(subs[n].inv, subs[n].who)' # {}
      <4>1. CASE n \in DOMAIN subs
        <5>1. subs'[n] = subs[n] /\ Of(subs[n]) \notin overlapped
          BY <1>2, <2>2, <3>1, <4>1
        <5>2. AttemptOf(subs[n].inv, subs[n].who) # {}
          BY <4>1, <5>1 DEF RowsKept, SittingWhole
        <5> QED
          BY <1>1, <5>1, <5>2 DEF AttemptOf
      <4>2. CASE n = N
        <5>1. Asking(t)
          BY <1>1 DEF RowsKept
        <5>2. th[t].todo = <<"submission">>
          <6>1. /\ Head(<<"attempt", "mark">>) = "attempt" /\ Head(<<"mark">>) = "mark"
                /\ Head(<<"mark", "attempt", "submission">>) = "mark"
                /\ Head(<<"attempt", "submission">>) = "attempt"
                /\ Head(<<"mark", "draft">>) = "mark" /\ Head(<<"draft">>) = "draft"
                /\ Head(<<"feedback">>) = "feedback"
            OBVIOUS
          <6> QED
            BY <1>1, <5>1, <6>1 DEF Asking, Rest
        <5>3. Sat(i, e) \/ <<i, e>> \in overlapped
          BY <1>2, <5>1, <5>2 DEF Asking, Crossed
        <5>4. Sat(i, e)
          BY <1>2, <2>2, <2>4, <3>1, <4>2, <5>3
        <5> QED
          BY <1>1, <2>2, <2>3, <4>2, <5>4 DEF Sat, AttemptOf
      <4> QED
        BY <2>2, <4>1, <4>2
    <3>2. ASSUME NEW r \in rows', NEW n \in DOMAIN attempts',
                 Of(r) = Of(attempts'[n]), Of(r) \notin overlapped'
          PROVE  r.who = attempts'[n].who
      BY <1>1, <1>2, <3>2 DEF RowsKept, SittingWhole
    <3> QED
      BY <3>1, <3>2 DEF SittingWhole
  <2>8. ASSUME NEW u \in Threads, Erasing(u)' PROVE Has(u)'
    <3>1. \A n \in DOMAIN subs' \ DOMAIN subs : <<subs'[n].inv, subs'[n].who>> \in overlapped'
      BY <1>2, <2>2, <2>3, <2>8
    <3> QED
      BY <1>2, <2>5, <2>8, <3>1, HasKept DEF RowsKept
  <2> QED
    BY <1>4, <2>6, <2>7, <2>8 DEF RowsKept
<1> QED
  BY <1>5, <1>6

-----------------------------------------------------------------------------
LEMMA RowsPutFeedback ==
  ASSUME Typed, Typed', Listed, RowsKept, NEW t \in Threads, PutFeedback(t)
  PROVE  RowsKept'
<1>1. /\ At(t, "candidate") /\ Committed(t) /\ Head(th[t].todo) = "feedback"
      /\ UNCHANGED <<subs, rows>>
  BY DEF PutFeedback, Makes
<1>2. PICK i \in Invites, e \in Emails :
           /\ th[t].inv = i /\ th[t].email = e
           /\ forgotten' = forgotten /\ overlapped \subseteq overlapped'
           /\ <<i, e>> \in forgotten => <<i, e>> \in overlapped
           /\ \A u \in Threads : Erasing(u)' =>
                Erasing(u) /\ th'[u] = th[u] /\ <<i, e>> \in overlapped'
           /\ \A u \in Threads : At(u, "candidate")' =>
                \/ At(u, "candidate") /\ th'[u] = th[u]
                \/ /\ u = t /\ th'[t].todo = Tail(th[t].todo) /\ Tail(th[t].todo) # <<>>
                   /\ th'[t].inv = i /\ th'[t].email = e
  BY <1>1, CommitFacts
<1>3. Asking(t) /\ th[t].todo = <<"feedback">>
  <2>1. Asking(t)
    BY <1>1 DEF RowsKept
  <2>2. /\ Head(<<"attempt", "mark">>) = "attempt" /\ Head(<<"mark">>) = "mark"
        /\ Head(<<"mark", "attempt", "submission">>) = "mark"
        /\ Head(<<"attempt", "submission">>) = "attempt" /\ Head(<<"submission">>) = "submission"
        /\ Head(<<"mark", "draft">>) = "mark" /\ Head(<<"draft">>) = "draft"
    OBVIOUS
  <2> QED
    BY <1>1, <2>1, <2>2 DEF Asking, Rest
<1>4. PICK m \in DOMAIN attempts : m = th[t].n /\ Of(attempts[m]) = <<i, e>>
  BY <1>2, <1>3 DEF Asking
<1>5. attempts' = [attempts EXCEPT ![m].said = TRUE]
  BY <1>4 DEF PutFeedback
<1>6. /\ DOMAIN attempts' = DOMAIN attempts /\ Keeps(attempts, attempts')
      /\ \A n \in DOMAIN attempts : n # m => attempts'[n] = attempts[n]
  <2>1. \A n \in DOMAIN attempts : attempts[n] \in CandidateAttempt
    BY AttemptEmail
  <2> QED
    BY <1>5, <2>1 DEF Keeps, CandidateAttempt
<1>7. Buried(attempts[m])
  BY DEF RowsKept, Interred
<1>8. \A n \in DOMAIN attempts : attempts'[n].said =>
        attempts[n].said \/ ~ is_erased(attempts[n].who) \/ Of(attempts[n]) \in overlapped'
  BY <1>2, <1>4, <1>6, <1>7 DEF Buried
<1>9. Tail(th[t].todo) = <<>>
  <2>1. Tail(<<"feedback">>) = <<>>
    OBVIOUS
  <2> QED
    BY <1>3, <2>1
<1>10. \A u \in Threads : /\ At(u, "candidate")' => At(u, "candidate") /\ th'[u] = th[u]
                          /\ Erasing(u)' => Erasing(u) /\ th'[u] = th[u]
  BY <1>2, <1>9
<1>11. Keeps(subs, subs') /\ DOMAIN subs' = DOMAIN subs
  BY <1>1 DEF Keeps
<1> QED
  BY <1>1, <1>2, <1>6, <1>8, <1>10, <1>11, RowsInPlace

LEMMA RowsAge ==
  ASSUME Typed, RowsKept, Age
  PROVE  RowsKept'
<1>1. UNCHANGED <<subs, rows, th, forgotten, overlapped>>
  BY DEF Age, history
<1> DEFINE h(n) == [attempts[n] EXCEPT !.old = TRUE]
<1>2. attempts' = [n \in DOMAIN attempts |-> h(n)]
  BY DEF Age
<1>3. \A n \in DOMAIN attempts :
        h(n).inv = attempts[n].inv /\ h(n).who = attempts[n].who /\ h(n).said = attempts[n].said
  <2> TAKE n \in DOMAIN attempts
  <2>1. attempts[n] \in CandidateAttempt
    BY AttemptEmail
  <2> QED
    BY <2>1 DEF CandidateAttempt
<1> HIDE DEF h
<1>4. /\ DOMAIN attempts' = DOMAIN attempts /\ Keeps(attempts, attempts')
      /\ \A n \in DOMAIN attempts : attempts'[n].said = attempts[n].said
  BY <1>2, <1>3 DEF Keeps
<1>5. Keeps(subs, subs') /\ DOMAIN subs' = DOMAIN subs
  BY <1>1 DEF Keeps
<1>6. \A u \in Threads : /\ At(u, "candidate")' => At(u, "candidate") /\ th'[u] = th[u]
                         /\ Erasing(u)' => Erasing(u) /\ th'[u] = th[u]
  BY <1>1 DEF At, Erasing
<1> QED
  BY <1>1, <1>4, <1>5, <1>6, RowsInPlace

\* A grade that comes late for an erased submission has no words in it.
LEMMA RowsCallback ==
  ASSUME Typed, RowsKept, NEW n \in DOMAIN subs, Callback(n)
  PROVE  RowsKept'
<1>1. UNCHANGED <<attempts, rows, th, forgotten, overlapped>>
  BY DEF Callback, history
<1> DEFINE v == IF is_erased(subs[n].who) THEN "late" ELSE "full"
<1>2. subs' = [subs EXCEPT ![n].result = v]
  BY DEF Callback
<1>3. is_erased(subs[n].who) => v # "full"
  OBVIOUS
<1> HIDE DEF v
<1>4. /\ DOMAIN subs' = DOMAIN subs /\ Keeps(subs, subs')
      /\ \A m \in DOMAIN subs : /\ subs'[m].code = subs[m].code
                                /\ subs'[m].result = IF m = n THEN v ELSE subs[m].result
  <2>1. \A m \in DOMAIN subs : subs[m] \in Submission
    BY DEF Typed, TypeOK
  <2> QED
    BY <1>2, <2>1 DEF Keeps, Submission
<1>5. Keeps(attempts, attempts') /\ DOMAIN attempts' = DOMAIN attempts
  BY <1>1 DEF Keeps
<1>6. \A m \in DOMAIN subs : is_erased(subs[m].who) =>
           /\ subs'[m].code => subs[m].code
           /\ subs'[m].result = "full" => subs[m].result = "full"
  BY <1>3, <1>4
<1>7. \A u \in Threads : /\ At(u, "candidate")' => At(u, "candidate") /\ th'[u] = th[u]
                         /\ Erasing(u)' => Erasing(u) /\ th'[u] = th[u]
  BY <1>1 DEF At, Erasing
<1> QED
  BY <1>1, <1>4, <1>5, <1>6, <1>7, RowsInPlace

-----------------------------------------------------------------------------
\* A tombstone stands for whom it was minted.
LEMMA TombstoneOf ==
  ASSUME Typed, NEW t \in Threads, Erasing(t), NEW i \in Invites, NEW e \in Emails,
         NEW r, r.inv = i, r.who = Tombstone(t, i, e)
  PROVE  Of(r) = <<i, e>> /\ is_erased(r.who)
<1>1. Tombstone(t, i, e) \in Tombstones /\ Tombstone(t, i, e).email = e
  BY TombstoneType DEF Tombstone
<1> QED
  BY <1>1 DEF Of, is_erased

\* What one commit of an erasure makes of each table.
LEMMA AttemptsLaid ==
  ASSUME Due, NEW t \in Threads, CommitErasure(t), NEW n \in DOMAIN attempts
  PROVE  /\ Of(attempts'[n]) = Of(attempts[n]) /\ attempts'[n].inv = attempts[n].inv
         /\ <<attempts[n].inv, attempts[n].who>> \notin th[t].sittings => attempts'[n] = attempts[n]
         /\ <<attempts[n].inv, attempts[n].who>> \in th[t].sittings =>
              /\ Of(attempts[n]) = <<attempts[n].inv, attempts[n].who>>
              /\ attempts'[n].who = Tombstone(t, attempts[n].inv, attempts[n].who)
              /\ is_erased(attempts'[n].who) /\ ~ attempts'[n].said
<1>0. Erasing(t)
  BY DEF CommitErasure
<1>1. Typed /\ Erasing(t) /\ th[t].sittings \subseteq Sittings /\ attempts[n] \in CandidateAttempt
  BY <1>0 DEF Due, Typed, TypeOK, Thread
<1>2. CASE <<attempts[n].inv, attempts[n].who>> \notin th[t].sittings
  <2>1. attempts'[n] = attempts[n]
    BY <1>2, AttemptsErased
  <2>2. Of(attempts'[n]) = Of(attempts[n])
    BY <2>1 DEF Of
  <2> QED
    BY <1>2, <2>1, <2>2
<1>3. CASE <<attempts[n].inv, attempts[n].who>> \in th[t].sittings
  <2>1. PICK i \in Invites, e \in Emails : attempts[n].inv = i /\ attempts[n].who = e
    BY <1>1, <1>3 DEF Sittings
  <2>2. attempts'[n].inv = i /\ attempts'[n].who = Tombstone(t, i, e)
    BY <1>3, <2>1, AttemptsErased
  <2>3. Of(attempts[n]) = <<i, e>>
    BY <2>1, Live
  <2>4. Of(attempts'[n]) = <<i, e>> /\ is_erased(attempts'[n].who)
    <3>1. PICK a : a = attempts'[n]
      OBVIOUS
    <3> QED
      BY <1>1, <2>2, <3>1, TombstoneOf
  <2>5. attempts'[n] = Anonymous(attempts[n], Tombstone(t, attempts[n].inv, attempts[n].who))
    BY <1>3 DEF CommitErasure
  <2>6. ~ attempts'[n].said
    BY <1>1, <2>5 DEF Anonymous, CandidateAttempt
  <2> QED
    BY <1>3, <2>1, <2>2, <2>3, <2>4, <2>6
<1> QED
  BY <1>2, <1>3

LEMMA SubmissionsLaid ==
  ASSUME Due, NEW t \in Threads, CommitErasure(t), Has(t), NEW n \in DOMAIN subs
  PROVE  /\ Of(subs'[n]) = Of(subs[n]) /\ subs'[n].inv = subs[n].inv
         /\ (\A f \in th[t].found : f.id # n) =>
              /\ subs'[n] = subs[n]
              /\ <<subs[n].inv, subs[n].who>> \in th[t].sittings =>
                   <<subs[n].inv, subs[n].who>> \in overlapped
         /\ (\E f \in th[t].found : f.id = n) =>
              /\ Of(subs[n]) \in th[t].sittings
              /\ is_erased(subs'[n].who) /\ ~ subs'[n].code /\ subs'[n].result # "full"
              /\ \/ Of(subs[n]) \in overlapped
                 \/ /\ Of(subs[n]) = <<subs[n].inv, subs[n].who>>
                    /\ subs'[n].who = Tombstone(t, subs[n].inv, subs[n].who)
<1>0. Erasing(t)
  BY DEF CommitErasure
<1>1. /\ Typed /\ Erasing(t) /\ th[t].found \subseteq [id : Nat, email : Emails]
      /\ subs[n] \in Submission
  BY <1>0 DEF Due, Typed, TypeOK, Thread
<1> DEFINE by == {f \in th[t].found : f.id = n}
<1>2. CASE by = {}
  <2>1. subs'[n] = subs[n]
    BY <1>2 DEF CommitErasure
  <2>2. <<subs[n].inv, subs[n].who>> \in th[t].sittings => <<subs[n].inv, subs[n].who>> \in overlapped
    BY <1>2 DEF Has
  <2>3. Of(subs'[n]) = Of(subs[n])
    BY <2>1 DEF Of
  <2>4. \A f \in th[t].found : f.id # n
    BY <1>2
  <2> QED
    BY <2>1, <2>2, <2>3, <2>4
<1>3. CASE by # {}
  <2>1. PICK g : g = CHOOSE f \in by : TRUE
    OBVIOUS
  <2>2. g \in th[t].found /\ g.id = n
    BY <1>3, <2>1
  <2>3. PICK i \in Invites, e \in Emails : subs[n].inv = i /\ g.email = e
    BY <1>1, <2>2 DEF Submission
  <2>4. subs'[n] = [subs[n] EXCEPT !.who = Tombstone(t, i, e), !.code = FALSE, !.result = Wiped(@)]
    BY <1>3, <2>1, <2>3 DEF CommitErasure
  <2>5. /\ subs'[n].inv = i /\ subs'[n].who = Tombstone(t, i, e) /\ ~ subs'[n].code
        /\ subs'[n].result = Wiped(subs[n].result)
    BY <1>1, <2>3, <2>4 DEF Submission
  <2>6. subs'[n].result # "full"
    BY <2>5 DEF Wiped
  <2>7. Of(subs'[n]) = <<i, e>> /\ is_erased(subs'[n].who)
    <3>1. PICK s : s = subs'[n]
      OBVIOUS
    <3> QED
      BY <1>1, <2>5, <3>1, TombstoneOf
  <2>8. /\ Of(subs[n]) = <<i, e>> /\ Of(subs[n]) \in th[t].sittings
        /\ subs[n].who = e \/ Of(subs[n]) \in overlapped
    BY <2>2, <2>3 DEF Has
  <2>9. \/ Of(subs[n]) \in overlapped
        \/ /\ Of(subs[n]) = <<subs[n].inv, subs[n].who>>
           /\ subs'[n].who = Tombstone(t, subs[n].inv, subs[n].who)
    BY <2>3, <2>5, <2>8
  <2> QED
    BY <1>3, <2>3, <2>5, <2>6, <2>7, <2>8, <2>9
<1> QED
  BY <1>2, <1>3

LEMMA RowsLaid ==
  ASSUME Due, NEW t \in Threads, CommitErasure(t), NEW r \in rows'
  PROVE  \E x \in rows :
           /\ Of(r) = Of(x) /\ r.inv = x.inv
           /\ <<x.inv, x.who>> \notin th[t].sittings => r = x
           /\ <<x.inv, x.who>> \in th[t].sittings =>
                /\ Of(x) = <<x.inv, x.who>>
                /\ r.who = Tombstone(t, x.inv, x.who) /\ is_erased(r.who)
<1>1. Typed /\ Erasing(t) /\ th[t].sittings \subseteq Sittings
  BY DEF CommitErasure, Due, Typed, TypeOK, Thread
<1>2. CASE r \in rows /\ <<r.inv, r.who>> \notin th[t].sittings
  BY <1>2
<1>3. CASE ~ (r \in rows /\ <<r.inv, r.who>> \notin th[t].sittings)
  <2>1. PICK x \in rows : /\ <<x.inv, x.who>> \in th[t].sittings
                          /\ r = [x EXCEPT !.who = Tombstone(t, x.inv, x.who)]
    BY <1>3 DEF CommitErasure
  <2>2. PICK i \in Invites, e \in Emails : x.inv = i /\ x.who = e
    BY <1>1, <2>1 DEF Sittings
  <2>3. x \in Row
    BY <1>1, RowTypes
  <2>4. r.inv = i /\ r.who = Tombstone(t, i, e)
    BY <2>1, <2>2, <2>3 DEF Row
  <2>5. Of(x) = <<i, e>>
    BY <2>2, Live
  <2>6. Of(r) = <<i, e>> /\ is_erased(r.who)
    BY <1>1, <2>4, TombstoneOf
  <2> QED
    BY <2>1, <2>2, <2>4, <2>5, <2>6
<1> QED
  BY <1>2, <1>3

-----------------------------------------------------------------------------
LEMMA RowsCommit ==
  ASSUME Due, Listed, RowsKept, NEW t \in Threads, CommitErasure(t)
  PROVE  RowsKept'
<1>0. Typed
  BY DEF Due
<1>1. /\ Erasing(t) /\ Goto(t, Idle) /\ overlapped \subseteq overlapped'
      /\ forgotten' = forgotten \cup th[t].sittings
      /\ DOMAIN attempts' = DOMAIN attempts /\ DOMAIN subs' = DOMAIN subs
  BY DEF CommitErasure
<1>2. th'[t].pc = "idle" /\ \A u \in Threads : u # t => th'[u] = th[u]
  BY <1>0, <1>1, IdleType DEF Goto, Typed, TypeOK
<1>3. Has(t)
  BY <1>1 DEF RowsKept
<1>a. \A n \in DOMAIN attempts :
        /\ Of(attempts'[n]) = Of(attempts[n]) /\ attempts'[n].inv = attempts[n].inv
        /\ <<attempts[n].inv, attempts[n].who>> \notin th[t].sittings => attempts'[n] = attempts[n]
        /\ <<attempts[n].inv, attempts[n].who>> \in th[t].sittings =>
              /\ Of(attempts[n]) = <<attempts[n].inv, attempts[n].who>>
              /\ attempts'[n].who = Tombstone(t, attempts[n].inv, attempts[n].who)
              /\ is_erased(attempts'[n].who) /\ ~ attempts'[n].said
  BY AttemptsLaid
<1>s. \A n \in DOMAIN subs :
         /\ Of(subs'[n]) = Of(subs[n]) /\ subs'[n].inv = subs[n].inv
         /\ (\A f \in th[t].found : f.id # n) =>
              /\ subs'[n] = subs[n]
              /\ <<subs[n].inv, subs[n].who>> \in th[t].sittings =>
                   <<subs[n].inv, subs[n].who>> \in overlapped
         /\ (\E f \in th[t].found : f.id = n) =>
              /\ Of(subs[n]) \in th[t].sittings
              /\ is_erased(subs'[n].who) /\ ~ subs'[n].code /\ subs'[n].result # "full"
              /\ \/ Of(subs[n]) \in overlapped
                 \/ /\ Of(subs[n]) = <<subs[n].inv, subs[n].who>>
                    /\ subs'[n].who = Tombstone(t, subs[n].inv, subs[n].who)
  BY <1>3, SubmissionsLaid
\* A row that is left as it is was not erased now, under its address.
<1>b. ASSUME NEW r, r.inv \in Invites, r.who \in Who, Buried(r),
             <<r.inv, r.who>> \in th[t].sittings => Of(r) \in overlapped
      PROVE  Buried(r)'
  <2>1. CASE is_erased(r.who)
    BY <1>1, <1>b, <2>1 DEF Buried
  <2>2. CASE ~ is_erased(r.who)
    <3>1. Of(r) = <<r.inv, r.who>>
      BY <1>b, <2>2, OfType
    <3> QED
      BY <1>1, <1>b, <2>2, <3>1 DEF Buried
  <2> QED
    BY <2>1, <2>2
<1>4. ASSUME NEW n \in DOMAIN attempts PROVE Buried(attempts[n])' /\ Quiet(attempts[n])'
  <2>1. Buried(attempts[n]) /\ Quiet(attempts[n])
    BY DEF RowsKept, Interred
  <2>2. CASE <<attempts[n].inv, attempts[n].who>> \notin th[t].sittings
    <3>1. PICK a : a = attempts[n]
      OBVIOUS
    <3>2. a.inv \in Invites /\ a.who \in Who
      BY <1>0, <3>1, RowTypes
    <3>3. Buried(a)'
      BY <1>b, <2>1, <2>2, <3>1, <3>2
    <3>4. attempts'[n] = a
      BY <1>a, <2>2, <3>1
    <3>5. Quiet(a)'
      BY <1>1, <2>1, <3>1 DEF Quiet
    <3> QED
      BY <3>3, <3>4, <3>5 DEF Buried, Quiet
  <2>3. CASE <<attempts[n].inv, attempts[n].who>> \in th[t].sittings
    <3>1. Of(attempts'[n]) \in forgotten' /\ is_erased(attempts'[n].who) /\ ~ attempts'[n].said
      BY <1>1, <1>a, <2>3
    <3> QED
      BY <3>1 DEF Buried, Quiet
  <2> QED
    BY <2>2, <2>3
<1>5. ASSUME NEW n \in DOMAIN subs PROVE Buried(subs[n])' /\ Blank(subs[n])'
  <2>1. Buried(subs[n]) /\ Blank(subs[n])
    BY DEF RowsKept, Interred
  <2>2. CASE \A f \in th[t].found : f.id # n
    <3>1. PICK s : s = subs[n]
      OBVIOUS
    <3>2. s.inv \in Invites /\ s.who \in Who
      BY <1>0, <3>1, RowTypes
    <3>3. /\ subs'[n] = s
          /\ <<s.inv, s.who>> \in th[t].sittings => <<s.inv, s.who>> \in overlapped
      BY <1>s, <2>2, <3>1
    <3>4. <<s.inv, s.who>> \in th[t].sittings => Of(s) \in overlapped
      <4>1. th[t].sittings \subseteq Sittings
        BY <1>0 DEF Typed, TypeOK, Thread
      <4>2. <<s.inv, s.who>> \in Sittings => Of(s) = <<s.inv, s.who>>
        BY <3>2, OfType
      <4> QED
        BY <3>3, <4>1, <4>2
    <3>5. Buried(s)'
      BY <1>b, <2>1, <3>1, <3>2, <3>4
    <3>6. Blank(s)'
      BY <1>1, <2>1, <3>1 DEF Blank
    <3> QED
      BY <3>3, <3>5, <3>6 DEF Buried, Blank
  <2>3. CASE \E f \in th[t].found : f.id = n
    <3>1. /\ Of(subs'[n]) \in forgotten' /\ is_erased(subs'[n].who)
          /\ ~ subs'[n].code /\ subs'[n].result # "full"
      BY <1>1, <1>s, <2>3
    <3> QED
      BY <3>1 DEF Buried, Blank
  <2> QED
    BY <2>2, <2>3
<1>6. ASSUME NEW r \in rows' PROVE Buried(r)'
  <2>1. PICK x \in rows :
           /\ Of(r) = Of(x) /\ r.inv = x.inv
           /\ <<x.inv, x.who>> \notin th[t].sittings => r = x
           /\ <<x.inv, x.who>> \in th[t].sittings =>
                /\ Of(x) = <<x.inv, x.who>>
                /\ r.who = Tombstone(t, x.inv, x.who) /\ is_erased(r.who)
    BY RowsLaid
  <2>2. Buried(x) /\ x.inv \in Invites /\ x.who \in Who
    BY <1>0, RowTypes DEF RowsKept, Interred
  <2>3. CASE <<x.inv, x.who>> \notin th[t].sittings
    BY <1>b, <2>1, <2>2, <2>3
  <2>4. CASE <<x.inv, x.who>> \in th[t].sittings
    BY <1>1, <2>1, <2>4 DEF Buried
  <2> QED
    BY <2>3, <2>4
<1>7. Interred'
  BY <1>1, <1>4, <1>5, <1>6 DEF Interred
<1>8. SittingWhole'
  <2>1. ASSUME NEW n \in DOMAIN subs, Of(subs'[n]) \notin overlapped'
        PROVE  AttemptOf(subs[n].inv, subs[n].who)' # {}
    <3>1. Of(subs[n]) \notin overlapped
      BY <1>1, <1>s, <2>1
    <3>2. PICK m \in DOMAIN attempts : attempts[m].inv = subs[n].inv /\ attempts[m].who = subs[n].who
      BY <3>1 DEF RowsKept, SittingWhole, AttemptOf
    <3>3. attempts'[m].inv = subs'[n].inv /\ attempts'[m].who = subs'[n].who
      <4>1. CASE \A f \in th[t].found : f.id # n
        <5>1. subs'[n] = subs[n]
          BY <1>s, <4>1
        <5>2. <<subs[n].inv, subs[n].who>> \notin th[t].sittings
          <6>1. th[t].sittings \subseteq Sittings /\ subs[n].inv \in Invites /\ subs[n].who \in Who
            BY <1>0, RowTypes DEF Typed, TypeOK, Thread
          <6>2. <<subs[n].inv, subs[n].who>> \in Sittings => Of(subs[n]) = <<subs[n].inv, subs[n].who>>
            BY <6>1, OfType
          <6> QED
            BY <1>s, <3>1, <4>1, <6>1, <6>2
        <5> QED
          BY <1>a, <3>2, <5>1, <5>2
      <4>2. CASE \E f \in th[t].found : f.id = n
        <5>1. /\ <<subs[n].inv, subs[n].who>> \in th[t].sittings /\ subs'[n].inv = subs[n].inv
              /\ subs'[n].who = Tombstone(t, subs[n].inv, subs[n].who)
          BY <1>s, <3>1, <4>2
        <5> QED
          BY <1>a, <3>2, <5>1
      <4> QED
        BY <4>1, <4>2
    <3> QED
      BY <1>1, <3>2, <3>3 DEF AttemptOf
  <2>2. ASSUME NEW r \in rows', NEW n \in DOMAIN attempts,
               Of(r) = Of(attempts'[n]), Of(r) \notin overlapped'
        PROVE  r.who = attempts'[n].who
    <3>1. PICK x \in rows :
           /\ Of(r) = Of(x) /\ r.inv = x.inv
           /\ <<x.inv, x.who>> \notin th[t].sittings => r = x
           /\ <<x.inv, x.who>> \in th[t].sittings =>
                /\ Of(x) = <<x.inv, x.who>>
                /\ r.who = Tombstone(t, x.inv, x.who) /\ is_erased(r.who)
      BY RowsLaid
    <3>2. Of(x) = Of(attempts[n]) /\ Of(x) \notin overlapped
      BY <1>1, <1>a, <2>2, <3>1
    <3>3. x.who = attempts[n].who
      BY <3>2 DEF RowsKept, SittingWhole
    <3>4. x.inv = attempts[n].inv
      BY <3>2 DEF Of
    <3> QED
      BY <1>a, <3>1, <3>3, <3>4
  <2> QED
    BY <1>1, <2>1, <2>2 DEF SittingWhole
\* Whom another thread has in hand is noted.
<1>9. ASSUME NEW u \in Threads, At(u, "candidate")' PROVE Asking(u)'
  <2>1. u # t /\ th'[u] = th[u] /\ At(u, "candidate") /\ Asking(u)
    BY <1>2, <1>9 DEF RowsKept, At
  <2>2. PICK i \in Invites, e \in Emails : th[u].inv = i /\ th[u].email = e
    BY <1>0, <2>1 DEF Typed, Knows, At
  <2>3. th[u].todo = <<"feedback">> =>
          th[u].n \in DOMAIN attempts' /\ Of(attempts'[th[u].n]) = <<i, e>>
    BY <1>1, <1>a, <2>1, <2>2 DEF Asking
  <2>4. ASSUME Sat(i, e) PROVE Sat(i, e)' \/ Crossed(i, e)'
    <3>1. PICK n \in DOMAIN attempts : attempts[n].inv = i /\ attempts[n].who = e
      BY <2>4 DEF Sat, AttemptOf
    <3>2. CASE <<i, e>> \in th[t].sittings
      <4>1. Serves(u, i, e)
        BY <2>1, <2>2 DEF Serves
      <4> QED
        BY <1>0, <2>1, <3>2, <4>1, Noted
    <3>3. CASE <<i, e>> \notin th[t].sittings
      <4>1. attempts'[n] = attempts[n]
        BY <1>a, <3>1, <3>3
      <4> QED
        BY <1>1, <3>1, <4>1 DEF Sat, AttemptOf
    <3> QED
      BY <3>2, <3>3
  <2>5. Crossed(i, e) => Crossed(i, e)'
    BY <1>1 DEF Crossed
  <2>6. th[u].todo = <<"submission">> => Sat(i, e)' \/ Crossed(i, e)'
    BY <2>1, <2>2, <2>4, <2>5 DEF Asking
  <2>7. th[u].todo \in Rest
    BY <2>1 DEF Asking
  <2> QED
    BY <2>1, <2>2, <2>3, <2>6, <2>7 DEF Asking, Sat, AttemptOf, Crossed
<1>10. ASSUME NEW u \in Threads, Erasing(u)' PROVE Has(u)'
  <2>1. u # t /\ th'[u] = th[u] /\ Erasing(u) /\ Has(u)
    BY <1>2, <1>10 DEF RowsKept, Erasing
  <2>2. ASSUME NEW f \in th[u].found
        PROVE  /\ f.id \in DOMAIN subs' /\ Of(subs'[f.id]) = <<subs'[f.id].inv, f.email>>
               /\ Of(subs'[f.id]) \in th[u].sittings
               /\ subs'[f.id].who = f.email \/ Of(subs'[f.id]) \in overlapped'
    <3>1. PICK n \in DOMAIN subs : n = f.id
      BY <2>1 DEF Has
    <3>2. /\ Of(subs[n]) = <<subs[n].inv, f.email>> /\ Of(subs[n]) \in th[u].sittings
          /\ subs[n].who = f.email \/ Of(subs[n]) \in overlapped
      BY <2>1, <3>1 DEF Has
    <3>3. subs'[n] = subs[n] \/ Of(subs[n]) \in overlapped'
      <4>1. CASE \A g \in th[t].found : g.id # n
        BY <1>s, <4>1
      <4>2. CASE \E g \in th[t].found : g.id = n
        <5>1. Of(subs[n]) \in th[t].sittings
          BY <1>s, <4>2
        <5>2. PICK i \in Invites, e \in Emails : Of(subs[n]) = <<i, e>>
          BY <1>0, <5>1 DEF Typed, TypeOK, Thread, Sittings
        <5>3. Crossed(i, e)'
          BY <1>0, <2>1, <5>1, <5>2, Noted
        <5> QED
          BY <5>2, <5>3 DEF Crossed
      <4> QED
        BY <4>1, <4>2
    <3> QED
      BY <1>1, <1>s, <3>1, <3>2, <3>3
  <2>3. ASSUME NEW n \in DOMAIN subs, <<subs'[n].inv, subs'[n].who>> \in th[u].sittings
        PROVE  (\E f \in th[u].found : f.id = n) \/ <<subs'[n].inv, subs'[n].who>> \in overlapped'
    <3>1. CASE \A f \in th[t].found : f.id # n
      BY <1>1, <1>s, <2>1, <2>3, <3>1 DEF Has
    <3>2. CASE \E f \in th[t].found : f.id = n
      <4>1. is_erased(subs'[n].who) /\ th[u].sittings \subseteq Sittings
        BY <1>0, <1>s, <3>2 DEF Typed, TypeOK, Thread
      <4> QED
        BY <2>3, <4>1, ErasureAssumption DEF Sittings, is_erased
    <3> QED
      BY <3>1, <3>2
  <2> QED
    BY <1>1, <2>1, <2>2, <2>3 DEF Has
<1> QED
  BY <1>7, <1>8, <1>9, <1>10 DEF RowsKept

-----------------------------------------------------------------------------
LEMMA RowsStep == Due /\ Due' /\ Listed /\ RowsKept /\ [Next]_vars => RowsKept'
<1> SUFFICES ASSUME Due, Due', Listed, RowsKept, [Next]_vars PROVE RowsKept'
  OBVIOUS
<1> USE DEF posted, person, history
<1>0. Typed /\ Typed'
  BY DEF Due
<1>1. ASSUME NEW t \in Threads, NEW i \in Invites, CreateInvite(t, i) PROVE RowsKept'
  <2>1. UNCHANGED <<attempts, subs, rows, forgotten, overlapped>>
    BY <1>1 DEF CreateInvite
  <2>2. /\ th'[t].pc = "deliver"
        /\ \A u \in Threads : u # t => th'[u] = th[u]
    BY <1>0, <1>1 DEF CreateInvite, Goto, Idle, Typed, TypeOK
  <2>3. \A u \in Threads : /\ At(u, "candidate")' => At(u, "candidate") /\ th'[u] = th[u]
                           /\ Erasing(u)' => Erasing(u) /\ th'[u] = th[u]
    BY <2>2 DEF At, Erasing
  <2> QED
    BY <1>0, <2>1, <2>3, RowsAlone
<1>2. ASSUME NEW t \in Threads, SaveDeliveries(t) PROVE RowsKept'
  <2>1. UNCHANGED <<attempts, subs, rows, forgotten>> /\ overlapped \subseteq overlapped'
    BY <1>2 DEF SaveDeliveries, Written
  <2>2. /\ th'[t].pc = "idle"
        /\ \A u \in Threads : u # t => th'[u] = th[u]
    BY <1>0, <1>2, IdleType DEF SaveDeliveries, Goto, Typed, TypeOK
  <2>3. \A u \in Threads : /\ At(u, "candidate")' => At(u, "candidate") /\ th'[u] = th[u]
                           /\ Erasing(u)' => Erasing(u) /\ th'[u] = th[u]
    BY <2>2 DEF At, Erasing
  <2> QED
    BY <1>0, <2>1, <2>3, RowsAlone
<1>3. ASSUME NEW t \in Threads, NEW k \in DOMAIN Plan, NEW i \in Invites, NEW e \in Emails,
             Ask(t, k, i, e)
      PROVE  RowsKept'
  BY <1>0, <1>3, RowsAsk
<1>4. ASSUME NEW t \in Threads, PutMark(t) \/ PutDraft(t) PROVE RowsKept'
  BY <1>0, <1>4, RowsPutRow DEF PutMark, PutDraft
<1>5. ASSUME NEW t \in Threads, PutAttempt(t) PROVE RowsKept'
  BY <1>0, <1>5, RowsPutAttempt
<1>6. ASSUME NEW t \in Threads, PutSubmission(t) PROVE RowsKept'
  BY <1>0, <1>6, RowsPutSubmission
<1>7. ASSUME NEW t \in Threads, PutFeedback(t) PROVE RowsKept'
  BY <1>0, <1>7, RowsPutFeedback
<1>8. ASSUME NEW t \in Threads, (\E e \in Emails : EraseCandidate(t, e)) \/ Sweep(t) PROVE RowsKept'
  BY <1>0, <1>8, RowsBegins
<1>9. ASSUME NEW t \in Threads, CommitErasure(t) PROVE RowsKept'
  BY <1>9, RowsCommit
<1>10. CASE Age
  BY <1>0, <1>10, RowsAge
<1>11. ASSUME NEW n \in DOMAIN subs, Callback(n) PROVE RowsKept'
  BY <1>0, <1>11, RowsCallback
<1>12. CASE UNCHANGED vars
  <2>1. UNCHANGED <<attempts, subs, rows, forgotten, overlapped, th>>
    BY <1>12 DEF vars
  <2>2. \A u \in Threads : /\ At(u, "candidate")' => At(u, "candidate") /\ th'[u] = th[u]
                           /\ Erasing(u)' => Erasing(u) /\ th'[u] = th[u]
    BY <2>1 DEF At, Erasing
  <2> QED
    BY <1>0, <2>1, <2>2, RowsAlone
<1> QED
  BY <1>1, <1>2, <1>3, <1>4, <1>5, <1>6, <1>7, <1>8, <1>9, <1>10, <1>11, <1>12 DEF Next

\* An erased sitting that nobody else had in hand is nowhere on its invitation:
\* not in the lists, not in a row, and what stays under the tombstone says
\* nothing of the candidate's (privacy.py, _erase).
THEOREM ErasedIsForgotten == Spec => []Forgotten
<1>1. Due /\ Listed /\ RowsKept => Forgotten
  <2> SUFFICES ASSUME Due, Listed, RowsKept, NEW p \in forgotten \ overlapped
               PROVE  /\ p[2] \notin lists[p[1]].to \cup lists[p[1]].log
                      /\ AttemptOf(p[1], p[2]) = {} /\ SubmissionOf(p[1], p[2]) = {}
                      /\ \A r \in rows : r.inv = p[1] => r.who # p[2]
                      /\ \A n \in DOMAIN attempts : Of(attempts[n]) = p => ~ attempts[n].said
                      /\ \A n \in DOMAIN subs :
                           Of(subs[n]) = p => ~ subs[n].code /\ subs[n].result # "full"
    BY DEF Forgotten
  <2>0. Typed
    BY DEF Due
  <2>1. PICK i \in Invites, e \in Emails : p = <<i, e>>
    BY <2>0 DEF Typed, TypeOK, Sittings
  <2>2. e \notin lists[i].to /\ e \notin lists[i].log
    <3>1. ListsOf(i, e)
      BY DEF Listed
    <3> QED
      BY <2>1, <3>1 DEF ListsOf, Crossed
  <2>3. ASSUME NEW r, Buried(r), r.inv = i, r.who = e
        PROVE  FALSE
    <3>1. Of(r) = <<i, e>> /\ ~ is_erased(r.who)
      BY <2>3, Live
    <3> QED
      BY <2>1, <2>3, <3>1 DEF Buried
  <2>4. AttemptOf(i, e) = {} /\ SubmissionOf(i, e) = {}
    BY <2>3 DEF AttemptOf, SubmissionOf, RowsKept, Interred
  <2>5. \A r \in rows : r.inv = i => r.who # e
    BY <2>3 DEF RowsKept, Interred
  <2>6. \A n \in DOMAIN attempts : Of(attempts[n]) = p => ~ attempts[n].said
    BY DEF RowsKept, Interred, Buried, Quiet
  <2>7. \A n \in DOMAIN subs : Of(subs[n]) = p => ~ subs[n].code /\ subs[n].result # "full"
    BY DEF RowsKept, Interred, Buried, Blank
  <2> QED
    BY <2>1, <2>2, <2>4, <2>5, <2>6, <2>7
<1> QED
  BY <1>1, DueInit, DueStep, ListedInit, ListedStep, RowsKeptInit, RowsStep, PTL DEF Spec

\* What is left of a sitting can still be put together, erased or not: a
\* submission has its attempt, and all its rows carry one name.
THEOREM SittingsStayWhole == Spec => []SittingWhole
<1>1. RowsKept => SittingWhole
  BY DEF RowsKept
<1> QED
  BY <1>1, DueInit, DueStep, ListedInit, ListedStep, RowsKeptInit, RowsStep, PTL DEF Spec

=============================================================================
