---------------------------- MODULE LibraryProofs ----------------------------
(***************************************************************************)
(* Proofs about Library: the types of its rows; that the guards of a       *)
(* deletion cover every foreign key and that what is on record can be read *)
(* back; that no request takes a record, the slots of an invited           *)
(* assessment or the link of a sitting away; and that batches of           *)
(* invitations use a variant set evenly.                                   *)
(*                                                                         *)
(* Two inductive invariants: RowsInv, of the rows and of what each thread  *)
(* holds between its reads and its commit, and Rotating, of the variant    *)
(* sets and the batches under way.                                         *)
(***************************************************************************)
EXTENDS Library, FiniteSetTheorems, WellFoundedInduction, TLAPS

-----------------------------------------------------------------------------
(***************************************************************************)
(* Counting: turns around a circle, and the elements of a set by rank.     *)
(***************************************************************************)
\* A nonempty set of numbers has a least one.
LEMMA Least ==
  ASSUME NEW T, T \subseteq Nat, T # {}
  PROVE  \E x \in T : \A y \in T : x <= y
  <1> DEFINE Less == {p \in Nat \X Nat : p[1] < p[2]}
  <1>1. IsWellFoundedOn(Less, Nat) BY NatLessThanWellFounded DEF OpToRel
  <1>2. PICK x \in T : \A y \in T : ~ (<<y, x>> \in Less)
    <2> HIDE DEF Less
    <2> QED BY <1>1, WFMin
  <1>3. \A y \in T : ~ (y < x) BY <1>2
  <1> QED BY <1>3

LEMMA ModRange ==
  ASSUME NEW n \in Nat, NEW l \in Nat, l > 0
  PROVE  n % l \in 0..(l - 1)
  OBVIOUS

\* The next turn.
LEMMA ModNext ==
  ASSUME NEW n \in Nat, NEW l \in Nat, l > 0
  PROVE  (n + 1) % l = IF n % l = l - 1 THEN 0 ELSE (n % l) + 1
  <1> DEFINE q == n \div l
             p == (n + 1) \div l
             r == n % l
             u == (n + 1) % l
  <1>1. /\ q \in Int /\ n = l * q + r
        /\ p \in Int /\ n + 1 = l * p + u
        OBVIOUS
  <1>2. r \in 0..(l - 1) /\ u \in 0..(l - 1) BY ModRange
  <1> HIDE DEF q, p, r, u
  <1>3. l * p + u = l * q + r + 1 BY <1>1, <1>2
  <1>4. l * (p - q) = r + 1 - u
    <2>1. l * (p - q) = l * p - l * q BY <1>1
    <2>2. l * p \in Int /\ l * q \in Int BY <1>1
    <2> QED BY <1>2, <1>3, <2>1, <2>2
  <1>5. CASE p - q = 0
    <2>1. l * (p - q) = 0 BY <1>5
    <2> QED BY <1>2, <1>4, <2>1 DEF r, u
  <1>6. CASE p - q = 1
    <2>1. l * (p - q) = l BY <1>6
    <2> QED BY <1>2, <1>4, <2>1 DEF r, u
  <1>7. CASE p - q > 1
    <2> DEFINE d == p - q - 2
    <2>1. d \in Nat /\ l * (p - q) = l * 2 + l * d BY <1>1, <1>7
    <2>2. l * d >= 0 BY <2>1
    <2>3. l * (p - q) >= 2 * l BY <2>1, <2>2
    <2> QED BY <1>2, <1>4, <2>3
  <1>8. CASE p - q < 0
    <2> DEFINE d == 0 - (p - q) - 1
    <2>1. d \in Nat /\ l * (p - q) = 0 - l - l * d BY <1>1, <1>8
    <2>2. l * d >= 0 BY <2>1
    <2>3. l * (p - q) <= 0 - l BY <2>1, <2>2
    <2> QED BY <1>2, <1>4, <2>3
  <1> QED BY <1>1, <1>5, <1>6, <1>7, <1>8

LEMMA ModZero ==
  ASSUME NEW l \in Nat, l > 0
  PROVE  0 % l = 0
  OBVIOUS

\* Every rank is taken.
LEMMA Ranks ==
  ASSUME NEW l \in Nat, NEW S, S \subseteq 1..l, NEW k \in 1..Cardinality(S)
  PROVE  \E n \in S : Cardinality(S \cap (1..n)) = k
  <1> DEFINE upTo(n) == Cardinality(S \cap (1..n))
             T == {n \in 0..l : k <= upTo(n)}
  <1>1. IsFiniteSet(S)
    <2>1. IsFiniteSet(1..l) BY FS_Interval
    <2> QED BY <2>1, FS_Subset
  <1>2. \A n \in 0..l : IsFiniteSet(S \cap (1..n)) /\ upTo(n) \in Nat
    <2> TAKE n \in 0..l
    <2>1. S \cap (1..n) \in SUBSET S OBVIOUS
    <2> QED BY <1>1, <2>1, FS_Subset, FS_CardinalityType
  <1>3. Cardinality(S) \in Nat BY <1>1, FS_CardinalityType
  <1>4. l \in T
    <2>1. S \cap (1..l) = S OBVIOUS
    <2> QED BY <1>3, <2>1
  <1>5. PICK n \in T : \A m \in T : n <= m
    <2> HIDE DEF T
    <2>1. T \subseteq Nat BY DEF T
    <2> QED BY <1>4, <2>1, Least
  <1>6. n > 0
    <2>1. S \cap (1..0) = {} OBVIOUS
    <2>2. upTo(0) = 0 BY <2>1, FS_EmptySet
    <2> QED BY <1>3, <1>5, <2>2
  <1>7. n - 1 \in 0..l /\ n \in 0..l BY <1>5, <1>6
  <1>8. upTo(n - 1) < k
    <2>1. n - 1 \notin T BY <1>5, <1>7
    <2>2. ~ (k <= upTo(n - 1)) BY <1>7, <2>1
    <2>3. upTo(n - 1) \in Nat BY <1>2, <1>7
    <2> HIDE DEF upTo
    <2> QED BY <1>3, <2>2, <2>3
  <1>9. k <= upTo(n) BY <1>5
  <1>10. S \cap (1..n) = IF n \in S THEN (S \cap (1..(n - 1))) \cup {n} ELSE S \cap (1..(n - 1))
    BY <1>6, <1>7
  <1>11. n \notin S \cap (1..(n - 1)) BY <1>6, <1>7
  <1>12. n \in S BY <1>3, <1>8, <1>9, <1>10, <1>2, <1>7
  <1>13. upTo(n) = upTo(n - 1) + 1
    BY <1>2, <1>7, <1>10, <1>11, <1>12, FS_AddElement
  <1>14. upTo(n - 1) \in Nat BY <1>2, <1>7
  <1>15. upTo(n) = k
    <2> HIDE DEF upTo
    <2> QED BY <1>3, <1>8, <1>9, <1>13, <1>14
  <1> QED BY <1>12, <1>15

-----------------------------------------------------------------------------
(***************************************************************************)
(* A variant set: what is left of it, and that every variant takes its     *)
(* turn.                                                                   *)
(***************************************************************************)
\* q is a variant of the set s.
Made(s, q) == \E n \in DOMAIN pool[s] : pool[s][n] = q

\* s has lost none.
Complete(s) == \A n \in DOMAIN pool[s] : pool[s][n] \in DOMAIN bank

LEMMA VariantsLeft ==
  ASSUME NEW s \in DOMAIN pool, pool[s] \in Seq(Questions)
  PROVE  /\ Variants(s) \in Seq(Questions)
         /\ \A k \in DOMAIN Variants(s) :
              Variants(s)[k] \in DOMAIN bank /\ Made(s, Variants(s)[k])
  <1> DEFINE left == {n \in DOMAIN pool[s] : pool[s][n] \in DOMAIN bank}
             at(k) == CHOOSE n \in left : Cardinality(left \cap (1..n)) = k
  <1>1. left \subseteq 1..Len(pool[s]) /\ Len(pool[s]) \in Nat OBVIOUS
  <1>2. IsFiniteSet(left) /\ Cardinality(left) \in Nat
    <2> HIDE DEF left
    <2>1. IsFiniteSet(1..Len(pool[s])) BY <1>1, FS_Interval
    <2> QED BY <1>1, <2>1, FS_Subset, FS_CardinalityType
  <1>3. Variants(s) = [k \in 1..Cardinality(left) |-> pool[s][at(k)]] BY DEF Variants
  <1>4. \A k \in 1..Cardinality(left) : at(k) \in left
    <2> TAKE k \in 1..Cardinality(left)
    <2> HIDE DEF left
    <2>1. \E n \in left : Cardinality(left \cap (1..n)) = k BY <1>1, Ranks
    <2> QED BY <2>1
  <1>5. \A k \in 1..Cardinality(left) :
          /\ pool[s][at(k)] \in Questions /\ pool[s][at(k)] \in DOMAIN bank
          /\ Made(s, pool[s][at(k)])
    <2> TAKE k \in 1..Cardinality(left)
    <2>1. at(k) \in left BY <1>4
    <2> HIDE DEF at
    <2> QED BY <2>1 DEF Made
  <1> HIDE DEF left, at
  <1>6. DOMAIN Variants(s) = 1..Cardinality(left) BY <1>3
  <1>7. Variants(s) \in Seq(Questions) BY <1>2, <1>3, <1>5
  <1> QED BY <1>3, <1>5, <1>6, <1>7

LEMMA VariantsWhole ==
  ASSUME NEW s \in DOMAIN pool, pool[s] \in Seq(Questions), Complete(s)
  PROVE  Variants(s) = pool[s]
  <1> DEFINE left == {n \in DOMAIN pool[s] : pool[s][n] \in DOMAIN bank}
             at(k) == CHOOSE n \in left : Cardinality(left \cap (1..n)) = k
             l == Len(pool[s])
  <1>1. left = 1..l /\ l \in Nat BY DEF Complete
  <1>2. Cardinality(left) = l
    <2> HIDE DEF left, l
    <2>1. Cardinality(1..l) = IF 1 > l THEN 0 ELSE l - 1 + 1 BY <1>1, FS_Interval
    <2> QED BY <1>1, <2>1
  <1>3. Variants(s) = [k \in 1..Cardinality(left) |-> pool[s][at(k)]] BY DEF Variants
  <1>4. \A n \in 1..l : Cardinality(left \cap (1..n)) = n
    <2> HIDE DEF left, l
    <2> TAKE n \in 1..l
    <2>1. left \cap (1..n) = 1..n BY <1>1
    <2>2. n \in Nat /\ 1 <= n BY <1>1
    <2>3. Cardinality(1..n) = IF 1 > n THEN 0 ELSE n - 1 + 1 BY <2>2, FS_Interval
    <2>4. Cardinality(1..n) = n BY <2>2, <2>3
    <2> QED BY <2>1, <2>4
  <1> HIDE DEF left
  <1>5. \A k \in 1..l : at(k) = k BY <1>1, <1>4
  <1> HIDE DEF at, l
  <1>6. Variants(s) = [k \in 1..l |-> pool[s][k]] BY <1>2, <1>3, <1>5
  <1>7. pool[s] = [k \in 1..l |-> pool[s][k]] BY DEF l
  <1> QED BY <1>6, <1>7

-----------------------------------------------------------------------------
(***************************************************************************)
(* Types.  That a draw is a variant needs the rows to be finitely many.    *)
(***************************************************************************)
Typed == TypeOK /\ IsFiniteSet(invites) /\ IsFiniteSet(records)

LEMMA CaseTypes ==
  ASSUME case \in Cases
  PROVE  /\ case.lists \subseteq Lists /\ case.variants \subseteq Lists
         /\ case.batches \subseteq Batches
         /\ case.invites \in 0..MaxInvites /\ case.edits \in 0..MaxEdits
         /\ case.requests \in 0..MaxRequests
  BY LibraryAssumption

LEMMA ListTypes ==
  ASSUME NEW l \in Lists
  PROVE  /\ l \in Seq(Offers)
         /\ \A m, n \in DOMAIN l : l[m] = l[n] => m = n
         /\ (\A n \in DOMAIN l : l[n] \in Questions) => l \in Seq(Questions)
  <1>1. /\ l \in Seq(Questions \cup Sets)
        /\ \A m, n \in DOMAIN l : l[m] = l[n] => m = n
    BY LibraryAssumption
  <1>2. ASSUME \A n \in DOMAIN l : l[n] \in Questions PROVE l \in Seq(Questions)
    BY <1>1, <1>2
  <1> QED BY <1>1, <1>2 DEF Offers

LEMMA RowTypes ==
  ASSUME NEW a \in Assessments, NEW w \in Nat, NEW l \in Lists
  PROVE  RowsOf(a, w, l) \subseteq Slot
  <1>1. \A n \in DOMAIN l : n \in Nat /\ l[n] \in Offers BY ListTypes
  <1> QED BY <1>1 DEF RowsOf, Slot

LEMMA NoSlotIsNone == NoSlot \notin Slot
  <1>1. DOMAIN NoSlot = {"of"} BY DEF NoSlot
  <1>2. \A r \in Slot : "pos" \in DOMAIN r BY DEF Slot
  <1> QED BY <1>1, <1>2

\* What a thread keeps.
LEMMA ThreadTypes ==
  ASSUME Typed, NEW t \in Threads
  PROVE  /\ th[t] \in Thread
         /\ At(t, "update") => /\ th[t].of \in Assessments /\ th[t].old \subseteq Slot
                               /\ th[t].new \in Lists /\ th[t].terms \in Terms
         /\ At(t, "delete") => /\ th[t].q \in Questions /\ th[t].invites \subseteq Invite
                               /\ th[t].drafts \subseteq Record
         /\ At(t, "drop") => th[t].of \in Assessments /\ th[t].old \subseteq Slot
         /\ At(t, "batch") =>
              /\ th[t].set \in Sets
              /\ th[t].chosen \in Seq([q : Questions, terms : Terms, pinned : BOOLEAN])
  <1>1. th[t] \in Thread BY DEF Typed, TypeOK
  <1>2. CASE th[t] = Idle BY <1>1, <1>2 DEF Idle, At
  <1>3. CASE th[t] \in [pc : {"update"}, of : Assessments, old : SUBSET Slot, new : Lists, terms : Terms]
    BY <1>1, <1>3 DEF At
  <1>4. CASE th[t] \in [pc : {"delete"}, q : Questions, invites : SUBSET Invite, drafts : SUBSET Record]
    BY <1>1, <1>4 DEF At
  <1>5. CASE th[t] \in [pc : {"drop"}, of : Assessments, old : SUBSET Slot]
    BY <1>1, <1>5 DEF At
  <1>6. CASE th[t] \in [pc : {"batch"}, set : Sets,
                        chosen : Seq([q : Questions, terms : Terms, pinned : BOOLEAN])]
    BY <1>1, <1>6 DEF At
  <1> QED BY <1>1, <1>2, <1>3, <1>4, <1>5, <1>6 DEF Thread

\* A thread that returns, and one that sets out.
LEMMA GotoTypes ==
  ASSUME Typed, NEW t \in Threads, NEW l \in Thread, Goto(t, l)
  PROVE  /\ th' \in [Threads -> Thread]
         /\ th'[t] = l
         /\ \A u \in Threads \ {t} : th'[u] = th[u]
  BY DEF Typed, TypeOK, Goto

LEMMA IdleTypes == Idle \in Thread
  BY DEF Thread

LEMMA InitTyped ==
  ASSUME Init
  PROVE  Typed
  <1>1. \A f : f = <<>> => DOMAIN f = {} OBVIOUS
  <1>2. DOMAIN bank = {} /\ DOMAIN pool = {} /\ DOMAIN plan = {} BY <1>1 DEF Init
  <1>3. th \in [Threads -> Thread] BY IdleTypes DEF Init
  <1>4. made \in 0..MaxInvites /\ edits \in 0..MaxEdits /\ requests \in 0..MaxRequests
    BY LibraryAssumption DEF Init
  <1>5. IsFiniteSet(invites) /\ IsFiniteSet(records) BY FS_EmptySet DEF Init
  <1> QED BY <1>2, <1>3, <1>4, <1>5 DEF Init, Typed, TypeOK

-----------------------------------------------------------------------------
(* What a step writes has the types of the rows. *)

LEMMA AuthoringTypes ==
  ASSUME Typed, Authoring
  PROVE  Typed'
  <1>1. ASSUME NEW q \in Questions, NEW m \in NewTerms, CreateQuestion(q, m) PROVE Typed'
    <2>1. m \in Terms BY LibraryAssumption
    <2>2. DOMAIN bank' \subseteq Questions /\ \A x \in DOMAIN bank' : bank'[x] \in Terms
      BY <1>1, <2>1 DEF Put, Typed, TypeOK, CreateQuestion
    <2>3. UNCHANGED <<case, pool, plan, slots, invites, records, archived, th, made, edits, requests, crossed, skewed>>
      BY <1>1 DEF CreateQuestion, history
    <2> QED BY <2>2, <2>3 DEF Typed, TypeOK
  <1>2. ASSUME NEW s \in Sets, NEW m \in NewTerms, NEW l \in case.variants, CreateVariantSet(s, l, m)
        PROVE  Typed'
    <2>1. m \in Terms BY LibraryAssumption
    <2>2. l \in Lists BY CaseTypes DEF Typed, TypeOK
    <2>3. l \in Seq(Questions) /\ \A n \in DOMAIN l : l[n] \in Questions
      BY <1>2, <2>2, ListTypes DEF CreateVariantSet
    <2>4. DOMAIN pool' \subseteq Sets /\ \A x \in DOMAIN pool' : pool'[x] \in Seq(Questions)
      BY <1>2, <2>3 DEF Put, Typed, TypeOK, CreateVariantSet
    <2>5. DOMAIN bank' \subseteq Questions /\ \A x \in DOMAIN bank' : bank'[x] \in Terms
      BY <1>2, <2>1, <2>3 DEF Typed, TypeOK, CreateVariantSet
    <2>6. UNCHANGED <<case, plan, slots, invites, records, archived, th, made, edits, requests, crossed, skewed>>
      BY <1>2 DEF CreateVariantSet, history
    <2> QED BY <2>4, <2>5, <2>6 DEF Typed, TypeOK
  <1>3. ASSUME NEW a \in Assessments, NEW l \in case.lists, NEW m \in NewTerms, CreateAssessment(a, l, m)
        PROVE  Typed'
    <2>1. m \in Terms BY LibraryAssumption
    <2>2. l \in Lists BY CaseTypes DEF Typed, TypeOK
    <2>3. DOMAIN plan' \subseteq Assessments /\ \A x \in DOMAIN plan' : plan'[x] \in Terms
      BY <1>3, <2>1 DEF Put, Typed, TypeOK, CreateAssessment
    <2>4. slots' \subseteq Slot BY <1>3, <2>2, RowTypes DEF Typed, TypeOK, CreateAssessment
    <2>5. UNCHANGED <<case, bank, pool, invites, records, archived, th, made, edits, requests, crossed, skewed>>
      BY <1>3 DEF CreateAssessment, history
    <2> QED BY <2>3, <2>4, <2>5 DEF Typed, TypeOK
  <1>4. edits \in Nat /\ case.edits \in 0..MaxEdits /\ MaxEdits \in Nat
    BY CaseTypes, LibraryAssumption DEF Typed, TypeOK
  <1>5. ASSUME NEW x \in Questions \cup Assessments, NEW m \in Terms, UpdateTerms(x, m) PROVE Typed'
    <2>1. /\ edits' \in 0..MaxEdits
          /\ UNCHANGED <<case, pool, slots, invites, records, archived, th, made, requests, crossed, skewed>>
      BY <1>4, <1>5 DEF UpdateTerms, Edits, history
    <2>2. CASE x \in DOMAIN bank /\ bank' = Put(bank, x, m) /\ UNCHANGED plan
      <3>1. DOMAIN bank' \subseteq Questions /\ \A y \in DOMAIN bank' : bank'[y] \in Terms
        BY <2>2 DEF Put, Typed, TypeOK
      <3> QED BY <2>1, <2>2, <3>1 DEF Typed, TypeOK
    <2>3. CASE x \in DOMAIN plan /\ plan' = Put(plan, x, m) /\ UNCHANGED bank
      <3>1. DOMAIN plan' \subseteq Assessments /\ \A y \in DOMAIN plan' : plan'[y] \in Terms
        BY <2>3 DEF Put, Typed, TypeOK
      <3> QED BY <2>1, <2>3, <3>1 DEF Typed, TypeOK
    <2> QED BY <1>5, <2>2, <2>3 DEF UpdateTerms
  <1>6. ASSUME NEW x \in Questions \cup Assessments, Toggle(x) PROVE Typed'
    <2>1. edits' \in 0..MaxEdits BY <1>4, <1>6 DEF Toggle, Edits
    <2>2. archived' \subseteq Questions \cup Assessments BY <1>6 DEF Toggle, Typed, TypeOK
    <2> QED BY <1>6, <2>1, <2>2 DEF Typed, TypeOK, Toggle, content, history
  <1> QED BY <1>1, <1>2, <1>3, <1>5, <1>6 DEF Authoring, ArchiveQuestion, ArchiveAssessment

\* The edits a step counts.
LEMMA EditTypes ==
  ASSUME Typed, Edits
  PROVE  edits' \in 0..MaxEdits
  <1>1. edits \in Nat /\ case.edits \in 0..MaxEdits /\ MaxEdits \in Nat
    BY CaseTypes, LibraryAssumption DEF Typed, TypeOK
  <1> QED BY <1>1 DEF Edits

\* A batch chooses among what is left of the set.
LEMMA ChosenTypes ==
  ASSUME Typed, NEW t \in Threads, NEW s \in Sets, NEW pins \in case.batches, InviteBatch(t, s, pins)
  PROVE  /\ Chosen(s, pins) \in Seq([q : Questions, terms : Terms, pinned : BOOLEAN])
         /\ DOMAIN Chosen(s, pins) = DOMAIN pins
         /\ \A n \in DOMAIN pins : Made(s, Chosen(s, pins)[n].q)
  <1> DEFINE vs == Variants(s)
             before(n) == Cardinality({m \in 1..(n - 1) : pins[m] = NoQuestion})
             turn(n) == vs[((Cursor(s) + before(n)) % Len(vs)) + 1]
             of(n) == IF pins[n] = NoQuestion THEN turn(n) ELSE pins[n]
  <1>1. pins \in Seq(Questions \cup {NoQuestion})
    BY CaseTypes, LibraryAssumption DEF Typed, TypeOK
  <1>2. s \in DOMAIN pool /\ vs # <<>>
        /\ \A n \in DOMAIN pins : pins[n] # NoQuestion => \E m \in DOMAIN vs : vs[m] = pins[n]
    BY DEF InviteBatch
  <1>3. /\ vs \in Seq(Questions)
        /\ \A k \in DOMAIN vs : vs[k] \in DOMAIN bank /\ Made(s, vs[k])
    BY <1>2, VariantsLeft DEF Typed, TypeOK
  <1>4. Cursor(s) \in Nat
    <2>1. InvitesOf(s) \in SUBSET invites BY DEF InvitesOf
    <2> QED BY <2>1, FS_Subset, FS_CardinalityType DEF Typed, Cursor
  <1>5. \A n \in DOMAIN pins : before(n) \in Nat
    <2> TAKE n \in DOMAIN pins
    <2>1. n - 1 \in Int BY <1>1
    <2>2. IsFiniteSet(1..(n - 1)) BY <2>1, FS_Interval
    <2>3. {m \in 1..(n - 1) : pins[m] = NoQuestion} \in SUBSET (1..(n - 1)) OBVIOUS
    <2> QED BY <2>2, <2>3, FS_Subset, FS_CardinalityType
  <1> HIDE DEF vs, before
  <1>6. \A n \in DOMAIN pins : \E k \in DOMAIN vs : of(n) = vs[k]
    <2> TAKE n \in DOMAIN pins
    <2>1. CASE pins[n] # NoQuestion BY <1>2, <2>1
    <2>2. CASE pins[n] = NoQuestion
      <3>1. Len(vs) \in Nat /\ Len(vs) > 0 BY <1>2, <1>3
      <3>2. Cursor(s) + before(n) \in Nat BY <1>4, <1>5
      <3>3. (Cursor(s) + before(n)) % Len(vs) \in 0..(Len(vs) - 1) BY <3>1, <3>2, ModRange
      <3>4. ((Cursor(s) + before(n)) % Len(vs)) + 1 \in DOMAIN vs BY <1>3, <3>1, <3>3
      <3> QED BY <2>2, <3>4
    <2> QED BY <2>1, <2>2
  <1> HIDE DEF of
  <1>7. \A n \in DOMAIN pins : of(n) \in Questions /\ of(n) \in DOMAIN bank /\ Made(s, of(n))
    BY <1>3, <1>6
  <1>8. Chosen(s, pins) = [n \in DOMAIN pins |->
          [q |-> of(n), terms |-> bank[of(n)], pinned |-> pins[n] # NoQuestion]]
    BY DEF Chosen, of, vs, before
  <1>9. \A n \in DOMAIN pins : bank[of(n)] \in Terms BY <1>7 DEF Typed, TypeOK
  <1>10. DOMAIN pins = 1..Len(pins) /\ Len(pins) \in Nat BY <1>1
  <1> QED BY <1>7, <1>8, <1>9, <1>10

LEMMA BeginTypes ==
  ASSUME Typed, NEW t \in Threads,
         \/ \E a \in Assessments : \/ \E l \in case.lists, m \in Terms : UpdateSlots(t, a, l, m)
                                   \/ DeleteAssessment(t, a)
         \/ \E q \in Questions : DeleteQuestion(t, q)
         \/ \E s \in Sets, pins \in case.batches : InviteBatch(t, s, pins)
  PROVE  Typed'
  <1>1. ASSUME NEW a \in Assessments, NEW l \in case.lists, NEW m \in Terms, UpdateSlots(t, a, l, m)
        PROVE  Typed'
    <2>1. l \in Lists BY CaseTypes DEF Typed, TypeOK
    <2>2. SlotsOf(a) \subseteq Slot BY DEF SlotsOf, Typed, TypeOK
    <2>3. [pc |-> "update", of |-> a, old |-> SlotsOf(a), new |-> l, terms |-> m] \in Thread
      BY <2>1, <2>2 DEF Thread
    <2>4. th' \in [Threads -> Thread] BY <1>1, <2>3, GotoTypes DEF UpdateSlots
    <2>5. edits' \in 0..MaxEdits BY <1>1, EditTypes DEF UpdateSlots
    <2> QED BY <1>1, <2>4, <2>5 DEF Typed, TypeOK, UpdateSlots, content, history
  <1>2. ASSUME NEW a \in Assessments, DeleteAssessment(t, a) PROVE Typed'
    <2>1. SlotsOf(a) \subseteq Slot BY DEF SlotsOf, Typed, TypeOK
    <2>2. [pc |-> "drop", of |-> a, old |-> SlotsOf(a)] \in Thread BY <2>1 DEF Thread
    <2>3. th' \in [Threads -> Thread] BY <1>2, <2>2, GotoTypes DEF DeleteAssessment
    <2>4. edits' \in 0..MaxEdits BY <1>2, EditTypes DEF DeleteAssessment
    <2> QED BY <1>2, <2>3, <2>4 DEF Typed, TypeOK, DeleteAssessment, content, history
  <1>3. ASSUME NEW q \in Questions, DeleteQuestion(t, q) PROVE Typed'
    <2>1. InvitesTo(q) \subseteq Invite BY DEF InvitesTo, Typed, TypeOK
    <2>2. DraftsOf(q) \subseteq Record BY DEF DraftsOf, Typed, TypeOK
    <2>3. [pc |-> "delete", q |-> q, invites |-> InvitesTo(q), drafts |-> DraftsOf(q)] \in Thread
      BY <2>1, <2>2 DEF Thread
    <2>4. th' \in [Threads -> Thread] BY <1>3, <2>3, GotoTypes DEF DeleteQuestion
    <2>5. edits' \in 0..MaxEdits BY <1>3, EditTypes DEF DeleteQuestion
    <2> QED BY <1>3, <2>4, <2>5 DEF Typed, TypeOK, DeleteQuestion, content, history
  <1>4. ASSUME NEW s \in Sets, NEW pins \in case.batches, InviteBatch(t, s, pins) PROVE Typed'
    <2>1. Chosen(s, pins) \in Seq([q : Questions, terms : Terms, pinned : BOOLEAN])
      BY <1>4, ChosenTypes
    <2>2. [pc |-> "batch", set |-> s, chosen |-> Chosen(s, pins)] \in Thread BY <2>1 DEF Thread
    <2>3. th' \in [Threads -> Thread] BY <1>4, <2>2, GotoTypes DEF InviteBatch
    <2>4. skewed' \subseteq Sets BY <1>4 DEF InviteBatch, Typed, TypeOK
    <2> QED BY <1>4, <2>3, <2>4 DEF Typed, TypeOK, InviteBatch, content, history
  <1> QED BY <1>1, <1>2, <1>3, <1>4

-----------------------------------------------------------------------------
\* The invitations a batch creates, as rows, by number.
Entry(l, n) == [id |-> made + n, to |-> l.chosen[n].q, terms |-> l.chosen[n].terms,
                set |-> l.set, pinned |-> l.chosen[n].pinned]
Entries(l) == {Entry(l, n) : n \in DOMAIN l.chosen}

LEMMA EntryTypes ==
  ASSUME Typed, NEW t \in Threads, CommitBatch(t)
  PROVE  /\ Entries(th[t]) \subseteq Invite /\ IsFiniteSet(Entries(th[t]))
         /\ made + Len(th[t].chosen) \in 0..MaxInvites
         /\ DOMAIN th[t].chosen = 1..Len(th[t].chosen) /\ Len(th[t].chosen) \in Nat
  <1> DEFINE c == th[t].chosen
  <1>1. At(t, "batch") /\ made + Len(c) <= case.invites BY DEF CommitBatch
  <1>2. th[t].set \in Sets /\ c \in Seq([q : Questions, terms : Terms, pinned : BOOLEAN])
    BY <1>1, ThreadTypes
  <1> HIDE DEF c
  <1>3. DOMAIN c = 1..Len(c) /\ Len(c) \in Nat BY <1>2
  <1>4. case.invites \in Nat /\ case.invites <= MaxInvites /\ MaxInvites \in Nat /\ made \in Nat
    BY CaseTypes, LibraryAssumption DEF Typed, TypeOK
  <1>5. made + Len(c) \in 0..MaxInvites BY <1>1, <1>3, <1>4
  <1>6. \A n \in DOMAIN c : c[n] \in [q : Questions, terms : Terms, pinned : BOOLEAN]
    <2> DEFINE E == [q : Questions, terms : Terms, pinned : BOOLEAN]
    <2>1. c \in Seq(E) BY <1>2
    <2> HIDE DEF E
    <2>2. \A n \in DOMAIN c : c[n] \in E BY <2>1
    <2> QED BY <2>2 DEF E
  <1>7. \A n \in DOMAIN c : made + n \in 1..MaxInvites BY <1>3, <1>4, <1>5
  <1>8. \A n \in DOMAIN c : Entry(th[t], n) \in Invite
    <2> TAKE n \in DOMAIN c
    <2>1. made + n \in 1..MaxInvites BY <1>7
    <2>2. /\ c[n].q \in Questions \cup Assessments /\ c[n].terms \in Terms
          /\ c[n].pinned \in BOOLEAN /\ th[t].set \in Sets \cup {NoSet}
      BY <1>2, <1>6
    <2>3. Entry(th[t], n) = [id |-> made + n, to |-> c[n].q, terms |-> c[n].terms,
                             set |-> th[t].set, pinned |-> c[n].pinned]
      BY DEF Entry, c
    <2> QED BY <2>1, <2>2, <2>3 DEF Invite
  <1>9. IsFiniteSet(Entries(th[t]))
    <2> DEFINE f == [n \in DOMAIN c |-> Entry(th[t], n)]
    <2>1. f \in Surjection(DOMAIN c, Entries(th[t])) BY DEF Surjection, Entries, c
    <2>2. IsFiniteSet(DOMAIN c) BY <1>3, FS_Interval
    <2> HIDE DEF f
    <2> QED BY <2>1, <2>2, FS_Surjection
  <1>10. Entries(th[t]) \subseteq Invite BY <1>8 DEF Entries, c
  <1> QED BY <1>3, <1>5, <1>9, <1>10 DEF c

\* A link that has lost its assessment is a row like the others.
LEMMA UnlinkedTypes ==
  ASSUME Typed, NEW a
  PROVE  Unlinked(a) \subseteq Invite /\ IsFiniteSet(Unlinked(a))
  <1> DEFINE lost(i) == [i EXCEPT !.to = NoQuestion]
             there == InvitesTo(a)
             f == [i \in there |-> lost(i)]
             img == {lost(i) : i \in there}
  <1>1. there \subseteq Invite /\ IsFiniteSet(there)
    <2>1. there \in SUBSET invites BY DEF InvitesTo
    <2> QED BY <2>1, FS_Subset DEF Typed, TypeOK
  <1> HIDE DEF there
  <1>2. \A i \in there : lost(i) \in Invite BY <1>1 DEF Invite
  <1>3. f \in Surjection(there, img) BY DEF Surjection
  <1>4. IsFiniteSet(img)
    <2> HIDE DEF f
    <2> QED BY <1>1, <1>3, FS_Surjection
  <1>5. IsFiniteSet({i \in invites : i.to # a})
    <2>1. {i \in invites : i.to # a} \in SUBSET invites OBVIOUS
    <2> QED BY <2>1, FS_Subset DEF Typed
  <1>6. Unlinked(a) = {i \in invites : i.to # a} \cup img BY DEF Unlinked, there
  <1>7. img \subseteq Invite BY <1>2
  <1> HIDE DEF img
  <1> QED BY <1>4, <1>5, <1>6, <1>7, FS_Union DEF Typed, TypeOK

LEMMA CommitTypes ==
  ASSUME Typed, NEW t \in Threads,
         CommitUpdate(t) \/ CommitDelete(t) \/ CommitDrop(t) \/ CommitBatch(t)
  PROVE  Typed'
  <1>1. CASE CommitUpdate(t)
    <2> DEFINE l == th[t]
               rows == Replaced(l, edits)
    <2>1. /\ l.of \in Assessments /\ l.old \subseteq Slot /\ l.new \in Lists /\ l.terms \in Terms
      BY <1>1, ThreadTypes DEF CommitUpdate
    <2>2. edits \in Nat /\ slots \subseteq Slot BY LibraryAssumption DEF Typed, TypeOK
    <2>3. rows \subseteq Slot BY <2>1, <2>2, RowTypes DEF Replaced
    <2>4. slots' \in {slots, rows} /\ plan' \in {plan, Put(plan, l.of, l.terms)}
          /\ crossed' \in {crossed, crossed \cup {l.of}}
      BY <1>1 DEF CommitUpdate
    <2>5. th' \in [Threads -> Thread] BY <1>1, IdleTypes, GotoTypes DEF CommitUpdate
    <2>6. UNCHANGED <<case, bank, pool, invites, records, archived, made, edits, requests, skewed>>
      BY <1>1 DEF CommitUpdate
    <2> HIDE DEF l, rows
    <2>7. DOMAIN plan' \subseteq Assessments /\ \A y \in DOMAIN plan' : plan'[y] \in Terms
      BY <2>1, <2>4 DEF Put, Typed, TypeOK
    <2>8. slots' \subseteq Slot /\ crossed' \subseteq Assessments
      BY <2>1, <2>3, <2>4 DEF Typed, TypeOK
    <2> QED BY <2>5, <2>6, <2>7, <2>8 DEF Typed, TypeOK
  <1>2. CASE CommitDelete(t)
    <2>1. /\ bank' \in {bank, Without(bank, th[t].q)}
          /\ invites' \subseteq invites /\ records' \subseteq records
      BY <1>2 DEF CommitDelete, Left
    <2>2. DOMAIN bank' \subseteq Questions /\ \A y \in DOMAIN bank' : bank'[y] \in Terms
      BY <2>1 DEF Without, Typed, TypeOK
    <2>3. skewed' \subseteq Sets BY <1>2 DEF CommitDelete, Typed, TypeOK
    <2>4. IsFiniteSet(invites') /\ IsFiniteSet(records') BY <2>1, FS_Subset DEF Typed
    <2>5. th' \in [Threads -> Thread] BY <1>2, IdleTypes, GotoTypes DEF CommitDelete
    <2>6. UNCHANGED <<case, pool, plan, slots, archived, made, edits, requests, crossed>>
      BY <1>2 DEF CommitDelete
    <2> QED BY <2>1, <2>2, <2>3, <2>4, <2>5, <2>6 DEF Typed, TypeOK
  <1>3. CASE CommitDrop(t)
    <2>1. /\ plan' \in {plan, Without(plan, th[t].of)} /\ slots' \subseteq slots
          /\ invites' \in {invites, Unlinked(th[t].of)}
      BY <1>3 DEF CommitDrop
    <2>2. DOMAIN plan' \subseteq Assessments /\ \A y \in DOMAIN plan' : plan'[y] \in Terms
      BY <2>1 DEF Without, Typed, TypeOK
    <2>3. th' \in [Threads -> Thread] BY <1>3, IdleTypes, GotoTypes DEF CommitDrop
    <2>4. UNCHANGED <<case, bank, pool, records, archived, made, edits, requests, crossed, skewed>>
      BY <1>3 DEF CommitDrop, history
    <2>5. invites' \subseteq Invite /\ IsFiniteSet(invites') BY <2>1, UnlinkedTypes DEF Typed, TypeOK
    <2> QED BY <2>1, <2>2, <2>3, <2>4, <2>5 DEF Typed, TypeOK
  <1>4. CASE CommitBatch(t)
    <2>1. /\ invites' \in {invites, invites \cup Entries(th[t])}
          /\ made' \in {made, made + Len(th[t].chosen)}
      BY <1>4 DEF CommitBatch, Entries, Entry
    <2>2. Entries(th[t]) \subseteq Invite /\ IsFiniteSet(Entries(th[t]))
          /\ made + Len(th[t].chosen) \in 0..MaxInvites
      BY <1>4, EntryTypes
    <2>3. IsFiniteSet(invites')
      <3>1. IsFiniteSet(invites \cup Entries(th[t])) BY <2>2, FS_Union DEF Typed
      <3>2. IsFiniteSet(invites) BY DEF Typed
      <3> QED BY <2>1, <3>1, <3>2
    <2>4. invites' \subseteq Invite /\ made' \in 0..MaxInvites BY <2>1, <2>2 DEF Typed, TypeOK
    <2>5. th' \in [Threads -> Thread] BY <1>4, IdleTypes, GotoTypes DEF CommitBatch
    <2>6. UNCHANGED <<case, bank, pool, plan, slots, records, archived, edits, requests, crossed, skewed>>
      BY <1>4 DEF CommitBatch, content, history
    <2> QED BY <2>3, <2>4, <2>5, <2>6 DEF Typed, TypeOK
  <1> QED BY <1>1, <1>2, <1>3, <1>4

LEMMA InviteToTypes ==
  ASSUME Typed, NEW x \in Questions \cup Assessments, InviteTo(x)
  PROVE  Typed'
  <1> DEFINE m == IF x \in DOMAIN bank THEN bank[x] ELSE plan[x]
             i == [id |-> made + 1, to |-> x, set |-> NoSet, pinned |-> FALSE, terms |-> m]
  <1>1. made < case.invites /\ (x \in DOMAIN bank \/ x \in DOMAIN plan) BY DEF InviteTo
  <1>2. case.invites \in Nat /\ case.invites <= MaxInvites /\ MaxInvites \in Nat /\ made \in Nat
    BY CaseTypes, LibraryAssumption DEF Typed, TypeOK
  <1>3. m \in Terms BY <1>1 DEF Typed, TypeOK
  <1>4. made + 1 \in 1..MaxInvites BY <1>1, <1>2
  <1> HIDE DEF m
  <1>5. i \in Invite BY <1>3, <1>4 DEF Invite
  <1>6. invites' = invites \cup {i} /\ made' = made + 1 BY DEF InviteTo, m
  <1> HIDE DEF i
  <1>7. invites' \subseteq Invite BY <1>5, <1>6 DEF Typed, TypeOK
  <1>8. IsFiniteSet(invites') BY <1>6, FS_AddElement DEF Typed
  <1>9. crossed' \subseteq Assessments
    <2>1. InHand(x) => x \in Assessments BY ThreadTypes DEF InHand
    <2> QED BY <2>1 DEF InviteTo, Typed, TypeOK
  <1>10. made' \in 0..MaxInvites BY <1>2, <1>4, <1>6
  <1>11. UNCHANGED <<case, bank, pool, plan, slots, records, archived, th, edits, requests, skewed>>
    BY DEF InviteTo, content
  <1> QED BY <1>7, <1>8, <1>9, <1>10, <1>11 DEF Typed, TypeOK

LEMMA RequestTypes ==
  ASSUME Typed, NEW new, new \subseteq Record, IsFiniteSet(new), Request(new)
  PROVE  Typed'
  <1>1. records' \subseteq Record BY DEF Request, Typed, TypeOK
  <1>2. IsFiniteSet(records') BY FS_Union DEF Request, Typed
  <1>3. case.requests \in Nat /\ case.requests <= MaxRequests /\ MaxRequests \in Nat /\ requests \in Nat
    BY CaseTypes, LibraryAssumption DEF Typed, TypeOK
  <1>4. requests' \in 0..MaxRequests BY <1>3 DEF Request
  <1>5. UNCHANGED <<case, bank, pool, plan, slots, invites, archived, th, made, edits, crossed, skewed>>
    BY DEF Request, content, history
  <1> QED BY <1>1, <1>2, <1>4, <1>5 DEF Typed, TypeOK

LEMMA RecordTypes ==
  ASSUME Typed, NEW i \in invites,
         NEW k \in {"attempt", "variant", "event", "draft", "submission"},
         NEW q \in Questions \cup {NoQuestion}
  PROVE  RecordOf(k, i.id, q) \in Record
  <1>1. i.id \in 1..MaxInvites BY DEF Typed, TypeOK, Invite
  <1> QED BY <1>1 DEF RecordOf, Record

\* No foreign key dangles.
Rows == Intact(DOMAIN bank, DOMAIN plan, slots, invites, records)

\* What a candidate draws is left in the set and was made for it.
LEMMA DrawTypes ==
  ASSUME Typed, Rows, NEW i \in invites, NEW r, Resolve(i, r)
  PROVE  /\ r \in slots /\ r \in Slot /\ r.of = i.to
         /\ Draw(r) \in DOMAIN bank /\ Draw(r) \in Questions
  <1> DEFINE vs == Variants(r.what)
             drawn == {v \in records : v.kind = "variant" /\ v.slot = r}
  <1>1. /\ r \in slots /\ r.of = i.to /\ r.what \in Sets /\ vs # <<>>
    BY DEF Resolve, Open, SlotsOf
  <1>2. r \in Slot BY <1>1 DEF Typed, TypeOK
  <1>3. r.what \in DOMAIN pool
    <2>1. r.what \in DOMAIN bank \cup DOMAIN pool BY <1>1 DEF Rows, Intact
    <2>2. DOMAIN bank \subseteq Questions BY DEF Typed, TypeOK
    <2> QED BY <1>1, <2>1, <2>2, LibraryAssumption
  <1>4. pool[r.what] \in Seq(Questions) BY <1>3 DEF Typed, TypeOK
  <1>5. vs \in Seq(Questions) /\ \A k \in DOMAIN vs : vs[k] \in DOMAIN bank
    BY <1>3, <1>4, VariantsLeft
  <1>6. Cardinality(drawn) \in Nat
    <2>1. drawn \in SUBSET records OBVIOUS
    <2> QED BY <2>1, FS_Subset, FS_CardinalityType DEF Typed
  <1>7. Draw(r) = vs[(Cardinality(drawn) % Len(vs)) + 1] BY DEF Draw
  <1> HIDE DEF vs, drawn
  <1>8. Len(vs) \in Nat /\ Len(vs) > 0 BY <1>1, <1>5
  <1>9. Cardinality(drawn) % Len(vs) \in 0..(Len(vs) - 1) BY <1>6, <1>8, ModRange
  <1>10. (Cardinality(drawn) % Len(vs)) + 1 \in DOMAIN vs BY <1>5, <1>8, <1>9
  <1> QED BY <1>1, <1>2, <1>5, <1>7, <1>10

\* The rows a candidate's request writes.
Drawn(i, r) == [kind |-> "variant", inv |-> i.id, q |-> Draw(r), slot |-> r]

LEMMA CandidateTypes ==
  ASSUME Typed, Rows, NEW i \in invites, Candidate(i)
  PROVE  Typed'
  <1>1. NoQuestion \in Questions \cup {NoQuestion} OBVIOUS
  <1>2. Attempt(i) \in Record BY <1>1, RecordTypes DEF Attempt
  <1>3. CASE Start(i)
    <2>1. IsFiniteSet({Attempt(i)}) BY FS_Singleton
    <2> QED BY <1>2, <1>3, <2>1, RequestTypes DEF Start
  <1>4. ASSUME NEW r \in slots, Resolve(i, r) PROVE Typed'
    <2>1. Draw(r) \in Questions /\ r \in Slot BY <1>4, DrawTypes
    <2>2. i.id \in 1..MaxInvites BY DEF Typed, TypeOK, Invite
    <2>3. Drawn(i, r) \in Record BY <2>1, <2>2 DEF Record, Drawn
    <2>4. IsFiniteSet({Drawn(i, r)}) BY FS_Singleton
    <2>5. Request({Drawn(i, r)}) BY <1>4 DEF Resolve, Drawn
    <2> QED BY <2>3, <2>4, <2>5, RequestTypes
  <1>5. ASSUME NEW q \in Questions \cup {NoQuestion}, Event(i, q) PROVE Typed'
    <2>1. RecordOf("event", i.id, q) \in Record BY RecordTypes
    <2>2. IsFiniteSet({RecordOf("event", i.id, q)}) BY FS_Singleton
    <2> QED BY <1>5, <2>1, <2>2, RequestTypes DEF Event
  <1>6. ASSUME NEW q \in Questions, Draft(i, q) PROVE Typed'
    <2>1. RecordOf("draft", i.id, q) \in Record BY RecordTypes
    <2>2. IsFiniteSet({RecordOf("draft", i.id, q)}) BY FS_Singleton
    <2> QED BY <1>6, <2>1, <2>2, RequestTypes DEF Draft
  <1>7. ASSUME NEW q \in Questions, Submit(i, q) PROVE Typed'
    <2> DEFINE s == RecordOf("submission", i.id, q)
    <2>1. s \in Record BY RecordTypes
    <2>2. IsFiniteSet({Attempt(i), s})
      <3>1. {Attempt(i), s} = {Attempt(i)} \cup {s} OBVIOUS
      <3>2. IsFiniteSet({Attempt(i)}) BY FS_Singleton
      <3> QED BY <3>1, <3>2, FS_AddElement
    <2>3. Request({Attempt(i), s}) BY <1>7 DEF Submit
    <2> HIDE DEF s
    <2> QED BY <1>2, <2>1, <2>2, <2>3, RequestTypes
  <1> QED BY <1>3, <1>4, <1>5, <1>6, <1>7 DEF Candidate

LEMMA TypedNext ==
  ASSUME Typed, Rows, [Next]_vars
  PROVE  Typed'
  <1>1. CASE Authoring BY <1>1, AuthoringTypes
  <1>2. ASSUME NEW t \in Threads, Handler(t) PROVE Typed'
    BY <1>2, BeginTypes, CommitTypes DEF Handler
  <1>3. ASSUME NEW x \in Questions \cup Assessments, InviteTo(x) PROVE Typed' BY <1>3, InviteToTypes
  <1>4. ASSUME NEW i \in invites, Candidate(i) PROVE Typed' BY <1>4, CandidateTypes
  <1>5. CASE UNCHANGED vars BY <1>5 DEF Typed, TypeOK, vars, content, history
  <1> QED BY <1>1, <1>2, <1>3, <1>4, <1>5 DEF Next

-----------------------------------------------------------------------------
(***************************************************************************)
(* What each kind of step may change.                                      *)
(***************************************************************************)
\* Authoring adds rows: no question, set or assessment goes, and what hangs on
\* an assessment there is already stays as it was.
LEMMA AuthoringAdds ==
  ASSUME Typed, Authoring
  PROVE  /\ UNCHANGED <<invites, records, th, made, crossed, skewed>>
         /\ DOMAIN bank \subseteq DOMAIN bank' /\ DOMAIN plan \subseteq DOMAIN plan'
         /\ \A s \in DOMAIN pool : s \in DOMAIN pool' /\ pool'[s] = pool[s]
         /\ slots \subseteq slots'
         /\ \A r \in slots' \ slots :
              /\ r.of \in DOMAIN plan' /\ r.of \notin DOMAIN plan
              /\ r.what \in DOMAIN bank' \cup DOMAIN pool'
         /\ \A s \in DOMAIN pool' \ DOMAIN pool :
              /\ Len(pool'[s]) > 1
              /\ \A m, n \in DOMAIN pool'[s] : pool'[s][m] = pool'[s][n] => m = n
              /\ \A n \in DOMAIN pool'[s] : pool'[s][n] \in DOMAIN bank'
  <1> DEFINE Adds ==
        /\ UNCHANGED <<invites, records, th, made, crossed, skewed>>
        /\ DOMAIN bank \subseteq DOMAIN bank' /\ DOMAIN plan \subseteq DOMAIN plan'
        /\ \A s \in DOMAIN pool : s \in DOMAIN pool' /\ pool'[s] = pool[s]
        /\ slots \subseteq slots'
        /\ \A r \in slots' \ slots :
             /\ r.of \in DOMAIN plan' /\ r.of \notin DOMAIN plan
             /\ r.what \in DOMAIN bank' \cup DOMAIN pool'
        /\ \A s \in DOMAIN pool' \ DOMAIN pool :
             /\ Len(pool'[s]) > 1
             /\ \A m, n \in DOMAIN pool'[s] : pool'[s][m] = pool'[s][n] => m = n
             /\ \A n \in DOMAIN pool'[s] : pool'[s][n] \in DOMAIN bank'
  <1>1. ASSUME NEW q \in Questions, NEW m \in NewTerms, CreateQuestion(q, m) PROVE Adds
    BY <1>1 DEF CreateQuestion, Put, history
  <1>2. ASSUME NEW s \in Sets, NEW m \in NewTerms, NEW l \in case.variants, CreateVariantSet(s, l, m)
        PROVE  Adds
    <2>1. l \in Lists BY CaseTypes DEF Typed, TypeOK
    <2>2. \A j, n \in DOMAIN l : l[j] = l[n] => j = n BY <2>1, ListTypes
    <2>3. /\ UNCHANGED <<invites, records, th, made, crossed, skewed, plan, slots>>
          /\ s \notin DOMAIN pool /\ Len(l) > 1
          /\ DOMAIN pool' = DOMAIN pool \cup {s} /\ pool'[s] = l
          /\ \A x \in DOMAIN pool : pool'[x] = pool[x]
      BY <1>2 DEF CreateVariantSet, Put, history
    <2>4. DOMAIN bank' = DOMAIN bank \cup {l[n] : n \in DOMAIN l}
      BY <1>2 DEF CreateVariantSet
    <2> QED BY <2>2, <2>3, <2>4
  <1>3. ASSUME NEW a \in Assessments, NEW l \in case.lists, NEW m \in NewTerms, CreateAssessment(a, l, m)
        PROVE  Adds
    <2>1. /\ UNCHANGED <<invites, records, th, made, crossed, skewed, bank, pool>>
          /\ a \notin DOMAIN plan /\ Owned(l) /\ DOMAIN plan' = DOMAIN plan \cup {a}
          /\ slots' = slots \cup RowsOf(a, 0, l)
      BY <1>3 DEF CreateAssessment, Put, history
    <2>2. \A r \in RowsOf(a, 0, l) : r.of = a /\ r.what \in DOMAIN bank \cup DOMAIN pool
      BY <2>1 DEF RowsOf, Owned
    <2> QED BY <2>1, <2>2
  <1>4. ASSUME NEW x \in Questions \cup Assessments, NEW m \in Terms, UpdateTerms(x, m) PROVE Adds
    <2>1. /\ UNCHANGED <<invites, records, th, made, crossed, skewed, pool, slots>>
          /\ DOMAIN bank' = DOMAIN bank /\ DOMAIN plan' = DOMAIN plan
      BY <1>4 DEF UpdateTerms, Put, history
    <2> QED BY <2>1
  <1>5. ASSUME NEW x, Toggle(x) PROVE Adds
    <2>1. UNCHANGED <<invites, records, th, made, crossed, skewed, bank, plan, pool, slots>>
      BY <1>5 DEF Toggle, content, history
    <2> QED BY <2>1
  <1> HIDE DEF Adds
  <1>6. Adds
    BY <1>1, <1>2, <1>3, <1>4, <1>5 DEF Authoring, ArchiveQuestion, ArchiveAssessment
  <1> QED BY <1>6 DEF Adds

\* A request that sets out writes nothing yet.
Begins(t) ==
  \/ \E a \in Assessments : \/ \E l \in case.lists, m \in Terms : UpdateSlots(t, a, l, m)
                            \/ DeleteAssessment(t, a)
  \/ \E q \in Questions : DeleteQuestion(t, q)
  \/ \E s \in Sets, pins \in case.batches : InviteBatch(t, s, pins)
Commits(t) == CommitUpdate(t) \/ CommitDelete(t) \/ CommitDrop(t) \/ CommitBatch(t)

LEMMA BeginsReads ==
  ASSUME NEW t \in Threads, Begins(t)
  PROVE  /\ UNCHANGED <<bank, pool, plan, slots, invites, records, made, crossed>>
         /\ skewed \subseteq skewed'
  <1>1. ASSUME NEW a \in Assessments, NEW l \in case.lists, NEW m \in Terms, UpdateSlots(t, a, l, m)
        PROVE  UNCHANGED <<bank, pool, plan, slots, invites, records, made, crossed, skewed>>
    BY <1>1 DEF UpdateSlots, content, history
  <1>2. ASSUME NEW a \in Assessments, DeleteAssessment(t, a)
        PROVE  UNCHANGED <<bank, pool, plan, slots, invites, records, made, crossed, skewed>>
    BY <1>2 DEF DeleteAssessment, content, history
  <1>3. ASSUME NEW q \in Questions, DeleteQuestion(t, q)
        PROVE  UNCHANGED <<bank, pool, plan, slots, invites, records, made, crossed, skewed>>
    BY <1>3 DEF DeleteQuestion, content, history
  <1>4. ASSUME NEW s \in Sets, NEW pins \in case.batches, InviteBatch(t, s, pins)
        PROVE  /\ UNCHANGED <<bank, pool, plan, slots, invites, records, made, crossed>>
               /\ skewed \subseteq skewed'
    BY <1>4 DEF InviteBatch, content
  <1> QED BY <1>1, <1>2, <1>3, <1>4 DEF Begins

\* A commit that is refused changes nothing.
Refused(t) ==
  /\ UNCHANGED <<bank, pool, plan, slots, invites, records, made, crossed, skewed>>
  /\ Goto(t, Idle)

LEMMA UpdateWrites ==
  ASSUME Typed, NEW t \in Threads, CommitUpdate(t)
  PROVE  /\ At(t, "update")
         /\ \/ Refused(t)
            \/ /\ Intact(DOMAIN bank, DOMAIN plan, slots', invites, records)
               /\ slots' = Replaced(th[t], edits) /\ NoneTwice(slots')
               /\ th[t].of \in DOMAIN plan /\ DOMAIN plan' = DOMAIN plan
               /\ crossed \subseteq crossed'
               /\ UNCHANGED <<bank, pool, invites, records, made, skewed>>
               /\ Goto(t, Idle)
  <1>1. /\ At(t, "update") /\ Goto(t, Idle)
        /\ UNCHANGED <<bank, pool, invites, records, made, skewed>>
    BY DEF CommitUpdate
  <1>2. \/ UNCHANGED <<slots, plan, crossed>>
        \/ /\ Intact(DOMAIN bank, DOMAIN plan, slots', invites, records)
           /\ slots' = Replaced(th[t], edits) /\ NoneTwice(slots')
           /\ th[t].of \in DOMAIN plan /\ plan' = Put(plan, th[t].of, th[t].terms)
           /\ crossed \subseteq crossed'
    BY DEF CommitUpdate
  <1>3. th[t].of \in DOMAIN plan /\ plan' = Put(plan, th[t].of, th[t].terms) => DOMAIN plan' = DOMAIN plan
    BY DEF Put
  <1> QED BY <1>1, <1>2, <1>3 DEF Refused

LEMMA DeleteWrites ==
  ASSUME Typed, NEW t \in Threads, CommitDelete(t)
  PROVE  /\ At(t, "delete")
         /\ \/ Refused(t)
            \/ /\ Intact(DOMAIN bank', DOMAIN plan, slots, invites', records')
               /\ DOMAIN bank' = DOMAIN bank \ {th[t].q}
               /\ \A q \in DOMAIN bank' : bank'[q] = bank[q]
               /\ invites' = invites \ InvitesTo(th[t].q)
               /\ records' = records \ DraftsOf(th[t].q)
               /\ \A s : s \in skewed' <=> s \in skewed \/ (s \in DOMAIN pool /\ Made(s, th[t].q))
               /\ UNCHANGED <<pool, plan, slots, made, crossed>>
               /\ Goto(t, Idle)
  <1>1. /\ At(t, "delete") /\ Goto(t, Idle)
        /\ UNCHANGED <<pool, plan, slots, made, crossed>>
    BY DEF CommitDelete
  <1>2. \/ UNCHANGED <<bank, invites, records, skewed>>
        \/ /\ Intact(DOMAIN bank \ {th[t].q}, DOMAIN plan, slots, invites \ InvitesTo(th[t].q), Left(th[t].q))
           /\ bank' = Without(bank, th[t].q)
           /\ invites' = invites \ InvitesTo(th[t].q) /\ records' = Left(th[t].q)
           /\ skewed' = skewed \cup
                {s \in DOMAIN pool : \E n \in DOMAIN pool[s] : pool[s][n] = th[t].q}
    BY DEF CommitDelete
  <1>3. bank' = Without(bank, th[t].q) =>
          DOMAIN bank' = DOMAIN bank \ {th[t].q} /\ \A q \in DOMAIN bank' : bank'[q] = bank[q]
    BY DEF Without
  <1> QED BY <1>1, <1>2, <1>3 DEF Refused, Made, Left

LEMMA DropWrites ==
  ASSUME NEW t \in Threads, CommitDrop(t)
  PROVE  /\ At(t, "drop")
         /\ \/ Refused(t)
            \/ /\ Intact(DOMAIN bank, DOMAIN plan', slots', invites', records)
               /\ DOMAIN plan' = DOMAIN plan \ {th[t].of}
               /\ slots' = slots \ SlotsOf(th[t].of)
               /\ invites' = Unlinked(th[t].of)
               /\ UNCHANGED <<bank, pool, records, made, crossed, skewed>>
               /\ Goto(t, Idle)
  <1>1. /\ At(t, "drop") /\ Goto(t, Idle)
        /\ UNCHANGED <<bank, pool, records, made, crossed, skewed>>
    BY DEF CommitDrop, history
  <1>2. \/ UNCHANGED <<plan, slots, invites>>
        \/ /\ Intact(DOMAIN bank, DOMAIN plan \ {th[t].of}, slots \ SlotsOf(th[t].of),
                     Unlinked(th[t].of), records)
           /\ plan' = Without(plan, th[t].of) /\ slots' = slots \ SlotsOf(th[t].of)
           /\ invites' = Unlinked(th[t].of)
    BY DEF CommitDrop
  <1>3. plan' = Without(plan, th[t].of) => DOMAIN plan' = DOMAIN plan \ {th[t].of}
    BY DEF Without
  <1> QED BY <1>1, <1>2, <1>3 DEF Refused

LEMMA BatchWrites ==
  ASSUME NEW t \in Threads, CommitBatch(t)
  PROVE  /\ At(t, "batch")
         /\ \/ Refused(t)
            \/ /\ Intact(DOMAIN bank, DOMAIN plan, slots, invites', records)
               /\ invites' = invites \cup Entries(th[t])
               /\ made' = made + Len(th[t].chosen)
               /\ UNCHANGED <<bank, pool, plan, slots, records, crossed, skewed>>
               /\ Goto(t, Idle)
  <1>1. /\ At(t, "batch") /\ Goto(t, Idle)
        /\ UNCHANGED <<bank, pool, plan, slots, records, crossed, skewed>>
    BY DEF CommitBatch, content, history
  <1>2. \/ UNCHANGED <<invites, made>>
        \/ /\ Intact(DOMAIN bank, DOMAIN plan, slots, invites \cup Entries(th[t]), records)
           /\ invites' = invites \cup Entries(th[t])
           /\ made' = made + Len(th[t].chosen)
    BY DEF CommitBatch, Entries, Entry
  <1> QED BY <1>1, <1>2 DEF Refused

-----------------------------------------------------------------------------
LEMMA InviteToWrites ==
  ASSUME Typed, NEW x \in Questions \cup Assessments, InviteTo(x)
  PROVE  /\ x \in DOMAIN bank \cup DOMAIN plan
         /\ made' = made + 1
         /\ \E i \in Invite : /\ invites' = invites \cup {i}
                              /\ i.id = made + 1 /\ i.to = x /\ i.set = NoSet
         /\ crossed' = IF InHand(x) THEN crossed \cup {x} ELSE crossed
         /\ UNCHANGED <<bank, pool, plan, slots, records, th, skewed>>
  <1> DEFINE m == IF x \in DOMAIN bank THEN bank[x] ELSE plan[x]
             i == [id |-> made + 1, to |-> x, set |-> NoSet, pinned |-> FALSE, terms |-> m]
  <1>1. invites' = invites \cup {i} BY DEF InviteTo
  <1>2. i.id = made + 1 /\ i.to = x /\ i.set = NoSet OBVIOUS
  <1>3. i \in Invite
    <2>1. invites' \subseteq Invite BY InviteToTypes DEF Typed, TypeOK
    <2> HIDE DEF i
    <2> QED BY <1>1, <2>1
  <1>4. /\ x \in DOMAIN bank \cup DOMAIN plan
        /\ made' = made + 1
        /\ crossed' = IF InHand(x) THEN crossed \cup {x} ELSE crossed
        /\ UNCHANGED <<bank, pool, plan, slots, records, th, skewed>>
    BY DEF InviteTo, content
  <1> HIDE DEF i
  <1> QED BY <1>1, <1>2, <1>3, <1>4

\* A candidate's row as it is written.
Right(i, r) ==
  /\ r.inv = i.id
  /\ r.q \in DOMAIN bank \cup {NoQuestion}
  /\ r.kind = "attempt" => r.q = NoQuestion
  /\ r.kind = "variant" => r.slot \in slots /\ r.slot.of = i.to
  /\ r.kind # "variant" => r.slot = NoSlot
  /\ r.kind \in {"draft", "submission"} => r.q \in Served(i)

\* The questions of a sitting are on record.
LEMMA ServedIsBanked ==
  ASSUME Typed, Rows, NEW i \in invites, NEW q \in Questions, q \in Served(i)
  PROVE  q \in DOMAIN bank
  <1>1. NoQuestion \notin Questions /\ Questions \cap Assessments = {} /\ Questions \cap Sets = {}
    BY LibraryAssumption
  <1>2. DOMAIN plan \subseteq Assessments /\ DOMAIN pool \subseteq Sets BY DEF Typed, TypeOK
  <1>3. CASE i.to \in Questions
    <2>1. q = i.to BY <1>3 DEF Served
    <2>2. i.to \in DOMAIN bank \cup DOMAIN plan \cup {NoQuestion} BY DEF Rows, Intact
    <2> QED BY <1>1, <1>2, <1>3, <2>1, <2>2
  <1>4. CASE i.to \notin Questions
    <2>1. (\E r \in slots : r.what = q) \/ (\E r \in records : r.q = q)
      BY <1>4 DEF Served, SlotsOf, Assigned
    <2>2. ASSUME NEW r \in slots, r.what = q PROVE q \in DOMAIN bank
      <3>1. r.what \in DOMAIN bank \cup DOMAIN pool BY DEF Rows, Intact
      <3> QED BY <1>1, <1>2, <2>2, <3>1
    <2>3. ASSUME NEW r \in records, r.q = q PROVE q \in DOMAIN bank
      <3>1. r.q \in DOMAIN bank \cup {NoQuestion} BY DEF Rows, Intact
      <3> QED BY <1>1, <2>3, <3>1
    <2> QED BY <2>1, <2>2, <2>3
  <1> QED BY <1>3, <1>4

LEMMA CandidateWrites ==
  ASSUME Typed, Rows, NEW i \in invites, Candidate(i)
  PROVE  /\ \E new : records' = records \cup new /\ \A r \in new : Right(i, r)
         /\ UNCHANGED <<bank, pool, plan, slots, invites, th, made, crossed, skewed>>
  <1> DEFINE Writes ==
        /\ \E new : records' = records \cup new /\ \A r \in new : Right(i, r)
        /\ UNCHANGED <<bank, pool, plan, slots, invites, th, made, crossed, skewed>>
  <1>1. ASSUME NEW new, Request(new), \A r \in new : Right(i, r) PROVE Writes
    BY <1>1 DEF Request, content, history
  <1>2. Right(i, Attempt(i)) BY DEF Attempt, RecordOf, Right
  <1>3. ASSUME Start(i) PROVE Writes
    <2>1. Request({Attempt(i)}) BY <1>3 DEF Start
    <2> HIDE DEF Writes
    <2> QED BY <1>1, <1>2, <2>1
  <1>4. ASSUME NEW r \in slots, Resolve(i, r) PROVE Writes
    <2>1. Request({Drawn(i, r)}) BY <1>4 DEF Resolve, Drawn
    <2>2. r.of = i.to /\ Draw(r) \in DOMAIN bank BY <1>4, DrawTypes
    <2>3. \A u \in {Drawn(i, r)} : Right(i, u) BY <2>2 DEF Right, Drawn
    <2> HIDE DEF Writes
    <2> QED BY <1>1, <2>1, <2>3
  <1>5. ASSUME NEW q \in Questions \cup {NoQuestion}, Event(i, q) PROVE Writes
    <2>1. Request({RecordOf("event", i.id, q)}) /\ q \in DOMAIN bank \cup {NoQuestion}
      BY <1>5 DEF Event
    <2>2. Right(i, RecordOf("event", i.id, q)) BY <2>1 DEF RecordOf, Right
    <2> HIDE DEF Writes
    <2> QED BY <1>1, <2>1, <2>2
  <1>6. ASSUME NEW q \in Questions, Draft(i, q) PROVE Writes
    <2>1. Request({RecordOf("draft", i.id, q)}) /\ q \in Served(i) BY <1>6 DEF Draft
    <2>2. q \in DOMAIN bank BY <2>1, ServedIsBanked
    <2>3. Right(i, RecordOf("draft", i.id, q)) BY <2>1, <2>2 DEF RecordOf, Right
    <2> HIDE DEF Writes
    <2> QED BY <1>1, <2>1, <2>3
  <1>7. ASSUME NEW q \in Questions, Submit(i, q) PROVE Writes
    <2>1. Request({Attempt(i), RecordOf("submission", i.id, q)}) /\ q \in Served(i)
      BY <1>7 DEF Submit
    <2>2. q \in DOMAIN bank BY <2>1, ServedIsBanked
    <2>3. Right(i, RecordOf("submission", i.id, q)) BY <2>1, <2>2 DEF RecordOf, Right
    <2> HIDE DEF Writes
    <2> QED BY <1>1, <1>2, <2>1, <2>3
  <1> HIDE DEF Writes
  <1>8. Writes BY <1>3, <1>4, <1>5, <1>6, <1>7 DEF Candidate
  <1> QED BY <1>8 DEF Writes

\* The kinds of steps there are.
LEMMA Steps ==
  ASSUME [Next]_vars
  PROVE  \/ Authoring
         \/ \E t \in Threads : Begins(t) \/ Commits(t)
         \/ \E x \in Questions \cup Assessments : InviteTo(x)
         \/ \E i \in invites : Candidate(i)
         \/ UNCHANGED <<bank, pool, plan, slots, invites, records, th, made, crossed, skewed>>
  BY DEF Next, Handler, Begins, Commits, vars, content, history

-----------------------------------------------------------------------------
(* Referential integrity. *)

LEMMA RowsNext ==
  ASSUME Typed, Rows, [Next]_vars
  PROVE  Rows'
  <1>1. CASE Authoring
    <2>1. /\ UNCHANGED <<invites, records>>
          /\ DOMAIN bank \subseteq DOMAIN bank' /\ DOMAIN plan \subseteq DOMAIN plan'
          /\ DOMAIN pool \subseteq DOMAIN pool' /\ slots \subseteq slots'
          /\ \A r \in slots' \ slots :
               r.of \in DOMAIN plan' /\ r.what \in DOMAIN bank' \cup DOMAIN pool'
      BY <1>1, AuthoringAdds
    <2>2. \A r \in slots' : r.of \in DOMAIN plan' /\ r.what \in DOMAIN bank' \cup DOMAIN pool'
      BY <2>1 DEF Rows, Intact
    <2>3. \A i \in invites' : i.to \in DOMAIN bank' \cup DOMAIN plan' \cup {NoQuestion}
      BY <2>1 DEF Rows, Intact
    <2>4. \A r \in records' : /\ r.inv \in Numbers(invites')
                              /\ r.q \in DOMAIN bank' \cup {NoQuestion}
                              /\ r.slot \in slots' \cup {NoSlot}
      BY <2>1 DEF Rows, Intact
    <2> QED BY <2>2, <2>3, <2>4 DEF Rows, Intact
  <1>2. ASSUME NEW t \in Threads, Begins(t) PROVE Rows'
    BY <1>2, BeginsReads DEF Rows, Intact
  <1>3. ASSUME NEW t \in Threads, Commits(t) PROVE Rows'
    <2>1. Refused(t) => Rows' BY DEF Refused, Rows, Intact
    <2>2. CASE CommitUpdate(t) BY <2>1, <2>2, UpdateWrites DEF Rows, Intact
    <2>3. CASE CommitDelete(t) BY <2>1, <2>3, DeleteWrites DEF Rows, Intact
    <2>4. CASE CommitDrop(t) BY <2>1, <2>4, DropWrites DEF Rows, Intact
    <2>5. CASE CommitBatch(t) BY <2>1, <2>5, BatchWrites DEF Rows, Intact
    <2> QED BY <1>3, <2>2, <2>3, <2>4, <2>5 DEF Commits
  <1>4. ASSUME NEW x \in Questions \cup Assessments, InviteTo(x) PROVE Rows'
    <2>1. PICK i \in Invite : invites' = invites \cup {i} /\ i.to = x BY <1>4, InviteToWrites
    <2>2. x \in DOMAIN bank \cup DOMAIN plan /\ UNCHANGED <<bank, pool, plan, slots, records>>
      BY <1>4, InviteToWrites
    <2>3. Numbers(invites) \subseteq Numbers(invites') BY <2>1 DEF Numbers
    <2> QED BY <2>1, <2>2, <2>3 DEF Rows, Intact
  <1>5. ASSUME NEW i \in invites, Candidate(i) PROVE Rows'
    <2>1. PICK new : records' = records \cup new /\ \A r \in new : Right(i, r)
      BY <1>5, CandidateWrites
    <2>2. UNCHANGED <<bank, pool, plan, slots, invites>> BY <1>5, CandidateWrites
    <2>3. \A r \in new : /\ r.inv \in Numbers(invites)
                         /\ r.q \in DOMAIN bank \cup {NoQuestion}
                         /\ r.slot \in slots \cup {NoSlot}
      BY <2>1 DEF Right, Numbers
    <2> QED BY <2>1, <2>2, <2>3 DEF Rows, Intact
  <1>6. CASE UNCHANGED <<bank, pool, plan, slots, invites, records, th, made, crossed, skewed>>
    BY <1>6 DEF Rows, Intact
  <1> QED BY <1>1, <1>2, <1>3, <1>4, <1>5, <1>6, Steps

-----------------------------------------------------------------------------
(***************************************************************************)
(* Invitations are told apart by their numbers, in the order they were     *)
(* made.                                                                   *)
(***************************************************************************)
Numbered ==
  \A i \in invites : i.id <= made /\ \A j \in invites : i.id = j.id => i = j

\* What becomes of the invitations when the assessment a goes.
LEMMA UnlinkedRows ==
  ASSUME Typed, NEW a, NEW i \in Unlinked(a)
  PROVE  \E j \in invites : /\ j.id = i.id /\ j.set = i.set
                            /\ i = IF j.to = a THEN [j EXCEPT !.to = NoQuestion] ELSE j
  <1>1. CASE i \in {k \in invites : k.to # a} BY <1>1
  <1>2. CASE i \in {[k EXCEPT !.to = NoQuestion] : k \in InvitesTo(a)}
    <2>1. PICK j \in InvitesTo(a) : i = [j EXCEPT !.to = NoQuestion] BY <1>2
    <2>2. j \in invites /\ j.to = a BY <2>1 DEF InvitesTo
    <2>3. j \in Invite BY <2>2 DEF Typed, TypeOK
    <2>4. i.id = j.id /\ i.set = j.set BY <2>1, <2>3 DEF Invite
    <2> QED BY <2>1, <2>2, <2>4
  <1> QED BY <1>1, <1>2 DEF Unlinked

\* The invitations a step adds are new, unless it deletes an assessment.
LEMMA InvitesAreNew ==
  ASSUME Typed, [Next]_vars, \A t \in Threads : ~ CommitDrop(t)
  PROVE  /\ made' \in Nat /\ made' >= made
         /\ \A i \in invites' \ invites :
              /\ i.id > made /\ i.id <= made'
              /\ \A j \in invites' \ invites : i.id = j.id => i = j
  <1>1. made \in Nat BY LibraryAssumption DEF Typed, TypeOK
  <1>2. ASSUME UNCHANGED <<invites, made>> PROVE invites' \ invites = {} /\ made' = made
    BY <1>2
  <1>3. CASE Authoring BY <1>1, <1>2, <1>3, AuthoringAdds
  <1>4. ASSUME NEW t \in Threads, Begins(t) PROVE UNCHANGED <<invites, made>>
    BY <1>4, BeginsReads
  <1>5. ASSUME NEW t \in Threads, Commits(t), ~ CommitBatch(t) PROVE invites' \subseteq invites /\ made' = made
    <2>1. CASE CommitUpdate(t) BY <2>1, UpdateWrites DEF Refused
    <2>2. CASE CommitDelete(t) BY <2>2, DeleteWrites DEF Refused
    <2> QED BY <1>5, <2>1, <2>2 DEF Commits
  <1>6. ASSUME NEW t \in Threads, CommitBatch(t)
        PROVE  /\ made' \in Nat /\ made' >= made
               /\ \A i \in invites' \ invites :
                    /\ i.id > made /\ i.id <= made'
                    /\ \A j \in invites' \ invites : i.id = j.id => i = j
    <2> DEFINE l == th[t]
               k == Len(th[t].chosen)
    <2>1. k \in Nat /\ DOMAIN l.chosen = 1..k BY <1>6, EntryTypes
    <2>2. \/ UNCHANGED <<invites, made>>
          \/ invites' = invites \cup Entries(l) /\ made' = made + k
      BY <1>6, BatchWrites DEF Refused
    <2> HIDE DEF l, k
    <2>3. \A n \in 1..k : Entry(l, n).id = made + n BY DEF Entry
    <2>4. \A i \in Entries(l) : \E n \in 1..k : i = Entry(l, n) BY <2>1 DEF Entries
    <2>5. CASE UNCHANGED <<invites, made>> BY <1>1, <2>5
    <2>6. CASE invites' = invites \cup Entries(l) /\ made' = made + k
      <3>1. ASSUME NEW i \in Entries(l), NEW j \in Entries(l)
            PROVE  i.id > made /\ i.id <= made' /\ (i.id = j.id => i = j)
        <4>1. PICK n \in 1..k : i = Entry(l, n) BY <2>4
        <4>2. PICK m \in 1..k : j = Entry(l, m) BY <2>4
        <4>3. i.id = made + n /\ j.id = made + m BY <2>3, <4>1, <4>2
        <4>4. i.id = j.id => n = m BY <1>1, <4>3
        <4>5. i.id > made /\ i.id <= made' BY <1>1, <2>1, <2>6, <4>3
        <4> QED BY <4>1, <4>2, <4>4, <4>5
      <3>2. made' \in Nat /\ made' >= made BY <1>1, <2>1, <2>6
      <3> QED BY <2>6, <3>1, <3>2
    <2> QED BY <2>2, <2>5, <2>6
  <1>7. ASSUME NEW x \in Questions \cup Assessments, InviteTo(x)
        PROVE  /\ made' = made + 1
               /\ \A i, j \in invites' \ invites : i.id = made + 1 /\ i = j
    BY <1>7, InviteToWrites
  <1>8. ASSUME NEW i \in invites, Candidate(i) PROVE UNCHANGED <<invites, made>>
    <2>2. \A new : Request(new) => UNCHANGED <<invites, made>> BY DEF Request
    <2> QED BY <1>8, <2>2 DEF Candidate, Start, Resolve, Event, Draft, Submit
  <1>9. CASE \E t \in Threads : Begins(t) \/ Commits(t) BY <1>1, <1>2, <1>4, <1>5, <1>6, <1>9
  <1>10. CASE \E x \in Questions \cup Assessments : InviteTo(x)
    <2>1. PICK x \in Questions \cup Assessments : InviteTo(x) BY <1>10
    <2>2. /\ made' = made + 1
          /\ \A i, j \in invites' \ invites : i.id = made + 1 /\ i = j
      BY <1>7, <2>1
    <2> QED BY <1>1, <2>2
  <1>11. CASE \E i \in invites : Candidate(i) BY <1>1, <1>2, <1>8, <1>11
  <1>12. CASE UNCHANGED <<bank, pool, plan, slots, invites, records, th, made, crossed, skewed>>
    BY <1>1, <1>2, <1>12
  <1> QED BY <1>3, <1>9, <1>10, <1>11, <1>12, Steps

LEMMA DropNumbered ==
  ASSUME Typed, Numbered, NEW t \in Threads, CommitDrop(t)
  PROVE  Numbered'
  <1>1. CASE Refused(t) BY <1>1 DEF Refused, Numbered
  <1>2. CASE ~ Refused(t)
    <2>1. made' = made /\ invites' = Unlinked(th[t].of) BY <1>2, DropWrites
    <2>2. PICK a : a = th[t].of OBVIOUS
    <2>3. \A i \in invites' :
            \E j \in invites : /\ j.id = i.id
                               /\ i = IF j.to = a THEN [j EXCEPT !.to = NoQuestion] ELSE j
      BY <2>1, <2>2, UnlinkedRows
    <2>4. \A i \in invites' : i.id <= made BY <2>3 DEF Numbered
    <2>5. ASSUME NEW i \in invites', NEW k \in invites', i.id = k.id PROVE i = k
      <3>1. PICK j \in invites : j.id = i.id /\ i = IF j.to = a THEN [j EXCEPT !.to = NoQuestion] ELSE j
        BY <2>3
      <3>2. PICK l \in invites : l.id = k.id /\ k = IF l.to = a THEN [l EXCEPT !.to = NoQuestion] ELSE l
        BY <2>3
      <3>3. j = l BY <2>5, <3>1, <3>2 DEF Numbered
      <3> QED BY <3>1, <3>2, <3>3
    <2> QED BY <2>1, <2>4, <2>5 DEF Numbered
  <1> QED BY <1>1, <1>2

LEMMA NumberedNext ==
  ASSUME Typed, Numbered, [Next]_vars
  PROVE  Numbered'
  <1>0. SUFFICES ASSUME \A t \in Threads : ~ CommitDrop(t) PROVE Numbered'
    BY DropNumbered
  <1>1. /\ made' \in Nat /\ made \in Nat /\ made' >= made
        /\ \A i \in invites' \ invites :
             /\ i.id > made /\ i.id <= made'
             /\ \A j \in invites' \ invites : i.id = j.id => i = j
    <2>1. made \in Nat BY LibraryAssumption DEF Typed, TypeOK
    <2> QED BY <1>0, <2>1, InvitesAreNew
  <1>2. \A i \in invites : i.id \in Nat BY LibraryAssumption DEF Typed, TypeOK, Invite
  <1>4. ASSUME NEW i \in invites' PROVE i.id <= made'
    <2>1. CASE i \in invites BY <1>1, <1>2, <2>1 DEF Numbered
    <2> QED BY <1>1, <2>1
  <1>5. ASSUME NEW i \in invites', NEW j \in invites', i.id = j.id PROVE i = j
    <2>1. CASE i \in invites /\ j \in invites BY <1>5, <2>1 DEF Numbered
    <2>2. CASE i \in invites /\ j \notin invites
      <3>1. i.id <= made /\ j.id > made BY <1>1, <2>2 DEF Numbered
      <3> QED BY <1>1, <1>2, <1>5, <2>2, <3>1
    <2>3. CASE i \notin invites /\ j \in invites
      <3>1. j.id <= made /\ i.id > made BY <1>1, <2>3 DEF Numbered
      <3> QED BY <1>1, <1>2, <1>5, <2>3, <3>1
    <2>4. CASE i \notin invites /\ j \notin invites BY <1>1, <1>5, <2>4
    <2> QED BY <2>1, <2>2, <2>3, <2>4
  <1> QED BY <1>4, <1>5 DEF Numbered

-----------------------------------------------------------------------------
(***************************************************************************)
(* What a thread has in hand.  An assessment that is invited to while it   *)
(* is being replaced or deleted has been crossed; a replacement takes away *)
(* no row of another assessment.                                           *)
(***************************************************************************)
InHandOf(t) == At(t, "update") \/ At(t, "drop")
Holds(t) ==
  /\ InHandOf(t) => (HasInvite(th[t].of) => th[t].of \in crossed)
  /\ At(t, "update") => \A r \in th[t].old : r.of = th[t].of
Holding == \A t \in Threads : Holds(t)

\* It goes on to hold it while others work.
LEMMA HoldsOn ==
  ASSUME Typed, NEW t \in Threads, Holds(t), th'[t] = th[t], crossed \subseteq crossed',
         \A i \in invites' \ invites :
           InHandOf(t) /\ i.to = th[t].of => th[t].of \in crossed'
  PROVE  Holds(t)'
  <1>1. HasInvite(th[t].of)' => HasInvite(th[t].of) \/ \E i \in invites' \ invites : i.to = th[t].of
    <2>1. PICK a : a = th[t].of OBVIOUS
    <2>2. (HasInvite(a))' => HasInvite(a) \/ \E i \in invites' \ invites : i.to = a
      BY DEF HasInvite, InvitesTo
    <2>3. HasInvite(th[t].of)' <=> (HasInvite(a))' BY <2>1 DEF HasInvite, InvitesTo
    <2> QED BY <2>1, <2>2, <2>3
  <1> QED BY <1>1 DEF Holds, InHandOf, At

LEMMA IdleHolds ==
  ASSUME Typed, NEW t \in Threads, Goto(t, Idle)
  PROVE  Holds(t)' /\ \A u \in Threads \ {t} : th'[u] = th[u]
  <1>1. th'[t] = Idle /\ \A u \in Threads \ {t} : th'[u] = th[u] BY IdleTypes, GotoTypes
  <1>2. ~ At(t, "update")' /\ ~ At(t, "drop")' BY <1>1 DEF At, Idle
  <1> QED BY <1>1, <1>2 DEF Holds, InHandOf

LEMMA HoldingNext ==
  ASSUME Typed, Rows, Holding, [Next]_vars
  PROVE  Holding'
  <1>1. CASE Authoring
    <2>1. UNCHANGED <<invites, th, crossed>> BY <1>1, AuthoringAdds
    <2> QED BY <2>1 DEF Holding, Holds, InHandOf, At, HasInvite, InvitesTo
  <1>2. ASSUME NEW t \in Threads, Begins(t) PROVE Holding'
    <2>1. UNCHANGED <<invites, crossed>> BY <1>2, BeginsReads
    <2>2. ASSUME NEW l \in Thread, Goto(t, l), Holds(t)' PROVE Holding'
      <3>1. \A u \in Threads \ {t} : th'[u] = th[u] BY <2>2, GotoTypes
      <3>2. ASSUME NEW u \in Threads, u # t PROVE Holds(u)'
        BY <2>1, <3>1, <3>2, HoldsOn DEF Holding
      <3> QED BY <2>2, <3>2 DEF Holding
    <2>3. Typed' BY <1>2, BeginTypes DEF Begins
    <2>4. th'[t] \in Thread BY <2>3 DEF Typed, TypeOK
    <2>5. ASSUME NEW l, Goto(t, l) PROVE th'[t] = l BY <2>5 DEF Goto, Typed, TypeOK
    <2>6. ASSUME NEW a \in Assessments, NEW l \in case.lists, NEW m \in Terms, UpdateSlots(t, a, l, m)
          PROVE  Holding'
      <3> DEFINE k == [pc |-> "update", of |-> a, old |-> SlotsOf(a), new |-> l, terms |-> m]
      <3>1. Goto(t, k) /\ ~ HasInvite(a) BY <2>6 DEF UpdateSlots
      <3>2. th'[t] = k BY <2>5, <3>1
      <3>3. th'[t].pc = "update" /\ th'[t].of = a /\ th'[t].old = SlotsOf(a) BY <3>2
      <3>4. ~ (HasInvite(a))' BY <2>1, <3>1 DEF HasInvite, InvitesTo
      <3>5. ~ HasInvite(th[t].of)' BY <3>3, <3>4 DEF HasInvite, InvitesTo
      <3>6. Holds(t)' BY <3>3, <3>5 DEF Holds, InHandOf, At, SlotsOf
      <3> HIDE DEF k
      <3> QED BY <2>2, <2>4, <3>1, <3>2, <3>6
    <2>7. ASSUME NEW a \in Assessments, DeleteAssessment(t, a) PROVE Holding'
      <3> DEFINE k == [pc |-> "drop", of |-> a, old |-> SlotsOf(a)]
      <3>1. Goto(t, k) /\ ~ HasInvite(a) BY <2>7 DEF DeleteAssessment
      <3>2. th'[t] = k BY <2>5, <3>1
      <3>3. th'[t].pc = "drop" /\ th'[t].of = a BY <3>2
      <3>4. ~ (HasInvite(a))' BY <2>1, <3>1 DEF HasInvite, InvitesTo
      <3>5. ~ HasInvite(th[t].of)' BY <3>3, <3>4 DEF HasInvite, InvitesTo
      <3>6. Holds(t)' BY <3>3, <3>5 DEF Holds, InHandOf, At
      <3> HIDE DEF k
      <3> QED BY <2>2, <2>4, <3>1, <3>2, <3>6
    <2>8. ASSUME NEW q \in Questions, DeleteQuestion(t, q) PROVE Holding'
      <3> DEFINE k == [pc |-> "delete", q |-> q, invites |-> InvitesTo(q), drafts |-> DraftsOf(q)]
      <3>1. Goto(t, k) BY <2>8 DEF DeleteQuestion
      <3>2. th'[t] = k BY <2>5, <3>1
      <3>3. th'[t].pc = "delete" BY <3>2
      <3>4. Holds(t)' BY <3>3 DEF Holds, InHandOf, At
      <3> HIDE DEF k
      <3> QED BY <2>2, <2>4, <3>1, <3>2, <3>4
    <2>9. ASSUME NEW s \in Sets, NEW pins \in case.batches, InviteBatch(t, s, pins) PROVE Holding'
      <3> DEFINE k == [pc |-> "batch", set |-> s, chosen |-> Chosen(s, pins)]
      <3>1. Goto(t, k) BY <2>9 DEF InviteBatch
      <3>2. th'[t] = k BY <2>5, <3>1
      <3>3. th'[t].pc = "batch" BY <3>2
      <3>4. Holds(t)' BY <3>3 DEF Holds, InHandOf, At
      <3> HIDE DEF k
      <3> QED BY <2>2, <2>4, <3>1, <3>2, <3>4
    <2> QED BY <1>2, <2>6, <2>7, <2>8, <2>9 DEF Begins
  <1>3. ASSUME NEW t \in Threads, Commits(t) PROVE Holding'
    <2>1. /\ Goto(t, Idle) /\ crossed \subseteq crossed'
          /\ \A i \in invites' \ invites : i.to \in Questions \cup {NoQuestion}
      <3>1. CASE CommitUpdate(t) BY <3>1, UpdateWrites DEF Refused
      <3>2. CASE CommitDelete(t) BY <3>2, DeleteWrites DEF Refused
      <3>3. CASE CommitDrop(t)
        <4>1. ASSUME NEW i \in Unlinked(th[t].of), i \notin invites PROVE i.to = NoQuestion
          <5>1. PICK j \in invites : i = IF j.to = th[t].of THEN [j EXCEPT !.to = NoQuestion] ELSE j
            BY UnlinkedRows
          <5>2. j \in Invite BY DEF Typed, TypeOK
          <5> QED BY <4>1, <5>1, <5>2 DEF Invite
        <4> QED BY <3>3, <4>1, DropWrites DEF Refused
      <3>4. CASE CommitBatch(t)
        <4>1. At(t, "batch") BY <3>4, BatchWrites
        <4> DEFINE E == [q : Questions, terms : Terms, pinned : BOOLEAN]
        <4>2. th[t].chosen \in Seq(E) BY <4>1, ThreadTypes
        <4>3. \A n \in DOMAIN th[t].chosen : th[t].chosen[n].q \in Questions
          <5>1. \A e \in E : e.q \in Questions OBVIOUS
          <5> HIDE DEF E
          <5>2. \A n \in DOMAIN th[t].chosen : th[t].chosen[n] \in E BY <4>2
          <5> QED BY <5>1, <5>2
        <4>4. \A i \in Entries(th[t]) : i.to \in Questions BY <4>3 DEF Entries, Entry
        <4> QED BY <3>4, <4>4, BatchWrites DEF Refused
      <3> QED BY <1>3, <3>1, <3>2, <3>3, <3>4 DEF Commits
    <2>2. Holds(t)' /\ \A u \in Threads \ {t} : th'[u] = th[u] BY <2>1, IdleHolds
    <2>3. ASSUME NEW u \in Threads, u # t PROVE Holds(u)'
      <3>1. InHandOf(u) => th[u].of \notin Questions \cup {NoQuestion}
        BY ThreadTypes, LibraryAssumption DEF InHandOf
      <3>2. \A i \in invites' \ invites : InHandOf(u) /\ i.to = th[u].of => th[u].of \in crossed'
        BY <2>1, <3>1
      <3> QED BY <2>1, <2>2, <2>3, <3>2, HoldsOn DEF Holding
    <2> QED BY <2>2, <2>3 DEF Holding
  <1>4. ASSUME NEW x \in Questions \cup Assessments, InviteTo(x) PROVE Holding'
    <2>1. /\ UNCHANGED th
          /\ crossed' = IF InHand(x) THEN crossed \cup {x} ELSE crossed
          /\ \A i \in invites' \ invites : i.to = x
      BY <1>4, InviteToWrites
    <2>2. ASSUME NEW t \in Threads PROVE Holds(t)'
      <3>1. InHandOf(t) /\ x = th[t].of => x \in crossed' BY <2>1 DEF InHand, InHandOf
      <3> QED BY <2>1, <3>1, HoldsOn DEF Holding
    <2> QED BY <2>2 DEF Holding
  <1>5. ASSUME NEW i \in invites, Candidate(i) PROVE Holding'
    <2>1. UNCHANGED <<invites, th, crossed>> BY <1>5, CandidateWrites
    <2> QED BY <2>1 DEF Holding, Holds, InHandOf, At, HasInvite, InvitesTo
  <1>6. CASE UNCHANGED <<bank, pool, plan, slots, invites, records, th, made, crossed, skewed>>
    BY <1>6 DEF Holding, Holds, InHandOf, At, HasInvite, InvitesTo
  <1> QED BY <1>1, <1>2, <1>3, <1>4, <1>5, <1>6, Steps

-----------------------------------------------------------------------------
(***************************************************************************)
(* No request takes a record away, or the slots of an assessment that has  *)
(* been invited to.                                                        *)
(***************************************************************************)
LEMMA RecordsStayNext ==
  ASSUME Typed, Rows, [Next]_vars
  PROVE  {r \in records : r.kind # "draft"} \subseteq records'
  <1>1. CASE Authoring BY <1>1, AuthoringAdds
  <1>2. ASSUME NEW t \in Threads, Begins(t) PROVE records' = records BY <1>2, BeginsReads
  <1>3. ASSUME NEW t \in Threads, Commits(t) PROVE {r \in records : r.kind # "draft"} \subseteq records'
    <2>1. CASE CommitUpdate(t) BY <2>1, UpdateWrites DEF Refused
    <2>2. CASE CommitDelete(t) BY <2>2, DeleteWrites DEF Refused, DraftsOf
    <2>3. CASE CommitDrop(t) BY <2>3, DropWrites DEF Refused
    <2>4. CASE CommitBatch(t) BY <2>4, BatchWrites DEF Refused
    <2> QED BY <1>3, <2>1, <2>2, <2>3, <2>4 DEF Commits
  <1>4. ASSUME NEW x \in Questions \cup Assessments, InviteTo(x) PROVE records' = records
    BY <1>4, InviteToWrites
  <1>5. ASSUME NEW i \in invites, Candidate(i) PROVE records \subseteq records'
    BY <1>5, CandidateWrites
  <1> QED BY <1>1, <1>2, <1>3, <1>4, <1>5, Steps

LEMMA SlotsLockedNext ==
  ASSUME Typed, Rows, Holding, [Next]_vars,
         NEW a \in DOMAIN plan, HasInvite(a), a \notin crossed
  PROVE  a \in DOMAIN plan' /\ SlotsOf(a)' = SlotsOf(a)
  <1>1. ASSUME a \in DOMAIN plan', \A r : r.of = a => (r \in slots' <=> r \in slots)
        PROVE  a \in DOMAIN plan' /\ SlotsOf(a)' = SlotsOf(a)
    BY <1>1 DEF SlotsOf
  <1>2. ASSUME UNCHANGED slots, DOMAIN plan \subseteq DOMAIN plan'
        PROVE  a \in DOMAIN plan' /\ SlotsOf(a)' = SlotsOf(a)
    BY <1>1, <1>2
  <1>3. CASE Authoring
    <2>1. /\ DOMAIN plan \subseteq DOMAIN plan' /\ slots \subseteq slots'
          /\ \A r \in slots' \ slots : r.of \notin DOMAIN plan
      BY <1>3, AuthoringAdds
    <2> QED BY <1>1, <2>1
  <1>4. ASSUME NEW t \in Threads, Begins(t) PROVE UNCHANGED <<slots, plan>> BY <1>4, BeginsReads
  <1>5. ASSUME NEW t \in Threads, Commits(t) PROVE a \in DOMAIN plan' /\ SlotsOf(a)' = SlotsOf(a)
    <2>1. CASE CommitUpdate(t)
      <3>1. At(t, "update") BY <2>1, UpdateWrites
      <3>2. (\A r \in th[t].old : r.of = th[t].of) /\ th[t].of # a
        BY <3>1 DEF Holding, Holds, InHandOf
      <3>3. \A r \in RowsOf(th[t].of, edits, th[t].new) : r.of = th[t].of BY DEF RowsOf
      <3>4. ASSUME slots' = Replaced(th[t], edits), DOMAIN plan' = DOMAIN plan
            PROVE  a \in DOMAIN plan' /\ SlotsOf(a)' = SlotsOf(a)
        <4>1. \A r : r.of = a => (r \in slots' <=> r \in slots) BY <3>2, <3>3, <3>4 DEF Replaced
        <4> QED BY <1>1, <3>4, <4>1
      <3> QED BY <1>2, <2>1, <3>4, UpdateWrites DEF Refused
    <2>2. CASE CommitDelete(t) BY <1>2, <2>2, DeleteWrites DEF Refused
    <2>3. CASE CommitDrop(t)
      <3>1. At(t, "drop") BY <2>3, DropWrites
      <3>2. th[t].of # a BY <3>1 DEF Holding, Holds, InHandOf
      <3>3. ASSUME DOMAIN plan' = DOMAIN plan \ {th[t].of}, slots' = slots \ SlotsOf(th[t].of)
            PROVE  a \in DOMAIN plan' /\ SlotsOf(a)' = SlotsOf(a)
        <4>1. \A r : r.of = a => (r \in slots' <=> r \in slots) BY <3>2, <3>3 DEF SlotsOf
        <4> QED BY <1>1, <3>2, <3>3, <4>1
      <3> QED BY <1>2, <2>3, <3>3, DropWrites DEF Refused
    <2>4. CASE CommitBatch(t) BY <1>2, <2>4, BatchWrites DEF Refused
    <2> QED BY <1>5, <2>1, <2>2, <2>3, <2>4 DEF Commits
  <1>6. ASSUME NEW x \in Questions \cup Assessments, InviteTo(x) PROVE UNCHANGED <<slots, plan>>
    BY <1>6, InviteToWrites
  <1>7. ASSUME NEW i \in invites, Candidate(i) PROVE UNCHANGED <<slots, plan>>
    BY <1>7, CandidateWrites
  <1> QED BY <1>2, <1>3, <1>4, <1>5, <1>6, <1>7, Steps

-----------------------------------------------------------------------------
(***************************************************************************)
(* Which columns a row fills, and that it fits the invitation it is under. *)
(***************************************************************************)
Filled(r) ==
  /\ r.kind = "attempt" => r.q = NoQuestion
  /\ r.kind = "variant" => r.slot # NoSlot
  /\ r.kind # "variant" => r.slot = NoSlot

Fits(i, r) ==
  /\ r.kind = "variant" => r.slot.of = i.to
  /\ r.kind \in {"draft", "submission"} /\ i.to \in Questions => r.q = i.to
  /\ r.kind = "submission" /\ i.to \notin crossed \cup {NoQuestion} => r.q \in Served(i)

Fitting == \A r \in records : Filled(r) /\ \A i \in invites : i.id = r.inv => Fits(i, r)

\* A sitting goes on to serve what it served.
LEMMA ServedGrows ==
  ASSUME Typed, NEW i \in Invite, SlotsOf(i.to) \subseteq slots',
         {r \in records : r.kind # "draft"} \subseteq records'
  PROVE  Served(i) \subseteq Served(i)'
  <1>1. CASE i.to \in Questions BY <1>1 DEF Served
  <1>2. CASE i.to \notin Questions
    <2>1. \A r \in SlotsOf(i.to) : r \in SlotsOf(i.to)' BY DEF SlotsOf
    <2>2. \A r \in Assigned(i) : r \in Assigned(i)' BY DEF Assigned
    <2> QED BY <1>2, <2>1, <2>2 DEF Served
  <1> QED BY <1>1, <1>2

LEMMA FitsOn ==
  ASSUME Typed, Rows, Holding, [Next]_vars, crossed \subseteq crossed',
         NEW i \in invites, NEW r, Fits(i, r)
  PROVE  Fits(i, r)'
  <1>1. i \in Invite BY DEF Typed, TypeOK
  <1>2. ASSUME i.to \notin crossed \cup {NoQuestion}, r.q \in Served(i) PROVE r.q \in Served(i)'
    <2>1. CASE i.to \in Questions BY <1>2, <2>1 DEF Served
    <2>2. CASE i.to \notin Questions
      <3>1. i.to \in DOMAIN plan
        <4>1. i.to \in DOMAIN bank \cup DOMAIN plan \cup {NoQuestion} BY DEF Rows, Intact
        <4> QED BY <1>2, <2>2, <4>1 DEF Typed, TypeOK
      <3>2. HasInvite(i.to) BY DEF HasInvite, InvitesTo
      <3>3. PICK a : a = i.to OBVIOUS
      <3>4. SlotsOf(a)' = SlotsOf(a) BY <1>2, <3>1, <3>2, <3>3, SlotsLockedNext
      <3>5. SlotsOf(a) \subseteq slots' BY <3>4 DEF SlotsOf
      <3> QED BY <1>1, <1>2, <3>3, <3>5, RecordsStayNext, ServedGrows
    <2> QED BY <2>1, <2>2
  <1> QED BY <1>2 DEF Fits

LEMMA CrossedGrows ==
  ASSUME Typed, Rows, [Next]_vars
  PROVE  crossed \subseteq crossed'
  <1>1. CASE Authoring BY <1>1, AuthoringAdds
  <1>2. ASSUME NEW t \in Threads, Begins(t) PROVE crossed \subseteq crossed' BY <1>2, BeginsReads
  <1>3. ASSUME NEW t \in Threads, Commits(t) PROVE crossed \subseteq crossed'
    BY <1>3, UpdateWrites, DeleteWrites, DropWrites, BatchWrites DEF Commits, Refused
  <1>4. ASSUME NEW x \in Questions \cup Assessments, InviteTo(x) PROVE crossed \subseteq crossed'
    BY <1>4, InviteToWrites
  <1>5. ASSUME NEW i \in invites, Candidate(i) PROVE crossed \subseteq crossed'
    BY <1>5, CandidateWrites
  <1> QED BY <1>1, <1>2, <1>3, <1>4, <1>5, Steps

\* The records a step adds.
LEMMA RecordsAreRight ==
  ASSUME Typed, Rows, [Next]_vars
  PROVE  \A r \in records' \ records :
           \E i \in invites : Right(i, r) /\ UNCHANGED <<slots, invites, crossed>> /\ Candidate(i)
  <1>1. CASE Authoring BY <1>1, AuthoringAdds
  <1>2. ASSUME NEW t \in Threads, Begins(t) PROVE records' \subseteq records BY <1>2, BeginsReads
  <1>3. ASSUME NEW t \in Threads, Commits(t) PROVE records' \subseteq records
    BY <1>3, UpdateWrites, DeleteWrites, DropWrites, BatchWrites DEF Commits, Refused
  <1>4. ASSUME NEW x \in Questions \cup Assessments, InviteTo(x) PROVE records' \subseteq records
    BY <1>4, InviteToWrites
  <1>5. ASSUME NEW i \in invites, Candidate(i)
        PROVE  \A r \in records' \ records : Right(i, r) /\ UNCHANGED <<slots, invites, crossed>>
    <2>1. PICK new : records' = records \cup new /\ \A r \in new : Right(i, r)
      BY <1>5, CandidateWrites
    <2>2. UNCHANGED <<slots, invites, crossed>> BY <1>5, CandidateWrites
    <2> QED BY <2>1, <2>2
  <1>6. CASE UNCHANGED <<bank, pool, plan, slots, invites, records, th, made, crossed, skewed>>
    BY <1>6
  <1> QED BY <1>1, <1>2, <1>3, <1>4, <1>5, <1>6, Steps

\* An invitation after a step: there before, new, or cut off from its
\* assessment, which then has no slots any more.
LEMMA InviteStep ==
  ASSUME Typed, Rows, Numbered, Holding, [Next]_vars, NEW i \in invites'
  PROVE  \/ i \in invites
         \/ i.id > made
         \/ \E j \in invites : /\ j.to \in crossed /\ j.id = i.id
                               /\ i = [j EXCEPT !.to = NoQuestion] /\ i.to = NoQuestion
                               /\ \A r \in slots' : r.of # j.to
  <1>1. CASE \A t \in Threads : ~ CommitDrop(t) BY <1>1, InvitesAreNew
  <1>2. ASSUME NEW t \in Threads, CommitDrop(t), i \notin invites
        PROVE  \E j \in invites : /\ j.to \in crossed /\ j.id = i.id
                                 /\ i = [j EXCEPT !.to = NoQuestion] /\ i.to = NoQuestion
                                 /\ \A r \in slots' : r.of # j.to
    <2>1. /\ At(t, "drop") /\ invites' = Unlinked(th[t].of)
          /\ slots' = slots \ SlotsOf(th[t].of)
      BY <1>2, DropWrites DEF Refused
    <2>2. PICK j \in invites : /\ j.id = i.id
                              /\ i = IF j.to = th[t].of THEN [j EXCEPT !.to = NoQuestion] ELSE j
      BY <2>1, UnlinkedRows
    <2>3. j.to = th[t].of /\ i = [j EXCEPT !.to = NoQuestion] BY <1>2, <2>2
    <2>4. i.to = NoQuestion BY <2>3 DEF Typed, TypeOK, Invite
    <2>5. j.to \in crossed BY <2>1, <2>3 DEF Holding, Holds, InHandOf, HasInvite, InvitesTo
    <2>6. \A r \in slots' : r.of # j.to BY <2>1, <2>3 DEF SlotsOf
    <2> QED BY <2>2, <2>3, <2>4, <2>5, <2>6
  <1> QED BY <1>1, <1>2

LEMMA FittingNext ==
  ASSUME Typed, Rows, Numbered, Holding, Fitting, [Next]_vars
  PROVE  Fitting'
  <1>1. crossed \subseteq crossed' BY CrossedGrows
  <1>2. \A i \in invites : i.id <= made /\ i.id \in Nat
    BY LibraryAssumption DEF Numbered, Typed, TypeOK, Invite
  <1>3. ASSUME NEW r \in records, NEW i \in invites', i.id > made PROVE i.id # r.inv
    <2>1. PICK j \in invites : j.id = r.inv BY DEF Rows, Intact, Numbers
    <2>2. j.id <= made /\ j.id \in Nat BY <1>2
    <2>3. made \in Nat /\ i.id \in Nat
      BY LibraryAssumption, TypedNext DEF Typed, TypeOK, Invite
    <2> QED BY <1>3, <2>1, <2>2, <2>3
  <1>4. ASSUME NEW r \in records, r \in records', NEW i \in invites', i.id = r.inv PROVE Fits(i, r)'
    <2>1. CASE i \in invites
      <3>1. Fits(i, r) BY <1>4, <2>1 DEF Fitting
      <3> QED BY <1>1, <2>1, <3>1, FitsOn
    <2>2. ASSUME NEW j \in invites, j.id = i.id, i.to = NoQuestion, \A u \in slots' : u.of # j.to
          PROVE  Fits(i, r)'
      <3>1. Filled(r) /\ Fits(j, r) BY <1>4, <2>2 DEF Fitting
      <3>2. r.slot \in slots' \cup {NoSlot} BY <1>4, RowsNext DEF Rows, Intact
      <3>3. r.kind # "variant" BY <2>2, <3>1, <3>2 DEF Filled, Fits
      <3> QED BY <2>2, <3>3, LibraryAssumption DEF Fits
    <2> QED BY <1>3, <1>4, <2>1, <2>2, InviteStep
  <1>5. ASSUME NEW r \in records' \ records PROVE Filled(r) /\ \A i \in invites' : i.id = r.inv => Fits(i, r)'
    <2>1. PICK i \in invites : Right(i, r) /\ UNCHANGED <<slots, invites, crossed>> /\ Candidate(i)
      BY <1>5, RecordsAreRight
    <2>2. i \in Invite BY DEF Typed, TypeOK
    <2>3. Filled(r)
      <3>1. r.kind = "variant" => r.slot \in Slot BY <2>1 DEF Right, Typed, TypeOK
      <3> QED BY <2>1, <3>1, NoSlotIsNone DEF Right, Filled
    <2>4. Served(i) \subseteq Served(i)'
      <3>1. SlotsOf(i.to) \subseteq slots' BY <2>1 DEF SlotsOf
      <3> QED BY <2>2, <3>1, RecordsStayNext, ServedGrows
    <2>5. r.kind \in {"draft", "submission"} => r.q \in Served(i) BY <2>1 DEF Right
    <2>6. r.kind \in {"draft", "submission"} /\ i.to \in Questions => r.q = i.to
      BY <2>5 DEF Served
    <2>7. r.kind = "variant" => r.slot.of = i.to BY <2>1 DEF Right
    <2>8. Fits(i, r)' BY <2>4, <2>5, <2>6, <2>7 DEF Fits
    <2>9. \A j \in invites' : j.id = r.inv => j = i BY <2>1 DEF Numbered, Right
    <2> QED BY <2>3, <2>8, <2>9
  <1>6. \A r \in records : Filled(r) BY DEF Fitting
  <1>7. ASSUME NEW r \in records' PROVE Filled(r) /\ \A i \in invites' : i.id = r.inv => Fits(i, r)'
    BY <1>4, <1>5, <1>6
  <1> QED BY <1>7 DEF Fitting, Filled

-----------------------------------------------------------------------------
(***************************************************************************)
(* The rows and the threads together are inductive.                        *)
(***************************************************************************)
RowsInv == Typed /\ Rows /\ Numbered /\ Holding /\ Fitting

LEMMA RowsInvInit ==
  ASSUME Init
  PROVE  RowsInv
  <1>1. Typed BY InitTyped
  <1>2. slots = {} /\ invites = {} /\ records = {} BY DEF Init
  <1>3. \A t \in Threads : th[t].pc = "idle" BY DEF Init, Idle
  <1>4. Rows /\ Numbered /\ Fitting BY <1>2 DEF Rows, Intact, Numbered, Fitting
  <1>5. Holding BY <1>3 DEF Holding, Holds, InHandOf, At
  <1> QED BY <1>1, <1>4, <1>5 DEF RowsInv

LEMMA RowsInvNext ==
  ASSUME RowsInv, [Next]_vars
  PROVE  RowsInv'
  <1>1. Typed /\ Rows /\ Numbered /\ Holding /\ Fitting BY DEF RowsInv
  <1>2. Typed' /\ Rows' /\ Numbered' /\ Holding' /\ Fitting'
    BY <1>1, TypedNext, RowsNext, NumberedNext, HoldingNext, FittingNext
  <1> QED BY <1>2 DEF RowsInv

LEMMA RowsCorrect == Spec => []RowsInv
  <1>1. Init => RowsInv BY RowsInvInit
  <1>2. RowsInv /\ [Next]_vars => RowsInv' BY RowsInvNext
  <1> QED BY <1>1, <1>2, PTL DEF Spec

\* The rows keep their types: a draw, in particular, is one of the set's
\* variants that are left, whatever was deleted meanwhile.
THEOREM TypeCorrect == Spec => []TypeOK
  <1>1. RowsInv => TypeOK BY DEF RowsInv, Typed
  <1> QED BY <1>1, RowsCorrect, PTL

-----------------------------------------------------------------------------
(* The guards of a deletion. *)

\* A question that may be deleted takes nothing along that a record needs.
LEMMA QuestionGuard ==
  ASSUME RowsInv, NEW q \in DOMAIN bank, Deletable(q)
  PROVE  Intact(DOMAIN bank \ {q}, DOMAIN plan, slots, invites \ InvitesTo(q),
                records \ DraftsOf(q))
  <1> DEFINE rs == records \ DraftsOf(q)
             is == invites \ InvitesTo(q)
  <1>1. Typed /\ Rows /\ Fitting BY DEF RowsInv
  <1>2. q \in Questions /\ NoQuestion \notin Questions /\ q \notin Assessments
    BY <1>1, LibraryAssumption DEF Typed, TypeOK
  <1>3. \A r \in slots : r.of \in DOMAIN plan /\ r.what \in (DOMAIN bank \ {q}) \cup DOMAIN pool
    BY <1>1 DEF Rows, Intact, Deletable
  <1>4. \A i \in is : i.to \in (DOMAIN bank \ {q}) \cup DOMAIN plan \cup {NoQuestion}
    BY <1>1 DEF Rows, Intact, InvitesTo
  <1>5. ASSUME NEW r \in rs
        PROVE  /\ r.inv \in Numbers(is) /\ r.q \in (DOMAIN bank \ {q}) \cup {NoQuestion}
               /\ r.slot \in slots \cup {NoSlot}
    <2>1. r \in records /\ (r.kind = "draft" => r.q # q) BY DEF DraftsOf
    <2>2. /\ r.inv \in Numbers(invites) /\ r.q \in DOMAIN bank \cup {NoQuestion}
          /\ r.slot \in slots \cup {NoSlot}
      BY <1>1, <2>1 DEF Rows, Intact
    <2>3. r.kind \in {"attempt", "variant", "event", "draft", "submission"}
      BY <1>1, <2>1 DEF Typed, TypeOK, Record
    <2>4. PICK i \in invites : i.id = r.inv BY <2>2 DEF Numbers
    <2>5. Filled(r) /\ Fits(i, r) BY <1>1, <2>1, <2>4 DEF Fitting
    <2>6. r.q # q
      <3>1. CASE r.kind = "attempt" BY <1>2, <2>5, <3>1 DEF Filled
      <3>2. CASE r.kind \in {"variant", "event", "submission"} BY <2>1, <3>2 DEF Deletable
      <3> QED BY <2>1, <2>3, <3>1, <3>2
    <2>7. i.to # q
      <3>1. CASE r.kind \in {"attempt", "event"} BY <2>1, <2>4, <3>1 DEF Deletable, Numbers, InvitesTo
      <3>2. CASE r.kind = "variant"
        <4>1. r.slot \in Slot BY <1>1, <2>2, <2>5, <3>2 DEF Filled, Typed, TypeOK
        <4>2. i.to \in Assessments BY <2>5, <3>2, <4>1 DEF Fits, Slot
        <4> QED BY <1>2, <4>2
      <3>3. CASE r.kind \in {"draft", "submission"} BY <1>2, <2>5, <2>6, <3>3 DEF Fits
      <3> QED BY <2>3, <3>1, <3>2, <3>3
    <2>8. i \in is BY <2>7 DEF InvitesTo
    <2> HIDE DEF is
    <2>9. r.inv \in Numbers(is) BY <2>4, <2>8 DEF Numbers
    <2> QED BY <2>2, <2>6, <2>9
  <1> QED BY <1>3, <1>4, <1>5 DEF Intact

\* An assessment without an invitation has nothing on record.
LEMMA AssessmentGuard ==
  ASSUME RowsInv, NEW a \in DOMAIN plan, ~ HasInvite(a)
  PROVE  /\ \A r \in records : r.slot \notin SlotsOf(a)
         /\ Intact(DOMAIN bank, DOMAIN plan \ {a}, slots \ SlotsOf(a), invites, records)
  <1>1. Typed /\ Rows /\ Fitting BY DEF RowsInv
  <1>2. ASSUME NEW r \in records PROVE r.slot \notin SlotsOf(a)
    <2>1. PICK i \in invites : i.id = r.inv BY <1>1 DEF Rows, Intact, Numbers
    <2>2. Filled(r) /\ Fits(i, r) BY <1>1, <2>1 DEF Fitting
    <2>3. i.to # a BY DEF HasInvite, InvitesTo
    <2>4. CASE r.kind = "variant" BY <2>2, <2>3, <2>4 DEF Fits, SlotsOf
    <2>5. CASE r.kind # "variant"
      <3>1. r.slot \notin slots BY <1>1, <2>2, <2>5, NoSlotIsNone DEF Filled, Typed, TypeOK
      <3> QED BY <3>1 DEF SlotsOf
    <2> QED BY <2>4, <2>5
  <1>3. \A r \in slots \ SlotsOf(a) :
          r.of \in DOMAIN plan \ {a} /\ r.what \in DOMAIN bank \cup DOMAIN pool
    BY <1>1 DEF Rows, Intact, SlotsOf
  <1>4. \A i \in invites : i.to \in DOMAIN bank \cup (DOMAIN plan \ {a}) \cup {NoQuestion}
    BY <1>1 DEF Rows, Intact, HasInvite, InvitesTo
  <1>5. \A r \in records : /\ r.inv \in Numbers(invites) /\ r.q \in DOMAIN bank \cup {NoQuestion}
                           /\ r.slot \in (slots \ SlotsOf(a)) \cup {NoSlot}
    BY <1>1, <1>2 DEF Rows, Intact
  <1> QED BY <1>2, <1>3, <1>4, <1>5 DEF Intact

\* delete_question, delete_assessment: their checks cover every foreign key.
THEOREM GuardsCorrect == Spec => []GuardsSuffice
  <1>1. RowsInv => GuardsSuffice
    <2> SUFFICES ASSUME RowsInv PROVE GuardsSuffice OBVIOUS
    <2> QED BY QuestionGuard, AssessmentGuard DEF GuardsSuffice
  <1> QED BY <1>1, RowsCorrect, PTL

\* What is on record can be read back.
THEOREM RecordsReadable == Spec => []Readable
  <1>1. RowsInv => Readable
    <2> SUFFICES ASSUME RowsInv, NEW r \in records
                 PROVE  \E i \in invites :
                          /\ i.id = r.inv
                          /\ r.q \in DOMAIN bank \cup {NoQuestion}
                          /\ r.kind = "variant" => r.slot \in SlotsOf(i.to)
                          /\ r.kind = "submission" /\ i.to \notin crossed \cup {NoQuestion}
                               => r.q \in Served(i)
      BY DEF Readable
    <2>1. Rows /\ Fitting BY DEF RowsInv
    <2>2. PICK i \in invites : i.id = r.inv BY <2>1 DEF Rows, Intact, Numbers
    <2>3. r.q \in DOMAIN bank \cup {NoQuestion} /\ r.slot \in slots \cup {NoSlot}
      BY <2>1 DEF Rows, Intact
    <2>4. Filled(r) /\ Fits(i, r) BY <2>1, <2>2 DEF Fitting
    <2>5. r.kind = "variant" => r.slot \in SlotsOf(i.to) BY <2>3, <2>4 DEF Filled, Fits, SlotsOf
    <2>6. r.kind = "submission" /\ i.to \notin crossed \cup {NoQuestion} => r.q \in Served(i)
      BY <2>4 DEF Fits
    <2> QED BY <2>2, <2>3, <2>5, <2>6
  <1> QED BY <1>1, RowsCorrect, PTL

-----------------------------------------------------------------------------
(* What a step may never do. *)

\* No request of an interviewer removes a submission, an attempt, an event or
\* a frozen variant, however it overlaps with the candidate's.
THEOREM RecordsStayCorrect == Spec => RecordsStay
  <1>1. RowsInv /\ [Next]_vars => {r \in records : r.kind # "draft"} \subseteq records'
    BY RecordsStayNext DEF RowsInv
  <1> QED BY <1>1, RowsCorrect, PTL DEF Spec, RecordsStay

\* An assessment that has been invited to stays and keeps its slots, unless
\* the invitation went out while it was being replaced or deleted.
THEOREM SlotsLockedCorrect == Spec => SlotsLocked
  <1>1. RowsInv /\ [Next]_vars =>
          \A a \in DOMAIN plan : HasInvite(a) /\ a \notin crossed =>
            a \in DOMAIN plan' /\ SlotsOf(a)' = SlotsOf(a)
    BY SlotsLockedNext DEF RowsInv
  <1> QED BY <1>1, RowsCorrect, PTL DEF Spec, SlotsLocked

LEMMA KeepsLinkNext ==
  ASSUME RowsInv, [Next]_vars, NEW i \in invites, NEW r \in records, r.inv = i.id, r.kind # "draft"
  PROVE  \/ i \in invites'
         \/ i.to \in crossed /\ [i EXCEPT !.to = NoQuestion] \in invites'
  <1>1. Typed /\ Rows /\ Numbered /\ Holding BY DEF RowsInv
  <1>2. r \in records' BY <1>1, RecordsStayNext
  <1>3. Rows' BY RowsInvNext DEF RowsInv
  <1>4. PICK j \in invites' : j.id = i.id BY <1>2, <1>3 DEF Rows, Intact, Numbers
  <1>5. ~ (j.id > made)
    <2>1. i.id <= made /\ i.id \in Nat /\ made \in Nat
      BY <1>1, LibraryAssumption DEF Numbered, Typed, TypeOK, Invite
    <2> QED BY <1>4, <2>1
  <1>6. CASE j \in invites
    <2>1. j = i BY <1>1, <1>4, <1>6 DEF Numbered
    <2> QED BY <1>4, <2>1
  <1>7. ASSUME NEW k \in invites, k.to \in crossed, k.id = j.id, j = [k EXCEPT !.to = NoQuestion]
        PROVE  i.to \in crossed /\ [i EXCEPT !.to = NoQuestion] \in invites'
    <2>1. k = i BY <1>1, <1>4, <1>7 DEF Numbered
    <2> QED BY <1>4, <1>7, <2>1
  <1> QED BY <1>1, <1>5, <1>6, <1>7, InviteStep

\* delete_question, delete_assessment, the edits: the link of a sitting that has
\* begun stays, but for the assessment of one that went out while it was being
\* deleted.
THEOREM SittingsKeepTheirLinkCorrect == Spec => SittingsKeepTheirLink
  <1>1. RowsInv /\ [Next]_vars =>
          \A i \in invites : \A r \in records : r.inv = i.id /\ r.kind # "draft" =>
            \/ i \in invites'
            \/ i.to \in crossed /\ [i EXCEPT !.to = NoQuestion] \in invites'
    BY KeepsLinkNext
  <1> QED BY <1>1, RowsCorrect, PTL DEF Spec, SittingsKeepTheirLink

-----------------------------------------------------------------------------
(***************************************************************************)
(* The rotation.  Of the n invitations of a set of l variants, each        *)
(* variant has had as many as the last one, and the first n % l of them    *)
(* one more.                                                               *)
(***************************************************************************)
Used(is, q) == Cardinality({i \in is : i.to = q})

Turns(p, is) ==
  \A k \in DOMAIN p :
    Used(is, p[k]) = Used(is, p[Len(p)]) + (IF k <= Cardinality(is) % Len(p) THEN 1 ELSE 0)

LEMMA UsedType ==
  ASSUME NEW is, IsFiniteSet(is), NEW q
  PROVE  Used(is, q) \in Nat
  <1>1. {i \in is : i.to = q} \in SUBSET is OBVIOUS
  <1> QED BY <1>1, FS_Subset, FS_CardinalityType DEF Used

LEMMA UsedNone ==
  ASSUME NEW q
  PROVE  Used({}, q) = 0
  <1>1. {i \in {} : i.to = q} = {} OBVIOUS
  <1> QED BY <1>1, FS_EmptySet DEF Used

LEMMA UsedOneMore ==
  ASSUME NEW is, IsFiniteSet(is), NEW e, e \notin is, NEW q
  PROVE  Used(is \cup {e}, q) = IF e.to = q THEN Used(is, q) + 1 ELSE Used(is, q)
  <1> DEFINE old == {i \in is : i.to = q}
  <1>1. IsFiniteSet(old) /\ e \notin old
    <2>1. old \in SUBSET is OBVIOUS
    <2> QED BY <2>1, FS_Subset
  <1>2. {i \in is \cup {e} : i.to = q} = IF e.to = q THEN old \cup {e} ELSE old OBVIOUS
  <1>3. Cardinality(old \cup {e}) = Cardinality(old) + 1
    <2> HIDE DEF old
    <2> QED BY <1>1, FS_AddElement
  <1> QED BY <1>2, <1>3 DEF Used

LEMMA NobodyYet ==
  ASSUME NEW p \in Seq(Questions), Len(p) > 0
  PROVE  Turns(p, {})
  <1>1. Cardinality({}) = 0 BY FS_EmptySet
  <1>2. Len(p) \in Nat OBVIOUS
  <1>3. 0 % Len(p) = 0 BY <1>2, ModZero
  <1>4. \A k \in DOMAIN p : ~ (k <= 0) OBVIOUS
  <1> QED BY <1>1, <1>3, <1>4, UsedNone DEF Turns

\* One more, in its turn.
LEMMA NextTurn ==
  ASSUME NEW p \in Seq(Questions), Len(p) > 0,
         \A m, n \in DOMAIN p : p[m] = p[n] => m = n,
         NEW is, IsFiniteSet(is), Turns(p, is),
         NEW e, e \notin is, e.to = p[(Cardinality(is) % Len(p)) + 1]
  PROVE  /\ IsFiniteSet(is \cup {e}) /\ Cardinality(is \cup {e}) = Cardinality(is) + 1
         /\ Turns(p, is \cup {e})
  <1> DEFINE l == Len(p)
             c == Cardinality(is)
             rest == c % l
             b == Used(is, p[l])
             turn == rest + 1
  <1>1. /\ IsFiniteSet(is \cup {e}) /\ Cardinality(is \cup {e}) = c + 1
    BY FS_AddElement
  <1>2. l \in Nat /\ l > 0 /\ c \in Nat /\ DOMAIN p = 1..l BY FS_CardinalityType
  <1>3. b \in Nat BY UsedType
  <1> HIDE DEF l, c
  <1>4. rest \in 0..(l - 1) /\ (c + 1) % l = IF rest = l - 1 THEN 0 ELSE rest + 1
    BY <1>2, ModRange, ModNext
  <1> HIDE DEF rest
  <1>5. turn \in DOMAIN p /\ e.to = p[turn] BY <1>2, <1>4 DEF l, c, rest
  <1> HIDE DEF b
  <1>6. \A k \in DOMAIN p : Used(is, p[k]) = b + (IF k <= rest THEN 1 ELSE 0)
    BY DEF Turns, b, l, c, rest
  <1>7. \A k \in DOMAIN p : e.to = p[k] <=> k = turn BY <1>5
  <1>8. \A k \in DOMAIN p :
          Used(is \cup {e}, p[k]) = IF k = turn THEN Used(is, p[k]) + 1 ELSE Used(is, p[k])
    BY <1>7, UsedOneMore
  <1>9. \A k \in DOMAIN p : Used(is \cup {e}, p[k]) = b + (IF k <= turn THEN 1 ELSE 0)
    <2> TAKE k \in DOMAIN p
    <2>1. k \in 1..l BY <1>2
    <2>2. Used(is, p[k]) = b + (IF k <= rest THEN 1 ELSE 0) BY <1>6
    <2>3. Used(is \cup {e}, p[k]) = IF k = turn THEN Used(is, p[k]) + 1 ELSE Used(is, p[k]) BY <1>8
    <2> QED BY <1>3, <1>4, <2>1, <2>2, <2>3
  <1>10. l \in DOMAIN p BY <1>2
  <1>11. Used(is \cup {e}, p[l]) = b + (IF l <= turn THEN 1 ELSE 0) BY <1>9, <1>10
  <1>12. ASSUME NEW k \in DOMAIN p
         PROVE  Used(is \cup {e}, p[k]) =
                  Used(is \cup {e}, p[l]) + (IF k <= (c + 1) % l THEN 1 ELSE 0)
    <2>1. Used(is \cup {e}, p[k]) = b + (IF k <= turn THEN 1 ELSE 0) BY <1>9
    <2>2. k \in 1..l BY <1>2
    <2> QED BY <1>2, <1>3, <1>4, <1>11, <2>1, <2>2
  <1>13. Turns(p, is \cup {e}) BY <1>1, <1>12 DEF Turns, l, c
  <1> QED BY <1>1, <1>13 DEF c

\* g lists the k of them that are new, each in its turn.
InOrder(p, is, new, k, g) ==
  /\ new = {g[n] : n \in 1..k}
  /\ \A n \in 1..k : /\ g[n] \notin is
                     /\ g[n].to = p[((Cardinality(is) + (n - 1)) % Len(p)) + 1]
                     /\ \A m \in 1..k : g[m] = g[n] => m = n

\* A batch of them.
LEMMA BatchTurns ==
  ASSUME NEW p \in Seq(Questions), Len(p) > 0,
         \A m, n \in DOMAIN p : p[m] = p[n] => m = n,
         NEW is, IsFiniteSet(is), Turns(p, is),
         NEW new, NEW k \in Nat, NEW g, InOrder(p, is, new, k, g)
  PROVE  Turns(p, is \cup new)
  <1> DEFINE upTo(n) == is \cup {g[m] : m \in 1..n}
             Good(n) == /\ IsFiniteSet(upTo(n)) /\ Cardinality(upTo(n)) = Cardinality(is) + n
                        /\ Turns(p, upTo(n))
             Bad == {n \in 0..k : ~ Good(n)}
  <1>1. Cardinality(is) \in Nat BY FS_CardinalityType
  <1>2. Good(0)
    <2>1. upTo(0) = is OBVIOUS
    <2> HIDE DEF upTo
    <2> QED BY <1>1, <2>1
  <1>3. ASSUME NEW n \in 1..k, Good(n - 1) PROVE Good(n)
    <2>1. upTo(n) = upTo(n - 1) \cup {g[n]}
      <3>1. \A m : m \in 1..n <=> m \in 1..(n - 1) \/ m = n OBVIOUS
      <3>2. \A x : x \in {g[m] : m \in 1..n} <=> x \in {g[m] : m \in 1..(n - 1)} \/ x = g[n]
        <4>1. \A x : x \in {g[m] : m \in 1..n} <=> \E m \in 1..n : x = g[m] BY Zenon
        <4>2. \A x : x \in {g[m] : m \in 1..(n - 1)} <=> \E m \in 1..(n - 1) : x = g[m] BY Zenon
        <4> QED BY <3>1, <4>1, <4>2, Zenon
      <3> QED BY <3>2, Zenon
    <2>2. g[n] \notin upTo(n - 1)
      <3>1. \A m \in 1..(n - 1) : m \in 1..k /\ m # n OBVIOUS
      <3> QED BY <3>1 DEF InOrder
    <2> DEFINE before == upTo(n - 1)
    <2>3. /\ IsFiniteSet(before) /\ Cardinality(before) = Cardinality(is) + (n - 1)
          /\ Turns(p, before)
      BY <1>3
    <2>4. g[n].to = p[(Cardinality(before) % Len(p)) + 1]
      <3> HIDE DEF before
      <3> QED BY <2>3 DEF InOrder
    <2>5. g[n] \notin before /\ upTo(n) = before \cup {g[n]} BY <2>1, <2>2
    <2> HIDE DEF before, upTo
    <2>6. /\ IsFiniteSet(before \cup {g[n]}) /\ Cardinality(before \cup {g[n]}) = Cardinality(before) + 1
          /\ Turns(p, before \cup {g[n]})
      BY <2>3, <2>4, <2>5, NextTurn
    <2>7. Cardinality(upTo(n)) = Cardinality(is) + n BY <1>1, <2>3, <2>5, <2>6
    <2> QED BY <2>5, <2>6, <2>7
  <1> HIDE DEF Good
  <1>4. Bad = {}
    <2> SUFFICES ASSUME Bad # {} PROVE FALSE OBVIOUS
    <2>1. PICK n \in Bad : \A m \in Bad : n <= m
      <3>1. Bad \subseteq Nat OBVIOUS
      <3> HIDE DEF Bad
      <3> QED BY <3>1, Least
    <2>2. n # 0 BY <1>2, <2>1
    <2>3. n \in 1..k /\ n - 1 \in 0..k /\ n - 1 < n BY <2>1, <2>2
    <2>4. Good(n - 1) BY <2>1, <2>3
    <2> QED BY <1>3, <2>1, <2>3, <2>4
  <1>5. Good(k) BY <1>4
  <1>6. Turns(p, upTo(k)) BY <1>5 DEF Good
  <1>7. upTo(k) = is \cup new BY DEF InOrder
  <1> HIDE DEF upTo
  <1> QED BY <1>6, <1>7

-----------------------------------------------------------------------------
(***************************************************************************)
(* A set whose rotation was never pinned, overlapped or cut has lost no    *)
(* variant, and a batch of its invitations, decided but not yet committed, *)
(* is the only one and goes on from the invitations there are.             *)
(***************************************************************************)
Whole ==
  \A s \in DOMAIN pool :
    /\ Len(pool[s]) > 1
    /\ \A m, n \in DOMAIN pool[s] : pool[s][m] = pool[s][n] => m = n
    /\ s \notin skewed => Complete(s)

Sourced == \A i \in invites : i.set # NoSet => i.set \in DOMAIN pool /\ Made(i.set, i.to)

Ready(t) ==
  At(t, "batch") =>
    /\ th[t].set \in DOMAIN pool
    /\ \A n \in DOMAIN th[t].chosen : Made(th[t].set, th[t].chosen[n].q)

Continues(s, t) ==
  At(t, "batch") /\ th[t].set = s =>
    /\ \A u \in Threads : At(u, "batch") /\ th[u].set = s => u = t
    /\ \A n \in DOMAIN th[t].chosen :
         th[t].chosen[n].q = pool[s][((Cursor(s) + (n - 1)) % Len(pool[s])) + 1]

InTurn(s) == Turns(pool[s], InvitesOf(s)) /\ \A t \in Threads : Continues(s, t)

SetsKept == Whole /\ Sourced /\ \A t \in Threads : Ready(t)
Rotating == SetsKept /\ \A s \in DOMAIN pool \ skewed : InTurn(s)

-----------------------------------------------------------------------------
LEMMA SetsGrow ==
  ASSUME Typed, Rows, [Next]_vars
  PROVE  /\ skewed \subseteq skewed'
         /\ \A s \in DOMAIN pool : s \in DOMAIN pool' /\ pool'[s] = pool[s]
  <1>1. CASE Authoring BY <1>1, AuthoringAdds
  <1>2. ASSUME NEW t \in Threads, Begins(t) PROVE skewed \subseteq skewed' /\ UNCHANGED pool
    BY <1>2, BeginsReads
  <1>3. ASSUME NEW t \in Threads, Commits(t) PROVE skewed \subseteq skewed' /\ UNCHANGED pool
    BY <1>3, UpdateWrites, DeleteWrites, DropWrites, BatchWrites DEF Commits, Refused
  <1>4. ASSUME NEW x \in Questions \cup Assessments, InviteTo(x) PROVE UNCHANGED <<skewed, pool>>
    BY <1>4, InviteToWrites
  <1>5. ASSUME NEW i \in invites, Candidate(i) PROVE UNCHANGED <<skewed, pool>>
    BY <1>5, CandidateWrites
  <1> QED BY <1>1, <1>2, <1>3, <1>4, <1>5, Steps

LEMMA MadeOn ==
  ASSUME Typed, Rows, [Next]_vars, NEW s \in DOMAIN pool, NEW q, Made(s, q)
  PROVE  s \in DOMAIN pool' /\ Made(s, q)'
  BY SetsGrow DEF Made

\* What is deleted was made for no set that is not skewed by it.
LEMMA BankStep ==
  ASSUME Typed, Rows, [Next]_vars, NEW s \in DOMAIN pool, s \notin skewed', Complete(s)
  PROVE  Complete(s)'
  <1>1. pool'[s] = pool[s] BY SetsGrow
  <1>2. ASSUME DOMAIN bank \subseteq DOMAIN bank' PROVE Complete(s)'
    BY <1>1, <1>2 DEF Complete
  <1>3. CASE Authoring BY <1>2, <1>3, AuthoringAdds
  <1>4. ASSUME NEW t \in Threads, Begins(t) PROVE UNCHANGED bank BY <1>4, BeginsReads
  <1>5. ASSUME NEW t \in Threads, Commits(t) PROVE Complete(s)'
    <2>1. CASE CommitUpdate(t) BY <1>2, <2>1, UpdateWrites DEF Refused
    <2>2. CASE CommitDelete(t)
      <3>1. CASE Refused(t) BY <1>2, <3>1 DEF Refused
      <3>2. CASE ~ Refused(t)
        <4>1. /\ DOMAIN bank' = DOMAIN bank \ {th[t].q}
              /\ s \in skewed' <=> s \in skewed \/ (s \in DOMAIN pool /\ Made(s, th[t].q))
          BY <2>2, <3>2, DeleteWrites
        <4>2. ~ Made(s, th[t].q) BY <4>1
        <4> QED BY <1>1, <4>1, <4>2 DEF Made, Complete
      <3> QED BY <3>1, <3>2
    <2>3. CASE CommitDrop(t) BY <1>2, <2>3, DropWrites DEF Refused
    <2>4. CASE CommitBatch(t) BY <1>2, <2>4, BatchWrites DEF Refused
    <2> QED BY <1>5, <2>1, <2>2, <2>3, <2>4 DEF Commits
  <1>6. ASSUME NEW x \in Questions \cup Assessments, InviteTo(x) PROVE UNCHANGED bank
    BY <1>6, InviteToWrites
  <1>7. ASSUME NEW i \in invites, Candidate(i) PROVE UNCHANGED bank
    BY <1>7, CandidateWrites
  <1> QED BY <1>2, <1>3, <1>4, <1>5, <1>6, <1>7, Steps

LEMMA WholeNext ==
  ASSUME Typed, Rows, Whole, [Next]_vars
  PROVE  Whole'
  <1>1. ASSUME NEW s \in DOMAIN pool
        PROVE  /\ Len(pool'[s]) > 1
               /\ \A m, n \in DOMAIN pool'[s] : pool'[s][m] = pool'[s][n] => m = n
               /\ s \notin skewed' => Complete(s)'
    BY SetsGrow, BankStep DEF Whole
  <1>2. ASSUME NEW s \in DOMAIN pool' \ DOMAIN pool
        PROVE  /\ Len(pool'[s]) > 1
               /\ \A m, n \in DOMAIN pool'[s] : pool'[s][m] = pool'[s][n] => m = n
               /\ s \notin skewed' => Complete(s)'
    <2>1. ASSUME UNCHANGED pool PROVE FALSE BY <2>1
    <2>2. Authoring
      <3>1. ASSUME NEW t \in Threads, Begins(t) PROVE UNCHANGED pool BY <3>1, BeginsReads
      <3>2. ASSUME NEW t \in Threads, Commits(t) PROVE UNCHANGED pool
        BY <3>2, UpdateWrites, DeleteWrites, DropWrites, BatchWrites DEF Commits, Refused
      <3>3. ASSUME NEW x \in Questions \cup Assessments, InviteTo(x) PROVE UNCHANGED pool
        BY <3>3, InviteToWrites
      <3>4. ASSUME NEW i \in invites, Candidate(i) PROVE UNCHANGED pool BY <3>4, CandidateWrites
      <3> QED BY <2>1, <3>1, <3>2, <3>3, <3>4, Steps
    <2>3. /\ Len(pool'[s]) > 1
          /\ \A m, n \in DOMAIN pool'[s] : pool'[s][m] = pool'[s][n] => m = n
          /\ \A n \in DOMAIN pool'[s] : pool'[s][n] \in DOMAIN bank'
      BY <2>2, AuthoringAdds
    <2> QED BY <2>3 DEF Complete
  <1> QED BY <1>1, <1>2 DEF Whole

\* A link that loses its assessment came from no set.
LEMMA DropSpares ==
  ASSUME Typed, Sourced, NEW t \in Threads, CommitDrop(t)
  PROVE  \A i : i.set # NoSet => (i \in invites' <=> i \in invites)
  <1>1. CASE Refused(t) BY <1>1 DEF Refused
  <1>2. CASE ~ Refused(t)
    <2>1. At(t, "drop") /\ invites' = Unlinked(th[t].of) BY <1>2, DropWrites
    <2>2. th[t].of \notin Questions BY <2>1, ThreadTypes, LibraryAssumption
    <2>3. ASSUME NEW j \in invites, j.to = th[t].of PROVE j.set = NoSet
      <3>1. SUFFICES ASSUME j.set # NoSet PROVE FALSE OBVIOUS
      <3>2. PICK n \in DOMAIN pool[j.set] : pool[j.set][n] = j.to /\ j.set \in DOMAIN pool
        BY <3>1 DEF Sourced, Made
      <3>3. pool[j.set] \in Seq(Questions) BY <3>2 DEF Typed, TypeOK
      <3>4. pool[j.set][n] \in Questions BY <3>3
      <3> QED BY <2>2, <2>3, <3>2, <3>4
    <2>4. ASSUME NEW i \in invites, i.set # NoSet PROVE i \in invites'
      BY <2>1, <2>3, <2>4 DEF Unlinked
    <2>5. ASSUME NEW i \in invites', i.set # NoSet PROVE i \in invites
      <3>1. PICK j \in invites : /\ j.set = i.set
                                /\ i = IF j.to = th[t].of THEN [j EXCEPT !.to = NoQuestion] ELSE j
        BY <2>1, UnlinkedRows
      <3> QED BY <2>3, <2>5, <3>1
    <2> QED BY <2>4, <2>5
  <1> QED BY <1>1, <1>2

LEMMA SourcedNext ==
  ASSUME Typed, Rows, Sourced, \A t \in Threads : Ready(t), [Next]_vars
  PROVE  Sourced'
  <1>1. ASSUME NEW i \in invites, i.set # NoSet PROVE i.set \in DOMAIN pool' /\ Made(i.set, i.to)'
    <2>1. i.set \in DOMAIN pool /\ Made(i.set, i.to) BY <1>1 DEF Sourced
    <2>2. PICK s, q : s = i.set /\ q = i.to OBVIOUS
    <2>3. s \in DOMAIN pool' /\ Made(s, q)' BY <2>1, <2>2, MadeOn
    <2> QED BY <2>2, <2>3 DEF Made
  <1>2. ASSUME invites' \subseteq invites PROVE Sourced' BY <1>1, <1>2 DEF Sourced
  <1>3. CASE Authoring BY <1>2, <1>3, AuthoringAdds
  <1>4. ASSUME NEW t \in Threads, Begins(t) PROVE UNCHANGED invites BY <1>4, BeginsReads
  <1>5. ASSUME NEW t \in Threads, Commits(t) PROVE Sourced'
    <2>1. CASE CommitUpdate(t) BY <1>2, <2>1, UpdateWrites DEF Refused
    <2>2. CASE CommitDelete(t) BY <1>2, <2>2, DeleteWrites DEF Refused
    <2>3. CASE CommitDrop(t) BY <1>1, <2>3, DropSpares DEF Sourced
    <2>4. CASE CommitBatch(t)
      <3>1. CASE Refused(t) BY <1>2, <3>1 DEF Refused
      <3>2. CASE ~ Refused(t)
        <4>1. invites' = invites \cup Entries(th[t]) /\ UNCHANGED pool /\ At(t, "batch")
          BY <2>4, <3>2, BatchWrites
        <4>2. /\ th[t].set \in DOMAIN pool
              /\ \A n \in DOMAIN th[t].chosen : Made(th[t].set, th[t].chosen[n].q)
          BY <4>1 DEF Ready
        <4>3. \A i \in Entries(th[t]) : i.set \in DOMAIN pool /\ Made(i.set, i.to)
          BY <4>2 DEF Entries, Entry
        <4>4. \A i \in invites' : i.set # NoSet => i.set \in DOMAIN pool /\ Made(i.set, i.to)
          BY <4>1, <4>3 DEF Sourced
        <4> QED BY <4>1, <4>4 DEF Sourced, Made
      <3> QED BY <3>1, <3>2
    <2> QED BY <1>5, <2>1, <2>2, <2>3, <2>4 DEF Commits
  <1>6. ASSUME NEW x \in Questions \cup Assessments, InviteTo(x) PROVE Sourced'
    <2>1. UNCHANGED pool /\ \A i \in invites' \ invites : i.set = NoSet BY <1>6, InviteToWrites
    <2>2. \A i \in invites' : i.set # NoSet => i.set \in DOMAIN pool /\ Made(i.set, i.to)
      BY <2>1 DEF Sourced
    <2> QED BY <2>1, <2>2 DEF Sourced, Made
  <1>7. ASSUME NEW i \in invites, Candidate(i) PROVE UNCHANGED invites BY <1>7, CandidateWrites
  <1> QED BY <1>2, <1>3, <1>4, <1>5, <1>6, <1>7, Steps

-----------------------------------------------------------------------------
(* One thread at a time. *)

LEMMA CommitsEnds ==
  ASSUME Typed, NEW t \in Threads, Commits(t)
  PROVE  th'[t] = Idle /\ \A u \in Threads \ {t} : th'[u] = th[u]
  <1>1. Goto(t, Idle)
    BY UpdateWrites, DeleteWrites, DropWrites, BatchWrites DEF Commits, Refused
  <1> QED BY <1>1, IdleTypes, GotoTypes

LEMMA BeginsGoto ==
  ASSUME Typed, NEW t \in Threads, Begins(t)
  PROVE  /\ \A u \in Threads \ {t} : th'[u] = th[u]
         /\ th'[t].pc = "batch" =>
              \E s \in Sets, pins \in case.batches :
                /\ InviteBatch(t, s, pins)
                /\ th'[t].set = s /\ th'[t].chosen = Chosen(s, pins)
  <1> DEFINE Goes ==
        /\ \A u \in Threads \ {t} : th'[u] = th[u]
        /\ th'[t].pc = "batch" =>
             \E s \in Sets, pins \in case.batches :
               /\ InviteBatch(t, s, pins)
               /\ th'[t].set = s /\ th'[t].chosen = Chosen(s, pins)
  <1>1. ASSUME NEW l, Goto(t, l) PROVE th'[t] = l /\ \A u \in Threads \ {t} : th'[u] = th[u]
    BY <1>1 DEF Goto, Typed, TypeOK
  <1>2. ASSUME NEW a \in Assessments, NEW l \in case.lists, NEW m \in Terms, UpdateSlots(t, a, l, m)
        PROVE  Goes
    <2> DEFINE k == [pc |-> "update", of |-> a, old |-> SlotsOf(a), new |-> l, terms |-> m]
    <2>1. Goto(t, k) BY <1>2 DEF UpdateSlots
    <2>2. k.pc = "update" OBVIOUS
    <2> HIDE DEF k
    <2> QED BY <1>1, <2>1, <2>2
  <1>3. ASSUME NEW a \in Assessments, DeleteAssessment(t, a) PROVE Goes
    <2> DEFINE k == [pc |-> "drop", of |-> a, old |-> SlotsOf(a)]
    <2>1. Goto(t, k) BY <1>3 DEF DeleteAssessment
    <2>2. k.pc = "drop" OBVIOUS
    <2> HIDE DEF k
    <2> QED BY <1>1, <2>1, <2>2
  <1>4. ASSUME NEW q \in Questions, DeleteQuestion(t, q) PROVE Goes
    <2> DEFINE k == [pc |-> "delete", q |-> q, invites |-> InvitesTo(q), drafts |-> DraftsOf(q)]
    <2>1. Goto(t, k) BY <1>4 DEF DeleteQuestion
    <2>2. k.pc = "delete" OBVIOUS
    <2> HIDE DEF k
    <2> QED BY <1>1, <2>1, <2>2
  <1>5. ASSUME NEW s \in Sets, NEW pins \in case.batches, InviteBatch(t, s, pins) PROVE Goes
    <2> DEFINE k == [pc |-> "batch", set |-> s, chosen |-> Chosen(s, pins)]
    <2>1. Goto(t, k) BY <1>5 DEF InviteBatch
    <2>2. k.pc = "batch" /\ k.set = s /\ k.chosen = Chosen(s, pins) OBVIOUS
    <2> HIDE DEF k
    <2> QED BY <1>1, <1>5, <2>1, <2>2
  <1> HIDE DEF Goes
  <1>6. Goes BY <1>2, <1>3, <1>4, <1>5 DEF Begins
  <1> QED BY <1>6 DEF Goes

\* A thread stays, returns or sets out.
LEMMA ThreadStep ==
  ASSUME Typed, Rows, [Next]_vars, NEW u \in Threads
  PROVE  \/ th'[u] = th[u]
         \/ th'[u] = Idle
         \/ Begins(u)
  <1>1. CASE Authoring BY <1>1, AuthoringAdds
  <1>2. ASSUME NEW t \in Threads, Begins(t) PROVE th'[u] = th[u] \/ Begins(u)
    BY <1>2, BeginsGoto
  <1>3. ASSUME NEW t \in Threads, Commits(t) PROVE th'[u] = th[u] \/ th'[u] = Idle
    BY <1>3, CommitsEnds
  <1>4. ASSUME NEW x \in Questions \cup Assessments, InviteTo(x) PROVE UNCHANGED th
    BY <1>4, InviteToWrites
  <1>5. ASSUME NEW i \in invites, Candidate(i) PROVE UNCHANGED th BY <1>5, CandidateWrites
  <1> QED BY <1>1, <1>2, <1>3, <1>4, <1>5, Steps

LEMMA ReadyNext ==
  ASSUME Typed, Rows, [Next]_vars, NEW u \in Threads, Ready(u)
  PROVE  Ready(u)'
  <1>1. CASE th'[u] = th[u]
    <2>1. At(u, "batch")' =>
            /\ th'[u].set \in DOMAIN pool'
            /\ \A n \in DOMAIN th'[u].chosen : Made(th[u].set, th[u].chosen[n].q)'
      <3>1. PICK s : s = th[u].set OBVIOUS
      <3>2. At(u, "batch")' => At(u, "batch") BY <1>1 DEF At
      <3>3. At(u, "batch") => s \in DOMAIN pool /\ s \in DOMAIN pool' /\ pool'[s] = pool[s]
        BY <3>1, SetsGrow DEF Ready
      <3>4. At(u, "batch") => \A n \in DOMAIN th[u].chosen : Made(s, th[u].chosen[n].q)
        BY <3>1 DEF Ready
      <3> QED BY <1>1, <3>1, <3>2, <3>3, <3>4 DEF Made
    <2> QED BY <1>1, <2>1 DEF Ready, At, Made
  <1>2. CASE th'[u] = Idle BY <1>2 DEF Ready, At, Idle
  <1>3. CASE Begins(u)
    <2>2. th'[u].pc = "batch" =>
            /\ th'[u].set \in DOMAIN pool
            /\ \A n \in DOMAIN th'[u].chosen :
                 \E m \in DOMAIN pool[th'[u].set] : pool[th'[u].set][m] = th'[u].chosen[n].q
      <3> SUFFICES ASSUME th'[u].pc = "batch"
                   PROVE  /\ th'[u].set \in DOMAIN pool
                          /\ \A n \in DOMAIN th'[u].chosen :
                               \E m \in DOMAIN pool[th'[u].set] :
                                 pool[th'[u].set][m] = th'[u].chosen[n].q
        OBVIOUS
      <3>1. PICK s \in Sets, pins \in case.batches :
              InviteBatch(u, s, pins) /\ th'[u].set = s /\ th'[u].chosen = Chosen(s, pins)
        BY <1>3, BeginsGoto
      <3>2. s \in DOMAIN pool BY <3>1 DEF InviteBatch
      <3>3. /\ DOMAIN Chosen(s, pins) = DOMAIN pins
            /\ \A n \in DOMAIN pins : Made(s, Chosen(s, pins)[n].q)
        BY <3>1, ChosenTypes
      <3> QED BY <3>1, <3>2, <3>3 DEF Made
    <2>3. UNCHANGED pool BY <1>3, BeginsReads
    <2> QED BY <2>2, <2>3 DEF Ready, At, Made
  <1> QED BY <1>1, <1>2, <1>3, ThreadStep

-----------------------------------------------------------------------------
\* A batch without a pin takes the turns that come next.
LEMMA ChosenInTurn ==
  ASSUME Typed, Whole, NEW t \in Threads, NEW s \in Sets, NEW pins \in case.batches,
         InviteBatch(t, s, pins), s \notin skewed'
  PROVE  /\ s \in DOMAIN pool
         /\ \A u \in Threads \ {t} : ~ (At(u, "batch") /\ th[u].set = s)
         /\ \A n \in DOMAIN Chosen(s, pins) :
              Chosen(s, pins)[n].q = pool[s][((Cursor(s) + (n - 1)) % Len(pool[s])) + 1]
  <1> DEFINE vs == Variants(s)
             before(n) == Cardinality({m \in 1..(n - 1) : pins[m] = NoQuestion})
             turn(n) == vs[((Cursor(s) + before(n)) % Len(vs)) + 1]
             of(n) == IF pins[n] = NoQuestion THEN turn(n) ELSE pins[n]
  <1>1. /\ s \in DOMAIN pool /\ s \notin skewed
        /\ \A u \in Threads \ {t} : ~ (At(u, "batch") /\ th[u].set = s)
        /\ \A n \in DOMAIN pins : pins[n] = NoQuestion
    BY DEF InviteBatch
  <1>2. vs = pool[s] BY <1>1, VariantsWhole DEF Whole, Typed, TypeOK
  <1>3. pins \in Seq(Questions \cup {NoQuestion})
    BY CaseTypes, LibraryAssumption DEF Typed, TypeOK
  <1>4. \A n \in DOMAIN pins : before(n) = n - 1
    <2> TAKE n \in DOMAIN pins
    <2>1. n - 1 \in Int /\ n - 1 >= 0 /\ \A m \in 1..(n - 1) : m \in DOMAIN pins BY <1>3
    <2>2. {m \in 1..(n - 1) : pins[m] = NoQuestion} = 1..(n - 1) BY <1>1, <2>1
    <2>3. Cardinality(1..(n - 1)) = IF 1 > n - 1 THEN 0 ELSE n - 1 - 1 + 1 BY <2>1, FS_Interval
    <2>4. Cardinality(1..(n - 1)) = n - 1 BY <2>1, <2>3
    <2> QED BY <2>2, <2>4
  <1>5. Chosen(s, pins) = [n \in DOMAIN pins |->
          [q |-> of(n), terms |-> bank[of(n)], pinned |-> pins[n] # NoQuestion]]
    BY DEF Chosen
  <1> HIDE DEF vs, before
  <1>6. \A n \in DOMAIN pins : of(n) = vs[((Cursor(s) + (n - 1)) % Len(vs)) + 1]
    BY <1>1, <1>4
  <1> HIDE DEF of
  <1>7. \A n \in DOMAIN pins : Chosen(s, pins)[n].q = of(n) BY <1>5
  <1>8. DOMAIN Chosen(s, pins) = DOMAIN pins BY <1>5
  <1> QED BY <1>1, <1>2, <1>6, <1>7, <1>8

\* The invitations of a set whose rotation is not cut: those there were, and
\* those of a batch.
LEMMA SetStep ==
  ASSUME Typed, Rows, \A t \in Threads : Ready(t), Sourced, [Next]_vars,
         NEW s \in Sets, s \notin skewed'
  PROVE  \/ InvitesOf(s)' = InvitesOf(s)
         \/ \E t \in Threads : /\ CommitBatch(t) /\ At(t, "batch") /\ th[t].set = s
                               /\ InvitesOf(s)' = InvitesOf(s) \cup Entries(th[t])
  <1>1. ASSUME UNCHANGED invites PROVE InvitesOf(s)' = InvitesOf(s) BY <1>1 DEF InvitesOf
  <1>2. CASE Authoring BY <1>1, <1>2, AuthoringAdds
  <1>3. ASSUME NEW t \in Threads, Begins(t) PROVE UNCHANGED invites BY <1>3, BeginsReads
  <1>4. ASSUME NEW t \in Threads, Commits(t)
        PROVE  \/ InvitesOf(s)' = InvitesOf(s)
               \/ /\ CommitBatch(t) /\ At(t, "batch") /\ th[t].set = s
                  /\ InvitesOf(s)' = InvitesOf(s) \cup Entries(th[t])
    <2>1. CASE CommitUpdate(t) BY <1>1, <2>1, UpdateWrites DEF Refused
    <2>2. CASE CommitDelete(t)
      <3>1. CASE Refused(t) BY <1>1, <3>1 DEF Refused
      <3>2. CASE ~ Refused(t)
        <4>1. /\ invites' = invites \ InvitesTo(th[t].q)
              /\ s \in skewed' <=> s \in skewed \/ (s \in DOMAIN pool /\ Made(s, th[t].q))
          BY <2>2, <3>2, DeleteWrites
        <4>2. \A i \in invites : i.set = s => s \in DOMAIN pool /\ Made(s, i.to)
          BY LibraryAssumption DEF Sourced
        <4>3. \A i \in InvitesTo(th[t].q) : i.set # s BY <4>1, <4>2 DEF InvitesTo
        <4> QED BY <4>1, <4>3 DEF InvitesOf
      <3> QED BY <3>1, <3>2
    <2>3. CASE CommitDrop(t)
      <3>1. s # NoSet BY LibraryAssumption
      <3> QED BY <2>3, <3>1, DropSpares DEF InvitesOf
    <2>4. CASE CommitBatch(t)
      <3>1. CASE Refused(t) BY <1>1, <3>1 DEF Refused
      <3>2. CASE ~ Refused(t)
        <4>1. At(t, "batch") /\ invites' = invites \cup Entries(th[t]) BY <2>4, <3>2, BatchWrites
        <4>2. \A i \in Entries(th[t]) : i.set = th[t].set BY DEF Entries, Entry
        <4>3. CASE th[t].set = s
          <5>1. InvitesOf(s)' = InvitesOf(s) \cup Entries(th[t]) BY <4>1, <4>2, <4>3 DEF InvitesOf
          <5> QED BY <2>4, <4>1, <4>3, <5>1
        <4>4. CASE th[t].set # s
          <5>1. InvitesOf(s)' = InvitesOf(s) BY <4>1, <4>2, <4>4 DEF InvitesOf
          <5> QED BY <5>1
        <4> QED BY <4>3, <4>4
      <3> QED BY <3>1, <3>2
    <2> QED BY <1>4, <2>1, <2>2, <2>3, <2>4 DEF Commits
  <1>5. ASSUME NEW x \in Questions \cup Assessments, InviteTo(x) PROVE InvitesOf(s)' = InvitesOf(s)
    <2>1. PICK i \in Invite : invites' = invites \cup {i} /\ i.set = NoSet BY <1>5, InviteToWrites
    <2>2. NoSet # s BY LibraryAssumption
    <2> QED BY <2>1, <2>2 DEF InvitesOf
  <1>6. ASSUME NEW i \in invites, Candidate(i) PROVE UNCHANGED invites BY <1>6, CandidateWrites
  <1> QED BY <1>1, <1>2, <1>3, <1>4, <1>5, <1>6, Steps

\* The invitations of a committed batch have each taken their turn.
LEMMA BatchInTurn ==
  ASSUME RowsInv, Whole, NEW t \in Threads, CommitBatch(t),
         NEW s \in DOMAIN pool, At(t, "batch"), th[t].set = s, InTurn(s)
  PROVE  Turns(pool[s], InvitesOf(s) \cup Entries(th[t]))
  <1> DEFINE k == Len(th[t].chosen)
             g == [n \in 1..k |-> Entry(th[t], n)]
             is == InvitesOf(s)
             p == pool[s]
  <1>1. Typed /\ Numbered BY DEF RowsInv
  <1>2. DOMAIN th[t].chosen = 1..k /\ k \in Nat BY <1>1, EntryTypes
  <1>3. IsFiniteSet(is)
    <2>1. is \in SUBSET invites BY DEF InvitesOf
    <2> QED BY <1>1, <2>1, FS_Subset DEF Typed
  <1>4. p \in Seq(Questions) /\ Len(p) > 0 /\ \A m, n \in DOMAIN p : p[m] = p[n] => m = n
    <2>1. p \in Seq(Questions) BY <1>1 DEF Typed, TypeOK
    <2>2. Len(p) > 1 /\ \A m, n \in DOMAIN p : p[m] = p[n] => m = n BY DEF Whole
    <2>3. Len(p) \in Nat BY <2>1
    <2> QED BY <2>1, <2>2, <2>3
  <1>5. Turns(p, is) /\ Continues(s, t) BY DEF InTurn
  <1>6. \A n \in 1..k : th[t].chosen[n].q = p[((Cardinality(is) + (n - 1)) % Len(p)) + 1]
    BY <1>2, <1>5 DEF Continues, Cursor
  <1>7. made \in Nat /\ \A i \in is : i.id <= made /\ i.id \in Nat
    <2>1. made \in Nat /\ \A i \in invites : i.id \in Nat
      BY <1>1, LibraryAssumption DEF Typed, TypeOK, Invite
    <2>2. \A i \in invites : i.id <= made BY <1>1 DEF Numbered
    <2>3. is \subseteq invites BY DEF InvitesOf
    <2> HIDE DEF is
    <2> QED BY <2>1, <2>2, <2>3
  <1>8. \A n \in 1..k : g[n].id = made + n /\ g[n].to = th[t].chosen[n].q
    <2> TAKE n \in 1..k
    <2>1. g[n] = Entry(th[t], n) OBVIOUS
    <2> HIDE DEF g
    <2> QED BY <2>1 DEF Entry
  <1>9. Entries(th[t]) = {g[n] : n \in 1..k}
    <2>1. Entries(th[t]) = {Entry(th[t], n) : n \in 1..k} BY <1>2 DEF Entries
    <2>2. \A n \in 1..k : g[n] = Entry(th[t], n) OBVIOUS
    <2> HIDE DEF g
    <2> QED BY <2>1, <2>2
  <1> HIDE DEF g, k, is, p
  <1>10. InOrder(p, is, Entries(th[t]), k, g)
    <2> SUFFICES ASSUME NEW n \in 1..k
                 PROVE  /\ g[n] \notin is
                        /\ g[n].to = p[((Cardinality(is) + (n - 1)) % Len(p)) + 1]
                        /\ \A m \in 1..k : g[m] = g[n] => m = n
      BY <1>9 DEF InOrder
    <2>1. g[n].id = made + n /\ n \in Nat /\ n > 0 BY <1>2, <1>8
    <2>2. g[n] \notin is BY <1>7, <2>1
    <2>3. ASSUME NEW m \in 1..k, g[m] = g[n] PROVE m = n
      <3>1. made + m = made + n BY <1>8, <2>3
      <3> QED BY <1>2, <1>7, <3>1
    <2> QED BY <1>6, <1>8, <2>2, <2>3
  <1>11. Turns(p, is \cup Entries(th[t]))
    <2>1. k \in Nat /\ p \in Seq(Questions) BY <1>2, <1>4
    <2>2. Len(p) > 0 /\ \A m, n \in DOMAIN p : p[m] = p[n] => m = n BY <1>4
    <2>3. IsFiniteSet(is) /\ Turns(p, is) BY <1>3, <1>5
    <2> QED BY <1>10, <2>1, <2>2, <2>3, BatchTurns
  <1> QED BY <1>11 DEF p, is

-----------------------------------------------------------------------------
\* A batch in hand goes on to be the next one, and the only one.
LEMMA ContinuesNext ==
  ASSUME RowsInv, Rotating, [Next]_vars,
         NEW s \in DOMAIN pool', s \notin skewed', NEW t \in Threads
  PROVE  Continues(s, t)'
  <1>1. /\ Typed /\ Rows /\ Whole /\ Sourced /\ \A u \in Threads : Ready(u)
        /\ \A x \in DOMAIN pool \ skewed : InTurn(x)
    BY DEF RowsInv, Rotating, SetsKept
  <1>2. s \in Sets /\ s \notin skewed
    <2>1. Typed' BY <1>1, TypedNext
    <2> QED BY <1>1, <2>1, SetsGrow DEF Typed, TypeOK
  <1>3. SUFFICES ASSUME At(t, "batch")', th'[t].set = s
        PROVE  /\ \A u \in Threads : At(u, "batch")' /\ th'[u].set = s => u = t
               /\ \A n \in DOMAIN th'[t].chosen :
                    th'[t].chosen[n].q = pool'[s][((Cursor(s)' + (n - 1)) % Len(pool'[s])) + 1]
    BY DEF Continues
  \* Another that sets out with the same set while t is under way skews it.
  <1>4. ASSUME NEW u \in Threads, Begins(u), At(u, "batch")', th'[u].set = s
        PROVE  /\ s \in DOMAIN pool
               /\ \A v \in Threads \ {u} : ~ (At(v, "batch") /\ th[v].set = s) /\ th'[v] = th[v]
               /\ \A n \in DOMAIN th'[u].chosen :
                    th'[u].chosen[n].q = pool[s][((Cursor(s) + (n - 1)) % Len(pool[s])) + 1]
    <2>1. th'[u].pc = "batch" BY <1>4 DEF At
    <2>2. PICK x \in Sets, pins \in case.batches :
            InviteBatch(u, x, pins) /\ th'[u].set = x /\ th'[u].chosen = Chosen(x, pins)
      BY <1>1, <1>4, <2>1, BeginsGoto
    <2>3. x = s BY <1>4, <2>2
    <2>4. /\ s \in DOMAIN pool
          /\ \A v \in Threads \ {u} : ~ (At(v, "batch") /\ th[v].set = s)
          /\ \A n \in DOMAIN Chosen(s, pins) :
               Chosen(s, pins)[n].q = pool[s][((Cursor(s) + (n - 1)) % Len(pool[s])) + 1]
      BY <1>1, <1>2, <2>2, <2>3, ChosenInTurn
    <2>5. \A v \in Threads \ {u} : th'[v] = th[v] BY <1>1, <1>4, BeginsGoto
    <2> QED BY <2>2, <2>3, <2>4, <2>5
  <1>5. CASE Begins(t)
    <2>1. UNCHANGED <<pool, invites>> BY <1>5, BeginsReads
    <2>2. Cursor(s)' = Cursor(s) BY <2>1 DEF Cursor, InvitesOf
    <2>3. \A u \in Threads : At(u, "batch")' /\ th'[u].set = s => u = t
      BY <1>3, <1>4, <1>5 DEF At
    <2> QED BY <1>3, <1>4, <1>5, <2>1, <2>2, <2>3
  <1>6. CASE ~ Begins(t)
    <2>1. th'[t] = th[t]
      <3>1. th'[t] # Idle BY <1>3 DEF At, Idle
      <3> QED BY <1>1, <1>6, <3>1, ThreadStep
    <2>2. At(t, "batch") /\ th[t].set = s BY <1>3, <2>1 DEF At
    <2>3. s \in DOMAIN pool BY <1>1, <2>2 DEF Ready
    <2>4. pool'[s] = pool[s] BY <1>1, <2>3, SetsGrow
    <2>5. Continues(s, t) BY <1>1, <1>2, <2>3 DEF InTurn
    <2>6. /\ \A u \in Threads : At(u, "batch") /\ th[u].set = s => u = t
          /\ \A n \in DOMAIN th[t].chosen :
               th[t].chosen[n].q = pool[s][((Cursor(s) + (n - 1)) % Len(pool[s])) + 1]
      BY <2>2, <2>5 DEF Continues
    <2>7. ASSUME NEW u \in Threads, At(u, "batch")', th'[u].set = s PROVE u = t
      <3>1. CASE th'[u] = th[u] BY <2>6, <2>7, <3>1 DEF At
      <3>2. CASE th'[u] = Idle BY <2>7, <3>2 DEF At, Idle
      <3>3. CASE Begins(u) BY <1>4, <2>2, <2>7, <3>3
      <3> QED BY <1>1, <3>1, <3>2, <3>3, ThreadStep
    <2>8. Cursor(s)' = Cursor(s)
      <3>1. InvitesOf(s)' = InvitesOf(s)
        <4>1. ASSUME NEW u \in Threads, CommitBatch(u), At(u, "batch"), th[u].set = s PROVE FALSE
          <5>1. u = t BY <2>6, <4>1
          <5>2. th'[t] = Idle BY <1>1, <4>1, <5>1, CommitsEnds DEF Commits
          <5> QED BY <1>3, <5>2 DEF At, Idle
        <4> QED BY <1>1, <1>2, <4>1, SetStep
      <3> QED BY <3>1 DEF Cursor
    <2> QED BY <2>1, <2>4, <2>6, <2>7, <2>8
  <1> QED BY <1>5, <1>6

LEMMA InTurnNext ==
  ASSUME RowsInv, Rotating, [Next]_vars, NEW s \in DOMAIN pool', s \notin skewed'
  PROVE  InTurn(s)'
  <1>1. /\ Typed /\ Rows /\ Whole /\ Sourced /\ \A u \in Threads : Ready(u)
        /\ \A x \in DOMAIN pool \ skewed : InTurn(x)
    BY DEF RowsInv, Rotating, SetsKept
  <1>2. Typed' /\ Whole' BY <1>1, TypedNext, WholeNext
  <1>3. s \in Sets /\ s \notin skewed BY <1>1, <1>2, SetsGrow DEF Typed, TypeOK
  <1>4. PICK p : p = pool'[s] OBVIOUS
  <1>5. p \in Seq(Questions) /\ Len(p) > 0
    <2>1. p \in Seq(Questions) BY <1>2, <1>4 DEF Typed, TypeOK
    <2>2. Len(p) > 1 BY <1>2, <1>4 DEF Whole
    <2>3. Len(p) \in Nat BY <2>1
    <2> QED BY <2>1, <2>2, <2>3
  <1>6. PICK is : is = InvitesOf(s)' OBVIOUS
  <1>7. Turns(p, is)
    <2>1. CASE s \notin DOMAIN pool
      <3>1. InvitesOf(s) = {} BY <1>1, <1>3, <2>1, LibraryAssumption DEF InvitesOf, Sourced
      <3>2. \A u \in Threads : At(u, "batch") => th[u].set # s BY <1>1, <2>1 DEF Ready
      <3>3. is = {} BY <1>1, <1>3, <1>6, <3>1, <3>2, SetStep
      <3> QED BY <1>5, <3>3, NobodyYet
    <2>2. CASE s \in DOMAIN pool
      <3>1. InTurn(s) /\ p = pool[s] BY <1>1, <1>3, <1>4, <2>2, SetsGrow
      <3>2. CASE InvitesOf(s)' = InvitesOf(s) BY <1>6, <3>1, <3>2 DEF InTurn
      <3>3. ASSUME NEW u \in Threads, CommitBatch(u), At(u, "batch"), th[u].set = s,
                   InvitesOf(s)' = InvitesOf(s) \cup Entries(th[u])
            PROVE  Turns(p, is)
        <4>1. Turns(pool[s], InvitesOf(s) \cup Entries(th[u])) BY <1>1, <2>2, <3>1, <3>3, BatchInTurn
        <4> QED BY <1>6, <3>1, <3>3, <4>1
      <3> QED BY <1>1, <1>3, <3>2, <3>3, SetStep
    <2> QED BY <2>1, <2>2
  <1>8. Turns(pool[s], InvitesOf(s))' BY <1>4, <1>6, <1>7 DEF Turns
  <1>9. \A t \in Threads : Continues(s, t)' BY <1>3, ContinuesNext
  <1> QED BY <1>8, <1>9 DEF InTurn

LEMMA RotatingInit ==
  ASSUME Init
  PROVE  Rotating
  <1>1. \A f : f = <<>> => DOMAIN f = {} OBVIOUS
  <1>2. DOMAIN pool = {} /\ invites = {} BY <1>1 DEF Init
  <1>3. \A t \in Threads : th[t].pc = "idle" BY DEF Init, Idle
  <1>4. Whole /\ Sourced BY <1>2 DEF Whole, Sourced
  <1>5. \A t \in Threads : Ready(t) BY <1>3 DEF Ready, At
  <1> QED BY <1>2, <1>4, <1>5 DEF Rotating, SetsKept

LEMMA RotatingNext ==
  ASSUME RowsInv, Rotating, [Next]_vars
  PROVE  Rotating'
  <1>1. Typed /\ Rows /\ Whole /\ Sourced /\ \A u \in Threads : Ready(u)
    BY DEF RowsInv, Rotating, SetsKept
  <1>2. Whole' /\ Sourced' BY <1>1, WholeNext, SourcedNext
  <1>3. \A u \in Threads : Ready(u)' BY <1>1, ReadyNext
  <1>4. \A s \in DOMAIN pool' : s \notin skewed' => InTurn(s)' BY InTurnNext
  <1> QED BY <1>2, <1>3, <1>4 DEF Rotating, SetsKept

LEMMA RotationCorrect == Spec => [](RowsInv /\ Rotating)
  <1>1. Init => RowsInv /\ Rotating BY RowsInvInit, RotatingInit
  <1>2. (RowsInv /\ Rotating) /\ [Next]_vars => (RowsInv /\ Rotating)'
    BY RowsInvNext, RotatingNext
  <1> QED BY <1>1, <1>2, PTL DEF Spec

\* create_variant_set_invites: repeated calls keep the whole set evenly used.
THEOREM UsedEvenly == Spec => []EvenlyUsed
  <1>1. RowsInv /\ Rotating => EvenlyUsed
    <2> SUFFICES ASSUME RowsInv, Rotating, NEW s \in DOMAIN pool \ skewed,
                        NEW m \in DOMAIN pool[s], NEW n \in DOMAIN pool[s]
                 PROVE  Cardinality({i \in InvitesOf(s) : i.to = pool[s][m]})
                          <= Cardinality({i \in InvitesOf(s) : i.to = pool[s][n]}) + 1
      BY DEF EvenlyUsed
    <2> DEFINE is == InvitesOf(s)
               p == pool[s]
               b == Used(is, p[Len(p)])
    <2>1. IsFiniteSet(is)
      <3>1. is \in SUBSET invites BY DEF InvitesOf
      <3> QED BY <3>1, FS_Subset DEF RowsInv, Typed
    <2>2. b \in Nat BY <2>1, UsedType
    <2>3. Turns(p, is) BY DEF Rotating, InTurn
    <2> HIDE DEF is, p
    <2>4. Used(is, p[m]) = b + (IF m <= Cardinality(is) % Len(p) THEN 1 ELSE 0)
      BY <2>3 DEF Turns, p
    <2>5. Used(is, p[n]) = b + (IF n <= Cardinality(is) % Len(p) THEN 1 ELSE 0)
      BY <2>3 DEF Turns, p
    <2> HIDE DEF b
    <2>6. Used(is, p[m]) <= Used(is, p[n]) + 1 BY <2>2, <2>4, <2>5
    <2> QED BY <2>6 DEF Used, is, p
  <1> QED BY <1>1, RotationCorrect, PTL

=============================================================================
