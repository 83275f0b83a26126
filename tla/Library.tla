------------------------------- MODULE Library -------------------------------
(***************************************************************************)
(* What interviewers prepare and send: assessment_platform/api.py, the     *)
(* routes on questions, variant sets, assessments and their invitations,   *)
(* against the candidates' rows that hang on them.                         *)
(*                                                                         *)
(* A thread is an interviewer's request that decides by what it read and   *)
(* commits later: replacing an assessment's slots, deleting, a batch of    *)
(* invitations.  A commit that would leave a foreign key dangling is       *)
(* refused whole (500) and changes nothing.  What a deletion takes along   *)
(* the ORM loads some time after the check: whatever has come in between   *)
(* goes along too, or has come too late to be loaded and is refused for.   *)
(* Every other request is one step: whatever is committed between its      *)
(* reads and its commit either makes that commit fail or could have come   *)
(* first.                                                                  *)
(*                                                                         *)
(* Abstracted: one organisation; of a question or an assessment, what is   *)
(* offered (its slots) and its terms (duration, monitoring) that an        *)
(* invitation freezes; one recipient to an invitation, whose links neither *)
(* expire nor are revoked (see Sittings).  Capacity may refuse an          *)
(* invitation (see Metering): a refused request is no step.  Whether a     *)
(* row is archived only says which lists show it.  The labels of a set's   *)
(* variants are taken as distinct: nothing makes them so, and of two with  *)
(* one label the database decides which comes first.                       *)
(***************************************************************************)
EXTENDS Integers, Sequences, FiniteSets

CONSTANTS
  Questions, NoQuestion,
  Sets, NoSet,
  Assessments,
  Terms, NewTerms, \* those an edit may bring, and those a row may begin with
  Lists,       \* the ordered slots an interviewer may ask for
  Batches,     \* the recipients of a batch: each one's variant, or none
  Threads,
  MaxInvites,  \* bound on the invitations ever made
  MaxEdits,    \* bound on updates, deletions and archivings
  MaxRequests, \* bound on the candidates' requests
  Cases        \* which of all these one behaviour is about

\* _AssessmentSlots, _membership_rows: at least one slot, none of them twice.
ASSUME LibraryAssumption ==
  /\ NoQuestion \notin Questions /\ NoSet \notin Sets
  /\ Questions \cap Sets = {} /\ Questions \cap Assessments = {}
  /\ NoQuestion \notin Assessments
  /\ \A l \in Lists :
       /\ l \in Seq(Questions \cup Sets) /\ l # <<>>
       /\ \A m, n \in DOMAIN l : l[m] = l[n] => m = n
  /\ NewTerms \subseteq Terms
  /\ \A b \in Batches : b \in Seq(Questions \cup {NoQuestion}) /\ b # <<>>
  /\ MaxInvites \in Nat /\ MaxEdits \in Nat /\ MaxRequests \in Nat
  /\ Cases \subseteq [lists : SUBSET Lists, variants : SUBSET Lists, batches : SUBSET Batches,
                      invited : SUBSET (Questions \cup Assessments),
                      invites : 0..MaxInvites, edits : 0..MaxEdits, requests : 0..MaxRequests]

VARIABLES
  case,      \* what interviewers will ask for, whom they will invite; bounds
  bank,      \* Question rows: the questions there are, each with its terms
  pool,      \* VariantSet rows: each with the questions made for it, by label
  plan,      \* Assessment rows, each with its terms
  slots,     \* AssessmentQuestion rows
  invites,   \* Invite rows
  records,   \* the candidates' rows
  archived,  \* questions and assessments with that status
  th,        \* what each thread keeps between its reads and its commit
  made,      \* history: invitations so far
  edits,     \* history, for the bound; also names the writes of slots
  requests,  \* history, for the bound
  crossed,   \* history: assessments invited to while being replaced or deleted,
             \* or replaced twice at once
  skewed     \* history: sets whose rotation was pinned, overlapped or cut

content == <<bank, pool, plan, slots>>
history == <<crossed, skewed>>
vars == <<case, content, invites, records, archived, th, made, edits, requests, history>>

-----------------------------------------------------------------------------
Offers == Questions \cup Sets

\* write: the request that wrote the row; with the position, the row's id.
Slot == [of : Assessments, write : Nat, pos : Nat, what : Offers]
NoSlot == [of |-> NoQuestion]

\* to: a question, or an assessment, or nowhere any more; set: where a batch
\* drew the question from; pinned: the batch was told which.
Invite == [id : 1..MaxInvites, to : Questions \cup Assessments \cup {NoQuestion},
           terms : Terms, set : Sets \cup {NoSet}, pinned : BOOLEAN]

\* CandidateAttempt, CandidateSlotVariant, IntegrityEvent, CandidateDraft,
\* Submission: the columns that are foreign keys.
Record == [kind : {"attempt", "variant", "event", "draft", "submission"},
           inv : 1..MaxInvites, q : Questions \cup {NoQuestion}, slot : Slot \cup {NoSlot}]
RecordOf(k, i, q) == [kind |-> k, inv |-> i, q |-> q, slot |-> NoSlot]

Idle == [pc |-> "idle"]
Thread ==
  {Idle}
    \cup [pc : {"update"}, of : Assessments, old : SUBSET Slot, new : Lists, terms : Terms]
    \cup [pc : {"delete"}, q : Questions, invites : SUBSET Invite, drafts : SUBSET Record]
    \cup [pc : {"drop"}, of : Assessments, old : SUBSET Slot]
    \cup [pc : {"batch"}, set : Sets,
          chosen : Seq([q : Questions, terms : Terms, pinned : BOOLEAN])]

TypeOK ==
  /\ case \in Cases
  /\ DOMAIN bank \subseteq Questions /\ \A q \in DOMAIN bank : bank[q] \in Terms
  /\ DOMAIN pool \subseteq Sets /\ \A s \in DOMAIN pool : pool[s] \in Seq(Questions)
  /\ DOMAIN plan \subseteq Assessments /\ \A a \in DOMAIN plan : plan[a] \in Terms
  /\ slots \subseteq Slot
  /\ invites \subseteq Invite
  /\ records \subseteq Record
  /\ archived \subseteq Questions \cup Assessments
  /\ th \in [Threads -> Thread]
  /\ made \in 0..MaxInvites /\ edits \in 0..MaxEdits /\ requests \in 0..MaxRequests
  /\ crossed \subseteq Assessments /\ skewed \subseteq Sets

Init ==
  /\ case \in Cases
  /\ bank = <<>> /\ pool = <<>> /\ plan = <<>>
  /\ slots = {} /\ invites = {} /\ records = {} /\ archived = {}
  /\ th = [t \in Threads |-> Idle]
  /\ made = 0 /\ edits = 0 /\ requests = 0
  /\ crossed = {} /\ skewed = {}

At(t, pc) == th[t].pc = pc
Goto(t, l) == th' = [th EXCEPT ![t] = l]

\* A mapping with x brought to v; and without x.
Put(f, x, v) == [y \in DOMAIN f \cup {x} |-> IF y = x THEN v ELSE f[y]]
Without(f, x) == [y \in DOMAIN f \ {x} |-> f[y]]

SlotsOf(a) == {r \in slots : r.of = a}
InvitesTo(x) == {i \in invites : i.to = x}
InvitesOf(s) == {i \in invites : i.set = s}
Numbers(is) == {i.id : i \in is}

\* The slots of a list, as the rows of the write w.
RowsOf(a, w, l) ==
  {[of |-> a, write |-> w, pos |-> n, what |-> l[n]] : n \in DOMAIN l}

\* _set_variants: what is left of a set, by label: first the one with no other
\* before it, then the one with one, and so on.
Variants(s) ==
  LET left == {n \in DOMAIN pool[s] : pool[s][n] \in DOMAIN bank}
  IN [k \in 1..Cardinality(left) |->
        pool[s][CHOOSE n \in left : Cardinality(left \cap (1..n)) = k]]

\* a's slots are being replaced, or a is being deleted: what was checked may
\* not hold any more.
InHand(a) == \E t \in Threads : (At(t, "update") \/ At(t, "drop")) /\ th[t].of = a

(***************************************************************************)
(* db.py, _sqlite_enforce_foreign_keys, and the models' foreign keys:      *)
(* would these rows hold?                                                  *)
(***************************************************************************)
\* as SQLite by default: any row goes, whoever points at it
IntactWrong(qs, as, rows, is, rs) == \A i \in is : i.to \in qs \cup as \cup {NoQuestion}
Intact(qs, as, rows, is, rs) ==
  /\ \A r \in rows : r.of \in as /\ r.what \in qs \cup DOMAIN pool
  /\ \A i \in is : i.to \in qs \cup as \cup {NoQuestion}
  /\ \A r \in rs : /\ r.inv \in Numbers(is)
                   /\ r.q \in qs \cup {NoQuestion}
                   /\ r.slot \in rows \cup {NoSlot}

-----------------------------------------------------------------------------
(* Authoring. *)

\* The ids of variants are random: none of them is used again.
Fresh(q) ==
  q \notin DOMAIN bank /\ \A s \in DOMAIN pool : \A n \in DOMAIN pool[s] : pool[s][n] # q

CreateQuestion(q, m) ==
  /\ Fresh(q)
  /\ bank' = Put(bank, q, m)
  /\ UNCHANGED <<case, pool, plan, slots, invites, records, archived, th, made, edits, requests, history>>

\* create_variant_set: the set, and a new question for each of two or more
\* variants.
CreateVariantSet(s, l, m) ==
  /\ s \notin DOMAIN pool
  /\ Len(l) > 1 /\ \A n \in DOMAIN l : l[n] \in Questions /\ Fresh(l[n])
  /\ pool' = Put(pool, s, l)
  /\ bank' = [q \in DOMAIN bank \cup {l[n] : n \in DOMAIN l} |->
                IF q \in DOMAIN bank THEN bank[q] ELSE m]
  /\ UNCHANGED <<case, plan, slots, invites, records, archived, th, made, edits, requests, history>>

Owned(l) == \A n \in DOMAIN l : l[n] \in DOMAIN bank \cup DOMAIN pool

CreateAssessment(a, l, m) ==
  /\ a \notin DOMAIN plan /\ Owned(l)
  /\ plan' = Put(plan, a, m)
  /\ slots' = slots \cup RowsOf(a, 0, l)
  /\ UNCHANGED <<case, bank, pool, invites, records, archived, th, made, edits, requests, history>>

Edits == edits < case.edits /\ edits' = edits + 1

\* update_question; update_assessment where the slots stay as they were.
UpdateTerms(x, m) ==
  /\ Edits
  /\ \/ x \in DOMAIN bank /\ bank' = Put(bank, x, m) /\ UNCHANGED plan
     \/ x \in DOMAIN plan /\ plan' = Put(plan, x, m) /\ UNCHANGED bank
  /\ UNCHANGED <<case, pool, slots, invites, records, archived, th, made, requests, history>>

\* Archived, or brought back.
Toggle(x) ==
  /\ Edits
  /\ archived' = (archived \ {x}) \cup ({x} \ archived)
  /\ UNCHANGED <<case, content, invites, records, th, made, requests, history>>
ArchiveQuestion(q) == q \in DOMAIN bank /\ Toggle(q)
ArchiveAssessment(a) == a \in DOMAIN plan /\ Toggle(a)

\* _assessment_has_invite; what delete_assessment counts.  The mutant waits
\* for a submission.
HasInviteWrong(a) == \E r \in records : r.kind = "submission" /\ r.inv \in Numbers(InvitesTo(a))
HasInvite(a) == InvitesTo(a) # {}

\* update_assessment: another list is refused once an invitation is out.
UpdateSlotsWrong(t, a, l, m) ==
  /\ At(t, "idle") /\ Edits
  /\ a \in DOMAIN plan
  /\ {<<r.pos, r.what>> : r \in SlotsOf(a)} # {<<n, l[n]>> : n \in DOMAIN l}
  /\ Goto(t, [pc |-> "update", of |-> a, old |-> SlotsOf(a), new |-> l, terms |-> m])
  /\ UNCHANGED <<case, content, invites, records, archived, made, requests, history>>
UpdateSlots(t, a, l, m) ==
  /\ At(t, "idle") /\ Edits
  /\ a \in DOMAIN plan
  /\ {<<r.pos, r.what>> : r \in SlotsOf(a)} # {<<n, l[n]>> : n \in DOMAIN l}
  /\ ~ HasInvite(a)
  /\ Goto(t, [pc |-> "update", of |-> a, old |-> SlotsOf(a), new |-> l, terms |-> m])
  /\ UNCHANGED <<case, content, invites, records, archived, made, requests, history>>

\* uq_assessment_question.
NoneTwice(rows) ==
  \A r, u \in rows : r.of = u.of /\ r.what = u.what /\ r.what \in Questions => r = u

\* The list is replaced: the rows this request loaded go, its own come.
Replaced(l, w) == (slots \ l.old) \cup RowsOf(l.of, w, l.new)

CommitUpdate(t) ==
  LET l == th[t]
      rows == Replaced(l, edits)
  IN /\ At(t, "update")
     /\ IF /\ l.of \in DOMAIN plan /\ Owned(l.new) /\ NoneTwice(rows)
           /\ Intact(DOMAIN bank, DOMAIN plan, rows, invites, records)
        THEN /\ slots' = rows
             /\ plan' = Put(plan, l.of, l.terms)
             /\ crossed' = IF SlotsOf(l.of) # l.old THEN crossed \cup {l.of} ELSE crossed
        ELSE UNCHANGED <<slots, plan, crossed>>
     /\ Goto(t, Idle)
     /\ UNCHANGED <<case, bank, pool, invites, records, archived, made, edits, requests, skewed>>

-----------------------------------------------------------------------------
(* Deleting. *)

\* delete_question's refusals: submissions, slots, variants frozen for
\* someone, a sitting begun or an event recorded.
DeletableWrong(q) ==
  /\ \A r \in records : r.kind \in {"submission", "variant"} => r.q # q
  /\ \A r \in slots : r.what # q
  /\ \A r \in records : r.inv \in Numbers(InvitesTo(q)) => r.kind \notin {"attempt", "event"}
Deletable(q) ==
  /\ \A r \in records : r.kind \in {"submission", "variant"} => r.q # q
  /\ \A r \in slots : r.what # q
  /\ \A r \in records : r.inv \in Numbers(InvitesTo(q)) => r.kind \notin {"attempt", "event"}
  /\ \A r \in records : r.kind = "event" => r.q # q

\* What goes with it: its drafts and, the ORM's cascade, its invitations.
DraftsOf(q) == {r \in records : r.kind = "draft" /\ r.q = q}

DeleteQuestion(t, q) ==
  /\ At(t, "idle") /\ Edits
  /\ q \in DOMAIN bank /\ Deletable(q)
  /\ Goto(t, [pc |-> "delete", q |-> q, invites |-> InvitesTo(q), drafts |-> DraftsOf(q)])
  /\ UNCHANGED <<case, content, invites, records, archived, made, requests, history>>

\* the cascade takes the candidates' rows along
LeftWrong(q) == {r \in records : r.q # q /\ r.inv \notin Numbers(InvitesTo(q))}
Left(q) == records \ DraftsOf(q)

CommitDelete(t) ==
  LET l == th[t]
      qs == DOMAIN bank \ {l.q}
      is == invites \ InvitesTo(l.q)
  IN /\ At(t, "delete")
     /\ \/ /\ Intact(qs, DOMAIN plan, slots, is, Left(l.q))
           /\ bank' = Without(bank, l.q)
           /\ invites' = is
           /\ records' = Left(l.q)
           /\ skewed' = skewed \cup
                {s \in DOMAIN pool : \E n \in DOMAIN pool[s] : pool[s][n] = l.q}
        \/ /\ \/ ~ Intact(qs, DOMAIN plan, slots, is, Left(l.q))
              \/ InvitesTo(l.q) # l.invites \/ DraftsOf(l.q) # l.drafts
           /\ UNCHANGED <<bank, invites, records, skewed>>
     /\ Goto(t, Idle)
     /\ UNCHANGED <<case, pool, plan, slots, archived, made, edits, requests, crossed>>

\* delete_assessment.
DeleteAssessment(t, a) ==
  /\ At(t, "idle") /\ Edits
  /\ a \in DOMAIN plan /\ ~ HasInvite(a)
  /\ Goto(t, [pc |-> "drop", of |-> a, old |-> SlotsOf(a)])
  /\ UNCHANGED <<case, content, invites, records, archived, made, requests, history>>

\* Assessment.invites, which no cascade covers: the ORM makes those to a lead
\* nowhere.
Unlinked(a) ==
  {i \in invites : i.to # a} \cup {[i EXCEPT !.to = NoQuestion] : i \in InvitesTo(a)}

CommitDrop(t) ==
  LET a == th[t].of
      as == DOMAIN plan \ {a}
      rows == slots \ SlotsOf(a)
  IN /\ At(t, "drop")
     /\ \/ /\ Intact(DOMAIN bank, as, rows, Unlinked(a), records)
           /\ plan' = Without(plan, a)
           /\ slots' = rows
           /\ invites' = Unlinked(a)
        \/ /\ \/ ~ Intact(DOMAIN bank, as, rows, Unlinked(a), records)
              \/ InvitesTo(a) # {} \/ SlotsOf(a) # th[t].old
           /\ UNCHANGED <<plan, slots, invites>>
     /\ Goto(t, Idle)
     /\ UNCHANGED <<case, bank, pool, records, archived, made, edits, requests, history>>

-----------------------------------------------------------------------------
(* Inviting. *)

\* create_invite; create_assessment_invite.
InviteTo(x) ==
  /\ made < case.invites /\ x \in case.invited
  /\ x \in DOMAIN bank \/ (x \in DOMAIN plan /\ SlotsOf(x) # {})
  /\ made' = made + 1
  /\ invites' = invites \cup
       {[id |-> made + 1, to |-> x, set |-> NoSet, pinned |-> FALSE,
         terms |-> IF x \in DOMAIN bank THEN bank[x] ELSE plan[x]]}
  /\ crossed' = IF InHand(x) THEN crossed \cup {x} ELSE crossed
  /\ UNCHANGED <<case, content, records, archived, th, edits, requests, skewed>>

\* The rotation goes on from the invitations the set has had.
CursorWrong(s) == 0
Cursor(s) == Cardinality(InvitesOf(s))

\* create_variant_set_invites: one for each recipient; some are pinned to a
\* variant, the others take turns.
Chosen(s, pins) ==
  LET vs == Variants(s)
      before(n) == Cardinality({m \in 1..(n - 1) : pins[m] = NoQuestion})
      turn(n) == vs[((Cursor(s) + before(n)) % Len(vs)) + 1]
      of(n) == IF pins[n] = NoQuestion THEN turn(n) ELSE pins[n]
  IN [n \in DOMAIN pins |->
        [q |-> of(n), terms |-> bank[of(n)], pinned |-> pins[n] # NoQuestion]]

InviteBatch(t, s, pins) ==
  /\ At(t, "idle")
  /\ s \in DOMAIN pool /\ Variants(s) # <<>>
  /\ made + Len(pins) <= case.invites
  /\ \A n \in DOMAIN pins : pins[n] # NoQuestion =>
       \E m \in DOMAIN Variants(s) : Variants(s)[m] = pins[n]
  /\ Goto(t, [pc |-> "batch", set |-> s, chosen |-> Chosen(s, pins)])
  /\ skewed' = IF \/ \E u \in Threads \ {t} : At(u, "batch") /\ th[u].set = s
                  \/ \E n \in DOMAIN pins : pins[n] # NoQuestion
               THEN skewed \cup {s} ELSE skewed
  /\ UNCHANGED <<case, content, invites, records, archived, made, edits, requests, crossed>>

CommitBatch(t) ==
  LET l == th[t]
      new == {[id |-> made + n, to |-> l.chosen[n].q, terms |-> l.chosen[n].terms,
               set |-> l.set, pinned |-> l.chosen[n].pinned] : n \in DOMAIN l.chosen}
      is == invites \cup new
  IN /\ At(t, "batch")
     /\ made + Len(l.chosen) <= case.invites
     /\ IF Intact(DOMAIN bank, DOMAIN plan, slots, is, records)
        THEN invites' = is /\ made' = made + Len(l.chosen)
        ELSE UNCHANGED <<invites, made>>
     /\ Goto(t, Idle)
     /\ UNCHANGED <<case, content, records, archived, edits, requests, history>>

-----------------------------------------------------------------------------
(* Candidates. *)

Assigned(i) == {r \in records : r.kind = "variant" /\ r.inv = i.id}

\* _invite_questions: none, of a link that leads nowhere.
Served(i) ==
  IF i.to \in Questions THEN {i.to}
  ELSE {r.what : r \in {x \in SlotsOf(i.to) : x.what \in Questions}}
         \cup {r.q : r \in {x \in Assigned(i) : x.slot \in SlotsOf(i.to)}}

\* Its slots that draw from a set and have not drawn yet.
Open(i) ==
  {r \in SlotsOf(i.to) : r.what \in Sets /\ \A v \in Assigned(i) : v.slot # r}

Request(new) ==
  /\ requests < case.requests
  /\ requests' = requests + 1
  /\ records' = records \cup new
  /\ UNCHANGED <<case, content, invites, archived, th, made, edits, history>>

Attempt(i) == RecordOf("attempt", i.id, NoQuestion)

\* start_invite: a link that leads nowhere belongs to no organisation (500).
Start(i) == i \in invites /\ i.to # NoQuestion /\ Request({Attempt(i)})

\* _resolve_slot_variant: round-robin over what is left of the set.
Draw(r) ==
  LET vs == Variants(r.what)
  IN vs[(Cardinality({v \in records : v.kind = "variant" /\ v.slot = r}) % Len(vs)) + 1]

Resolve(i, r) ==
  /\ i \in invites /\ r \in Open(i) /\ Variants(r.what) # <<>>
  /\ Request({[kind |-> "variant", inv |-> i.id, q |-> Draw(r), slot |-> r]})

\* candidate_integrity_events: names any question, or none.
Event(i, q) ==
  /\ i \in invites /\ q \in DOMAIN bank \cup {NoQuestion}
  /\ Request({RecordOf("event", i.id, q)})

\* candidate_save_draft, candidate_submit: a question of this sitting.
Draft(i, q) ==
  /\ i \in invites /\ Open(i) = {} /\ q \in Served(i)
  /\ Request({RecordOf("draft", i.id, q)})
Submit(i, q) ==
  /\ i \in invites /\ Open(i) = {} /\ q \in Served(i)
  /\ Request({Attempt(i), RecordOf("submission", i.id, q)})

Authoring ==
  \/ \E q \in Questions, m \in NewTerms : CreateQuestion(q, m)
  \/ \E s \in Sets, m \in NewTerms, l \in case.variants : CreateVariantSet(s, l, m)
  \/ \E a \in Assessments, l \in case.lists, m \in NewTerms : CreateAssessment(a, l, m)
  \/ \E x \in Questions \cup Assessments, m \in Terms : UpdateTerms(x, m)
  \/ \E q \in Questions : ArchiveQuestion(q)
  \/ \E a \in Assessments : ArchiveAssessment(a)

Handler(t) ==
  \/ \E a \in Assessments : \/ \E l \in case.lists, m \in Terms : UpdateSlots(t, a, l, m)
                            \/ DeleteAssessment(t, a)
  \/ \E q \in Questions : DeleteQuestion(t, q)
  \/ \E s \in Sets, pins \in case.batches : InviteBatch(t, s, pins)
  \/ CommitUpdate(t) \/ CommitDelete(t) \/ CommitDrop(t) \/ CommitBatch(t)

Candidate(i) ==
  \/ Start(i)
  \/ \E r \in slots : Resolve(i, r)
  \/ \E q \in Questions \cup {NoQuestion} : Event(i, q)
  \/ \E q \in Questions : Draft(i, q) \/ Submit(i, q)

Next ==
  \/ Authoring
  \/ \E t \in Threads : Handler(t)
  \/ \E x \in Questions \cup Assessments : InviteTo(x)
  \/ \E i \in invites : Candidate(i)

Spec == Init /\ [][Next]_vars

-----------------------------------------------------------------------------
(* Properties. *)

\* delete_question, update_assessment, delete_assessment: what their checks
\* let through, nothing on record stands against - unless it is committed
\* later - and no request ends in the constraint's 500 by itself.
GuardsSuffice ==
  /\ \A q \in DOMAIN bank : Deletable(q) =>
       Intact(DOMAIN bank \ {q}, DOMAIN plan, slots, invites \ InvitesTo(q), records \ DraftsOf(q))
  /\ \A a \in DOMAIN plan : ~ HasInvite(a) =>
       /\ \A r \in records : r.slot \notin SlotsOf(a)
       /\ Intact(DOMAIN bank, DOMAIN plan \ {a}, slots \ SlotsOf(a), invites, records)

\* What is on record can be read back: the sitting, the question, and a
\* submission among the questions its sitting serves, while its link leads
\* somewhere and its assessment was not crossed.
Readable ==
  \A r \in records : \E i \in invites :
    /\ i.id = r.inv
    /\ r.q \in DOMAIN bank \cup {NoQuestion}
    /\ r.kind = "variant" => r.slot \in SlotsOf(i.to)
    /\ r.kind = "submission" /\ i.to \notin crossed \cup {NoQuestion} => r.q \in Served(i)

\* Submissions, attempts, events and frozen variants are the system of
\* record: no request of an interviewer removes one, however it overlaps with
\* the candidate's.
RecordsStay == [][{r \in records : r.kind # "draft"} \subseteq records']_vars

\* A9: two candidates of one assessment sit the same slots.  Once there is an
\* invitation the assessment and its list stand, unless a replacement or its
\* deletion was already under way.
SlotsLocked ==
  [][\A a \in DOMAIN plan : HasInvite(a) /\ a \notin crossed =>
       a \in DOMAIN plan' /\ SlotsOf(a)' = SlotsOf(a)]_vars

\* The link of a sitting that has begun (an attempt, an event, a draw or a
\* submission) is neither taken away nor led elsewhere by any edit or deletion.
\* All it can lose is the assessment it leads to, and only where that was being
\* deleted when the invitation went out.
SittingsKeepTheirLink ==
  [][\A i \in invites : \A r \in records : r.inv = i.id /\ r.kind # "draft" =>
       \/ i \in invites'
       \/ i.to \in crossed /\ [i EXCEPT !.to = NoQuestion] \in invites']_vars

\* Repeated calls keep the whole set evenly used, where no one was pinned.
EvenlyUsed ==
  \A s \in DOMAIN pool \ skewed : \A m, n \in DOMAIN pool[s] :
    LET used(k) == Cardinality({i \in InvitesOf(s) : i.to = pool[s][k]})
    IN used(m) <= used(n) + 1

=============================================================================
