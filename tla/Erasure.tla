------------------------------- MODULE Erasure -------------------------------
(***************************************************************************)
(* What an organisation holds about its candidates, and how it forgets:    *)
(* assessment_platform/privacy.py (a data-subject request, the retention   *)
(* sweep) and the routes of api.py that write a candidate's rows meanwhile *)
(* (start, submit, draft, events, feedback, the invitation's delivery log, *)
(* the grader's callback).                                                 *)
(*                                                                         *)
(* A thread is a request handler, or a pass of the sweep.  A candidate's   *)
(* request is checked, then makes its commits one by one; an erasure finds *)
(* what it will write (submission ids, the invitations' lists), then       *)
(* commits everything at once.  In that commit the bulk updates take the   *)
(* rows that match by then, submissions and results go by the ids found    *)
(* earlier, and the JSON lists are written whole as they were computed.    *)
(*                                                                         *)
(* A thread that fails is no action: what it has not committed is gone, an *)
(* eraser leaves nothing and a candidate's request what a shorter one does.*)
(*                                                                         *)
(* Abstracted: one organisation, one question to an invitation; code, name *)
(* and address of a submission go together; of a result, only whether it   *)
(* holds the grader's words (the verdict and the score stay).  Links are   *)
(* not revoked and do not expire (see Sittings).  A tombstone is named by  *)
(* the erasure that minted it and what it stands for: uuids do not collide.*)
(***************************************************************************)
EXTENDS Integers, Sequences, FiniteSets

CONSTANTS
  Invites, NoInvite,
  Emails, NoEmail,
  Threads,
  Servers,      \* the threads that serve candidates, and interviewers who invite
  Cases,        \* whom the invitations may be addressed to (see addressed)
  MaxRequests,  \* bound on the candidates' requests
  MaxErasures   \* bound on data-subject requests and passes of the sweep

\* _tombstone: of one sitting (the sweep), or of an address on every invite.
Tombstones == [run : 1..MaxErasures, inv : Invites \cup {NoInvite}, email : Emails]

\* No candidate's address is a tombstone's: .invalid is reserved.
ASSUME ErasureAssumption ==
  /\ Emails \cap Tombstones = {}
  /\ NoInvite \notin Invites /\ NoEmail \notin Emails
  /\ Servers \subseteq Threads
  /\ Cases \subseteq [Invites -> SUBSET Emails]
  /\ MaxRequests \in Nat /\ MaxErasures \in Nat

VARIABLES
  addressed,   \* whom interviewers will address each invitation to; {}: never sent
  sent,        \* invitations with a row
  aged,        \* those created before the retention window
  lists,       \* each one's recipients and delivery log, JSON columns
  attempts,    \* CandidateAttempt rows, in the order of their ids
  subs,        \* Submission rows, in the order of their insertion
  rows,        \* CandidateSlotVariant, IntegrityEvent and CandidateDraft rows
  th,          \* what each thread keeps between two steps
  requests, erasures,  \* history, for the bounds
  forgotten,   \* history: sittings (invitation, address) that were erased
  overlapped   \* history: those erased while another thread had them in hand

person == <<attempts, subs, rows>>
history == <<forgotten, overlapped>>
posted == <<sent, addressed>>
vars == <<posted, aged, lists, person, th, requests, erasures, history>>

-----------------------------------------------------------------------------
Sittings == Invites \X Emails

Who == Emails \cup Tombstones
is_erased(w) == w \in Tombstones

Invite == [to : SUBSET Emails, log : SUBSET Emails]
Unsent == [to |-> {}, log |-> {}]

\* old: started before the retention window; said: feedback hangs on the row.
CandidateAttempt == [inv : Invites, who : Who, old : BOOLEAN, said : BOOLEAN]
Submission ==
  [inv : Invites, who : Who, code : BOOLEAN,
   result : {"none", "full", "late", "erased"}]
Row == [kind : {"mark", "draft"}, inv : Invites, who : Who]

Commits == {"mark", "attempt", "submission", "draft", "feedback"}
Plan == [start    |-> <<"attempt", "mark">>,
         submit   |-> <<"mark", "attempt", "submission">>,
         draft    |-> <<"mark", "draft">>,
         event    |-> <<"mark">>,
         feedback |-> <<"feedback">>]

\* A candidate's request: its sitting, the commits it has yet to make, and the
\* attempt it looked up.  A writer of invitations: the lists it loaded and
\* those it leaves.  An eraser: its number, the sittings it erases, and the
\* submissions it found for them.
Thread ==
  [pc : {"idle", "candidate", "deliver", "request", "sweep"},
   inv : Invites \cup {NoInvite}, email : Emails \cup {NoEmail},
   todo : Seq(Commits), n : Nat,
   old : [Invites -> Invite], new : [Invites -> Invite],
   sittings : SUBSET Sittings, found : SUBSET [id : Nat, email : Emails]]
Idle ==
  [pc |-> "idle", inv |-> NoInvite, email |-> NoEmail, todo |-> <<>>, n |-> 0,
   old |-> [i \in Invites |-> Unsent], new |-> [i \in Invites |-> Unsent],
   sittings |-> {}, found |-> {}]

TypeOK ==
  /\ addressed \in [Invites -> SUBSET Emails]
  /\ sent \subseteq Invites /\ aged \subseteq sent
  /\ lists \in [Invites -> Invite]
  /\ attempts \in Seq(CandidateAttempt)
  /\ subs \in Seq(Submission)
  /\ rows \subseteq Row
  /\ th \in [Threads -> Thread]
  /\ requests \in 0..MaxRequests /\ erasures \in 0..MaxErasures
  /\ forgotten \subseteq Sittings /\ overlapped \subseteq Sittings

Init ==
  /\ addressed \in Cases
  /\ sent = {} /\ aged = {}
  /\ lists = [i \in Invites |-> Unsent]
  /\ attempts = <<>> /\ subs = <<>> /\ rows = {}
  /\ th = [t \in Threads |-> Idle]
  /\ requests = 0 /\ erasures = 0
  /\ forgotten = {} /\ overlapped = {}

At(t, pc) == th[t].pc = pc
Goto(t, l) == th' = [th EXCEPT ![t] = l]
Erasing(t) == th[t].pc \in {"request", "sweep"}

AttemptOf(i, w) == {n \in DOMAIN attempts : attempts[n].inv = i /\ attempts[n].who = w}
SubmissionOf(i, w) == {n \in DOMAIN subs : subs[n].inv = i /\ subs[n].who = w}
Unerased(i) == {e \in Emails : AttemptOf(i, e) # {}}

\* Sittings a thread has in hand: checked, or loaded, and not written yet.
InHand(t) ==
  CASE At(t, "candidate") -> {<<th[t].inv, th[t].email>>}
    [] At(t, "deliver")   -> {th[t].inv} \X Emails
    [] Erasing(t)         -> Sittings
    [] OTHER              -> {}

\* The sittings P are written by t: what an eraser then has in hand is not
\* what it found.
Written(t, P) ==
  IF \E u \in Threads \ {t} : Erasing(u) THEN overlapped \cup P ELSE overlapped

\* A commit of the ORM writes a JSON column where its value was changed.
Column(old, new, now) == IF new # old THEN new ELSE now
ListsWritten(l) ==
  [i \in Invites |->
    [to  |-> Column(l.old[i].to, l.new[i].to, lists[i].to),
     log |-> Column(l.old[i].log, l.new[i].log, lists[i].log)]]

-----------------------------------------------------------------------------
(* The invitation. *)

\* create_invite, its first commit: the row; the e-mails are then sent.
CreateInvite(t, i) ==
  LET made == [lists EXCEPT ![i] = [to |-> addressed[i], log |-> {}]]
  IN /\ At(t, "idle") /\ t \in Servers /\ i \notin sent /\ addressed[i] # {}
     /\ sent' = sent \cup {i}
     /\ lists' = made
     /\ Goto(t, [Idle EXCEPT !.pc = "deliver", !.inv = i,
                             !.old = made, !.new = [made EXCEPT ![i].log = addressed[i]]])
     /\ UNCHANGED <<addressed, aged, person, requests, erasures, history>>

\* ... and its second: the outcome for every recipient the e-mails went to.
SaveDeliveries(t) ==
  /\ At(t, "deliver")
  /\ lists' = ListsWritten(th[t])
  /\ overlapped' = Written(t, InHand(t))
  /\ Goto(t, Idle)
  /\ UNCHANGED <<posted, aged, person, requests, erasures, forgotten>>

\* A retention window goes by: what there is by now is older than it.
Age ==
  /\ aged' = sent
  /\ attempts' = [n \in DOMAIN attempts |-> [attempts[n] EXCEPT !.old = TRUE]]
  /\ UNCHANGED <<posted, lists, subs, rows, th, requests, erasures, history>>

-----------------------------------------------------------------------------
(* A candidate's requests. *)

\* _check_invited, and the route's own conditions: one submission, feedback
\* only on a sitting with one.
Ask(t, k, i, e) ==
  /\ At(t, "idle") /\ t \in Servers /\ requests < MaxRequests
  /\ e \in lists[i].to
  /\ k = "submit" => SubmissionOf(i, e) = {}
  /\ k = "feedback" => AttemptOf(i, e) # {} /\ SubmissionOf(i, e) # {}
  /\ requests' = requests + 1
  /\ \E n \in IF k = "feedback" THEN AttemptOf(i, e) ELSE {0} :
       Goto(t, [Idle EXCEPT !.pc = "candidate", !.inv = i, !.email = e,
                            !.todo = Plan[k], !.n = n])
  /\ UNCHANGED <<posted, aged, lists, person, erasures, history>>

\* One commit of the request is made; the last one ends it.
Committed(t) ==
  /\ overlapped' = Written(t, InHand(t))
  /\ Goto(t, IF Tail(th[t].todo) = <<>> THEN Idle ELSE [th[t] EXCEPT !.todo = Tail(@)])
  /\ UNCHANGED <<posted, aged, lists, requests, erasures, forgotten>>
Makes(t, c) == At(t, "candidate") /\ Head(th[t].todo) = c

\* Inserted, or found there (an event repeats one).
PutRow(t, c) ==
  /\ Makes(t, c)
  /\ rows' = rows \cup {[kind |-> c, inv |-> th[t].inv, who |-> th[t].email]}
  /\ UNCHANGED <<attempts, subs>>
  /\ Committed(t)

\* candidate_integrity_events; _resolve_slot_variant.
PutMark(t) == PutRow(t, "mark")

\* candidate_save_draft.
PutDraft(t) == PutRow(t, "draft")

\* _get_or_start_attempt.
PutAttemptWrong(t) ==
  /\ Makes(t, "attempt")
  /\ attempts' = Append(attempts, [inv |-> th[t].inv, who |-> th[t].email,
                                   old |-> FALSE, said |-> FALSE])
  /\ UNCHANGED <<subs, rows>>
  /\ Committed(t)
PutAttempt(t) ==
  /\ Makes(t, "attempt")
  /\ attempts' = IF AttemptOf(th[t].inv, th[t].email) # {} THEN attempts
                 ELSE Append(attempts, [inv |-> th[t].inv, who |-> th[t].email,
                                        old |-> FALSE, said |-> FALSE])
  /\ UNCHANGED <<subs, rows>>
  /\ Committed(t)

\* candidate_submit's insert; the unique constraint refuses a second one.
PutSubmission(t) ==
  /\ Makes(t, "submission")
  /\ subs' = IF SubmissionOf(th[t].inv, th[t].email) # {} THEN subs
             ELSE Append(subs, [inv |-> th[t].inv, who |-> th[t].email,
                                code |-> TRUE, result |-> "none"])
  /\ UNCHANGED <<attempts, rows>>
  /\ Committed(t)

\* candidate_feedback's insert, on the attempt it looked up; once.
PutFeedback(t) ==
  /\ Makes(t, "feedback")
  /\ attempts' = [attempts EXCEPT ![th[t].n].said = TRUE]
  /\ UNCHANGED <<subs, rows>>
  /\ Committed(t)

\* agent_callback: found by the submission, erased or not; the grade may be
\* the first or a re-delivered one.
Callback(n) ==
  /\ n \in DOMAIN subs
  /\ subs' = [subs EXCEPT ![n].result = IF is_erased(subs[n].who) THEN "late" ELSE "full"]
  /\ UNCHANGED <<posted, aged, lists, attempts, rows, th, requests, erasures, history>>

-----------------------------------------------------------------------------
(* Erasing. *)

Tombstone(t, i, e) ==
  [run |-> th[t].n, inv |-> IF At(t, "sweep") THEN i ELSE NoInvite, email |-> e]

\* _scrub_invite_recipients.
Scrubbed(l, e) == [to |-> l.to \ {e}, log |-> l.log \ {e}]

\* The submissions of sittings P, by id.
FoundWrong(P) ==
  {[id |-> n, email |-> e] : n \in DOMAIN subs, e \in {p[2] : p \in P}}
    \cap {[id |-> n, email |-> subs[n].who] : n \in DOMAIN subs}
Found(P) ==
  {[id |-> n, email |-> subs[n].who] :
     n \in {m \in DOMAIN subs : <<subs[m].inv, subs[m].who>> \in P}}

\* erase_candidate: the person, on every invitation of the organisation.
EraseCandidate(t, e) ==
  /\ At(t, "idle") /\ erasures < MaxErasures
  /\ erasures' = erasures + 1
  /\ Goto(t, [Idle EXCEPT !.pc = "request", !.email = e, !.n = erasures + 1,
                          !.old = lists,
                          !.new = [i \in Invites |-> Scrubbed(lists[i], e)],
                          !.sittings = sent \X {e}, !.found = Found(sent \X {e})])
  /\ UNCHANGED <<posted, aged, lists, person, requests, history>>

\* expired_sittings: by sitting, never by person.
ExpiredWrong ==
  {p \in Sittings : AttemptOf(p[1], p[2]) # {} /\ \E n \in DOMAIN attempts :
                      attempts[n].old /\ attempts[n].who = p[2]}
Expired ==
  {p \in Sittings : \E n \in AttemptOf(p[1], p[2]) : attempts[n].old}

\* What is left of an invitation's lists once P is erased: past the window
\* (_expire_invite_recipients) only those with a sitting that is not.
KeptWrong(i, P) == IF i \in aged THEN {} ELSE {e \in Emails : <<i, e>> \notin P}
Kept(i, P) ==
  IF i \in aged THEN {e \in Unerased(i) : <<i, e>> \notin P}
  ELSE {e \in Emails : <<i, e>> \notin P}

\* purge_expired, _erase for every expired sitting (erase_sitting).
Sweep(t) ==
  /\ At(t, "idle") /\ erasures < MaxErasures
  /\ erasures' = erasures + 1
  /\ Goto(t, [Idle EXCEPT !.pc = "sweep", !.n = erasures + 1,
                          !.old = lists,
                          !.new = [i \in Invites |->
                                     [to |-> lists[i].to \cap Kept(i, Expired),
                                      log |-> lists[i].log \cap Kept(i, Expired)]],
                          !.sittings = Expired, !.found = Found(Expired)])
  /\ UNCHANGED <<posted, aged, lists, person, requests, history>>

\* ERASED_RESULT and ERASED_REASON take the place of a result that is there.
Wiped(r) == IF r = "none" THEN r ELSE "erased"

\* The attempt, with feedback deleted first: it is found by the address.
AnonymousWrong(a, w) == [a EXCEPT !.who = w]
Anonymous(a, w) == [a EXCEPT !.who = w, !.said = FALSE]

\* Sittings this eraser takes an address off: erased, or its link retired.
Touched(t) ==
  th[t].sittings \cup
  {p \in Sittings : p[2] \in th[t].old[p[1]].to \ th[t].new[p[1]].to}

\* The transaction of _erase, of purge_expired: drafts are deleted, the rest
\* keeps its place under the tombstone.  A grade committed between its
\* statements on results and on submissions keeps its words: here it is one of
\* those that arrive afterwards (see Callback).
CommitErasure(t) ==
  LET mine(r) == <<r.inv, r.who>> \in th[t].sittings
      tomb(r) == Tombstone(t, r.inv, r.who)
  IN /\ Erasing(t)
     /\ attempts' = [n \in DOMAIN attempts |->
                       IF mine(attempts[n])
                       THEN Anonymous(attempts[n], tomb(attempts[n])) ELSE attempts[n]]
     /\ subs' = [n \in DOMAIN subs |->
                   LET by == {f \in th[t].found : f.id = n}
                   IN IF by = {} THEN subs[n]
                      ELSE [subs[n] EXCEPT
                              !.who = Tombstone(t, subs[n].inv, (CHOOSE f \in by : TRUE).email),
                              !.code = FALSE, !.result = Wiped(@)]]
     /\ rows' = {r \in rows : ~ mine(r)} \cup
                {[r EXCEPT !.who = tomb(r)] : r \in {x \in rows : mine(x) /\ x.kind # "draft"}}
     /\ lists' = ListsWritten(th[t])
     /\ forgotten' = forgotten \cup th[t].sittings
     /\ overlapped' = overlapped \cup
                      {p \in Touched(t) : \E u \in Threads \ {t} : p \in InHand(u)}
     /\ Goto(t, Idle)
     /\ UNCHANGED <<posted, aged, requests, erasures>>

Next ==
  \/ \E t \in Threads :
       \/ \E i \in Invites : CreateInvite(t, i)
       \/ SaveDeliveries(t)
       \/ \E k \in DOMAIN Plan, i \in Invites, e \in Emails : Ask(t, k, i, e)
       \/ PutMark(t) \/ PutDraft(t)
       \/ PutAttempt(t) \/ PutSubmission(t) \/ PutFeedback(t)
       \/ \E e \in Emails : EraseCandidate(t, e)
       \/ Sweep(t) \/ CommitErasure(t)
  \/ Age
  \/ \E n \in DOMAIN subs : Callback(n)

Spec == Init /\ [][Next]_vars

-----------------------------------------------------------------------------
(* Properties. *)

\* Whose a row is, under its address or a tombstone.
Of(r) == <<r.inv, IF is_erased(r.who) THEN r.who.email ELSE r.who>>

\* privacy.py: once a sitting is erased with nobody else holding it, its
\* address is nowhere on that invitation, nor the candidate's code, words or
\* drafts; of a grade, only what arrived afterwards.
Forgotten ==
  \A p \in forgotten \ overlapped :
    /\ p[2] \notin lists[p[1]].to \cup lists[p[1]].log
    /\ AttemptOf(p[1], p[2]) = {} /\ SubmissionOf(p[1], p[2]) = {}
    /\ \A r \in rows : r.inv = p[1] => r.who # p[2]
    /\ \A n \in DOMAIN attempts : Of(attempts[n]) = p => ~ attempts[n].said
    /\ \A n \in DOMAIN subs :
         Of(subs[n]) = p => ~ subs[n].code /\ subs[n].result # "full"

\* privacy.py, _expire_invite_recipients "without stranding anyone": whoever
\* has a sitting that is not erased is still admitted to it.
NobodyStranded ==
  \A n \in DOMAIN attempts :
    LET a == attempts[n]
    IN is_erased(a.who) \/ a.who \in lists[a.inv].to \/ <<a.inv, a.who>> \in overlapped

\* What remains of a sitting can still be put together: its rows carry one
\* name, address or tombstone, and a submission has its attempt.
SittingWhole ==
  /\ \A n \in DOMAIN subs :
       Of(subs[n]) \notin overlapped => AttemptOf(subs[n].inv, subs[n].who) # {}
  /\ \A r \in rows : \A n \in DOMAIN attempts :
       Of(r) = Of(attempts[n]) /\ Of(r) \notin overlapped => r.who = attempts[n].who

\* No erasure runs into a unique constraint and is rolled back: two sittings
\* of an invitation never share a tombstone.
KeysHold ==
  /\ \A m, n \in DOMAIN attempts :
       attempts[m].inv = attempts[n].inv /\ attempts[m].who = attempts[n].who => m = n
  /\ \A m, n \in DOMAIN subs :
       subs[m].inv = subs[n].inv /\ subs[m].who = subs[n].who => m = n

\* A sitting is anonymised when its own window has passed, or its candidate
\* is whom the request names: never for another sitting's age, or another's
\* request.  (A start that was under way when its address was erased begins
\* anew a sitting the sweep has found old.)
ErasedOnlyWhenDue ==
  [][\A n \in DOMAIN attempts :
       ~ is_erased(attempts[n].who) /\ is_erased(attempts'[n].who)
         => \/ attempts[n].old \/ <<attempts[n].inv, attempts[n].who>> \in overlapped
            \/ \E t \in Threads : At(t, "request") /\ th[t].email = attempts[n].who]_vars

=============================================================================
