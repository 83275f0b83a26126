------------------------------ MODULE Sittings ------------------------------
(***************************************************************************)
(* The candidate's side of one invite: assessment_platform/api.py, the     *)
(* routes start and submit with what they share (_load_invite_or_error,    *)
(* _resolve_slot_variant, _get_or_start_attempt), while time passes, the   *)
(* interviewer may revoke the link, and two browser tabs may overlap.      *)
(*                                                                         *)
(* A thread is a request handler; every action is one query it decides by, *)
(* or one transaction.  A request that is turned away changes nothing but  *)
(* what it has already committed, and its thread is idle again.            *)
(*                                                                         *)
(* Abstracted: the month's allowance grants or refuses a sitting as it     *)
(* pleases (Metering says when); a clock is the flag over, set once the    *)
(* deadline and its grace have passed; code, language and the agent are    *)
(* left out (Grading takes over from the stored submission); of the other  *)
(* invites of the assessment only how many assignments they have made is   *)
(* known, which may be any number whenever it is asked for.  Bounds:       *)
(* MaxElsewhere, MaxCrashes.  An operator named ...Wrong is no part of the *)
(* specification (see Grading).                                            *)
(***************************************************************************)
EXTENDS Integers, Sequences, FiniteSets

CONSTANTS
  Emails,         \* the invite's recipients
  Threads,        \* request handlers that may overlap
  NoEmail, NoQuestion,
  Names,          \* display names a candidate may type
  NoName,         \* None: no name was sent, or is stored
  Blank,          \* "": start takes it for a name, nothing that shows one does
  Slots,          \* the assessment's slots; one, for a quick screen
  Pool,           \* slot -> its variants in label order; a fixed slot has one
  SetSlots,       \* the slots that draw from a variant set
  QuickScreen,    \* the invite names one question and no assessment
  Timed,          \* invite.duration_minutes is not NULL
  MaxElsewhere,   \* bound on the assignments other invites have made of a slot
  MaxCrashes      \* bound on the handlers a crash drops

Questions == UNION {{Pool[s][i] : i \in DOMAIN Pool[s]} : s \in Slots}

ASSUME SittingsAssumption ==
  /\ NoEmail \notin Emails /\ NoName \notin Names \cup {Blank}
  /\ Blank \notin Names /\ NoQuestion \notin Questions
  /\ IsFiniteSet(Emails) /\ IsFiniteSet(Slots)
  /\ Pool \in [Slots -> Seq(Questions)]
  /\ \A s \in Slots : Len(Pool[s]) > 0
  /\ SetSlots \subseteq Slots
  /\ \A s \in Slots \ SetSlots : Len(Pool[s]) = 1
  /\ QuickScreen \in BOOLEAN /\ Timed \in BOOLEAN
  /\ QuickScreen => Cardinality(Slots) = 1 /\ SetSlots = {}
  /\ MaxElsewhere \in Nat /\ MaxCrashes \in Nat

VARIABLES
  active,    \* invite.status = "active"
  expired,   \* invite.expires_at has passed
  attempt,   \* CandidateAttempt per recipient: begun, its name, its clock
  variant,   \* CandidateSlotVariant: the question frozen for a set slot
  subs,      \* Submission rows of this invite
  charged,   \* sittings claimed from the month's allowance, less those returned
  th,        \* what each handler keeps between two steps
  crashes    \* history, for MaxCrashes

invite == <<active, expired>>
vars == <<invite, attempt, variant, subs, charged, th, crashes>>

-----------------------------------------------------------------------------
\* What a request may name the candidate, and an attempt may hold.
Given == Names \cup {NoName, Blank}

CandidateAttempt ==
  [begun : BOOLEAN, name : Given, over : BOOLEAN,
   named : BOOLEAN]  \* history: a name, if only "", was sent when it was begun
Submission == [email : Emails, question : Questions, name : Names, late : BOOLEAN]

Idle == [pc |-> "idle", route |-> "start", email |-> NoEmail, name |-> NoName,
         question |-> NoQuestion, todo |-> {}, chosen |-> NoQuestion]

Thread == [pc : {"idle", "resolve", "assign", "check", "attempt", "name",
                 "charge", "insert", "release", "reread", "store"},
           route : {"start", "submit"},
           email : Emails \cup {NoEmail},
           name : Given,                           \* as sent, then as it is stored
           question : Questions \cup {NoQuestion}, \* the one submitted
           todo : SUBSET SetSlots,                 \* set slots yet to resolve
           chosen : Questions \cup {NoQuestion}]   \* variant to insert

TypeOK ==
  /\ active \in BOOLEAN
  /\ expired \in BOOLEAN
  /\ attempt \in [Emails -> CandidateAttempt]
  /\ variant \in [Emails -> [SetSlots -> Questions \cup {NoQuestion}]]
  /\ subs \subseteq Submission
  /\ charged \in Nat
  /\ th \in [Threads -> Thread]
  /\ crashes \in Nat

Init ==
  /\ active = TRUE
  /\ expired = FALSE
  /\ attempt = [e \in Emails |-> [begun |-> FALSE, name |-> NoName, over |-> FALSE,
                                named |-> FALSE]]
  /\ variant = [e \in Emails |-> [s \in SetSlots |-> NoQuestion]]
  /\ subs = {}
  /\ charged = 0
  /\ th = [t \in Threads |-> Idle]
  /\ crashes = 0

-----------------------------------------------------------------------------
At(t, pc) == th[t].pc = pc
Goto(t, l) == th' = [th EXCEPT ![t] = l]
Submitted(e, q) == \E s \in subs : s.email = e /\ s.question = q

\* _load_invite_or_error: revocation stops everyone, expiry those who have no
\* timed sitting under way.
Admitted(e) == active /\ (~ expired \/ (Timed /\ attempt[e].begun))

\* The questions of one recipient (_invite_questions): what a set slot froze
\* for them, and the fixed slots'.
Served(e) == {variant[e][s] : s \in SetSlots}
               \cup {Pool[s][1] : s \in Slots \ SetSlots}

(***************************************************************************)
(* The two routes, up to what they share.                                  *)
(***************************************************************************)
\* start_invite: a quick screen that was answered cannot be entered again.
Start(t, e, n) ==
  /\ At(t, "idle")
  /\ Admitted(e)
  /\ ~ (QuickScreen /\ \E q \in Questions : Submitted(e, q))
  /\ Goto(t, [Idle EXCEPT !.pc = "attempt", !.email = e, !.name = n])
  /\ UNCHANGED <<invite, attempt, variant, subs, charged, crashes>>

\* candidate_submit: a name is required, and /start may have been skipped.
Submit(t, e, n, q) ==
  /\ At(t, "idle")
  /\ Admitted(e)
  /\ Goto(t, [Idle EXCEPT !.pc = "resolve", !.route = "submit", !.email = e,
                          !.name = n, !.question = q, !.todo = SetSlots])
  /\ UNCHANGED <<invite, attempt, variant, subs, charged, crashes>>

(***************************************************************************)
(* _resolve_slot_variant, for one set slot after the other.                *)
(***************************************************************************)
\* Rows of the slot, k of them for the recipients of other invites.
Assignments(s, k) == k + Cardinality({e \in Emails : variant[e][s] # NoQuestion})

\* Round-robin over the pool, from the assignments counted now.
Turn(s, k) == Pool[s][(Assignments(s, k) % Len(Pool[s])) + 1]

Resolve(t) ==
  LET l == th[t]
  IN /\ At(t, "resolve")
     /\ l.todo # {}
     /\ \E s \in l.todo :
          IF variant[l.email][s] = NoQuestion
          THEN \E k \in 0 .. MaxElsewhere :
                 Goto(t, [l EXCEPT !.pc = "assign", !.todo = {s} \cup @,
                                   !.chosen = Turn(s, k)])
          ELSE Goto(t, [l EXCEPT !.todo = @ \ {s}])
     /\ UNCHANGED <<invite, attempt, variant, subs, charged, crashes>>

\* the last one to resolve wins
AssignWrong(t) ==
  LET l == th[t]
  IN /\ At(t, "assign")
     /\ \E s \in l.todo :
          /\ \E i \in DOMAIN Pool[s] : Pool[s][i] = l.chosen
          /\ variant' = [variant EXCEPT ![l.email][s] = l.chosen]
          /\ Goto(t, [l EXCEPT !.pc = "resolve", !.todo = @ \ {s},
                               !.chosen = NoQuestion])
     /\ UNCHANGED <<invite, attempt, subs, charged, crashes>>

\* Insert it; who lost the race keeps the winner's (uq_candidate_slot_variant).
Assign(t) ==
  LET l == th[t]
  IN /\ At(t, "assign")
     /\ \E s \in l.todo :
          /\ \E i \in DOMAIN Pool[s] : Pool[s][i] = l.chosen
          /\ IF variant[l.email][s] = NoQuestion
             THEN variant' = [variant EXCEPT ![l.email][s] = l.chosen]
             ELSE UNCHANGED variant
          /\ Goto(t, [l EXCEPT !.pc = "resolve", !.todo = @ \ {s},
                               !.chosen = NoQuestion])
     /\ UNCHANGED <<invite, attempt, subs, charged, crashes>>

\* All slots resolved: /start has its answer, /submit looks up its question.
Resolved(t) ==
  LET l == th[t]
  IN /\ At(t, "resolve")
     /\ l.todo = {}
     /\ Goto(t, IF l.route = "submit" /\ l.question \in Served(l.email)
                THEN [l EXCEPT !.pc = "check"] ELSE Idle)
     /\ UNCHANGED <<invite, attempt, variant, subs, charged, crashes>>

\* _check_not_already_submitted, the uncontended 409.
Check(t) ==
  LET l == th[t]
  IN /\ At(t, "check")
     /\ Goto(t, IF Submitted(l.email, l.question) THEN Idle
                ELSE [l EXCEPT !.pc = "attempt"])
     /\ UNCHANGED <<invite, attempt, variant, subs, charged, crashes>>

(***************************************************************************)
(* _get_or_start_attempt.                                                  *)
(***************************************************************************)
\* attempt.candidate_name or body.candidate_name: an empty name counts as none.
NameFor(l, held) == IF held \in Names THEN held ELSE l.name

\* trusts the name sent with each submit
HaveAttemptWrong(l, held) == IF l.route = "start"
                             THEN [l EXCEPT !.pc = "resolve", !.todo = SetSlots,
                                            !.name = NoName]
                             ELSE [l EXCEPT !.pc = "store"]

\* The attempt is there and holds a name, None or "": /start shows the
\* questions, /submit stores.
HaveAttempt(l, held) == IF l.route = "start"
                        THEN [l EXCEPT !.pc = "resolve", !.todo = SetSlots,
                                       !.name = NoName]
                        ELSE [l EXCEPT !.pc = "store", !.name = NameFor(l, held)]

\* An attempt that holds None takes this request's name, and one that holds ""
\* does not; no attempt is to be begun, with the candidate's consent (turned
\* away without it).
LookUp(t) ==
  LET l == th[t]
      a == attempt[l.email]
  IN /\ At(t, "attempt")
     /\ \/ Goto(t, CASE ~ a.begun -> [l EXCEPT !.pc = "charge"]
                     [] a.begun /\ a.name = NoName /\ l.name # NoName ->
                          [l EXCEPT !.pc = "name"]
                     [] OTHER -> HaveAttempt(l, a.name))
        \/ ~ a.begun /\ Goto(t, Idle)
     /\ UNCHANGED <<invite, attempt, variant, subs, charged, crashes>>

\* Written by primary key, from the row as it was read.
Name(t) ==
  LET l == th[t]
  IN /\ At(t, "name")
     /\ attempt' = [attempt EXCEPT ![l.email].name = l.name]
     /\ Goto(t, [l EXCEPT !.pc = "reread"])
     /\ UNCHANGED <<invite, variant, subs, charged, crashes>>

\* _claim_sitting: granted, or 503.
Charge(t) ==
  LET l == th[t]
  IN /\ At(t, "charge")
     /\ \/ charged' = charged + 1 /\ Goto(t, [l EXCEPT !.pc = "insert"])
        \/ UNCHANGED charged /\ Goto(t, Idle)
     /\ UNCHANGED <<invite, attempt, variant, subs, crashes>>

BeginAs(n) ==
  [begun |-> TRUE, name |-> n, over |-> FALSE, named |-> n # NoName]

\* an upsert: the loser's row replaces the winner's
InsertAttemptWrong(t) ==
  LET l == th[t]
  IN /\ At(t, "insert")
     /\ IF attempt[l.email].begun
        THEN Goto(t, [l EXCEPT !.pc = "release"])
        ELSE Goto(t, [l EXCEPT !.pc = "reread"])
     /\ attempt' = [attempt EXCEPT ![l.email] = BeginAs(l.name)]
     /\ UNCHANGED <<invite, variant, subs, charged, crashes>>

\* forgets to hand the claim back
InsertKeepsClaimWrong(t) ==
  LET l == th[t]
  IN /\ At(t, "insert")
     /\ Goto(t, [l EXCEPT !.pc = "reread"])
     /\ IF attempt[l.email].begun THEN UNCHANGED attempt
        ELSE attempt' = [attempt EXCEPT ![l.email] = BeginAs(l.name)]
     /\ UNCHANGED <<invite, variant, subs, charged, crashes>>

\* The unique constraint lets one handler begin the sitting.
InsertAttempt(t) ==
  LET l == th[t]
  IN /\ At(t, "insert")
     /\ IF attempt[l.email].begun
        THEN Goto(t, [l EXCEPT !.pc = "release"]) /\ UNCHANGED attempt
        ELSE /\ Goto(t, [l EXCEPT !.pc = "reread"])
             /\ attempt' = [attempt EXCEPT ![l.email] = BeginAs(l.name)]
     /\ UNCHANGED <<invite, variant, subs, charged, crashes>>

\* billing.release: the claim of the handler that lost goes back.
Release(t) ==
  LET l == th[t]
  IN /\ At(t, "release")
     /\ charged' = charged - 1
     /\ Goto(t, [l EXCEPT !.pc = "reread"])
     /\ UNCHANGED <<invite, attempt, variant, subs, crashes>>

\* A commit expired the row: its name is read again.
Reread(t) ==
  LET l == th[t]
  IN /\ At(t, "reread")
     /\ Goto(t, HaveAttempt(l, attempt[l.email].name))
     /\ UNCHANGED <<invite, attempt, variant, subs, charged, crashes>>

(***************************************************************************)
(* The submission.                                                         *)
(***************************************************************************)
\* leaves it to the check before: overlapping submits are both stored
StoreTwiceWrong(t) ==
  LET l == th[t]
  IN /\ At(t, "store")
     /\ Goto(t, Idle)
     /\ subs' = subs \cup
          {[email |-> l.email, question |-> l.question,
            name |-> l.name,
            late |-> Timed /\ attempt[l.email].over]}
     /\ UNCHANGED <<invite, attempt, variant, charged, crashes>>

\* Stored once (uq_submission_invite_candidate_question), late or not, under
\* the attempt's name, or the request's.
Store(t) ==
  LET l == th[t]
  IN /\ At(t, "store")
     /\ Goto(t, Idle)
     /\ IF Submitted(l.email, l.question) THEN UNCHANGED subs
        ELSE subs' = subs \cup
               {[email |-> l.email, question |-> l.question,
                 name |-> l.name,
                 late |-> Timed /\ attempt[l.email].over]}
     /\ UNCHANGED <<invite, attempt, variant, charged, crashes>>

(***************************************************************************)
(* The environment.                                                        *)
(***************************************************************************)
\* revoke_invite, revoke_any_invite
Revoke ==
  /\ active
  /\ active' = FALSE
  /\ UNCHANGED <<expired, attempt, variant, subs, charged, th, crashes>>

Expire ==
  /\ ~ expired
  /\ expired' = TRUE
  /\ UNCHANGED <<active, attempt, variant, subs, charged, th, crashes>>

\* started_at + duration + SUBMIT_GRACE_SECONDS has passed.
TimeIsUp(e) ==
  /\ Timed /\ attempt[e].begun /\ ~ attempt[e].over
  /\ attempt' = [attempt EXCEPT ![e].over = TRUE]
  /\ UNCHANGED <<invite, variant, subs, charged, th, crashes>>

Crash(t) ==
  /\ crashes < MaxCrashes
  /\ ~ At(t, "idle")
  /\ crashes' = crashes + 1
  /\ Goto(t, Idle)
  /\ UNCHANGED <<invite, attempt, variant, subs, charged>>

Step(t) ==
  \/ Resolve(t) \/ Assign(t) \/ Resolved(t) \/ Check(t)
  \/ LookUp(t) \/ Name(t) \/ Charge(t) \/ InsertAttempt(t) \/ Release(t)
  \/ Reread(t) \/ Store(t)

Next ==
  \/ \E t \in Threads :
       \/ \E e \in Emails, n \in Given : Start(t, e, n)
       \/ \E e \in Emails, n \in Names, q \in Questions : Submit(t, e, n, q)
       \/ Step(t) \/ Crash(t)
  \/ Revoke \/ Expire
  \/ \E e \in Emails : TimeIsUp(e)

Spec == Init /\ [][Next]_vars

-----------------------------------------------------------------------------
Begun == {e \in Emails : attempt[e].begun}

\* Threads between a granted claim and the row it pays for, or its return.
Owing(t) == th[t].pc \in {"insert", "release"}

\* The metered unit is the sitting, however often Start is clicked and from
\* however many tabs (_get_or_start_attempt): what was claimed is what was
\* begun, plus the claims that are still to be spent or returned.
ChargedOncePerSitting ==
  crashes = 0 =>
    charged = Cardinality(Begun) + Cardinality({t \in Threads : Owing(t)})

\* A candidate never restarts the clock (CandidateAttempt): a sitting that
\* has run out stays so, whoever else is opening the link.
ClockNeverRestarts ==
  [][\A e \in Emails : attempt[e].begun =>
       attempt'[e].begun /\ (attempt[e].over => attempt'[e].over)]_vars

\* What a candidate submitted is what their slots serve, for good: a variant
\* frozen at first sight is never drawn again (_resolve_slot_variant).
SubmissionsAreServed == \A s \in subs : s.question \in Served(s.email)

\* One candidate's submissions carry one name: the first one given wins
\* (candidate_submit) - where the sitting was begun with one.  Two
\* overlapping submits that both find it nameless each store their own, and
\* when it was begun with "", every submit does.
OneNamePerSitting ==
  \A s, u \in subs :
    /\ s.email = u.email
    /\ attempt[s.email].named /\ attempt[s.email].name # Blank
    => s.name = u.name

\* The sittings as their candidates see them: what Exam keeps of them.
Clock == [e \in Emails |-> CASE ~ attempt[e].begun -> "off"
                             [] attempt[e].begun /\ Timed /\ attempt[e].over -> "out"
                             [] OTHER -> "running"]
Bears  == [e \in Emails |-> attempt[e].name]
Signed == [e \in Emails |-> attempt[e].named]

Candidates == INSTANCE Exam WITH
  clock <- Clock, name <- Bears, signed <- Signed, dealt <- variant, answers <- subs

\* Every request, interleaved as it may be, is a step of the exam or none: a
\* sitting begins once and never gets its time back, a slot deals one question
\* for good, and what it dealt is handed in once (start, candidate_submit).
ImplementsExam == Candidates!Spec

=============================================================================
