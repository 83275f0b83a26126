# A verification of the assessment platform's backend

TLA+ models of the parts of `assessment_platform/` where something can go wrong
between two transactions, checked with TLC on small instances, and proved with
TLAPS where a property should hold for every number of submissions, handlers and
retries. `PROJECT.json` is the index: which lines each definition stands for,
what each run checks, which mistake each property would notice, and what the
code is exposed to.

## 1. The system

Interviewers of an organisation write questions, put them into assessments and
send invites. A candidate opens an invite's link, answers, and submits. An
external *assessment agent* grades each submission and calls back. The backend
is FastAPI over SQLAlchemy; production runs several worker processes against
PostgreSQL at READ COMMITTED (`docs/DEPLOY.md`), so every request handler and
every pass of the background reaper may interleave with any other between two
database transactions. Nothing is shared in memory except an in-process rate
limiter.

| Component | State | Operations | What is hard |
|---|---|---|---|
| Submission grading (`api.py` 5069-5321, 5376-5410, 5790-5890) | `Submission`, `AssessmentResult` rows | submit, retry, claim / trigger / accept, reap, callback | exclusive attempts, lost and repeated callbacks, crashes, recovery |
| Results notification (`notify.py`) | `CandidateAttempt.results_notified_at` | claim, reopen, deliver | exactly one announcement, and of the right result |
| Agent client (`agent_client.py`) | none | trigger with transport retries | an unheard trigger may have been accepted |
| Usage metering (`billing.py`) | `OrgUsage`, a row per month | consume, record, release, lazy settlement | the last unit, the first event of a month, hand-backs |
| Candidate sittings (`api.py` 4119-4830) | `CandidateAttempt`, `CandidateSlotVariant`, `Submission` | start, submit | double clicks, two tabs, the clock, frozen variants |
| Roster and seats (`api.py` 880-1082, 1209-2045) | `Membership`, `OrgInvite`, `Organization`, `Interviewer` | invite, accept, promote, remove, sign up, found, leave | check-then-act on the last admin and the last seat |
| Subscriptions (`api.py` 911-954, 2050-2326, `stripe_client.py`) | the billing columns of `Organization`; Stripe's customers and subscriptions | checkout, webhook, purge | unordered and repeated events, two checkouts, lost answers |
| Privacy (`privacy.py`) | every row with a candidate's address; tombstones | erase on request, retention sweep | erasing what a handler or the grader still holds; JSON lists written whole |
| Accounts (`auth.py`, `api.py` 860-1295) | `Interviewer`; signed tokens and links, stored nowhere | register, log in, refresh, reset, confirm, move, delete | single use and revocation without a table of either |
| Library (`api.py` 2333-3315) | `Question`, `Assessment`, `AssessmentQuestion`, `VariantSet` | create, edit, replace the slots, archive, delete | the lock once a candidate was invited; eight foreign keys to guard |
| Invites (`api.py` 3323-3549) | `Invite` | create, batch over a variant set, deliver, revoke | what an invitation freezes, the rotation, capacity |
| Rate limiter (`ratelimit.py`) | a counter per window | check, purge | the limit under concurrency, window edges |
| Scoring (`integrity.py`, `analytics.py`) | none | pure functions | boundaries |
| Candidate page (`web/src/`) | local storage, timers | lock, autosave, buzzer | two tabs, the buzzer racing a click |

The parts call one another directly. A starting sitting *consumes* a unit of
Metering; a stored submission enters Grading; a landing grade *records* its cost
in Metering and may *announce* the sitting; the roster and the subscription
decide what the plan allows; deleting an organisation (Roster, Accounts) cancels
its subscription; an erasure writes the rows that Sittings and Grading make.
Logos, e-mail, observability, schemas, the
interviewer's client and the migrations carry no state machine worth a model
(`PROJECT.json` gives the reason for each).

For each modelled component, what makes it correct:

- **Grading**: an attempt has one holder; what the agent grades finds its row;
  an end state is left only by hand; automatic triggers stop; nothing is
  stranded; a grade is billed once.
- **Notification**: a sitting is announced once per opening, when it has ended,
  and with what is recorded.
- **Metering**: claims stay within the allowance; the counter is what happened;
  a debt is carried in full, and once.
- **Roster**: every organisation can be managed; seats stay within the plan; rows
  that point at one another come and go together; leaving takes nothing of others.
- **Sittings**: begun once, charged once, never restarted; a candidate answers
  what they were served, under one name.
- **Subscriptions**: what a row names, an event of its own customer vouches for;
  once Stripe's events were delivered the row says what Stripe says; a deleted organisation pays no more.
- **Privacy**: what is erased is gone everywhere, for the right reason only, and
  what remains of it still fits together; nobody is locked out of a live sitting.
- **Accounts**: a session lasts as long as the password it was proven with; a
  reset link works once; an address is confirmed only from its own mailbox.
- **Library and invites**: the guards of a deletion know every foreign key; no
  record of a candidate is lost or unreadable; after an invitation its assessment
  and its slots stand; a begun sitting keeps its link; a variant set is used evenly.

## 2. Modules

| Module | Models | Uses |
|---|---|---|
| `Grading` | submissions of one sitting, from submit to announcement, with the agent | `GradingLedger` by refinement |
| `GradingLedger` | what grading promises: numbered attempts, each granted once and answered at most once | - |
| `GradingProofs` | the theorems about `Grading` | `Grading`, `TLAPS` |
| `MCGrading` | instances | `Grading` |
| `Metering`, `MCMetering` | one allowance of one organisation over several months | `MonthlyBudget` by refinement |
| `MonthlyBudget` | what metering promises: books that are settled when a month begins | - |
| `MeteringProofs` | the theorems about `Metering` | `Metering`, `TLAPS` |
| `Sittings`, `MCSittings` | the candidate's routes on one invite | `Exam` by refinement |
| `Exam` | what a candidate is promised: a sitting without requests, tabs or races | - |
| `SittingsProofs` | the theorems about `Sittings` | `Sittings`, `TLAPS` |
| `Roster`, `MCRoster` | organisations, members, invitations and accounts | - |
| `RosterProofs` | the theorems about `Roster` | `Roster`, `TLAPS` |
| `Subscriptions`, `MCSubscriptions` | checkouts, the webhook and the purge, against Stripe | - |
| `SubscriptionsProofs` | the theorems about `Subscriptions` | `Subscriptions`, `TLAPS` |
| `Erasure`, `MCErasure` | two kinds of erasure against every writer of a candidate's rows | - |
| `ErasureProofs` | the theorems about `Erasure` | `Erasure`, `TLAPS` |
| `Library`, `MCLibrary` | authoring, inviting, and the candidates' rows that point at either | - |
| `LibraryProofs` | the theorems about `Library` | `Library`, `TLAPS` |
| `Accounts`, `MCAccounts` | accounts, sessions, mailed links | - |
| `AccountsProofs` | the theorems about `Accounts` | `Accounts`, `TLAPS` |

Conventions shared by all of them. A *thread* is a request handler or a reaper
pass in any worker process. An action is one transaction, one deciding query, or
one exchange with the agent; what the Python frame keeps across it is a record
per thread (`th`, `call`), so a stale value is stale in the model too. A request
that is refused leaves no trace but what it had committed. A crash drops a
thread; the database keeps what was committed. Operators named `...Wrong`
belong to no specification: each is the operator below it with a plausible
mistake, used to show that a property would notice.

### Grading

`row`, `result`, `stamp`, `billed` are the database; `aged[s]` says that
`updated_at` is older than the grace of the row's status (every write makes it
young, `Age` makes it old); `jobs` and `callbacks` are the agent, which may
finish, lose, answer late, answer twice or never answer.

| Action | Code |
|---|---|
| `Submit`, `Retry`, `Reopen`, `Reload` | `candidate_submit`, `retry_submission`, `notify.reopen_sitting` and the reload its commit forces |
| `Reap`, `GiveUp` | `_reap_tick`: re-claim, or error past the last attempt |
| `Claim`, `PostHeard`, `PostUnheard`, `PostRefused`, `Refuse`, `Accept` | `_trigger_agent`, its three steps, and the transport's tries |
| `Load`, `Ignore`, `Requeue`, `Land`, `Conflict`, `Bill` | `assessments_callback`, between load and commit |
| `Count`, `Stamp`, `Deliver` | `notify.claim_sitting`, `_claim`, `deliver` |

`Matches` is the compare-and-swap `_cas`. The callback handler does not use it:
it loads, decides, and writes by primary key, and so does the model (`Load`
remembers, `Land` and `Requeue` write).

### Metering

`rows[m]` is the organisation's `OrgUsage` row of month `m` for one metric
(`used`, `<metric>_over`, `<metric>_carried`). `Consume`, `Look`, `Ensure`,
`Claim` are `consume` statement by statement. `Record` is where `record` asks for
the month and `Bump` its UPDATE, which goes to that month even when it has ended
since; the row is created in between when there was none. `Ensure` and `Insert`
are the two statements of `_ensure_row`; `Release` asks for the month, `Load`
reads the counter and `WriteBack` writes it. `Work` is the route:
some or all of the units take place and a shortfall is handed back. The month
may turn between any two steps, and each step uses the month the code asked for
last (`c.period`). `late` is what was booked as overrun in a month already over.

`MonthlyBudget` knows no rows that are made on the fly, no handlers and no stale
reads. What a month ran over by until it ended is due in the next (`Turn`). That
one is settled once, by its first event and before anything is counted in it
(`Settle`): for what was due, or for more, where an overrun was booked late and the
settlement has seen it. Units are granted within the best plan less that debt
(`Grant`), or counted, with the overrun among them (`Count`), perhaps in the month
before; only a hand-back lowers a counter (`Return`, `Rewrite`). `Debt` maps one to
the other: what the month's row carries or, for a month without one, what the
month before ran over by in time. So the lazy settlement of `_ensure_row` is shown to
charge no less than one on the first of the month, and at most what the books say.

### Sittings

`Start` and `Submit` are the routes' gates; `Resolve`, `Assign` are
`_resolve_slot_variant` per set slot; `LookUp`, `Name`, `Charge`,
`InsertAttempt`, `Release`, `Reread` are `_get_or_start_attempt`; `Store`
inserts the submission. The three unique keys (attempt, slot variant,
submission) decide who wins a race, and the loser does what the code's
`except IntegrityError` does. The round-robin also counts the assignments that
other invites of the assessment have made: `Resolve` takes any number of them, up
to `MaxElsewhere`. A name is one of `Names`, `NoName` (None) or `Blank` (the empty
name `schemas.py` admits); `Given` is all of them. `LookUp` gives an attempt a name
only where it holds `NoName`, `Store` takes the request's own unless the attempt
holds one of `Names` (`NameFor`): the code tests `is None` in the one place and
truthiness in the other, and `Blank` is where they differ.

`Exam` is the sitting as the candidate sees it: `Begin` once, with a name or
without, `Sign` while it was begun with none, `Deal` one question per slot for
good, `RunOut` once, and `HandIn` each question served at most once, late exactly
when the time was up, under the name the sitting was begun with unless that is
empty. `Clock`, `Bears`
and `Signed` read it off the attempt's row; charges, unique keys and
crashes have no counterpart.

### Roster

Each route is a *check* (the queries it decides by) and a *commit* (its
transaction, which meets the database as it then is): `UpdateMemberRole` /
`SetRole`, `RemoveMember` / `Remove`, `CreateOrgInvite` / `Invite`,
`RevokeOrgInvite` / `Revoke`, `AcceptOrgInvite` / `LeaveEmptyOrg` / `Join`,
`Register` / `Enrol`, `CreateOrg` / `FoundOrg`, `DeleteMe` / `Quit`. A membership
row that was deleted or replaced between the two is recognised by `via` (the
invitation it came through) and the write fails, as the ORM's update by primary
key does. `create_org_invite` deletes the pending invitation before it counts
seats, so it holds that row's lock until it commits: `doomed`, and `Locked` for
those who wait. `Purged`, `PurgedInvites` and `PurgedOrg` are `_purge_org`, which
deletes whatever belongs to the organisation at the commit and not at the check.

The code takes no lock and sets no isolation level here, so its guards hold for
one request at a time. `apart` says which requests happen not to overlap one
another: none (as in production), those that take somebody's seat, those that
give one out, or both. Each initial state chooses one, a behaviour keeps it, and
a property that needs such a proviso names it. It says nothing of `Author`, who
writes (or drops) an organisation's first question whenever it is there, and
therefore also between the check and the purge of somebody who leaves it.

`unsettled` marks such organisations: those that a request is leaving and would
purge (`Leaving`), while somebody came or went or something was written since that
request's check (`Changed`). Every step of `Act` keeps it up to date (`Note`).
`LeavingDestroysNothing` excepts these organisations and holds of all others without
any proviso on what overlaps.

### Subscriptions

Stripe is the environment: `owner` and `sub` are its customers and
subscriptions, `sent` the events it has not seen acknowledged. `Pay`, `Change`
and `Cancel` are what its hosted pages and its dunning do. `BeginCheckout`,
`MakeCustomer`, `OpenSession` are `start_checkout` between its calls to Stripe;
`Receive` and `Answer` are `stripe_webhook` between loading the row and
committing; `PurgeOrg`, `Purge` are `_purge_org`. `Merge` is the ORM's UPDATE,
which writes the columns the handler changed and leaves the others to whoever
wrote them meanwhile. `Drop` and `Die` are calls Stripe fails and workers that go
away; an event whose handler died stays in `sent`.

Nothing in the code compares the times of two events. `orderly` says whether
Stripe happens to deliver a subscription's events in the order it made them, but
for cancellations, which may come late: each initial state chooses, and
`AgreesWhenDrained` and `CatchesUp` are about the orderly ones, `Evidenced` and
`PurgeEndsBilling` about all. `crowded` marks an organisation that ran two
subscriptions at once (two checkouts opened before either was paid): the row has
room for one.

### Erasure

A candidate's request is checked (`Ask`), then makes its commits one by one
(`PutMark`, `PutAttempt`, `PutSubmission`, `PutDraft`, `PutFeedback`; `Plan` says
which in what order). `EraseCandidate` and `Sweep` are the two ways to begin an
erasure: they find the submissions by id and compute the invitations' JSON lists.
`CommitErasure` is `_erase`'s transaction: its bulk updates take the rows that
match by then, submissions and results go by the ids found before, and the lists
are written as computed. `CreateInvite` and `SaveDeliveries` are the
invitation's two commits, on either side of the e-mails; `Callback` is a grade
that lands after its submission was erased.

A candidate's request, or another erasure, that has a sitting in hand while it
is erased may write its address again: the code has no lock between the two.
`overlapped` marks these sittings, and the properties are about all others.

### Library

`UpdateSlots` / `CommitUpdate`, `DeleteQuestion` / `CommitDelete`,
`DeleteAssessment` / `CommitDrop` and `InviteBatch` / `CommitBatch` decide by what
they read and commit later; everything else is one step, because what could
come in between either makes its commit fail or could have come first. `Intact`
is the set of foreign keys: a commit that breaks one is refused whole. A deletion
takes along what the ORM loads at the flush, some time after the check: a question
its drafts and invitations (`DraftsOf`), an assessment its slots. The invitations to
an assessment are covered by no cascade: their key is nullable, and the ORM sets it to
NULL (`Unlinked`), so `NoQuestion` is where such a link leads, and nobody can start
from it. What has come in after the check is loaded too, or too late and refused for:
both are in `CommitDelete` and `CommitDrop`.
`Variants` lists what is left of a set by giving each variant its rank among the
remaining ones, in the order of their labels. The labels are taken as distinct,
which nothing in the code enforces: of two alike the database decides the order, call
by call, and neither the draw nor the rotation would be even.
`Start`, `Resolve`, `Event`, `Draft`, `Submit` are the candidates' requests, with
the columns of their rows that are foreign keys.

`crossed` marks an assessment that was invited to, or replaced, while its slots
were being replaced or it was being deleted; `skewed` a set whose rotation was pinned, overlapped or cut
by a deletion. Both are reachable, listed as hazards, and exempt from the
properties that the code does not promise for them.

### Accounts

`tokens` are the sessions in all browsers, `links` the links in all mailboxes;
neither is stored by the code, so `Accepted` and `BoundToAddress`,
`BoundToPassword` check what each carries against the account's row. `OpenLink`
is the first half of `verify_email`, `reset_password` and `confirm_email_change`,
`CommitVerify`, `CommitReset`, `CommitMove` the second; `ChangePassword`,
`CommitChange`, `Issue` are `change_password`, `DeleteMe`, `CommitDeletion` the
deletion. `Store` is the ORM's UPDATE of the columns that changed.
`SetPassword` writes the version it loaded plus one, so two requests that set one
account's password at once may undo each other's revocation: `raced` marks such an
account.

## 3. Runs

| Run | Shows | Instance |
|---|---|---|
| `grading_safety` | one holder per attempt; callbacks find their row; one announcement per opening; end states left only by hand; automatic attempts bounded; every step is a ledger step or a stutter | 1 submission, 2 threads, 2 attempts, 1 retry, 1 crash |
| `grading_billing` | each grade is billed once, while callbacks with a cost come to a submission one at a time (`PricedApart`, a state constraint) | 1 submission, 2 threads, 2 minted ids, 2 attempts, 1 retry, costs 1 and 2 |
| `grading_graded` | a submission always comes back to done or error; one trigger on the wire | 1 submission, 2 threads, 2 attempts, 2 transport tries, 1 crash, no retry |
| `grading_announced` | a complete sitting is announced | 2 submissions of one sitting, 2 threads |
| `metering_safety` | budget, count and carried debt; every step is a step of the monthly books or a stutter | 2 threads, 2 calls, limits 1 and 2, a debt of 1, 2 month ends, 1 crash |
| `sittings_safety` | charged once, served what was frozen, one name; every step is a step of the exam or a stutter | 1 candidate, 2 threads, 2 names and the empty one, a fixed slot and a set slot of 2, 1 crash |
| `roster_safety` | an admin remains, seats within the plan, nothing dangles, leaving destroys nothing but what came in meanwhile | 3 people, 2 threads, 2 organisations, 2 invitations, plans of 2 and 3 seats, 4 requests |
| `subscriptions_safety` | what a row names was bought by its organisation at some time; a drained organisation is where Stripe says, and gets there; a purge ends the billing | 1 organisation, 2 subscriptions, 2 requests, 1 worker, 3 moments at which Stripe emits, 1 fault; in order and not |
| `erasure_safety` | what is erased is gone, whole, when due; no live sitting is locked out | two candidates on one link or one on two, 2 threads, 2 requests, 2 erasures |
| `library_safety` | guards cover the foreign keys, records stay and can be read, invited assessments and their slots stand, begun sittings keep their link, even use of a set | 2 questions, 1 set, 1 assessment, 2 terms, 2 threads; four cases with up to 4 invitations, 2 edits, 3 requests |
| `accounts_safety` | sessions follow the password, reset links work once, addresses are proven | 2 accounts, 3 addresses, 2 threads, 4 passwords, 2 visits, 3 mails |

The bounds are the smallest at which the races happen. Two threads suffice for
every hazard listed, because each is a race between one handler's read and
another's write; a third handler's effect on either is one of the states the
model already visits. Two attempts let an attempt be superseded while an answer
to it is on its way, and the limit be reached. Two metering calls let two
handlers race for a unit, or for a month's row, and let one book an overrun in a month
that has ended while the other settles the next; two month ends take that into a
third month. Four
requests let an invitation be sent and taken up by someone who has to leave an
organisation for it while a fourth request interferes; three people are an admin,
a colleague and a newcomer, and fill the smaller plan. Two subscriptions are the
one that ran and the one that replaces it; three moments are a payment, a change
and an end, or the ends of both. Two erasures are two requests, two sweeps or one
of each, and the second sees what the first left. `library_safety` takes four
cases, so that each of them can be larger than all at once: assessments and who
sits them; questions and who is sent one; a set handed out in batches, twice
around; and a little of everything. Three addresses are one left, one taken and
one still free; four passwords are two accounts' first ones and two changes.
Types are proved for every module (section 5), and no run spends itself on them.
`PricedApart` cuts off the states in which two callbacks with a cost are in hand
for one submission, and what follows from them; all other overlaps are there: of
two callbacks of which one has no cost, of a callback with the trigger, the reaper,
a retry and the billing of the grade before.

What has to hold at *every* size is proved (section 5).

One run expects a violation, a disagreement between the code and a sentence of
its own (quoted in `PROJECT.json`, `findings`): in `grading_worker_error` a worker
error loaded before the grade commits puts a graded submission back to pending,
because the check is on the row as loaded and the write is by primary key.

Further disagreements are reachable in the models. Each is a hazard in
`PROJECT.json`, and the properties say where they leave it out:

- two overlapping callbacks take their cost delta from the same loaded row and
  bill a grade twice (`api.py` 5878; `PricedApart` excludes it from `BilledAsReported`);
- `release` is a read-modify-write: a concurrent claim is lost and its unit sold
  again (`billing.py` 313; `WithinAllowance` leaves out months with a hand-back);
- a fixed slot's question may also be a variant of another slot's set, and who
  draws it can never complete the sitting (`api.py` 3113);
- an unenforced unit asked for before midnight is recorded in the new month, its overrun
  judged by the old month's count: one may be booked there although the new month has
  room, or none although it is full (`billing.py` 284-285; `DebtIsCarried` takes an
  overrun as it is recorded);
- an overrun booked after its month has ended is lost when the next month's row was
  made in between: `record` asks for the month (`billing.py` 346) before its UPDATE
  (352), although 178-180 says that the settlement cannot be lost to an ordering accident
  (`DebtIsCarried` demands only what was booked in time, and that nothing is charged
  twice or made up);
- a sitting begun with an empty name, which `schemas.py` 809 admits, is never given
  one (`api.py` 4427 asks for None), and each submission stores the name it was sent
  with (4811), although 4795-4798 says the first one wins (`OneNamePerSitting`
  leaves such sittings out);
- leaving an organisation is refused unless it "destroys nothing" (`api.py` 1482), but
  what is written, or who joins, between the checks (1494-1507) and the purge (2040)
  goes with it; and if the leaver is removed by a colleague before 1494 counts one
  member, the purge takes the organisation from that colleague (`unsettled`);
- an assessment with an invitation is not to be deleted, for its links are live
  (`api.py` 3299-3301), but one sent between the count (3303) and the flush (3314) is
  set to lead nowhere, as `models.py` 412 has no cascade over a nullable key; its
  candidate gets a 500 where 4365 says that one of the two targets is always set
  (`crossed`; `SittingsKeepTheirLink` allows this loss and no other);
- the grade of an erased submission restores what the erasure took out of the result,
  although `docs/PRIVACY.md` 108-112 has it replaced for good; so does one that commits
  between the erasure's statements on results (`privacy.py` 225-230) and on
  submissions (231-236) (`Forgotten` is about the grades that came before; `Callback`
  marks the others as late);
- two admins demote one another at once, and nobody can manage the organisation
  (`api.py` 1408; `apart` in Roster);
- a retry may claim a submission graded meanwhile, although it is "only allowed
  from error"; a grade that lands after the reaper gave up is never announced; a
  sign-up through an invitation does not look at the plan again;
- two overlapping password changes (`raced`), two checkouts before either is paid
  (`crowded`), a candidate's request under way while its sitting is erased
  (`overlapped`), and an invitation sent while the slots are replaced (`crossed`).

## 4. Fairness

`Grading` and `Subscriptions` have liveness; in the other components every
request ends by itself, and nothing is owed to anybody later. In `Metering` and
`Sittings`, whose handlers look again and take one slot after the other, that is
a theorem without fairness (`RequestsEnd`, section 5): a request has a number of
steps left that each of its own brings down and nobody else's raises. In `Roster`,
`Erasure`, `Library` and `Accounts` a handler only moves forward. `Fairness` in
`Grading` assumes what the code's scheduling gives: a handler that has started goes on (`WF` of `Continue`); the reaper loop
selects every stale row on every pass, so a row that is stale again and again is
taken in the end (`SF` of `Reap`, since a row is young again after each write);
rows grow old (`WF` of `Age`); the agent stops re-sending a callback at some
point. Nothing is assumed of the agent's answers, of users, or of retries.
`EventuallyAnnounced` excludes a crash between stamp and delivery: the code
keeps no outbox and promises best effort there.

`FairSpec` of `Subscriptions` is `WF` of `Webhook` for each worker: Stripe repeats
an event until it is acknowledged, and a handler that was not killed answers.
Nobody has to pay, change or cancel anything. Under it an organisation agrees
with Stripe again and again, after whatever happened to it last (`CatchesUp`).

Two further assumptions are parameters. `GraceCovers` says that
`TRIGGER_RETRY_AFTER_S` exceeds the longest trigger (what `config.py` 296-306
demands of the deployment); `OneTriggerInFlight` is checked under it, everything
else in `grading_safety` without it. `MintIds` says whether the agent echoes the
job id it is sent (`CallbackFindsItsRow` needs that it does) or mints its own.

## 5. Proofs

Each theorem below holds for every value of the constants that satisfies the
module's named assumption; what a cfg bounds for TLC (crashes, calls, months) is a
parameter there. Each has the shape *initial states satisfy the strengthening,
every step preserves it, it implies the property*; the step lemma has one case
per action.

**`GradingProofs`**, from `GradingAssumption`: `TypeCorrect` and
`AttemptsAreExclusive` (`AttemptHeldOnce`). Exclusion is not inductive by itself:
that two threads do not hold one attempt now says nothing about the thread which
is about to take it. The strengthening says that the attempt number in a row only
grows, and that whatever a thread holds is numbered at most that. A step that
takes an attempt raises the number, so no one can have held it before. The types
need the same kind of help (`Fit`): what a thread's record must contain depends
on where the thread is. Further:

- `CallbacksFindTheirRows` (`CallbackFindsItsRow`), for an agent that echoes the job
  id it is sent (`MintIds = {}`), from `FoundInv`: a row has its job id before the
  agent hears of the attempt, and keeps it as long as anything of the attempt is on
  the way, however many attempts follow.
- `GradesBilledOnce` (`BilledAsReported`), on behaviours that satisfy `PricedApart`
  throughout, as in the run; like the property, while nothing has crashed. A sum over
  all submissions would need induction, so the total is compared with the number of
  units in a set (`UnitsOf`, *n* units of a submission whose row says *n*), which
  changes by one row's share (`UnitsMove`). `BillInv` adds what handlers are about to
  bill: those units, and, for a grade that became cheaper, those to be taken
  off, make up the difference between the rows and the total; and a handler with a cost
  in hand still has its row's cost as it loaded it, which is what `PricedApart` is for.
- `NotifiedOnce` (`NotifiedOncePerOpening`), inductive with the types alone: the stamp
  is a claim on one row, whoever counted the sitting complete.
- `TerminalIsLeftByHand` (`TerminalLeftOnlyByHand`) and `AttemptsAreBounded`
  (`AutomaticAttemptsBounded`): no automatic step leaves an end state or passes the
  last attempt by what it read, since each compares the row with that.
- `TriggersDoNotOverlap` (`OneTriggerInFlight`), under `GraceCovers` and without
  retries by hand, which ask for no grace. `GraceInv`: the row of a held attempt is
  not old, and whoever is about to claim it expects an earlier attempt.
- `GradingKeepsTheLedger` (`ImplementsLedger`): `Grading` implements `GradingLedger`.
  Initial states map to initial states, and every step to an admission, a grant, an
  answer, a lapse, a settlement or a stutter. It rests on `HeldInv` and on
  `MadeInv`: whatever is at work or on its way is about a submission that was made.

**`MeteringProofs`**, from `MeteringAssumption`: `TypeCorrect` and
`DebtSettledOnce` (`DebtIsCarried`). The property speaks of a month's row and the
overrun of the month before it, and two things could disturb it later: an overrun
added to a month that was already settled, and a row made for a month too early. The
first does happen, so `Books` says what it can do: a month that is over gains an overrun
only with as much that is late, and what it had in time stays. `Kept` says that a
handler about to make a row holds an overrun it read once the month before had ended,
hence no less than that; and `Books` excludes the second (no month after the
current one has a row). It rests on the
guard of `NextMonth`: no call outlives the month that follows the one it began in.

- `CountIsFaithful` (`CountsWhatHappened`) from `CountInv`: but for months with a
  hand-back, the counter is at least what was delivered plus what handlers claimed
  and have in work, and equal to it while none has died. A sum over all handlers
  would need induction; the units in work are a set (`InWork`, each handler's
  `Pieces` of its own), and its cardinality changes by one handler's share.
- `BudgetIsKept` (`WithinAllowance`) from `BudgetInv`: the counter, work in hand
  included, stays within the allowance, and so does every limit a handler is about
  to claim by.
- `MeteringKeepsTheBudget` (`ImplementsBudget`): `Metering` implements `MonthlyBudget`.
  Making a row is a settlement, for an amount between what was due and what the month
  before has run over by since (`Kept`, `Books`). A claim is a grant by the limit of `BudgetInv`, although the plan may have changed
  since it was read; what is recorded goes down in the current month or the one
  before, overrun included (`Tallied`, `DebtStays`). `AskedInv` adds that the units
  are ones that were asked for, and that nobody claims where nothing is enforced.
- `DebtStaysFixed` (`DebtIsFixed`), from the same step lemma: no step forgives any of the
  debt of a month that has begun, and once the month has its row no step changes it.
- `RequestsDoEnd` (`RequestsEnd`): a request ends within eighteen steps of its own. The
  count (`StepsLeft`) depends on whether the month's row is there, which only helps,
  since a row stays (`RowsRemain`).

**`SittingsProofs`**, from `SittingsAssumption`:

- `TypeCorrect` and `ChargedOnce` (`ChargedOncePerSitting`), from `Counted`: what
  was claimed is at least the sittings begun plus the handlers that owe one
  (`Owers`), with equality while no handler has died. Even `charged \in Nat` needs
  it: `Release` subtracts, and only the count says there is something to subtract.
- `ClockCorrect` (`ClockNeverRestarts`), `ServedCorrect` (`SubmissionsAreServed`)
  and `NameCorrect` (`OneNamePerSitting`), from `SittingInv`. Its core is
  `Grown`: a sitting that began stays begun, keeps its clock and the name, empty or
  not, it began with, and a frozen variant stays frozen. What a handler read of these
  (`Sound`) therefore still holds when it stores the submission, however many
  steps of others lie in between (`SoundStays`, `SubStays`).
- `SittingsKeepTheExam` (`ImplementsExam`): `Sittings` implements `Exam`. Each step
  begins, signs, deals, runs out or hands in for one candidate, or changes nothing
  the candidate sees (`SceneStays`): a charge, a hand-back, a lost race, a crash. That a
  handler hands in what the sitting dealt, late when it is late and under its name
  where that is not empty, is `Sound` once more.
- `RequestsDoEnd` (`RequestsEnd`): a request ends within 2 *n* + 8 steps of its own, for
  *n* set slots. What it has left follows from its place and the slots it has still to
  resolve; a handler that loses a race goes on as the one that won it.

**`RosterProofs`**, from `RosterAssumption`:

- `TypeCorrect`, and `RowsGoTogether` (`NothingDangles`) from `LinkInv`. A commit
  purges one organisation and takes up an invitation to another, and that these
  are two needs `Aimed`: the invitation's row was another organisation's at the
  check, and rows never change organisation and are never reused (`SentStays`).
- `AdminStays` (`AdminRemains`) from `Guarded`. That there is an admin now says
  nothing about the handler that is about to remove one. `Backed` says that it
  leaves another behind, which the guard established at the check; `Alone`, that
  no second handler is about to remove that other one. All other steps are `Calm`:
  they take nobody's role, seat or account, so both survive them.
- `SeatsAreKept` (`SeatsWithinPlan`) from `Seated`: not only do members and pending
  invitations fit the plan, there is room for the seat a request is about to give
  out (`Room`), of which there is one at a time (`AloneAdmitting`).
- `LeavingIsHarmless` (`LeavingDestroysNothing`) from `Departing`, for whatever
  overlaps: an organisation that a request is about to purge still has no other
  member and no work of anyone's, as at its check (`Unshared`), or it is marked as
  unsettled. What is left before and after a step and not marked after it was not
  marked before and has not changed (`SettledStays`).

**`SubscriptionsProofs`**, from `SubscriptionsAssumption`: `TypeCorrect` and
`EvidencedHolds` (`Evidenced`), for any order, repetition and loss of events. What
a row says comes from an event, and an event from Stripe's books, so the
strengthening (`Bought`) says the same of everything on the way: an event that was
sent, a row a worker loaded, a customer or a session a request holds are the
organisation's own. Stripe's books only grow (`BooksGrow`), so that stays true
however late any of them is used.

- `RowsFollowStripe` (`AgreesWhenDrained`): where no event is left to deliver, the row
  says what Stripe says. Then nothing more is to come, so the invariant has to say
  what is to come otherwise: in `Ordered`, the one busy worker has the first of the
  events and the row it loaded is as it was (`InTurn`); a subscription a row or an
  event names runs, or its end is still to be handled (`Ending`); and the last event
  about the running one says what Stripe's books say, or the row does if there is none
  (`Following`).
- `PurgeEndsIt` (`PurgeEndsBilling`) from the same: at a purge of a drained
  organisation the row names the one subscription it runs.

**`ErasureProofs`**, from `ErasureAssumption`: `TypeCorrect`, `KeysCorrect`
(`KeysHold`) and `DueCorrect` (`ErasedOnlyWhenDue`), from `Due`. A tombstone carries
the number of the erasure that minted it, so a commit that anonymises rows of one
invitation gives them a name no other row has, provided that no two running
erasures share a number and none has named anything yet. And what an erasure is
about to anonymise was old, or its candidate's, when it was found, and is still so
at the commit: age is not lost, and an address is changed only by an erasure.

- `NobodyIsStranded` (`NobodyStranded`) from `Listed`. An erasure writes whole JSON
  lists that it computed earlier, so the invariant is about the lists in the threads'
  hands as much as about the invitation's own: what has become of the lists an eraser
  loaded (`Since`), whom it takes off them (`Cut`), what the invitation's second commit
  still lists (`Delivers`), and that whoever a request was checked for is on the list
  (`Admitted`); each unless the sitting is marked as overlapped.
- `ErasedIsForgotten` (`Forgotten`) and `SittingsStayWhole` (`SittingWhole`) from that
  and `RowsKept`: a forgotten sitting's rows are all tombstones without words
  (`Interred`), what a request has still to put fits the sitting (`Asking`), and an
  eraser has found every submission of the sittings it is about to erase (`Has`).

**`LibraryProofs`**, from `LibraryAssumption`:

- `TypeCorrect`, `GuardsCorrect` (`GuardsSuffice`), `RecordsReadable`
  (`Readable`), `RecordsStayCorrect` (`RecordsStay`), `SlotsLockedCorrect`
  (`SlotsLocked`) and `SittingsKeepTheirLinkCorrect` (`SittingsKeepTheirLink`), all
  from `RowsInv`. Its parts: no foreign key dangles (`Intact`); invitations are
  numbered once (`Numbered`); an assessment with an invitation that is being replaced
  or deleted is marked as crossed, and no deletion under way takes along a row of a
  candidate's that is not a draft (`Holding`); and a record has the columns of its kind
  and fits the invitation it is under (`Fitting`). The deletion of an assessment is the
  one step that rewrites invitations: `UnlinkedRows` says that each keeps all but its
  target, `DropNumbered` that they stay numbered once, `InviteStep` that every
  invitation after a step was there before it, was made by it, or lost a target that
  is crossed, and `DropSpares` that the rotation of a set loses none. What an invitation freezes of an assessment's terms is a
  column nothing writes, so no property is spent on it.
- `UsedEvenly` (`EvenlyUsed`) from `Rotating`. That two variants' counts differ by at
  most one is not inductive: a batch with the difference on the wrong side would
  make it two. The invariant is that the counts are those of a rotation, the first
  *n* mod *l* variants one ahead of the others (`Turns`), and that the one batch under
  way begins where it stands (`Continues`). `NextTurn` is one invitation and `BatchTurns` a
  batch, an induction along it by the least invitation that fails (`Least`);
  the arithmetic is `ModRange` and `ModNext`.

**`AccountsProofs`**, from `AccountsAssumption`:

- `TypeCorrect`, from `Typed`: whatever names an account names one that was once
  registered, so an id given out anew (they are not) would be noticed; and a
  version is always below the number of passwords set.
- `AddressCorrect` (`AddressProven`) from `Proven`: an account that has proven
  nothing is where it registered, and every link that could confirm it was mailed
  there; a link that moves it proves the address by being opened.
- `SessionsCorrect` (`SessionsFollowPassword`) from `SessionInv`. That sessions
  follow the password now says nothing of a request about to write the version it
  read a while ago. `Apart` says that of two requests setting one account's
  password the second has marked it; so of an unmarked account the one request in
  hand still goes by the row (`Current`), and no token is of a version to come
  (`Follow`).
- `ResetCorrect` (`ResetOnce`) from that and `Spent`: passwords are numbered and an
  account's only grows (`StepIsLater`), so a link that was used is bound to one
  that will never be in force again.

## 6. Model-checked only

Liveness (`EventuallyGraded`, `EventuallyAnnounced`, `CatchesUp`) is checked by TLC
alone: it rests on fairness, for which the prover has no rule. Every other property
of a passing run is a theorem.

Three theorems hold under a condition: `CallbacksFindTheirRows` for an agent that
echoes job ids, `TriggersDoNotOverlap` for a grace longer than the longest trigger and
no retry by hand, `GradesBilledOnce` for behaviours in which no two callbacks with a cost
are in hand for one submission. The runs check them under the same conditions.

## 7. Not modelled, and the plan

Left out of the modelled components: the wording of e-mails and webhook bodies,
webhook URL checks, error texts, code and language; the run routes
(pass-throughs to the agent); costs' fractions; the agent's drafting of questions,
but for its metering; billing periods' ends; the numbers of a question's content.
Ids of rows are not used again: PostgreSQL's sequences promise it, SQLite in
development does not. A request that is refused, by a guard, a constraint or the
rate limiter, is no step.

Not modelled, each with its reason in `PROJECT.json`: the rate limiter, whose only
effect is a refusal; integrity scoring and analytics, pure functions in floating
point; the candidate page, since the server decides and its requests may overlap
and repeat in `Sittings` whatever the page does; logos, e-mail, observability,
the support console, schemas, the interviewer's client and the migrations.

What is left, in the order of its worth:

1. Proofs of what an overlap can at worst do where a property exempts it: two
   callbacks with a cost, a hand-back that races a claim, a sitting that is erased
   under a request.
2. `RateLimit`: the window counter in memory and in the database, and that the
   one implements the other up to its documented slack.
3. `SittingLock` and `CandidateTimer`: the candidate page's two-tab lease and
   buzzer, against `Sittings`.
4. A composition of `Erasure` with `Grading`, in place of the one action that
   stands for a late grade there.
