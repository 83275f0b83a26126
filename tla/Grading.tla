------------------------------ MODULE Grading ------------------------------
(***************************************************************************)
(* How one sitting's submissions get graded: assessment_platform/api.py    *)
(* (submit, retry, reaper, callback, _trigger_agent) and notify.py (the    *)
(* "results are ready" claim), against the external assessment agent.      *)
(*                                                                         *)
(* A thread is a request handler or a reaper pass, in any worker process.  *)
(* Every action below is one database transaction, or one exchange with    *)
(* the agent: between two actions of a thread any other thread may run,    *)
(* and a crash may drop the thread.  The ORM expires what a session holds  *)
(* at every commit, so a value a thread keeps across an action is exactly  *)
(* what the code keeps: the snapshot a compare-and-swap expects, or the    *)
(* row a callback handler loaded before it writes.                         *)
(*                                                                         *)
(* Abstracted: a verdict is "graded" (PASS or FAIL) or "ungraded" (ERROR); *)
(* time is the flag aged (the row is older than its grace period); a cost  *)
(* is a small natural, 0 meaning that the agent priced nothing; a question *)
(* with submissions cannot be deleted, so it is always there to be sent.   *)
(* The error texts a row keeps (error_reason) steer nothing: left out.     *)
(* Bounds: MaxRetries, MaxCrashes, TransportTries, MintIds, Costs.         *)
(*                                                                         *)
(* An operator named ...Wrong is no part of the specification: it is the   *)
(* one below it with a plausible mistake in it, and shows that a property  *)
(* would notice (PROJECT.json, "mutants").                                 *)
(***************************************************************************)
EXTENDS Integers, FiniteSets

CONSTANTS
  Subs,            \* the submissions; those outside Sitting have no invite
  Sitting,         \* the slots of one candidate's sitting
  Threads,         \* request handlers and reaper passes that may overlap
  NoSub,           \* the "no submission" of an idle thread
  MaxTrigger,      \* config.MAX_TRIGGER_ATTEMPTS
  TransportTries,  \* AGENT_TRIGGER_TRANSPORT_ATTEMPTS
  MintIds,         \* {} : the agent echoes our job id; otherwise the ids it mints
  Costs,           \* judge costs the agent may report, 0 = none
  GraceCovers,     \* TRIGGER_RETRY_AFTER_S exceeds the longest trigger
  MaxRetries,      \* bound on the interviewer's manual retries
  MaxCrashes       \* bound on the threads a crash drops

ASSUME GradingAssumption ==
  /\ Sitting \subseteq Subs
  /\ NoSub \notin Subs
  /\ MaxTrigger \in Nat \ {0}
  /\ TransportTries \in Nat \ {0}
  /\ MintIds \subseteq Nat \ {0}
  /\ Costs \subseteq Nat
  /\ GraceCovers \in BOOLEAN
  /\ MaxRetries \in Nat
  /\ MaxCrashes \in Nat

VARIABLES
  row,        \* Submission rows: status, agent_job_id, attempts, cost
  result,     \* AssessmentResult per submission, "none" when there is no row
  stamp,      \* CandidateAttempt.results_notified_at is set
  billed,     \* OrgUsage.judge_cost_usd of the organisation
  aged,       \* updated_at is further back than the grace of the row's status
  jobs,       \* what the agent is grading
  callbacks,  \* callbacks on the wire; one stays until the agent stops sending it
  th,         \* what each thread keeps between two transactions
  inbox,      \* the verdict the interviewer was last told of each submission
  claims,     \* history: times a sitting's notification was claimed
  reopens,    \* history: times a sitting was reopened
  retries,    \* history: manual retries accepted, for MaxRetries
  crashes     \* history: threads dropped, for MaxCrashes

db    == <<row, result, stamp, billed, aged>>
agent == <<jobs, callbacks>>
told  == <<inbox, claims, reopens>>
bound == <<retries, crashes>>
vars  == <<db, agent, th, told, bound>>

-----------------------------------------------------------------------------
OwnId    == 0                        \* agent_job_id = the submission's own id
NoJob    == -1
JobIds   == {OwnId} \cup MintIds
Terminal == {"done", "error"}        \* notify.TERMINAL
Statuses == {"absent", "pending", "running", "done", "error"}
Verdicts == {"graded", "ungraded"}
\* "worker" is the agent's exception path: no verdict, only an error
Kinds    == Verdicts \cup {"worker"}

Row == [status : Statuses, job : {NoJob} \cup JobIds, attempts : Nat,
        cost : Nat]
Job == [sub : Subs, id : JobIds]
Callback == [sub : Subs, id : JobIds, kind : Kinds, cost : Nat]
Mail == [Subs -> Verdicts \cup {"none"}]
Unread == [s \in Subs |-> "none"]

Idle == [pc |-> "idle", by |-> "none", sub |-> NoSub, status |-> "absent",
         attempts |-> 0, tries |-> 0, id |-> OwnId, kind |-> "worker",
         cost |-> 0, base |-> 0, existing |-> "none", mail |-> Unread]

Thread == [pc : {"idle", "reopen", "reload", "claim", "giveup", "post",
                 "refused", "accepted", "handle", "bill", "count", "stamp",
                 "deliver"},
           by : {"none", "submit", "retry", "reap", "callback"},
           sub : Subs \cup {NoSub},
           status : Statuses,        \* expected status, or the status loaded
           attempts : Nat,           \* expected attempts, or the attempt held
           tries : Nat, id : JobIds, kind : Kinds,
           cost : Int,               \* reported cost, then the delta to bill
           base : Nat,               \* the row's cost as loaded
           existing : Verdicts \cup {"none"},  \* the result as loaded
           mail : Mail]

TypeOK ==
  /\ row \in [Subs -> Row]
  /\ result \in [Subs -> Verdicts \cup {"none"}]
  /\ stamp \in BOOLEAN
  /\ billed \in Int
  /\ aged \in [Subs -> BOOLEAN]
  /\ jobs \subseteq Job
  /\ callbacks \subseteq Callback
  /\ th \in [Threads -> Thread]
  /\ inbox \in Mail
  /\ claims \in Nat
  /\ reopens \in Nat
  /\ retries \in Nat
  /\ crashes \in Nat

Init ==
  /\ row = [s \in Subs |-> [status |-> "absent", job |-> NoJob, attempts |-> 0,
                            cost |-> 0]]
  /\ result = [s \in Subs |-> "none"]
  /\ stamp = FALSE
  /\ billed = 0
  /\ aged = [s \in Subs |-> FALSE]
  /\ jobs = {}
  /\ callbacks = {}
  /\ th = [t \in Threads |-> Idle]
  /\ inbox = Unread
  /\ claims = 0
  /\ reopens = 0
  /\ retries = 0
  /\ crashes = 0

-----------------------------------------------------------------------------
At(t, pc)  == th[t].pc = pc
Become(t, l) == th' = [th EXCEPT ![t] = l]

\* Writing a row moves its updated_at, so it is young again.
Write(s, r) ==
  /\ row' = [row EXCEPT ![s] = r]
  /\ aged' = [aged EXCEPT ![s] = FALSE]

\* compares the status only
MatchesWrong(l) == row[l.sub].status = l.status

\* api._cas: the row still carries the (status, attempts) the thread loaded.
Matches(l) ==
  /\ row[l.sub].status = l.status
  /\ row[l.sub].attempts = l.attempts

\* What _trigger_agent, or the callback, does once a submission is terminal:
\* claim_sitting, which returns at once for a submission without an invite.
SittingEnd(l) == IF l.sub \in Sitting
                 THEN [Idle EXCEPT !.pc = "count", !.by = l.by, !.sub = l.sub]
                 ELSE Idle

\* The status and attempts a thread has just read, about to be claimed.
Expecting(by, s) == [Idle EXCEPT !.pc = "claim", !.by = by, !.sub = s,
                                 !.status = row[s].status,
                                 !.attempts = row[s].attempts]

(***************************************************************************)
(* Entry points of the trigger path.                                       *)
(***************************************************************************)
\* candidate_submit / create_submission: insert the row, commit, then trigger.
Submit(t, s) ==
  /\ At(t, "idle")
  /\ row[s].status = "absent"
  /\ Write(s, [row[s] EXCEPT !.status = "pending"])
  /\ Become(t, [Idle EXCEPT !.pc = "claim", !.by = "submit", !.sub = s,
                            !.status = "pending"])
  /\ UNCHANGED <<result, stamp, billed, agent, told, bound>>

\* retry_submission: 409 unless "error".  Without an invite reopen_sitting
\* returns before it commits, and the claim expects the row as checked here.
Retry(t, s) ==
  /\ At(t, "idle")
  /\ retries < MaxRetries
  /\ row[s].status = "error"
  /\ retries' = retries + 1
  /\ Become(t, IF s \in Sitting
               THEN [Idle EXCEPT !.pc = "reopen", !.by = "retry", !.sub = s]
               ELSE Expecting("retry", s))
  /\ UNCHANGED <<db, agent, told, crashes>>

\* reopen_sitting: clear the stamp and commit, which expires the loaded row.
Reopen(t) ==
  /\ At(t, "reopen")
  /\ stamp' = FALSE
  /\ reopens' = reopens + 1
  /\ Become(t, [th[t] EXCEPT !.pc = "reload"])
  /\ UNCHANGED <<row, result, billed, aged, agent, inbox, claims, bound>>

\* ... so the claim that follows expects whatever the row holds by then.
Reload(t) ==
  /\ At(t, "reload")
  /\ Become(t, Expecting("retry", th[t].sub))
  /\ UNCHANGED <<db, agent, told, bound>>

\* one attempt too many
ReapWrong(t, s) ==
  /\ At(t, "idle")
  /\ row[s].status \in {"pending", "running"}
  /\ aged[s]
  /\ Become(t, IF row[s].attempts <= MaxTrigger
               THEN Expecting("reap", s)
               ELSE [Expecting("reap", s) EXCEPT !.pc = "giveup"])
  /\ UNCHANGED <<db, agent, told, bound>>

\* overlooks the rows the agent accepted
ReapPendingWrong(t, s) ==
  /\ At(t, "idle")
  /\ row[s].status = "pending"
  /\ aged[s]
  /\ Become(t, IF row[s].attempts < MaxTrigger
               THEN Expecting("reap", s)
               ELSE [Expecting("reap", s) EXCEPT !.pc = "giveup"])
  /\ UNCHANGED <<db, agent, told, bound>>

\* _reap_tick, one stranded row: re-trigger while attempts remain, else give up.
Reap(t, s) ==
  /\ At(t, "idle")
  /\ row[s].status \in {"pending", "running"}
  /\ aged[s]
  /\ Become(t, IF row[s].attempts < MaxTrigger
               THEN Expecting("reap", s)
               ELSE [Expecting("reap", s) EXCEPT !.pc = "giveup"])
  /\ UNCHANGED <<db, agent, told, bound>>

\* gives up without a word
GiveUpWrong(t) ==
  /\ At(t, "giveup")
  /\ Become(t, Idle)
  /\ IF Matches(th[t])
     THEN Write(th[t].sub, [row[th[t].sub] EXCEPT !.status = "error"])
     ELSE UNCHANGED <<row, aged>>
  /\ UNCHANGED <<result, stamp, billed, agent, told, bound>>

GiveUp(t) ==
  /\ At(t, "giveup")
  /\ IF Matches(th[t])
     THEN /\ Write(th[t].sub, [row[th[t].sub] EXCEPT !.status = "error"])
          /\ Become(t, SittingEnd(th[t]))
     ELSE /\ Become(t, Idle)
          /\ UNCHANGED <<row, aged>>
  /\ UNCHANGED <<result, stamp, billed, agent, told, bound>>

(***************************************************************************)
(* _trigger_agent: claim, trigger, accept.                                 *)
(***************************************************************************)
\* commits no job id before the trigger
ClaimWrong(t) ==
  /\ At(t, "claim")
  /\ IF Matches(th[t])
     THEN /\ Write(th[t].sub, [row[th[t].sub] EXCEPT !.status = "pending",
                                                     !.attempts = th[t].attempts + 1])
          /\ Become(t, [Idle EXCEPT !.pc = "post", !.by = th[t].by,
                                    !.sub = th[t].sub,
                                    !.attempts = th[t].attempts + 1])
     ELSE /\ Become(t, Idle)
          /\ UNCHANGED <<row, aged>>
  /\ UNCHANGED <<result, stamp, billed, agent, told, bound>>

Claim(t) ==
  /\ At(t, "claim")
  /\ IF Matches(th[t])
     THEN /\ Write(th[t].sub, [row[th[t].sub] EXCEPT !.status = "pending",
                                                     !.job = OwnId,
                                                     !.attempts = th[t].attempts + 1])
          /\ Become(t, [Idle EXCEPT !.pc = "post", !.by = th[t].by,
                                    !.sub = th[t].sub,
                                    !.attempts = th[t].attempts + 1])
     ELSE /\ Become(t, Idle)
          /\ UNCHANGED <<row, aged>>
  /\ UNCHANGED <<result, stamp, billed, agent, told, bound>>

\* The next transport try of _post_with_retry, or out of tries: the row is
\* left pending for the reaper.
NextTry(l) == IF l.tries + 1 < TransportTries
              THEN [l EXCEPT !.tries = @ + 1]
              ELSE Idle

\* An id the agent mints is in use by no job, callback, row or thread.
Fresh(id) ==
  /\ \A j \in jobs \cup callbacks : j.id # id
  /\ \A s \in Subs : row[s].job # id
  /\ \A t \in Threads : At(t, "accepted") => th[t].id # id

AgentIds == IF MintIds = {} THEN {OwnId} ELSE {id \in MintIds : Fresh(id)}

\* The agent takes the job (one already in flight is de-duplicated); its 202
\* reaches us, or is lost and looks like a failed try.
PostHeard(t) ==
  /\ At(t, "post")
  /\ \E id \in AgentIds :
       /\ jobs' = jobs \cup {[sub |-> th[t].sub, id |-> id]}
       /\ \/ Become(t, [th[t] EXCEPT !.pc = "accepted", !.id = id])
          \/ Become(t, NextTry(th[t]))
  /\ UNCHANGED <<db, callbacks, told, bound>>

\* The agent is down, overloaded or unreachable.
PostUnheard(t) ==
  /\ At(t, "post")
  /\ Become(t, NextTry(th[t]))
  /\ UNCHANGED <<db, agent, told, bound>>

\* The agent answers 400: this job, as sent, is never graded.
PostRefused(t) ==
  /\ At(t, "post")
  /\ Become(t, [th[t] EXCEPT !.pc = "refused"])
  /\ UNCHANGED <<db, agent, told, bound>>

\* whatever became of the row since
AwaitsWrong(l) == row[l.sub].attempts = l.attempts
\* whichever attempt is current by now
AwaitsStaleWrong(l) == row[l.sub].status = "pending"

\* The row still waits for the answer to this very attempt.
Awaits(l) == Matches([l EXCEPT !.status = "pending"])

Refuse(t) ==
  /\ At(t, "refused")
  /\ IF Awaits(th[t])
     THEN /\ Write(th[t].sub, [row[th[t].sub] EXCEPT !.status = "error"])
          /\ Become(t, SittingEnd(th[t]))
     ELSE /\ Become(t, Idle)
          /\ UNCHANGED <<row, aged>>
  /\ UNCHANGED <<result, stamp, billed, agent, told, bound>>

\* "pending" -> "running", unless a callback was quicker than the 202.
Accept(t) ==
  /\ At(t, "accepted")
  /\ Become(t, Idle)
  /\ IF Awaits(th[t])
     THEN Write(th[t].sub, [row[th[t].sub] EXCEPT !.status = "running",
                                                  !.job = th[t].id])
     ELSE UNCHANGED <<row, aged>>
  /\ UNCHANGED <<result, stamp, billed, agent, told, bound>>

(***************************************************************************)
(* assessments_callback.                                                   *)
(***************************************************************************)
\* Load the row by agent_job_id, its status, attempts and cost, and whether it
\* has a result.  A callback whose id no row carries is acknowledged and
\* changes nothing; so is a worker error once the grade has landed.
Load(t, m) ==
  /\ At(t, "idle")
  /\ m \in callbacks
  /\ row[m.sub].job = m.id
  /\ Become(t, [Idle EXCEPT !.pc = "handle", !.by = "callback", !.sub = m.sub,
                            !.status = row[m.sub].status,
                            !.attempts = row[m.sub].attempts,
                            !.id = m.id, !.kind = m.kind, !.cost = m.cost,
                            !.base = row[m.sub].cost,
                            !.existing = result[m.sub]])
  /\ UNCHANGED <<db, agent, told, bound>>

\* What the handler decides from the row as it LOADED it.
Disposition(l) ==
  CASE l.kind = "worker" /\ l.status = "done" -> "ignore"
    [] /\ l.kind = "worker"
       /\ l.status \in {"pending", "running"}
       /\ l.attempts < MaxTrigger -> "requeue"
    [] OTHER -> "land"

Ignore(t) ==
  /\ At(t, "handle")
  /\ Disposition(th[t]) = "ignore"
  /\ Become(t, Idle)
  /\ UNCHANGED <<db, agent, told, bound>>

\* The ORM writes a column only when it differs from the value loaded, and by
\* primary key: no status or attempts is expected of the row.
Requeue(t) ==
  /\ At(t, "handle")
  /\ Disposition(th[t]) = "requeue"
  /\ Become(t, Idle)
  /\ IF th[t].status # "pending"
     THEN Write(th[t].sub, [row[th[t].sub] EXCEPT !.status = "pending"])
     ELSE UNCHANGED <<row, aged>>
  /\ UNCHANGED <<result, stamp, billed, agent, told, bound>>

Outcome(kind) == IF kind = "graded" THEN "done" ELSE "error"
Recorded(kind) == IF kind = "graded" THEN "graded" ELSE "ungraded"

\* bills every callback in full
DeltaOfWrong(l) == l.cost

\* judge_cost_usd, and how much of it is new to the organisation's total
CostOf(l)  == IF l.cost = 0 THEN l.base ELSE l.cost
DeltaOf(l) == CostOf(l) - l.base

\* Upsert the result and settle the submission, in one transaction.  The result
\* is looked up after the submission: it may, or may not, have changed since.
Land(t) ==
  LET l == th[t]
      s == l.sub
      r == row[s]
      settled == [r EXCEPT
        !.status = IF l.status = Outcome(l.kind) THEN @ ELSE Outcome(l.kind),
        !.cost = IF CostOf(l) = l.base THEN @ ELSE CostOf(l)]
      writes == l.status # Outcome(l.kind) \/ CostOf(l) # l.base
  IN /\ At(t, "handle")
     /\ Disposition(l) = "land"
     /\ \E seen \in {l.existing, result[s]} :
          /\ seen = "none" => result[s] = "none"
          /\ result' = [result EXCEPT ![s] = IF seen = Recorded(l.kind)
                                            THEN @ ELSE Recorded(l.kind)]
     /\ IF writes THEN Write(s, settled) ELSE UNCHANGED <<row, aged>>
     /\ Become(t, IF DeltaOf(l) # 0
                  THEN [Idle EXCEPT !.pc = "bill", !.by = "callback", !.sub = s,
                                    !.cost = DeltaOf(l)]
                  ELSE SittingEnd(l))
     /\ UNCHANGED <<stamp, billed, agent, told, bound>>

\* Two first callbacks insert: the second hits the unique constraint and its
\* whole transaction is rolled back (a 500, so the agent sends it again).
Conflict(t) ==
  /\ At(t, "handle")
  /\ Disposition(th[t]) = "land"
  /\ th[t].existing = "none"
  /\ result[th[t].sub] # "none"
  /\ Become(t, Idle)
  /\ UNCHANGED <<db, agent, told, bound>>

\* billing.record, a transaction of its own.
Bill(t) ==
  /\ At(t, "bill")
  /\ billed' = billed + th[t].cost
  /\ Become(t, SittingEnd(th[t]))
  /\ UNCHANGED <<row, result, stamp, aged, agent, told, bound>>

(***************************************************************************)
(* notify.claim_sitting and notify.deliver.                                *)
(***************************************************************************)
Complete == \A s \in Sitting : row[s].status \in Terminal

\* Count the sitting's terminal submissions against its slots.
Count(t) ==
  /\ At(t, "count")
  /\ Become(t, IF Complete THEN [th[t] EXCEPT !.pc = "stamp"] ELSE Idle)
  /\ UNCHANGED <<db, agent, told, bound>>

\* A submission without a result row is reported as an ERROR.
Payload == [s \in Subs |->
  IF s \notin Sitting THEN "none"
  ELSE IF result[s] = "none" THEN "ungraded" ELSE result[s]]

\* sees the stamp, and does not care
StampWrong(t) ==
  /\ At(t, "stamp")
  /\ stamp' = TRUE
  /\ claims' = claims + 1
  /\ Become(t, [th[t] EXCEPT !.pc = "deliver", !.mail = Payload])
  /\ UNCHANGED <<row, result, billed, aged, agent, inbox, reopens, bound>>

\* Compare-and-swap of the stamp; the winner reads what it will send.
Stamp(t) ==
  /\ At(t, "stamp")
  /\ IF ~ stamp
     THEN /\ stamp' = TRUE
          /\ claims' = claims + 1
          /\ Become(t, [th[t] EXCEPT !.pc = "deliver", !.mail = Payload])
     ELSE /\ Become(t, Idle)
          /\ UNCHANGED <<stamp, claims>>
  /\ UNCHANGED <<row, result, billed, aged, agent, inbox, reopens, bound>>

\* E-mail and webhook, after the response.
Deliver(t) ==
  /\ At(t, "deliver")
  /\ inbox' = th[t].mail
  /\ Become(t, Idle)
  /\ UNCHANGED <<db, agent, claims, reopens, bound>>

(***************************************************************************)
(* The environment: time, crashes, and the agent on the other side.        *)
(***************************************************************************)
\* A row in flight outlives its grace.  With GraceCovers no trigger of the row
\* can still be on the wire by then.
Age(s) ==
  /\ row[s].status \in {"pending", "running"}
  /\ ~ aged[s]
  /\ GraceCovers => \A t \in Threads :
       th[t].pc \in {"post", "refused", "accepted"} => th[t].sub # s
  /\ aged' = [aged EXCEPT ![s] = TRUE]
  /\ UNCHANGED <<row, result, stamp, billed, agent, th, told, bound>>

\* A worker process dies: the thread and what it had queued are gone.
Crash(t) ==
  /\ crashes < MaxCrashes
  /\ ~ At(t, "idle")
  /\ crashes' = crashes + 1
  /\ Become(t, Idle)
  /\ UNCHANGED <<db, agent, told, retries>>

\* The agent ends a job with a verdict, or with a worker error (a crash, or
\* its shutdown hook), and calls back.
AgentFinishes(j, kind, cost) ==
  /\ j \in jobs
  /\ kind = "worker" => cost = 0
  /\ jobs' = jobs \ {j}
  /\ callbacks' = callbacks \cup
       {[sub |-> j.sub, id |-> j.id, kind |-> kind, cost |-> cost]}
  /\ UNCHANGED <<db, th, told, bound>>

\* The agent dies with the job.
AgentLoses(j) ==
  /\ j \in jobs
  /\ jobs' = jobs \ {j}
  /\ UNCHANGED <<db, callbacks, th, told, bound>>

\* The agent stops sending a callback: acknowledged, or it gave up on it.
CallbackGone(m) ==
  /\ m \in callbacks
  /\ callbacks' = callbacks \ {m}
  /\ UNCHANGED <<db, jobs, th, told, bound>>

-----------------------------------------------------------------------------
\* What a thread does once it has started.
Continue(t) ==
  \/ Reopen(t) \/ Reload(t) \/ GiveUp(t) \/ Claim(t)
  \/ PostHeard(t) \/ PostUnheard(t) \/ PostRefused(t) \/ Refuse(t) \/ Accept(t)
  \/ Ignore(t) \/ Requeue(t) \/ Land(t) \/ Conflict(t) \/ Bill(t)
  \/ Count(t) \/ Stamp(t) \/ Deliver(t)

Start(t) ==
  \/ \E s \in Subs : Submit(t, s) \/ Retry(t, s) \/ Reap(t, s)
  \/ \E m \in callbacks : Load(t, m)

Environment ==
  \/ \E s \in Subs : Age(s)
  \/ \E j \in jobs : \/ \E kind \in Kinds, cost \in Costs \cup {0} :
                          AgentFinishes(j, kind, cost)
                     \/ AgentLoses(j)
  \/ \E m \in callbacks : CallbackGone(m)

Next ==
  \/ \E t \in Threads : Start(t) \/ Continue(t) \/ Crash(t)
  \/ Environment

Spec == Init /\ [][Next]_vars

-----------------------------------------------------------------------------
(***************************************************************************)
(* Safety.                                                                 *)
(***************************************************************************)
\* Threads between a won claim and the row's answer to it.
Holding(t) == th[t].pc \in {"post", "refused", "accepted"}

\* The pair (status, attempts) is a version token (_cas): no two callers ever
\* hold the same attempt of a submission, so no attempt is triggered twice.
AttemptHeldOnce ==
  \A t, u \in Threads :
    /\ Holding(t) /\ Holding(u) /\ t # u
    /\ th[t].sub = th[u].sub
    => th[t].attempts # th[u].attempts

\* The job id is committed before the agent hears of it (_trigger_agent, step
\* 1), so what the agent grades, and every callback it sends, finds its row.
\* Holds of an agent that echoes our id: runs with MintIds = {}.
CallbackFindsItsRow ==
  /\ \A j \in jobs : row[j.sub].job = j.id
  /\ \A m \in callbacks : row[m.sub].job = m.id

\* A sitting is announced once, and once more per reopening (notify._claim,
\* reopen_sitting), however many handlers see it complete.
NotifiedOncePerOpening == claims + (IF stamp THEN 0 ELSE 1) <= reopens + 1

\* TRIGGER_RETRY_AFTER_S: a submission nobody retries by hand never has two
\* triggers on the wire.
OneTriggerInFlight ==
  \A t, u \in Threads :
    Holding(t) /\ Holding(u) /\ th[t].sub = th[u].sub => t = u

\* The reaper, and an agent's answer to a trigger, never move a submission
\* out of "done" or "error": only a callback or a manual retry does.
TerminalLeftOnlyByHand ==
  [][\A t \in Threads :
       th'[t] # th[t] /\ th[t].pc \in {"claim", "giveup", "refused", "accepted"}
         /\ th[t].by # "retry"
       => \A s \in Subs : row[s].status \in Terminal => row'[s] = row[s]]_vars

\* Automatic triggers stop at MAX_TRIGGER_ATTEMPTS: only a manual retry
\* spends an attempt past it.
AutomaticAttemptsBounded ==
  [][\A s \in Subs :
       row'[s].attempts > MaxTrigger /\ row'[s].attempts # row[s].attempts
       => \E t \in Threads : /\ At(t, "claim") /\ th[t].by = "retry"
                             /\ th[t].sub = s]_vars

\* A worker error never overwrites a grade that landed (assessments_callback).
WorkerErrorKeepsGrade ==
  [][\A t \in Threads :
       At(t, "handle") /\ th[t].kind = "worker" /\ th'[t] # th[t]
         /\ row[th[t].sub].status = "done"
       => row'[th[t].sub].status = "done"]_vars

\* Nothing is left to happen but a manual retry.
Quiet ==
  /\ jobs = {} /\ callbacks = {}
  /\ \A t \in Threads : At(t, "idle")
  /\ \A s \in Subs : row[s].status \in Terminal

\* Two callbacks that carry a cost never handle the same submission at once.
\* Nothing in the code sees to it: the billing property is about this case.
PricedApart ==
  \A t, u \in Threads :
    /\ At(t, "handle") /\ At(u, "handle")
    /\ th[t].cost # 0 /\ th[u].cost # 0
    /\ th[t].sub = th[u].sub
    => t = u

\* n units of x for each x with f[x] = n: as many of them as f adds up to.
UnitsOf(f) == UNION {{x} \X (1 .. f[x]) : x \in DOMAIN f}

\* OrgUsage.judge_cost_usd adds up to what the submissions' rows report once
\* everything is quiet: the DELTA a callback bills counts a grade once
\* (assessments_callback, billing.record).  Holds while PricedApart does.
BilledAsReported ==
  Quiet /\ crashes = 0 =>
    billed = Cardinality(UnitsOf([s \in Subs |-> row[s].cost]))

\* The attempts that are granted and not yet answered, as GradingLedger sees
\* them: the ones some thread holds.
Open == {<<th[t].sub, th[t].attempts>> : t \in {u \in Threads : Holding(u)}}

Ledger == INSTANCE GradingLedger WITH
  status   <- [s \in Subs |-> row[s].status],
  attempts <- [s \in Subs |-> row[s].attempts],
  open     <- Open

\* Every handler, interleaved as it may be, is a step of the ledger or none.
ImplementsLedger == Ledger!Spec

(***************************************************************************)
(* Liveness.  A thread that has started goes on, the reaper loop comes     *)
(* round, rows grow old, and the agent stops re-sending; the agent need    *)
(* not answer, finish or call back.                                        *)
(***************************************************************************)
Fairness ==
  /\ \A t \in Threads : WF_vars(Continue(t))
  /\ \A s \in Subs : /\ SF_vars(\E t \in Threads : Reap(t, s))
                      /\ WF_vars(Age(s))
  /\ WF_vars(\E m \in callbacks : CallbackGone(m))

FairSpec == Spec /\ Fairness

\* Nothing is stranded: a submission always comes back to "done" or "error".
EventuallyGraded ==
  \A s \in Subs : row[s].status \in {"pending", "running"}
                   ~> row[s].status \in Terminal

\* A complete sitting is announced, unless a thread was lost on the way.
EventuallyAnnounced == Complete ~> (stamp \/ ~ Complete \/ crashes > 0)

=============================================================================
