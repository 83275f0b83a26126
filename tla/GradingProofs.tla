--------------------------- MODULE GradingProofs ---------------------------
(***************************************************************************)
(* Proofs about Grading, for every number of submissions, threads, retries *)
(* and crashes, and for an agent that echoes our job id or mints its own.  *)
(***************************************************************************)
EXTENDS Grading, FiniteSetTheorems, TLAPS

-----------------------------------------------------------------------------
(* Type correctness. *)

\* A thread that has started works on a submission, and a handler that has
\* loaded its row carries a reported cost.
Fit(l) == /\ l \in Thread
          /\ l.pc # "idle" => l.sub \in Subs
          /\ l.pc = "handle" => l.cost \in Nat

TypeInv == TypeOK /\ \A t \in Threads : Fit(th[t])

LEMMA MailType == Unread \in Mail
BY DEF Unread, Mail

LEMMA IdleFit == Fit(Idle)
BY MailType DEF Fit, Idle, Thread, Statuses, JobIds, Kinds, Verdicts, OwnId

\* Replacing one thread's state by a fit one keeps them all fit.
LEMMA BecomeFit ==
  ASSUME TypeInv, NEW t \in Threads, NEW l, Fit(l), Become(t, l)
  PROVE  th' \in [Threads -> Thread] /\ \A u \in Threads : Fit(th'[u])
BY DEF TypeInv, TypeOK, Become, Fit

LEMMA WriteType ==
  ASSUME TypeOK, NEW s \in Subs, NEW r \in Row, Write(s, r)
  PROVE  row' \in [Subs -> Row] /\ aged' \in [Subs -> BOOLEAN]
BY DEF TypeOK, Write

LEMMA ExpectingFit ==
  ASSUME TypeOK, NEW s \in Subs, NEW by \in {"retry", "reap"}
  PROVE  Fit(Expecting(by, s)) /\ Fit([Expecting(by, s) EXCEPT !.pc = "giveup"])
<1>1. row[s].status \in Statuses /\ row[s].attempts \in Nat
  BY DEF TypeOK, Row
<1>2. Fit(Idle)
  BY IdleFit
<1> QED
  BY <1>1, <1>2 DEF Fit, Expecting, Idle, Thread

LEMMA SittingEndFit ==
  ASSUME NEW l \in Thread, l.sub \in Subs
  PROVE  Fit(SittingEnd(l))
BY IdleFit DEF Fit, SittingEnd, Idle, Thread

LEMMA NextTryFit ==
  ASSUME NEW l \in Thread, l.pc = "post", l.sub \in Subs
  PROVE  Fit(NextTry(l))
<1>1. CASE l.tries + 1 < TransportTries
  <2>1. NextTry(l) = [l EXCEPT !.tries = l.tries + 1]
    BY <1>1 DEF NextTry
  <2>2. l.tries + 1 \in Nat
    BY DEF Thread
  <2> QED
    BY <2>1, <2>2 DEF Fit, Thread
<1>2. CASE ~ (l.tries + 1 < TransportTries)
  BY <1>2, IdleFit DEF NextTry
<1> QED
  BY <1>1, <1>2

LEMMA TypeInit == Init => TypeInv
<1> SUFFICES ASSUME Init PROVE TypeInv
  OBVIOUS
<1>1. th \in [Threads -> Thread] /\ \A t \in Threads : Fit(th[t])
  BY IdleFit DEF Init, Fit
<1>2. row \in [Subs -> Row]
  BY DEF Init, Row, Statuses, NoJob
<1>3. stamp \in BOOLEAN /\ aged \in [Subs -> BOOLEAN]
  BY Zenon DEF Init
<1>4. result \in [Subs -> Verdicts \cup {"none"}]
  BY DEF Init
<1>5. jobs \subseteq Job /\ callbacks \subseteq Callback /\ inbox \in Mail
  BY MailType DEF Init
<1>6. billed \in Int /\ claims \in Nat /\ reopens \in Nat
      /\ retries \in Nat /\ crashes \in Nat
  BY DEF Init
<1> QED
  BY <1>1, <1>2, <1>3, <1>4, <1>5, <1>6 DEF TypeInv, TypeOK

LEMMA TypeStep == TypeInv /\ [Next]_vars => TypeInv'
<1> SUFFICES ASSUME TypeInv, [Next]_vars PROVE TypeInv'
  OBVIOUS
<1> USE GradingAssumption
<1>t. TypeOK /\ \A t \in Threads : Fit(th[t]) /\ th[t] \in Thread
  BY DEF TypeInv, TypeOK
\* An action that changes no more than the threads.
<1>th. ASSUME NEW t \in Threads, NEW l, Fit(l), Become(t, l),
              UNCHANGED <<db, agent, told>>,
              retries' \in Nat, crashes' \in Nat
       PROVE  TypeInv'
  BY <1>th, BecomeFit DEF TypeInv, TypeOK, db, agent, told
\* An action that changes one row and the thread.
<1>wr. ASSUME NEW t \in Threads, NEW l, Fit(l), Become(t, l),
              NEW s \in Subs, NEW r \in Row, Write(s, r),
              result' \in [Subs -> Verdicts \cup {"none"}],
              UNCHANGED <<stamp, billed, agent, told, bound>>
       PROVE  TypeInv'
  BY <1>wr, <1>t, BecomeFit, WriteType DEF TypeInv, TypeOK, agent, told, bound
\* ... or the thread and perhaps the result, but no row.
<1>re. ASSUME NEW t \in Threads, NEW l, Fit(l), Become(t, l),
              result' \in [Subs -> Verdicts \cup {"none"}],
              UNCHANGED <<row, aged, stamp, billed, agent, told, bound>>
       PROVE  TypeInv'
  BY <1>re, BecomeFit DEF TypeInv, TypeOK, agent, told, bound
<1>row. \A s \in Subs : row[s] \in Row
  BY <1>t DEF TypeOK
<1>sub. \A t \in Threads : ~ At(t, "idle") => th[t].sub \in Subs
  BY <1>t DEF Fit, At
<1>res. result \in [Subs -> Verdicts \cup {"none"}]
  BY <1>t DEF TypeOK
<1>1. ASSUME NEW t \in Threads, NEW s \in Subs, Submit(t, s) PROVE TypeInv'
  <2> DEFINE l == [Idle EXCEPT !.pc = "claim", !.by = "submit", !.sub = s,
                               !.status = "pending"]
  <2>1. Fit(l)
    BY IdleFit DEF Fit, Idle, Thread, Statuses
  <2>2. [row[s] EXCEPT !.status = "pending"] \in Row
    BY <1>row DEF Row, Statuses
  <2> QED
    BY <1>1, <1>wr, <1>res, <2>1, <2>2 DEF Submit
<1>2. ASSUME NEW t \in Threads, NEW s \in Subs, Retry(t, s) PROVE TypeInv'
  <2>1. Fit([Idle EXCEPT !.pc = "reopen", !.by = "retry", !.sub = s])
    BY IdleFit DEF Fit, Idle, Thread
  <2>2. retries' \in Nat /\ crashes' \in Nat
    BY <1>2, <1>t DEF Retry, TypeOK
  <2> QED
    BY <1>2, <1>t, <1>th, <2>1, <2>2, ExpectingFit DEF Retry
<1>3. ASSUME NEW t \in Threads, NEW s \in Subs, Reap(t, s) PROVE TypeInv'
  <2>1. retries' \in Nat /\ crashes' \in Nat
    BY <1>3, <1>t DEF Reap, TypeOK, bound
  <2> QED
    BY <1>3, <1>t, <1>th, <2>1, ExpectingFit DEF Reap
<1>4. ASSUME NEW t \in Threads, NEW m \in callbacks, Load(t, m) PROVE TypeInv'
  <2> DEFINE l == [Idle EXCEPT !.pc = "handle", !.by = "callback", !.sub = m.sub,
                            !.status = row[m.sub].status,
                            !.attempts = row[m.sub].attempts,
                            !.id = m.id, !.kind = m.kind, !.cost = m.cost,
                            !.base = row[m.sub].cost,
                            !.existing = result[m.sub]]
  <2>1. m \in Callback
    BY <1>t DEF TypeOK
  <2>2. row[m.sub] \in Row /\ result[m.sub] \in Verdicts \cup {"none"}
    BY <1>row, <1>res, <2>1 DEF Callback
  <2>3. Fit(l)
    <3>1. /\ m.sub \in Subs /\ m.id \in JobIds /\ m.kind \in Kinds /\ m.cost \in Nat
      BY <2>1 DEF Callback
    <3>2. /\ row[m.sub].status \in Statuses
          /\ row[m.sub].attempts \in Nat /\ row[m.sub].cost \in Nat
      BY <2>2 DEF Row
    <3> DEFINE k == [Idle EXCEPT !.pc = "handle", !.by = "callback",
                                 !.sub = m.sub, !.status = row[m.sub].status,
                                 !.attempts = row[m.sub].attempts]
    <3>3. k \in Thread /\ k.pc = "handle" /\ k.sub = m.sub
      BY IdleFit, <3>1, <3>2 DEF Fit, Idle, Thread
    <3>4. l = [k EXCEPT !.id = m.id, !.kind = m.kind, !.cost = m.cost,
                        !.base = row[m.sub].cost, !.existing = result[m.sub]]
      OBVIOUS
    <3> HIDE DEF k, l
    <3> DEFINE n == [k EXCEPT !.id = m.id, !.kind = m.kind]
    <3>6. n \in Thread /\ n.pc = "handle" /\ n.sub = m.sub
      BY <3>1, <3>3 DEF Thread
    <3>7. l = [n EXCEPT !.cost = m.cost, !.base = row[m.sub].cost,
                        !.existing = result[m.sub]]
      BY <3>4
    <3> HIDE DEF n
    <3>8. m.cost \in Int
      BY <3>1
    <3>5. l \in Thread /\ l.pc = "handle" /\ l.sub = m.sub /\ l.cost = m.cost
      BY <2>2, <3>2, <3>6, <3>7, <3>8 DEF Thread
    <3> QED
      BY <3>1, <3>5 DEF Fit
  <2>4. retries' \in Nat /\ crashes' \in Nat
    BY <1>4, <1>t DEF Load, TypeOK, bound
  <2> QED
    BY <1>4, <1>th, <2>3, <2>4 DEF Load
<1>5. ASSUME NEW t \in Threads, Reopen(t) PROVE TypeInv'
  <2>1. Fit([th[t] EXCEPT !.pc = "reload"])
    BY <1>5, <1>t, <1>sub DEF Reopen, Fit, Thread, At
  <2>2. th' \in [Threads -> Thread] /\ \A u \in Threads : Fit(th'[u])
    BY <1>5, <2>1, BecomeFit DEF Reopen
  <2>3. reopens' \in Nat
    BY <1>5, <1>t DEF Reopen, TypeOK
  <2>4. stamp' \in BOOLEAN
    BY <1>5, Zenon DEF Reopen
  <2> QED
    BY <1>5, <1>t, <2>2, <2>3, <2>4 DEF Reopen, TypeInv, TypeOK, agent, bound
<1>6. ASSUME NEW t \in Threads, Reload(t) PROVE TypeInv'
  <2>1. retries' \in Nat /\ crashes' \in Nat
    BY <1>6, <1>t DEF Reload, TypeOK, bound
  <2>2. th[t].sub \in Subs
    BY <1>6, <1>sub DEF Reload, At
  <2> QED
    BY <1>6, <1>t, <1>th, <2>1, <2>2, ExpectingFit DEF Reload
<1>7. ASSUME NEW t \in Threads, GiveUp(t) PROVE TypeInv'
  <2>0. th[t].sub \in Subs /\ th[t] \in Thread
    BY <1>7, <1>sub, <1>t DEF GiveUp, At
  <2>1. th[t].sub \in Subs /\ th[t] \in Thread /\ row[th[t].sub] \in Row
    BY <1>row, <2>0
  <2>2. [row[th[t].sub] EXCEPT !.status = "error"] \in Row
    BY <2>1 DEF Row, Statuses
  <2>3. CASE Matches(th[t])
    BY <1>7, <1>wr, <1>res, <2>1, <2>2, <2>3, SittingEndFit DEF GiveUp
  <2>4. CASE ~ Matches(th[t])
    BY <1>7, <1>re, <1>res, <2>4, IdleFit DEF GiveUp
  <2> QED
    BY <2>3, <2>4
<1>8. ASSUME NEW t \in Threads, Claim(t) PROVE TypeInv'
  <2>0. th[t].sub \in Subs /\ th[t] \in Thread
    BY <1>8, <1>sub, <1>t DEF Claim, At
  <2>1. th[t].sub \in Subs /\ th[t] \in Thread /\ row[th[t].sub] \in Row
    BY <1>row, <2>0
  <2> DEFINE r == [row[th[t].sub] EXCEPT !.status = "pending", !.job = OwnId,
                                         !.attempts = th[t].attempts + 1]
             l == [Idle EXCEPT !.pc = "post", !.by = th[t].by, !.sub = th[t].sub,
                               !.attempts = th[t].attempts + 1]
  <2>2. r \in Row
    <3>1. th[t].attempts + 1 \in Nat
      BY <2>1 DEF Thread
    <3> QED
      BY <2>1, <3>1 DEF Row, Statuses, JobIds
  <2>3. Fit(l)
    <3>1. th[t].attempts + 1 \in Nat
      BY <2>1 DEF Thread
    <3>2. th[t].by \in {"none", "submit", "retry", "reap", "callback"}
      BY <2>1 DEF Thread
    <3> QED
      BY <2>1, <3>1, <3>2, IdleFit DEF Fit, Idle, Thread
  <2>4. CASE Matches(th[t])
    BY <1>8, <1>wr, <1>res, <2>1, <2>2, <2>3, <2>4 DEF Claim
  <2>5. CASE ~ Matches(th[t])
    BY <1>8, <1>re, <1>res, <2>5, IdleFit DEF Claim
  <2> QED
    BY <2>4, <2>5
<1>9. ASSUME NEW t \in Threads, PostHeard(t) PROVE TypeInv'
  <2>1. th[t].sub \in Subs /\ th[t] \in Thread /\ th[t].pc = "post"
    BY <1>9, <1>sub, <1>t DEF PostHeard, At
  <2>2. PICK id \in AgentIds :
          /\ jobs' = jobs \cup {[sub |-> th[t].sub, id |-> id]}
          /\ \/ Become(t, [th[t] EXCEPT !.pc = "accepted", !.id = id])
             \/ Become(t, NextTry(th[t]))
    BY <1>9 DEF PostHeard
  <2>3. id \in JobIds
    BY DEF AgentIds, JobIds
  <2>4. jobs' \subseteq Job
    BY <1>t, <2>1, <2>2, <2>3 DEF TypeOK, Job
  <2>5. Fit([th[t] EXCEPT !.pc = "accepted", !.id = id])
    BY <2>1, <2>3 DEF Fit, Thread
  <2>6. th' \in [Threads -> Thread] /\ \A u \in Threads : Fit(th'[u])
    BY <2>1, <2>2, <2>5, NextTryFit, BecomeFit
  <2> QED
    BY <1>9, <1>t, <2>4, <2>6 DEF PostHeard, TypeInv, TypeOK, db, told, bound
<1>10. ASSUME NEW t \in Threads, PostUnheard(t) PROVE TypeInv'
  <2>1. th[t].sub \in Subs /\ th[t] \in Thread /\ th[t].pc = "post"
    BY <1>10, <1>sub, <1>t DEF PostUnheard, At
  <2>2. retries' \in Nat /\ crashes' \in Nat
    BY <1>10, <1>t DEF PostUnheard, TypeOK, bound
  <2> QED
    BY <1>10, <1>th, <2>1, <2>2, NextTryFit DEF PostUnheard
<1>11. ASSUME NEW t \in Threads, PostRefused(t) PROVE TypeInv'
  <2>1. Fit([th[t] EXCEPT !.pc = "refused"])
    BY <1>11, <1>t, <1>sub DEF PostRefused, Fit, Thread, At
  <2>2. retries' \in Nat /\ crashes' \in Nat
    BY <1>11, <1>t DEF PostRefused, TypeOK, bound
  <2> QED
    BY <1>11, <1>th, <2>1, <2>2 DEF PostRefused
<1>12. ASSUME NEW t \in Threads, Refuse(t) PROVE TypeInv'
  <2>0. th[t].sub \in Subs /\ th[t] \in Thread
    BY <1>12, <1>sub, <1>t DEF Refuse, At
  <2>1. th[t].sub \in Subs /\ th[t] \in Thread /\ row[th[t].sub] \in Row
    BY <1>row, <2>0
  <2>2. [row[th[t].sub] EXCEPT !.status = "error"] \in Row
    BY <2>1 DEF Row, Statuses
  <2>3. CASE Awaits(th[t])
    BY <1>12, <1>wr, <1>res, <2>1, <2>2, <2>3, SittingEndFit DEF Refuse
  <2>4. CASE ~ Awaits(th[t])
    BY <1>12, <1>re, <1>res, <2>4, IdleFit DEF Refuse
  <2> QED
    BY <2>3, <2>4
<1>13. ASSUME NEW t \in Threads, Accept(t) PROVE TypeInv'
  <2>0. th[t].sub \in Subs /\ th[t] \in Thread
    BY <1>13, <1>sub, <1>t DEF Accept, At
  <2>1. th[t].sub \in Subs /\ th[t] \in Thread /\ row[th[t].sub] \in Row
    BY <1>row, <2>0
  <2>2. [row[th[t].sub] EXCEPT !.status = "running", !.job = th[t].id] \in Row
    BY <2>1 DEF Row, Statuses, Thread
  <2>3. CASE Awaits(th[t])
    BY <1>13, <1>wr, <1>res, <2>1, <2>2, <2>3, IdleFit DEF Accept
  <2>4. CASE ~ Awaits(th[t])
    BY <1>13, <1>re, <1>res, <2>4, IdleFit DEF Accept
  <2> QED
    BY <2>3, <2>4
<1>14. ASSUME NEW t \in Threads, Ignore(t) \/ Conflict(t) PROVE TypeInv'
  <2>1. retries' \in Nat /\ crashes' \in Nat
    BY <1>14, <1>t DEF Ignore, Conflict, TypeOK, bound
  <2> QED
    BY <1>14, <1>th, <2>1, IdleFit DEF Ignore, Conflict
<1>15. ASSUME NEW t \in Threads, Requeue(t) PROVE TypeInv'
  <2>0. th[t].sub \in Subs
    BY <1>15, <1>sub DEF Requeue, At
  <2>1. th[t].sub \in Subs /\ row[th[t].sub] \in Row
    BY <1>row, <2>0
  <2>2. [row[th[t].sub] EXCEPT !.status = "pending"] \in Row
    BY <2>1 DEF Row, Statuses
  <2>3. CASE th[t].status # "pending"
    BY <1>15, <1>wr, <1>res, <2>1, <2>2, <2>3, IdleFit DEF Requeue
  <2>4. CASE th[t].status = "pending"
    BY <1>15, <1>re, <1>res, <2>4, IdleFit DEF Requeue
  <2> QED
    BY <2>3, <2>4
<1>16. ASSUME NEW t \in Threads, Land(t) PROVE TypeInv'
  <2> DEFINE l == th[t]
             s == l.sub
             r == row[s]
             settled == [r EXCEPT
               !.status = IF l.status = Outcome(l.kind) THEN @ ELSE Outcome(l.kind),
               !.cost = IF CostOf(l) = l.base THEN @ ELSE CostOf(l)]
             after == IF DeltaOf(l) # 0
                      THEN [Idle EXCEPT !.pc = "bill", !.by = "callback",
                                        !.sub = s, !.cost = DeltaOf(l)]
                      ELSE SittingEnd(l)
  <2>1. s \in Subs /\ l \in Thread /\ l.cost \in Nat /\ r \in Row
    BY <1>16, <1>sub, <1>t, <1>row DEF Land, At, Fit
  <2>2. CostOf(l) \in Nat /\ DeltaOf(l) \in Int
    BY <2>1 DEF CostOf, DeltaOf, Thread
  <2>3. settled \in Row
    <3>1. settled = [r EXCEPT
             !.status = IF l.status = Outcome(l.kind) THEN r.status ELSE Outcome(l.kind),
             !.cost = IF CostOf(l) = l.base THEN r.cost ELSE CostOf(l)]
      OBVIOUS
    <3>2. Outcome(l.kind) \in Statuses
      BY DEF Outcome, Statuses
    <3> QED
      BY <2>1, <2>2, <3>1, <3>2 DEF Row
  <2>4. Fit(after)
    <3>1. CASE DeltaOf(l) # 0
      BY <2>1, <2>2, <3>1, IdleFit, ZenonT(30) DEF Fit, Idle, Thread
    <3>2. CASE DeltaOf(l) = 0
      BY <2>1, <3>2, SittingEndFit
    <3> QED
      BY <3>1, <3>2
  <2>5. result' \in [Subs -> Verdicts \cup {"none"}]
    BY <1>16, <1>res DEF Land, Recorded, Verdicts
  <2>6. /\ Become(t, after)
        /\ Write(s, settled) \/ UNCHANGED <<row, aged>>
        /\ UNCHANGED <<stamp, billed, agent, told, bound>>
    BY <1>16 DEF Land
  <2> HIDE DEF settled, after, r
  <2>7. CASE Write(s, settled)
    BY <1>wr, <2>1, <2>3, <2>4, <2>5, <2>6, <2>7
  <2>8. CASE UNCHANGED <<row, aged>>
    BY <1>re, <2>4, <2>5, <2>6, <2>8
  <2> QED
    BY <2>6, <2>7, <2>8
<1>17. ASSUME NEW t \in Threads, Bill(t) PROVE TypeInv'
  <2>1. th[t].sub \in Subs /\ th[t] \in Thread
    BY <1>17, <1>sub, <1>t DEF Bill, At
  <2>2. billed' \in Int
    BY <1>17, <1>t, <2>1 DEF Bill, TypeOK, Thread
  <2>3. th' \in [Threads -> Thread] /\ \A u \in Threads : Fit(th'[u])
    BY <1>17, <2>1, SittingEndFit, BecomeFit DEF Bill
  <2> QED
    BY <1>17, <1>t, <2>2, <2>3 DEF Bill, TypeInv, TypeOK, agent, told, bound
<1>18. ASSUME NEW t \in Threads, Count(t) PROVE TypeInv'
  <2>1. Fit([th[t] EXCEPT !.pc = "stamp"])
    BY <1>18, <1>t, <1>sub DEF Count, Fit, Thread, At
  <2>2. retries' \in Nat /\ crashes' \in Nat
    BY <1>18, <1>t DEF Count, TypeOK, bound
  <2> QED
    BY <1>18, <1>th, <2>1, <2>2, IdleFit DEF Count
<1>19. ASSUME NEW t \in Threads, Stamp(t) PROVE TypeInv'
  <2>1. Payload \in Mail
    BY <1>res DEF Payload, Mail, Verdicts
  <2>s. th[t] \in Thread /\ th[t].sub \in Subs
    BY <1>19, <1>t, <1>sub DEF Stamp, At
  <2>2. Fit([th[t] EXCEPT !.pc = "deliver", !.mail = Payload])
    BY <2>1, <2>s DEF Fit, Thread
  <2>3. th' \in [Threads -> Thread] /\ \A u \in Threads : Fit(th'[u])
    BY <1>19, <2>2, IdleFit, BecomeFit DEF Stamp
  <2>4. claims' \in Nat
    BY <1>19, <1>t DEF Stamp, TypeOK
  <2>5. stamp' \in BOOLEAN
    BY <1>19, <1>t, Zenon DEF Stamp, TypeOK
  <2> QED
    BY <1>19, <1>t, <2>3, <2>4, <2>5 DEF Stamp, TypeInv, TypeOK, agent, bound
<1>20. ASSUME NEW t \in Threads, Deliver(t) PROVE TypeInv'
  <2>1. inbox' \in Mail
    BY <1>20, <1>t DEF Deliver, Thread
  <2>2. th' \in [Threads -> Thread] /\ \A u \in Threads : Fit(th'[u])
    BY <1>20, IdleFit, BecomeFit DEF Deliver
  <2> QED
    BY <1>20, <1>t, <2>1, <2>2 DEF Deliver, TypeInv, TypeOK, db, agent, bound
<1>21. ASSUME NEW t \in Threads, Crash(t) PROVE TypeInv'
  <2>1. retries' \in Nat /\ crashes' \in Nat
    BY <1>21, <1>t DEF Crash, TypeOK
  <2> QED
    BY <1>21, <1>th, <2>1, IdleFit DEF Crash
<1>22. CASE Environment
  <2>1. ASSUME NEW s \in Subs, Age(s) PROVE TypeInv'
    BY <2>1, <1>t DEF Age, TypeInv, TypeOK, agent, told, bound
  <2>2. ASSUME NEW j \in jobs, NEW kind \in Kinds, NEW cost \in Costs \cup {0},
               AgentFinishes(j, kind, cost)
        PROVE  TypeInv'
    <3>1. callbacks' \subseteq Callback
      BY <2>2, <1>t DEF AgentFinishes, TypeOK, Job, Callback
    <3> QED
      BY <2>2, <3>1, <1>t DEF AgentFinishes, TypeInv, TypeOK, db, told, bound
  <2>3. ASSUME NEW j \in jobs, AgentLoses(j) PROVE TypeInv'
    BY <2>3, <1>t DEF AgentLoses, TypeInv, TypeOK, db, told, bound
  <2>4. ASSUME NEW m \in callbacks, CallbackGone(m) PROVE TypeInv'
    BY <2>4, <1>t DEF CallbackGone, TypeInv, TypeOK, db, told, bound
  <2> QED
    BY <1>22, <2>1, <2>2, <2>3, <2>4 DEF Environment
<1>23. CASE UNCHANGED vars
  BY <1>23, <1>t DEF vars, TypeInv, TypeOK, db, agent, told, bound
<1> QED
  BY <1>1, <1>2, <1>3, <1>4, <1>5, <1>6, <1>7, <1>8, <1>9, <1>10, <1>11, <1>12,
     <1>13, <1>14, <1>15, <1>16, <1>17, <1>18, <1>19, <1>20, <1>21, <1>22, <1>23
     DEF Next, Start, Continue

\* Every reachable state is well typed, and a started thread has a submission.
THEOREM TypeCorrect == Spec => []TypeOK
<1>1. Spec => []TypeInv
  BY TypeInit, TypeStep, PTL DEF Spec
<1>2. TypeInv => TypeOK
  BY DEF TypeInv
<1> QED
  BY <1>1, <1>2, PTL

-----------------------------------------------------------------------------
(* Attempts. *)

\* A thread never holds an attempt the row has not reached, and no two threads
\* hold the same one.  The first half is what makes the second inductive: a
\* claim hands out the number after the row's, which nobody can hold yet.
HeldInv ==
  /\ \A t \in Threads : Holding(t) => th[t].attempts <= row[th[t].sub].attempts
  /\ AttemptHeldOnce

\* No attempt is handed out in this step.
NoGrant ==
  /\ \A s \in Subs : row'[s].attempts = row[s].attempts
  /\ \A t \in Threads : Holding(t)' =>
       /\ Holding(t)
       /\ th'[t].sub = th[t].sub
       /\ th'[t].attempts = th[t].attempts

\* Thread t gets the next attempt of submission s.
Granted(t, s) ==
  /\ Claim(t) /\ Matches(th[t]) /\ th[t].sub = s
  /\ th'[t].sub = s
  /\ th'[t].attempts = row[s].attempts + 1
  /\ row'[s].attempts = row[s].attempts + 1
  /\ \A u \in Subs \ {s} : row'[u] = row[u]
  /\ \A u \in Threads \ {t} : th'[u] = th[u]

\* A thread that changes without taking up an attempt, the rows being left alone.
LEMMA ThreadOnly ==
  ASSUME TypeInv, NEW t \in Threads, NEW l, Become(t, l),
         l.pc \notin {"post", "refused", "accepted"}
           \/ /\ Holding(t)
              /\ l.sub = th[t].sub /\ l.attempts = th[t].attempts,
         \A s \in Subs : row'[s].attempts = row[s].attempts
  PROVE  NoGrant
BY DEF TypeInv, TypeOK, Become, NoGrant, Holding

\* A write that keeps the row's attempts.
LEMMA WriteKeeps ==
  ASSUME TypeInv, NEW s \in Subs, NEW r, r.attempts = row[s].attempts,
         Write(s, r) \/ UNCHANGED <<row, aged>>
  PROVE  \A u \in Subs : row'[u].attempts = row[u].attempts
BY DEF TypeInv, TypeOK, Write

LEMMA AfterPc ==
  /\ Idle.pc = "idle"
  /\ \A l : SittingEnd(l).pc \in {"count", "idle"}
  /\ \A by, s : Expecting(by, s).pc = "claim"
BY DEF Idle, SittingEnd, Expecting

LEMMA Grants ==
  ASSUME TypeInv, [Next]_vars
  PROVE  NoGrant \/ \E t \in Threads, s \in Subs : Granted(t, s)
<1> USE DEF TypeInv
<1>sub. \A t \in Threads : ~ At(t, "idle") => th[t].sub \in Subs /\ th[t] \in Thread
  BY DEF Fit, At
<1>row. \A s \in Subs : row[s] \in Row
  BY DEF TypeOK
<1>same. row' = row => \A s \in Subs : row'[s].attempts = row[s].attempts
  OBVIOUS
<1>1. ASSUME NEW t \in Threads, NEW s \in Subs, Submit(t, s) \/ Retry(t, s) \/ Reap(t, s)
      PROVE  NoGrant
  <2>1. CASE Submit(t, s)
    <3>1. [row[s] EXCEPT !.status = "pending"].attempts = row[s].attempts
      BY <1>row DEF Row
    <3>2. [Idle EXCEPT !.pc = "claim", !.by = "submit", !.sub = s,
                       !.status = "pending"].pc = "claim"
      BY DEF Idle
    <3> QED
      BY <2>1, <3>1, <3>2, WriteKeeps, ThreadOnly DEF Submit
  <2>2. CASE Retry(t, s)
    <3>1. [Idle EXCEPT !.pc = "reopen", !.by = "retry", !.sub = s].pc = "reopen"
      BY DEF Idle
    <3> QED
      BY <2>2, <3>1, <1>same, AfterPc, ThreadOnly DEF Retry, db
  <2>3. CASE Reap(t, s)
    <3>1. [Expecting("reap", s) EXCEPT !.pc = "giveup"].pc = "giveup"
      BY DEF Expecting, Idle
    <3> QED
      BY <2>3, <3>1, <1>same, AfterPc, ThreadOnly DEF Reap, db
  <2> QED
    BY <1>1, <2>1, <2>2, <2>3
<1>2. ASSUME NEW t \in Threads, NEW m \in callbacks, Load(t, m) PROVE NoGrant
  <2> DEFINE l == [Idle EXCEPT !.pc = "handle", !.by = "callback", !.sub = m.sub,
                            !.status = row[m.sub].status,
                            !.attempts = row[m.sub].attempts,
                            !.id = m.id, !.kind = m.kind, !.cost = m.cost,
                            !.base = row[m.sub].cost,
                            !.existing = result[m.sub]]
  <2>1. l.pc = "handle"
    BY DEF Idle
  <2> HIDE DEF l
  <2>2. Become(t, l) /\ row' = row
    BY <1>2 DEF Load, l, db
  <2> QED
    BY <2>1, <2>2, <1>same, ThreadOnly
<1>3. ASSUME NEW t \in Threads, Reopen(t) \/ Reload(t) PROVE NoGrant
  <2>1. th[t] \in Thread
    BY <1>3, <1>sub DEF Reopen, Reload, At
  <2>2. [th[t] EXCEPT !.pc = "reload"].pc = "reload"
    BY <2>1 DEF Thread
  <2> QED
    BY <1>3, <2>2, <1>same, AfterPc, ThreadOnly DEF Reopen, Reload, db
<1>4. ASSUME NEW t \in Threads, GiveUp(t) \/ Refuse(t) PROVE NoGrant
  <2> DEFINE r == [row[th[t].sub] EXCEPT !.status = "error"]
  <2>1. th[t].sub \in Subs /\ row[th[t].sub] \in Row
    BY <1>4, <1>sub, <1>row DEF GiveUp, Refuse, At
  <2>2. r.attempts = row[th[t].sub].attempts
    BY <2>1 DEF Row
  <2>3. /\ Write(th[t].sub, r) \/ UNCHANGED <<row, aged>>
        /\ Become(t, SittingEnd(th[t])) \/ Become(t, Idle)
    BY <1>4 DEF GiveUp, Refuse
  <2> QED
    BY <2>1, <2>2, <2>3, AfterPc, WriteKeeps, ThreadOnly
<1>5. ASSUME NEW t \in Threads, Claim(t)
      PROVE  NoGrant \/ \E s \in Subs : Granted(t, s)
  <2> DEFINE r == [row[th[t].sub] EXCEPT !.status = "pending", !.job = OwnId,
                                         !.attempts = th[t].attempts + 1]
             l == [Idle EXCEPT !.pc = "post", !.by = th[t].by, !.sub = th[t].sub,
                               !.attempts = th[t].attempts + 1]
  <2>1. th[t].sub \in Subs /\ row[th[t].sub] \in Row
    BY <1>5, <1>sub, <1>row DEF Claim, At
  <2>2. CASE Matches(th[t])
    <3>1. Write(th[t].sub, r) /\ Become(t, l)
      BY <1>5, <2>2 DEF Claim
    <3>2. /\ r.attempts = row[th[t].sub].attempts + 1
          /\ l.sub = th[t].sub /\ l.attempts = row[th[t].sub].attempts + 1
      BY <2>1, <2>2 DEF Matches, Row, Idle
    <3> HIDE DEF r, l
    <3> QED
      BY <1>5, <2>1, <2>2, <3>1, <3>2 DEF Granted, Write, Become, TypeOK
  <2>3. CASE ~ Matches(th[t])
    BY <1>5, <2>3, <1>same, AfterPc, ThreadOnly DEF Claim
  <2> QED
    BY <2>2, <2>3
<1>6. ASSUME NEW t \in Threads, PostHeard(t) \/ PostUnheard(t) \/ PostRefused(t)
      PROVE  NoGrant
  <2>1. th[t] \in Thread /\ Holding(t)
    BY <1>6, <1>sub DEF PostHeard, PostUnheard, PostRefused, At, Holding
  <2>2. row' = row
    BY <1>6 DEF PostHeard, PostUnheard, PostRefused, db
  <2>3. PICK l : /\ Become(t, l)
                 /\ \/ l = NextTry(th[t])
                    \/ \E id : l = [th[t] EXCEPT !.pc = "accepted", !.id = id]
                    \/ l = [th[t] EXCEPT !.pc = "refused"]
    BY <1>6 DEF PostHeard, PostUnheard, PostRefused
  <2>4. l.pc = "idle" \/ (l.sub = th[t].sub /\ l.attempts = th[t].attempts)
    <3>1. CASE l = NextTry(th[t])
      <4>1. l = Idle \/ l = [th[t] EXCEPT !.tries = th[t].tries + 1]
        BY <3>1 DEF NextTry
      <4>2. CASE l = [th[t] EXCEPT !.tries = th[t].tries + 1]
        BY <2>1, <4>2 DEF Thread
      <4> QED
        BY <4>1, <4>2, AfterPc
    <3>2. ASSUME NEW id, l = [th[t] EXCEPT !.pc = "accepted", !.id = id]
          PROVE  l.sub = th[t].sub /\ l.attempts = th[t].attempts
      BY <2>1, <3>2 DEF Thread
    <3>3. CASE l = [th[t] EXCEPT !.pc = "refused"]
      BY <2>1, <3>3 DEF Thread
    <3> QED
      BY <2>3, <3>1, <3>2, <3>3
  <2> QED
    BY <2>1, <2>2, <2>3, <2>4, <1>same, ThreadOnly
<1>7. ASSUME NEW t \in Threads, Accept(t) PROVE NoGrant
  <2> DEFINE r == [row[th[t].sub] EXCEPT !.status = "running", !.job = th[t].id]
  <2>1. th[t].sub \in Subs /\ row[th[t].sub] \in Row
    BY <1>7, <1>sub, <1>row DEF Accept, At
  <2>2. r.attempts = row[th[t].sub].attempts
    BY <2>1 DEF Row
  <2>3. (Write(th[t].sub, r) \/ UNCHANGED <<row, aged>>) /\ Become(t, Idle)
    BY <1>7 DEF Accept
  <2> QED
    BY <2>1, <2>2, <2>3, AfterPc, WriteKeeps, ThreadOnly
<1>8. ASSUME NEW t \in Threads, Ignore(t) \/ Conflict(t) \/ Crash(t) PROVE NoGrant
  BY <1>8, <1>same, AfterPc, ThreadOnly DEF Ignore, Conflict, Crash, db
<1>9. ASSUME NEW t \in Threads, Requeue(t) PROVE NoGrant
  <2> DEFINE r == [row[th[t].sub] EXCEPT !.status = "pending"]
  <2>1. th[t].sub \in Subs /\ row[th[t].sub] \in Row
    BY <1>9, <1>sub, <1>row DEF Requeue, At
  <2>2. r.attempts = row[th[t].sub].attempts
    BY <2>1 DEF Row
  <2>3. (Write(th[t].sub, r) \/ UNCHANGED <<row, aged>>) /\ Become(t, Idle)
    BY <1>9 DEF Requeue
  <2> QED
    BY <2>1, <2>2, <2>3, AfterPc, WriteKeeps, ThreadOnly
<1>10. ASSUME NEW t \in Threads, Land(t) PROVE NoGrant
  <2> DEFINE s == th[t].sub
             r == [row[s] EXCEPT
               !.status = IF th[t].status = Outcome(th[t].kind) THEN @
                          ELSE Outcome(th[t].kind),
               !.cost = IF CostOf(th[t]) = th[t].base THEN @ ELSE CostOf(th[t])]
             k == [Idle EXCEPT !.pc = "bill", !.by = "callback", !.sub = s,
                               !.cost = DeltaOf(th[t])]
  <2>1. s \in Subs /\ row[s] \in Row
    BY <1>10, <1>sub, <1>row DEF Land, At
  <2>2. r.attempts = row[s].attempts
    BY <2>1 DEF Row
  <2>3. k.pc = "bill"
    BY DEF Idle
  <2>4. /\ Write(s, r) \/ UNCHANGED <<row, aged>>
        /\ Become(t, k) \/ Become(t, SittingEnd(th[t]))
    BY <1>10 DEF Land
  <2> HIDE DEF r, k, s
  <2> QED
    BY <2>1, <2>2, <2>3, <2>4, AfterPc, WriteKeeps, ThreadOnly
<1>11. ASSUME NEW t \in Threads, Bill(t) \/ Deliver(t) PROVE NoGrant
  BY <1>11, <1>same, AfterPc, ThreadOnly DEF Bill, Deliver, db
<1>12. ASSUME NEW t \in Threads, Count(t) \/ Stamp(t) PROVE NoGrant
  <2>1. th[t] \in Thread
    BY <1>12, <1>sub DEF Count, Stamp, At
  <2>2. /\ [th[t] EXCEPT !.pc = "stamp"].pc = "stamp"
        /\ [th[t] EXCEPT !.pc = "deliver", !.mail = Payload].pc = "deliver"
    BY <2>1 DEF Thread
  <2> QED
    BY <1>12, <2>2, <1>same, AfterPc, ThreadOnly DEF Count, Stamp, db
<1>13. CASE Environment \/ UNCHANGED vars
  <2>1. UNCHANGED <<row, th>>
    BY <1>13 DEF Environment, Age, AgentFinishes, AgentLoses, CallbackGone, vars, db
  <2> QED
    BY <2>1 DEF NoGrant, Holding
<1> QED
  BY <1>1, <1>2, <1>3, <1>4, <1>5, <1>6, <1>7, <1>8, <1>9, <1>10, <1>11, <1>12, <1>13
  DEF Next, Start, Continue

LEMMA HeldStep == TypeInv /\ HeldInv /\ [Next]_vars => HeldInv'
<1> SUFFICES ASSUME TypeInv, HeldInv, [Next]_vars PROVE HeldInv'
  OBVIOUS
<1>1. \A t \in Threads : Holding(t) => th[t].sub \in Subs /\ th[t].attempts \in Nat
  BY DEF TypeInv, Fit, Holding, Thread
<1>2. \A s \in Subs : row[s].attempts \in Nat
  BY DEF TypeInv, TypeOK, Row
<1>3. CASE NoGrant
  BY <1>1, <1>3 DEF HeldInv, AttemptHeldOnce, NoGrant, Holding
<1>4. ASSUME NEW t \in Threads, NEW s \in Subs, Granted(t, s) PROVE HeldInv'
  <2>1. \A u \in Threads \ {t} : Holding(u)' => /\ Holding(u)
                                                /\ th'[u].sub = th[u].sub
                                                /\ th'[u].attempts = th[u].attempts
    BY <1>4 DEF Granted, Holding
  <2>2. \A u \in Subs : row'[u].attempts >= row[u].attempts
    BY <1>2, <1>4 DEF Granted
  <2>3. \A u \in Threads : Holding(u)' => th'[u].attempts <= row'[th'[u].sub].attempts
    <3>1. SUFFICES ASSUME NEW u \in Threads, Holding(u)'
                   PROVE  th'[u].attempts <= row'[th'[u].sub].attempts
      OBVIOUS
    <3>2. CASE u = t
      BY <1>2, <1>4, <3>2 DEF Granted
    <3>3. CASE u # t
      <4>1. th[u].sub \in Subs /\ th[u].attempts \in Nat
            /\ th[u].attempts <= row[th[u].sub].attempts
        BY <1>1, <2>1, <3>1, <3>3 DEF HeldInv
      <4>2. row'[th[u].sub].attempts \in Nat
        BY <1>2, <1>4, <4>1 DEF Granted
      <4> QED
        BY <1>2, <2>1, <2>2, <3>1, <3>3, <4>1, <4>2
    <3> QED
      BY <3>2, <3>3
  <2>4. \A u \in Threads \ {t} : Holding(u)' /\ th'[u].sub = s => th'[u].attempts # th'[t].attempts
    BY <1>1, <1>2, <1>4, <2>1 DEF HeldInv, Granted
  <2>5. AttemptHeldOnce'
    BY <1>4, <2>1, <2>4 DEF HeldInv, AttemptHeldOnce, Granted
  <2> QED
    BY <2>3, <2>5 DEF HeldInv
<1> QED
  BY <1>3, <1>4, Grants

\* (status, attempts) is a version token: whatever the interleaving of requests,
\* reapers and callbacks, no two of them trigger the same attempt.
THEOREM AttemptsAreExclusive == Spec => []AttemptHeldOnce
<1>1. Init => HeldInv
  BY DEF Init, HeldInv, AttemptHeldOnce, Holding, Idle
<1>2. Spec => [](TypeInv /\ HeldInv)
  BY <1>1, TypeInit, TypeStep, HeldStep, PTL DEF Spec
<1>3. HeldInv => AttemptHeldOnce
  BY DEF HeldInv
<1> QED
  BY <1>2, <1>3, PTL

-----------------------------------------------------------------------------
(* What any step does to one thread. *)

\* The thread stays as it is; or rests, or goes where no row is expected to be
\* as it was; or starts; or keeps the attempt it holds; or gets one.
Enters(u) ==
  \/ th'[u] = th[u]
  \/ th'[u].pc \in {"idle", "handle", "bill", "count", "stamp", "deliver"}
  \/ \E s \in Subs : Submit(u, s) \/ Retry(u, s) \/ Reap(u, s)
  \/ Reopen(u) \/ Reload(u)
  \/ Claim(u) /\ Matches(th[u])
  \/ /\ Holding(u) /\ Holding(u)'
     /\ th'[u].sub = th[u].sub /\ th'[u].attempts = th[u].attempts
     /\ th'[u].by = th[u].by

LEMMA BecomeOne ==
  ASSUME TypeInv, NEW t \in Threads, NEW l, Become(t, l)
  PROVE  th'[t] = l /\ \A u \in Threads \ {t} : th'[u] = th[u]
BY DEF TypeInv, TypeOK, Become

\* A trigger on the wire is answered, tried again or given up; the rows are as
\* they were.
LEMMA PostMoves ==
  ASSUME TypeInv, NEW t \in Threads, PostHeard(t) \/ PostUnheard(t) \/ PostRefused(t)
  PROVE  /\ Holding(t) /\ UNCHANGED <<row, aged>>
         /\ \A u \in Threads \ {t} : th'[u] = th[u]
         /\ \/ th'[t] = Idle
            \/ /\ Holding(t)' /\ th'[t].sub = th[t].sub
               /\ th'[t].attempts = th[t].attempts /\ th'[t].by = th[t].by
<1>1. Holding(t) /\ UNCHANGED <<row, aged>> /\ th[t] \in Thread
  BY DEF PostHeard, PostUnheard, PostRefused, At, Holding, db, TypeInv, Fit
<1>2. PICK l : /\ Become(t, l)
               /\ \/ l = NextTry(th[t])
                  \/ \E id : l = [th[t] EXCEPT !.pc = "accepted", !.id = id]
                  \/ l = [th[t] EXCEPT !.pc = "refused"]
  BY DEF PostHeard, PostUnheard, PostRefused
<1>3. l = Idle \/ (l.pc \in {"post", "refused", "accepted"} /\ l.sub = th[t].sub
                   /\ l.attempts = th[t].attempts /\ l.by = th[t].by)
  <2>1. CASE l = NextTry(th[t])
    <3>1. l = Idle \/ l = [th[t] EXCEPT !.tries = th[t].tries + 1]
      BY <2>1 DEF NextTry
    <3>2. CASE l = [th[t] EXCEPT !.tries = th[t].tries + 1]
      BY <1>1, <3>2 DEF Thread, Holding
    <3> QED
      BY <3>1, <3>2
  <2>2. ASSUME NEW id, l = [th[t] EXCEPT !.pc = "accepted", !.id = id]
        PROVE  l.pc = "accepted" /\ l.sub = th[t].sub /\ l.attempts = th[t].attempts
                 /\ l.by = th[t].by
    BY <1>1, <2>2 DEF Thread
  <2>3. CASE l = [th[t] EXCEPT !.pc = "refused"]
    BY <1>1, <2>3 DEF Thread
  <2> QED
    BY <1>2, <2>1, <2>2, <2>3
<1>4. th'[t] = l /\ \A u \in Threads \ {t} : th'[u] = th[u]
  BY <1>2, BecomeOne
<1> QED
  BY <1>1, <1>3, <1>4 DEF Holding

\* A claim that wins counts the attempt and puts its trigger on the wire.
LEMMA ClaimMoves ==
  ASSUME TypeInv, NEW t \in Threads, Claim(t), Matches(th[t])
  PROVE  /\ th[t].sub \in Subs /\ th[t].pc = "claim"
         /\ row[th[t].sub].status = th[t].status
         /\ row[th[t].sub].attempts = th[t].attempts
         /\ aged' = [aged EXCEPT ![th[t].sub] = FALSE]
         /\ row' = [row EXCEPT ![th[t].sub] =
                      [row[th[t].sub] EXCEPT !.status = "pending", !.job = OwnId,
                                             !.attempts = th[t].attempts + 1]]
         /\ th'[t].pc = "post" /\ th'[t].sub = th[t].sub /\ th'[t].by = th[t].by
         /\ th'[t].attempts = th[t].attempts + 1
         /\ \A u \in Threads \ {t} : th'[u] = th[u]
<1> DEFINE l == [Idle EXCEPT !.pc = "post", !.by = th[t].by, !.sub = th[t].sub,
                             !.attempts = th[t].attempts + 1]
<1>1. Become(t, l) /\ At(t, "claim")
  BY DEF Claim
<1>2. /\ l.pc = "post" /\ l.sub = th[t].sub /\ l.by = th[t].by
      /\ l.attempts = th[t].attempts + 1
  BY DEF Idle
<1>3. th[t].sub \in Subs
  BY <1>1 DEF TypeInv, Fit, At
<1> HIDE DEF l
<1>4. th'[t] = l /\ \A u \in Threads \ {t} : th'[u] = th[u]
  BY <1>1, BecomeOne
<1> QED
  BY <1>1, <1>2, <1>3, <1>4 DEF Claim, Write, Matches, At

LEMMA Entering ==
  ASSUME TypeInv, [Next]_vars, NEW u \in Threads
  PROVE  Enters(u)
<1>th. \A t \in Threads : ~ At(t, "idle") => th[t] \in Thread /\ th[t].sub \in Subs
  BY DEF TypeInv, Fit, At
<1>1. ASSUME NEW t \in Threads, Start(t) \/ Continue(t) \/ Crash(t), t # u
      PROVE  th'[u] = th[u]
  <2>1. CASE PostHeard(t) \/ PostUnheard(t) \/ PostRefused(t)
    BY <1>1, <2>1, PostMoves
  <2>2. CASE ~ (PostHeard(t) \/ PostUnheard(t) \/ PostRefused(t))
    <3>1. \E l : Become(t, l)
      BY <1>1, <2>2 DEF Start, Continue, Crash, Submit, Retry, Reap, Load, Reopen, Reload,
        GiveUp, Claim, Refuse, Accept, Ignore, Requeue, Land, Conflict, Bill, Count, Stamp, Deliver
    <3> QED
      BY <1>1, <3>1, BecomeOne
  <2> QED
    BY <2>1, <2>2
<1>2. CASE Start(u)
  <2>1. ASSUME NEW m \in callbacks, Load(u, m) PROVE th'[u].pc = "handle"
    <3> DEFINE l == [Idle EXCEPT !.pc = "handle", !.by = "callback", !.sub = m.sub,
                            !.status = row[m.sub].status,
                            !.attempts = row[m.sub].attempts,
                            !.id = m.id, !.kind = m.kind, !.cost = m.cost,
                            !.base = row[m.sub].cost,
                            !.existing = result[m.sub]]
    <3>1. l.pc = "handle"
      BY DEF Idle
    <3>2. Become(u, l)
      BY <2>1 DEF Load
    <3> HIDE DEF l
    <3> QED
      BY <3>1, <3>2, BecomeOne
  <2> QED
    BY <1>2, <2>1 DEF Start, Enters
<1>3. CASE Continue(u) \/ Crash(u)
  <2>1. CASE PostHeard(u) \/ PostUnheard(u) \/ PostRefused(u)
    BY <2>1, PostMoves, AfterPc DEF Enters
  <2>2. CASE Reopen(u) \/ Reload(u)
    BY <2>2 DEF Enters
  <2>3. CASE Claim(u)
    BY <2>3, BecomeOne, AfterPc DEF Enters, Claim
  <2>4. CASE Land(u)
    <3>1. \/ th'[u] = SittingEnd(th[u])
          \/ th'[u] = [Idle EXCEPT !.pc = "bill", !.by = "callback", !.sub = th[u].sub,
                                   !.cost = DeltaOf(th[u])]
      BY <2>4, BecomeOne DEF Land
    <3> QED
      BY <3>1, AfterPc DEF Enters, Idle
  <2>5. CASE Count(u) \/ Stamp(u)
    <3>1. th[u] \in Thread
      BY <2>5, <1>th DEF Count, Stamp, At
    <3>2. \/ th'[u] \in {Idle, [th[u] EXCEPT !.pc = "stamp"]}
          \/ th'[u] = [th[u] EXCEPT !.pc = "deliver", !.mail = Payload]
      BY <2>5, BecomeOne DEF Count, Stamp
    <3> QED
      BY <3>1, <3>2, AfterPc DEF Enters, Thread
  <2>6. CASE GiveUp(u) \/ Refuse(u) \/ Accept(u) \/ Ignore(u) \/ Requeue(u)
             \/ Conflict(u) \/ Bill(u) \/ Deliver(u) \/ Crash(u)
    <3>1. th'[u] \in {Idle, SittingEnd(th[u])}
      BY <2>6, BecomeOne DEF GiveUp, Refuse, Accept, Ignore, Requeue, Conflict, Bill, Deliver, Crash
    <3> QED
      BY <3>1, AfterPc DEF Enters
  <2> QED
    BY <1>3, <2>1, <2>2, <2>3, <2>4, <2>5, <2>6 DEF Continue
<1>4. CASE Environment \/ UNCHANGED vars
  <2>1. th' = th
    BY <1>4 DEF Environment, Age, AgentFinishes, AgentLoses, CallbackGone, vars
  <2> QED
    BY <2>1 DEF Enters
<1>5. ASSUME NEW t \in Threads, Start(t) \/ Continue(t) \/ Crash(t) PROVE Enters(u)
  BY <1>1, <1>2, <1>3, <1>5 DEF Enters
<1> QED
  BY <1>4, <1>5 DEF Next

-----------------------------------------------------------------------------
(* Who moves a settled submission, and who spends an attempt. *)

\* A request that is not a retry expects a submission in flight, and claims
\* only while automatic attempts remain.
Automatic(l) ==
  /\ l.pc = "claim" /\ l.by # "retry" =>
       l.status \in {"pending", "running"} /\ l.attempts < MaxTrigger
  /\ l.pc = "giveup" => l.status \in {"pending", "running"}
  /\ l.pc = "reload" => l.by = "retry"
  /\ l.pc = "reopen" => l.by = "retry"

AutoInv == \A t \in Threads : Automatic(th[t])

LEMMA AutoStep == TypeInv /\ AutoInv /\ [Next]_vars => AutoInv'
<1> SUFFICES ASSUME TypeInv, AutoInv, [Next]_vars, NEW u \in Threads
             PROVE  Automatic(th'[u])
  BY DEF AutoInv
<1>0. MaxTrigger \in Nat \ {0}
  BY GradingAssumption
<1>1. CASE th'[u] = th[u]
  BY <1>1 DEF AutoInv
<1>2. CASE th'[u].pc \in {"idle", "handle", "bill", "count", "stamp", "deliver"}
  BY <1>2 DEF Automatic
<1>3. ASSUME NEW s \in Subs, Submit(u, s) PROVE Automatic(th'[u])
  <2>1. th'[u] = [Idle EXCEPT !.pc = "claim", !.by = "submit", !.sub = s, !.status = "pending"]
    BY <1>3, BecomeOne DEF Submit
  <2> QED
    BY <1>0, <2>1 DEF Automatic, Idle
<1>4. ASSUME NEW s \in Subs, Retry(u, s) PROVE Automatic(th'[u])
  <2>1. \/ th'[u] = [Idle EXCEPT !.pc = "reopen", !.by = "retry", !.sub = s]
        \/ th'[u] = Expecting("retry", s)
    BY <1>4, BecomeOne DEF Retry
  <2> QED
    BY <2>1 DEF Automatic, Idle, Expecting
<1>5. ASSUME NEW s \in Subs, Reap(u, s) PROVE Automatic(th'[u])
  <2>1. \/ th'[u] = Expecting("reap", s) /\ row[s].attempts < MaxTrigger
        \/ th'[u] = [Expecting("reap", s) EXCEPT !.pc = "giveup"]
    BY <1>5, BecomeOne DEF Reap
  <2>2. row[s].status \in {"pending", "running"}
    BY <1>5 DEF Reap
  <2> QED
    BY <2>1, <2>2, ZenonT(30) DEF Automatic, Idle, Expecting
<1>6. CASE Reopen(u)
  <2>1. th'[u] = [th[u] EXCEPT !.pc = "reload"] /\ th[u].pc = "reopen"
    BY <1>6, BecomeOne DEF Reopen, At
  <2>2. th[u] \in Thread
    BY DEF TypeInv, Fit
  <2> QED
    BY <2>1, <2>2 DEF Automatic, AutoInv, Thread
<1>7. CASE Reload(u)
  <2>1. th'[u] = Expecting("retry", th[u].sub)
    BY <1>7, BecomeOne DEF Reload
  <2> QED
    BY <2>1 DEF Automatic, Idle, Expecting
<1>8. CASE Claim(u) /\ Matches(th[u])
  BY <1>8, ClaimMoves DEF Automatic, Holding
<1>9. CASE Holding(u)'
  BY <1>9 DEF Automatic, Holding
<1> QED
  BY <1>1, <1>2, <1>3, <1>4, <1>5, <1>6, <1>7, <1>8, <1>9, Entering DEF Enters

LEMMA AutoInit == Init => AutoInv
BY DEF Init, AutoInv, Automatic, Idle


\* A thread about to write a row by itself moves on only by writing it, finding
\* it changed, or dying.
LEMMA OwnStep ==
  ASSUME TypeInv, [Next]_vars, NEW t \in Threads, th'[t] # th[t],
         th[t].pc \in {"claim", "giveup", "refused", "accepted"}
  PROVE  Claim(t) \/ GiveUp(t) \/ Refuse(t) \/ Accept(t) \/ Crash(t)
<1>1. ASSUME NEW u \in Threads, Start(u) \/ Continue(u) \/ Crash(u) PROVE u = t
  <2>1. CASE PostHeard(u) \/ PostUnheard(u) \/ PostRefused(u)
    BY <2>1, PostMoves
  <2>2. CASE ~ (PostHeard(u) \/ PostUnheard(u) \/ PostRefused(u))
    <3>1. \E l : Become(u, l)
      BY <1>1, <2>2 DEF Start, Continue, Crash, Submit, Retry, Reap, Load, Reopen, Reload,
        GiveUp, Claim, Refuse, Accept, Ignore, Requeue, Land, Conflict, Bill, Count, Stamp, Deliver
    <3> QED
      BY <3>1, BecomeOne
  <2> QED
    BY <2>1, <2>2
<1>2. ~ (Environment \/ UNCHANGED vars)
  BY DEF Environment, Age, AgentFinishes, AgentLoses, CallbackGone, vars
<1>3. Start(t) \/ Continue(t) \/ Crash(t)
  BY <1>1, <1>2 DEF Next
<1>4. ~ Start(t)
  BY DEF Start, Submit, Retry, Reap, Load, At
<1> QED
  BY <1>3, <1>4 DEF Continue, Reopen, Reload, PostHeard, PostUnheard, PostRefused, Ignore,
     Requeue, Land, Conflict, Bill, Count, Stamp, Deliver, At

\* The reaper and the answers to a trigger leave a settled submission alone,
\* whatever they read earlier and whoever else is at work on it.
THEOREM TerminalIsLeftByHand == Spec => TerminalLeftOnlyByHand
<1> DEFINE Step == \A t \in Threads :
       th'[t] # th[t] /\ th[t].pc \in {"claim", "giveup", "refused", "accepted"}
         /\ th[t].by # "retry"
       => \A s \in Subs : row[s].status \in Terminal => row'[s] = row[s]
<1>1. TypeInv /\ AutoInv /\ [Next]_vars => Step
  <2> SUFFICES ASSUME TypeInv, AutoInv, [Next]_vars,
                      NEW t \in Threads, th'[t] # th[t],
                      th[t].pc \in {"claim", "giveup", "refused", "accepted"},
                      th[t].by # "retry",
                      NEW s \in Subs, row[s].status \in Terminal
               PROVE  row'[s] = row[s]
    OBVIOUS
  <2>1. Automatic(th[t]) /\ row \in [Subs -> Row] /\ th[t] \in Thread /\ th[t].sub \in Subs
    BY DEF AutoInv, TypeInv, TypeOK, Fit
  <2>2. CASE Claim(t)
    BY <2>1, <2>2 DEF Claim, Matches, Write, Automatic, Terminal, At
  <2>3. CASE GiveUp(t)
    BY <2>1, <2>3 DEF GiveUp, Matches, Write, Automatic, Terminal, At
  <2>4. CASE Refuse(t) \/ Accept(t)
    <3>1. Awaits(th[t]) => row[th[t].sub].status = "pending"
      BY <2>1 DEF Awaits, Matches, Thread
    <3> QED
      BY <2>1, <2>4, <3>1 DEF Refuse, Accept, Write, Terminal
  <2>5. CASE Crash(t)
    BY <2>5 DEF Crash, db
  <2> QED
    BY <2>2, <2>3, <2>4, <2>5, OwnStep
<1> HIDE DEF Step
<1>2. Spec => [](TypeInv /\ AutoInv)
  BY TypeInit, TypeStep, AutoInit, AutoStep, PTL DEF Spec
<1>3. Spec => [][Step]_vars
  BY <1>1, <1>2, PTL DEF Spec
<1> QED
  BY <1>3 DEF TerminalLeftOnlyByHand, Step

\* Nobody but an interviewer spends an attempt past MAX_TRIGGER_ATTEMPTS.
THEOREM AttemptsAreBounded == Spec => AutomaticAttemptsBounded
<1> DEFINE Step == \A s \in Subs :
       row'[s].attempts > MaxTrigger /\ row'[s].attempts # row[s].attempts
       => \E t \in Threads : /\ At(t, "claim") /\ th[t].by = "retry"
                             /\ th[t].sub = s
<1>1. TypeInv /\ AutoInv /\ [Next]_vars => Step
  <2> SUFFICES ASSUME TypeInv, AutoInv, [Next]_vars, NEW s \in Subs,
                      row'[s].attempts > MaxTrigger,
                      row'[s].attempts # row[s].attempts
               PROVE  \E t \in Threads : /\ At(t, "claim") /\ th[t].by = "retry"
                                         /\ th[t].sub = s
    OBVIOUS
  <2>1. PICK t \in Threads, u \in Subs : Granted(t, u)
    BY Grants DEF NoGrant
  <2>2. u = s
    BY <2>1 DEF Granted
  <2>3. At(t, "claim") /\ th[t].sub = s /\ th[t].attempts = row[s].attempts
    BY <2>1, <2>2 DEF Granted, Claim, Matches
  <2>4. row'[s].attempts = th[t].attempts + 1
    BY <2>1, <2>2, <2>3 DEF Granted
  <2>5. th[t].attempts \in Nat /\ MaxTrigger \in Nat /\ Automatic(th[t])
    BY GradingAssumption DEF TypeInv, TypeOK, Thread, AutoInv
  <2>6. th[t].by = "retry"
    BY <2>3, <2>4, <2>5 DEF Automatic, At
  <2> QED
    BY <2>3, <2>6
<1> HIDE DEF Step
<1>2. Spec => [](TypeInv /\ AutoInv)
  BY TypeInit, TypeStep, AutoInit, AutoStep, PTL DEF Spec
<1>3. Spec => [][Step]_vars
  BY <1>1, <1>2, PTL DEF Spec
<1> QED
  BY <1>3 DEF AutomaticAttemptsBounded, Step

-----------------------------------------------------------------------------
(* The announcement. *)

\* The stamp and its history move together, in two places only.
LEMMA StampMoves ==
  [Next]_vars => \/ UNCHANGED <<stamp, claims, reopens>>
                 \/ ~ stamp /\ stamp' /\ claims' = claims + 1 /\ reopens' = reopens
                 \/ ~ stamp' /\ reopens' = reopens + 1 /\ claims' = claims
<1> SUFFICES ASSUME [Next]_vars
             PROVE  \/ UNCHANGED <<stamp, claims, reopens>>
                    \/ ~ stamp /\ stamp' /\ claims' = claims + 1 /\ reopens' = reopens
                    \/ ~ stamp' /\ reopens' = reopens + 1 /\ claims' = claims
  OBVIOUS
<1>1. ASSUME NEW t \in Threads, Reopen(t)
      PROVE  ~ stamp' /\ reopens' = reopens + 1 /\ claims' = claims
  BY <1>1 DEF Reopen
<1>2. ASSUME NEW t \in Threads, Stamp(t)
      PROVE  \/ UNCHANGED <<stamp, claims, reopens>>
             \/ ~ stamp /\ stamp' /\ claims' = claims + 1 /\ reopens' = reopens
  BY <1>2 DEF Stamp
<1>3. ASSUME NEW t \in Threads, Start(t) PROVE UNCHANGED <<stamp, claims, reopens>>
  BY <1>3 DEF Start, Submit, Retry, Reap, Load, db, told
<1>4. ASSUME NEW t \in Threads, Continue(t) \/ Crash(t), ~ Reopen(t), ~ Stamp(t)
      PROVE  UNCHANGED <<stamp, claims, reopens>>
  BY <1>4 DEF Continue, Crash, Reload, GiveUp, Claim, PostHeard, PostUnheard, PostRefused,
     Refuse, Accept, Ignore, Requeue, Land, Conflict, Bill, Count, Deliver, db, told
<1>5. CASE Environment \/ UNCHANGED vars
  BY <1>5 DEF Environment, Age, AgentFinishes, AgentLoses, CallbackGone, vars, db, told
<1> QED
  BY <1>1, <1>2, <1>3, <1>4, <1>5 DEF Next

\* However many handlers see a sitting complete, its results are announced once,
\* and once more for each time it was reopened.
THEOREM NotifiedOnce == Spec => []NotifiedOncePerOpening
<1>1. Init => NotifiedOncePerOpening
  BY DEF Init, NotifiedOncePerOpening
<1>2. TypeInv /\ TypeInv' /\ NotifiedOncePerOpening /\ [Next]_vars => NotifiedOncePerOpening'
  <2> SUFFICES ASSUME TypeInv, TypeInv', NotifiedOncePerOpening, [Next]_vars
               PROVE  NotifiedOncePerOpening'
    OBVIOUS
  <2>1. claims \in Nat /\ reopens \in Nat /\ claims' \in Nat /\ reopens' \in Nat
    BY DEF TypeInv, TypeOK
  <2>2. CASE UNCHANGED <<stamp, claims, reopens>>
    BY <2>2 DEF NotifiedOncePerOpening
  <2>3. CASE ~ stamp /\ stamp' /\ claims' = claims + 1 /\ reopens' = reopens
    BY <2>1, <2>3 DEF NotifiedOncePerOpening
  <2>4. CASE ~ stamp' /\ reopens' = reopens + 1 /\ claims' = claims
    <3>1. claims <= reopens + 1
      BY <2>1 DEF NotifiedOncePerOpening
    <3> QED
      BY <2>1, <2>4, <3>1 DEF NotifiedOncePerOpening
  <2> QED
    BY <2>2, <2>3, <2>4, StampMoves
<1> QED
  BY <1>1, <1>2, TypeInit, TypeStep, PTL DEF Spec

-----------------------------------------------------------------------------
(* What becomes of a row, whoever writes it. *)

\* A row that has a job id, or that has been inserted, keeps one and stays; it
\* is old only where its grace has run out.
Grown ==
  \A s \in Subs :
    /\ row[s].job # NoJob => row'[s].job # NoJob
    /\ row[s].status # "absent" => row'[s].status # "absent"
    /\ aged'[s] => aged[s] \/ Age(s)

LEMMA WriteGrows ==
  ASSUME TypeInv, NEW s \in Subs, NEW r,
         r.job = row[s].job \/ r.job # NoJob,
         r.status = row[s].status \/ r.status # "absent",
         Write(s, r) \/ UNCHANGED <<row, aged>>
  PROVE  Grown
BY DEF TypeInv, TypeOK, Write, Grown

LEMMA RowGrows ==
  ASSUME TypeInv, [Next]_vars
  PROVE  Grown
<1>row. \A s \in Subs : row[s] \in Row
  BY DEF TypeInv, TypeOK
<1>th. \A t \in Threads : ~ At(t, "idle") => th[t] \in Thread /\ th[t].sub \in Subs
  BY DEF TypeInv, Fit, At
<1>ids. \A id \in JobIds : id # NoJob
  BY GradingAssumption DEF JobIds, OwnId, NoJob
<1>same. UNCHANGED <<row, aged>> => Grown
  BY DEF Grown
<1>1. ASSUME NEW t \in Threads, NEW s \in Subs, Submit(t, s) PROVE Grown
  <2>1. /\ [row[s] EXCEPT !.status = "pending"].status = "pending"
        /\ [row[s] EXCEPT !.status = "pending"].job = row[s].job
    BY <1>row DEF Row
  <2> QED
    BY <1>1, <2>1, WriteGrows DEF Submit
<1>2. ASSUME NEW t \in Threads, GiveUp(t) \/ Refuse(t) PROVE Grown
  <2> DEFINE r == [row[th[t].sub] EXCEPT !.status = "error"]
  <2>1. th[t].sub \in Subs /\ row[th[t].sub] \in Row
    BY <1>2, <1>th, <1>row DEF GiveUp, Refuse, At
  <2>2. r.status = "error" /\ r.job = row[th[t].sub].job
    BY <2>1 DEF Row
  <2>3. Write(th[t].sub, r) \/ UNCHANGED <<row, aged>>
    BY <1>2 DEF GiveUp, Refuse
  <2> HIDE DEF r
  <2> QED
    BY <2>1, <2>2, <2>3, WriteGrows
<1>3. ASSUME NEW t \in Threads, Claim(t) PROVE Grown
  <2> DEFINE r == [row[th[t].sub] EXCEPT !.status = "pending", !.job = OwnId,
                                         !.attempts = th[t].attempts + 1]
  <2>1. th[t].sub \in Subs /\ row[th[t].sub] \in Row
    BY <1>3, <1>th, <1>row DEF Claim, At
  <2>2. r.status = "pending" /\ r.job # NoJob
    BY <2>1 DEF Row, OwnId, NoJob
  <2>3. Write(th[t].sub, r) \/ UNCHANGED <<row, aged>>
    BY <1>3 DEF Claim
  <2> HIDE DEF r
  <2> QED
    BY <2>1, <2>2, <2>3, WriteGrows
<1>4. ASSUME NEW t \in Threads, Accept(t) PROVE Grown
  <2> DEFINE r == [row[th[t].sub] EXCEPT !.status = "running", !.job = th[t].id]
  <2>1. th[t].sub \in Subs /\ row[th[t].sub] \in Row /\ th[t].id \in JobIds
    BY <1>4, <1>th, <1>row DEF Accept, At, Thread
  <2>2. r.status = "running" /\ r.job # NoJob
    BY <2>1, <1>ids DEF Row
  <2>3. Write(th[t].sub, r) \/ UNCHANGED <<row, aged>>
    BY <1>4 DEF Accept
  <2> HIDE DEF r
  <2> QED
    BY <2>1, <2>2, <2>3, WriteGrows
<1>5. ASSUME NEW t \in Threads, Requeue(t) PROVE Grown
  <2> DEFINE r == [row[th[t].sub] EXCEPT !.status = "pending"]
  <2>1. th[t].sub \in Subs /\ row[th[t].sub] \in Row
    BY <1>5, <1>th, <1>row DEF Requeue, At
  <2>2. r.status = "pending" /\ r.job = row[th[t].sub].job
    BY <2>1 DEF Row
  <2>3. Write(th[t].sub, r) \/ UNCHANGED <<row, aged>>
    BY <1>5 DEF Requeue
  <2> HIDE DEF r
  <2> QED
    BY <2>1, <2>2, <2>3, WriteGrows
<1>6. ASSUME NEW t \in Threads, Land(t) PROVE Grown
  <2> DEFINE s == th[t].sub
             r == [row[s] EXCEPT
               !.status = IF th[t].status = Outcome(th[t].kind) THEN @
                          ELSE Outcome(th[t].kind),
               !.cost = IF CostOf(th[t]) = th[t].base THEN @ ELSE CostOf(th[t])]
  <2>1. s \in Subs /\ row[s] \in Row
    BY <1>6, <1>th, <1>row DEF Land, At
  <2>2. r.job = row[s].job /\ (r.status = row[s].status \/ r.status # "absent")
    BY <2>1 DEF Row, Outcome
  <2>3. Write(s, r) \/ UNCHANGED <<row, aged>>
    BY <1>6 DEF Land
  <2> HIDE DEF r, s
  <2> QED
    BY <2>1, <2>2, <2>3, WriteGrows
<1>7. ASSUME NEW t \in Threads, NEW s \in Subs, Retry(t, s) \/ Reap(t, s) PROVE Grown
  BY <1>7, <1>same DEF Retry, Reap, db
<1>8. ASSUME NEW t \in Threads, NEW m \in callbacks, Load(t, m) PROVE Grown
  BY <1>8, <1>same DEF Load, db
<1>9. ASSUME NEW t \in Threads,
             \/ Reopen(t) \/ Reload(t) \/ PostHeard(t) \/ PostUnheard(t) \/ PostRefused(t)
             \/ Ignore(t) \/ Conflict(t) \/ Bill(t) \/ Count(t) \/ Stamp(t) \/ Deliver(t)
             \/ Crash(t)
      PROVE  Grown
  BY <1>9, <1>same DEF Reopen, Reload, PostHeard, PostUnheard, PostRefused, Ignore, Conflict,
     Bill, Count, Stamp, Deliver, Crash, db
<1>10. ASSUME NEW s \in Subs, Age(s) PROVE Grown
  BY <1>10 DEF Age, Grown, TypeInv, TypeOK
<1>11. CASE Environment \/ UNCHANGED vars
  BY <1>11, <1>same, <1>10 DEF Environment, AgentFinishes, AgentLoses, CallbackGone, vars, db
<1> QED
  BY <1>1, <1>2, <1>3, <1>4, <1>5, <1>6, <1>7, <1>8, <1>9, <1>10, <1>11
  DEF Next, Start, Continue

-----------------------------------------------------------------------------
(* Callbacks. *)

\* The row has its job id before the agent hears of the attempt, and as long as
\* anything of it is on the way.
FoundInv ==
  /\ \A j \in jobs \cup callbacks : row[j.sub].job # NoJob
  /\ \A t \in Threads : Holding(t) => row[th[t].sub].job # NoJob

\* Only a trigger makes a job, and only a job makes a callback.
LEMMA AgentMoves ==
  ASSUME TypeInv, [Next]_vars
  PROVE  /\ \A j \in jobs' : j \in jobs \/ \E t \in Threads : Holding(t) /\ j.sub = th[t].sub
         /\ \A m \in callbacks' : m \in callbacks \/ \E j \in jobs : m.sub = j.sub
<1> DEFINE Goal ==
         /\ \A j \in jobs' : j \in jobs \/ \E t \in Threads : Holding(t) /\ j.sub = th[t].sub
         /\ \A m \in callbacks' : m \in callbacks \/ \E j \in jobs : m.sub = j.sub
<1>1. ASSUME NEW t \in Threads, PostHeard(t) PROVE Goal
  <2>1. Holding(t) /\ callbacks' = callbacks
    BY <1>1 DEF PostHeard, At, Holding
  <2>2. \A j \in jobs' : j \in jobs \/ j.sub = th[t].sub
    BY <1>1 DEF PostHeard
  <2> QED
    BY <2>1, <2>2
<1>2. ASSUME NEW t \in Threads, Start(t) \/ Crash(t) \/ (Continue(t) /\ ~ PostHeard(t))
      PROVE  Goal
  <2>1. UNCHANGED <<jobs, callbacks>>
    BY <1>2 DEF Start, Submit, Retry, Reap, Load, Crash, Continue, Reopen, Reload, GiveUp,
       Claim, PostUnheard, PostRefused, Refuse, Accept, Ignore, Requeue, Land, Conflict, Bill,
       Count, Stamp, Deliver, agent
  <2> QED
    BY <2>1
<1>3. CASE Environment
  BY <1>3 DEF Environment, Age, AgentFinishes, AgentLoses, CallbackGone, agent
<1>4. CASE UNCHANGED vars
  BY <1>4 DEF vars, agent
<1> QED
  BY <1>1, <1>2, <1>3, <1>4 DEF Next

LEMMA FoundStep == TypeInv /\ FoundInv /\ [Next]_vars => FoundInv'
<1> SUFFICES ASSUME TypeInv, FoundInv, [Next]_vars PROVE FoundInv'
  OBVIOUS
<1>1. /\ \A j \in jobs \cup callbacks : j.sub \in Subs
      /\ \A t \in Threads : Holding(t) => th[t].sub \in Subs
  BY DEF TypeInv, TypeOK, Job, Callback, Fit, Holding
<1>2. \A s \in Subs : row[s].job # NoJob => row'[s].job # NoJob
  BY RowGrows DEF Grown
<1>3. ASSUME NEW j \in jobs' \cup callbacks' PROVE row'[j.sub].job # NoJob
  BY <1>1, <1>2, <1>3, AgentMoves DEF FoundInv
<1>4. ASSUME NEW t \in Threads, Holding(t)' PROVE row'[th'[t].sub].job # NoJob
  <2>1. CASE th'[t] = th[t]
    BY <2>1, <1>1, <1>2, <1>4 DEF FoundInv, Holding
  <2>2. CASE Holding(t) /\ th'[t].sub = th[t].sub
    BY <2>2, <1>1, <1>2 DEF FoundInv
  <2>3. CASE Claim(t) /\ Matches(th[t])
    <3>1. /\ th[t].sub \in Subs /\ th'[t].sub = th[t].sub
          /\ row' = [row EXCEPT ![th[t].sub] =
                       [row[th[t].sub] EXCEPT !.status = "pending", !.job = OwnId,
                                              !.attempts = th[t].attempts + 1]]
      BY <2>3, ClaimMoves
    <3>2. row[th[t].sub] \in Row /\ row \in [Subs -> Row]
      BY <3>1 DEF TypeInv, TypeOK
    <3>3. row'[th[t].sub].job = OwnId
      BY <3>1, <3>2 DEF Row
    <3> QED
      BY <3>1, <3>3 DEF OwnId, NoJob
  <2>4. CASE \/ \E s \in Subs : Submit(t, s) \/ Retry(t, s) \/ Reap(t, s)
             \/ Reopen(t) \/ Reload(t)
    <3>1. th'[t].pc \in {"claim", "giveup", "reopen", "reload"}
      <4>1. ASSUME NEW s \in Subs, Submit(t, s) \/ Retry(t, s) \/ Reap(t, s)
            PROVE  th'[t].pc \in {"claim", "giveup", "reopen", "reload"}
        <5>1. CASE Submit(t, s)
          <6>1. th'[t] = [Idle EXCEPT !.pc = "claim", !.by = "submit", !.sub = s,
                                      !.status = "pending"]
            BY <5>1, BecomeOne DEF Submit
          <6> QED
            BY <6>1 DEF Idle
        <5>2. CASE Retry(t, s)
          <6>1. \/ th'[t] = [Idle EXCEPT !.pc = "reopen", !.by = "retry", !.sub = s]
                \/ th'[t] = Expecting("retry", s)
            BY <5>2, BecomeOne DEF Retry
          <6> QED
            BY <6>1 DEF Expecting, Idle
        <5>3. CASE Reap(t, s)
          <6>1. th'[t] \in {Expecting("reap", s), [Expecting("reap", s) EXCEPT !.pc = "giveup"]}
            BY <5>3, BecomeOne DEF Reap
          <6> QED
            BY <6>1 DEF Expecting, Idle
        <5> QED
          BY <4>1, <5>1, <5>2, <5>3
      <4>2. CASE Reopen(t)
        <5>1. th[t] \in Thread /\ th'[t] = [th[t] EXCEPT !.pc = "reload"]
          BY <4>2, BecomeOne DEF Reopen, TypeInv, Fit
        <5> QED
          BY <5>1 DEF Thread
      <4>3. CASE Reload(t)
        <5>1. th'[t] = Expecting("retry", th[t].sub)
          BY <4>3, BecomeOne DEF Reload
        <5> QED
          BY <5>1, AfterPc
      <4> QED
        BY <2>4, <4>1, <4>2, <4>3
    <3> QED
      BY <1>4, <3>1 DEF Holding
  <2>5. CASE th'[t].pc \in {"idle", "handle", "bill", "count", "stamp", "deliver"}
    BY <2>5, <1>4 DEF Holding
  <2> QED
    BY <2>1, <2>2, <2>3, <2>4, <2>5, Entering DEF Enters
<1> QED
  BY <1>3, <1>4 DEF FoundInv

\* Of an agent that echoes our job id: whatever it grades, and whenever it calls
\* back, the callback finds its row.
THEOREM CallbacksFindTheirRows ==
  ASSUME MintIds = {}
  PROVE  Spec => []CallbackFindsItsRow
<1>1. Init => FoundInv
  BY DEF Init, FoundInv, Holding, Idle
<1>2. Spec => [](TypeInv /\ FoundInv)
  BY <1>1, TypeInit, TypeStep, FoundStep, PTL DEF Spec
<1>3. TypeInv /\ FoundInv => CallbackFindsItsRow
  <2> SUFFICES ASSUME TypeInv, FoundInv PROVE CallbackFindsItsRow
    OBVIOUS
  <2>1. JobIds = {OwnId}
    BY DEF JobIds
  <2>2. \A j \in jobs \cup callbacks : j.sub \in Subs /\ j.id = OwnId
    BY <2>1 DEF TypeInv, TypeOK, Job, Callback
  <2>3. \A s \in Subs : row[s].job \in {NoJob, OwnId}
    BY <2>1 DEF TypeInv, TypeOK, Row
  <2> QED
    BY <2>2, <2>3 DEF FoundInv, CallbackFindsItsRow
<1> QED
  BY <1>2, <1>3, PTL

-----------------------------------------------------------------------------
(* One trigger at a time, where the grace period covers a trigger and nobody *)
(* retries by hand.                                                          *)

\* What a thread is about to claim is no newer than its row; what a thread
\* holds is the row's own latest attempt, the row is not old meanwhile, and
\* nobody expects it as it is now.
GraceInv ==
  /\ \A t \in Threads :
       /\ th[t].pc \notin {"reopen", "reload"}
       /\ At(t, "claim") => th[t].attempts <= row[th[t].sub].attempts
       /\ Holding(t) => th[t].attempts >= 1 /\ ~ aged[th[t].sub]
  /\ \A t, u \in Threads :
       Holding(t) /\ At(u, "claim") /\ th[t].sub = th[u].sub
       => th[u].attempts < th[t].attempts
  /\ OneTriggerInFlight

\* Without retries, only a new submission and the reaper come to claim.
LEMMA Claimants ==
  ASSUME TypeInv, MaxRetries = 0, [Next]_vars, NEW u \in Threads,
         th[u].pc \notin {"reopen", "reload"}
  PROVE  /\ th'[u].pc \notin {"reopen", "reload"}
         /\ th'[u].pc = "claim" =>
              \/ th'[u] = th[u]
              \/ \E s \in Subs : /\ Submit(u, s) /\ th'[u].sub = s /\ th'[u].attempts = 0
              \/ \E s \in Subs : /\ Reap(u, s) /\ th'[u].sub = s
                                 /\ th'[u].attempts = row[s].attempts
<1>1. ASSUME NEW s \in Subs, Submit(u, s)
      PROVE  th'[u].pc = "claim" /\ th'[u].sub = s /\ th'[u].attempts = 0
  <2>1. th'[u] = [Idle EXCEPT !.pc = "claim", !.by = "submit", !.sub = s,
                              !.status = "pending"]
    BY <1>1, BecomeOne DEF Submit
  <2> QED
    BY <2>1 DEF Idle
<1>2. ASSUME NEW s \in Subs, Reap(u, s)
      PROVE  th'[u].pc \in {"claim", "giveup"} /\ th'[u].sub = s
               /\ th'[u].attempts = row[s].attempts
  <2>1. th'[u] \in {Expecting("reap", s), [Expecting("reap", s) EXCEPT !.pc = "giveup"]}
    BY <1>2, BecomeOne DEF Reap
  <2> QED
    BY <2>1, ZenonT(30) DEF Expecting, Idle
<1>3. \A s \in Subs : ~ Retry(u, s)
  BY DEF Retry, TypeInv, TypeOK
<1>4. ~ Reopen(u) /\ ~ Reload(u)
  BY DEF Reopen, Reload, At
<1>5. CASE Claim(u) /\ Matches(th[u])
  BY <1>5, ClaimMoves
<1>6. CASE Holding(u)'
  BY <1>6 DEF Holding
<1> QED
  BY <1>1, <1>2, <1>3, <1>4, <1>5, <1>6, Entering DEF Enters

LEMMA GraceStep ==
  ASSUME GraceCovers, MaxRetries = 0
  PROVE  TypeInv /\ HeldInv /\ GraceInv /\ [Next]_vars => GraceInv'
<1> SUFFICES ASSUME TypeInv, HeldInv, GraceInv, [Next]_vars PROVE GraceInv'
  OBVIOUS
<1>n. /\ \A t \in Threads : th[t].attempts \in Nat
      /\ \A t \in Threads : th[t].pc # "idle" => th[t].sub \in Subs
      /\ \A s \in Subs : row[s].attempts \in Nat
      /\ row \in [Subs -> Row] /\ aged \in [Subs -> BOOLEAN]
  BY DEF TypeInv, TypeOK, Thread, Row, Fit
<1>c. \A u \in Threads : th'[u].pc = "claim" =>
              \/ th'[u] = th[u]
              \/ \E s \in Subs : /\ Submit(u, s) /\ th'[u].sub = s /\ th'[u].attempts = 0
              \/ \E s \in Subs : /\ Reap(u, s) /\ th'[u].sub = s
                                 /\ th'[u].attempts = row[s].attempts
  BY Claimants DEF GraceInv
<1>g. \A s \in Subs : row'[s].attempts \in Nat /\ row[s].attempts <= row'[s].attempts
  BY <1>n, Grants DEF NoGrant, Granted
<1>v. ASSUME NEW v \in Threads, NEW s \in Subs, Granted(v, s)
      PROVE  /\ At(v, "claim") /\ th[v].sub = s /\ th[v].attempts = row[s].attempts
             /\ Holding(v)' /\ ~ At(v, "claim")'
             /\ th'[v].sub = s /\ th'[v].attempts = row[s].attempts + 1
             /\ aged' = [aged EXCEPT ![s] = FALSE]
             /\ \A u \in Threads \ {v} : th'[u] = th[u]
  BY <1>v, ClaimMoves DEF Granted, At, Holding
<1>1. \A u \in Threads : th'[u].pc \notin {"reopen", "reload"}
  BY Claimants DEF GraceInv
<1>2. ASSUME NEW u \in Threads, At(u, "claim")'
      PROVE  th'[u].attempts <= row'[th'[u].sub].attempts
  <2>1. CASE th'[u] = th[u]
    BY <1>2, <2>1, <1>n, <1>g, GradingAssumption DEF GraceInv, At, TypeInv, TypeOK, Row
  <2>2. ASSUME NEW s \in Subs, Submit(u, s), th'[u].sub = s, th'[u].attempts = 0
        PROVE  th'[u].attempts <= row'[th'[u].sub].attempts
    BY <2>2, <1>n, <1>g
  <2>3. ASSUME NEW s \in Subs, Reap(u, s), th'[u].sub = s, th'[u].attempts = row[s].attempts
        PROVE  th'[u].attempts <= row'[th'[u].sub].attempts
    BY <2>3, <1>n, <1>g
  <2> QED
    BY <1>2, <2>1, <2>2, <2>3, <1>c DEF At
<1>3. ASSUME NEW t \in Threads, Holding(t)' PROVE th'[t].attempts >= 1 /\ ~ aged'[th'[t].sub]
  <2>1. CASE NoGrant
    <3>1. Holding(t) /\ th'[t].sub = th[t].sub /\ th'[t].attempts = th[t].attempts
      BY <1>3, <2>1 DEF NoGrant
    <3>2. th[t].sub \in Subs /\ ~ aged[th[t].sub] /\ th[t].attempts >= 1
      BY <3>1, <1>n DEF GraceInv, Holding
    <3>3. ~ Age(th[t].sub)
      BY <3>1 DEF Age, Holding
    <3> QED
      BY <3>1, <3>2, <3>3, RowGrows DEF Grown
  <2>2. ASSUME NEW v \in Threads, NEW s \in Subs, Granted(v, s)
        PROVE  th'[t].attempts >= 1 /\ ~ aged'[th'[t].sub]
    <3>1. CASE t = v
      BY <2>2, <3>1, <1>v, <1>n
    <3>2. CASE t # v
      <4>1. Holding(t) /\ th'[t] = th[t]
        BY <2>2, <3>2, <1>v, <1>3 DEF Holding
      <4> QED
        BY <2>2, <4>1, <1>v, <1>n DEF GraceInv, Holding
    <3> QED
      BY <3>1, <3>2
  <2> QED
    BY <2>1, <2>2, Grants
<1>4. ASSUME NEW t \in Threads, NEW u \in Threads, Holding(t)', At(u, "claim")',
             th'[t].sub = th'[u].sub
      PROVE  th'[u].attempts < th'[t].attempts
  <2>1. CASE NoGrant
    <3>1. Holding(t) /\ th'[t].sub = th[t].sub /\ th'[t].attempts = th[t].attempts
      BY <1>4, <2>1 DEF NoGrant
    <3>2. CASE th'[u] = th[u]
      BY <3>1, <3>2, <1>4 DEF GraceInv, At
    <3>3. ASSUME NEW s \in Subs, Submit(u, s), th'[u].attempts = 0
          PROVE  th'[u].attempts < th'[t].attempts
      BY <3>1, <3>3, <1>n DEF GraceInv
    <3>4. ASSUME NEW s \in Subs, Reap(u, s), th'[u].sub = s PROVE FALSE
      <4>1. aged[s]
        BY <3>4 DEF Reap
      <4> QED
        BY <3>1, <3>4, <4>1, <1>4 DEF GraceInv
    <3> QED
      BY <1>4, <3>2, <3>3, <3>4, <1>c DEF At
  <2>2. ASSUME NEW v \in Threads, NEW s \in Subs, Granted(v, s)
        PROVE  th'[u].attempts < th'[t].attempts
    <3>1. u # v /\ th'[u] = th[u] /\ At(u, "claim")
      BY <2>2, <1>4, <1>v DEF At
    <3>2. CASE t = v
      <4>1. th[u].attempts <= row[s].attempts
        BY <2>2, <3>1, <3>2, <1>4, <1>v DEF GraceInv
      <4> QED
        BY <2>2, <3>1, <3>2, <4>1, <1>v, <1>n
    <3>3. CASE t # v
      <4>1. Holding(t) /\ th'[t] = th[t]
        BY <2>2, <3>3, <1>v, <1>4 DEF Holding
      <4> QED
        BY <3>1, <4>1, <1>4 DEF GraceInv
    <3> QED
      BY <3>2, <3>3
  <2> QED
    BY <2>1, <2>2, Grants
<1>5. ASSUME NEW t \in Threads, NEW u \in Threads, Holding(t)', Holding(u)',
             th'[t].sub = th'[u].sub
      PROVE  t = u
  <2>1. CASE NoGrant
    BY <2>1, <1>5 DEF NoGrant, GraceInv, OneTriggerInFlight
  <2>2. ASSUME NEW v \in Threads, NEW s \in Subs, Granted(v, s) PROVE t = u
    <3>1. ASSUME NEW w \in Threads \ {v}, Holding(w)', th'[w].sub = s PROVE FALSE
      <4>1. Holding(w) /\ th[w].sub = s
        BY <2>2, <3>1, <1>v DEF Holding
      <4>2. th[v].attempts < th[w].attempts
        BY <2>2, <4>1, <1>v DEF GraceInv
      <4>3. th[w].attempts <= row[s].attempts
        BY <4>1 DEF HeldInv
      <4> QED
        BY <2>2, <4>2, <4>3, <1>v, <1>n
    <3>2. CASE t # v /\ u # v
      <4>1. Holding(t) /\ Holding(u) /\ th[t].sub = th[u].sub
        BY <2>2, <3>2, <1>v, <1>5 DEF Holding
      <4> QED
        BY <4>1 DEF GraceInv, OneTriggerInFlight
    <3> QED
      BY <2>2, <3>1, <3>2, <1>v, <1>5
  <2> QED
    BY <2>1, <2>2, Grants
<1> QED
  BY <1>1, <1>2, <1>3, <1>4, <1>5 DEF GraceInv, OneTriggerInFlight

\* Where TRIGGER_RETRY_AFTER_S outlasts the longest trigger, the reaper never
\* puts a second one beside it, whatever crashes and whoever else reads the row.
THEOREM TriggersDoNotOverlap ==
  ASSUME GraceCovers, MaxRetries = 0
  PROVE  Spec => []OneTriggerInFlight
<1>1. Init => HeldInv /\ GraceInv
  BY DEF Init, HeldInv, AttemptHeldOnce, GraceInv, OneTriggerInFlight, Holding, At, Idle
<1>2. Spec => [](TypeInv /\ HeldInv /\ GraceInv)
  BY <1>1, TypeInit, TypeStep, HeldStep, GraceStep, PTL DEF Spec
<1>3. GraceInv => OneTriggerInFlight
  BY DEF GraceInv
<1> QED
  BY <1>2, <1>3, PTL

-----------------------------------------------------------------------------
(* Grading implements GradingLedger. *)

\* The end of a submission is about the same submission, or about nothing.
LEMMA EndSub == \A l : SittingEnd(l) = Idle \/ SittingEnd(l).sub = l.sub
BY DEF SittingEnd, Idle

\* Whom a thread is at work for once the step is done.
LEMMA Subject ==
  ASSUME TypeInv, [Next]_vars, NEW u \in Threads, th'[u].pc # "idle"
  PROVE  \/ th[u].pc # "idle" /\ th'[u].sub = th[u].sub
         \/ \E s \in Subs : th'[u].sub = s /\ (Submit(u, s) \/ Retry(u, s) \/ Reap(u, s))
         \/ \E m \in callbacks : th'[u].sub = m.sub
<1>th. th[u] \in Thread /\ (th[u].pc # "idle" => th[u].sub \in Subs)
  BY DEF TypeInv, Fit
<1>1. ASSUME NEW s \in Subs, Submit(u, s) PROVE th'[u].sub = s
  <2>1. th'[u] = [Idle EXCEPT !.pc = "claim", !.by = "submit", !.sub = s,
                              !.status = "pending"]
    BY <1>1, BecomeOne DEF Submit
  <2> QED
    BY <2>1 DEF Idle
<1>2. ASSUME NEW s \in Subs, Retry(u, s) PROVE th'[u].sub = s
  <2>1. \/ th'[u] = [Idle EXCEPT !.pc = "reopen", !.by = "retry", !.sub = s]
        \/ th'[u] = Expecting("retry", s)
    BY <1>2, BecomeOne DEF Retry
  <2> QED
    BY <2>1 DEF Idle, Expecting
<1>3. ASSUME NEW s \in Subs, Reap(u, s) PROVE th'[u].sub = s
  <2>1. th'[u] \in {Expecting("reap", s), [Expecting("reap", s) EXCEPT !.pc = "giveup"]}
    BY <1>3, BecomeOne DEF Reap
  <2> QED
    BY <2>1 DEF Expecting, Idle
<1>4. ASSUME NEW m \in callbacks, Load(u, m) PROVE th'[u].sub = m.sub
  <2> DEFINE l == [Idle EXCEPT !.pc = "handle", !.by = "callback", !.sub = m.sub,
                            !.status = row[m.sub].status,
                            !.attempts = row[m.sub].attempts,
                            !.id = m.id, !.kind = m.kind, !.cost = m.cost,
                            !.base = row[m.sub].cost,
                            !.existing = result[m.sub]]
  <2>1. l.sub = m.sub
    BY DEF Idle
  <2>2. Become(u, l)
    BY <1>4 DEF Load
  <2> HIDE DEF l
  <2> QED
    BY <2>1, <2>2, BecomeOne
<1>5. CASE Continue(u) \/ Crash(u)
  <2>1. th[u].pc # "idle"
    BY <1>5 DEF Continue, Reopen, Reload, GiveUp, Claim, PostHeard, PostUnheard, PostRefused,
       Refuse, Accept, Ignore, Requeue, Land, Conflict, Bill, Count, Stamp, Deliver, Crash, At
  <2>2. CASE PostHeard(u) \/ PostUnheard(u) \/ PostRefused(u)
    BY <2>1, <2>2, PostMoves, AfterPc
  <2>3. CASE Reopen(u)
    <3>1. th'[u] = [th[u] EXCEPT !.pc = "reload"]
      BY <2>3, BecomeOne DEF Reopen
    <3> QED
      BY <2>1, <3>1, <1>th DEF Thread
  <2>4. CASE Reload(u)
    <3>1. th'[u] = Expecting("retry", th[u].sub)
      BY <2>4, BecomeOne DEF Reload
    <3> QED
      BY <2>1, <3>1 DEF Expecting, Idle
  <2>5. CASE Claim(u)
    <3>1. CASE Matches(th[u])
      BY <2>1, <2>5, <3>1, ClaimMoves
    <3>2. CASE ~ Matches(th[u])
      <4>1. th'[u] = Idle
        BY <2>5, <3>2, BecomeOne DEF Claim
      <4> QED
        BY <4>1, AfterPc
    <3> QED
      BY <3>1, <3>2
  <2>6. CASE Land(u)
    <3>1. \/ th'[u] = SittingEnd(th[u])
          \/ th'[u] = [Idle EXCEPT !.pc = "bill", !.by = "callback", !.sub = th[u].sub,
                                   !.cost = DeltaOf(th[u])]
      BY <2>6, BecomeOne DEF Land
    <3>2. [Idle EXCEPT !.pc = "bill", !.by = "callback", !.sub = th[u].sub,
                       !.cost = DeltaOf(th[u])].sub = th[u].sub
      BY DEF Idle
    <3> QED
      BY <2>1, <3>1, <3>2, EndSub, AfterPc
  <2>7. CASE Count(u) \/ Stamp(u)
    <3>1. \/ th'[u] \in {Idle, [th[u] EXCEPT !.pc = "stamp"]}
          \/ th'[u] = [th[u] EXCEPT !.pc = "deliver", !.mail = Payload]
      BY <2>7, BecomeOne DEF Count, Stamp
    <3>2. CASE th'[u] = Idle
      BY <3>2, AfterPc
    <3>3. CASE th'[u] = [th[u] EXCEPT !.pc = "stamp"]
      BY <2>1, <3>3, <1>th DEF Thread
    <3>4. CASE th'[u] = [th[u] EXCEPT !.pc = "deliver", !.mail = Payload]
      BY <2>1, <3>4, <1>th DEF Thread
    <3> QED
      BY <3>1, <3>2, <3>3, <3>4
  <2>8. CASE GiveUp(u) \/ Refuse(u) \/ Accept(u) \/ Ignore(u) \/ Requeue(u)
             \/ Conflict(u) \/ Bill(u) \/ Deliver(u) \/ Crash(u)
    <3>1. th'[u] \in {Idle, SittingEnd(th[u])}
      BY <2>8, BecomeOne DEF GiveUp, Refuse, Accept, Ignore, Requeue, Conflict, Bill, Deliver, Crash
    <3> QED
      BY <2>1, <3>1, EndSub, AfterPc
  <2> QED
    BY <1>5, <2>2, <2>3, <2>4, <2>5, <2>6, <2>7, <2>8 DEF Continue
<1>6. ASSUME NEW t \in Threads, Start(t) \/ Continue(t) \/ Crash(t), t # u
      PROVE  th'[u] = th[u]
  <2>1. CASE PostHeard(t) \/ PostUnheard(t) \/ PostRefused(t)
    BY <1>6, <2>1, PostMoves
  <2>2. CASE ~ (PostHeard(t) \/ PostUnheard(t) \/ PostRefused(t))
    <3>1. \E l : Become(t, l)
      BY <1>6, <2>2 DEF Start, Continue, Crash, Submit, Retry, Reap, Load, Reopen, Reload,
        GiveUp, Claim, Refuse, Accept, Ignore, Requeue, Land, Conflict, Bill, Count, Stamp, Deliver
    <3> QED
      BY <1>6, <3>1, BecomeOne
  <2> QED
    BY <2>1, <2>2
<1>7. CASE Environment \/ UNCHANGED vars
  BY <1>7 DEF Environment, Age, AgentFinishes, AgentLoses, CallbackGone, vars
<1> QED
  BY <1>1, <1>2, <1>3, <1>4, <1>5, <1>6, <1>7 DEF Next, Start

\* Whatever is at work, or on its way, is about a submission that was made.
MadeInv ==
  /\ \A t \in Threads : th[t].pc # "idle" => row[th[t].sub].status # "absent"
  /\ \A j \in jobs \cup callbacks : row[j.sub].status # "absent"

LEMMA MadeStep == TypeInv /\ MadeInv /\ [Next]_vars => MadeInv'
<1> SUFFICES ASSUME TypeInv, MadeInv, [Next]_vars PROVE MadeInv'
  OBVIOUS
<1>1. /\ \A j \in jobs \cup callbacks : j.sub \in Subs
      /\ \A t \in Threads : th[t].pc # "idle" => th[t].sub \in Subs
      /\ \A t \in Threads : Holding(t) => th[t].pc # "idle"
  BY DEF TypeInv, TypeOK, Job, Callback, Fit, Holding
<1>2. \A s \in Subs : row[s].status # "absent" => row'[s].status # "absent"
  BY RowGrows DEF Grown
<1>3. ASSUME NEW j \in jobs' \cup callbacks' PROVE row'[j.sub].status # "absent"
  BY <1>1, <1>2, <1>3, AgentMoves DEF MadeInv
<1>4. ASSUME NEW t \in Threads, th'[t].pc # "idle" PROVE row'[th'[t].sub].status # "absent"
  <2>1. CASE th[t].pc # "idle" /\ th'[t].sub = th[t].sub
    BY <2>1, <1>1, <1>2 DEF MadeInv
  <2>2. ASSUME NEW s \in Subs, th'[t].sub = s, Submit(t, s) \/ Retry(t, s) \/ Reap(t, s)
        PROVE  row'[th'[t].sub].status # "absent"
    <3>1. CASE Submit(t, s)
      <4>1. row' = [row EXCEPT ![s] = [row[s] EXCEPT !.status = "pending"]]
        BY <3>1 DEF Submit, Write
      <4> QED
        BY <2>2, <4>1 DEF TypeInv, TypeOK, Row
    <3>2. CASE Retry(t, s) \/ Reap(t, s)
      BY <2>2, <3>2, <1>2 DEF Retry, Reap
    <3> QED
      BY <2>2, <3>1, <3>2
  <2>3. ASSUME NEW m \in callbacks, th'[t].sub = m.sub PROVE row'[th'[t].sub].status # "absent"
    BY <2>3, <1>1, <1>2 DEF MadeInv
  <2> QED
    BY <1>4, <2>1, <2>2, <2>3, Subject
<1> QED
  BY <1>3, <1>4 DEF MadeInv

-----------------------------------------------------------------------------
(* ... the ledger's state and its steps, in Grading's terms. *)

Status == [s \in Subs |-> row[s].status]
Attempts == [s \in Subs |-> row[s].attempts]
Pair(t) == <<th[t].sub, th[t].attempts>>

LedgerStep == [Ledger!Next]_<<Status, Attempts, Open>>

LEMMA Stutters ==
  ASSUME UNCHANGED <<Status, Attempts, Open>>
  PROVE  LedgerStep
BY DEF LedgerStep

LEMMA Settles ==
  ASSUME NEW s \in Subs, NEW end \in {"pending", "done", "error"},
         row[s].status # "absent",
         Status' = [Status EXCEPT ![s] = end], UNCHANGED <<Attempts, Open>>
  PROVE  LedgerStep
<1>1. Ledger!Settle(s)
  BY DEF Ledger!Settle, Status, Attempts
<1> QED
  BY <1>1 DEF LedgerStep, Ledger!Next

LEMMA Admits ==
  ASSUME NEW s \in Subs, row[s].status = "absent",
         Status' = [Status EXCEPT ![s] = "pending"], UNCHANGED <<Attempts, Open>>
  PROVE  LedgerStep
<1>1. Ledger!Admit(s)
  BY DEF Ledger!Admit, Status, Attempts
<1> QED
  BY <1>1 DEF LedgerStep, Ledger!Next

LEMMA GrantsOne ==
  ASSUME NEW s \in Subs, row[s].status # "absent",
         Status' = [Status EXCEPT ![s] = "pending"],
         Attempts' = [Attempts EXCEPT ![s] = row[s].attempts + 1],
         Open' = Open \cup {<<s, row[s].attempts + 1>>}
  PROVE  LedgerStep
<1>1. Ledger!Grant(s)
  BY DEF Ledger!Grant, Status, Attempts
<1> QED
  BY <1>1 DEF LedgerStep, Ledger!Next

LEMMA Lapses ==
  ASSUME NEW t \in Threads, Holding(t), th[t].sub \in Subs,
         Open' = Open \ {Pair(t)}, UNCHANGED <<Status, Attempts>>
  PROVE  LedgerStep
<1>1. Pair(t) \in Open
  BY DEF Open, Pair
<1>2. Ledger!Lapse(th[t].sub, th[t].attempts)
  BY <1>1 DEF Ledger!Lapse, Status, Attempts, Pair
<1>3. th[t].attempts \in {p[2] : p \in Open}
  BY <1>1 DEF Pair
<1> QED
  BY <1>2, <1>3 DEF LedgerStep, Ledger!Next

LEMMA Answers ==
  ASSUME NEW t \in Threads, Holding(t), NEW s \in Subs, NEW n,
         th[t] \in Thread, th[t].sub = s, th[t].attempts = n, Awaits(th[t]),
         NEW answer \in {"running", "error"},
         Open' = Open \ {Pair(t)}, UNCHANGED Attempts,
         Status' = [Status EXCEPT ![s] = answer]
  PROVE  LedgerStep
<1>1. Pair(t) \in Open /\ Pair(t) = <<s, n>>
  BY DEF Open, Pair
<1>2. row[s].status = "pending" /\ row[s].attempts = n
  BY DEF Awaits, Matches, Thread
<1>3. Ledger!Answer(s, n)
  BY <1>1, <1>2 DEF Ledger!Answer, Status, Attempts
<1>4. n \in {p[2] : p \in Open}
  BY <1>1
<1>5. \E k \in {p[2] : p \in Open} : Ledger!Answer(s, k) \/ Ledger!Lapse(s, k)
  BY <1>3, <1>4
<1>6. Ledger!Next
  BY <1>5 DEF Ledger!Next
<1> QED
  BY <1>6 DEF LedgerStep

\* The attempts that are open, when one thread moves.
LEMMA OpenStays ==
  ASSUME NEW t \in Threads, \A u \in Threads \ {t} : th'[u] = th[u],
         \/ ~ Holding(t) /\ ~ Holding(t)'
         \/ Holding(t) /\ Holding(t)' /\ Pair(t)' = Pair(t)
  PROVE  Open' = Open
<1>1. \A u \in Threads : Holding(u)' <=> Holding(u)
  BY DEF Holding
<1>2. \A u \in Threads : Holding(u) => Pair(u)' = Pair(u)
  BY DEF Pair
<1>3. Open = {Pair(u) : u \in {v \in Threads : Holding(v)}}
  BY DEF Open, Pair
<1>4. Open' = {Pair(u)' : u \in {v \in Threads : Holding(v)'}}
  BY DEF Open, Pair
<1> QED
  BY <1>1, <1>2, <1>3, <1>4

LEMMA OpenShrinks ==
  ASSUME NEW t \in Threads, \A u \in Threads \ {t} : th'[u] = th[u],
         AttemptHeldOnce, Holding(t), ~ Holding(t)'
  PROVE  Open' = Open \ {Pair(t)}
<1>1. \A u \in Threads : Holding(u)' <=> Holding(u) /\ u # t
  BY DEF Holding
<1>2. \A u \in Threads \ {t} : Pair(u)' = Pair(u)
  BY DEF Pair
<1>3. \A u \in Threads \ {t} : Holding(u) => Pair(u) # Pair(t)
  BY DEF AttemptHeldOnce, Pair
<1>4. Open = {Pair(u) : u \in {v \in Threads : Holding(v)}}
  BY DEF Open, Pair
<1>5. Open' = {Pair(u)' : u \in {v \in Threads : Holding(v)'}}
  BY DEF Open, Pair
<1> QED
  BY <1>1, <1>2, <1>3, <1>4, <1>5

LEMMA OpenGains ==
  ASSUME NEW t \in Threads, \A u \in Threads \ {t} : th'[u] = th[u],
         ~ Holding(t), Holding(t)'
  PROVE  Open' = Open \cup {Pair(t)'}
<1>1. \A u \in Threads : Holding(u)' <=> Holding(u) \/ u = t
  BY DEF Holding
<1>2. \A u \in Threads \ {t} : Pair(u)' = Pair(u)
  BY DEF Pair
<1>4. Open = {Pair(u) : u \in {v \in Threads : Holding(v)}}
  BY DEF Open, Pair
<1>5. Open' = {Pair(u)' : u \in {v \in Threads : Holding(v)'}}
  BY DEF Open, Pair
<1> QED
  BY <1>1, <1>2, <1>4, <1>5

\* What writing a row does to the ledger.
LEMMA RowsStay == row' = row => UNCHANGED <<Status, Attempts>>
BY DEF Status, Attempts

LEMMA RowsMove ==
  ASSUME TypeInv, NEW s \in Subs, NEW r, r.attempts = row[s].attempts, Write(s, r)
  PROVE  Status' = [Status EXCEPT ![s] = r.status] /\ UNCHANGED Attempts
<1>1. row \in [Subs -> Row]
  BY DEF TypeInv, TypeOK
<1>2. row' = [row EXCEPT ![s] = r]
  BY DEF Write
<1>3. \A u \in Subs : row'[u] = IF u = s THEN r ELSE row[u]
  BY <1>1, <1>2
<1>4. Status' = [u \in Subs |-> row'[u].status] /\ Attempts' = [u \in Subs |-> row'[u].attempts]
  BY DEF Status, Attempts
<1> QED
  BY <1>3, <1>4 DEF Status, Attempts

-----------------------------------------------------------------------------
\* A thread that holds no attempt goes on without one; the rows stay.
LEMMA StepAside ==
  ASSUME TypeInv, NEW t \in Threads, NEW l, Become(t, l), ~ Holding(t),
         l.pc \notin {"post", "refused", "accepted"}, row' = row
  PROVE  LedgerStep
<1>1. th'[t] = l /\ \A u \in Threads \ {t} : th'[u] = th[u]
  BY BecomeOne
<1>2. ~ Holding(t)'
  BY <1>1 DEF Holding
<1> QED
  BY <1>1, <1>2, OpenStays, RowsStay, Stutters

\* A thread that holds no attempt settles a row, or leaves it.
LEMMA SettleAside ==
  ASSUME TypeInv, NEW t \in Threads, NEW l, Become(t, l), ~ Holding(t),
         l.pc \notin {"post", "refused", "accepted"},
         NEW s \in Subs, row[s].status # "absent",
         NEW r, r.attempts = row[s].attempts,
         r.status \in {"pending", "done", "error"} \/ r.status = row[s].status,
         Write(s, r) \/ UNCHANGED <<row, aged>>
  PROVE  LedgerStep
<1>1. th'[t] = l /\ \A u \in Threads \ {t} : th'[u] = th[u]
  BY BecomeOne
<1>2. ~ Holding(t)'
  BY <1>1 DEF Holding
<1>3. Open' = Open
  BY <1>1, <1>2, OpenStays
<1>4. CASE UNCHANGED <<row, aged>>
  BY <1>3, <1>4, RowsStay, Stutters
<1>5. CASE Write(s, r)
  <2>1. Status' = [Status EXCEPT ![s] = r.status] /\ UNCHANGED Attempts
    BY <1>5, RowsMove
  <2>2. CASE r.status \in {"pending", "done", "error"}
    BY <1>3, <2>1, <2>2, Settles
  <2>3. CASE r.status = row[s].status
    <3>1. Status' = Status
      BY <2>1, <2>3 DEF Status
    <3> QED
      BY <1>3, <2>1, <3>1, Stutters
  <2> QED
    BY <2>2, <2>3
<1> QED
  BY <1>4, <1>5

\* A thread lets go of the attempt it holds; the rows stay.
LEMMA LetGo ==
  ASSUME TypeInv, HeldInv, NEW t \in Threads, NEW l, Become(t, l), Holding(t),
         l.pc \notin {"post", "refused", "accepted"}, row' = row
  PROVE  LedgerStep
<1>1. th'[t] = l /\ \A u \in Threads \ {t} : th'[u] = th[u]
  BY BecomeOne
<1>2. ~ Holding(t)'
  BY <1>1 DEF Holding
<1>3. Open' = Open \ {Pair(t)}
  BY <1>1, <1>2, OpenShrinks DEF HeldInv
<1>4. th[t].sub \in Subs
  BY DEF TypeInv, Fit, Holding
<1> QED
  BY <1>3, <1>4, RowsStay, Lapses

\* A thread answers the attempt it holds, which the row still awaits.
LEMMA AnswerHeld ==
  ASSUME TypeInv, HeldInv, NEW t \in Threads, NEW l, Become(t, l), Holding(t),
         l.pc \notin {"post", "refused", "accepted"}, Awaits(th[t]),
         NEW r, r.attempts = row[th[t].sub].attempts, r.status \in {"running", "error"},
         Write(th[t].sub, r)
  PROVE  LedgerStep
<1>1. th'[t] = l /\ \A u \in Threads \ {t} : th'[u] = th[u]
  BY BecomeOne
<1>2. ~ Holding(t)'
  BY <1>1 DEF Holding
<1>3. Open' = Open \ {Pair(t)}
  BY <1>1, <1>2, OpenShrinks DEF HeldInv
<1>4. PICK s \in Subs : s = th[t].sub
  BY DEF TypeInv, Fit, Holding
<1>5. Status' = [Status EXCEPT ![s] = r.status] /\ UNCHANGED Attempts
  BY <1>4, RowsMove
<1>6. th[t] \in Thread
  BY DEF TypeInv, Fit
<1>7. PICK n : n = th[t].attempts
  OBVIOUS
<1> QED
  BY <1>3, <1>4, <1>5, <1>6, <1>7, Answers

\* Every step of the grading path is a step of the ledger, or none.
LEMMA LedgerFollows ==
  ASSUME TypeInv, HeldInv, MadeInv, [Next]_vars
  PROVE  LedgerStep
<1>row. \A s \in Subs : row[s] \in Row
  BY DEF TypeInv, TypeOK
<1>th. \A t \in Threads : ~ At(t, "idle") => th[t] \in Thread /\ th[t].sub \in Subs
                                             /\ row[th[t].sub].status # "absent"
  BY DEF TypeInv, Fit, At, MadeInv
<1>1. ASSUME NEW t \in Threads, NEW s \in Subs, Submit(t, s) PROVE LedgerStep
  <2> DEFINE l == [Idle EXCEPT !.pc = "claim", !.by = "submit", !.sub = s,
                            !.status = "pending"]
             r == [row[s] EXCEPT !.status = "pending"]
  <2>1. l.pc = "claim"
    BY DEF Idle
  <2>2. r.attempts = row[s].attempts /\ r.status = "pending"
    BY <1>row DEF Row
  <2>3. Become(t, l) /\ Write(s, r) /\ ~ Holding(t) /\ row[s].status = "absent"
    BY <1>1 DEF Submit, Holding, At
  <2> HIDE DEF l, r
  <2>4. th'[t] = l /\ \A u \in Threads \ {t} : th'[u] = th[u]
    BY <2>3, BecomeOne
  <2>5. Open' = Open
    BY <2>1, <2>3, <2>4, OpenStays DEF Holding
  <2> QED
    BY <2>2, <2>3, <2>5, RowsMove, Admits
<1>2. ASSUME NEW t \in Threads, NEW s \in Subs, Retry(t, s) \/ Reap(t, s) PROVE LedgerStep
  <2>1. [Idle EXCEPT !.pc = "reopen", !.by = "retry", !.sub = s].pc = "reopen"
    BY DEF Idle
  <2>2. [Expecting("reap", s) EXCEPT !.pc = "giveup"].pc = "giveup"
    BY DEF Expecting, Idle
  <2>3. row' = row /\ ~ Holding(t)
    BY <1>2 DEF Retry, Reap, db, Holding, At
  <2>4. \E l : Become(t, l) /\ l.pc \in {"reopen", "claim", "giveup"}
    BY <1>2, <2>1, <2>2, AfterPc, ZenonT(30) DEF Retry, Reap
  <2> QED
    BY <2>3, <2>4, StepAside
<1>3. ASSUME NEW t \in Threads, NEW m \in callbacks, Load(t, m) PROVE LedgerStep
  <2> DEFINE l == [Idle EXCEPT !.pc = "handle", !.by = "callback", !.sub = m.sub,
                            !.status = row[m.sub].status,
                            !.attempts = row[m.sub].attempts,
                            !.id = m.id, !.kind = m.kind, !.cost = m.cost,
                            !.base = row[m.sub].cost,
                            !.existing = result[m.sub]]
  <2>1. l.pc = "handle"
    BY DEF Idle
  <2>2. Become(t, l) /\ row' = row /\ ~ Holding(t)
    BY <1>3 DEF Load, db, Holding, At
  <2> HIDE DEF l
  <2> QED
    BY <2>1, <2>2, StepAside
<1>4. ASSUME NEW t \in Threads, Reopen(t) \/ Reload(t) \/ Ignore(t) \/ Conflict(t) \/ Bill(t)
                                \/ Count(t) \/ Stamp(t) \/ Deliver(t)
      PROVE  LedgerStep
  <2>0. th[t] \in Thread
    BY <1>4, <1>th DEF Reopen, Reload, Ignore, Conflict, Bill, Count, Stamp, Deliver, At
  <2>1. [th[t] EXCEPT !.pc = "reload"].pc = "reload"
    BY <2>0 DEF Thread
  <2>2. [th[t] EXCEPT !.pc = "stamp"].pc = "stamp"
    BY <2>0 DEF Thread
  <2>3. [th[t] EXCEPT !.pc = "deliver", !.mail = Payload].pc = "deliver"
    BY <2>0 DEF Thread
  <2>4. row' = row /\ ~ Holding(t)
    BY <1>4 DEF Reopen, Reload, Ignore, Conflict, Bill, Count, Stamp, Deliver, At, Holding, db
  <2>5. \E l : Become(t, l) /\ l.pc \notin {"post", "refused", "accepted"}
    BY <1>4, <2>1, <2>2, <2>3, AfterPc
       DEF Reopen, Reload, Ignore, Conflict, Bill, Count, Stamp, Deliver
  <2> QED
    BY <2>4, <2>5, StepAside
<1>5. ASSUME NEW t \in Threads, GiveUp(t) PROVE LedgerStep
  <2> DEFINE r == [row[th[t].sub] EXCEPT !.status = "error"]
  <2>1. th[t].sub \in Subs /\ row[th[t].sub].status # "absent" /\ ~ Holding(t)
    BY <1>5, <1>th DEF GiveUp, At, Holding
  <2>2. r.attempts = row[th[t].sub].attempts /\ r.status = "error"
    BY <2>1, <1>row DEF Row
  <2>3. /\ Write(th[t].sub, r) \/ UNCHANGED <<row, aged>>
        /\ Become(t, Idle) \/ Become(t, SittingEnd(th[t]))
    BY <1>5 DEF GiveUp
  <2> HIDE DEF r
  <2> QED
    BY <2>1, <2>2, <2>3, AfterPc, SettleAside
<1>6. ASSUME NEW t \in Threads, Claim(t) PROVE LedgerStep
  <2>0. th[t].sub \in Subs /\ row[th[t].sub].status # "absent" /\ ~ Holding(t)
    BY <1>6, <1>th DEF Claim, At, Holding
  <2>1. CASE ~ Matches(th[t])
    BY <1>6, <2>0, <2>1, AfterPc, StepAside DEF Claim
  <2>2. CASE Matches(th[t])
    <3>1. PICK s \in Subs : s = th[t].sub
      BY <2>0
    <3> DEFINE r == [row[s] EXCEPT !.status = "pending", !.job = OwnId,
                                   !.attempts = th[t].attempts + 1]
    <3>2. r.status = "pending" /\ r.attempts = row[s].attempts + 1
      <4>1. row[s].attempts = th[t].attempts /\ row[s] \in Row
        BY <1>6, <2>2, <3>1, <1>row, ClaimMoves
      <4> QED
        BY <4>1 DEF Row
    <3>3. row' = [row EXCEPT ![s] = r]
      BY <1>6, <2>2, <3>1, ClaimMoves
    <3> HIDE DEF r
    <3>4. \A u \in Subs : row'[u] = IF u = s THEN r ELSE row[u]
      BY <3>3 DEF TypeInv, TypeOK
    <3>5. /\ Status' = [u \in Subs |-> row'[u].status]
          /\ Attempts' = [u \in Subs |-> row'[u].attempts]
      BY DEF Status, Attempts
    <3>6. /\ Status' = [Status EXCEPT ![s] = "pending"]
          /\ Attempts' = [Attempts EXCEPT ![s] = row[s].attempts + 1]
      BY <3>2, <3>4, <3>5 DEF Status, Attempts
    <3>7. /\ Holding(t)' /\ Pair(t)' = <<s, row[s].attempts + 1>>
          /\ \A u \in Threads \ {t} : th'[u] = th[u]
      BY <1>6, <2>2, <3>1, ClaimMoves DEF Holding, Pair
    <3>8. Open' = Open \cup {<<s, row[s].attempts + 1>>}
      BY <2>0, <3>7, OpenGains
    <3> QED
      BY <2>0, <3>1, <3>6, <3>8, GrantsOne
  <2> QED
    BY <2>1, <2>2
<1>7. ASSUME NEW t \in Threads, PostHeard(t) \/ PostUnheard(t) \/ PostRefused(t)
      PROVE  LedgerStep
  <2>1. /\ Holding(t) /\ row' = row
        /\ \A u \in Threads \ {t} : th'[u] = th[u]
    BY <1>7, PostMoves
  <2>2. CASE th'[t] = Idle
    <3>1. ~ Holding(t)'
      BY <2>2, AfterPc DEF Holding
    <3>2. Open' = Open \ {Pair(t)}
      BY <2>1, <3>1, OpenShrinks DEF HeldInv
    <3>3. th[t].sub \in Subs
      BY <2>1, <1>th DEF Holding, At
    <3> QED
      BY <2>1, <3>2, <3>3, RowsStay, Lapses
  <2>3. CASE th'[t] # Idle
    <3>1. Holding(t)' /\ Pair(t)' = Pair(t)
      BY <1>7, <2>3, PostMoves DEF Pair
    <3> QED
      BY <2>1, <3>1, OpenStays, RowsStay, Stutters
  <2> QED
    BY <2>2, <2>3
<1>8. ASSUME NEW t \in Threads, Refuse(t) PROVE LedgerStep
  <2> DEFINE r == [row[th[t].sub] EXCEPT !.status = "error"]
  <2>1. th[t].sub \in Subs /\ Holding(t)
    BY <1>8, <1>th DEF Refuse, At, Holding
  <2>2. r.attempts = row[th[t].sub].attempts /\ r.status = "error"
    BY <2>1, <1>row DEF Row
  <2>3. CASE Awaits(th[t])
    <3>1. Write(th[t].sub, r) /\ Become(t, SittingEnd(th[t]))
      BY <1>8, <2>3 DEF Refuse
    <3> HIDE DEF r
    <3> QED
      BY <2>1, <2>2, <2>3, <3>1, AfterPc, AnswerHeld
  <2>4. CASE ~ Awaits(th[t])
    BY <1>8, <2>1, <2>4, AfterPc, LetGo DEF Refuse
  <2> QED
    BY <2>3, <2>4
<1>9. ASSUME NEW t \in Threads, Accept(t) PROVE LedgerStep
  <2> DEFINE r == [row[th[t].sub] EXCEPT !.status = "running", !.job = th[t].id]
  <2>1. th[t].sub \in Subs /\ Holding(t)
    BY <1>9, <1>th DEF Accept, At, Holding
  <2>2. r.attempts = row[th[t].sub].attempts /\ r.status = "running"
    BY <2>1, <1>row DEF Row
  <2>3. CASE Awaits(th[t])
    <3>1. Write(th[t].sub, r) /\ Become(t, Idle)
      BY <1>9, <2>3 DEF Accept
    <3> HIDE DEF r
    <3> QED
      BY <2>1, <2>2, <2>3, <3>1, AfterPc, AnswerHeld
  <2>4. CASE ~ Awaits(th[t])
    BY <1>9, <2>1, <2>4, AfterPc, LetGo DEF Accept
  <2> QED
    BY <2>3, <2>4
<1>10. ASSUME NEW t \in Threads, Requeue(t) PROVE LedgerStep
  <2> DEFINE r == [row[th[t].sub] EXCEPT !.status = "pending"]
  <2>1. th[t].sub \in Subs /\ row[th[t].sub].status # "absent" /\ ~ Holding(t)
    BY <1>10, <1>th DEF Requeue, At, Holding
  <2>2. r.attempts = row[th[t].sub].attempts /\ r.status = "pending"
    BY <2>1, <1>row DEF Row
  <2>3. /\ Write(th[t].sub, r) \/ UNCHANGED <<row, aged>>
        /\ Become(t, Idle)
    BY <1>10 DEF Requeue
  <2> HIDE DEF r
  <2> QED
    BY <2>1, <2>2, <2>3, AfterPc, SettleAside
<1>11. ASSUME NEW t \in Threads, Land(t) PROVE LedgerStep
  <2> DEFINE l == th[t]
             r == row[l.sub]
             settled == [r EXCEPT
               !.status = IF l.status = Outcome(l.kind) THEN @ ELSE Outcome(l.kind),
               !.cost = IF CostOf(l) = l.base THEN @ ELSE CostOf(l)]
             after == IF DeltaOf(l) # 0
                      THEN [Idle EXCEPT !.pc = "bill", !.by = "callback",
                                        !.sub = l.sub, !.cost = DeltaOf(l)]
                      ELSE SittingEnd(l)
  <2>1. l.sub \in Subs /\ r.status # "absent" /\ ~ Holding(t) /\ r \in Row
    BY <1>11, <1>th, <1>row DEF Land, At, Holding
  <2>2. settled.attempts = r.attempts
    BY <2>1 DEF Row
  <2>3. settled.status \in {"done", "error"} \/ settled.status = r.status
    BY <2>1 DEF Row, Outcome
  <2>4. after.pc \in {"bill", "count", "idle"}
    <3>1. [Idle EXCEPT !.pc = "bill", !.by = "callback",
                       !.sub = l.sub, !.cost = DeltaOf(l)].pc = "bill"
      BY DEF Idle
    <3> QED
      BY <3>1, AfterPc
  <2>5. /\ Become(t, after)
        /\ Write(l.sub, settled) \/ UNCHANGED <<row, aged>>
    BY <1>11 DEF Land
  <2> HIDE DEF settled, after
  <2> QED
    BY <2>1, <2>2, <2>3, <2>4, <2>5, SettleAside
<1>12. ASSUME NEW t \in Threads, Crash(t) PROVE LedgerStep
  <2>1. Become(t, Idle) /\ row' = row
    BY <1>12 DEF Crash, db
  <2> QED
    BY <2>1, AfterPc, StepAside, LetGo
<1>13. CASE Environment \/ UNCHANGED vars
  <2>1. row' = row /\ th' = th
    BY <1>13 DEF Environment, Age, AgentFinishes, AgentLoses, CallbackGone, db, vars
  <2>2. Open' = Open
    BY <2>1 DEF Open, Holding
  <2> QED
    BY <2>1, <2>2, RowsStay, Stutters
<1> QED
  BY <1>1, <1>2, <1>3, <1>4, <1>5, <1>6, <1>7, <1>8, <1>9, <1>10, <1>11, <1>12, <1>13
     DEF Next, Start, Continue

LEMMA LedgerStarts == Init => Ledger!Init
<1> SUFFICES ASSUME Init PROVE Ledger!Init
  OBVIOUS
<1>1. \A t \in Threads : ~ Holding(t)
  BY AfterPc DEF Init, Holding
<1>2. Open = {}
  BY <1>1 DEF Open
<1>3. \A s \in Subs : row[s].status = "absent" /\ row[s].attempts = 0
  BY DEF Init
<1> QED
  BY <1>2, <1>3 DEF Ledger!Init

\* However its handlers interleave, the grading path keeps the ledger: an
\* attempt is granted once, and only its own answer, a callback, the reaper or
\* a retry moves a submission (api._cas, _trigger_agent, assessments_callback).
THEOREM GradingKeepsTheLedger == Spec => ImplementsLedger
<1>1. Init => MadeInv
  BY AfterPc DEF Init, MadeInv
<1>2. Init => HeldInv
  BY AfterPc DEF Init, HeldInv, AttemptHeldOnce, Holding
<1>3. Spec => [](TypeInv /\ HeldInv /\ MadeInv)
  BY <1>1, <1>2, TypeInit, TypeStep, HeldStep, MadeStep, PTL DEF Spec
<1>4. TypeInv /\ HeldInv /\ MadeInv /\ [Next]_vars
      => [Ledger!Next]_<<[s \in Subs |-> row[s].status],
                         [s \in Subs |-> row[s].attempts], Open>>
  BY LedgerFollows DEF LedgerStep, Status, Attempts
<1> QED
  BY <1>3, <1>4, LedgerStarts, PTL DEF Spec, ImplementsLedger, Ledger!Spec

-----------------------------------------------------------------------------
(* Billing. *)

\* What a thread is about to add to the organisation's total.
Due(l) == IF l.pc = "bill" THEN l.cost ELSE 0

CostsOnRows == [s \in Subs |-> row[s].cost]
Added       == [t \in Threads |-> Due(th[t])]
Withdrawn   == [t \in Threads |-> - Due(th[t])]

\* What the rows report is what was billed and what is about to be, and a
\* handler that brings a cost still has the cost of its row before it.
BillInv ==
  crashes = 0 =>
    /\ IsFiniteSet(UnitsOf(CostsOnRows))
    /\ IsFiniteSet(UnitsOf(Added))
    /\ IsFiniteSet(UnitsOf(Withdrawn))
    /\ billed + Cardinality(UnitsOf(Added)) - Cardinality(UnitsOf(Withdrawn))
         = Cardinality(UnitsOf(CostsOnRows))
    /\ \A t \in Threads : At(t, "handle") /\ th[t].cost # 0
                            => th[t].base = row[th[t].sub].cost

Positive(n) == IF n > 0 THEN n ELSE 0

LEMMA UnitCount ==
  ASSUME NEW x, NEW n \in Int
  PROVE  IsFiniteSet({x} \X (1 .. n)) /\ Cardinality({x} \X (1 .. n)) = Positive(n)
<1>1. CASE n > 0
  <2>1. IsFiniteSet(1 .. n) /\ Cardinality(1 .. n) = n
    <3>1. /\ IsFiniteSet(1 .. n)
          /\ Cardinality(1 .. n) = IF 1 > n THEN 0 ELSE n - 1 + 1
      <4>1. 1 \in Int /\ n \in Int
        BY <1>1
      <4> QED
        BY <4>1, FS_Interval, ZenonT(30)
    <3>2. (IF 1 > n THEN 0 ELSE n - 1 + 1) = n
      BY <1>1
    <3> QED
      BY <3>1, <3>2
  <2>2. IsFiniteSet({x}) /\ Cardinality({x}) = 1
    BY FS_Singleton
  <2>3. IsFiniteSet({x} \X (1 .. n)) /\ Cardinality({x} \X (1 .. n)) = 1 * n
    <3>1. /\ IsFiniteSet({x} \X (1 .. n))
          /\ Cardinality({x} \X (1 .. n)) = Cardinality({x}) * Cardinality(1 .. n)
      BY <2>1, <2>2, FS_Product, ZenonT(30)
    <3> QED
      BY <2>1, <2>2, <3>1, ZenonT(30)
  <2> QED
    BY <1>1, <2>3 DEF Positive
<1>2. CASE ~ n > 0
  <2>1. {x} \X (1 .. n) = {}
    BY <1>2
  <2> QED
    BY <1>2, <2>1, FS_EmptySet DEF Positive
<1> QED
  BY <1>1, <1>2

\* When one number of a finite family changes, the units change by as much.
LEMMA UnitsMove ==
  ASSUME NEW S, NEW f \in [S -> Int], NEW g \in [S -> Int], NEW x \in S,
         \A y \in S \ {x} : g[y] = f[y],
         IsFiniteSet(UnitsOf(f))
  PROVE  /\ IsFiniteSet(UnitsOf(g))
         /\ Cardinality(UnitsOf(f)) \in Nat /\ Cardinality(UnitsOf(g)) \in Nat
         /\ Cardinality(UnitsOf(g)) =
              Cardinality(UnitsOf(f)) - Positive(f[x]) + Positive(g[x])
<1> DEFINE P == {x} \X (1 .. f[x])
           Q == {x} \X (1 .. g[x])
           Rest == UNION {{y} \X (1 .. f[y]) : y \in S \ {x}}
<1>1. f[x] \in Int /\ g[x] \in Int /\ Positive(f[x]) \in Nat /\ Positive(g[x]) \in Nat
  BY DEF Positive
<1>2. UnitsOf(f) = UNION {{y} \X (1 .. f[y]) : y \in S}
  BY DEF UnitsOf
<1>3. UnitsOf(g) = UNION {{y} \X (1 .. g[y]) : y \in S}
  BY DEF UnitsOf
<1>4. Rest \cap P = {} /\ Rest \cap Q = {}
  OBVIOUS
<1>5. UnitsOf(f) = Rest \cup P
  BY <1>2
<1>6. Rest = UNION {{y} \X (1 .. g[y]) : y \in S \ {x}}
  OBVIOUS
<1>7. UnitsOf(g) = Rest \cup Q
  BY <1>3, <1>6
<1>8. /\ IsFiniteSet(P) /\ Cardinality(P) = Positive(f[x])
      /\ IsFiniteSet(Q) /\ Cardinality(Q) = Positive(g[x])
  BY <1>1, UnitCount
<1> HIDE DEF P, Q, Rest
<1>9. IsFiniteSet(Rest)
  BY <1>5, FS_Subset
<1>10. /\ Cardinality(UnitsOf(f)) = Cardinality(Rest) + Cardinality(P) - Cardinality({})
       /\ Cardinality(UnitsOf(g)) = Cardinality(Rest) + Cardinality(Q) - Cardinality({})
  BY <1>4, <1>5, <1>7, <1>8, <1>9, FS_Union
<1>11. IsFiniteSet(UnitsOf(g))
  BY <1>7, <1>8, <1>9, FS_Union
<1>12. Cardinality(Rest) \in Nat /\ Cardinality({}) = 0
  BY <1>9, FS_CardinalityType, FS_EmptySet
<1> QED
  BY <1>1, <1>8, <1>10, <1>11, <1>12

LEMMA NoUnits ==
  ASSUME NEW S
  PROVE  LET f == [x \in S |-> 0]
         IN  IsFiniteSet(UnitsOf(f)) /\ Cardinality(UnitsOf(f)) = 0
<1> DEFINE f == [x \in S |-> 0]
<1>1. UnitsOf(f) = {}
  BY DEF UnitsOf
<1> QED
  BY <1>1, FS_EmptySet


\* Nothing is billed, priced or about to be billed, and no row is loaded.
Unbilled ==
  /\ billed' = billed
  /\ \A s \in Subs : row'[s].cost = row[s].cost
  /\ \A u \in Threads : /\ Due(th'[u]) = Due(th[u])
                        /\ th'[u].pc = "handle" => th'[u] = th[u]

LEMMA PassesUnbilled ==
  ASSUME TypeInv, NEW t \in Threads, NEW l, Become(t, l), ~ At(t, "bill"),
         l.pc \notin {"bill", "handle"}, billed' = billed,
         \A s \in Subs : row'[s].cost = row[s].cost
  PROVE  Unbilled
BY BecomeOne DEF Unbilled, Due, At

\* A write that keeps the row's cost.
LEMMA CostStays ==
  ASSUME TypeInv, NEW s \in Subs, NEW r, r.cost = row[s].cost,
         Write(s, r) \/ UNCHANGED <<row, aged>>
  PROVE  \A u \in Subs : row'[u].cost = row[u].cost
BY DEF TypeInv, TypeOK, Write

LEMMA Bills ==
  ASSUME TypeInv, [Next]_vars, crashes' = 0
  PROVE  \/ Unbilled
         \/ \E t \in Threads : Land(t) \/ Bill(t) \/ \E m \in callbacks : Load(t, m)
<1> DEFINE SameCost == \A s \in Subs : row'[s].cost = row[s].cost
<1>row. \A s \in Subs : row[s] \in Row
  BY DEF TypeInv, TypeOK
<1>th. \A t \in Threads : ~ At(t, "idle") => th[t] \in Thread /\ th[t].sub \in Subs
  BY DEF TypeInv, Fit, At
<1>same. row' = row => SameCost
  OBVIOUS
<1>1. ASSUME NEW t \in Threads, NEW s \in Subs, Submit(t, s) \/ Retry(t, s) \/ Reap(t, s)
      PROVE  Unbilled
  <2>1. CASE Submit(t, s)
    <3>1. [row[s] EXCEPT !.status = "pending"].cost = row[s].cost
      BY <1>row DEF Row
    <3>2. [Idle EXCEPT !.pc = "claim", !.by = "submit", !.sub = s,
                       !.status = "pending"].pc = "claim"
      BY DEF Idle
    <3>3. SameCost
      BY <2>1, <3>1, CostStays DEF Submit
    <3> QED
      BY <2>1, <3>2, <3>3, PassesUnbilled DEF Submit, At
  <2>2. CASE Retry(t, s)
    <3>1. [Idle EXCEPT !.pc = "reopen", !.by = "retry", !.sub = s].pc = "reopen"
      BY DEF Idle
    <3>2. PICK l \in {[Idle EXCEPT !.pc = "reopen", !.by = "retry", !.sub = s],
                      Expecting("retry", s)} : Become(t, l)
      BY <2>2 DEF Retry
    <3> QED
      BY <2>2, <3>1, <3>2, <1>same, AfterPc, PassesUnbilled DEF Retry, At, db
  <2>3. CASE Reap(t, s)
    <3>1. [Expecting("reap", s) EXCEPT !.pc = "giveup"].pc = "giveup"
      BY DEF Expecting, Idle
    <3>2. PICK l \in {[Expecting("reap", s) EXCEPT !.pc = "giveup"],
                      Expecting("reap", s)} : Become(t, l)
      BY <2>3 DEF Reap
    <3> QED
      BY <2>3, <3>1, <3>2, <1>same, AfterPc, PassesUnbilled DEF Reap, At, db
  <2> QED
    BY <1>1, <2>1, <2>2, <2>3
<1>2. ASSUME NEW t \in Threads, Reopen(t) \/ Reload(t) PROVE Unbilled
  <2>1. CASE Reopen(t)
    <3>1. [th[t] EXCEPT !.pc = "reload"].pc = "reload"
      BY <2>1, <1>th DEF Reopen, At, Thread
    <3> QED
      BY <2>1, <3>1, <1>same, PassesUnbilled DEF Reopen, At
  <2>2. CASE Reload(t)
    BY <2>2, <1>same, AfterPc, PassesUnbilled DEF Reload, At, db
  <2> QED
    BY <1>2, <2>1, <2>2
<1>3. ASSUME NEW t \in Threads, GiveUp(t) \/ Refuse(t) PROVE Unbilled
  <2> DEFINE r == [row[th[t].sub] EXCEPT !.status = "error"]
  <2>1. th[t].sub \in Subs /\ row[th[t].sub] \in Row
    BY <1>3, <1>th, <1>row DEF GiveUp, Refuse, At
  <2>2. r.cost = row[th[t].sub].cost
    BY <2>1 DEF Row
  <2>3. Write(th[t].sub, r) \/ UNCHANGED <<row, aged>>
    BY <1>3 DEF GiveUp, Refuse
  <2> HIDE DEF r
  <2>4. SameCost
    BY <2>1, <2>2, <2>3, CostStays
  <2>5. PICK l \in {Idle, SittingEnd(th[t])} : Become(t, l)
    BY <1>3 DEF GiveUp, Refuse
  <2> QED
    BY <1>3, <2>4, <2>5, AfterPc, PassesUnbilled DEF GiveUp, Refuse, At
<1>4. ASSUME NEW t \in Threads, Claim(t) PROVE Unbilled
  <2> DEFINE r == [row[th[t].sub] EXCEPT !.status = "pending", !.job = OwnId,
                                         !.attempts = th[t].attempts + 1]
             p == [Idle EXCEPT !.pc = "post", !.by = th[t].by, !.sub = th[t].sub,
                               !.attempts = th[t].attempts + 1]
  <2>1. th[t].sub \in Subs /\ row[th[t].sub] \in Row
    BY <1>4, <1>th, <1>row DEF Claim, At
  <2>2. r.cost = row[th[t].sub].cost
    BY <2>1 DEF Row
  <2>3. Write(th[t].sub, r) \/ UNCHANGED <<row, aged>>
    BY <1>4 DEF Claim
  <2>4. p.pc = "post"
    BY DEF Idle
  <2>5. PICK l \in {Idle, p} : Become(t, l)
    BY <1>4 DEF Claim
  <2> HIDE DEF r, p
  <2>6. SameCost
    BY <2>1, <2>2, <2>3, CostStays
  <2> QED
    BY <1>4, <2>4, <2>5, <2>6, AfterPc, PassesUnbilled DEF Claim, At
<1>5. ASSUME NEW t \in Threads, PostHeard(t) \/ PostUnheard(t) \/ PostRefused(t)
      PROVE  Unbilled
  <2>1. th[t] \in Thread /\ th[t].pc = "post"
    BY <1>5, <1>th DEF PostHeard, PostUnheard, PostRefused, At
  <2>2. NextTry(th[t]).pc \in {"post", "idle"}
    BY <2>1 DEF NextTry, Thread, Idle
  <2>3. /\ [th[t] EXCEPT !.pc = "refused"].pc = "refused"
        /\ \A id \in JobIds : [th[t] EXCEPT !.pc = "accepted", !.id = id].pc = "accepted"
    BY <2>1 DEF Thread
  <2>4. \E l : Become(t, l) /\ l.pc \in {"post", "idle", "refused", "accepted"}
    <3>1. CASE PostHeard(t)
      <4>1. PICK id \in AgentIds :
              \/ Become(t, [th[t] EXCEPT !.pc = "accepted", !.id = id])
              \/ Become(t, NextTry(th[t]))
        BY <3>1 DEF PostHeard
      <4>2. id \in JobIds
        BY DEF AgentIds, JobIds
      <4> QED
        BY <4>1, <4>2, <2>2, <2>3
    <3>2. CASE PostUnheard(t)
      BY <3>2, <2>2 DEF PostUnheard
    <3>3. CASE PostRefused(t)
      BY <3>3, <2>3 DEF PostRefused
    <3> QED
      BY <1>5, <3>1, <3>2, <3>3
  <2> QED
    BY <1>5, <2>1, <2>4, <1>same, PassesUnbilled DEF PostHeard, PostUnheard, PostRefused, At, db
<1>6. ASSUME NEW t \in Threads, Accept(t) PROVE Unbilled
  <2> DEFINE r == [row[th[t].sub] EXCEPT !.status = "running", !.job = th[t].id]
  <2>1. th[t].sub \in Subs /\ row[th[t].sub] \in Row
    BY <1>6, <1>th, <1>row DEF Accept, At
  <2>2. r.cost = row[th[t].sub].cost
    BY <2>1 DEF Row
  <2>3. Write(th[t].sub, r) \/ UNCHANGED <<row, aged>>
    BY <1>6 DEF Accept
  <2> HIDE DEF r
  <2>4. SameCost
    BY <2>1, <2>2, <2>3, CostStays
  <2> QED
    BY <1>6, <2>4, AfterPc, PassesUnbilled DEF Accept, At
<1>7. ASSUME NEW t \in Threads, Requeue(t) PROVE Unbilled
  <2> DEFINE r == [row[th[t].sub] EXCEPT !.status = "pending"]
  <2>1. th[t].sub \in Subs /\ row[th[t].sub] \in Row
    BY <1>7, <1>th, <1>row DEF Requeue, At
  <2>2. r.cost = row[th[t].sub].cost
    BY <2>1 DEF Row
  <2>3. Write(th[t].sub, r) \/ UNCHANGED <<row, aged>>
    BY <1>7 DEF Requeue
  <2> HIDE DEF r
  <2>4. SameCost
    BY <2>1, <2>2, <2>3, CostStays
  <2> QED
    BY <1>7, <2>4, AfterPc, PassesUnbilled DEF Requeue, At
<1>8. ASSUME NEW t \in Threads, Ignore(t) \/ Conflict(t) \/ Deliver(t) PROVE Unbilled
  BY <1>8, <1>same, AfterPc, PassesUnbilled DEF Ignore, Conflict, Deliver, At, db
<1>9. ASSUME NEW t \in Threads, Count(t) \/ Stamp(t) PROVE Unbilled
  <2>1. th[t] \in Thread
    BY <1>9, <1>th DEF Count, Stamp, At
  <2>2. \E l : Become(t, l) /\ l.pc \in {"idle", "stamp", "deliver"}
    <3>1. /\ [th[t] EXCEPT !.pc = "stamp"].pc = "stamp"
          /\ [th[t] EXCEPT !.pc = "deliver", !.mail = Payload].pc = "deliver"
      BY <2>1 DEF Thread
    <3> QED
      BY <1>9, <3>1, AfterPc DEF Count, Stamp
  <2> QED
    BY <1>9, <2>2, <1>same, PassesUnbilled DEF Count, Stamp, At, db
<1>10. ASSUME NEW t \in Threads, Crash(t) PROVE FALSE
  BY <1>10 DEF Crash, TypeInv, TypeOK
<1>11. CASE Environment \/ UNCHANGED vars
  <2>1. UNCHANGED <<row, billed, th>>
    BY <1>11 DEF Environment, Age, AgentFinishes, AgentLoses, CallbackGone, vars, db
  <2> QED
    BY <2>1 DEF Unbilled
<1> QED
  BY <1>1, <1>2, <1>3, <1>4, <1>5, <1>6, <1>7, <1>8, <1>9, <1>10, <1>11
  DEF Next, Start, Continue


LEMMA BillTypes ==
  ASSUME TypeInv
  PROVE  /\ CostsOnRows \in [Subs -> Int]
         /\ Added \in [Threads -> Int] /\ Withdrawn \in [Threads -> Int]
         /\ billed \in Int /\ crashes \in Nat
         /\ \A s \in Subs : row[s].cost \in Nat
         /\ \A t \in Threads : Due(th[t]) \in Int
<1>1. \A s \in Subs : row[s].cost \in Nat
  BY DEF TypeInv, TypeOK, Row
<1>2. \A t \in Threads : Due(th[t]) \in Int
  BY DEF TypeInv, TypeOK, Thread, Due
<1> QED
  BY <1>1, <1>2 DEF TypeInv, TypeOK, CostsOnRows, Added, Withdrawn

LEMMA BillInit == Init => BillInv
<1> SUFFICES ASSUME Init PROVE BillInv
  OBVIOUS
<1>1. CostsOnRows = [s \in Subs |-> 0]
  BY DEF Init, CostsOnRows
<1>2. \A t \in Threads : th[t] = Idle
  BY DEF Init
<1>3. \A t \in Threads : Due(th[t]) = 0
  BY <1>2 DEF Due, Idle
<1>4. Added = [t \in Threads |-> 0] /\ Withdrawn = [t \in Threads |-> 0]
  BY <1>3 DEF Added, Withdrawn
<1>5. /\ IsFiniteSet(UnitsOf(CostsOnRows)) /\ Cardinality(UnitsOf(CostsOnRows)) = 0
      /\ IsFiniteSet(UnitsOf(Added)) /\ Cardinality(UnitsOf(Added)) = 0
      /\ IsFiniteSet(UnitsOf(Withdrawn)) /\ Cardinality(UnitsOf(Withdrawn)) = 0
  BY <1>1, <1>4, NoUnits
<1>6. \A t \in Threads : ~ At(t, "handle")
  BY <1>2, AfterPc DEF At
<1>7. billed = 0
  BY DEF Init
<1> QED
  BY <1>5, <1>6, <1>7 DEF BillInv

\* What a thread still has to bill changes: the difference between what is to be
\* added and what is to be withdrawn changes by as much.
LEMMA DueMoves ==
  ASSUME TypeInv, TypeInv', NEW t \in Threads,
         \A u \in Threads \ {t} : Due(th'[u]) = Due(th[u]),
         IsFiniteSet(UnitsOf(Added)), IsFiniteSet(UnitsOf(Withdrawn))
  PROVE  /\ IsFiniteSet(UnitsOf(Added')) /\ IsFiniteSet(UnitsOf(Withdrawn'))
         /\ Cardinality(UnitsOf(Added)) \in Int /\ Cardinality(UnitsOf(Added')) \in Int
         /\ Cardinality(UnitsOf(Withdrawn)) \in Int
         /\ Cardinality(UnitsOf(Withdrawn')) \in Int
         /\ Cardinality(UnitsOf(Added')) - Cardinality(UnitsOf(Withdrawn'))
              = Cardinality(UnitsOf(Added)) - Cardinality(UnitsOf(Withdrawn))
                  - Due(th[t]) + Due(th'[t])
<1>1. /\ \A u \in Threads : Due(th[u]) \in Int /\ Due(th'[u]) \in Int
      /\ Added \in [Threads -> Int] /\ Withdrawn \in [Threads -> Int]
  BY BillTypes DEF TypeInv, TypeOK, Thread, Due
<1>2. /\ Added' = [u \in Threads |-> Due(th'[u])]
      /\ Withdrawn' = [u \in Threads |-> - Due(th'[u])]
  BY DEF Added, Withdrawn, Due
<1>3. /\ Added' \in [Threads -> Int] /\ Withdrawn' \in [Threads -> Int]
      /\ Added[t] = Due(th[t]) /\ Added'[t] = Due(th'[t])
      /\ Withdrawn[t] = - Due(th[t]) /\ Withdrawn'[t] = - Due(th'[t])
      /\ \A u \in Threads \ {t} : Added'[u] = Added[u] /\ Withdrawn'[u] = Withdrawn[u]
  BY <1>1, <1>2 DEF Added, Withdrawn
<1>f. \A u \in Threads \ {t} : Added'[u] = Added[u]
  BY <1>3
<1>g. Added \in [Threads -> Int] /\ Added' \in [Threads -> Int]
  BY <1>1, <1>3
<1>4. /\ IsFiniteSet(UnitsOf(Added'))
      /\ Cardinality(UnitsOf(Added)) \in Nat /\ Cardinality(UnitsOf(Added')) \in Nat
      /\ Cardinality(UnitsOf(Added')) = Cardinality(UnitsOf(Added))
           - Positive(Added[t]) + Positive(Added'[t])
  BY <1>f, <1>g, UnitsMove
<1>5. /\ IsFiniteSet(UnitsOf(Withdrawn'))
      /\ Cardinality(UnitsOf(Withdrawn)) \in Nat /\ Cardinality(UnitsOf(Withdrawn')) \in Nat
      /\ Cardinality(UnitsOf(Withdrawn')) = Cardinality(UnitsOf(Withdrawn))
           - Positive(Withdrawn[t]) + Positive(Withdrawn'[t])
  BY <1>1, <1>3, UnitsMove
<1>6. \A n \in Int : Positive(n) - Positive(- n) = n /\ Positive(n) \in Int
  BY DEF Positive
<1>7. /\ Positive(Added[t]) - Positive(Withdrawn[t]) = Due(th[t])
      /\ Positive(Added'[t]) - Positive(Withdrawn'[t]) = Due(th'[t])
      /\ Positive(Added[t]) \in Int /\ Positive(Withdrawn[t]) \in Int
      /\ Positive(Added'[t]) \in Int /\ Positive(Withdrawn'[t]) \in Int
  BY <1>1, <1>3, <1>6 DEF Positive
<1> QED
  BY <1>1, <1>4, <1>5, <1>7

\* A callback that lands: the row takes the cost it brings, and the difference
\* is about to be billed.
LEMMA LandPrices ==
  ASSUME TypeInv, NEW t \in Threads, Land(t),
         th[t].cost # 0 => th[t].base = row[th[t].sub].cost
  PROVE  \/ Unbilled
         \/ /\ billed' = billed /\ th[t].cost # 0
            /\ Due(th[t]) = 0
            /\ Due(th'[t]) = row'[th[t].sub].cost - row[th[t].sub].cost
            /\ th'[t].pc = "bill"
            /\ \A u \in Threads \ {t} : th'[u] = th[u]
            /\ \A s \in Subs \ {th[t].sub} : row'[s] = row[s]
<1> DEFINE l == th[t]
           s == l.sub
           r == [row[s] EXCEPT
             !.status = IF l.status = Outcome(l.kind) THEN @ ELSE Outcome(l.kind),
             !.cost = IF CostOf(l) = l.base THEN @ ELSE CostOf(l)]
           p == [Idle EXCEPT !.pc = "bill", !.by = "callback", !.sub = s,
                             !.cost = DeltaOf(l)]
<1>1. /\ l \in Thread /\ s \in Subs /\ row[s] \in Row /\ l.pc = "handle"
      /\ l.cost \in Nat /\ l.base \in Nat /\ row[s].cost \in Nat
      /\ row \in [Subs -> Row]
  BY DEF Land, At, TypeInv, TypeOK, Fit, Thread, Row
<1>2. r.cost = IF CostOf(l) = l.base THEN row[s].cost ELSE CostOf(l)
  BY <1>1 DEF Row
<1>3. p.pc = "bill" /\ p.cost = DeltaOf(l)
  BY DEF Idle
<1>4. /\ IF l.status # Outcome(l.kind) \/ CostOf(l) # l.base
         THEN Write(s, r) ELSE UNCHANGED <<row, aged>>
      /\ Become(t, IF DeltaOf(l) # 0 THEN p ELSE SittingEnd(l))
      /\ billed' = billed
  BY DEF Land
<1>5. CASE DeltaOf(l) = 0
  <2>1. CostOf(l) = l.base
    BY <1>1, <1>5 DEF DeltaOf, CostOf
  <2>2. r.cost = row[s].cost
    BY <2>1, <1>2
  <2>3. Become(t, SittingEnd(l)) /\ (Write(s, r) \/ UNCHANGED <<row, aged>>)
    BY <1>4, <1>5
  <2> HIDE DEF r, p
  <2>4. \A u \in Subs : row'[u].cost = row[u].cost
    BY <1>1, <2>2, <2>3, CostStays
  <2> QED
    BY <1>1, <1>4, <2>3, <2>4, AfterPc, PassesUnbilled DEF At
<1>6. CASE DeltaOf(l) # 0
  <2>1. CostOf(l) # l.base /\ l.cost # 0 /\ CostOf(l) = l.cost
    BY <1>1, <1>6 DEF DeltaOf, CostOf
  <2>2. r.cost = l.cost
    BY <2>1, <1>2
  <2>3. Write(s, r) /\ Become(t, p)
    BY <1>4, <1>6, <2>1
  <2> HIDE DEF r, p
  <2>4. row'[s] = r /\ \A u \in Subs \ {s} : row'[u] = row[u]
    BY <2>3, <1>1 DEF Write
  <2>5. th'[t] = p /\ \A u \in Threads \ {t} : th'[u] = th[u]
    BY <2>3, BecomeOne
  <2>6. Due(l) = 0 /\ Due(p) = DeltaOf(l)
    BY <1>1, <1>3 DEF Due
  <2>7. DeltaOf(l) = l.cost - row[s].cost
    BY <2>1 DEF DeltaOf
  <2> QED
    BY <1>3, <1>4, <2>1, <2>2, <2>4, <2>5, <2>6, <2>7
<1> QED
  BY <1>5, <1>6


LEMMA BillStep ==
  TypeInv /\ TypeInv' /\ BillInv /\ PricedApart /\ [Next]_vars => BillInv'
<1> SUFFICES ASSUME TypeInv, TypeInv', BillInv, PricedApart, [Next]_vars, crashes' = 0
             PROVE  BillInv'
  BY DEF BillInv
<1>no. crashes = 0
  <2>1. crashes \in Nat
    BY DEF TypeInv, TypeOK
  <2>2. ASSUME NEW t \in Threads, Start(t) \/ Continue(t) PROVE crashes' = crashes
    BY <2>2 DEF Start, Submit, Retry, Reap, Load, Continue, Reopen, Reload, GiveUp, Claim,
       PostHeard, PostUnheard, PostRefused, Refuse, Accept, Ignore, Requeue, Land, Conflict,
       Bill, Count, Stamp, Deliver, bound
  <2>3. ASSUME NEW t \in Threads, Crash(t) PROVE FALSE
    BY <2>1, <2>3 DEF Crash
  <2>4. CASE Environment \/ UNCHANGED vars
    BY <2>4 DEF Environment, Age, AgentFinishes, AgentLoses, CallbackGone, vars, bound
  <2> QED
    BY <2>2, <2>3, <2>4 DEF Next
<1>inv. /\ IsFiniteSet(UnitsOf(CostsOnRows))
        /\ IsFiniteSet(UnitsOf(Added)) /\ IsFiniteSet(UnitsOf(Withdrawn))
        /\ billed + Cardinality(UnitsOf(Added)) - Cardinality(UnitsOf(Withdrawn))
             = Cardinality(UnitsOf(CostsOnRows))
        /\ \A t \in Threads : At(t, "handle") /\ th[t].cost # 0
                                => th[t].base = row[th[t].sub].cost
  BY <1>no DEF BillInv
<1>types. /\ CostsOnRows \in [Subs -> Int] /\ CostsOnRows' \in [Subs -> Int]
          /\ billed \in Int /\ billed' \in Int
          /\ \A s \in Subs : row[s].cost \in Nat /\ row'[s].cost \in Nat
          /\ \A t \in Threads : Due(th[t]) \in Int /\ Due(th'[t]) \in Int
  BY BillTypes DEF TypeInv, TypeOK, Row, Thread, Due, CostsOnRows
<1>sub. \A t \in Threads : th[t].pc = "handle" => th[t].sub \in Subs
  BY DEF TypeInv, Fit
<1>new. /\ CostsOnRows' = [s \in Subs |-> row'[s].cost]
        /\ Added' = [t \in Threads |-> Due(th'[t])]
        /\ Withdrawn' = [t \in Threads |-> - Due(th'[t])]
  BY DEF CostsOnRows, Added, Withdrawn, Due
<1> DEFINE Books ==
             /\ IsFiniteSet(UnitsOf(CostsOnRows'))
             /\ IsFiniteSet(UnitsOf(Added')) /\ IsFiniteSet(UnitsOf(Withdrawn'))
             /\ billed' + Cardinality(UnitsOf(Added')) - Cardinality(UnitsOf(Withdrawn'))
                  = Cardinality(UnitsOf(CostsOnRows'))
           Current(t) == th'[t].pc = "handle" /\ th'[t].cost # 0
                           => th'[t].base = row'[th'[t].sub].cost
<1>goal. Books /\ (\A t \in Threads : Current(t)) => BillInv'
  BY DEF BillInv, UnitsOf, At
\* The totals are as they were.
<1>same. ASSUME billed' = billed, \A s \in Subs : row'[s].cost = row[s].cost,
                \A u \in Threads : Due(th'[u]) = Due(th[u])
         PROVE  Books
  <2>1. CostsOnRows' = CostsOnRows
    BY <1>same, <1>new DEF CostsOnRows
  <2>2. Added' = Added /\ Withdrawn' = Withdrawn
    BY <1>same, <1>new DEF Added, Withdrawn
  <2> QED
    BY <2>1, <2>2, <1>same, <1>inv
<1>1. CASE Unbilled
  <2>1. Books
    BY <1>1, <1>same DEF Unbilled
  <2>2. ASSUME NEW t \in Threads, th'[t].pc = "handle", th'[t].cost # 0
        PROVE  th'[t].base = row'[th'[t].sub].cost
    <3>1. th'[t] = th[t] /\ th[t].sub \in Subs
      BY <1>1, <2>2, <1>sub DEF Unbilled
    <3> QED
      BY <3>1, <2>2, <1>1, <1>inv DEF Unbilled, At
  <2> QED
    BY <2>1, <2>2, <1>goal
<1>2. ASSUME NEW t \in Threads, NEW m \in callbacks, Load(t, m) PROVE BillInv'
  <2> DEFINE p == [Idle EXCEPT !.pc = "handle", !.by = "callback", !.sub = m.sub,
                               !.status = row[m.sub].status,
                               !.attempts = row[m.sub].attempts,
                               !.id = m.id, !.kind = m.kind, !.cost = m.cost,
                               !.base = row[m.sub].cost, !.existing = result[m.sub]]
  <2>1. p.pc = "handle" /\ p.sub = m.sub /\ p.base = row[m.sub].cost
    BY DEF Idle
  <2>2. Become(t, p) /\ th[t].pc = "idle"
    BY <1>2 DEF Load, At
  <2>3. row' = row /\ billed' = billed
    BY <1>2 DEF Load, db
  <2> HIDE DEF p
  <2>4. th'[t] = p /\ \A u \in Threads \ {t} : th'[u] = th[u]
    BY <2>2, BecomeOne
  <2>5. \A u \in Threads : Due(th'[u]) = Due(th[u])
    BY <2>1, <2>2, <2>4 DEF Due
  <2>6. Books
    BY <2>3, <2>5, <1>same
  <2>7. \A u \in Threads : Current(u)
    BY <2>1, <2>3, <2>4, <1>inv DEF At
  <2> QED
    BY <2>6, <2>7, <1>goal
<1>3. ASSUME NEW t \in Threads, Bill(t) PROVE BillInv'
  <2>1. /\ billed' = billed + th[t].cost /\ row' = row
        /\ Become(t, SittingEnd(th[t])) /\ th[t].pc = "bill"
    BY <1>3 DEF Bill, At
  <2>2. th'[t] = SittingEnd(th[t]) /\ \A u \in Threads \ {t} : th'[u] = th[u]
    BY <2>1, BecomeOne
  <2>3. Due(th[t]) = th[t].cost /\ Due(th'[t]) = 0
    BY <2>1, <2>2, AfterPc DEF Due
  <2>4. /\ IsFiniteSet(UnitsOf(Added')) /\ IsFiniteSet(UnitsOf(Withdrawn'))
        /\ Cardinality(UnitsOf(Added)) \in Int /\ Cardinality(UnitsOf(Added')) \in Int
        /\ Cardinality(UnitsOf(Withdrawn)) \in Int
        /\ Cardinality(UnitsOf(Withdrawn')) \in Int
        /\ Cardinality(UnitsOf(Added')) - Cardinality(UnitsOf(Withdrawn'))
             = Cardinality(UnitsOf(Added)) - Cardinality(UnitsOf(Withdrawn)) - th[t].cost
    <3>1. \A u \in Threads \ {t} : Due(th'[u]) = Due(th[u])
      BY <2>2
    <3>2. Due(th[t]) \in Int
      BY <1>types
    <3> HIDE DEF Books, Current
    <3> QED
      BY <3>1, <3>2, <2>3, <1>inv, DueMoves
  <2>5. CostsOnRows' = CostsOnRows
    BY <2>1, <1>new DEF CostsOnRows
  <2>6. th[t].cost \in Int
    BY <2>3, <1>types
  <2>7. Books
    BY <2>1, <2>4, <2>5, <2>6, <1>inv, <1>types
  <2>8. \A u \in Threads : Current(u)
    BY <2>1, <2>2, <1>inv, AfterPc DEF At
  <2> QED
    BY <2>7, <2>8, <1>goal
<1>4. ASSUME NEW t \in Threads, Land(t) PROVE BillInv'
  <2> DEFINE s == th[t].sub
  <2>1. th[t].pc = "handle" /\ s \in Subs
    BY <1>4, <1>sub DEF Land, At
  <2>2. CASE Unbilled
    BY <2>2, <1>1
  <2>3. CASE /\ billed' = billed /\ th[t].cost # 0
             /\ Due(th[t]) = 0
             /\ Due(th'[t]) = row'[s].cost - row[s].cost
             /\ th'[t].pc = "bill"
             /\ \A u \in Threads \ {t} : th'[u] = th[u]
             /\ \A u \in Subs \ {s} : row'[u] = row[u]
    <3>1. /\ IsFiniteSet(UnitsOf(Added')) /\ IsFiniteSet(UnitsOf(Withdrawn'))
          /\ Cardinality(UnitsOf(Added)) \in Int /\ Cardinality(UnitsOf(Added')) \in Int
          /\ Cardinality(UnitsOf(Withdrawn)) \in Int
          /\ Cardinality(UnitsOf(Withdrawn')) \in Int
          /\ Cardinality(UnitsOf(Added')) - Cardinality(UnitsOf(Withdrawn'))
               = Cardinality(UnitsOf(Added)) - Cardinality(UnitsOf(Withdrawn))
                   - Due(th[t]) + Due(th'[t])
      <4>1. \A u \in Threads \ {t} : Due(th'[u]) = Due(th[u])
        BY <2>3
      <4> HIDE DEF Books, Current, s
      <4> QED
        BY <4>1, <1>inv, DueMoves
    <3>2. /\ CostsOnRows[s] = row[s].cost /\ CostsOnRows'[s] = row'[s].cost
          /\ \A u \in Subs \ {s} : CostsOnRows'[u] = CostsOnRows[u]
      BY <2>1, <2>3, <1>new DEF CostsOnRows
    <3>3. /\ IsFiniteSet(UnitsOf(CostsOnRows'))
          /\ Cardinality(UnitsOf(CostsOnRows)) \in Nat
          /\ Cardinality(UnitsOf(CostsOnRows')) \in Nat
          /\ Cardinality(UnitsOf(CostsOnRows')) = Cardinality(UnitsOf(CostsOnRows))
               - Positive(CostsOnRows[s]) + Positive(CostsOnRows'[s])
      <4>1. CostsOnRows \in [Subs -> Int] /\ CostsOnRows' \in [Subs -> Int]
        BY <1>types
      <4>2. \A u \in Subs \ {s} : CostsOnRows'[u] = CostsOnRows[u]
        BY <3>2
      <4>3. IsFiniteSet(UnitsOf(CostsOnRows))
        BY <1>inv
      <4> HIDE DEF Books, Current, s
      <4> QED
        BY <4>1, <4>2, <4>3, <2>1, UnitsMove
    <3>4. /\ Positive(CostsOnRows[s]) = row[s].cost
          /\ Positive(CostsOnRows'[s]) = row'[s].cost
          /\ row[s].cost \in Nat /\ row'[s].cost \in Nat
      BY <2>1, <3>2, <1>types DEF Positive
    <3>5. Books
      BY <2>3, <3>1, <3>3, <3>4, <1>inv, <1>types
    <3>6. ASSUME NEW u \in Threads, th'[u].pc = "handle", th'[u].cost # 0
          PROVE  th'[u].base = row'[th'[u].sub].cost
      <4>1. u # t /\ th'[u] = th[u]
        BY <2>3, <3>6
      <4>2. th[u].sub # s /\ th[u].sub \in Subs
        BY <2>1, <2>3, <3>6, <4>1, <1>sub DEF PricedApart, At
      <4> QED
        BY <2>3, <3>6, <4>1, <4>2, <1>inv DEF At
    <3> QED
      BY <3>5, <3>6, <1>goal
  <2> QED
    BY <1>4, <2>1, <2>2, <2>3, <1>inv, LandPrices DEF At
<1> HIDE DEF Books, Current
<1> QED
  BY <1>1, <1>2, <1>3, <1>4, Bills

\* While callbacks that carry a cost handle a submission one at a time, and no
\* worker dies, the organisation's total is what the rows report once everything
\* is quiet, for any number of submissions and threads and any costs
\* (assessments_callback, billing.record).
THEOREM GradesBilledOnce == Spec /\ []PricedApart => []BilledAsReported
<1>1. TypeInv /\ BillInv => BilledAsReported
  <2> SUFFICES ASSUME TypeInv, BillInv, Quiet, crashes = 0
               PROVE  billed = Cardinality(UnitsOf([s \in Subs |-> row[s].cost]))
    BY DEF BilledAsReported
  <2>1. \A t \in Threads : Due(th[t]) = 0
    BY DEF Quiet, At, Due
  <2>2. Added = [t \in Threads |-> 0] /\ Withdrawn = [t \in Threads |-> 0]
    BY <2>1 DEF Added, Withdrawn
  <2>3. Cardinality(UnitsOf(Added)) = 0 /\ Cardinality(UnitsOf(Withdrawn)) = 0
    BY <2>2, NoUnits
  <2>4. billed \in Int
    BY BillTypes
  <2> QED
    BY <2>3, <2>4 DEF BillInv, CostsOnRows
<1> QED
  BY <1>1, TypeInit, TypeStep, BillInit, BillStep, PTL DEF Spec
=============================================================================
