--------------------------- MODULE SittingsProofs ---------------------------
(***************************************************************************)
(* Proofs about Sittings, for every number of recipients, handlers, names, *)
(* slots, variants and crashes, timed or not, quick screen or assessment.  *)
(***************************************************************************)
EXTENDS Sittings, FiniteSetTheorems, TLAPS

-----------------------------------------------------------------------------
(***************************************************************************)
(* Types.  That charged is a natural number is left to the count below.    *)
(***************************************************************************)
\* A handler that has started works for a recipient; a submit came with a name
\* and a question; only a submit checks and stores.
Fit(l) ==
  /\ l \in Thread
  /\ l.pc # "idle" => l.email \in Emails
  /\ l.pc # "idle" /\ l.route = "submit" => l.name \in Names /\ l.question \in Questions
  /\ l.pc \in {"check", "store"} => l.route = "submit"

Typed ==
  /\ active \in BOOLEAN
  /\ expired \in BOOLEAN
  /\ attempt \in [Emails -> CandidateAttempt]
  /\ variant \in [Emails -> [SetSlots -> Questions \cup {NoQuestion}]]
  /\ subs \subseteq Submission
  /\ charged \in Int
  /\ th \in [Threads -> Thread]
  /\ crashes \in Nat
  /\ \A t \in Threads : Fit(th[t])

LEMMA IdleFit == Fit(Idle)
BY DEF Fit, Idle, Thread, Given

LEMMA GotoFit ==
  ASSUME Typed, NEW t \in Threads, NEW l, Fit(l), Goto(t, l)
  PROVE  th' \in [Threads -> Thread] /\ \A u \in Threads : Fit(th'[u])
BY DEF Typed, Goto, Fit

\* The name a submission is stored under is one, whatever the attempt holds.
LEMMA NameForIs ==
  ASSUME NEW l \in Thread, NEW n \in Given
  PROVE  /\ l.name \in Names => NameFor(l, n) \in Names
         /\ n \in Names => NameFor(l, n) = n
BY DEF NameFor

LEMMA HaveAttemptIs ==
  ASSUME NEW l \in Thread, NEW n
  PROVE  LET k == HaveAttempt(l, n)
         IN  /\ l.route = "start" =>
                  /\ k.pc = "resolve" /\ k.route = "start" /\ k.todo = SetSlots
                  /\ k.name = NoName
             /\ l.route = "submit" =>
                  /\ k.pc = "store" /\ k.route = "submit" /\ k.todo = l.todo
                  /\ k.name = NameFor(l, n)
             /\ k.email = l.email /\ k.question = l.question /\ k.chosen = l.chosen
             /\ l.route \in {"start", "submit"}
<1>1. CASE l.route = "start"
  BY <1>1 DEF HaveAttempt, Thread
<1>2. CASE l.route = "submit"
  <2> DEFINE m == NameFor(l, n)
             k == [l EXCEPT !.pc = "store", !.name = m]
  <2>1. HaveAttempt(l, n) = k
    BY <1>2 DEF HaveAttempt
  <2> HIDE DEF m
  <2>2. /\ k.pc = "store" /\ k.route = "submit" /\ k.todo = l.todo /\ k.name = m
        /\ k.email = l.email /\ k.question = l.question /\ k.chosen = l.chosen
    BY <1>2 DEF Thread
  <2> QED
    BY <1>2, <2>1, <2>2 DEF m
<1> QED
  BY <1>1, <1>2 DEF Thread

LEMMA HaveAttemptFit ==
  ASSUME NEW l, Fit(l), l.pc # "idle", NEW n \in Given
  PROVE  Fit(HaveAttempt(l, n))
<1>1. /\ l \in Thread /\ l.email \in Emails
      /\ l.route = "submit" => l.name \in Names /\ l.question \in Questions
  BY DEF Fit
<1>2. CASE l.route = "start"
  <2> DEFINE k == [l EXCEPT !.pc = "resolve", !.todo = SetSlots, !.name = NoName]
  <2>1. k \in Thread
    BY <1>1 DEF Thread, Given
  <2>2. HaveAttempt(l, n) = k
    BY <1>2 DEF HaveAttempt
  <2> HIDE DEF k
  <2>3. Fit(k)
    BY <1>1, <1>2, <2>1, <2>2, HaveAttemptIs DEF Fit
  <2> QED
    BY <2>2, <2>3
<1>3. CASE l.route = "submit"
  <2> DEFINE m == NameFor(l, n)
             k == [l EXCEPT !.pc = "store", !.name = m]
  <2>1. m \in Names
    BY <1>1, <1>3, NameForIs
  <2>2. HaveAttempt(l, n) = k
    BY <1>3 DEF HaveAttempt
  <2> HIDE DEF m
  <2>3. k \in Thread
    BY <1>1, <2>1 DEF Thread, Given
  <2>4. k.pc = "store" /\ k.route = "submit" /\ k.email = l.email /\ k.name = m
        /\ k.question = l.question
    BY <1>1, <1>3 DEF Thread
  <2> HIDE DEF k
  <2>5. Fit(k)
    BY <1>1, <1>3, <2>1, <2>3, <2>4 DEF Fit
  <2> QED
    BY <2>2, <2>5
<1> QED
  BY <1>1, <1>2, <1>3 DEF Thread

LEMMA TypedInit == Init => Typed
<1> SUFFICES ASSUME Init PROVE Typed
  OBVIOUS
<1>1. th \in [Threads -> Thread] /\ \A t \in Threads : th[t] = Idle
  BY IdleFit DEF Init, Fit
<1>2. \A t \in Threads : Fit(th[t])
  BY <1>1, IdleFit
<1>3. attempt \in [Emails -> CandidateAttempt]
  BY DEF Init, CandidateAttempt, Given
<1>4. variant \in [Emails -> [SetSlots -> Questions \cup {NoQuestion}]]
  <2>1. [s \in SetSlots |-> NoQuestion] \in [SetSlots -> Questions \cup {NoQuestion}]
    OBVIOUS
  <2> QED
    BY <2>1 DEF Init
<1>5. th \in [Threads -> Thread]
  BY <1>1, <1>2 DEF Fit
<1>6. subs \subseteq Submission
  BY DEF Init
<1>7. active \in BOOLEAN /\ expired \in BOOLEAN
  BY Zenon DEF Init
<1>8. charged \in Int /\ crashes \in Nat
  <2>1. charged = 0 /\ crashes = 0
    BY Zenon DEF Init
  <2> QED
    BY <2>1
<1> QED
  BY <1>2, <1>3, <1>4, <1>5, <1>6, <1>7, <1>8 DEF Typed

LEMMA TurnType ==
  ASSUME Typed, NEW s \in SetSlots, NEW k \in 0 .. MaxElsewhere
  PROVE  Turn(s, k) \in Questions
<1>1. Assignments(s, k) \in Nat
  <2>1. IsFiniteSet({e \in Emails : variant[e][s] # NoQuestion})
    BY SittingsAssumption, FS_Subset
  <2>2. Cardinality({e \in Emails : variant[e][s] # NoQuestion}) \in Nat
    BY <2>1, FS_CardinalityType
  <2> QED
    BY <2>2, SittingsAssumption DEF Assignments
<1>2. s \in Slots /\ Pool[s] \in Seq(Questions) /\ Len(Pool[s]) \in Nat /\ Len(Pool[s]) > 0
  BY SittingsAssumption
<1>3. (Assignments(s, k) % Len(Pool[s])) + 1 \in 1 .. Len(Pool[s])
  BY <1>1, <1>2
<1>4. DOMAIN Pool[s] = 1 .. Len(Pool[s])
  BY <1>2
<1> QED
  BY <1>2, <1>3, <1>4 DEF Turn, Questions

LEMMA BeginAsType == ASSUME NEW n \in Given PROVE BeginAs(n) \in CandidateAttempt
BY DEF BeginAs, CandidateAttempt

LEMMA TypedStep == Typed /\ [Next]_vars => Typed'
<1> SUFFICES ASSUME Typed, [Next]_vars PROVE Typed'
  OBVIOUS
<1> USE DEF invite
<1>t. \A t \in Threads : th[t] \in Thread /\ Fit(th[t])
  BY DEF Typed
<1>e. \A t \in Threads : th[t].pc # "idle" => th[t].email \in Emails
  BY <1>t DEF Fit
<1>a. \A e \in Emails : /\ attempt[e] \in CandidateAttempt
                        /\ attempt[e].name \in Given
  BY DEF Typed, CandidateAttempt
\* A step that only moves one handler.
<1>go. ASSUME NEW t \in Threads, NEW l, Fit(l), Goto(t, l),
              UNCHANGED <<invite, attempt, variant, subs, charged, crashes>>
       PROVE  Typed'
  <2>1. th' \in [Threads -> Thread] /\ \A u \in Threads : Fit(th'[u])
    BY <1>go, GotoFit
  <2> QED
    BY <1>go, <2>1 DEF Typed
<1>1. ASSUME NEW t \in Threads, NEW e \in Emails, NEW n \in Given,
             Start(t, e, n)
      PROVE  Typed'
  <2>1. Fit([Idle EXCEPT !.pc = "attempt", !.email = e, !.name = n])
    BY DEF Fit, Idle, Thread
  <2> QED
    BY <1>1, <1>go, <2>1 DEF Start
<1>2. ASSUME NEW t \in Threads, NEW e \in Emails, NEW n \in Names,
             NEW q \in Questions, Submit(t, e, n, q)
      PROVE  Typed'
  <2>1. Fit([Idle EXCEPT !.pc = "resolve", !.route = "submit", !.email = e,
                         !.name = n, !.question = q, !.todo = SetSlots])
    BY DEF Fit, Idle, Thread, Given
  <2> QED
    BY <1>2, <1>go, <2>1 DEF Submit
<1>3. ASSUME NEW t \in Threads, Resolve(t) PROVE Typed'
  <2> DEFINE l == th[t]
  <2>1. l \in Thread /\ Fit(l) /\ l.pc = "resolve"
    BY <1>3, <1>t DEF Resolve, At
  <2>2. PICK s \in l.todo :
          \/ \E k \in 0 .. MaxElsewhere :
               Goto(t, [l EXCEPT !.pc = "assign", !.todo = {s} \cup @, !.chosen = Turn(s, k)])
          \/ Goto(t, [l EXCEPT !.todo = @ \ {s}])
    BY <1>3, ZenonT(30) DEF Resolve
  <2>3. s \in SetSlots /\ l.todo \subseteq SetSlots
    BY <2>1, <2>2 DEF Thread
  <2>4. \A q \in Questions :
          Fit([l EXCEPT !.pc = "assign", !.todo = {s} \cup @, !.chosen = q])
    BY <2>1, <2>3 DEF Fit, Thread
  <2>5. \A k \in 0 .. MaxElsewhere :
          Fit([l EXCEPT !.pc = "assign", !.todo = {s} \cup @, !.chosen = Turn(s, k)])
    BY <2>3, <2>4, TurnType
  <2>6. Fit([l EXCEPT !.todo = @ \ {s}])
    BY <2>1, <2>3 DEF Fit, Thread
  <2> QED
    BY <1>3, <1>go, <2>2, <2>5, <2>6 DEF Resolve
<1>4. ASSUME NEW t \in Threads, Assign(t) PROVE Typed'
  <2> DEFINE l == th[t]
  <2>1. l \in Thread /\ Fit(l) /\ l.pc = "assign" /\ l.email \in Emails
    BY <1>4, <1>t, <1>e DEF Assign, At
  <2>2. PICK s \in l.todo :
          /\ IF variant[l.email][s] = NoQuestion
             THEN variant' = [variant EXCEPT ![l.email][s] = l.chosen]
             ELSE UNCHANGED variant
          /\ Goto(t, [l EXCEPT !.pc = "resolve", !.todo = @ \ {s}, !.chosen = NoQuestion])
    BY <1>4 DEF Assign
  <2>3. s \in SetSlots /\ l.chosen \in Questions \cup {NoQuestion}
    BY <2>1, <2>2 DEF Thread
  <2>4. variant' \in [Emails -> [SetSlots -> Questions \cup {NoQuestion}]]
    <3> DEFINE w == variant[l.email]
               v == [w EXCEPT ![s] = l.chosen]
    <3>1. w \in [SetSlots -> Questions \cup {NoQuestion}]
      BY <2>1 DEF Typed
    <3>2. v \in [SetSlots -> Questions \cup {NoQuestion}]
      BY <2>3, <3>1
    <3>3. UNCHANGED variant \/ variant' = [variant EXCEPT ![l.email] = v]
      BY <2>2
    <3> HIDE DEF v
    <3> QED
      BY <2>1, <3>2, <3>3 DEF Typed
  <2>5. Fit([l EXCEPT !.pc = "resolve", !.todo = @ \ {s}, !.chosen = NoQuestion])
    BY <2>1 DEF Fit, Thread
  <2>6. th' \in [Threads -> Thread] /\ \A u \in Threads : Fit(th'[u])
    BY <2>2, <2>5, GotoFit
  <2> QED
    BY <1>4, <2>4, <2>6 DEF Assign, Typed
<1>5. ASSUME NEW t \in Threads, Resolved(t) PROVE Typed'
  <2> DEFINE l == th[t]
  <2>1. l \in Thread /\ Fit(l) /\ l.pc = "resolve"
    BY <1>5, <1>t DEF Resolved, At
  <2>2. l.route = "submit" => Fit([l EXCEPT !.pc = "check"])
    BY <2>1 DEF Fit, Thread
  <2> QED
    BY <1>5, <1>go, <2>2, IdleFit DEF Resolved
<1>6. ASSUME NEW t \in Threads, Check(t) PROVE Typed'
  <2>1. Fit([th[t] EXCEPT !.pc = "attempt"])
    BY <1>6, <1>t DEF Check, At, Fit, Thread
  <2> QED
    BY <1>6, <1>go, <2>1, IdleFit DEF Check
<1>7. ASSUME NEW t \in Threads, LookUp(t) PROVE Typed'
  <2> DEFINE l == th[t]
             a == attempt[l.email]
  <2>1. l \in Thread /\ Fit(l) /\ l.pc = "attempt" /\ l.email \in Emails
    BY <1>7, <1>t, <1>e DEF LookUp, At
  <2>2. a.name \in Given
    BY <1>a, <2>1
  <2>3. Fit([l EXCEPT !.pc = "charge"]) /\ Fit([l EXCEPT !.pc = "name"])
    BY <2>1 DEF Fit, Thread
  <2>4. Fit(HaveAttempt(l, a.name))
    BY <2>1, <2>2, HaveAttemptFit
  <2>5. \/ Goto(t, [l EXCEPT !.pc = "charge"])
        \/ Goto(t, [l EXCEPT !.pc = "name"])
        \/ Goto(t, HaveAttempt(l, a.name))
        \/ Goto(t, Idle)
    <3>1. CASE ~ a.begun
      BY <1>7, <3>1 DEF LookUp
    <3>2. CASE a.begun /\ a.name = NoName /\ l.name # NoName
      BY <1>7, <3>2 DEF LookUp
    <3>3. CASE a.begun /\ ~ (a.name = NoName /\ l.name # NoName)
      BY <1>7, <3>3 DEF LookUp
    <3> QED
      BY <3>1, <3>2, <3>3
  <2> QED
    BY <1>7, <1>go, <2>3, <2>4, <2>5, IdleFit DEF LookUp
<1>8. ASSUME NEW t \in Threads, Name(t) PROVE Typed'
  <2> DEFINE l == th[t]
  <2>1. l \in Thread /\ Fit(l) /\ l.pc = "name" /\ l.email \in Emails
    BY <1>8, <1>t, <1>e DEF Name, At
  <2>2. attempt' \in [Emails -> CandidateAttempt]
    <3>1. l.name \in Given
      BY <2>1 DEF Thread
    <3>2. [attempt[l.email] EXCEPT !.name = l.name] \in CandidateAttempt
      BY <1>a, <2>1, <3>1 DEF CandidateAttempt
    <3>3. attempt' = [attempt EXCEPT ![l.email] = [attempt[l.email] EXCEPT !.name = l.name]]
      BY <1>8, <2>1 DEF Name, Typed
    <3> QED
      BY <2>1, <3>2, <3>3 DEF Typed
  <2>3. Fit([l EXCEPT !.pc = "reread"])
    BY <2>1 DEF Fit, Thread
  <2>4. th' \in [Threads -> Thread] /\ \A u \in Threads : Fit(th'[u])
    BY <1>8, <2>3, GotoFit DEF Name
  <2> QED
    BY <1>8, <2>2, <2>4 DEF Name, Typed
<1>9. ASSUME NEW t \in Threads, Charge(t) PROVE Typed'
  <2>1. Fit([th[t] EXCEPT !.pc = "insert"])
    BY <1>9, <1>t DEF Charge, At, Fit, Thread
  <2>2. th' \in [Threads -> Thread] /\ \A u \in Threads : Fit(th'[u])
    BY <1>9, <2>1, IdleFit, GotoFit DEF Charge
  <2>3. charged' \in Int
    BY <1>9 DEF Charge, Typed
  <2> QED
    BY <1>9, <2>2, <2>3 DEF Charge, Typed
<1>10. ASSUME NEW t \in Threads, InsertAttempt(t) PROVE Typed'
  <2> DEFINE l == th[t]
  <2>1. l \in Thread /\ Fit(l) /\ l.pc = "insert" /\ l.email \in Emails
    BY <1>10, <1>t, <1>e DEF InsertAttempt, At
  <2>2. attempt' \in [Emails -> CandidateAttempt]
    <3>1. BeginAs(l.name) \in CandidateAttempt
      BY <2>1, BeginAsType DEF Thread
    <3> QED
      BY <1>10, <2>1, <3>1 DEF InsertAttempt, Typed
  <2>3. Fit([l EXCEPT !.pc = "reread"]) /\ Fit([l EXCEPT !.pc = "release"])
    BY <2>1 DEF Fit, Thread
  <2>4. th' \in [Threads -> Thread] /\ \A u \in Threads : Fit(th'[u])
    BY <1>10, <2>3, GotoFit DEF InsertAttempt
  <2> QED
    BY <1>10, <2>2, <2>4 DEF InsertAttempt, Typed
<1>11. ASSUME NEW t \in Threads, Release(t) PROVE Typed'
  <2>1. Fit([th[t] EXCEPT !.pc = "reread"])
    BY <1>11, <1>t DEF Release, At, Fit, Thread
  <2>2. th' \in [Threads -> Thread] /\ \A u \in Threads : Fit(th'[u])
    BY <1>11, <2>1, GotoFit DEF Release
  <2>3. charged' \in Int
    BY <1>11 DEF Release, Typed
  <2> QED
    BY <1>11, <2>2, <2>3 DEF Release, Typed
<1>12. ASSUME NEW t \in Threads, Reread(t) PROVE Typed'
  <2> DEFINE l == th[t]
  <2>1. l \in Thread /\ Fit(l) /\ l.pc = "reread" /\ l.email \in Emails
    BY <1>12, <1>t, <1>e DEF Reread, At
  <2>2. Fit(HaveAttempt(l, attempt[l.email].name))
    BY <1>a, <2>1, HaveAttemptFit
  <2> QED
    BY <1>12, <1>go, <2>2 DEF Reread
<1>13. ASSUME NEW t \in Threads, Store(t) PROVE Typed'
  <2> DEFINE l == th[t]
             s == [email |-> l.email, question |-> l.question, name |-> l.name,
                   late |-> Timed /\ attempt[l.email].over]
  <2>1. /\ l \in Thread /\ Fit(l) /\ l.pc = "store" /\ l.email \in Emails
        /\ l.question \in Questions /\ l.name \in Names
    BY <1>13, <1>t, <1>e DEF Store, At, Fit
  <2>3. s \in Submission
    <3>1. attempt[l.email].over \in BOOLEAN
      BY <1>a, <2>1 DEF CandidateAttempt
    <3> QED
      BY <2>1, <3>1 DEF Submission
  <2>4. subs' \subseteq Submission
    <3>1. UNCHANGED subs \/ subs' = subs \cup {s}
      BY <1>13 DEF Store
    <3> QED
      BY <2>3, <3>1 DEF Typed
  <2>5. th' \in [Threads -> Thread] /\ \A u \in Threads : Fit(th'[u])
    BY <1>13, IdleFit, GotoFit DEF Store
  <2> QED
    BY <1>13, <2>4, <2>5 DEF Store, Typed
<1>14. ASSUME NEW t \in Threads, Crash(t) PROVE Typed'
  <2>1. th' \in [Threads -> Thread] /\ \A u \in Threads : Fit(th'[u])
    BY <1>14, IdleFit, GotoFit DEF Crash
  <2> QED
    BY <1>14, <2>1 DEF Crash, Typed
<1>15. ASSUME Revoke \/ Expire PROVE Typed'
  BY <1>15 DEF Revoke, Expire, Typed
<1>16. ASSUME NEW e \in Emails, TimeIsUp(e) PROVE Typed'
  <2>1. [attempt[e] EXCEPT !.over = TRUE] \in CandidateAttempt
    BY <1>a DEF CandidateAttempt
  <2>2. attempt' = [attempt EXCEPT ![e] = [attempt[e] EXCEPT !.over = TRUE]]
    BY <1>16 DEF TimeIsUp, Typed
  <2>3. attempt' \in [Emails -> CandidateAttempt]
    BY <2>1, <2>2 DEF Typed
  <2> QED
    BY <1>16, <2>3 DEF TimeIsUp, Typed
<1>17. ASSUME UNCHANGED vars PROVE Typed'
  BY <1>17 DEF vars, Typed
<1> QED
  BY <1>1, <1>2, <1>3, <1>4, <1>5, <1>6, <1>7, <1>8, <1>9, <1>10, <1>11, <1>12,
     <1>13, <1>14, <1>15, <1>16, <1>17 DEF Next, Step

-----------------------------------------------------------------------------
(***************************************************************************)
(* The count: what was claimed covers what was begun and what some handler *)
(* still has to spend or to hand back; exactly, unless a handler died with *)
(* a claim in its hand.                                                    *)
(***************************************************************************)
Owers == {t \in Threads : Owing(t)}

Counted ==
  /\ IsFiniteSet(Owers)
  /\ charged >= Cardinality(Begun) + Cardinality(Owers)
  /\ crashes = 0 => charged = Cardinality(Begun) + Cardinality(Owers)

CountInv == Typed /\ Counted

LEMMA BegunFinite == IsFiniteSet(Begun) /\ Cardinality(Begun) \in Nat
<1>1. IsFiniteSet(Begun)
  BY SittingsAssumption, FS_Subset DEF Begun
<1> QED
  BY <1>1, FS_CardinalityType

\* A handler that owes nothing moves on to owe nothing.
LEMMA CountSame ==
  ASSUME CountInv, NEW t \in Threads, NEW l, Goto(t, l),
         Owing(t) <=> l.pc \in {"insert", "release"},
         \A e \in Emails : attempt'[e].begun = attempt[e].begun,
         UNCHANGED <<charged, crashes>>
  PROVE  Counted'
<1>1. Owers' = Owers
  BY DEF Owers, Owing, Goto, CountInv, Typed
<1>2. Begun' = Begun
  BY DEF Begun
<1> QED
  BY <1>1, <1>2 DEF CountInv, Counted

\* No handler moves at all.
LEMMA CountRests ==
  ASSUME CountInv, UNCHANGED <<th, charged, crashes>>,
         \A e \in Emails : attempt'[e].begun = attempt[e].begun
  PROVE  Counted'
<1>1. Owers' = Owers
  BY DEF Owers, Owing
<1>2. Begun' = Begun
  BY DEF Begun
<1> QED
  BY <1>1, <1>2 DEF CountInv, Counted

\* A handler that owed something owes nothing any more.
LEMMA OwersLeave ==
  ASSUME CountInv, NEW t \in Threads, NEW l, Goto(t, l), Owing(t),
         l.pc \notin {"insert", "release"}
  PROVE  /\ IsFiniteSet(Owers') /\ Cardinality(Owers) \in Nat
         /\ Cardinality(Owers') = Cardinality(Owers) - 1
<1>1. Owers' = Owers \ {t} /\ t \in Owers
  BY DEF Owers, Owing, Goto, CountInv, Typed
<1>2. IsFiniteSet(Owers)
  BY DEF CountInv, Counted
<1> QED
  BY <1>1, <1>2, FS_RemoveElement, FS_CardinalityType

LEMMA HaveAttemptPc ==
  ASSUME NEW l \in Thread
  PROVE  \A n : HaveAttempt(l, n).pc \in {"resolve", "store"}
BY HaveAttemptIs

LEMMA CountInit == Init => Counted
<1> SUFFICES ASSUME Init PROVE Counted
  OBVIOUS
<1>1. Owers = {} /\ Begun = {} /\ charged = 0
  BY DEF Init, Owers, Owing, Begun, Idle
<1> QED
  BY <1>1, FS_EmptySet DEF Counted

LEMMA CountStep == CountInv /\ [Next]_vars => Counted'
<1> SUFFICES ASSUME CountInv, [Next]_vars PROVE Counted'
  OBVIOUS
<1> USE DEF invite
<1>t. /\ \A t \in Threads : th[t] \in Thread /\ Fit(th[t])
      /\ attempt \in [Emails -> CandidateAttempt]
      /\ charged \in Int /\ crashes \in Nat
  BY DEF CountInv, Typed
<1>n. /\ Cardinality(Begun) \in Nat /\ IsFiniteSet(Begun)
      /\ Cardinality(Owers) \in Nat /\ IsFiniteSet(Owers)
      /\ charged >= Cardinality(Begun) + Cardinality(Owers)
      /\ crashes = 0 => charged = Cardinality(Begun) + Cardinality(Owers)
  BY BegunFinite, FS_CardinalityType DEF CountInv, Counted
<1>idle. Idle.pc = "idle"
  BY DEF Idle
\* A step from one place to another, neither of them in debt.
<1>go. ASSUME NEW t \in Threads, ~ Owing(t),
              \E l : Goto(t, l) /\ l.pc \notin {"insert", "release"},
              UNCHANGED <<attempt, charged, crashes>>
       PROVE  Counted'
  BY <1>go, CountSame
<1>1. ASSUME NEW t \in Threads, NEW e \in Emails, NEW n \in Given,
             Start(t, e, n)
      PROVE  Counted'
  <2>1. [Idle EXCEPT !.pc = "attempt", !.email = e, !.name = n].pc = "attempt"
    BY DEF Idle
  <2> QED
    BY <1>1, <1>go, <2>1 DEF Start, At, Owing
<1>2. ASSUME NEW t \in Threads, NEW e \in Emails, NEW n \in Names,
             NEW q \in Questions, Submit(t, e, n, q)
      PROVE  Counted'
  <2>1. [Idle EXCEPT !.pc = "resolve", !.route = "submit", !.email = e, !.name = n,
                     !.question = q, !.todo = SetSlots].pc = "resolve"
    BY DEF Idle
  <2> QED
    BY <1>2, <1>go, <2>1 DEF Submit, At, Owing
<1>3. ASSUME NEW t \in Threads, Resolve(t) PROVE Counted'
  <2> DEFINE l == th[t]
  <2>1. l \in Thread /\ l.pc = "resolve" /\ ~ Owing(t)
    BY <1>3, <1>t DEF Resolve, At, Owing
  <2>2. \A s, q : /\ [l EXCEPT !.pc = "assign", !.todo = {s} \cup @, !.chosen = q].pc
                       = "assign"
                  /\ [l EXCEPT !.todo = @ \ {s}].pc = "resolve"
    BY <2>1 DEF Thread
  <2>3. UNCHANGED <<attempt, charged, crashes>>
    BY <1>3 DEF Resolve
  <2>4. \/ \E s, q : Goto(t, [l EXCEPT !.pc = "assign", !.todo = {s} \cup @, !.chosen = q])
        \/ \E s : Goto(t, [l EXCEPT !.todo = @ \ {s}])
    BY <1>3, ZenonT(30) DEF Resolve
  <2> QED
    BY <1>go, <2>1, <2>2, <2>3, <2>4
<1>4. ASSUME NEW t \in Threads, Assign(t) PROVE Counted'
  <2> DEFINE l == th[t]
  <2>1. l \in Thread /\ l.pc = "assign" /\ ~ Owing(t)
    BY <1>4, <1>t DEF Assign, At, Owing
  <2>2. \A s : [l EXCEPT !.pc = "resolve", !.todo = @ \ {s}, !.chosen = NoQuestion].pc
                 = "resolve"
    BY <2>1 DEF Thread
  <2> QED
    BY <1>4, <1>go, <2>1, <2>2 DEF Assign
<1>5. ASSUME NEW t \in Threads, Resolved(t) PROVE Counted'
  <2>1. [th[t] EXCEPT !.pc = "check"].pc = "check"
    BY <1>t DEF Thread
  <2> QED
    BY <1>5, <1>go, <1>idle, <2>1 DEF Resolved, At, Owing
<1>6. ASSUME NEW t \in Threads, Check(t) PROVE Counted'
  <2>1. [th[t] EXCEPT !.pc = "attempt"].pc = "attempt"
    BY <1>t DEF Thread
  <2> QED
    BY <1>6, <1>go, <1>idle, <2>1 DEF Check, At, Owing
<1>7. ASSUME NEW t \in Threads, LookUp(t) PROVE Counted'
  <2> DEFINE l == th[t]
             a == attempt[l.email]
  <2>1. /\ l \in Thread /\ l.pc = "attempt" /\ ~ Owing(t)
        /\ a.name \in Given
    BY <1>7, <1>t DEF LookUp, At, Owing, Fit, CandidateAttempt
  <2>2. /\ [l EXCEPT !.pc = "charge"].pc = "charge"
        /\ [l EXCEPT !.pc = "name"].pc = "name"
    BY <2>1 DEF Thread
  <2>3. HaveAttempt(l, a.name).pc \in {"resolve", "store"}
    BY <2>1, HaveAttemptPc
  <2> HIDE DEF l, a
  <2>4. \E k : Goto(t, k) /\ k.pc \notin {"insert", "release"}
    <3>1. CASE ~ a.begun
      BY <1>7, <1>idle, <2>2, <3>1 DEF LookUp, l, a
    <3>2. CASE a.begun /\ a.name = NoName /\ l.name # NoName
      BY <1>7, <2>2, <3>2 DEF LookUp, l, a
    <3>3. CASE a.begun /\ ~ (a.name = NoName /\ l.name # NoName)
      <4>1. Goto(t, HaveAttempt(l, a.name))
        BY <1>7, <3>3 DEF LookUp, l, a
      <4> QED
        BY <2>3, <4>1
    <3> QED
      BY <3>1, <3>2, <3>3
  <2> QED
    BY <1>7, <1>go, <2>1, <2>4 DEF LookUp
<1>8. ASSUME NEW t \in Threads, Name(t) PROVE Counted'
  <2>1. [th[t] EXCEPT !.pc = "reread"].pc = "reread" /\ ~ Owing(t)
    BY <1>8, <1>t DEF Name, At, Owing, Thread
  <2>2. \A e \in Emails : attempt'[e].begun = attempt[e].begun
    BY <1>8, <1>t DEF Name, CandidateAttempt
  <2> QED
    BY <1>8, <2>1, <2>2, CountSame DEF Name
<1>9. ASSUME NEW t \in Threads, Charge(t) PROVE Counted'
  <2> DEFINE l == [th[t] EXCEPT !.pc = "insert"]
  <2>1. l.pc = "insert" /\ ~ Owing(t)
    BY <1>9, <1>t DEF Charge, At, Owing, Thread
  <2>2. CASE charged' = charged + 1 /\ Goto(t, l)
    <3>1. Owers' = Owers \cup {t} /\ t \notin Owers
      BY <2>1, <2>2 DEF Owers, Owing, Goto, CountInv, Typed
    <3>2. IsFiniteSet(Owers') /\ Cardinality(Owers') = Cardinality(Owers) + 1
      BY <1>n, <3>1, FS_AddElement
    <3>3. Begun' = Begun /\ crashes' = crashes
      BY <1>9 DEF Charge, Begun
    <3> QED
      BY <1>t, <1>n, <2>2, <3>2, <3>3 DEF Counted
  <2>3. CASE UNCHANGED charged /\ Goto(t, Idle)
    BY <1>9, <1>go, <1>idle, <2>1, <2>3 DEF Charge
  <2> QED
    BY <1>9, <2>2, <2>3 DEF Charge
<1>10. ASSUME NEW t \in Threads, InsertAttempt(t) PROVE Counted'
  <2> DEFINE l == th[t]
  <2>1. l \in Thread /\ l.pc = "insert" /\ Owing(t) /\ l.email \in Emails
    BY <1>10, <1>t DEF InsertAttempt, At, Owing, Fit
  <2>2. CASE attempt[l.email].begun
    <3>1. [l EXCEPT !.pc = "release"].pc = "release"
      BY <2>1 DEF Thread
    <3> QED
      BY <1>10, <2>1, <2>2, <3>1, CountSame DEF InsertAttempt
  <2>3. CASE ~ attempt[l.email].begun
    <3>1. /\ Goto(t, [l EXCEPT !.pc = "reread"])
          /\ attempt' = [attempt EXCEPT ![l.email] = BeginAs(l.name)]
          /\ UNCHANGED <<charged, crashes>>
      BY <1>10, <2>3 DEF InsertAttempt
    <3>2. [l EXCEPT !.pc = "reread"].pc = "reread"
      BY <2>1 DEF Thread
    <3>3. IsFiniteSet(Owers') /\ Cardinality(Owers') = Cardinality(Owers) - 1
      BY <2>1, <3>1, <3>2, OwersLeave
    <3>4. Begun' = Begun \cup {l.email} /\ l.email \notin Begun
      BY <1>t, <2>1, <2>3, <3>1 DEF Begun, BeginAs
    <3>5. Cardinality(Begun') = Cardinality(Begun) + 1
      BY <1>n, <3>4, FS_AddElement
    <3> QED
      BY <1>t, <1>n, <3>1, <3>3, <3>5 DEF Counted
  <2> QED
    BY <2>2, <2>3
<1>11. ASSUME NEW t \in Threads, Release(t) PROVE Counted'
  <2>1. Owing(t) /\ [th[t] EXCEPT !.pc = "reread"].pc = "reread"
    BY <1>11, <1>t DEF Release, At, Owing, Thread
  <2>2. IsFiniteSet(Owers') /\ Cardinality(Owers') = Cardinality(Owers) - 1
    BY <1>11, <2>1, OwersLeave DEF Release
  <2>3. Begun' = Begun /\ crashes' = crashes /\ charged' = charged - 1
    BY <1>11 DEF Release, Begun
  <2> QED
    BY <1>t, <1>n, <2>2, <2>3 DEF Counted
<1>12. ASSUME NEW t \in Threads, Reread(t) PROVE Counted'
  <2>1. ~ Owing(t)
    BY <1>12, <1>t DEF Reread, At, Owing
  <2>2. HaveAttempt(th[t], attempt[th[t].email].name).pc \in {"resolve", "store"}
    BY <1>t, HaveAttemptPc
  <2> QED
    BY <1>12, <1>go, <2>1, <2>2 DEF Reread
<1>13. ASSUME NEW t \in Threads, Store(t) PROVE Counted'
  BY <1>13, <1>go, <1>idle DEF Store, At, Owing
<1>14. ASSUME NEW t \in Threads, Crash(t) PROVE Counted'
  <2>1. crashes' = crashes + 1 /\ Goto(t, Idle) /\ UNCHANGED <<attempt, charged>>
    BY <1>14 DEF Crash
  <2>2. Begun' = Begun /\ crashes' # 0
    BY <1>t, <2>1 DEF Begun
  <2>3. CASE Owing(t)
    <3>1. IsFiniteSet(Owers') /\ Cardinality(Owers') = Cardinality(Owers) - 1
      BY <1>idle, <2>1, <2>3, OwersLeave
    <3> QED
      BY <1>t, <1>n, <2>1, <2>2, <3>1 DEF Counted
  <2>4. CASE ~ Owing(t)
    <3>1. Owers' = Owers
      BY <1>idle, <2>1, <2>4 DEF Owers, Owing, Goto, CountInv, Typed
    <3> QED
      BY <1>n, <2>1, <2>2, <3>1 DEF Counted
  <2> QED
    BY <2>3, <2>4
<1>15. ASSUME Revoke \/ Expire \/ UNCHANGED vars PROVE Counted'
  BY <1>15, CountRests DEF Revoke, Expire, vars
<1>16. ASSUME NEW e \in Emails, TimeIsUp(e) PROVE Counted'
  <2>1. \A f \in Emails : attempt'[f].begun = attempt[f].begun
    BY <1>16, <1>t DEF TimeIsUp, CandidateAttempt
  <2> QED
    BY <1>16, <2>1, CountRests DEF TimeIsUp
<1> QED
  BY <1>1, <1>2, <1>3, <1>4, <1>5, <1>6, <1>7, <1>8, <1>9, <1>10, <1>11, <1>12,
     <1>13, <1>14, <1>15, <1>16 DEF Next, Step

LEMMA CountCorrect == Spec => []CountInv
<1>1. Init => CountInv
  BY TypedInit, CountInit DEF CountInv
<1>2. CountInv /\ [Next]_vars => CountInv'
  BY TypedStep, CountStep DEF CountInv
<1> QED
  BY <1>1, <1>2, PTL DEF Spec

\* Every reachable state is well typed: in particular a hand-back never finds
\* nothing to hand back (billing.release by the loser of the race to begin).
THEOREM TypeCorrect == Spec => []TypeOK
<1>1. CountInv => TypeOK
  <2> SUFFICES ASSUME CountInv PROVE TypeOK
    OBVIOUS
  <2>1. Cardinality(Begun) \in Nat /\ Cardinality(Owers) \in Nat
    BY BegunFinite, FS_CardinalityType DEF CountInv, Counted
  <2>2. charged \in Nat
    BY <2>1 DEF CountInv, Counted, Typed
  <2> QED
    BY <2>2 DEF CountInv, Typed, TypeOK
<1> QED
  BY <1>1, CountCorrect, PTL

\* A sitting is charged once, however many handlers begin it at the same time
\* (_get_or_start_attempt, billing.release).
THEOREM ChargedOnce == Spec => []ChargedOncePerSitting
<1>1. CountInv => ChargedOncePerSitting
  BY DEF CountInv, Counted, ChargedOncePerSitting, Owers
<1> QED
  BY <1>1, CountCorrect, PTL

-----------------------------------------------------------------------------
(***************************************************************************)
(* What is kept for good: a sitting that has begun, its clock, the name it *)
(* was begun with, and the variants frozen for it.  What a handler has     *)
(* read of them therefore still holds when it stores the submission.       *)
(***************************************************************************)
\* Served(e), in the assignments va.
ServedBy(va, e) ==
  {va[e][s] : s \in SetSlots} \cup {Pool[s][1] : s \in Slots \ SetSlots}

\* Attempts at and variants va may become bt and vb.
Grown(at, bt, va, vb) ==
  \A e \in Emails :
    /\ at[e].begun => /\ bt[e].begun
                      /\ at[e].over => bt[e].over
                      /\ bt[e].named = at[e].named
                      /\ at[e].named => bt[e].name = at[e].name
    /\ \A s \in SetSlots : va[e][s] # NoQuestion => vb[e][s] = va[e][s]

\* What handler l relies on, of the attempts at and the variants va.
Sound(l, at, va) ==
  /\ l.route = "submit" /\ l.pc \notin {"idle", "resolve", "assign"} =>
       l.question \in ServedBy(va, l.email)
  /\ l.pc \in {"release", "reread", "name", "store"} => at[l.email].begun
  /\ l.pc = "name" => ~ at[l.email].named /\ l.name # NoName
  /\ l.pc = "store" /\ at[l.email].named /\ at[l.email].name # Blank =>
       l.name = at[l.email].name

\* And what a stored submission has to show for itself.
SubSound(s, at, va) ==
  /\ at[s.email].begun
  /\ at[s.email].named /\ at[s.email].name # Blank => s.name = at[s.email].name
  /\ s.question \in ServedBy(va, s.email)

SittingInv ==
  /\ Typed
  /\ \A e \in Emails : attempt[e].named => attempt[e].name # NoName
  /\ \A t \in Threads : Sound(th[t], attempt, variant)
  /\ \A s \in subs : SubSound(s, attempt, variant)

LEMMA ServedStays ==
  ASSUME NEW at, NEW bt, NEW va, NEW vb, Grown(at, bt, va, vb),
         NEW e \in Emails, NEW q \in Questions, q \in ServedBy(va, e)
  PROVE  q \in ServedBy(vb, e)
<1>1. q # NoQuestion
  BY SittingsAssumption
<1>2. CASE \E s \in SetSlots : q = va[e][s]
  BY <1>1, <1>2 DEF Grown, ServedBy
<1> QED
  BY <1>2 DEF ServedBy

LEMMA SoundStays ==
  ASSUME NEW at, NEW bt, NEW va, NEW vb, Grown(at, bt, va, vb),
         NEW l, Fit(l), Sound(l, at, va)
  PROVE  Sound(l, bt, vb)
<1>1. CASE l.pc \in {"idle", "resolve", "assign"}
  BY <1>1 DEF Sound
<1>2. CASE l.pc \notin {"idle", "resolve", "assign"}
  <2>1. l.email \in Emails /\ (l.route = "submit" => l.question \in Questions)
    BY <1>2 DEF Fit
  <2>2. l.route = "submit" => l.question \in ServedBy(vb, l.email)
    BY <1>2, <2>1, ServedStays DEF Sound
  <2> QED
    BY <2>1, <2>2 DEF Sound, Grown
<1> QED
  BY <1>1, <1>2

LEMMA SubStays ==
  ASSUME NEW at, NEW bt, NEW va, NEW vb, Grown(at, bt, va, vb),
         NEW s \in Submission, SubSound(s, at, va)
  PROVE  SubSound(s, bt, vb)
<1>1. s.email \in Emails /\ s.question \in Questions
  BY DEF Submission
<1>2. s.question \in ServedBy(vb, s.email)
  BY <1>1, ServedStays DEF SubSound
<1> QED
  BY <1>1, <1>2 DEF SubSound, Grown

LEMMA GrownSame ==
  ASSUME UNCHANGED <<attempt, variant>>
  PROVE  Grown(attempt, attempt', variant, variant')
BY DEF Grown

\* Only four steps touch a sitting, and none undoes it.
LEMMA Grows == SittingInv /\ [Next]_vars => Grown(attempt, attempt', variant, variant')
<1> SUFFICES ASSUME SittingInv, [Next]_vars
             PROVE  Grown(attempt, attempt', variant, variant')
  OBVIOUS
<1> USE DEF invite
<1>t. /\ \A t \in Threads : /\ th[t] \in Thread /\ Fit(th[t])
                            /\ Sound(th[t], attempt, variant)
      /\ attempt \in [Emails -> CandidateAttempt]
      /\ variant \in [Emails -> [SetSlots -> Questions \cup {NoQuestion}]]
  BY DEF SittingInv, Typed
<1>1. ASSUME NEW t \in Threads, Assign(t)
      PROVE  Grown(attempt, attempt', variant, variant')
  <2>1. UNCHANGED attempt
    BY <1>1 DEF Assign
  <2>2. PICK s \in th[t].todo :
          IF variant[th[t].email][s] = NoQuestion
          THEN variant' = [variant EXCEPT ![th[t].email][s] = th[t].chosen]
          ELSE UNCHANGED variant
    BY <1>1 DEF Assign
  <2>3. \A e \in Emails, z \in SetSlots :
          variant[e][z] # NoQuestion => variant'[e][z] = variant[e][z]
    BY <1>t, <2>2
  <2> QED
    BY <2>1, <2>3 DEF Grown
<1>2. ASSUME NEW t \in Threads, Name(t)
      PROVE  Grown(attempt, attempt', variant, variant')
  <2>1. ~ attempt[th[t].email].named
    BY <1>2, <1>t DEF Name, At, Sound
  <2>2. \A e \in Emails : /\ attempt'[e].begun = attempt[e].begun
                          /\ attempt'[e].over = attempt[e].over
                          /\ attempt'[e].named = attempt[e].named
                          /\ attempt[e].named => attempt'[e].name = attempt[e].name
    BY <1>2, <1>t, <2>1 DEF Name, CandidateAttempt
  <2>3. UNCHANGED variant
    BY <1>2 DEF Name
  <2> QED
    BY <2>2, <2>3 DEF Grown
<1>3. ASSUME NEW t \in Threads, InsertAttempt(t)
      PROVE  Grown(attempt, attempt', variant, variant')
  <2>1. \A e \in Emails : attempt[e].begun => attempt'[e] = attempt[e]
    BY <1>3, <1>t DEF InsertAttempt
  <2>2. UNCHANGED variant
    BY <1>3 DEF InsertAttempt
  <2> QED
    BY <2>1, <2>2 DEF Grown
<1>4. ASSUME NEW e \in Emails, TimeIsUp(e)
      PROVE  Grown(attempt, attempt', variant, variant')
  <2>1. \A f \in Emails : /\ attempt'[f].begun = attempt[f].begun
                          /\ attempt[f].over => attempt'[f].over
                          /\ attempt'[f].named = attempt[f].named
                          /\ attempt'[f].name = attempt[f].name
    BY <1>4, <1>t DEF TimeIsUp, CandidateAttempt
  <2>2. UNCHANGED variant
    BY <1>4 DEF TimeIsUp
  <2> QED
    BY <2>1, <2>2 DEF Grown
<1>5. ASSUME NEW t \in Threads,
             Resolve(t) \/ Resolved(t) \/ Check(t) \/ LookUp(t) \/ Charge(t)
               \/ Release(t) \/ Reread(t) \/ Store(t) \/ Crash(t)
      PROVE  UNCHANGED <<attempt, variant>>
  BY <1>5 DEF Resolve, Resolved, Check, LookUp, Charge, Release, Reread, Store, Crash
<1>6. ASSUME NEW t \in Threads, NEW e \in Emails,
             \/ \E n \in Given : Start(t, e, n)
             \/ \E n \in Names, q \in Questions : Submit(t, e, n, q)
      PROVE  UNCHANGED <<attempt, variant>>
  BY <1>6 DEF Start, Submit
<1>7. ASSUME Revoke \/ Expire \/ UNCHANGED vars
      PROVE  UNCHANGED <<attempt, variant>>
  BY <1>7 DEF Revoke, Expire, vars
<1> QED
  BY <1>1, <1>2, <1>3, <1>4, <1>5, <1>6, <1>7, GrownSame DEF Next, Step

\* Nobody moves, nothing is submitted.
LEMMA Rests ==
  ASSUME SittingInv, Grown(attempt, attempt', variant, variant'),
         UNCHANGED <<th, subs>>
  PROVE  /\ \A t \in Threads : Sound(th'[t], attempt', variant')
         /\ \A s \in subs' : SubSound(s, attempt', variant')
BY SoundStays, SubStays DEF SittingInv, Typed

\* One handler moves on, and what it now relies on holds.
LEMMA Moves ==
  ASSUME SittingInv, Grown(attempt, attempt', variant, variant'),
         NEW t \in Threads, NEW l, Goto(t, l), Sound(l, attempt', variant')
  PROVE  /\ \A u \in Threads : Sound(th'[u], attempt', variant')
         /\ \A s \in subs : SubSound(s, attempt', variant')
<1>1. \A u \in Threads : th'[u] = IF u = t THEN l ELSE th[u]
  BY DEF SittingInv, Typed, Goto
<1>2. \A u \in Threads : Sound(th[u], attempt', variant')
  BY SoundStays DEF SittingInv, Typed
<1>3. \A s \in subs : SubSound(s, attempt', variant')
  BY SubStays DEF SittingInv, Typed
<1> QED
  BY <1>1, <1>2, <1>3

LEMMA IdleSound == ASSUME NEW at, NEW va PROVE Sound(Idle, at, va)
BY DEF Sound, Idle

\* With the attempt's name as it is, a handler may show the questions or store.
LEMMA HaveAttemptSound ==
  ASSUME NEW l, Fit(l), l.pc \notin {"idle", "resolve", "assign"},
         NEW at \in [Emails -> CandidateAttempt], NEW va, Sound(l, at, va),
         at[l.email].begun, at[l.email].named => at[l.email].name # NoName
  PROVE  Sound(HaveAttempt(l, at[l.email].name), at, va)
<1> DEFINE a == at[l.email]
           k == HaveAttempt(l, a.name)
<1>1. /\ l \in Thread /\ l.email \in Emails
      /\ l.route = "submit" => l.question \in ServedBy(va, l.email)
  BY DEF Fit, Sound
<1>2. a.name \in Given
  BY <1>1 DEF CandidateAttempt
<1>3. CASE l.route = "start"
  <2>1. k.pc = "resolve"
    BY <1>1, <1>3, HaveAttemptIs
  <2> HIDE DEF k
  <2>2. Sound(k, at, va)
    BY <2>1 DEF Sound
  <2> QED
    BY <2>2 DEF k
<1>4. CASE l.route = "submit"
  <2>1. /\ k.pc = "store" /\ k.route = "submit" /\ k.email = l.email
        /\ k.question = l.question /\ k.name = NameFor(l, a.name)
    BY <1>1, <1>4, HaveAttemptIs
  <2>2. a.named /\ a.name # Blank => k.name = a.name
    BY <1>1, <1>2, <2>1, NameForIs DEF Given
  <2> HIDE DEF k
  <2>3. Sound(k, at, va)
    BY <1>1, <1>4, <2>1, <2>2 DEF Sound
  <2> QED
    BY <2>3 DEF k
<1> QED
  BY <1>1, <1>3, <1>4, HaveAttemptIs

LEMMA SittingInit == Init => SittingInv
<1> SUFFICES ASSUME Init PROVE SittingInv
  OBVIOUS
<1>1. \A t \in Threads : Sound(th[t], attempt, variant)
  BY IdleSound DEF Init
<1>2. \A e \in Emails : ~ attempt[e].named
  BY DEF Init
<1>3. subs = {}
  BY DEF Init
<1> QED
  BY <1>1, <1>2, <1>3, TypedInit DEF SittingInv

LEMMA SittingStep == SittingInv /\ [Next]_vars => SittingInv'
<1> SUFFICES ASSUME SittingInv, [Next]_vars PROVE SittingInv'
  OBVIOUS
<1> DEFINE Names1 == \A e \in Emails : attempt'[e].named => attempt'[e].name # NoName
           Rest1 == /\ \A t \in Threads : Sound(th'[t], attempt', variant')
                    /\ \A s \in subs' : SubSound(s, attempt', variant')
<1> USE DEF invite
<1>y. Typed'
  BY TypedStep DEF SittingInv
<1>g. Grown(attempt, attempt', variant, variant')
  BY Grows
<1>t. /\ \A t \in Threads : /\ th[t] \in Thread /\ Fit(th[t])
                            /\ Sound(th[t], attempt, variant)
      /\ attempt \in [Emails -> CandidateAttempt]
      /\ variant \in [Emails -> [SetSlots -> Questions \cup {NoQuestion}]]
  BY DEF SittingInv, Typed
<1>n. UNCHANGED attempt => Names1
  BY DEF SittingInv
<1>s. \A va, e : ServedBy(va, e) = {va[e][s] : s \in SetSlots}
                                      \cup {Pool[s][1] : s \in Slots \ SetSlots}
  BY DEF ServedBy
\* A step that only moves one handler.
<1>go. ASSUME NEW t \in Threads, NEW l, Goto(t, l), Sound(l, attempt, variant),
              UNCHANGED <<attempt, variant, subs>>
       PROVE  Names1 /\ Rest1
  BY <1>go, <1>g, <1>n, Moves
<1>1. ASSUME NEW t \in Threads, NEW e \in Emails, NEW n \in Given,
             Start(t, e, n)
      PROVE  Names1 /\ Rest1
  <2>1. Sound([Idle EXCEPT !.pc = "attempt", !.email = e, !.name = n], attempt, variant)
    BY DEF Sound, Idle
  <2> QED
    BY <1>1, <1>go, <2>1 DEF Start
<1>2. ASSUME NEW t \in Threads, NEW e \in Emails, NEW n \in Names,
             NEW q \in Questions, Submit(t, e, n, q)
      PROVE  Names1 /\ Rest1
  <2>1. Sound([Idle EXCEPT !.pc = "resolve", !.route = "submit", !.email = e,
                           !.name = n, !.question = q, !.todo = SetSlots],
              attempt, variant)
    BY DEF Sound, Idle
  <2> QED
    BY <1>2, <1>go, <2>1 DEF Submit
<1>3. ASSUME NEW t \in Threads, Resolve(t) PROVE Names1 /\ Rest1
  <2> DEFINE l == th[t]
  <2>1. l \in Thread /\ l.pc = "resolve"
    BY <1>3, <1>t DEF Resolve, At
  <2>2. \A s, q : /\ Sound([l EXCEPT !.pc = "assign", !.todo = {s} \cup @,
                                     !.chosen = q], attempt, variant)
                  /\ Sound([l EXCEPT !.todo = @ \ {s}], attempt, variant)
    BY <2>1 DEF Sound, Thread
  <2>3. UNCHANGED <<attempt, variant, subs>>
    BY <1>3 DEF Resolve
  <2>4. \/ \E s, q : Goto(t, [l EXCEPT !.pc = "assign", !.todo = {s} \cup @, !.chosen = q])
        \/ \E s : Goto(t, [l EXCEPT !.todo = @ \ {s}])
    BY <1>3, ZenonT(30) DEF Resolve
  <2> QED
    BY <1>go, <2>2, <2>3, <2>4
<1>4. ASSUME NEW t \in Threads, Assign(t) PROVE Names1 /\ Rest1
  <2> DEFINE l == th[t]
  <2>1. l \in Thread /\ l.pc = "assign"
    BY <1>4, <1>t DEF Assign, At
  <2>2. \A s : Sound([l EXCEPT !.pc = "resolve", !.todo = @ \ {s},
                               !.chosen = NoQuestion], attempt', variant')
    BY <2>1 DEF Sound, Thread
  <2>3. UNCHANGED <<attempt, subs>>
    BY <1>4 DEF Assign
  <2> QED
    BY <1>4, <1>g, <1>n, <2>2, <2>3, Moves DEF Assign
<1>5. ASSUME NEW t \in Threads, Resolved(t) PROVE Names1 /\ Rest1
  <2> DEFINE l == th[t]
  <2>1. l \in Thread
    BY <1>t
  <2>2. l.question \in Served(l.email) =>
          Sound([l EXCEPT !.pc = "check"], attempt, variant)
    BY <2>1 DEF Sound, Thread, Served, ServedBy
  <2> QED
    BY <1>5, <1>go, <2>2, IdleSound DEF Resolved
<1>6. ASSUME NEW t \in Threads, Check(t) PROVE Names1 /\ Rest1
  <2>1. Sound([th[t] EXCEPT !.pc = "attempt"], attempt, variant)
    BY <1>6, <1>t DEF Check, At, Sound, Thread
  <2> QED
    BY <1>6, <1>go, <2>1, IdleSound DEF Check
<1>7. ASSUME NEW t \in Threads, LookUp(t) PROVE Names1 /\ Rest1
  <2> DEFINE l == th[t]
             a == attempt[l.email]
  <2>1. /\ l \in Thread /\ Fit(l) /\ l.pc = "attempt" /\ l.email \in Emails
        /\ l.route = "submit" => l.question \in ServedBy(variant, l.email)
        /\ a.named => a.name # NoName
    BY <1>7, <1>t DEF LookUp, At, Fit, Sound, SittingInv
  <2>2. CASE Goto(t, Idle)
    BY <1>7, <1>go, <2>2, IdleSound DEF LookUp
  <2>3. CASE ~ a.begun
    <3>1. Sound([l EXCEPT !.pc = "charge"], attempt, variant)
      BY <2>1 DEF Sound, Thread
    <3> QED
      BY <1>7, <1>go, <2>2, <2>3, <3>1 DEF LookUp
  <2>4. CASE a.begun /\ a.name = NoName /\ l.name # NoName
    <3>1. Sound([l EXCEPT !.pc = "name"], attempt, variant)
      BY <2>1, <2>4 DEF Sound, Thread
    <3> QED
      BY <1>7, <1>go, <2>4, <3>1 DEF LookUp
  <2>5. CASE a.begun /\ ~ (a.name = NoName /\ l.name # NoName)
    <3>1. Sound(l, attempt, variant)
      BY <1>t
    <3>2. Sound(HaveAttempt(l, a.name), attempt, variant)
      BY <1>t, <2>1, <2>5, <3>1, HaveAttemptSound
    <3>3. Goto(t, HaveAttempt(l, a.name))
      BY <1>7, <2>5 DEF LookUp
    <3> QED
      BY <1>7, <1>go, <3>2, <3>3 DEF LookUp
  <2> QED
    BY <2>3, <2>4, <2>5
<1>8. ASSUME NEW t \in Threads, Name(t) PROVE Names1 /\ Rest1
  <2> DEFINE l == th[t]
  <2>1. /\ l \in Thread /\ l.pc = "name" /\ l.email \in Emails
        /\ attempt[l.email].begun /\ ~ attempt[l.email].named
        /\ l.route = "submit" => l.question \in ServedBy(variant, l.email)
    BY <1>8, <1>t DEF Name, At, Fit, Sound
  <2>2. \A e \in Emails : /\ attempt'[e].named = attempt[e].named
                          /\ attempt'[e].begun = attempt[e].begun
                          /\ e # l.email => attempt'[e] = attempt[e]
    BY <1>8, <1>t DEF Name, CandidateAttempt
  <2>3. Names1
    BY <2>1, <2>2 DEF SittingInv
  <2>4. UNCHANGED <<variant, subs>>
    BY <1>8 DEF Name
  <2>5. Sound([l EXCEPT !.pc = "reread"], attempt', variant')
    BY <2>1, <2>2, <2>4 DEF Sound, Thread
  <2> QED
    BY <1>8, <1>g, <2>3, <2>4, <2>5, Moves DEF Name
<1>9. ASSUME NEW t \in Threads, Charge(t) PROVE Names1 /\ Rest1
  <2>1. Sound([th[t] EXCEPT !.pc = "insert"], attempt, variant)
    BY <1>9, <1>t DEF Charge, At, Sound, Thread
  <2> QED
    BY <1>9, <1>go, <2>1, IdleSound DEF Charge
<1>10. ASSUME NEW t \in Threads, InsertAttempt(t) PROVE Names1 /\ Rest1
  <2> DEFINE l == th[t]
  <2>1. /\ l \in Thread /\ l.pc = "insert" /\ l.email \in Emails
        /\ l.route = "submit" => l.question \in ServedBy(variant, l.email)
    BY <1>10, <1>t DEF InsertAttempt, At, Fit, Sound
  <2>2. UNCHANGED <<variant, subs>>
    BY <1>10 DEF InsertAttempt
  <2>3. CASE attempt[l.email].begun
    <3>1. Sound([l EXCEPT !.pc = "release"], attempt, variant)
      BY <2>1, <2>3 DEF Sound, Thread
    <3> QED
      BY <1>10, <1>go, <2>2, <2>3, <3>1 DEF InsertAttempt
  <2>4. CASE ~ attempt[l.email].begun
    <3>1. /\ Goto(t, [l EXCEPT !.pc = "reread"])
          /\ attempt' = [attempt EXCEPT ![l.email] = BeginAs(l.name)]
      BY <1>10, <2>4 DEF InsertAttempt
    <3>2. attempt'[l.email].begun
      BY <1>t, <2>1, <3>1 DEF BeginAs
    <3>3. Names1
      BY <1>t, <2>1, <3>1 DEF BeginAs, SittingInv
    <3>4. Sound([l EXCEPT !.pc = "reread"], attempt', variant')
      BY <2>1, <2>2, <3>2 DEF Sound, Thread
    <3> QED
      BY <1>g, <2>2, <3>1, <3>3, <3>4, Moves
  <2> QED
    BY <2>3, <2>4
<1>11. ASSUME NEW t \in Threads, Release(t) PROVE Names1 /\ Rest1
  <2>1. Sound([th[t] EXCEPT !.pc = "reread"], attempt, variant)
    BY <1>11, <1>t DEF Release, At, Sound, Thread
  <2> QED
    BY <1>11, <1>go, <2>1 DEF Release
<1>12. ASSUME NEW t \in Threads, Reread(t) PROVE Names1 /\ Rest1
  <2> DEFINE l == th[t]
  <2>1. /\ Fit(l) /\ Sound(l, attempt, variant) /\ l.pc = "reread"
        /\ attempt[l.email].begun /\ l.email \in Emails
        /\ attempt[l.email].named => attempt[l.email].name # NoName
    BY <1>12, <1>t DEF Reread, At, Sound, Fit, SittingInv
  <2>2. Sound(HaveAttempt(l, attempt[l.email].name), attempt, variant)
    BY <1>t, <2>1, HaveAttemptSound
  <2> QED
    BY <1>12, <1>go, <2>2 DEF Reread
<1>13. ASSUME NEW t \in Threads, Store(t) PROVE Names1 /\ Rest1
  <2> DEFINE l == th[t]
             s == [email |-> l.email, question |-> l.question, name |-> l.name,
                   late |-> Timed /\ attempt[l.email].over]
             a == attempt[l.email]
  <2>1. /\ Goto(t, Idle) /\ UNCHANGED <<attempt, variant>>
        /\ UNCHANGED subs \/ subs' = subs \cup {s}
    BY <1>13 DEF Store
  <2>2. /\ l.pc = "store" /\ l.route = "submit" /\ l.email \in Emails
        /\ a.begun /\ (a.named /\ a.name # Blank => l.name = a.name)
        /\ l.question \in ServedBy(variant, l.email)
    BY <1>13, <1>t DEF Store, At, Fit, Sound
  <2>3. SubSound(s, attempt, variant)
    BY <2>2 DEF SubSound
  <2>4. \A u \in subs : SubSound(u, attempt, variant)
    BY DEF SittingInv
  <2>5. \A u \in subs' : SubSound(u, attempt', variant')
    BY <2>1, <2>3, <2>4
  <2>6. \A u \in Threads : Sound(th'[u], attempt', variant')
    BY <1>g, <2>1, IdleSound, Moves
  <2> QED
    BY <1>n, <2>1, <2>5, <2>6
<1>14. ASSUME NEW t \in Threads, Crash(t) PROVE Names1 /\ Rest1
  BY <1>14, <1>go, IdleSound DEF Crash
<1>15. ASSUME Revoke \/ Expire \/ UNCHANGED vars
       PROVE  Names1 /\ Rest1
  <2>1. UNCHANGED <<attempt, th, subs>>
    BY <1>15 DEF Revoke, Expire, vars
  <2> QED
    BY <1>g, <1>n, <2>1, Rests
<1>16. ASSUME NEW e \in Emails, TimeIsUp(e) PROVE Names1 /\ Rest1
  <2>1. UNCHANGED <<th, subs>>
    BY <1>16 DEF TimeIsUp
  <2>2. \A f \in Emails : /\ attempt'[f].named = attempt[f].named
                          /\ attempt'[f].name = attempt[f].name
    BY <1>16, <1>t DEF TimeIsUp, CandidateAttempt
  <2> QED
    BY <1>g, <2>1, <2>2, Rests DEF SittingInv
<1>17. Names1 /\ Rest1
  BY <1>1, <1>2, <1>3, <1>4, <1>5, <1>6, <1>7, <1>8, <1>9, <1>10, <1>11, <1>12,
     <1>13, <1>14, <1>15, <1>16 DEF Next, Step
<1> QED
  BY <1>y, <1>17 DEF SittingInv

LEMMA SittingCorrect == Spec => []SittingInv
BY SittingInit, SittingStep, PTL DEF Spec

\* No request, and no other tab, gives a candidate their time back
\* (CandidateAttempt, inserted once per recipient).
THEOREM ClockCorrect == Spec => ClockNeverRestarts
<1>1. SittingInv /\ [Next]_vars =>
        [\A e \in Emails : attempt[e].begun =>
           attempt'[e].begun /\ (attempt[e].over => attempt'[e].over)]_vars
  BY Grows DEF Grown
<1> QED
  BY <1>1, SittingCorrect, PTL DEF Spec, ClockNeverRestarts

\* A candidate only ever submits questions their sitting serves, and goes on
\* serving (_resolve_slot_variant).
THEOREM ServedCorrect == Spec => []SubmissionsAreServed
<1>1. SittingInv => SubmissionsAreServed
  BY DEF SittingInv, SubSound, ServedBy, Served, SubmissionsAreServed
<1> QED
  BY <1>1, SittingCorrect, PTL

\* A sitting that began with a name shows no other on any submission
\* (candidate_submit, first name wins).
THEOREM NameCorrect == Spec => []OneNamePerSitting
<1>1. SittingInv => OneNamePerSitting
  <2> SUFFICES ASSUME SittingInv, NEW s \in subs, NEW u \in subs,
                      s.email = u.email, attempt[s.email].named,
                      attempt[s.email].name # Blank
               PROVE  s.name = u.name
    BY DEF OneNamePerSitting
  <2> QED
    BY DEF SittingInv, SubSound
<1> QED
  BY <1>1, SittingCorrect, PTL

-----------------------------------------------------------------------------
(***************************************************************************)
(* The exam the candidates see.                                            *)
(***************************************************************************)
Scene == <<Clock, Bears, Signed, variant, subs>>
ExamStep == [Candidates!Next]_Scene

LEMMA SceneStays == ASSUME UNCHANGED <<attempt, variant, subs>> PROVE ExamStep
BY DEF ExamStep, Scene, Clock, Bears, Signed

LEMMA ClockIs ==
  ASSUME NEW e \in Emails
  PROVE  /\ Clock[e] = IF ~ attempt[e].begun THEN "off"
                       ELSE IF Timed /\ attempt[e].over THEN "out" ELSE "running"
         /\ Bears[e] = attempt[e].name
         /\ Signed[e] = attempt[e].named
BY DEF Clock, Bears, Signed

LEMMA Begins ==
  ASSUME attempt \in [Emails -> CandidateAttempt], NEW e \in Emails,
         NEW n \in Given, ~ attempt[e].begun,
         attempt' = [attempt EXCEPT ![e] = BeginAs(n)], UNCHANGED <<variant, subs>>
  PROVE  ExamStep
<1>1. /\ attempt'[e].begun /\ ~ attempt'[e].over
      /\ attempt'[e].name = n /\ attempt'[e].named = (n # NoName)
      /\ \A f \in Emails \ {e} : attempt'[f] = attempt[f]
  BY DEF BeginAs
<1>2. Clock' = [Clock EXCEPT ![e] = "running"]
  BY <1>1 DEF Clock
<1>3. Bears' = [Bears EXCEPT ![e] = n] /\ Signed' = [Signed EXCEPT ![e] = (n # NoName)]
  BY <1>1 DEF Bears, Signed
<1>4. Clock[e] = "off"
  BY ClockIs
<1>5. Candidates!Begin(e, n)
  BY <1>2, <1>3, <1>4 DEF Candidates!Begin
<1> QED
  BY <1>5 DEF ExamStep, Candidates!Next, Given

LEMMA Signs ==
  ASSUME attempt \in [Emails -> CandidateAttempt], NEW e \in Emails,
         NEW n \in Names \cup {Blank}, attempt[e].begun, ~ attempt[e].named,
         attempt' = [attempt EXCEPT ![e].name = n], UNCHANGED <<variant, subs>>
  PROVE  ExamStep
<1>1. /\ attempt'[e].name = n /\ attempt'[e].begun = attempt[e].begun
      /\ attempt'[e].over = attempt[e].over /\ attempt'[e].named = attempt[e].named
      /\ \A f \in Emails \ {e} : attempt'[f] = attempt[f]
  BY DEF CandidateAttempt
<1>2. Clock' = Clock /\ Signed' = Signed
  BY <1>1 DEF Clock, Signed
<1>3. Bears' = [Bears EXCEPT ![e] = n]
  BY <1>1 DEF Bears
<1>4. Clock[e] # "off" /\ ~ Signed[e]
  BY ClockIs
<1>5. Candidates!Sign(e, n)
  BY <1>2, <1>3, <1>4 DEF Candidates!Sign
<1> QED
  BY <1>5 DEF ExamStep, Candidates!Next

LEMMA RunsOut ==
  ASSUME attempt \in [Emails -> CandidateAttempt], NEW e \in Emails, TimeIsUp(e)
  PROVE  ExamStep
<1>1. /\ attempt'[e].name = attempt[e].name /\ attempt'[e].begun /\ attempt[e].begun
      /\ attempt'[e].over /\ ~ attempt[e].over /\ Timed
      /\ attempt'[e].named = attempt[e].named
      /\ \A f \in Emails \ {e} : attempt'[f] = attempt[f]
      /\ UNCHANGED <<variant, subs>>
  BY DEF TimeIsUp, CandidateAttempt
<1>2. Bears' = Bears /\ Signed' = Signed
  BY <1>1 DEF Bears, Signed
<1>3. Clock' = [Clock EXCEPT ![e] = "out"]
  BY <1>1 DEF Clock
<1>4. Clock[e] = "running"
  BY <1>1, ClockIs
<1>5. Candidates!RunOut(e)
  BY <1>1, <1>2, <1>3, <1>4 DEF Candidates!RunOut
<1> QED
  BY <1>5 DEF ExamStep, Candidates!Next

LEMMA Deals ==
  ASSUME NEW e \in Emails, NEW s \in SetSlots, variant[e][s] = NoQuestion,
         NEW i \in DOMAIN Pool[s],
         variant' = [variant EXCEPT ![e][s] = Pool[s][i]], UNCHANGED <<attempt, subs>>
  PROVE  ExamStep
<1>1. UNCHANGED <<Clock, Bears, Signed>>
  BY DEF Clock, Bears, Signed
<1>2. Candidates!Deal(e, s)
  BY <1>1 DEF Candidates!Deal
<1> QED
  BY <1>2 DEF ExamStep, Candidates!Next

LEMMA HandsIn ==
  ASSUME NEW e \in Emails, NEW q \in Questions, NEW n \in Names, attempt[e].begun,
         q \in ServedBy(variant, e), ~ Submitted(e, q),
         attempt[e].named /\ attempt[e].name # Blank => n = attempt[e].name,
         subs' = subs \cup {[email |-> e, question |-> q, name |-> n,
                             late |-> Timed /\ attempt[e].over]},
         UNCHANGED <<attempt, variant>>
  PROVE  ExamStep
<1>1. UNCHANGED <<Clock, Bears, Signed>>
  BY DEF Clock, Bears, Signed
<1>2. /\ Clock[e] # "off" /\ (Signed[e] /\ Bears[e] # Blank => n = Bears[e])
      /\ (Timed /\ attempt[e].over) = (Clock[e] = "out")
  BY ClockIs, SittingsAssumption
<1>3. q \in Candidates!Served(e) \ {NoQuestion}
  BY SittingsAssumption DEF Candidates!Served, ServedBy
<1>4. Candidates!HandIn(e, q, n)
  BY <1>1, <1>2 DEF Candidates!HandIn, Submitted
<1> QED
  BY <1>3, <1>4 DEF ExamStep, Candidates!Next


LEMMA ExamFollows == SittingInv /\ [Next]_vars => ExamStep
<1> SUFFICES ASSUME SittingInv, [Next]_vars PROVE ExamStep
  OBVIOUS
<1>t. /\ \A t \in Threads : /\ th[t] \in Thread /\ Fit(th[t])
                            /\ Sound(th[t], attempt, variant)
      /\ attempt \in [Emails -> CandidateAttempt]
  BY DEF SittingInv, Typed
<1>1. ASSUME NEW t \in Threads, Assign(t) PROVE ExamStep
  <2> DEFINE l == th[t]
  <2>1. l.email \in Emails /\ l.todo \subseteq SetSlots
    BY <1>1, <1>t DEF Assign, At, Fit, Thread
  <2>2. PICK s \in l.todo :
          /\ \E i \in DOMAIN Pool[s] : Pool[s][i] = l.chosen
          /\ IF variant[l.email][s] = NoQuestion
             THEN variant' = [variant EXCEPT ![l.email][s] = l.chosen]
             ELSE UNCHANGED variant
    BY <1>1 DEF Assign
  <2>3. UNCHANGED <<attempt, subs>>
    BY <1>1 DEF Assign
  <2>4. CASE UNCHANGED variant
    BY <2>3, <2>4, SceneStays
  <2>5. CASE ~ UNCHANGED variant
    BY <2>1, <2>2, <2>3, <2>5, Deals
  <2> QED
    BY <2>4, <2>5
<1>2. ASSUME NEW t \in Threads, Name(t) PROVE ExamStep
  <2>1. /\ th[t].email \in Emails /\ th[t].name \in Names \cup {Blank}
        /\ attempt[th[t].email].begun /\ ~ attempt[th[t].email].named
    BY <1>2, <1>t DEF Name, At, Fit, Thread, Sound, Given
  <2>2. /\ attempt' = [attempt EXCEPT ![th[t].email].name = th[t].name]
        /\ UNCHANGED <<variant, subs>>
    BY <1>2 DEF Name
  <2> QED
    BY <1>t, <2>1, <2>2, Signs
<1>3. ASSUME NEW t \in Threads, InsertAttempt(t) PROVE ExamStep
  <2>1. th[t].email \in Emails /\ th[t].name \in Given
    BY <1>3, <1>t DEF InsertAttempt, At, Fit, Thread
  <2>2. UNCHANGED <<variant, subs>>
    BY <1>3 DEF InsertAttempt
  <2>3. CASE attempt[th[t].email].begun
    BY <1>3, <2>2, <2>3, SceneStays DEF InsertAttempt
  <2>4. CASE ~ attempt[th[t].email].begun
    <3>1. attempt' = [attempt EXCEPT ![th[t].email] = BeginAs(th[t].name)]
      BY <1>3, <2>4 DEF InsertAttempt
    <3> QED
      BY <1>t, <2>1, <2>2, <2>4, <3>1, Begins
  <2> QED
    BY <2>3, <2>4
<1>4. ASSUME NEW t \in Threads, Store(t) PROVE ExamStep
  <2> DEFINE l == th[t]
  <2>1. /\ l.pc = "store" /\ l.route = "submit" /\ l.email \in Emails
        /\ l.question \in Questions /\ l.name \in Names
        /\ attempt[l.email].begun
        /\ l.question \in ServedBy(variant, l.email)
    BY <1>4, <1>t DEF Store, At, Fit, Sound
  <2>2. attempt[l.email].named /\ attempt[l.email].name # Blank =>
          l.name = attempt[l.email].name
    BY <1>t, <2>1 DEF Sound
  <2>3. UNCHANGED <<attempt, variant>>
    BY <1>4 DEF Store
  <2>4. CASE Submitted(l.email, l.question)
    BY <1>4, <2>3, <2>4, SceneStays DEF Store
  <2>5. CASE ~ Submitted(l.email, l.question)
    <3>1. subs' = subs \cup {[email |-> l.email, question |-> l.question,
                              name |-> l.name, late |-> Timed /\ attempt[l.email].over]}
      BY <1>4, <2>5 DEF Store
    <3> QED
      BY <2>1, <2>2, <2>3, <2>5, <3>1, HandsIn
  <2> QED
    BY <2>4, <2>5
<1>5. ASSUME NEW e \in Emails, TimeIsUp(e) PROVE ExamStep
  BY <1>t, <1>5, RunsOut
<1>6. ASSUME NEW t \in Threads,
             Resolve(t) \/ Resolved(t) \/ Check(t) \/ LookUp(t) \/ Charge(t)
               \/ Release(t) \/ Reread(t) \/ Crash(t)
      PROVE  ExamStep
  BY <1>6, SceneStays
  DEF Resolve, Resolved, Check, LookUp, Charge, Release, Reread, Crash
<1>7. ASSUME NEW t \in Threads, NEW e \in Emails,
             \/ \E n \in Given : Start(t, e, n)
             \/ \E n \in Names, q \in Questions : Submit(t, e, n, q)
      PROVE  ExamStep
  BY <1>7, SceneStays DEF Start, Submit
<1>8. ASSUME Revoke \/ Expire \/ UNCHANGED vars
      PROVE  ExamStep
  BY <1>8, SceneStays DEF Revoke, Expire, vars
<1> QED
  BY <1>1, <1>2, <1>3, <1>4, <1>5, <1>6, <1>7, <1>8 DEF Next, Step

\* The routes a candidate meets are the exam they were promised, whatever tabs,
\* double clicks and dying workers do: it begins once and never gets its time
\* back, a slot deals one question for good, and each is handed in once, late
\* when it is late (start_invite, candidate_submit, _resolve_slot_variant).
THEOREM SittingsKeepTheExam == Spec => ImplementsExam
<1>1. Init => Candidates!Init
  <2> SUFFICES ASSUME Init PROVE Candidates!Init
    OBVIOUS
  <2>1. attempt = [e \in Emails |-> [begun |-> FALSE, name |-> NoName, over |-> FALSE,
                                     named |-> FALSE]]
    BY Zenon DEF Init
  <2>2. \A e \in Emails : /\ ~ attempt[e].begun /\ attempt[e].name = NoName
                          /\ attempt[e].named = FALSE
    BY <2>1
  <2>3. /\ Clock = [e \in Emails |-> "off"] /\ Bears = [e \in Emails |-> NoName]
        /\ Signed = [e \in Emails |-> FALSE]
    BY <2>2 DEF Clock, Bears, Signed
  <2>4. variant = [e \in Emails |-> [s \in SetSlots |-> NoQuestion]] /\ subs = {}
    BY Zenon DEF Init
  <2> QED
    BY <2>3, <2>4, Zenon DEF Candidates!Init
<1>2. SittingInv /\ [Next]_vars => [Candidates!Next]_<<Clock, Bears, Signed, variant, subs>>
  BY ExamFollows DEF ExamStep, Scene
<1> QED
  BY <1>1, <1>2, SittingCorrect, PTL DEF Spec, ImplementsExam, Candidates!Spec
-----------------------------------------------------------------------------
(***************************************************************************)
(* A request ends: what it has left, at most, is a matter of where it is   *)
(* and of how many set slots it has still to resolve, and each of its own  *)
(* steps brings it down.  Losing a race costs it a step, never a round.    *)
(***************************************************************************)
\* Two steps for each slot not yet resolved, and what /submit does after that;
\* or what the attempt still takes, and /start's slots after it.
AfterSlots(l)   == IF l.route = "submit" THEN 7 ELSE 0
AfterAttempt(l) == IF l.route = "start" THEN 2 * Cardinality(SetSlots) + 1 ELSE 0

StepsLeft(l) ==
  CASE l.pc = "idle"    -> 0
    [] l.pc = "resolve" -> 2 * Cardinality(l.todo) + 1 + AfterSlots(l)
    [] l.pc = "assign"  -> 2 * Cardinality(l.todo) + AfterSlots(l)
    [] l.pc = "check"   -> 7 + AfterAttempt(l)
    [] l.pc = "attempt" -> 6 + AfterAttempt(l)
    [] l.pc = "charge"  -> 5 + AfterAttempt(l)
    [] l.pc = "insert"  -> 4 + AfterAttempt(l)
    [] l.pc \in {"name", "release"} -> 3 + AfterAttempt(l)
    [] l.pc = "reread"  -> 2 + AfterAttempt(l)
    [] l.pc = "store"   -> 1 + AfterAttempt(l)

\* Nobody else's step lengthens a request, and each of its own shortens it.
RequestsEnd ==
  [][\A t \in Threads : ~ At(t, "idle") =>
       /\ StepsLeft(th'[t]) <= StepsLeft(th[t])
       /\ Step(t) => StepsLeft(th'[t]) < StepsLeft(th[t])]_vars

LEMMA TodoCounts ==
  /\ Cardinality(SetSlots) \in Nat
  /\ \A T \in SUBSET SetSlots :
       /\ Cardinality(T) \in Nat
       /\ \A s \in T : T \ {s} \in SUBSET SetSlots /\ Cardinality(T \ {s}) = Cardinality(T) - 1
<1>1. IsFiniteSet(SetSlots)
  BY SittingsAssumption, FS_Subset
<1>2. ASSUME NEW T \in SUBSET SetSlots
      PROVE  IsFiniteSet(T) /\ Cardinality(T) \in Nat
  <2>1. IsFiniteSet(T)
    BY <1>1, FS_Subset
  <2> QED
    BY <2>1, FS_CardinalityType
<1>3. ASSUME NEW T \in SUBSET SetSlots, NEW s \in T
      PROVE  Cardinality(T \ {s}) = Cardinality(T) - 1
  BY <1>2, FS_RemoveElement
<1> QED
  BY <1>1, <1>2, <1>3, FS_CardinalityType

LEMMA RouteCounts ==
  ASSUME NEW l \in Thread
  PROVE  /\ AfterSlots(l) \in Nat /\ AfterAttempt(l) \in Nat
         /\ l.route = "submit" => AfterSlots(l) = 7 /\ AfterAttempt(l) = 0
         /\ l.route = "start" => AfterSlots(l) = 0
         /\ l.route = "start" => AfterAttempt(l) = 2 * Cardinality(SetSlots) + 1
         /\ l.route \in {"start", "submit"}
         /\ l.todo \in SUBSET SetSlots /\ Cardinality(l.todo) \in Nat
<1>1. l.todo \in SUBSET SetSlots /\ l.route \in {"start", "submit"}
  BY DEF Thread
<1>2. Cardinality(l.todo) \in Nat /\ Cardinality(SetSlots) \in Nat
  BY <1>1, TodoCounts
<1> QED
  BY <1>1, <1>2 DEF AfterSlots, AfterAttempt

LEMMA SameRoute ==
  ASSUME NEW l, NEW k, k.route = l.route
  PROVE  AfterSlots(k) = AfterSlots(l) /\ AfterAttempt(k) = AfterAttempt(l)
BY DEF AfterSlots, AfterAttempt

\* The measure, place by place.
LEMMA StepsLeftAre ==
  ASSUME NEW l
  PROVE  /\ l.pc = "idle" => StepsLeft(l) = 0
         /\ l.pc = "resolve" => StepsLeft(l) = 2 * Cardinality(l.todo) + 1 + AfterSlots(l)
         /\ l.pc = "assign" => StepsLeft(l) = 2 * Cardinality(l.todo) + AfterSlots(l)
         /\ l.pc = "check" => StepsLeft(l) = 7 + AfterAttempt(l)
         /\ l.pc = "attempt" => StepsLeft(l) = 6 + AfterAttempt(l)
         /\ l.pc = "charge" => StepsLeft(l) = 5 + AfterAttempt(l)
         /\ l.pc = "insert" => StepsLeft(l) = 4 + AfterAttempt(l)
         /\ l.pc \in {"name", "release"} => StepsLeft(l) = 3 + AfterAttempt(l)
         /\ l.pc = "reread" => StepsLeft(l) = 2 + AfterAttempt(l)
         /\ l.pc = "store" => StepsLeft(l) = 1 + AfterAttempt(l)
BY DEF StepsLeft

LEMMA StepsLeftType == ASSUME NEW l \in Thread PROVE StepsLeft(l) \in Nat
<1>1. AfterSlots(l) \in Nat /\ AfterAttempt(l) \in Nat /\ Cardinality(l.todo) \in Nat
  BY RouteCounts
<1> QED
  BY <1>1, StepsLeftAre DEF Thread

\* Where the attempt is had, /start has its slots before it and /submit its row.
LEMMA HaveAttemptSteps ==
  ASSUME NEW l \in Thread, NEW n \in Given
  PROVE  StepsLeft(HaveAttempt(l, n)) <= 1 + AfterAttempt(l)
<1> DEFINE k == HaveAttempt(l, n)
<1>1. CASE l.route = "start"
  <2>1. k.pc = "resolve" /\ k.todo = SetSlots /\ k.route = "start"
    BY <1>1, HaveAttemptIs
  <2> HIDE DEF k
  <2>2. StepsLeft(k) = 2 * Cardinality(SetSlots) + 1 + AfterSlots(k) /\ AfterSlots(k) = 0
    BY <2>1, StepsLeftAre DEF AfterSlots
  <2>3. AfterAttempt(l) = 2 * Cardinality(SetSlots) + 1 /\ Cardinality(SetSlots) \in Nat
    BY <1>1, RouteCounts, TodoCounts
  <2>4. StepsLeft(k) <= 1 + AfterAttempt(l)
    BY <2>2, <2>3
  <2> QED
    BY <2>4 DEF k
<1>2. CASE l.route = "submit"
  <2>1. k.pc = "store" /\ k.route = "submit"
    BY <1>2, HaveAttemptIs
  <2> HIDE DEF k
  <2>2. StepsLeft(k) = 1 + AfterAttempt(k) /\ AfterAttempt(k) = 0 /\ AfterAttempt(l) = 0
    BY <1>2, <2>1, StepsLeftAre, RouteCounts DEF AfterAttempt
  <2>3. StepsLeft(k) <= 1 + AfterAttempt(l)
    BY <2>2
  <2> QED
    BY <2>3 DEF k
<1> QED
  BY <1>1, <1>2, RouteCounts

LEMMA StepCounts ==
  ASSUME Typed, NEW t \in Threads, Step(t)
  PROVE  StepsLeft(th'[t]) < StepsLeft(th[t])
<1> DEFINE l == th[t]
           k == th'[t]
<1>go. \A m : Goto(t, m) => k = m
  BY DEF Typed, Goto
<1>0. l \in Thread /\ l.todo \in SUBSET SetSlots
  BY DEF Typed, Thread
<1>1. /\ AfterSlots(l) \in Nat /\ AfterAttempt(l) \in Nat /\ Cardinality(l.todo) \in Nat
      /\ l.route = "submit" => AfterSlots(l) = 7
  BY <1>0, RouteCounts
<1>2. StepsLeft(Idle) = 0
  <2>1. Idle.pc = "idle"
    BY DEF Idle
  <2> QED
    BY <2>1, StepsLeftAre
<1>3. ASSUME l.pc # "idle", k = HaveAttempt(l, attempt[l.email].name)
      PROVE  StepsLeft(k) <= 1 + AfterAttempt(l) /\ StepsLeft(k) \in Nat
  <2> DEFINE n == attempt[l.email].name
  <2>1. n \in Given
    BY <1>3 DEF Typed, Fit, CandidateAttempt
  <2> HIDE DEF n
  <2>2. StepsLeft(HaveAttempt(l, n)) <= 1 + AfterAttempt(l)
    BY <1>0, <2>1, HaveAttemptSteps
  <2>3. Fit(HaveAttempt(l, n))
    BY <1>3, <2>1, HaveAttemptFit DEF Typed
  <2>4. k = HaveAttempt(l, n)
    BY <1>3 DEF n
  <2>5. StepsLeft(k) \in Nat
    BY <2>3, <2>4, StepsLeftType DEF Fit
  <2> QED
    BY <2>2, <2>4, <2>5
\* On to another place, with all else as it was.
<1>4. ASSUME NEW pc, k = [l EXCEPT !.pc = pc]
      PROVE  k.pc = pc /\ AfterAttempt(k) = AfterAttempt(l)
  <2>1. k.pc = pc /\ k.route = l.route
    BY <1>0, <1>4 DEF Thread
  <2> QED
    BY <2>1, SameRoute
<1>5. CASE Resolve(t)
  <2>1. PICK s \in l.todo :
          \/ \E q : Goto(t, [l EXCEPT !.pc = "assign", !.todo = {s} \cup @, !.chosen = q])
          \/ Goto(t, [l EXCEPT !.todo = @ \ {s}])
    BY <1>5, ZenonT(30) DEF Resolve
  <2>2. l.pc = "resolve" /\ StepsLeft(l) = 2 * Cardinality(l.todo) + 1 + AfterSlots(l)
    BY <1>5, StepsLeftAre DEF Resolve, At
  <2>3. CASE \E q : Goto(t, [l EXCEPT !.pc = "assign", !.todo = {s} \cup @, !.chosen = q])
    <3>0. PICK q : k = [l EXCEPT !.pc = "assign", !.todo = {s} \cup @, !.chosen = q]
      BY <1>go, <2>3
    <3>1. k.pc = "assign" /\ k.todo = {s} \cup l.todo /\ k.route = l.route
      BY <1>0, <3>0 DEF Thread
    <3>2. k.todo = l.todo
      BY <3>1
    <3>3. StepsLeft(k) = 2 * Cardinality(k.todo) + AfterSlots(k)
      BY <3>1, StepsLeftAre
    <3>4. AfterSlots(k) = AfterSlots(l)
      BY <3>1, SameRoute
    <3> QED
      BY <1>1, <2>2, <3>2, <3>3, <3>4
  <2>4. CASE Goto(t, [l EXCEPT !.todo = @ \ {s}])
    <3>0. k = [l EXCEPT !.todo = @ \ {s}]
      BY <1>go, <2>4
    <3>1. k.pc = "resolve" /\ k.todo = l.todo \ {s} /\ k.route = l.route
      BY <1>0, <2>2, <3>0 DEF Thread
    <3>2. Cardinality(k.todo) = Cardinality(l.todo) - 1
      BY <1>0, <3>1, TodoCounts
    <3>3. StepsLeft(k) = 2 * Cardinality(k.todo) + 1 + AfterSlots(k)
      BY <3>1, StepsLeftAre
    <3>4. AfterSlots(k) = AfterSlots(l)
      BY <3>1, SameRoute
    <3> QED
      BY <1>1, <2>2, <3>2, <3>3, <3>4
  <2> QED
    BY <2>1, <2>3, <2>4
<1>6. CASE Assign(t)
  <2>1. PICK s \in l.todo :
          Goto(t, [l EXCEPT !.pc = "resolve", !.todo = @ \ {s}, !.chosen = NoQuestion])
    BY <1>6, ZenonT(30) DEF Assign
  <2>2. StepsLeft(l) = 2 * Cardinality(l.todo) + AfterSlots(l)
    BY <1>6, StepsLeftAre DEF Assign, At
  <2>3. k.pc = "resolve" /\ k.todo = l.todo \ {s} /\ k.route = l.route
    <3>1. k = [l EXCEPT !.pc = "resolve", !.todo = @ \ {s}, !.chosen = NoQuestion]
      BY <1>go, <2>1
    <3> QED
      BY <1>0, <3>1 DEF Thread
  <2>4. Cardinality(k.todo) = Cardinality(l.todo) - 1
    BY <1>0, <2>3, TodoCounts
  <2>5. StepsLeft(k) = 2 * Cardinality(k.todo) + 1 + AfterSlots(k)
    BY <2>3, StepsLeftAre
  <2>6. AfterSlots(k) = AfterSlots(l)
    BY <2>3, SameRoute
  <2> QED
    BY <1>1, <2>2, <2>4, <2>5, <2>6
<1>7. CASE Resolved(t)
  <2>1. \/ k = Idle
        \/ l.route = "submit" /\ k = [l EXCEPT !.pc = "check"]
    BY <1>7, <1>go DEF Resolved
  <2>2. StepsLeft(l) = 2 * Cardinality(l.todo) + 1 + AfterSlots(l)
    BY <1>7, StepsLeftAre DEF Resolved, At
  <2>3. CASE k = Idle
    BY <1>1, <1>2, <2>2, <2>3
  <2>4. CASE l.route = "submit" /\ k = [l EXCEPT !.pc = "check"]
    <3>1. k.pc = "check" /\ AfterAttempt(k) = AfterAttempt(l)
      BY <1>4, <2>4
    <3>2. StepsLeft(k) = 7 + AfterAttempt(k)
      BY <3>1, StepsLeftAre
    <3>3. AfterAttempt(l) = 0
      BY <1>0, <2>4, RouteCounts
    <3> QED
      BY <1>1, <2>2, <2>4, <3>1, <3>2, <3>3
  <2> QED
    BY <2>1, <2>3, <2>4
<1>8. CASE Check(t)
  <2>1. k = Idle \/ k = [l EXCEPT !.pc = "attempt"]
    BY <1>8, <1>go DEF Check
  <2>2. StepsLeft(l) = 7 + AfterAttempt(l)
    BY <1>8, StepsLeftAre DEF Check, At
  <2>3. StepsLeft(k) = 0 \/ StepsLeft(k) = 6 + AfterAttempt(l)
    BY <1>2, <1>4, <2>1, StepsLeftAre
  <2> QED
    BY <1>1, <2>2, <2>3
<1>9. CASE LookUp(t)
  <2>1. \/ k = Idle \/ k = [l EXCEPT !.pc = "charge"] \/ k = [l EXCEPT !.pc = "name"]
        \/ k = HaveAttempt(l, attempt[l.email].name)
    BY <1>9, <1>go DEF LookUp
  <2>2. l.pc = "attempt" /\ StepsLeft(l) = 6 + AfterAttempt(l)
    BY <1>9, StepsLeftAre DEF LookUp, At
  <2>3. CASE k = Idle \/ k = [l EXCEPT !.pc = "charge"] \/ k = [l EXCEPT !.pc = "name"]
    <3>1. StepsLeft(k) \in {0, 5 + AfterAttempt(l), 3 + AfterAttempt(l)}
      BY <1>2, <1>4, <2>3, StepsLeftAre
    <3> QED
      BY <1>1, <2>2, <3>1
  <2>4. CASE k = HaveAttempt(l, attempt[l.email].name)
    <3>1. StepsLeft(k) <= 1 + AfterAttempt(l) /\ StepsLeft(k) \in Nat
      BY <1>3, <2>2, <2>4
    <3> QED
      BY <1>1, <2>2, <3>1
  <2> QED
    BY <2>1, <2>3, <2>4
<1>10. CASE Name(t)
  <2>1. k = [l EXCEPT !.pc = "reread"]
    BY <1>10, <1>go DEF Name
  <2>2. StepsLeft(l) = 3 + AfterAttempt(l) /\ StepsLeft(k) = 2 + AfterAttempt(l)
    BY <1>4, <1>10, <2>1, StepsLeftAre DEF Name, At
  <2> QED
    BY <1>1, <2>2
<1>11. CASE Charge(t)
  <2>1. k = Idle \/ k = [l EXCEPT !.pc = "insert"]
    BY <1>11, <1>go DEF Charge
  <2>2. StepsLeft(l) = 5 + AfterAttempt(l)
    BY <1>11, StepsLeftAre DEF Charge, At
  <2>3. StepsLeft(k) = 0 \/ StepsLeft(k) = 4 + AfterAttempt(l)
    BY <1>2, <1>4, <2>1, StepsLeftAre
  <2> QED
    BY <1>1, <2>2, <2>3
<1>12. CASE InsertAttempt(t)
  <2>1. k = [l EXCEPT !.pc = "release"] \/ k = [l EXCEPT !.pc = "reread"]
    BY <1>12, <1>go DEF InsertAttempt
  <2>2. StepsLeft(l) = 4 + AfterAttempt(l)
    BY <1>12, StepsLeftAre DEF InsertAttempt, At
  <2>3. StepsLeft(k) = 3 + AfterAttempt(l) \/ StepsLeft(k) = 2 + AfterAttempt(l)
    BY <1>4, <2>1, StepsLeftAre
  <2> QED
    BY <1>1, <2>2, <2>3
<1>13. CASE Release(t)
  <2>1. k = [l EXCEPT !.pc = "reread"]
    BY <1>13, <1>go DEF Release
  <2>2. StepsLeft(l) = 3 + AfterAttempt(l) /\ StepsLeft(k) = 2 + AfterAttempt(l)
    BY <1>4, <1>13, <2>1, StepsLeftAre DEF Release, At
  <2> QED
    BY <1>1, <2>2
<1>14. CASE Reread(t)
  <2>1. l.pc = "reread" /\ k = HaveAttempt(l, attempt[l.email].name)
    BY <1>14, <1>go DEF Reread, At
  <2>2. StepsLeft(l) = 2 + AfterAttempt(l)
    BY <2>1, StepsLeftAre
  <2>3. StepsLeft(k) <= 1 + AfterAttempt(l) /\ StepsLeft(k) \in Nat
    BY <1>3, <2>1
  <2> QED
    BY <1>1, <2>2, <2>3
<1>15. CASE Store(t)
  <2>1. k = Idle
    BY <1>15, <1>go DEF Store
  <2>2. StepsLeft(l) = 1 + AfterAttempt(l)
    BY <1>15, StepsLeftAre DEF Store, At
  <2> QED
    BY <1>1, <1>2, <2>1, <2>2
<1> QED
  BY <1>5, <1>6, <1>7, <1>8, <1>9, <1>10, <1>11, <1>12, <1>13, <1>14, <1>15 DEF Step

\* A request's own place is its own: another's step does not touch it.
LEMMA OthersPassBy ==
  ASSUME Typed, [Next]_vars, NEW t \in Threads, ~ At(t, "idle")
  PROVE  Step(t) \/ Crash(t) \/ th'[t] = th[t]
<1>1. ASSUME NEW u \in Threads, u # t, NEW l, Goto(u, l) PROVE th'[t] = th[t]
  BY <1>1 DEF Goto, Typed
<1>2. ASSUME NEW u \in Threads, u # t,
             \/ \E e \in Emails, n \in Given : Start(u, e, n)
             \/ \E e \in Emails, n \in Names, q \in Questions : Submit(u, e, n, q)
             \/ Step(u) \/ Crash(u)
      PROVE  \E l : Goto(u, l)
  <2>1. Step(u) => \E l : Goto(u, l)
    <3>1. Resolve(u) => \E l : Goto(u, l)
      BY DEF Resolve
    <3>2. Assign(u) => \E l : Goto(u, l)
      BY DEF Assign
    <3>3. LookUp(u) => \E l : Goto(u, l)
      BY DEF LookUp
    <3>4. InsertAttempt(u) \/ Charge(u) => \E l : Goto(u, l)
      BY DEF InsertAttempt, Charge
    <3>5. Resolved(u) => \E l : Goto(u, l)
      BY Zenon DEF Resolved
    <3>6. Check(u) => \E l : Goto(u, l)
      BY Zenon DEF Check
    <3>7. Name(u) \/ Release(u) \/ Store(u) => \E l : Goto(u, l)
      BY DEF Name, Release, Store
    <3>8. Reread(u) => \E l : Goto(u, l)
      BY Zenon DEF Reread
    <3> QED
      BY <3>1, <3>2, <3>3, <3>4, <3>5, <3>6, <3>7, <3>8 DEF Step
  <2>2. (\E e \in Emails, n \in Given : Start(u, e, n)) => \E l : Goto(u, l)
    BY DEF Start
  <2>3. (\E e \in Emails, n \in Names, q \in Questions : Submit(u, e, n, q))
          => \E l : Goto(u, l)
    BY DEF Submit
  <2>4. Crash(u) => \E l : Goto(u, l)
    BY DEF Crash
  <2> QED
    BY <1>2, <2>1, <2>2, <2>3, <2>4
<1>3. /\ \A e \in Emails, n \in Given : ~ Start(t, e, n)
      /\ \A e \in Emails, n \in Names, q \in Questions : ~ Submit(t, e, n, q)
  BY Zenon DEF Start, Submit
<1>4. Revoke \/ Expire \/ (\E e \in Emails : TimeIsUp(e))
        \/ UNCHANGED vars
        => th' = th
  BY DEF Revoke, Expire, TimeIsUp, vars
<1> QED
  BY <1>1, <1>2, <1>3, <1>4 DEF Next

\* Every request comes to its end within 2 * Cardinality(SetSlots) + 8 steps of
\* its own, whatever the other tabs do meanwhile (start_invite, candidate_submit).
THEOREM RequestsDoEnd == Spec => RequestsEnd
<1>1. ASSUME Typed, [Next]_vars, NEW t \in Threads, ~ At(t, "idle")
      PROVE  /\ StepsLeft(th'[t]) <= StepsLeft(th[t])
             /\ Step(t) => StepsLeft(th'[t]) < StepsLeft(th[t])
  <2>0. th[t] \in Thread /\ th'[t] \in Thread
    BY <1>1, TypedStep DEF Typed
  <2>1. StepsLeft(th[t]) \in Nat /\ StepsLeft(th'[t]) \in Nat
    BY <2>0, StepsLeftType
  <2>2. Step(t) => StepsLeft(th'[t]) < StepsLeft(th[t])
    BY <1>1, StepCounts
  <2>3. CASE Step(t)
    BY <2>1, <2>2, <2>3
  <2>4. CASE Crash(t)
    <3>1. th'[t] = Idle /\ Idle.pc = "idle"
      BY <1>1, <2>4 DEF Crash, Goto, Typed, Idle
    <3>2. StepsLeft(th'[t]) = 0
      BY <2>0, <3>1, StepsLeftAre
    <3> QED
      BY <2>1, <2>2, <3>2
  <2>5. CASE th'[t] = th[t]
    BY <2>1, <2>2, <2>5
  <2> QED
    BY <1>1, <2>3, <2>4, <2>5, OthersPassBy
<1>2. CountInv /\ [Next]_vars =>
        [\A t \in Threads : ~ At(t, "idle") =>
           /\ StepsLeft(th'[t]) <= StepsLeft(th[t])
           /\ Step(t) => StepsLeft(th'[t]) < StepsLeft(th[t])]_vars
  BY <1>1 DEF CountInv
<1> QED
  BY <1>2, CountCorrect, PTL DEF Spec, RequestsEnd
=============================================================================
