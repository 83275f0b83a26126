--------------------------- MODULE MeteringProofs ---------------------------
(***************************************************************************)
(* Proofs about Metering, for every number of handlers, every set of plans *)
(* and units, and every number of months, calls and crashes.               *)
(***************************************************************************)
EXTENDS Metering, TLAPS, FiniteSetTheorems

-----------------------------------------------------------------------------
(* Type correctness. *)

LEMMA FloorType == ASSUME NEW n \in Int PROVE Floor(n) \in Nat
BY DEF Floor

LEMMA MonthsType == Months \subseteq Nat /\ 0 \in Months /\ 1 \in Months
BY MeteringAssumption DEF Months

LEMMA IdleType == Idle \in Call
BY MonthsType DEF Idle, Call

LEMMA NoRowType == NoRow \in OrgUsage
BY DEF NoRow, OrgUsage

\* One handler moves on, one month's row is written.
LEMMA GotoType ==
  ASSUME TypeOK, NEW t \in Threads, NEW c \in Call, Goto(t, c)
  PROVE  call' \in [Threads -> Call]
BY DEF TypeOK, Goto

LEMMA StoreType ==
  ASSUME TypeOK, NEW m \in Months, NEW r \in OrgUsage, Store(m, r)
  PROVE  rows' \in [Months -> OrgUsage]
BY DEF TypeOK, Store

LEMMA CarriedType ==
  ASSUME TypeOK, NEW m \in Months
  PROVE  CarriedFromPrevious(m) \in Nat
<1>1. m > 0 => m - 1 \in Months
  BY MonthsType, MeteringAssumption DEF Months
<1> QED
  BY <1>1 DEF TypeOK, OrgUsage, CarriedFromPrevious

LEMMA AddedType ==
  ASSUME NEW r \in OrgUsage, NEW c \in Call
  PROVE  Added(r, c) \in OrgUsage
<1>1. r.used + c.n \in Nat /\ r.over + c.over \in Nat
  BY DEF OrgUsage, Call
<1> QED
  BY <1>1 DEF Added, OrgUsage

LEMMA RecordedType ==
  ASSUME NEW c \in Call
  PROVE  Recorded(c) \in Call
<1>1. c.n \in Nat /\ c.left \in Nat
  BY DEF Call
<1>2. CASE c.n > 0
  BY <1>1, <1>2 DEF Recorded, Call
<1>3. CASE c.n = 0 /\ c.left > 0
  BY <1>1, <1>3 DEF Recorded, Call
<1>4. CASE c.n = 0 /\ c.left = 0
  BY <1>1, <1>4, IdleType DEF Recorded
<1> QED
  BY <1>1, <1>2, <1>3, <1>4

LEMMA SettledType ==
  ASSUME NEW k \in Nat
  PROVE  /\ Settled(k) \in OrgUsage
         /\ Settled(k).stored /\ Settled(k).carried = k
         /\ Settled(k).used = 0 /\ Settled(k).over = 0
BY DEF Settled, NoRow, OrgUsage

LEMMA TypeInit == Init => TypeOK
<1> SUFFICES ASSUME Init PROVE TypeOK
  OBVIOUS
<1>0. PICK debt \in Debts, initial \in Limits :
        /\ month = 1 /\ limit = initial /\ best = initial
        /\ rows = [m \in Months |->
                     IF m = 0 THEN [NoRow EXCEPT !.stored = TRUE,
                                       !.used = initial + debt, !.over = debt]
                     ELSE NoRow]
        /\ delivered = [m \in Months |-> IF m = 0 THEN initial + debt ELSE 0]
  BY DEF Init
<1>1. debt \in Nat /\ initial \in Nat /\ initial + debt \in Nat
  BY <1>0, MeteringAssumption
<1>2. [NoRow EXCEPT !.stored = TRUE, !.used = initial + debt, !.over = debt]
        \in OrgUsage
  BY <1>1 DEF NoRow, OrgUsage
<1>3. rows \in [Months -> OrgUsage] /\ delivered \in [Months -> Nat]
  BY <1>0, <1>1, <1>2, NoRowType
<1>4. call \in [Threads -> Call] /\ enforced \in BOOLEAN /\ late \in [Months -> Nat]
  BY IdleType DEF Init
<1> QED
  BY <1>0, <1>3, <1>4, MonthsType DEF Init, TypeOK

LEMMA TypeStep == TypeOK /\ [Next]_vars => TypeOK'
<1> SUFFICES ASSUME TypeOK, [Next]_vars PROVE TypeOK'
  OBVIOUS
<1> USE MeteringAssumption DEF history, setting, bound
<1>c. \A t \in Threads :
        /\ call[t] \in Call /\ call[t].period \in Months
        /\ rows[call[t].period] \in OrgUsage
  BY DEF TypeOK, Call
<1>m. month \in Months /\ month \in Nat /\ rows[month] \in OrgUsage
  BY MonthsType DEF TypeOK
<1>a. \A r \in OrgUsage : Allowance(r) \in Nat
  <2> SUFFICES ASSUME NEW r \in OrgUsage PROVE Allowance(r) \in Nat
    OBVIOUS
  <2>1. limit - r.carried \in Int
    BY DEF TypeOK, OrgUsage
  <2> QED
    BY <2>1, FloorType DEF Allowance
<1>1. ASSUME NEW t \in Threads, NEW n \in Units, Consume(t, n) PROVE TypeOK'
  <2>1. [Idle EXCEPT !.pc = "look", !.n = n, !.period = month, !.began = month]
          \in Call
    BY <1>m, IdleType DEF Idle, Call
  <2> QED
    BY <1>1, <2>1, GotoType DEF Consume, TypeOK
<1>2. ASSUME NEW t \in Threads, RecordCost(t) PROVE TypeOK'
  <2>1. [Idle EXCEPT !.pc = "record", !.period = month, !.began = month] \in Call
    BY <1>m, IdleType DEF Idle, Call
  <2> QED
    BY <1>2, <2>1, GotoType DEF RecordCost, TypeOK
<1>3. ASSUME NEW t \in Threads, Look(t) PROVE TypeOK'
  <2> DEFINE c == call[t]
             row == rows[c.period]
             past == Floor(row.used + c.n - Allowance(row))
  <2>1. c \in Call /\ row \in OrgUsage
    BY <1>c
  <2>2. Allowance(row) \in Nat /\ past \in Nat /\ c.n \in Nat
    <3>1. row.used + c.n - Allowance(row) \in Int /\ c.n \in Nat
      BY <2>1, <1>a DEF OrgUsage, Call
    <3> QED
      BY <2>1, <3>1, <1>a, FloorType
  <2>3. [c EXCEPT !.pc = "ensure"] \in Call
    BY <2>1 DEF Call
  <2>4. [c EXCEPT !.pc = "claim", !.limit = Allowance(row)] \in Call
    BY <2>1, <2>2 DEF Call
  <2>5. [c EXCEPT !.pc = "record", !.over = IF past < c.n THEN past ELSE c.n] \in Call
    <3>1. (IF past < c.n THEN past ELSE c.n) \in Nat
      BY <2>2
    <3> QED
      BY <2>1, <3>1 DEF Call
  <2>6. \E l \in Call : Goto(t, l)
    <3>1. CASE ~ row.stored
      BY <1>3, <2>3, <3>1 DEF Look
    <3>2. CASE row.stored /\ enforced
      BY <1>3, <2>4, <3>2 DEF Look
    <3>3. CASE row.stored /\ ~ enforced
      BY <1>3, <2>5, <3>3 DEF Look
    <3> QED
      BY <3>1, <3>2, <3>3
  <2> QED
    BY <1>3, <2>6, GotoType DEF Look, TypeOK
<1>4. ASSUME NEW t \in Threads, Ensure(t) PROVE TypeOK'
  <2> DEFINE c == call[t]
             l == [c EXCEPT !.pc = "insert", !.owed = CarriedFromPrevious(c.period)]
  <2>1. l \in Call
    BY <1>c, CarriedType DEF Call
  <2> QED
    BY <1>4, <2>1, GotoType DEF Ensure, TypeOK
<1>4a. ASSUME NEW t \in Threads, Insert(t) PROVE TypeOK'
  <2> DEFINE c == call[t]
  <2>1. c \in Call /\ c.period \in Months /\ c.owed \in Nat
    BY <1>c DEF Call
  <2>2. [c EXCEPT !.pc = c.back, !.owed = 0] \in Call
    BY <2>1 DEF Call
  <2>3. UNCHANGED rows \/ Store(c.period, Settled(c.owed))
    BY <1>4a DEF Insert
  <2>4. rows' \in [Months -> OrgUsage]
    BY <2>1, <2>3, SettledType, StoreType DEF TypeOK
  <2>5. call' \in [Threads -> Call]
    BY <1>4a, <2>2, GotoType DEF Insert
  <2> QED
    BY <1>4a, <2>4, <2>5 DEF Insert, TypeOK
<1>5. ASSUME NEW t \in Threads, Claim(t) PROVE TypeOK'
  <2> DEFINE c == call[t]
             r == [rows[c.period] EXCEPT !.used = @ + c.n]
  <2>1. c \in Call /\ c.period \in Months /\ rows[c.period] \in OrgUsage
    BY <1>c
  <2>2. r \in OrgUsage
    <3>1. rows[c.period].used + c.n \in Nat
      BY <2>1 DEF OrgUsage, Call
    <3> QED
      BY <2>1, <3>1 DEF OrgUsage
  <2>3. [c EXCEPT !.pc = "working", !.limit = 0] \in Call
    BY <2>1 DEF Call
  <2>4. /\ UNCHANGED rows \/ Store(c.period, r)
        /\ Goto(t, Idle) \/ Goto(t, [c EXCEPT !.pc = "working", !.limit = 0])
    BY <1>5 DEF Claim
  <2>5. rows' \in [Months -> OrgUsage]
    BY <2>1, <2>2, <2>4, StoreType DEF TypeOK
  <2>6. call' \in [Threads -> Call]
    BY <2>3, <2>4, IdleType, GotoType
  <2> QED
    BY <1>5, <2>5, <2>6 DEF Claim, TypeOK
<1>6. ASSUME NEW t \in Threads, Record(t) PROVE TypeOK'
  <2>1. [call[t] EXCEPT !.pc = "bump", !.period = month] \in Call
    BY <1>c, <1>m DEF Call
  <2> QED
    BY <1>6, <2>1, GotoType DEF Record, TypeOK
<1>7. ASSUME NEW t \in Threads, Bump(t) PROVE TypeOK'
  <2> DEFINE c == call[t]
             l == [c EXCEPT !.pc = "ensure", !.back = "bump"]
  <2>1. c \in Call /\ c.period \in Months /\ rows[c.period] \in OrgUsage /\ c.over \in Nat
    BY <1>c DEF Call
  <2>2. Recorded(c) \in Call /\ Added(rows[c.period], c) \in OrgUsage /\ l \in Call
    BY <2>1, RecordedType, AddedType DEF Call
  <2>3. /\ UNCHANGED rows \/ Store(c.period, Added(rows[c.period], c))
        /\ Goto(t, Recorded(c)) \/ Goto(t, l)
        /\ UNCHANGED late \/ late' = [late EXCEPT ![c.period] = @ + c.over]
    BY <1>7 DEF Bump
  <2>4. rows' \in [Months -> OrgUsage]
    BY <2>1, <2>2, <2>3, StoreType DEF TypeOK
  <2>5. call' \in [Threads -> Call]
    BY <2>2, <2>3, GotoType
  <2>6. late' \in [Months -> Nat]
    <3>1. late[c.period] + c.over \in Nat
      BY <2>1 DEF TypeOK
    <3> QED
      BY <2>3, <3>1 DEF TypeOK
  <2> QED
    BY <1>7, <2>4, <2>5, <2>6 DEF Bump, TypeOK
<1>8. ASSUME NEW t \in Threads, NEW k \in 0 .. call[t].n, Work(t, k) PROVE TypeOK'
  <2> DEFINE c == call[t]
             short == c.n - k
  <2>1. c \in Call /\ c.period \in Months
    BY <1>c
  <2>2. k \in Nat /\ short \in Nat
    BY <2>1 DEF Call
  <2>3. delivered' \in [Months -> Nat]
    <3>1. delivered[c.period] + k \in Nat
      BY <2>1, <2>2 DEF TypeOK
    <3> QED
      BY <1>8, <3>1 DEF Work, TypeOK
  <2>4. handed' \subseteq Months
    BY <1>8, <2>1 DEF Work, TypeOK
  <2>5. /\ [c EXCEPT !.pc = "release", !.n = short] \in Call
        /\ [c EXCEPT !.pc = "record", !.n = 0, !.left = short] \in Call
    BY <2>1, <2>2 DEF Call
  <2>6. \E l \in Call : Goto(t, l)
    <3>1. \/ Goto(t, [c EXCEPT !.pc = "release", !.n = short])
          \/ Goto(t, Idle)
          \/ Goto(t, [c EXCEPT !.pc = "record", !.n = 0, !.left = short])
      BY <1>8 DEF Work
    <3> QED
      BY <2>5, <3>1, IdleType
  <2> QED
    BY <1>8, <2>3, <2>4, <2>6, GotoType DEF Work, TypeOK
<1>9. ASSUME NEW t \in Threads, Release(t) PROVE TypeOK'
  <2>1. [call[t] EXCEPT !.pc = "load", !.period = month] \in Call
    BY <1>c, <1>m DEF Call
  <2> QED
    BY <1>9, <2>1, GotoType DEF Release, TypeOK
<1>9a. ASSUME NEW t \in Threads, Load(t) PROVE TypeOK'
  <2> DEFINE c == call[t]
             l == [c EXCEPT !.pc = "write", !.held = rows[c.period].used]
  <2>1. l \in Call /\ c.period \in Months
    BY <1>c DEF Call, OrgUsage
  <2>2. Goto(t, l) \/ Goto(t, Idle)
    BY <1>9a DEF Load
  <2>3. call' \in [Threads -> Call]
    BY <2>1, <2>2, IdleType, GotoType
  <2> QED
    BY <1>9a, <2>1, <2>3 DEF Load, TypeOK
<1>10. ASSUME NEW t \in Threads, WriteBack(t) PROVE TypeOK'
  <2> DEFINE c == call[t]
             r == [rows[c.period] EXCEPT !.used = Less(c, rows[c.period])]
  <2>1. c \in Call /\ c.period \in Months /\ rows[c.period] \in OrgUsage
    BY <1>c
  <2>2. r \in OrgUsage
    <3>1. c.held - c.n \in Int /\ rows[c.period].used \in Nat
      BY <2>1 DEF Call, OrgUsage
    <3>2. Less(c, rows[c.period]) \in Nat
      BY <3>1, FloorType DEF Less
    <3> QED
      BY <2>1, <3>2 DEF OrgUsage
  <2>3. rows' \in [Months -> OrgUsage]
    BY <1>10, <2>1, <2>2, StoreType DEF WriteBack
  <2>4. call' \in [Threads -> Call]
    BY <1>10, IdleType, GotoType DEF WriteBack
  <2> QED
    BY <1>10, <2>3, <2>4 DEF WriteBack, TypeOK
<1>11. ASSUME NEW t \in Threads, Crash(t) PROVE TypeOK'
  BY <1>11, IdleType, GotoType DEF Crash, TypeOK
<1>12. ASSUME NextMonth PROVE TypeOK'
  BY <1>12 DEF NextMonth, TypeOK, Months
<1>13. ASSUME NEW l \in Limits, ChangePlan(l) PROVE TypeOK'
  BY <1>13 DEF ChangePlan, TypeOK
<1>14. ASSUME UNCHANGED vars PROVE TypeOK'
  BY <1>14 DEF vars, TypeOK
<1> QED
  BY <1>1, <1>2, <1>3, <1>4, <1>4a, <1>5, <1>6, <1>7, <1>8, <1>9, <1>9a, <1>10, <1>11, <1>12,
     <1>13, <1>14 DEF Next, Step

\* Every reachable state of the metering is well typed: in particular a
\* hand-back never takes a counter below zero (billing.release).
THEOREM TypeCorrect == Spec => []TypeOK
BY TypeInit, TypeStep, PTL DEF Spec

-----------------------------------------------------------------------------
(***************************************************************************)
(* DebtIsCarried is not inductive.  What a month ran over by in time is    *)
(* its overrun less what came in late; a month that is over may gain both, *)
(* never one without the other, and the current month has nothing late     *)
(* (Books).  A handler about to make a row holds an overrun that was read  *)
(* once the month before had ended (Kept).                                 *)
(***************************************************************************)
Books(r, l, m) ==
  /\ r[0].stored
  /\ \A i \in Months : ~ r[i].stored => r[i].over = 0
  /\ \A i \in Months : r[i].stored => i <= m
  /\ \A i \in Months : ~ i < m => l[i] = 0
  /\ \A i \in Months \ {0} :
       r[i].stored => /\ r[i - 1].over - l[i - 1] <= r[i].carried
                      /\ r[i].carried <= r[i - 1].over

Kept(c, r, l, m) ==
  /\ c.pc # "idle" => c.began <= c.period /\ c.period <= m /\ m <= c.began + 1
  /\ c.pc \in {"claim", "write"} => r[c.period].stored
  /\ c.pc = "look" => c.back = "look" /\ c.period = c.began
  /\ c.pc \in {"ensure", "insert"} /\ c.back = "look" => c.period = c.began /\ c.over = 0
  /\ c.pc = "insert" /\ c.period > 0 =>
       /\ r[c.period - 1].over - l[c.period - 1] <= c.owed
       /\ c.owed <= r[c.period - 1].over
  /\ c.over > 0 => c.n > 0 /\ c.pc \in {"record", "bump", "ensure", "insert"}

DebtInv ==
  /\ TypeOK
  /\ Books(rows, late, month)
  /\ \A t \in Threads : Kept(call[t], rows, late, month)

\* What no step takes away: the rows that are there, what they ran over by, and
\* that a month which is over gains an overrun only as a late one.
Grows ==
  /\ \A i \in Months : rows[i].stored => rows'[i].stored
  /\ \A i \in Months : rows[i].over <= rows'[i].over
  /\ \A i \in Months : i < month => rows'[i].over - late'[i] = rows[i].over - late[i]

LEMMA IdleKept == ASSUME NEW r, NEW l, NEW m PROVE Kept(Idle, r, l, m)
BY DEF Kept, Idle

\* A handler relies on nothing that is taken away.
LEMMA KeptStays ==
  ASSUME DebtInv, TypeOK', Grows, NEW c \in Call, Kept(c, rows, late, month)
  PROVE  Kept(c, rows', late', month)
<1>1. c.period \in Months /\ c.period \in Nat /\ c.owed \in Nat /\ month \in Nat
  BY MonthsType DEF Call, DebtInv, TypeOK
<1>2. ASSUME c.pc = "insert", c.period > 0
      PROVE  /\ rows'[c.period - 1].over - late'[c.period - 1] <= c.owed
             /\ c.owed <= rows'[c.period - 1].over
  <2>1. c.period - 1 \in Months /\ c.period <= month /\ c.period - 1 < month
    BY <1>1, <1>2, MeteringAssumption DEF Kept, Months
  <2>2. /\ rows[c.period - 1].over - late[c.period - 1] <= c.owed
        /\ c.owed <= rows[c.period - 1].over
    BY <1>2 DEF Kept
  <2>3. /\ rows[c.period - 1].over \in Nat /\ rows'[c.period - 1].over \in Nat
    BY <2>1 DEF DebtInv, TypeOK, OrgUsage
  <2>4. /\ rows[c.period - 1].over <= rows'[c.period - 1].over
        /\ rows'[c.period - 1].over - late'[c.period - 1]
             = rows[c.period - 1].over - late[c.period - 1]
    BY <2>1 DEF Grows
  <2> QED
    BY <1>1, <2>2, <2>3, <2>4
<1>3. rows[c.period].stored => rows'[c.period].stored
  BY <1>1 DEF Grows
<1> QED
  BY <1>2, <1>3 DEF Kept

\* One handler moves on while nothing is taken away.
LEMMA Moves ==
  ASSUME DebtInv, TypeOK', Grows, NEW t \in Threads, NEW l, Goto(t, l),
         month' = month, Kept(l, rows', late', month)
  PROVE  \A u \in Threads : Kept(call'[u], rows', late', month')
<1> SUFFICES ASSUME NEW u \in Threads PROVE Kept(call'[u], rows', late', month)
  OBVIOUS
<1>1. CASE u = t
  BY <1>1 DEF Goto, DebtInv, TypeOK
<1>2. CASE u # t
  <2>1. call'[u] = call[u] /\ call[u] \in Call
    BY <1>2 DEF Goto, DebtInv, TypeOK
  <2> QED
    BY <2>1, KeptStays DEF DebtInv
<1> QED
  BY <1>1, <1>2

\* A step that moves one handler and leaves the rows alone.
LEMMA MovesOnly ==
  ASSUME DebtInv, TypeOK', NEW t \in Threads, NEW l, Goto(t, l),
         Kept(l, rows, late, month), UNCHANGED <<rows, late, month>>
  PROVE  /\ Books(rows', late', month')
         /\ \A u \in Threads : Kept(call'[u], rows', late', month')
<1>1. Grows
  BY DEF Grows, DebtInv, TypeOK, OrgUsage
<1> QED
  BY <1>1, Moves DEF DebtInv

\* Writing a counter, and nothing else, of a row.
LEMMA CounterOnly ==
  ASSUME DebtInv, NEW m \in Months, NEW n, Store(m, [rows[m] EXCEPT !.used = n]),
         UNCHANGED <<late, month>>
  PROVE  Books(rows', late', month') /\ Grows
<1>1. \A i \in Months : /\ rows'[i].stored = rows[i].stored
                        /\ rows'[i].over = rows[i].over /\ rows[i].over \in Nat
                        /\ rows'[i].carried = rows[i].carried
  BY DEF DebtInv, TypeOK, Store, OrgUsage
<1>2. \A i \in Months \ {0} : i - 1 \in Months
  BY MeteringAssumption DEF Months
<1>3. 0 \in Months
  BY MonthsType
<1> QED
  BY <1>1, <1>2, <1>3 DEF DebtInv, Books, Grows

\* Adding to a row that is there: in a month that is over, its overrun and
\* what of it came late grow together.
LEMMA AddedBooks ==
  ASSUME DebtInv, NEW m \in Months, NEW c \in Call, rows[m].stored,
         Store(m, Added(rows[m], c)), month' = month,
         late' = IF m < month THEN [late EXCEPT ![m] = @ + c.over] ELSE late
  PROVE  Books(rows', late', month') /\ Grows
<1>0. /\ c.over \in Nat /\ month \in Nat /\ Months \subseteq Nat /\ 0 \in Months
      /\ Books(rows, late, month)
      /\ \A i \in Months : rows[i].over \in Nat /\ rows[i].carried \in Nat /\ late[i] \in Nat
  BY MonthsType DEF DebtInv, TypeOK, Call, OrgUsage
<1>1. \A i \in Months : /\ rows'[i].stored = rows[i].stored
                        /\ rows'[i].carried = rows[i].carried
                        /\ i # m => rows'[i].over = rows[i].over
  BY DEF DebtInv, TypeOK, Store, OrgUsage, Added
<1>2. rows'[m].over = rows[m].over + c.over
  BY DEF DebtInv, TypeOK, Store, OrgUsage, Added
<1>3. \A i \in Months : late'[i] = IF i = m /\ m < month THEN late[i] + c.over ELSE late[i]
  BY DEF DebtInv, TypeOK
<1>4. \A i \in Months : rows[i].over <= rows'[i].over
  BY <1>0, <1>1, <1>2
<1>5. ASSUME NEW i \in Months, i < month
      PROVE  rows'[i].over - late'[i] = rows[i].over - late[i]
  <2>1. CASE i = m
    BY <1>0, <1>2, <1>3, <1>5, <2>1
  <2>2. CASE i # m
    BY <1>1, <1>3, <2>2
  <2> QED
    BY <2>1, <2>2
<1>6. ASSUME NEW i \in Months \ {0}, rows'[i].stored
      PROVE  /\ rows'[i - 1].over - late'[i - 1] <= rows'[i].carried
             /\ rows'[i].carried <= rows'[i - 1].over
  <2>1. i - 1 \in Months /\ rows[i].stored /\ i <= month
    BY <1>0, <1>1, <1>6, MeteringAssumption DEF Months, Books
  <2>2. i - 1 < month /\ i \in Nat
    BY <1>0, <2>1
  <2>3. /\ rows[i - 1].over - late[i - 1] <= rows[i].carried
        /\ rows[i].carried <= rows[i - 1].over
    BY <1>0, <2>1 DEF Books
  <2>4. rows'[i - 1].over - late'[i - 1] = rows[i - 1].over - late[i - 1]
    BY <1>5, <2>1, <2>2
  <2>5. rows[i - 1].over \in Nat /\ rows[i].carried \in Nat /\ rows'[i - 1].over \in Nat
    BY <1>0, <1>1, <1>2, <2>1
  <2> QED
    BY <1>1, <1>4, <2>1, <2>3, <2>4, <2>5
<1>7. \A i \in Months : ~ rows'[i].stored => rows'[i].over = 0
  BY <1>0, <1>1 DEF Books
<1>8. \A i \in Months : ~ i < month => late'[i] = 0
  BY <1>0, <1>3 DEF Books
<1> QED
  BY <1>0, <1>1, <1>4, <1>5, <1>6, <1>7, <1>8 DEF Books, Grows

LEMMA RecordedKept ==
  ASSUME NEW c \in Call, NEW r, NEW l, NEW m, c.over > 0 => c.n > 0,
         c.began <= c.period /\ c.period <= m /\ m <= c.began + 1
  PROVE  Kept(Recorded(c), r, l, m)
<1>1. c.n \in Nat /\ c.left \in Nat /\ c.over \in Nat
  BY DEF Call
<1>2. CASE c.n > 0
  <2>1. Recorded(c) = [c EXCEPT !.pc = "working", !.over = 0]
    BY <1>1, <1>2 DEF Recorded
  <2> QED
    BY <2>1 DEF Kept, Call
<1>3. CASE c.n = 0 /\ c.left > 0
  <2>1. Recorded(c) = [c EXCEPT !.pc = "release", !.n = c.left, !.left = 0]
    BY <1>1, <1>3 DEF Recorded
  <2>2. c.over = 0
    BY <1>1, <1>3
  <2> QED
    BY <2>1, <2>2 DEF Kept, Call
<1>4. CASE c.n = 0 /\ c.left = 0
  BY <1>1, <1>4, IdleKept DEF Recorded
<1> QED
  BY <1>1, <1>2, <1>3, <1>4

LEMMA DebtInit == Init => DebtInv
<1> SUFFICES ASSUME Init PROVE DebtInv
  OBVIOUS
<1>1. TypeOK
  BY TypeInit
<1>2. \A t \in Threads : Kept(call[t], rows, late, month)
  <2>1. \A t \in Threads : call[t] = Idle
    BY DEF Init
  <2> QED
    BY <2>1, IdleKept
<1>3. PICK debt \in Debts, initial \in Limits :
        /\ month = 1
        /\ rows = [m \in Months |->
                     IF m = 0 THEN [NoRow EXCEPT !.stored = TRUE,
                                       !.used = initial + debt, !.over = debt]
                     ELSE NoRow]
        /\ late = [m \in Months |-> 0]
  BY DEF Init
<1>4. Books(rows, late, month)
  <2>1. /\ rows[0].stored /\ rows[0].over = debt
        /\ \A i \in Months : i # 0 => rows[i] = NoRow
        /\ \A i \in Months : late[i] = 0
    BY <1>3, MonthsType DEF NoRow
  <2>2. ~ NoRow.stored /\ NoRow.over = 0
    BY DEF NoRow
  <2> QED
    BY <1>3, <2>1, <2>2, MonthsType DEF Books
<1> QED
  BY <1>1, <1>2, <1>4 DEF DebtInv

LEMMA DebtStep == DebtInv /\ [Next]_vars => DebtInv'
<1> SUFFICES ASSUME DebtInv, [Next]_vars PROVE DebtInv'
  OBVIOUS
<1> USE DEF history, setting, bound
<1>0. TypeOK'
  BY TypeStep DEF DebtInv
<1> SUFFICES /\ Books(rows', late', month')
               /\ \A u \in Threads : Kept(call'[u], rows', late', month')
  BY <1>0 DEF DebtInv
<1>m. month \in Months /\ month \in Nat /\ Months \subseteq Nat /\ 0 \in Months
  BY MonthsType DEF DebtInv, TypeOK
<1>c. \A t \in Threads :
        /\ call[t] \in Call /\ call[t].period \in Months
        /\ call[t].began \in Nat /\ call[t].period \in Nat
        /\ call[t].over \in Nat /\ call[t].n \in Nat
        /\ Kept(call[t], rows, late, month)
  BY <1>m DEF DebtInv, TypeOK, Call
<1>1. ASSUME NEW t \in Threads, NEW n \in Units, Consume(t, n)
      PROVE  /\ Books(rows', late', month')
             /\ \A u \in Threads : Kept(call'[u], rows', late', month')
  <2>1. Kept([Idle EXCEPT !.pc = "look", !.n = n, !.period = month,
                          !.began = month], rows, late, month)
    BY <1>m DEF Kept, Idle
  <2> QED
    BY <1>0, <1>1, <2>1, MovesOnly DEF Consume
<1>2. ASSUME NEW t \in Threads, RecordCost(t)
      PROVE  /\ Books(rows', late', month')
             /\ \A u \in Threads : Kept(call'[u], rows', late', month')
  <2>1. Kept([Idle EXCEPT !.pc = "record", !.period = month, !.began = month],
             rows, late, month)
    BY <1>m DEF Kept, Idle
  <2> QED
    BY <1>0, <1>2, <2>1, MovesOnly DEF RecordCost
<1>3. ASSUME NEW t \in Threads, Look(t)
      PROVE  /\ Books(rows', late', month')
             /\ \A u \in Threads : Kept(call'[u], rows', late', month')
  <2> DEFINE c == call[t]
             row == rows[c.period]
             past == Floor(row.used + c.n - Allowance(row))
             extra == IF past < c.n THEN past ELSE c.n
  <2>1. /\ c \in Call /\ c.pc = "look" /\ Kept(c, rows, late, month)
        /\ c.over \in Nat /\ c.n \in Nat /\ c.began \in Nat /\ c.period \in Nat
    BY <1>3, <1>c DEF Look, At
  <2>2. c.over = 0 /\ c.period = c.began /\ c.back = "look"
    BY <2>1 DEF Kept
  <2>3. Kept([c EXCEPT !.pc = "ensure"], rows, late, month)
    BY <2>1, <2>2 DEF Kept, Call
  <2>4. ASSUME NEW k, row.stored
        PROVE  Kept([c EXCEPT !.pc = "claim", !.limit = k], rows, late, month)
    BY <2>1, <2>2, <2>4 DEF Kept, Call
  <2>5. ASSUME NEW k, k > 0 => c.n > 0, row.stored
        PROVE  Kept([c EXCEPT !.pc = "record", !.over = k], rows, late, month)
    BY <2>1, <2>2, <2>5 DEF Kept, Call
  <2>6. extra > 0 => c.n > 0
    <3>1. past \in Nat
      <4>1. row \in OrgUsage /\ limit \in Nat
        BY <1>c, MeteringAssumption DEF DebtInv, TypeOK
      <4>2. limit - row.carried \in Int
        BY <4>1 DEF OrgUsage
      <4>3. Allowance(row) \in Nat
        BY <4>2, FloorType DEF Allowance
      <4>4. row.used + c.n - Allowance(row) \in Int
        BY <2>1, <4>1, <4>3 DEF OrgUsage
      <4> QED
        BY <4>4, FloorType
    <3> QED
      BY <2>1, <3>1
  <2>7. \E l : Goto(t, l) /\ Kept(l, rows, late, month)
    <3>1. CASE ~ row.stored
      BY <1>3, <2>3, <3>1 DEF Look
    <3>2. CASE row.stored /\ enforced
      BY <1>3, <2>4, <3>2 DEF Look
    <3>3. CASE row.stored /\ ~ enforced
      <4>1. Goto(t, [c EXCEPT !.pc = "record", !.over = extra])
        BY <1>3, <3>3 DEF Look
      <4>2. Kept([c EXCEPT !.pc = "record", !.over = extra], rows, late, month)
        BY <2>5, <2>6, <3>3
      <4> QED
        BY <4>1, <4>2
    <3> QED
      BY <3>1, <3>2, <3>3
  <2> QED
    BY <1>0, <1>3, <2>7, MovesOnly DEF Look
<1>4. ASSUME NEW t \in Threads, Ensure(t)
      PROVE  /\ Books(rows', late', month')
             /\ \A u \in Threads : Kept(call'[u], rows', late', month')
  <2> DEFINE c == call[t]
             p == c.period
             l == [c EXCEPT !.pc = "insert", !.owed = CarriedFromPrevious(p)]
  <2>1. /\ c \in Call /\ c.pc = "ensure" /\ Kept(c, rows, late, month)
        /\ p \in Months /\ p \in Nat /\ c.began \in Nat /\ c.over \in Nat
        /\ Books(rows, late, month) /\ UNCHANGED <<rows, late, month>> /\ Goto(t, l)
    BY <1>4, <1>c DEF Ensure, At, DebtInv
  <2>2. p > 0 => /\ rows[p - 1].over - late[p - 1] <= CarriedFromPrevious(p)
                 /\ CarriedFromPrevious(p) <= rows[p - 1].over
    <3> SUFFICES ASSUME p > 0
                 PROVE  /\ rows[p - 1].over - late[p - 1] <= CarriedFromPrevious(p)
                        /\ CarriedFromPrevious(p) <= rows[p - 1].over
      OBVIOUS
    <3>1. p - 1 \in Months
      BY <2>1, MeteringAssumption DEF Months
    <3>2. /\ rows[p - 1].over \in Nat /\ late[p - 1] \in Nat
          /\ ~ rows[p - 1].stored => rows[p - 1].over = 0
      BY <2>1, <3>1 DEF DebtInv, TypeOK, OrgUsage, Books
    <3>3. CarriedFromPrevious(p) = rows[p - 1].over
      BY <3>2 DEF CarriedFromPrevious
    <3> QED
      BY <3>2, <3>3
  <2>3. /\ l.pc = "insert" /\ l.owed = CarriedFromPrevious(p) /\ l.period = p
        /\ l.began = c.began /\ l.over = c.over /\ l.n = c.n /\ l.back = c.back
    BY <2>1 DEF Call
  <2> HIDE DEF l
  <2>4. Kept(l, rows, late, month)
    BY <2>1, <2>2, <2>3 DEF Kept
  <2> QED
    BY <1>0, <2>1, <2>4, MovesOnly
<1>4a. ASSUME NEW t \in Threads, Insert(t)
      PROVE  /\ Books(rows', late', month')
             /\ \A u \in Threads : Kept(call'[u], rows', late', month')
  <2> DEFINE c == call[t]
             p == c.period
             l == [c EXCEPT !.pc = c.back, !.owed = 0]
             r == Settled(c.owed)
  <2>1. /\ c \in Call /\ c.pc = "insert" /\ Kept(c, rows, late, month)
        /\ p \in Months /\ p \in Nat /\ c.began \in Nat /\ c.over \in Nat /\ c.owed \in Nat
        /\ Books(rows, late, month) /\ UNCHANGED <<late, month>> /\ Goto(t, l)
    BY <1>4a, <1>c DEF Insert, At, DebtInv, Call
  <2>2. p <= month /\ c.back \in {"look", "bump"}
    BY <2>1 DEF Kept, Call
  <2>3. /\ l.pc = c.back /\ l.period = p /\ l.began = c.began
        /\ l.over = c.over /\ l.n = c.n /\ l.back = c.back
    BY <2>1 DEF Call
  <2>4. c.over > 0 => c.back = "bump"
    BY <2>1, <2>2 DEF Kept
  <2>5. \A q : Kept(l, q, late, month)
    BY <2>1, <2>2, <2>3, <2>4 DEF Kept
  <2> HIDE DEF l
  <2>6. CASE rows[p].stored
    <3>1. UNCHANGED rows
      BY <1>4a, <2>6 DEF Insert
    <3> QED
      BY <1>0, <2>1, <2>5, <3>1, MovesOnly
  <2>7. CASE ~ rows[p].stored
    <3>1. Store(p, r)
      BY <1>4a, <2>7 DEF Insert
    <3>2. rows'[p] = r /\ \A i \in Months : i # p => rows'[i] = rows[i]
      BY <2>1, <3>1 DEF Store, DebtInv, TypeOK
    <3>3. r.stored /\ r.over = 0 /\ r.carried = c.owed
      BY <2>1, SettledType
    <3>4. rows[p].over = 0 /\ p # 0
      BY <2>1, <2>7 DEF Books
    <3> HIDE DEF r
    <3>5. \A i \in Months : rows'[i].over = rows[i].over /\ rows[i].over \in Nat
      BY <3>2, <3>3, <3>4 DEF DebtInv, TypeOK, OrgUsage
    <3>6. \A i \in Months \ {0} : i - 1 \in Months
      BY MeteringAssumption DEF Months
    <3>7. /\ rows[p - 1].over - late[p - 1] <= c.owed
          /\ c.owed <= rows[p - 1].over
      BY <2>1, <3>4 DEF Kept
    <3>8. Books(rows', late', month')
      <4>1. \A i \in Months : ~ rows'[i].stored => rows'[i].over = 0
        BY <2>1, <3>2, <3>3, ZenonT(30) DEF Books
      <4>2. \A i \in Months : rows'[i].stored => i <= month
        BY <2>1, <2>2, <3>2 DEF Books
      <4>3. \A i \in Months \ {0} :
              rows'[i].stored => /\ rows'[i - 1].over - late[i - 1] <= rows'[i].carried
                                 /\ rows'[i].carried <= rows'[i - 1].over
        <5> SUFFICES ASSUME NEW i \in Months \ {0}, rows'[i].stored
                     PROVE  /\ rows'[i - 1].over - late[i - 1] <= rows'[i].carried
                            /\ rows'[i].carried <= rows'[i - 1].over
          OBVIOUS
        <5> HIDE DEF p
        <5>0. rows'[i - 1].over = rows[i - 1].over
          BY <3>5, <3>6
        <5>1. CASE i = p
          BY <3>2, <3>3, <3>7, <5>0, <5>1
        <5>2. CASE i # p
          <6>1. rows'[i] = rows[i]
            BY <3>2, <5>2
          <6> QED
            BY <2>1, <5>0, <6>1 DEF Books
        <5> QED
          BY <5>1, <5>2
      <4>4. rows'[0].stored
        BY <2>1, <1>m, <3>2, <3>4 DEF Books
      <4>5. \A i \in Months : ~ i < month => late[i] = 0
        BY <2>1 DEF Books
      <4> QED
        BY <2>1, <4>1, <4>2, <4>3, <4>4, <4>5 DEF Books
    <3>9. Grows
      <4>1. \A i \in Months : rows[i].stored => rows'[i].stored
        BY <3>2, <3>3
      <4> QED
        BY <2>1, <3>5, <4>1 DEF Grows
    <3> QED
      BY <1>0, <2>1, <2>5, <3>8, <3>9, Moves
  <2> QED
    BY <2>6, <2>7
<1>5. ASSUME NEW t \in Threads, Claim(t)
      PROVE  /\ Books(rows', late', month')
             /\ \A u \in Threads : Kept(call'[u], rows', late', month')
  <2> DEFINE c == call[t]
             l == [c EXCEPT !.pc = "working", !.limit = 0]
  <2>1. /\ c \in Call /\ c.pc = "claim" /\ Kept(c, rows, late, month)
        /\ c.over \in Nat /\ UNCHANGED <<late, month>>
    BY <1>5, <1>c DEF Claim, At
  <2>2. \A q : Kept(l, q, late, month)
    BY <2>1 DEF Kept, Call
  <2>3. CASE UNCHANGED rows /\ Goto(t, Idle)
    BY <1>0, <2>1, <2>3, IdleKept, MovesOnly
  <2>4. CASE Store(c.period, [rows[c.period] EXCEPT !.used = @ + c.n]) /\ Goto(t, l)
    <3>1. Books(rows', late', month') /\ Grows
      BY <1>c, <2>1, <2>4, CounterOnly
    <3> QED
      BY <1>0, <2>1, <2>2, <2>4, <3>1, Moves
  <2> QED
    BY <1>5, <2>3, <2>4 DEF Claim
<1>6. ASSUME NEW t \in Threads, Record(t)
      PROVE  /\ Books(rows', late', month')
             /\ \A u \in Threads : Kept(call'[u], rows', late', month')
  <2> DEFINE c == call[t]
             l == [c EXCEPT !.pc = "bump", !.period = month]
  <2>1. /\ c \in Call /\ c.pc = "record" /\ Kept(c, rows, late, month)
        /\ c.began \in Nat /\ c.period \in Nat
        /\ UNCHANGED <<rows, late, month>> /\ Goto(t, l)
    BY <1>6, <1>c DEF Record, At
  <2>2. c.began <= month /\ month <= c.began + 1 /\ (c.over > 0 => c.n > 0)
    BY <1>m, <2>1 DEF Kept
  <2>3. /\ l.pc = "bump" /\ l.period = month /\ l.began = c.began
        /\ l.over = c.over /\ l.n = c.n
    BY <2>1 DEF Call
  <2> HIDE DEF l
  <2>4. Kept(l, rows, late, month)
    BY <1>m, <2>1, <2>2, <2>3 DEF Kept
  <2> QED
    BY <1>0, <2>1, <2>4, MovesOnly
<1>7. ASSUME NEW t \in Threads, Bump(t)
      PROVE  /\ Books(rows', late', month')
             /\ \A u \in Threads : Kept(call'[u], rows', late', month')
  <2> DEFINE c == call[t]
             l == [c EXCEPT !.pc = "ensure", !.back = "bump"]
  <2>1. /\ c \in Call /\ c.pc = "bump" /\ Kept(c, rows, late, month)
        /\ c.period \in Months /\ c.period \in Nat /\ c.began \in Nat
        /\ month' = month
    BY <1>7, <1>c DEF Bump, At
  <2>2. /\ c.began <= c.period /\ c.period <= month /\ month <= c.began + 1
        /\ (c.over > 0 => c.n > 0)
    BY <2>1 DEF Kept
  <2>3. CASE rows[c.period].stored
    <3>1. /\ Store(c.period, Added(rows[c.period], c)) /\ Goto(t, Recorded(c))
          /\ late' = IF c.period < month THEN [late EXCEPT ![c.period] = @ + c.over] ELSE late
      BY <1>7, <2>3 DEF Bump
    <3>2. Books(rows', late', month') /\ Grows
      BY <2>1, <2>3, <3>1, AddedBooks
    <3>3. Kept(Recorded(c), rows', late', month)
      BY <2>1, <2>2, RecordedKept
    <3> QED
      BY <1>0, <2>1, <3>1, <3>2, <3>3, Moves
  <2>4. CASE ~ rows[c.period].stored
    <3>1. Goto(t, l) /\ UNCHANGED <<rows, late, month>>
      BY <1>7, <2>4 DEF Bump
    <3>2. /\ l.pc = "ensure" /\ l.back = "bump" /\ l.period = c.period
          /\ l.began = c.began /\ l.over = c.over /\ l.n = c.n
      BY <2>1 DEF Call
    <3> HIDE DEF l
    <3>3. Kept(l, rows, late, month)
      BY <2>1, <2>2, <3>2 DEF Kept
    <3> QED
      BY <1>0, <3>1, <3>3, MovesOnly
  <2> QED
    BY <2>3, <2>4
<1>8. ASSUME NEW t \in Threads, NEW k \in 0 .. call[t].n, Work(t, k)
      PROVE  /\ Books(rows', late', month')
             /\ \A u \in Threads : Kept(call'[u], rows', late', month')
  <2> DEFINE c == call[t]
             short == c.n - k
  <2>1. /\ c \in Call /\ c.pc = "working" /\ Kept(c, rows, late, month)
        /\ c.over \in Nat /\ UNCHANGED <<rows, late, month>>
    BY <1>8, <1>c DEF Work, At
  <2>2. c.over = 0
    BY <2>1 DEF Kept
  <2>3. \A n : Kept([c EXCEPT !.pc = "release", !.n = n], rows, late, month)
    BY <2>1, <2>2 DEF Kept, Call
  <2>4. \A n : Kept([c EXCEPT !.pc = "record", !.n = 0, !.left = n], rows, late, month)
    BY <2>1, <2>2 DEF Kept, Call
  <2>5. \/ Goto(t, [c EXCEPT !.pc = "release", !.n = short])
        \/ Goto(t, Idle)
        \/ Goto(t, [c EXCEPT !.pc = "record", !.n = 0, !.left = short])
    BY <1>8 DEF Work
  <2> QED
    BY <1>0, <2>1, <2>3, <2>4, <2>5, IdleKept, MovesOnly
<1>9. ASSUME NEW t \in Threads, Release(t)
      PROVE  /\ Books(rows', late', month')
             /\ \A u \in Threads : Kept(call'[u], rows', late', month')
  <2> DEFINE c == call[t]
             l == [c EXCEPT !.pc = "load", !.period = month]
  <2>1. /\ c \in Call /\ c.pc = "release" /\ Kept(c, rows, late, month)
        /\ c.over \in Nat /\ c.began \in Nat /\ c.period \in Nat
        /\ UNCHANGED <<rows, late, month>> /\ Goto(t, l)
    BY <1>9, <1>c DEF Release, At
  <2>2. c.over = 0 /\ c.began <= month /\ month <= c.began + 1
    BY <1>m, <2>1 DEF Kept
  <2>3. Kept(l, rows, late, month)
    BY <1>m, <2>1, <2>2 DEF Kept, Call
  <2> QED
    BY <1>0, <2>1, <2>3, MovesOnly
<1>9a. ASSUME NEW t \in Threads, Load(t)
      PROVE  /\ Books(rows', late', month')
             /\ \A u \in Threads : Kept(call'[u], rows', late', month')
  <2> DEFINE c == call[t]
             l == [c EXCEPT !.pc = "write", !.held = rows[c.period].used]
  <2>1. /\ c \in Call /\ c.pc = "load" /\ Kept(c, rows, late, month)
        /\ c.over \in Nat /\ UNCHANGED <<rows, late, month>>
    BY <1>9a, <1>c DEF Load, At
  <2>2. rows[c.period].stored => Kept(l, rows, late, month)
    BY <2>1 DEF Kept, Call
  <2> QED
    BY <1>0, <1>9a, <2>1, <2>2, IdleKept, MovesOnly DEF Load
<1>10. ASSUME NEW t \in Threads, WriteBack(t)
      PROVE  /\ Books(rows', late', month')
             /\ \A u \in Threads : Kept(call'[u], rows', late', month')
  <2>1. Books(rows', late', month') /\ Grows
    BY <1>10, <1>c, CounterOnly DEF WriteBack
  <2> QED
    BY <1>0, <1>10, <2>1, IdleKept, Moves DEF WriteBack
<1>11. ASSUME NEW t \in Threads, Crash(t)
      PROVE  /\ Books(rows', late', month')
             /\ \A u \in Threads : Kept(call'[u], rows', late', month')
  BY <1>0, <1>11, IdleKept, MovesOnly DEF Crash
<1>12. ASSUME NextMonth
      PROVE  /\ Books(rows', late', month')
             /\ \A u \in Threads : Kept(call'[u], rows', late', month')
  <2>1. month' = month + 1 /\ UNCHANGED <<rows, late, call>>
    BY <1>12 DEF NextMonth
  <2>2. Books(rows, late, month')
    BY <1>m, <2>1 DEF DebtInv, Books
  <2>3. ASSUME NEW u \in Threads PROVE Kept(call[u], rows, late, month')
    <3>1. CASE call[u].pc = "idle"
      BY <1>c, <3>1 DEF Kept
    <3>2. CASE call[u].began = month
      BY <1>c, <1>m, <2>1, <3>2 DEF Kept
    <3> QED
      BY <1>12, <3>1, <3>2 DEF NextMonth, At
  <2> QED
    BY <2>1, <2>2, <2>3
<1>13. ASSUME UNCHANGED <<rows, late, call, month>>
      PROVE  /\ Books(rows', late', month')
             /\ \A u \in Threads : Kept(call'[u], rows', late', month')
  BY <1>13 DEF DebtInv
<1>14. ASSUME NEW l \in Limits, ChangePlan(l) PROVE UNCHANGED <<rows, late, call, month>>
  BY <1>14 DEF ChangePlan
<1>15. ASSUME UNCHANGED vars PROVE UNCHANGED <<rows, late, call, month>>
  BY <1>15 DEF vars
<1> QED
  BY <1>1, <1>2, <1>3, <1>4, <1>4a, <1>5, <1>6, <1>7, <1>8, <1>9, <1>9a, <1>10, <1>11, <1>12,
     <1>13, <1>14, <1>15 DEF Next, Step

\* A month's row carries all that the month before ran over by until it ended,
\* and nothing it did not run over by, however the handlers that create the row,
\* record overruns, also late ones, and cross the month's end are interleaved
\* (carried_from_previous, _ensure_row).
THEOREM DebtSettledOnce == Spec => []DebtIsCarried
<1>1. DebtInv => DebtIsCarried
  BY DEF DebtInv, Books, DebtIsCarried
<1> QED
  BY <1>1, DebtInit, DebtStep, PTL DEF Spec

-----------------------------------------------------------------------------
(***************************************************************************)
(* What a month counts.  CountsWhatHappened is not inductive: the units    *)
(* that were claimed and are being worked on are counted and not delivered *)
(* yet.  Each such unit is a pair <<handler, number>> of InWork(m), so     *)
(* their number is the size of a finite set.                               *)
(***************************************************************************)
Pieces(t, c, m) ==
  IF c.pc = "working" /\ c.period = m THEN {t} \X (1 .. c.n) ELSE {}

Share(c, m) == IF c.pc = "working" /\ c.period = m THEN c.n ELSE 0

InWork(m) == UNION {Pieces(t, call[t], m) : t \in Threads}

\* A row that is not there counts nothing, and a handler is about to write a
\* counter back only into a month in which something was handed back.
CountInv ==
  /\ DebtInv
  /\ \A m \in Months : ~ rows[m].stored => rows[m].used = 0
  /\ \A t \in Threads : At(t, "write") => call[t].period \in handed
  /\ \A m \in Months : IsFiniteSet(InWork(m))
  /\ \A m \in Months \ handed :
       /\ delivered[m] + Cardinality(InWork(m)) <= rows[m].used
       /\ crashes = 0 => delivered[m] + Cardinality(InWork(m)) = rows[m].used

LEMMA PieceCount ==
  ASSUME NEW t, NEW c \in Call, NEW m
  PROVE  IsFiniteSet(Pieces(t, c, m)) /\ Cardinality(Pieces(t, c, m)) = Share(c, m)
<1>1. c.n \in Nat
  BY DEF Call
<1>2. CASE c.pc = "working" /\ c.period = m
  <2>1. IsFiniteSet(1 .. c.n) /\ Cardinality(1 .. c.n) = c.n
    <3>1. /\ IsFiniteSet(1 .. c.n)
          /\ Cardinality(1 .. c.n) = IF 1 > c.n THEN 0 ELSE c.n - 1 + 1
      <4>1. 1 \in Int /\ c.n \in Int
        BY <1>1
      <4> QED
        BY <4>1, FS_Interval, ZenonT(30)
    <3>2. (IF 1 > c.n THEN 0 ELSE c.n - 1 + 1) = c.n
      BY <1>1
    <3> QED
      BY <3>1, <3>2
  <2>2. IsFiniteSet({t}) /\ Cardinality({t}) = 1
    BY FS_Singleton
  <2>3. /\ IsFiniteSet({t} \X (1 .. c.n))
        /\ Cardinality({t} \X (1 .. c.n)) = 1 * c.n
    <3>1. /\ IsFiniteSet({t} \X (1 .. c.n))
          /\ Cardinality({t} \X (1 .. c.n)) = Cardinality({t}) * Cardinality(1 .. c.n)
      BY <2>1, <2>2, FS_Product, ZenonT(30)
    <3> QED
      BY <2>1, <2>2, <3>1, ZenonT(30)
  <2> QED
    BY <1>1, <1>2, <2>3 DEF Pieces, Share
<1>3. CASE ~ (c.pc = "working" /\ c.period = m)
  BY <1>3, FS_EmptySet DEF Pieces, Share
<1> QED
  BY <1>2, <1>3

\* When one handler moves, the units in work change by its own.
LEMMA WorkMoves ==
  ASSUME TypeOK, NEW t \in Threads, NEW l \in Call, Goto(t, l), NEW m \in Months,
         IsFiniteSet(InWork(m))
  PROVE  /\ IsFiniteSet(InWork(m)')
         /\ Cardinality(InWork(m)) \in Nat /\ Cardinality(InWork(m)') \in Nat
         /\ Cardinality(InWork(m)') = Cardinality(InWork(m)) - Share(call[t], m) + Share(l, m)
<1> DEFINE P == Pieces(t, call[t], m)
           Q == Pieces(t, l, m)
           Rest == UNION {Pieces(u, call[u], m) : u \in Threads \ {t}}
<1>1. \A u \in Threads : call[u] \in Call
  BY DEF TypeOK
<1>2. call'[t] = l /\ \A u \in Threads \ {t} : call'[u] = call[u]
  BY DEF TypeOK, Goto
<1>3. \A u, c : \A x \in Pieces(u, c, m) : x[1] = u
  BY DEF Pieces
<1>4. Rest \cap P = {} /\ Rest \cap Q = {}
  BY <1>3
<1>5. InWork(m) = Rest \cup P
  BY DEF InWork
<1>6. InWork(m)' = UNION {Pieces(u, call'[u], m) : u \in Threads}
  BY DEF InWork, Pieces
<1>7. InWork(m)' = Rest \cup Q
  BY <1>2, <1>6
<1> HIDE DEF P, Q, Rest
<1>8. IsFiniteSet(Rest)
  BY <1>5, FS_Subset
<1>9. /\ IsFiniteSet(P) /\ Cardinality(P) = Share(call[t], m)
      /\ IsFiniteSet(Q) /\ Cardinality(Q) = Share(l, m)
  BY <1>1, PieceCount DEF P, Q
<1>10. /\ Cardinality(InWork(m)) = Cardinality(Rest) + Cardinality(P) - Cardinality({})
       /\ Cardinality(InWork(m)') = Cardinality(Rest) + Cardinality(Q) - Cardinality({})
  BY <1>4, <1>5, <1>7, <1>8, <1>9, FS_Union
<1>11. IsFiniteSet(InWork(m)')
  BY <1>7, <1>8, <1>9, FS_Union
<1>12. /\ Cardinality(Rest) \in Nat /\ Cardinality(P) \in Nat /\ Cardinality(Q) \in Nat
       /\ Cardinality({}) = 0
  BY <1>8, <1>9, FS_CardinalityType, FS_EmptySet
<1> QED
  BY <1>9, <1>10, <1>11, <1>12

LEMMA CountInit == Init => CountInv
<1> SUFFICES ASSUME Init PROVE CountInv
  OBVIOUS
<1>1. PICK debt \in Debts, initial \in Limits :
        /\ rows = [m \in Months |->
                     IF m = 0 THEN [NoRow EXCEPT !.stored = TRUE,
                                       !.used = initial + debt, !.over = debt]
                     ELSE NoRow]
        /\ delivered = [m \in Months |-> IF m = 0 THEN initial + debt ELSE 0]
  BY DEF Init
<1>2. \A t \in Threads : call[t] = Idle
  BY DEF Init
<1>3. debt \in Nat /\ initial \in Nat
  BY MeteringAssumption
<1>4. \A m \in Months : rows[m].used = delivered[m] /\ delivered[m] \in Nat
  BY <1>1, <1>3 DEF NoRow
<1>5. \A m \in Months : ~ rows[m].stored => rows[m].used = 0
  BY <1>1 DEF NoRow
<1>6. \A m : InWork(m) = {}
  <2>1. Idle.pc # "working"
    BY DEF Idle
  <2>2. \A m : \A t \in Threads : Pieces(t, call[t], m) = {}
    BY <1>2, <2>1 DEF Pieces
  <2> QED
    BY <2>2 DEF InWork
<1>7. \A t \in Threads : ~ At(t, "write")
  <2>1. Idle.pc # "write"
    BY DEF Idle
  <2> QED
    BY <1>2, <2>1 DEF At
<1>8. \A m : IsFiniteSet(InWork(m)) /\ Cardinality(InWork(m)) = 0
  BY <1>6, FS_EmptySet
<1> QED
  BY <1>4, <1>5, <1>7, <1>8, DebtInit DEF CountInv

\* A handler moves, and the counter of every month moves by what it claims.
LEMMA Counted ==
  ASSUME CountInv, DebtInv', NEW t \in Threads, NEW l \in Call, Goto(t, l),
         \A m \in Months : ~ rows'[m].stored => rows'[m].used = 0,
         handed \subseteq handed',
         l.pc = "write" => l.period \in handed',
         crashes' = crashes,
         \A m \in Months \ handed' :
           rows'[m].used = rows[m].used + Share(l, m) - Share(call[t], m)
                             + delivered'[m] - delivered[m]
  PROVE  CountInv'
<1>1. TypeOK /\ TypeOK'
  BY DEF CountInv, DebtInv
<1>2. \A u \in Threads : call'[u] = IF u = t THEN l ELSE call[u]
  BY <1>1 DEF Goto, TypeOK
<1>3. \A u \in Threads : call'[u].pc = "write" => call'[u].period \in handed'
  BY <1>2 DEF CountInv, At
<1>4. ASSUME NEW m \in Months PROVE IsFiniteSet(InWork(m)')
  BY <1>1, WorkMoves DEF CountInv
<1>5. ASSUME NEW m \in Months \ handed'
      PROVE  /\ delivered'[m] + Cardinality(InWork(m)') <= rows'[m].used
             /\ crashes = 0 => delivered'[m] + Cardinality(InWork(m)') = rows'[m].used
  <2>1. /\ Cardinality(InWork(m)) \in Nat /\ Cardinality(InWork(m)') \in Nat
        /\ Cardinality(InWork(m)') = Cardinality(InWork(m)) - Share(call[t], m) + Share(l, m)
    BY <1>1, WorkMoves DEF CountInv
  <2>2. /\ delivered[m] + Cardinality(InWork(m)) <= rows[m].used
        /\ crashes = 0 => delivered[m] + Cardinality(InWork(m)) = rows[m].used
    BY DEF CountInv
  <2>3. Share(call[t], m) \in Nat /\ Share(l, m) \in Nat
    BY <1>1 DEF Share, TypeOK, Call
  <2>4. /\ delivered[m] \in Nat /\ delivered'[m] \in Nat
        /\ rows[m].used \in Nat /\ rows'[m].used \in Nat
    BY <1>1 DEF TypeOK, OrgUsage
  <2>5. rows'[m].used = rows[m].used + Share(l, m) - Share(call[t], m)
                             + delivered'[m] - delivered[m]
    OBVIOUS
  <2> QED
    BY <2>1, <2>2, <2>3, <2>4, <2>5
<1> QED
  BY <1>3, <1>4, <1>5 DEF CountInv, At

\* ... as most steps do, without any month's counter or work changing.
LEMMA Uncounted ==
  ASSUME CountInv, DebtInv', NEW t \in Threads, NEW l \in Call, Goto(t, l),
         UNCHANGED <<rows, crashes, delivered>>, handed \subseteq handed',
         l.pc # "working", ~ At(t, "working"), l.pc = "write" => l.period \in handed'
  PROVE  CountInv'
<1>1. \A m : Share(l, m) = 0 /\ Share(call[t], m) = 0
  BY DEF Share, At
<1>2. \A m \in Months : rows[m].used \in Nat /\ delivered[m] \in Nat
  BY DEF CountInv, DebtInv, TypeOK, OrgUsage
<1>3. \A m \in Months : ~ rows'[m].stored => rows'[m].used = 0
  BY DEF CountInv
<1>4. \A m \in Months \ handed' :
        rows'[m].used = rows[m].used + Share(l, m) - Share(call[t], m)
                          + delivered'[m] - delivered[m]
  BY <1>1, <1>2
<1> QED
  BY <1>3, <1>4, Counted

-----------------------------------------------------------------------------
\* Recording leaves the units of a consume in work, in the month recorded.
LEMMA RecordedShare ==
  ASSUME NEW c \in Call
  PROVE  /\ Recorded(c).pc \in {"working", "release", "idle"}
         /\ \A m : Share(Recorded(c), m) = IF c.period = m THEN c.n ELSE 0
<1>1. c.n \in Nat /\ c.left \in Nat
  BY DEF Call
<1>2. CASE c.n > 0
  <2>1. Recorded(c) = [c EXCEPT !.pc = "working", !.over = 0]
    BY <1>1, <1>2 DEF Recorded
  <2>2. /\ Recorded(c).pc = "working" /\ Recorded(c).n = c.n
        /\ Recorded(c).period = c.period
    BY <2>1 DEF Call
  <2> QED
    BY <2>2 DEF Share
<1>3. CASE c.n = 0 /\ c.left > 0
  <2>1. Recorded(c) = [c EXCEPT !.pc = "release", !.n = c.left, !.left = 0]
    BY <1>1, <1>3 DEF Recorded
  <2>2. Recorded(c).pc = "release"
    BY <2>1 DEF Call
  <2> QED
    BY <1>3, <2>2 DEF Share
<1>4. CASE c.n = 0 /\ c.left = 0
  <2>1. Recorded(c).pc = "idle"
    BY <1>1, <1>4 DEF Recorded, Idle
  <2> QED
    BY <1>4, <2>1 DEF Share
<1> QED
  BY <1>1, <1>2, <1>3, <1>4

LEMMA CountStep == CountInv /\ [Next]_vars => CountInv'
<1> SUFFICES ASSUME CountInv, [Next]_vars PROVE CountInv'
  OBVIOUS
<1> USE DEF history, setting, bound
<1>0. DebtInv /\ DebtInv' /\ TypeOK /\ TypeOK'
  BY DebtStep DEF CountInv, DebtInv
<1>m. month \in Months /\ month \in Nat /\ rows[month] \in OrgUsage
  BY <1>0, MonthsType DEF TypeOK
<1>c. \A t \in Threads :
        /\ call[t] \in Call /\ call[t].period \in Months
        /\ rows[call[t].period] \in OrgUsage /\ call[t].n \in Nat
        /\ Kept(call[t], rows, late, month)
  BY <1>0 DEF TypeOK, DebtInv, Call
<1>i. Idle \in Call /\ Idle.pc = "idle"
  BY IdleType DEF Idle
<1>u. \A m \in Months : /\ rows[m].used \in Nat /\ delivered[m] \in Nat
                        /\ ~ rows[m].stored => rows[m].used = 0
  BY <1>0 DEF TypeOK, OrgUsage, CountInv
\* A handler adds what it claims to the counter of a month that has a row.
<1>add. ASSUME NEW t \in Threads, NEW l \in Call, Goto(t, l),
               NEW p \in Months, rows[p].stored, NEW r \in OrgUsage, Store(p, r),
               r.stored, NEW n \in Nat, r.used = rows[p].used + n,
               \A m \in Months : Share(l, m) = IF m = p THEN n ELSE 0,
               ~ At(t, "working"), l.pc # "write",
               UNCHANGED <<delivered, handed, crashes>>
        PROVE  CountInv'
  <2>1. \A m \in Months : rows'[m] = IF m = p THEN r ELSE rows[m]
    BY <1>add, <1>0 DEF Store, TypeOK
  <2>2. \A m : Share(call[t], m) = 0
    BY <1>add DEF Share, At
  <2>3. \A m \in Months \ handed' :
          rows'[m].used = rows[m].used + Share(l, m) - Share(call[t], m)
                            + delivered'[m] - delivered[m]
    BY <1>add, <1>u, <2>1, <2>2
  <2>4. \A m \in Months : ~ rows'[m].stored => rows'[m].used = 0
    BY <1>add, <1>u, <2>1
  <2> QED
    BY <1>add, <1>0, <2>3, <2>4, Counted
<1>1. ASSUME NEW t \in Threads, NEW n \in Units, Consume(t, n) PROVE CountInv'
  <2> DEFINE l == [Idle EXCEPT !.pc = "look", !.n = n, !.period = month,
                               !.began = month]
  <2>1. l \in Call /\ l.pc = "look"
    BY <1>m, <1>i, MeteringAssumption DEF Idle, Call
  <2>2. /\ Goto(t, l) /\ UNCHANGED <<rows, crashes, delivered, handed>>
        /\ ~ At(t, "working")
    BY <1>1 DEF Consume, At
  <2> HIDE DEF l
  <2> QED
    BY <1>0, <2>1, <2>2, Uncounted
<1>2. ASSUME NEW t \in Threads, RecordCost(t) PROVE CountInv'
  <2> DEFINE l == [Idle EXCEPT !.pc = "record", !.period = month, !.began = month]
  <2>1. l \in Call /\ l.pc = "record"
    BY <1>m, <1>i DEF Idle, Call
  <2>2. /\ Goto(t, l) /\ UNCHANGED <<rows, crashes, delivered, handed>>
        /\ ~ At(t, "working")
    BY <1>2 DEF RecordCost, At
  <2> HIDE DEF l
  <2> QED
    BY <1>0, <2>1, <2>2, Uncounted
<1>3. ASSUME NEW t \in Threads, Look(t) PROVE CountInv'
  <2> DEFINE c == call[t]
             row == rows[c.period]
             past == Floor(row.used + c.n - Allowance(row))
             l1 == [c EXCEPT !.pc = "ensure"]
             l2 == [c EXCEPT !.pc = "claim", !.limit = Allowance(row)]
             l3 == [c EXCEPT !.pc = "record", !.over = IF past < c.n THEN past ELSE c.n]
  <2>1. c \in Call /\ UNCHANGED <<rows, crashes, delivered, handed>> /\ ~ At(t, "working")
    BY <1>3, <1>c DEF Look, At
  <2>2. l1.pc = "ensure" /\ l2.pc = "claim" /\ l3.pc = "record"
    BY <2>1 DEF Call
  <2>3. Goto(t, l1) \/ Goto(t, l2) \/ Goto(t, l3)
    BY <1>3 DEF Look
  <2> HIDE DEF l1, l2, l3
  <2>4. ASSUME NEW l, Goto(t, l) PROVE l \in Call
    BY <1>0, <2>4 DEF Goto, TypeOK
  <2> QED
    BY <1>0, <2>1, <2>2, <2>3, <2>4, Uncounted
<1>4. ASSUME NEW t \in Threads, Ensure(t) PROVE CountInv'
  <2> DEFINE l == [call[t] EXCEPT !.pc = "insert", !.owed = CarriedFromPrevious(call[t].period)]
  <2>1. /\ Goto(t, l) /\ ~ At(t, "working")
        /\ UNCHANGED <<rows, crashes, delivered, handed>>
    BY <1>4 DEF Ensure, At
  <2>2. l.pc = "insert"
    BY <1>c DEF Call
  <2> HIDE DEF l
  <2>3. l \in Call
    BY <1>0, <2>1 DEF Goto, TypeOK
  <2> QED
    BY <1>0, <2>1, <2>2, <2>3, Uncounted
<1>4a. ASSUME NEW t \in Threads, Insert(t) PROVE CountInv'
  <2> DEFINE c == call[t]
             l == [c EXCEPT !.pc = c.back, !.owed = 0]
             r == Settled(c.owed)
  <2>1. /\ c \in Call /\ c.period \in Months /\ c.owed \in Nat /\ ~ At(t, "working")
        /\ UNCHANGED <<crashes, delivered, handed>>
    BY <1>4a, <1>c DEF Insert, At, Call
  <2>2. l \in Call /\ l.pc \in {"look", "bump"}
    BY <2>1 DEF Call
  <2>3. Goto(t, l)
    BY <1>4a DEF Insert
  <2>4. CASE rows[c.period].stored
    <3>1. UNCHANGED rows
      BY <1>4a, <2>4 DEF Insert
    <3> QED
      BY <1>0, <2>1, <2>2, <2>3, <3>1, Uncounted
  <2>5. CASE ~ rows[c.period].stored
    <3>1. Store(c.period, r)
      BY <1>4a, <2>5 DEF Insert
    <3>2. r.used = 0 /\ r.stored
      BY <2>1, SettledType
    <3>3. rows[c.period].used = 0
      BY <1>u, <2>1, <2>5
    <3>4. \A m \in Months : rows'[m] = IF m = c.period THEN r ELSE rows[m]
      BY <1>0, <2>1, <3>1 DEF Store, TypeOK
    <3>5. \A m \in Months : rows'[m].used = rows[m].used
      BY <3>2, <3>3, <3>4
    <3>6. \A m \in Months : ~ rows'[m].stored => rows'[m].used = 0
      BY <1>u, <3>2, <3>4
    <3>7. \A m : Share(l, m) = 0 /\ Share(call[t], m) = 0
      BY <2>1, <2>2 DEF Share, At
    <3>8. \A m \in Months \ handed' :
            rows'[m].used = rows[m].used + Share(l, m) - Share(call[t], m)
                              + delivered'[m] - delivered[m]
      BY <1>u, <2>1, <3>5, <3>7
    <3> HIDE DEF l
    <3> QED
      BY <1>0, <2>1, <2>2, <2>3, <3>6, <3>8, Counted
  <2> QED
    BY <2>4, <2>5
<1>5. ASSUME NEW t \in Threads, Claim(t) PROVE CountInv'
  <2> DEFINE c == call[t]
             l == [c EXCEPT !.pc = "working", !.limit = 0]
             r == [rows[c.period] EXCEPT !.used = @ + c.n]
  <2>1. /\ c \in Call /\ c.period \in Months /\ c.n \in Nat /\ ~ At(t, "working")
        /\ rows[c.period] \in OrgUsage /\ rows[c.period].stored
        /\ UNCHANGED <<crashes, delivered, handed>>
    BY <1>5, <1>c DEF Claim, At, Kept
  <2>2. CASE UNCHANGED rows /\ Goto(t, Idle)
    BY <1>0, <1>i, <2>1, <2>2, Uncounted
  <2>3. CASE Store(c.period, r) /\ Goto(t, l)
    <3>1. l \in Call /\ l.pc = "working" /\ l.n = c.n /\ l.period = c.period
      BY <2>1 DEF Call
    <3>2. r \in OrgUsage /\ r.stored /\ r.used = rows[c.period].used + c.n
      <4>1. rows[c.period].used + c.n \in Nat
        BY <2>1 DEF OrgUsage
      <4> QED
        BY <2>1, <4>1 DEF OrgUsage
    <3>3. \A m \in Months : Share(l, m) = IF m = c.period THEN c.n ELSE 0
      BY <3>1 DEF Share
    <3> HIDE DEF l, r
    <3> QED
      BY <1>add, <2>1, <2>3, <3>1, <3>2, <3>3
  <2> QED
    BY <1>5, <2>2, <2>3 DEF Claim
<1>6. ASSUME NEW t \in Threads, Record(t) PROVE CountInv'
  <2> DEFINE l == [call[t] EXCEPT !.pc = "bump", !.period = month]
  <2>1. /\ Goto(t, l) /\ ~ At(t, "working")
        /\ UNCHANGED <<rows, crashes, delivered, handed>>
    BY <1>6 DEF Record, At
  <2>2. l \in Call /\ l.pc = "bump"
    BY <1>c, <1>m DEF Call
  <2> HIDE DEF l
  <2> QED
    BY <1>0, <2>1, <2>2, Uncounted
<1>7. ASSUME NEW t \in Threads, Bump(t) PROVE CountInv'
  <2> DEFINE c == call[t]
             p == c.period
             l == [c EXCEPT !.pc = "ensure", !.back = "bump"]
  <2>1. /\ c \in Call /\ p \in Months /\ c.n \in Nat /\ ~ At(t, "working")
        /\ rows[p] \in OrgUsage /\ l \in Call /\ l.pc = "ensure"
        /\ UNCHANGED <<crashes, delivered, handed>>
    BY <1>7, <1>c DEF Bump, At, Call
  <2> HIDE DEF l
  <2>2. CASE rows[p].stored
    <3>1. Store(p, Added(rows[p], c)) /\ Goto(t, Recorded(c))
      BY <1>7, <2>2 DEF Bump
    <3>2. Recorded(c) \in Call /\ Added(rows[p], c) \in OrgUsage
      BY <2>1, RecordedType, AddedType
    <3>3. Added(rows[p], c).stored /\ Added(rows[p], c).used = rows[p].used + c.n
      BY <2>1, <2>2 DEF Added, OrgUsage
    <3>4. /\ Recorded(c).pc # "write"
          /\ \A m \in Months : Share(Recorded(c), m) = IF m = p THEN c.n ELSE 0
      BY <2>1, RecordedShare
    <3> HIDE DEF c, p
    <3> QED
      BY <1>add, <2>1, <2>2, <3>1, <3>2, <3>3, <3>4
  <2>3. CASE ~ rows[p].stored
    <3>1. UNCHANGED rows /\ Goto(t, l)
      BY <1>7, <2>3 DEF Bump, l
    <3> QED
      BY <1>0, <2>1, <3>1, Uncounted
  <2> QED
    BY <2>2, <2>3
<1>8. ASSUME NEW t \in Threads, NEW k \in 0 .. call[t].n, Work(t, k) PROVE CountInv'
  <2> DEFINE c == call[t]
             p == c.period
             short == c.n - k
             l1 == [c EXCEPT !.pc = "release", !.n = short]
             l2 == [c EXCEPT !.pc = "record", !.n = 0, !.left = short]
  <2>1. /\ c \in Call /\ p \in Months /\ c.n \in Nat /\ k \in Nat /\ At(t, "working")
        /\ UNCHANGED <<rows, crashes>>
    BY <1>8, <1>c DEF Work
  <2>2. l1.pc = "release" /\ l2.pc = "record"
    BY <2>1 DEF Call
  <2>3. PICK l : Goto(t, l) /\ l \in {Idle, l1, l2}
    BY <1>8 DEF Work
  <2>4. l \in Call
    BY <1>0, <2>3 DEF Goto, TypeOK
  <2> HIDE DEF l1, l2
  <2>5. l.pc \notin {"working", "write"}
    BY <1>i, <2>2, <2>3
  <2>6. /\ delivered' = [delivered EXCEPT ![p] = @ + k]
        /\ handed' = IF short > 0 THEN handed \cup {p} ELSE handed
    BY <1>8 DEF Work
  <2>7. \A m \in Months : /\ Share(l, m) = 0
                          /\ Share(call[t], m) = IF m = p THEN c.n ELSE 0
    BY <2>1, <2>5 DEF Share, At
  <2>8. \A m \in Months : delivered'[m] = IF m = p THEN delivered[m] + k ELSE delivered[m]
    BY <1>0, <2>1, <2>6 DEF TypeOK
  <2>9. p \notin handed' => k = c.n
    BY <1>8, <2>1, <2>6
  <2>10. \A m \in Months \ handed' :
           rows'[m].used = rows[m].used + Share(l, m) - Share(call[t], m)
                             + delivered'[m] - delivered[m]
    BY <1>u, <2>1, <2>7, <2>8, <2>9
  <2>11. handed \subseteq handed'
    BY <2>6
  <2> QED
    BY <1>0, <1>u, <2>1, <2>3, <2>4, <2>5, <2>10, <2>11, Counted
<1>9. ASSUME NEW t \in Threads, Release(t) PROVE CountInv'
  <2> DEFINE l == [call[t] EXCEPT !.pc = "load", !.period = month]
  <2>1. /\ Goto(t, l) /\ ~ At(t, "working")
        /\ UNCHANGED <<rows, crashes, delivered, handed>>
    BY <1>9 DEF Release, At
  <2>2. l \in Call /\ l.pc = "load"
    BY <1>c, <1>m DEF Call
  <2> HIDE DEF l
  <2> QED
    BY <1>0, <2>1, <2>2, Uncounted
<1>9a. ASSUME NEW t \in Threads, Load(t) PROVE CountInv'
  <2> DEFINE c == call[t]
             l == [c EXCEPT !.pc = "write", !.held = rows[c.period].used]
  <2>1. l \in Call /\ l.pc = "write" /\ l.period = c.period
    BY <1>c DEF Call, OrgUsage
  <2>2. /\ Goto(t, l) \/ Goto(t, Idle)
        /\ handed' = handed \cup {c.period} /\ ~ At(t, "working")
        /\ UNCHANGED <<rows, crashes, delivered>>
    BY <1>9a DEF Load, At
  <2> HIDE DEF l, c
  <2> QED
    BY <1>0, <1>i, <2>1, <2>2, Uncounted
<1>10. ASSUME NEW t \in Threads, WriteBack(t) PROVE CountInv'
  <2> DEFINE c == call[t]
             r == [rows[c.period] EXCEPT !.used = Less(c, rows[c.period])]
  <2>1. /\ c \in Call /\ c.period \in Months /\ ~ At(t, "working")
        /\ rows[c.period] \in OrgUsage /\ rows[c.period].stored
        /\ Store(c.period, r) /\ Goto(t, Idle)
        /\ UNCHANGED <<crashes, delivered, handed>>
    BY <1>10, <1>c DEF WriteBack, At, Kept
  <2>2. c.period \in handed
    BY <1>10 DEF WriteBack, CountInv
  <2>3. r.stored
    BY <2>1 DEF OrgUsage
  <2> HIDE DEF r
  <2>4. \A m \in Months : rows'[m] = IF m = c.period THEN r ELSE rows[m]
    BY <1>0, <2>1 DEF Store, TypeOK
  <2>5. \A m \in Months : ~ rows'[m].stored => rows'[m].used = 0
    BY <1>u, <2>3, <2>4
  <2>6. \A m : Share(Idle, m) = 0 /\ Share(call[t], m) = 0
    BY <1>i, <2>1 DEF Share, At
  <2>7. \A m \in Months \ handed' :
           rows'[m].used = rows[m].used + Share(Idle, m) - Share(call[t], m)
                             + delivered'[m] - delivered[m]
    BY <1>u, <2>1, <2>2, <2>4, <2>6
  <2> QED
    BY <1>0, <1>i, <2>1, <2>5, <2>7, Counted
<1>11. ASSUME NEW t \in Threads, Crash(t) PROVE CountInv'
  <2>1. /\ Goto(t, Idle) /\ UNCHANGED <<rows, delivered, handed>>
        /\ crashes' = crashes + 1 /\ crashes \in Nat
    BY <1>11, <1>0 DEF Crash, TypeOK
  <2>2. \A u \in Threads : call'[u] = IF u = t THEN Idle ELSE call[u]
    BY <1>0, <2>1 DEF Goto, TypeOK
  <2>3. \A u \in Threads : call'[u].pc = "write" => call'[u].period \in handed'
    BY <1>i, <2>1, <2>2 DEF CountInv, At
  <2>4. \A m : Share(Idle, m) = 0
    BY <1>i DEF Share
  <2>5. ASSUME NEW m \in Months
        PROVE  /\ IsFiniteSet(InWork(m)')
               /\ m \notin handed => delivered[m] + Cardinality(InWork(m)') <= rows[m].used
    <3>1. /\ IsFiniteSet(InWork(m)')
          /\ Cardinality(InWork(m)) \in Nat /\ Cardinality(InWork(m)') \in Nat
          /\ Cardinality(InWork(m)') = Cardinality(InWork(m)) - Share(call[t], m) + Share(Idle, m)
      BY <1>0, <1>i, <2>1, WorkMoves DEF CountInv
    <3>2. Share(call[t], m) \in Nat
      BY <1>c DEF Share
    <3>3. m \notin handed => delivered[m] + Cardinality(InWork(m)) <= rows[m].used
      BY DEF CountInv
    <3> QED
      BY <1>u, <2>4, <3>1, <3>2, <3>3
  <2>6. crashes' # 0
    BY <2>1
  <2> QED
    BY <1>0, <1>u, <2>1, <2>3, <2>5, <2>6 DEF CountInv, At
<1>12. CASE UNCHANGED <<rows, call, delivered, handed, crashes>>
  BY <1>12, <1>0 DEF CountInv, At, InWork, Pieces
<1>13. (NextMonth \/ (\E l \in Limits : ChangePlan(l)) \/ UNCHANGED vars)
         => UNCHANGED <<rows, call, delivered, handed, crashes>>
  BY DEF NextMonth, ChangePlan, vars
<1> QED
  BY <1>1, <1>2, <1>3, <1>4, <1>4a, <1>5, <1>6, <1>7, <1>8, <1>9, <1>9a, <1>10, <1>11, <1>12,
     <1>13 DEF Next, Step

\* Once everything is quiet, and no handler was lost, the counter of a month in
\* which nothing was handed back is the work that month was charged for
\* (billing.consume, billing.record), whoever created its row.
THEOREM CountIsFaithful == Spec => []CountsWhatHappened
<1>1. CountInv => CountsWhatHappened
  <2> SUFFICES ASSUME CountInv, Quiet, crashes = 0, NEW m \in Months \ handed
               PROVE  rows[m].used = delivered[m]
    BY DEF CountsWhatHappened
  <2>1. InWork(m) = {}
    BY DEF InWork, Pieces, Quiet, At
  <2>2. Cardinality(InWork(m)) = 0
    BY <2>1, FS_EmptySet
  <2>3. delivered[m] \in Nat /\ rows[m].used \in Nat
    BY DEF CountInv, DebtInv, TypeOK, OrgUsage
  <2> QED
    BY <2>2, <2>3 DEF CountInv
<1> QED
  BY <1>1, CountInit, CountStep, PTL DEF Spec

-----------------------------------------------------------------------------
(***************************************************************************)
(* The budget.  A limit that was read stays true of the month: the row     *)
(* carries what it carried, and the best limit only rises.  Under          *)
(* enforcement nothing but a claim counts a unit: whoever records, records *)
(* a cost (n = 0).                                                         *)
(***************************************************************************)
\* What the month may pay for, under the best plan so far.
Budget(r, b) == Floor(b - r.carried)

Bounded(c, r, b) ==
  /\ c.pc = "claim" => c.limit <= Budget(r[c.period], b)
  /\ c.pc \in {"record", "bump"} => c.n = 0
  /\ c.pc \in {"ensure", "insert"} /\ c.back = "bump" => c.n = 0

BudgetInv ==
  /\ CountInv
  /\ limit <= best
  /\ enforced => /\ \A m \in Months \ ({0} \cup handed) : rows[m].used <= Budget(rows[m], best)
                 /\ \A t \in Threads : Bounded(call[t], rows, best)

LEMMA BudgetGrows ==
  ASSUME NEW r \in OrgUsage, NEW b \in Nat, NEW d \in Nat, b <= d
  PROVE  /\ Budget(r, b) \in Nat /\ Budget(r, b) <= Budget(r, d)
BY DEF Budget, Floor, OrgUsage

\* A handler moves, no row that is there forgets its debt, and no counter
\* outgrows its month.
LEMMA InBudget ==
  ASSUME BudgetInv, CountInv', NEW t \in Threads, NEW l \in Call, Goto(t, l),
         UNCHANGED <<limit, best, enforced>>, handed \subseteq handed',
         \A m \in Months : rows[m].stored => rows'[m].stored /\ rows'[m].carried = rows[m].carried,
         enforced => /\ Bounded(l, rows', best)
                     /\ \A m \in Months \ ({0} \cup handed') :
                          \/ rows'[m].used <= rows[m].used /\ rows'[m].carried = rows[m].carried
                          \/ rows'[m].used <= Budget(rows'[m], best)
  PROVE  BudgetInv'
<1>1. TypeOK /\ DebtInv
  BY DEF BudgetInv, CountInv, DebtInv
<1>2. \A u \in Threads : call'[u] = IF u = t THEN l ELSE call[u]
  BY <1>1 DEF Goto, TypeOK
<1>3. ASSUME enforced, NEW u \in Threads PROVE Bounded(call'[u], rows', best)
  <2>1. CASE u = t
    BY <1>2, <1>3, <2>1
  <2>2. CASE u # t
    <3>1. call'[u] = call[u] /\ call[u] \in Call /\ Bounded(call[u], rows, best)
      BY <1>1, <1>2, <1>3, <2>2 DEF BudgetInv, TypeOK
    <3>2. call[u].pc = "claim" => rows[call[u].period].stored
      BY <1>1 DEF DebtInv, Kept
    <3>3. call[u].period \in Months
      BY <3>1 DEF Call
    <3> QED
      BY <3>1, <3>2, <3>3 DEF Bounded, Budget
  <2> QED
    BY <2>1, <2>2
<1>4. ASSUME enforced, NEW m \in Months \ ({0} \cup handed')
      PROVE  rows'[m].used <= Budget(rows'[m], best)
  <2>1. rows[m].used <= Budget(rows[m], best)
    BY <1>4 DEF BudgetInv
  <2>2. rows[m].used \in Nat /\ rows'[m].used \in Nat
    BY <1>1 DEF CountInv, DebtInv, TypeOK, OrgUsage
  <2>3. best \in Nat /\ rows[m] \in OrgUsage
    BY <1>1, MeteringAssumption DEF TypeOK
  <2>4. Budget(rows[m], best) \in Nat
    BY <2>3, BudgetGrows
  <2>5. CASE rows'[m].used <= rows[m].used /\ rows'[m].carried = rows[m].carried
    <3>1. Budget(rows'[m], best) = Budget(rows[m], best)
      BY <2>5 DEF Budget
    <3> QED
      BY <2>1, <2>2, <2>4, <2>5, <3>1
  <2> QED
    BY <1>4, <2>5
<1> QED
  BY <1>3, <1>4 DEF BudgetInv

\* ... as when no row is written.
LEMMA InBudgetStill ==
  ASSUME BudgetInv, CountInv', NEW t \in Threads, NEW l \in Call, Goto(t, l),
         UNCHANGED <<rows, limit, best, enforced>>, handed \subseteq handed',
         enforced => Bounded(l, rows, best)
  PROVE  BudgetInv'
<1>1. \A m \in Months : rows[m].used <= rows[m].used
  BY DEF BudgetInv, CountInv, DebtInv, TypeOK, OrgUsage
<1> QED
  BY <1>1, InBudget

LEMMA BudgetInit == Init => BudgetInv
<1> SUFFICES ASSUME Init PROVE BudgetInv
  OBVIOUS
<1>1. PICK debt \in Debts, initial \in Limits :
        /\ limit = initial /\ best = initial
        /\ rows = [m \in Months |->
                     IF m = 0 THEN [NoRow EXCEPT !.stored = TRUE,
                                       !.used = initial + debt, !.over = debt]
                     ELSE NoRow]
  BY DEF Init
<1>2. initial \in Nat
  BY MeteringAssumption
<1>3. Idle.pc = "idle" /\ \A t \in Threads : call[t] = Idle
  BY DEF Init, Idle
<1>4. \A t \in Threads : Bounded(call[t], rows, best)
  BY <1>3 DEF Bounded
<1>5. \A m \in Months \ {0} : rows[m].used = 0 /\ rows[m] \in OrgUsage
  BY <1>1, NoRowType DEF NoRow
<1>6. \A m \in Months \ {0} : rows[m].used <= Budget(rows[m], best)
  BY <1>1, <1>2, <1>5, BudgetGrows
<1> QED
  BY <1>1, <1>2, <1>4, <1>6, CountInit DEF BudgetInv

LEMMA BudgetStep == BudgetInv /\ [Next]_vars => BudgetInv'
<1> SUFFICES ASSUME BudgetInv, [Next]_vars PROVE BudgetInv'
  OBVIOUS
<1> USE DEF history, setting, bound
<1>0. CountInv /\ CountInv' /\ DebtInv /\ DebtInv' /\ TypeOK /\ TypeOK'
  BY CountStep DEF BudgetInv, CountInv, DebtInv
<1>n. limit \in Nat /\ best \in Nat /\ limit <= best
  BY <1>0, MeteringAssumption DEF TypeOK, BudgetInv
<1>m. month \in Months /\ month \in Nat /\ rows[month] \in OrgUsage
  BY <1>0, MonthsType DEF TypeOK
<1>c. \A t \in Threads :
        /\ call[t] \in Call /\ call[t].period \in Months
        /\ rows[call[t].period] \in OrgUsage
        /\ call[t].n \in Nat /\ call[t].limit \in Nat /\ call[t].left \in Nat
        /\ Kept(call[t], rows, late, month)
        /\ enforced => Bounded(call[t], rows, best)
  BY <1>0 DEF TypeOK, DebtInv, Call, BudgetInv
<1>i. Idle \in Call /\ \A r, b : Bounded(Idle, r, b)
  BY IdleType DEF Idle, Bounded
<1>u. \A m \in Months : rows[m].used \in Nat /\ rows[m] \in OrgUsage
  BY <1>0 DEF TypeOK, OrgUsage
<1>t. \A t \in Threads : \A l : Goto(t, l) => l \in Call
  BY <1>0 DEF Goto, TypeOK
\* Adding to the counter of a month that has a row.
<1>add. ASSUME NEW t \in Threads, NEW l, Goto(t, l),
               NEW p \in Months, NEW r, Store(p, r),
               r.stored, r.carried = rows[p].carried,
               enforced /\ p \notin {0} \cup handed =>
                 \/ r.used <= rows[p].used
                 \/ r.used <= Budget(rows[p], best),
               \A q : enforced => Bounded(l, q, best),
               UNCHANGED <<limit, best, enforced, handed>>
        PROVE  BudgetInv'
  <2>1. \A m \in Months : rows'[m] = IF m = p THEN r ELSE rows[m]
    BY <1>add, <1>0 DEF Store, TypeOK
  <2>2. \A m \in Months : rows[m].stored => rows'[m].stored /\ rows'[m].carried = rows[m].carried
    BY <1>add, <2>1
  <2>3. ASSUME enforced, NEW m \in Months \ ({0} \cup handed')
        PROVE  \/ rows'[m].used <= rows[m].used /\ rows'[m].carried = rows[m].carried
               \/ rows'[m].used <= Budget(rows'[m], best)
    <3>1. CASE m # p
      BY <1>u, <2>1, <3>1
    <3>2. CASE m = p
      <4>1. Budget(rows'[m], best) = Budget(rows[m], best)
        BY <1>add, <2>1, <3>2 DEF Budget
      <4> QED
        BY <1>add, <2>1, <2>3, <3>2, <4>1
    <3> QED
      BY <3>1, <3>2
  <2> QED
    BY <1>add, <1>0, <1>t, <2>2, <2>3, InBudget
\* What follows a recording is bound by nothing.
<1>rec. ASSUME NEW c \in Call PROVE \A q : Bounded(Recorded(c), q, best)
  <2>1. Recorded(c).pc \in {"working", "release", "idle"}
    BY RecordedShare
  <2> QED
    BY <2>1 DEF Bounded
<1>1. ASSUME NEW t \in Threads, NEW n \in Units, Consume(t, n) PROVE BudgetInv'
  <2> DEFINE l == [Idle EXCEPT !.pc = "look", !.n = n, !.period = month,
                               !.began = month]
  <2>1. l.pc = "look"
    BY DEF Idle
  <2>2. Goto(t, l) /\ UNCHANGED <<rows, limit, best, enforced, handed>>
    BY <1>1 DEF Consume
  <2> HIDE DEF l
  <2>3. Bounded(l, rows, best)
    BY <2>1 DEF Bounded
  <2> QED
    BY <1>0, <1>t, <2>2, <2>3, InBudgetStill
<1>2. ASSUME NEW t \in Threads, RecordCost(t) PROVE BudgetInv'
  <2> DEFINE l == [Idle EXCEPT !.pc = "record", !.period = month, !.began = month]
  <2>1. l.pc = "record" /\ l.n = 0
    BY DEF Idle
  <2>2. Goto(t, l) /\ UNCHANGED <<rows, limit, best, enforced, handed>>
    BY <1>2 DEF RecordCost
  <2> HIDE DEF l
  <2>3. Bounded(l, rows, best)
    BY <2>1 DEF Bounded
  <2> QED
    BY <1>0, <1>t, <2>2, <2>3, InBudgetStill
<1>3. ASSUME NEW t \in Threads, Look(t) PROVE BudgetInv'
  <2> DEFINE c == call[t]
             row == rows[c.period]
             past == Floor(row.used + c.n - Allowance(row))
             l1 == [c EXCEPT !.pc = "ensure"]
             l2 == [c EXCEPT !.pc = "claim", !.limit = Allowance(row)]
             l3 == [c EXCEPT !.pc = "record", !.over = IF past < c.n THEN past ELSE c.n]
  <2>1. /\ c \in Call /\ row \in OrgUsage /\ c.pc = "look" /\ c.back = "look"
        /\ UNCHANGED <<rows, limit, best, enforced, handed>>
    BY <1>3, <1>c DEF Look, At, Kept
  <2>2. Bounded(l1, rows, best)
    <3>1. l1.pc = "ensure" /\ l1.back = "look"
      BY <2>1 DEF Call
    <3> QED
      BY <3>1 DEF Bounded
  <2>3. Bounded(l2, rows, best)
    <3>1. l2.pc = "claim" /\ l2.period = c.period /\ l2.limit = Allowance(row)
      BY <2>1 DEF Call
    <3>2. Allowance(row) <= Budget(row, best)
      BY <1>n, <2>1, BudgetGrows DEF Allowance, Budget
    <3> QED
      BY <3>1, <3>2 DEF Bounded
  <2>4. \/ Goto(t, l1) \/ Goto(t, l2)
        \/ Goto(t, l3) /\ ~ enforced
    BY <1>3 DEF Look
  <2> HIDE DEF l1, l2, l3
  <2> QED
    BY <1>0, <1>t, <2>1, <2>2, <2>3, <2>4, InBudgetStill
<1>4. ASSUME NEW t \in Threads, Ensure(t) PROVE BudgetInv'
  <2> DEFINE c == call[t]
             l == [c EXCEPT !.pc = "insert", !.owed = CarriedFromPrevious(c.period)]
  <2>1. /\ c \in Call /\ c.pc = "ensure"
        /\ Goto(t, l) /\ UNCHANGED <<rows, limit, best, enforced, handed>>
    BY <1>4, <1>c DEF Ensure, At
  <2>2. l.pc = "insert" /\ l.n = c.n /\ l.back = c.back
    BY <2>1 DEF Call
  <2> HIDE DEF l
  <2>3. enforced => Bounded(l, rows, best)
    BY <1>c, <2>1, <2>2 DEF Bounded
  <2> QED
    BY <1>0, <1>t, <2>1, <2>3, InBudgetStill
<1>4a. ASSUME NEW t \in Threads, Insert(t) PROVE BudgetInv'
  <2> DEFINE c == call[t]
             p == c.period
             l == [c EXCEPT !.pc = c.back, !.owed = 0]
             r == Settled(c.owed)
  <2>1. /\ c \in Call /\ p \in Months /\ c.pc = "insert" /\ c.owed \in Nat
        /\ Goto(t, l) /\ UNCHANGED <<limit, best, enforced, handed>>
    BY <1>4a, <1>c DEF Insert, At, Call
  <2>2. \A q : enforced => Bounded(l, q, best)
    <3>1. /\ l.pc = c.back /\ l.n = c.n /\ c.back \in {"look", "bump"}
      BY <2>1 DEF Call
    <3>2. enforced /\ c.back = "bump" => c.n = 0
      BY <1>c, <2>1 DEF Bounded
    <3> QED
      BY <3>1, <3>2 DEF Bounded
  <2>3. CASE rows[p].stored
    <3>1. UNCHANGED rows
      BY <1>4a, <2>3 DEF Insert
    <3> HIDE DEF l
    <3> QED
      BY <1>0, <1>t, <2>1, <2>2, <3>1, InBudgetStill
  <2>4. CASE ~ rows[p].stored
    <3>1. Store(p, r)
      BY <1>4a, <2>4 DEF Insert
    <3>2. r.used = 0 /\ r.stored
      BY <2>1, SettledType
    <3>3. \A m \in Months : rows'[m] = IF m = p THEN r ELSE rows[m]
      BY <1>0, <2>1, <3>1 DEF Store, TypeOK
    <3>4. rows'[p] \in OrgUsage
      BY <1>0, <2>1 DEF TypeOK
    <3>5. rows'[p].used <= Budget(rows'[p], best)
      <4>1. Budget(rows'[p], best) \in Nat
        BY <1>n, <3>4, BudgetGrows
      <4>2. rows'[p].used = 0
        BY <2>1, <3>2, <3>3
      <4> QED
        BY <4>1, <4>2
    <3> HIDE DEF l, r
    <3>6. \A m \in Months : rows[m].stored => rows'[m].stored /\ rows'[m].carried = rows[m].carried
      BY <2>4, <3>3
    <3>7. \A m \in Months :
            \/ rows'[m].used <= rows[m].used /\ rows'[m].carried = rows[m].carried
            \/ rows'[m].used <= Budget(rows'[m], best)
      BY <1>u, <3>3, <3>5
    <3> QED
      BY <1>0, <1>t, <2>1, <2>2, <3>6, <3>7, InBudget
  <2> QED
    BY <2>3, <2>4
<1>5. ASSUME NEW t \in Threads, Claim(t) PROVE BudgetInv'
  <2> DEFINE c == call[t]
             p == c.period
             l == [c EXCEPT !.pc = "working", !.limit = 0]
             r == [rows[p] EXCEPT !.used = @ + c.n]
  <2>1. /\ c \in Call /\ p \in Months /\ c.pc = "claim" /\ rows[p].stored
        /\ rows[p] \in OrgUsage /\ c.n \in Nat /\ c.limit \in Nat
        /\ UNCHANGED <<limit, best, enforced, handed>>
    BY <1>5, <1>c DEF Claim, At, Kept
  <2>2. CASE UNCHANGED rows /\ Goto(t, Idle)
    BY <1>0, <1>i, <2>1, <2>2, InBudgetStill
  <2>3. CASE rows[p].used + c.n <= c.limit /\ Store(p, r) /\ Goto(t, l)
    <3>1. l.pc = "working"
      BY <2>1 DEF Call
    <3>2. r.stored /\ r.carried = rows[p].carried /\ r.used = rows[p].used + c.n
      BY <2>1 DEF OrgUsage
    <3>3. enforced => c.limit <= Budget(rows[p], best)
      BY <1>c, <2>1 DEF Bounded
    <3>4. Budget(rows[p], best) \in Nat /\ rows[p].used \in Nat
      BY <1>n, <2>1, BudgetGrows DEF OrgUsage
    <3>5. enforced => r.used <= Budget(rows[p], best)
      BY <2>1, <2>3, <3>2, <3>3, <3>4
    <3> HIDE DEF l, r
    <3>6. \A q : Bounded(l, q, best)
      BY <3>1 DEF Bounded
    <3> QED
      BY <1>add, <2>1, <2>3, <3>2, <3>5, <3>6
  <2> QED
    BY <1>5, <2>2, <2>3 DEF Claim
<1>6. ASSUME NEW t \in Threads, Record(t) PROVE BudgetInv'
  <2> DEFINE c == call[t]
             l == [c EXCEPT !.pc = "bump", !.period = month]
  <2>1. /\ c \in Call /\ c.pc = "record"
        /\ Goto(t, l) /\ UNCHANGED <<rows, limit, best, enforced, handed>>
    BY <1>6, <1>c DEF Record, At
  <2>2. l.pc = "bump" /\ l.n = c.n
    BY <2>1 DEF Call
  <2> HIDE DEF l
  <2>3. enforced => Bounded(l, rows, best)
    BY <1>c, <2>1, <2>2 DEF Bounded
  <2> QED
    BY <1>0, <1>t, <2>1, <2>3, InBudgetStill
<1>7. ASSUME NEW t \in Threads, Bump(t) PROVE BudgetInv'
  <2> DEFINE c == call[t]
             p == c.period
             l == [c EXCEPT !.pc = "ensure", !.back = "bump"]
  <2>1. /\ c \in Call /\ p \in Months /\ c.n \in Nat /\ (enforced => c.n = 0)
        /\ rows[p] \in OrgUsage
        /\ UNCHANGED <<limit, best, enforced, handed>>
    BY <1>7, <1>c DEF Bump, At, Bounded
  <2>2. l.pc = "ensure" /\ l.n = c.n
    BY <2>1 DEF Call
  <2> HIDE DEF l
  <2>3. CASE rows[p].stored
    <3>1. Store(p, Added(rows[p], c)) /\ Goto(t, Recorded(c))
      BY <1>7, <2>3 DEF Bump
    <3>2. /\ Added(rows[p], c).stored
          /\ Added(rows[p], c).carried = rows[p].carried
          /\ Added(rows[p], c).used = rows[p].used + c.n
      BY <2>1, <2>3 DEF Added, OrgUsage
    <3> HIDE DEF c, p
    <3>3. enforced => Added(rows[p], c).used <= rows[p].used
      BY <1>u, <2>1, <3>2
    <3> QED
      BY <1>add, <1>rec, <2>1, <3>1, <3>2, <3>3
  <2>4. CASE ~ rows[p].stored
    <3>1. UNCHANGED rows /\ Goto(t, l)
      BY <1>7, <2>4 DEF Bump, l
    <3>2. enforced => Bounded(l, rows, best)
      BY <2>1, <2>2 DEF Bounded
    <3> QED
      BY <1>0, <1>t, <2>1, <3>1, <3>2, InBudgetStill
  <2> QED
    BY <2>3, <2>4
<1>8. ASSUME NEW t \in Threads, NEW k \in 0 .. call[t].n, Work(t, k) PROVE BudgetInv'
  <2> DEFINE c == call[t]
             short == c.n - k
             l1 == [c EXCEPT !.pc = "release", !.n = short]
             l2 == [c EXCEPT !.pc = "record", !.n = 0, !.left = short]
  <2>1. /\ c \in Call /\ UNCHANGED <<rows, limit, best, enforced>>
    BY <1>8, <1>c DEF Work
  <2>2. l1.pc = "release" /\ l2.pc = "record" /\ l2.n = 0
    BY <2>1 DEF Call
  <2>3. PICK l : Goto(t, l) /\ l \in {Idle, l1, l2}
    BY <1>8 DEF Work
  <2>4. handed \subseteq handed'
    BY <1>8 DEF Work
  <2> HIDE DEF l1, l2
  <2>5. Bounded(l, rows, best)
    BY <1>i, <2>2, <2>3 DEF Bounded
  <2> QED
    BY <1>0, <1>t, <2>1, <2>3, <2>4, <2>5, InBudgetStill
<1>9. ASSUME NEW t \in Threads, Release(t) \/ Load(t) PROVE BudgetInv'
  <2> DEFINE l == [call[t] EXCEPT !.pc = "load", !.period = month]
             w == [call[t] EXCEPT !.pc = "write", !.held = rows[call[t].period].used]
  <2>1. l.pc = "load" /\ w.pc = "write"
    BY <1>c DEF Call
  <2>2. /\ Goto(t, l) \/ Goto(t, w) \/ Goto(t, Idle)
        /\ handed \subseteq handed'
        /\ UNCHANGED <<rows, limit, best, enforced>>
    BY <1>9 DEF Release, Load
  <2> HIDE DEF l, w
  <2>3. Bounded(l, rows, best) /\ Bounded(w, rows, best)
    BY <2>1 DEF Bounded
  <2> QED
    BY <1>0, <1>i, <1>t, <2>2, <2>3, InBudgetStill
<1>10. ASSUME NEW t \in Threads, WriteBack(t) PROVE BudgetInv'
  <2> DEFINE c == call[t]
             r == [rows[c.period] EXCEPT !.used = Less(c, rows[c.period])]
  <2>1. /\ c \in Call /\ c.period \in Months
        /\ rows[c.period] \in OrgUsage /\ rows[c.period].stored
        /\ Store(c.period, r) /\ Goto(t, Idle)
        /\ UNCHANGED <<limit, best, enforced, handed>>
    BY <1>10, <1>c DEF WriteBack, At, Kept
  <2>2. c.period \in handed
    BY <1>10, <1>0 DEF WriteBack, CountInv
  <2>3. r.stored /\ r.carried = rows[c.period].carried
    BY <2>1 DEF OrgUsage
  <2> HIDE DEF r
  <2> QED
    BY <1>add, <1>i, <2>1, <2>2, <2>3
<1>11. ASSUME NEW t \in Threads, Crash(t) PROVE BudgetInv'
  <2>1. Goto(t, Idle) /\ UNCHANGED <<rows, limit, best, enforced, handed>>
    BY <1>11 DEF Crash
  <2> QED
    BY <1>0, <1>i, <2>1, InBudgetStill
<1>12. ASSUME NEW l \in Limits, ChangePlan(l) PROVE BudgetInv'
  <2>1. /\ UNCHANGED <<rows, call, enforced, handed>>
        /\ limit' = l /\ best' = IF l > best THEN l ELSE best
    BY <1>12 DEF ChangePlan
  <2>2. l \in Nat /\ best' \in Nat /\ best <= best' /\ limit' <= best'
    BY <1>n, <2>1, MeteringAssumption
  <2>3. \A m \in Months : /\ Budget(rows[m], best) \in Nat /\ Budget(rows[m], best') \in Nat
                          /\ Budget(rows[m], best) <= Budget(rows[m], best')
    BY <1>n, <1>u, <2>2, BudgetGrows
  <2>4. ASSUME enforced, NEW m \in Months \ ({0} \cup handed)
        PROVE  rows[m].used <= Budget(rows[m], best')
    <3>1. rows[m].used <= Budget(rows[m], best)
      BY <2>4 DEF BudgetInv
    <3> QED
      BY <1>u, <2>3, <3>1
  <2>5. ASSUME enforced, NEW t \in Threads PROVE Bounded(call[t], rows, best')
    <3>1. Bounded(call[t], rows, best) /\ call[t].period \in Months /\ call[t].limit \in Nat
      BY <1>c, <2>5
    <3> QED
      BY <2>3, <3>1 DEF Bounded
  <2> QED
    BY <1>0, <2>1, <2>2, <2>4, <2>5 DEF BudgetInv
<1>13. ASSUME UNCHANGED <<rows, call, limit, best, enforced, handed>> PROVE BudgetInv'
  BY <1>13, <1>0 DEF BudgetInv
<1>14. NextMonth \/ UNCHANGED vars => UNCHANGED <<rows, call, limit, best, enforced, handed>>
  BY DEF NextMonth, vars
<1> QED
  BY <1>1, <1>2, <1>3, <1>4, <1>4a, <1>5, <1>6, <1>7, <1>8, <1>9, <1>10, <1>11, <1>12,
     <1>13, <1>14 DEF Next, Step

\* With enforcement, the work a month pays for stays within the best allowance
\* it had, however the claims interleave, the plan changes and debts are
\* carried in: where nothing is handed back (billing.consume).
THEOREM BudgetIsKept == Spec => []WithinAllowance
<1>1. BudgetInv => WithinAllowance
  <2> SUFFICES ASSUME BudgetInv, enforced, NEW m \in Months \ ({0} \cup handed)
               PROVE  delivered[m] <= Floor(best - rows[m].carried)
    BY DEF WithinAllowance
  <2>1. rows[m].used <= Budget(rows[m], best)
    BY DEF BudgetInv
  <2>2. delivered[m] + Cardinality(InWork(m)) <= rows[m].used
    BY DEF BudgetInv, CountInv
  <2>3. Cardinality(InWork(m)) \in Nat
    BY FS_CardinalityType DEF BudgetInv, CountInv
  <2>4. /\ delivered[m] \in Nat /\ rows[m].used \in Nat
        /\ best \in Nat /\ rows[m] \in OrgUsage
    BY MeteringAssumption DEF BudgetInv, CountInv, DebtInv, TypeOK, OrgUsage
  <2>5. Budget(rows[m], best) \in Nat
    BY <2>4, BudgetGrows
  <2> QED
    BY <2>1, <2>2, <2>3, <2>4, <2>5 DEF Budget
<1> QED
  BY <1>1, BudgetInit, BudgetStep, PTL DEF Spec

-----------------------------------------------------------------------------
(***************************************************************************)
(* The books of MonthlyBudget.  What is due when a month begins is the     *)
(* least its row will carry, whenever that row is made, and its row is     *)
(* there before anything is counted in it.  A handler on its way to a      *)
(* counter asks for units there are, and no more of them are overrun       *)
(* (Asked); one that claims does so because the deployment enforces.       *)
(***************************************************************************)
Asked(c) ==
  /\ c.pc \in {"look", "ensure", "insert", "claim", "record", "bump"} =>
       c.n \in Units \cup {0} /\ c.over <= c.n
  /\ c.pc = "claim" => enforced

AskedInv ==
  /\ BudgetInv
  /\ \A t \in Threads : Asked(call[t])

LEMMA AskedInit == Init => AskedInv
<1> SUFFICES ASSUME Init PROVE AskedInv
  OBVIOUS
<1>1. Idle.pc = "idle" /\ \A t \in Threads : call[t] = Idle
  BY DEF Init, Idle
<1> QED
  BY <1>1, BudgetInit DEF AskedInv, Asked

LEMMA AskedStep == AskedInv /\ [Next]_vars => AskedInv'
<1> SUFFICES ASSUME AskedInv, [Next]_vars PROVE AskedInv'
  OBVIOUS
<1> USE DEF history, setting, bound
<1>0. BudgetInv /\ BudgetInv' /\ DebtInv /\ TypeOK
  BY BudgetStep DEF AskedInv, BudgetInv, CountInv, DebtInv
<1>c. \A t \in Threads : /\ call[t] \in Call /\ call[t].n \in Nat
                         /\ call[t].over \in Nat /\ Kept(call[t], rows, late, month)
                         /\ Asked(call[t])
  BY <1>0 DEF AskedInv, DebtInv, TypeOK, Call
<1>u. 0 \notin Units /\ Units \subseteq Nat
  BY MeteringAssumption
<1>move. ASSUME NEW t \in Threads, NEW l, Goto(t, l), enforced' = enforced, Asked(l)
         PROVE  AskedInv'
  <2>1. ASSUME NEW u \in Threads PROVE call'[u] = IF u = t THEN l ELSE call[u]
    BY <1>move, <1>0 DEF Goto, TypeOK
  <2> QED
    BY <1>0, <1>c, <1>move, <2>1 DEF AskedInv, Asked
<1>idle. Asked(Idle)
  BY DEF Asked, Idle
<1>rec. ASSUME NEW c \in Call PROVE Asked(Recorded(c))
  <2>1. Recorded(c).pc \in {"working", "release", "idle"}
    BY RecordedShare
  <2> QED
    BY <2>1 DEF Asked
<1>1. ASSUME NEW t \in Threads, NEW n \in Units, Consume(t, n) PROVE AskedInv'
  <2> DEFINE l == [Idle EXCEPT !.pc = "look", !.n = n, !.period = month,
                               !.began = month]
  <2>1. l.pc = "look" /\ l.n = n /\ l.over = 0
    BY DEF Idle
  <2>2. Goto(t, l) /\ enforced' = enforced
    BY <1>1 DEF Consume
  <2> HIDE DEF l
  <2>3. Asked(l)
    BY <1>u, <2>1 DEF Asked
  <2> QED
    BY <1>move, <2>2, <2>3
<1>2. ASSUME NEW t \in Threads, RecordCost(t) PROVE AskedInv'
  <2> DEFINE l == [Idle EXCEPT !.pc = "record", !.period = month, !.began = month]
  <2>1. l.pc = "record" /\ l.n = 0 /\ l.over = 0
    BY DEF Idle
  <2>2. Goto(t, l) /\ enforced' = enforced
    BY <1>2 DEF RecordCost
  <2> HIDE DEF l
  <2>3. Asked(l)
    BY <2>1 DEF Asked
  <2> QED
    BY <1>move, <2>2, <2>3
<1>3. ASSUME NEW t \in Threads, Look(t) PROVE AskedInv'
  <2> DEFINE c == call[t]
             row == rows[c.period]
             past == Floor(row.used + c.n - Allowance(row))
             l1 == [c EXCEPT !.pc = "ensure"]
             l2 == [c EXCEPT !.pc = "claim", !.limit = Allowance(row)]
             l3 == [c EXCEPT !.pc = "record", !.over = IF past < c.n THEN past ELSE c.n]
  <2>1. /\ c \in Call /\ c.n \in Units \cup {0} /\ c.over <= c.n
        /\ c.n \in Nat /\ enforced' = enforced
    BY <1>3, <1>c DEF Look, At, Asked
  <2>2. Asked(l1)
    BY <2>1 DEF Asked, Call
  <2>3. enforced => Asked(l2)
    BY <2>1 DEF Asked, Call
  <2>4. Asked(l3)
    <3>1. past \in Nat
      <4>1. row \in OrgUsage /\ limit \in Nat
        BY <1>0, <1>c, MeteringAssumption DEF TypeOK, Call
      <4>2. limit - row.carried \in Int /\ row.used \in Nat
        BY <4>1 DEF OrgUsage
      <4>3. Allowance(row) \in Nat
        BY <4>2, FloorType DEF Allowance
      <4> HIDE DEF row
      <4>4. row.used + c.n - Allowance(row) \in Int
        BY <2>1, <4>2, <4>3
      <4> QED
        BY <4>4, FloorType
    <3> HIDE DEF past
    <3>2. l3.pc = "record" /\ l3.n = c.n /\ l3.over = IF past < c.n THEN past ELSE c.n
      BY <2>1 DEF Call
    <3>3. l3.over <= l3.n
      BY <2>1, <3>1, <3>2
    <3> HIDE DEF l3
    <3> QED
      BY <2>1, <3>2, <3>3 DEF Asked
  <2>5. Goto(t, l1) \/ (enforced /\ Goto(t, l2)) \/ Goto(t, l3)
    BY <1>3 DEF Look
  <2> HIDE DEF l1, l2, l3
  <2> QED
    BY <1>move, <2>1, <2>2, <2>3, <2>4, <2>5
<1>4. ASSUME NEW t \in Threads, Ensure(t) PROVE AskedInv'
  <2> DEFINE c == call[t]
             l == [c EXCEPT !.pc = "insert", !.owed = CarriedFromPrevious(c.period)]
  <2>1. /\ c \in Call /\ c.n \in Units \cup {0} /\ c.over <= c.n
        /\ Goto(t, l) /\ enforced' = enforced
    BY <1>4, <1>c DEF Ensure, At, Asked
  <2>2. Asked(l)
    BY <2>1 DEF Asked, Call
  <2> HIDE DEF l
  <2> QED
    BY <1>move, <2>1, <2>2
<1>4a. ASSUME NEW t \in Threads, Insert(t) PROVE AskedInv'
  <2> DEFINE c == call[t]
             l == [c EXCEPT !.pc = c.back, !.owed = 0]
  <2>1. /\ c \in Call /\ c.n \in Units \cup {0} /\ c.over <= c.n
        /\ c.back \in {"look", "bump"}
        /\ Goto(t, l) /\ enforced' = enforced
    BY <1>4a, <1>c DEF Insert, At, Asked, Call
  <2>2. Asked(l)
    BY <2>1 DEF Asked, Call
  <2> HIDE DEF l
  <2> QED
    BY <1>move, <2>1, <2>2
<1>5. ASSUME NEW t \in Threads, Claim(t) PROVE AskedInv'
  <2> DEFINE l == [call[t] EXCEPT !.pc = "working", !.limit = 0]
  <2>1. Asked(l)
    BY <1>c DEF Asked, Call
  <2>2. (Goto(t, l) \/ Goto(t, Idle)) /\ enforced' = enforced
    BY <1>5 DEF Claim
  <2> HIDE DEF l
  <2> QED
    BY <1>move, <1>idle, <2>1, <2>2
<1>6. ASSUME NEW t \in Threads, Record(t) PROVE AskedInv'
  <2> DEFINE l == [call[t] EXCEPT !.pc = "bump", !.period = month]
  <2>1. /\ call[t].n \in Units \cup {0} /\ call[t].over <= call[t].n
        /\ call[t] \in Call /\ Goto(t, l) /\ enforced' = enforced
    BY <1>6, <1>c DEF Record, At, Asked
  <2>2. l.pc = "bump" /\ l.n = call[t].n /\ l.over = call[t].over
    BY <2>1 DEF Call
  <2> HIDE DEF l
  <2>3. Asked(l)
    BY <2>1, <2>2 DEF Asked
  <2> QED
    BY <1>move, <2>1, <2>3
<1>7. ASSUME NEW t \in Threads, Bump(t) PROVE AskedInv'
  <2> DEFINE c == call[t]
             l == [c EXCEPT !.pc = "ensure", !.back = "bump"]
  <2>1. /\ c \in Call /\ c.n \in Units \cup {0} /\ c.over <= c.n
        /\ Goto(t, Recorded(c)) \/ Goto(t, l)
        /\ enforced' = enforced
    BY <1>7, <1>c DEF Bump, At, Asked
  <2>2. Asked(l)
    BY <2>1 DEF Asked, Call
  <2> HIDE DEF l
  <2> QED
    BY <1>move, <1>rec, <2>1, <2>2
<1>8. ASSUME NEW t \in Threads, NEW k \in 0 .. call[t].n, Work(t, k) PROVE AskedInv'
  <2> DEFINE c == call[t]
             short == c.n - k
             l1 == [c EXCEPT !.pc = "release", !.n = short]
             l2 == [c EXCEPT !.pc = "record", !.n = 0, !.left = short]
  <2>1. c \in Call /\ c.over = 0 /\ enforced' = enforced
    BY <1>8, <1>c DEF Work, At, Kept
  <2>2. l1.pc = "release" /\ l2.pc = "record" /\ l2.n = 0 /\ l2.over = 0
    BY <2>1 DEF Call
  <2>3. Goto(t, l1) \/ Goto(t, l2) \/ Goto(t, Idle)
    BY <1>8 DEF Work
  <2> HIDE DEF l1, l2
  <2>4. Asked(l1) /\ Asked(l2)
    BY <2>2 DEF Asked
  <2> QED
    BY <1>move, <1>idle, <2>1, <2>3, <2>4
<1>9. ASSUME NEW t \in Threads, Release(t) \/ Load(t) PROVE AskedInv'
  <2> DEFINE l == [call[t] EXCEPT !.pc = "load", !.period = month]
             w == [call[t] EXCEPT !.pc = "write", !.held = rows[call[t].period].used]
  <2>1. l.pc = "load" /\ w.pc = "write"
    BY <1>c DEF Call
  <2>2. (Goto(t, l) \/ Goto(t, w) \/ Goto(t, Idle)) /\ enforced' = enforced
    BY <1>9 DEF Release, Load
  <2> HIDE DEF l, w
  <2>3. Asked(l) /\ Asked(w)
    BY <2>1 DEF Asked
  <2> QED
    BY <1>move, <1>idle, <2>2, <2>3
<1>10. ASSUME NEW t \in Threads, WriteBack(t) \/ Crash(t) PROVE AskedInv'
  BY <1>10, <1>move, <1>idle DEF WriteBack, Crash
<1>11. ASSUME NextMonth \/ (\E l \in Limits : ChangePlan(l)) \/ UNCHANGED vars
       PROVE  AskedInv'
  <2>1. UNCHANGED <<call, enforced>>
    BY <1>11 DEF NextMonth, ChangePlan, vars
  <2> QED
    BY <1>0, <1>c, <2>1 DEF AskedInv, Asked
<1> QED
  BY <1>1, <1>2, <1>3, <1>4, <1>4a, <1>5, <1>6, <1>7, <1>8, <1>9, <1>10, <1>11
     DEF Next, Step

\* What the books are made of.
LEMMA BooksAre ==
  ASSUME TypeOK
  PROVE  /\ Used \in [Months -> Nat] /\ Over \in [Months -> Nat]
         /\ \A m \in Months : Used[m] = rows[m].used /\ Over[m] = rows[m].over
         /\ \A m \in Months : rows[m].stored => Debt[m] = rows[m].carried
         /\ \A m \in 1 .. month : ~ rows[m].stored =>
              Debt[m] = rows[m - 1].over - late[m - 1]
         /\ \A m \in Months : ~ rows[m].stored /\ m \notin 1 .. month => Debt[m] = 0
         /\ \A m \in Months : m \in Stored <=> rows[m].stored
         /\ Debt \in [Months -> Int]
         /\ month \in Months /\ month \in Nat /\ Months \subseteq Nat
<1>1. \A m \in Months : rows[m] \in OrgUsage /\ late[m] \in Nat
  BY DEF TypeOK
<1>2. /\ month \in Months /\ month \in Nat /\ Months \subseteq Nat
      /\ 1 .. month \subseteq Months /\ \A m \in 1 .. month : m - 1 \in Months
  BY MonthsType, MeteringAssumption DEF TypeOK, Months
<1>3. /\ Used \in [Months -> Nat] /\ Over \in [Months -> Nat]
      /\ \A m \in Months : Used[m] = rows[m].used /\ Over[m] = rows[m].over
      /\ \A m \in Months : m \in Stored <=> rows[m].stored
  BY <1>1 DEF Used, Over, Stored, OrgUsage
<1>4. ASSUME NEW m \in Months, rows[m].stored
      PROVE  Debt[m] = rows[m].carried /\ Debt[m] \in Int
  BY <1>1, <1>4 DEF Debt, OrgUsage
<1>5. ASSUME NEW m \in 1 .. month, ~ rows[m].stored
      PROVE  Debt[m] = rows[m - 1].over - late[m - 1] /\ Debt[m] \in Int
  BY <1>1, <1>2, <1>5 DEF Debt, OrgUsage
<1>6. ASSUME NEW m \in Months, ~ rows[m].stored, m \notin 1 .. month PROVE Debt[m] = 0
  BY <1>6 DEF Debt
<1>7. Debt \in [Months -> Int]
  <2>1. \A m \in Months : Debt[m] \in Int
    BY <1>4, <1>5, <1>6
  <2>2. Debt = [m \in Months |-> Debt[m]]
    BY DEF Debt
  <2> QED
    BY <2>1, <2>2
<1> QED
  BY <1>2, <1>3, <1>4, <1>5, <1>6, <1>7

LEMMA BooksAreNext ==
  ASSUME TypeOK'
  PROVE  /\ Used' \in [Months -> Nat] /\ Over' \in [Months -> Nat]
         /\ \A m \in Months : Used'[m] = rows'[m].used /\ Over'[m] = rows'[m].over
         /\ \A m \in Months : rows'[m].stored => Debt'[m] = rows'[m].carried
         /\ \A m \in 1 .. month' : ~ rows'[m].stored =>
              Debt'[m] = rows'[m - 1].over - late'[m - 1]
         /\ \A m \in Months : ~ rows'[m].stored /\ m \notin 1 .. month' => Debt'[m] = 0
         /\ \A m \in Months : m \in Stored' <=> rows'[m].stored
<1>1. \A m \in Months : rows'[m] \in OrgUsage
  BY DEF TypeOK
<1>2. 1 .. month' \subseteq Months
  BY MonthsType, MeteringAssumption DEF TypeOK, Months
<1>3. /\ Used' \in [Months -> Nat] /\ Over' \in [Months -> Nat]
      /\ \A m \in Months : Used'[m] = rows'[m].used /\ Over'[m] = rows'[m].over
      /\ \A m \in Months : m \in Stored' <=> rows'[m].stored
  BY <1>1 DEF Used, Over, Stored, OrgUsage
<1>4. ASSUME NEW m \in Months, rows'[m].stored PROVE Debt'[m] = rows'[m].carried
  BY <1>4 DEF Debt
<1>5. ASSUME NEW m \in 1 .. month', ~ rows'[m].stored
      PROVE  Debt'[m] = rows'[m - 1].over - late'[m - 1]
  BY <1>2, <1>5 DEF Debt
<1>6. ASSUME NEW m \in Months, ~ rows'[m].stored, m \notin 1 .. month' PROVE Debt'[m] = 0
  BY <1>6 DEF Debt
<1> QED
  BY <1>3, <1>4, <1>5, <1>6

LEMMA DebtIsFunction == DOMAIN Debt = Months /\ DOMAIN Debt' = Months
                        /\ Debt = [m \in Months |-> Debt[m]]
                        /\ Debt' = [m \in Months |-> Debt'[m]]
BY DEF Debt

\* A step leaves the debts alone when rows stay, keep what they carry, and what
\* came late in a month that is over is all it gained.
LEMMA DebtStays ==
  ASSUME TypeOK, TypeOK', month' = month,
         \A m \in Months : /\ rows'[m].stored = rows[m].stored
                           /\ rows'[m].carried = rows[m].carried
                           /\ m < month =>
                                rows'[m].over - late'[m] = rows[m].over - late[m]
  PROVE  Debt' = Debt /\ Stored' = Stored
<1>1. \A m \in 1 .. month : m \in Months /\ m - 1 \in Months /\ m - 1 < month
  BY MonthsType, MeteringAssumption DEF TypeOK, Months
<1>2. ASSUME NEW m \in Months PROVE Debt'[m] = Debt[m]
  <2>1. CASE rows[m].stored
    BY <2>1, BooksAre, BooksAreNext
  <2>2. CASE ~ rows[m].stored /\ m \in 1 .. month
    BY <1>1, <2>2, BooksAre, BooksAreNext
  <2>3. CASE ~ rows[m].stored /\ m \notin 1 .. month
    BY <2>3, BooksAre, BooksAreNext
  <2> QED
    BY <2>1, <2>2, <2>3
<1>3. Debt' = Debt
  BY <1>2, DebtIsFunction
<1>4. Stored' = Stored
  BY DEF Stored
<1> QED
  BY <1>3, <1>4

\* A step that leaves the rows and the months of returned units alone.
LEMMA BooksStay ==
  ASSUME TypeOK, TypeOK', UNCHANGED <<rows, late, month>>
  PROVE  Used' = Used /\ Over' = Over /\ Debt' = Debt /\ Stored' = Stored
BY DebtStays DEF Used, Over

\* A row is made: the month is settled, for no less than the books had due.
LEMMA RowMade ==
  ASSUME CountInv, TypeOK', NEW p \in {month - 1, month}, p \in Months,
         ~ rows[p].stored, NEW owed \in Nat,
         p > 0 => /\ rows[p - 1].over - late[p - 1] <= owed
                  /\ owed <= rows[p - 1].over,
         Store(p, Settled(owed)), UNCHANGED <<late, month, enforced, best, handed>>
  PROVE  [Monthly!Next]_(Monthly!vars)
<1> DEFINE r == Settled(owed)
<1>0. TypeOK /\ Books(rows, late, month)
  BY DEF CountInv, DebtInv
<1>1. \A m \in Months : rows'[m] = IF m = p THEN r ELSE rows[m]
  BY <1>0 DEF Store, TypeOK
<1>2. r.stored /\ r.used = 0 /\ r.over = 0 /\ r.carried = owed
  BY SettledType
<1>3. rows[p].used = 0 /\ rows[p].over = 0
  BY <1>0 DEF CountInv, Books
<1> HIDE DEF r
<1>4. \A m \in Months : rows'[m].used = rows[m].used /\ rows'[m].over = rows[m].over
  BY <1>1, <1>2, <1>3
<1>5. Used' = Used /\ Over' = Over
  BY <1>4 DEF Used, Over
<1>6. p \in 1 .. month /\ \A m \in 1 .. month : m \in Months /\ m - 1 \in Months
  <2>1. p # 0 /\ month \in Nat /\ p \in Nat
    BY <1>0, BooksAre DEF Books
  <2>2. LastMonth \in Nat /\ month <= LastMonth
    BY <1>0, MeteringAssumption DEF Months, TypeOK
  <2>3. p \in 1 .. month
    BY <2>1
  <2> QED
    BY <2>1, <2>2, <2>3 DEF Months
<1>7. ASSUME NEW m \in Months PROVE Debt'[m] = IF m = p THEN owed ELSE Debt[m]
  <2>1. CASE m = p
    BY <1>1, <1>2, <2>1, BooksAreNext
  <2>2. CASE m # p /\ rows[m].stored
    BY <1>0, <1>1, <2>2, BooksAre, BooksAreNext
  <2>3. CASE m # p /\ ~ rows[m].stored /\ m \in 1 .. month
    <3>1. Debt[m] = rows[m - 1].over - late[m - 1]
      BY <1>0, <2>3, BooksAre
    <3>2. Debt'[m] = rows'[m - 1].over - late'[m - 1]
      BY <1>1, <2>3, BooksAreNext
    <3> QED
      BY <1>4, <1>6, <2>3, <3>1, <3>2
  <2>4. CASE m # p /\ ~ rows[m].stored /\ m \notin 1 .. month
    BY <1>0, <1>1, <2>4, BooksAre, BooksAreNext
  <2> QED
    BY <2>1, <2>2, <2>3, <2>4
<1>8. Debt' = [Debt EXCEPT ![p] = owed]
  BY <1>7, DebtIsFunction
<1>9. Stored' = Stored \cup {p} /\ p \notin Stored
  BY <1>1, <1>2 DEF Stored
<1>10. owed \in Debt[p] .. Over[p - 1]
  <2>1. Debt[p] = rows[p - 1].over - late[p - 1] /\ Over[p - 1] = rows[p - 1].over
    BY <1>0, <1>6, BooksAre
  <2>2. Debt[p] \in Int /\ Over[p - 1] \in Nat /\ p > 0
    BY <1>0, <1>6, BooksAre
  <2> QED
    BY <2>1, <2>2
<1>11. Monthly!Settle(p)
  BY <1>5, <1>8, <1>9, <1>10 DEF Monthly!Settle
<1> QED
  BY <1>11 DEF Monthly!Next

\* Units, and the overrun among them, go down in a month's row.
LEMMA Tallied ==
  ASSUME DebtInv, TypeOK', NEW m \in {month - 1, month}, m \in Months,
         NEW c \in Call, c.n \in Units \cup {0}, c.over <= c.n,
         c.n > 0 => ~ enforced, rows[m].stored,
         Store(m, Added(rows[m], c)), UNCHANGED <<month, enforced, best, handed>>,
         late' = IF m < month THEN [late EXCEPT ![m] = @ + c.over] ELSE late
  PROVE  [Monthly!Next]_(Monthly!vars)
<1>0. /\ TypeOK /\ c.n \in Nat /\ c.over \in Nat /\ rows[m] \in OrgUsage
      /\ month \in Nat /\ m \in Nat
  BY BooksAre DEF DebtInv, TypeOK, Call
<1>1. \A i \in Months : /\ rows'[i].stored = rows[i].stored
                        /\ rows'[i].carried = rows[i].carried
                        /\ i # m => rows'[i] = rows[i]
  BY <1>0 DEF Store, TypeOK, OrgUsage, Added
<1>2. rows'[m].used = rows[m].used + c.n /\ rows'[m].over = rows[m].over + c.over
  BY <1>0 DEF Store, TypeOK, OrgUsage, Added
<1>3. rows[m].over \in Nat /\ rows[m].used \in Nat
  BY <1>0 DEF OrgUsage
<1>4. ASSUME NEW i \in Months, i < month
      PROVE  rows'[i].over - late'[i] = rows[i].over - late[i]
  BY AddedBooks, <1>4 DEF Grows
<1>5. Debt' = Debt /\ Stored' = Stored
  BY <1>0, <1>1, <1>4, DebtStays
<1>6. Used' = [Used EXCEPT ![m] = @ + c.n]
  BY <1>1, <1>2 DEF Used
<1>7. Over' = [Over EXCEPT ![m] = @ + c.over]
  BY <1>1, <1>2 DEF Over
<1>8. CASE c.n = 0
  <2>1. c.over = 0
    BY <1>0, <1>8
  <2>2. Used' = Used /\ Over' = Over
    BY <1>0, <1>1, <1>2, <1>3, <1>8, <2>1 DEF Used, Over
  <2> QED
    BY <1>5, <2>2 DEF Monthly!vars
<1>9. CASE c.n # 0
  <2>1. ~ enforced /\ c.n \in Units /\ c.over \in 0 .. c.n
    BY <1>0, <1>9
  <2>2. m \in Stored
    BY DEF Stored
  <2>3. Monthly!Count(m, c.n, c.over)
    BY <1>0, <1>5, <1>6, <1>7, <2>1, <2>2 DEF Monthly!Count
  <2> QED
    BY <2>1, <2>3 DEF Monthly!Next
<1> QED
  BY <1>8, <1>9

LEMMA BudgetBegins == Init => Monthly!Init
<1> SUFFICES ASSUME Init PROVE Monthly!Init
  OBVIOUS
<1>1. PICK owed \in Debts, initial \in Limits :
        /\ month = 1 /\ best = initial /\ handed = {}
        /\ late = [m \in Months |-> 0]
        /\ rows = [m \in Months |->
                     IF m = 0 THEN [NoRow EXCEPT !.stored = TRUE,
                                       !.used = initial + owed, !.over = owed]
                     ELSE NoRow]
  BY DEF Init
<1>2. TypeOK
  BY TypeInit
<1>3. NoRow.used = 0 /\ NoRow.over = 0 /\ ~ NoRow.stored
  BY DEF NoRow
<1>4. /\ rows[0].used = initial + owed /\ rows[0].over = owed
      /\ rows[0].stored /\ rows[0].carried = 0
  BY <1>1, MonthsType DEF NoRow
<1>5. \A m \in Months : m # 0 => rows[m] = NoRow
  BY <1>1
<1>6. Used = [m \in Months |-> IF m = 0 THEN best + owed ELSE 0]
  BY <1>1, <1>3, <1>4, <1>5 DEF Used
<1>7. Over = [m \in Months |-> IF m = 0 THEN owed ELSE 0]
  BY <1>1, <1>3, <1>4, <1>5 DEF Over
<1>8. ASSUME NEW m \in Months PROVE Debt[m] = IF m = 1 THEN owed ELSE 0
  <2>1. m \in Nat /\ month = 1 /\ owed \in Nat /\ 0 \in Months
    BY <1>1, MonthsType, MeteringAssumption
  <2>2. CASE m > 1
    BY <1>2, <1>3, <1>5, <2>1, <2>2, BooksAre
  <2>3. CASE m = 1
    <3>1. Debt[m] = rows[0].over - late[0]
      BY <1>2, <1>3, <1>5, <2>1, <2>3, BooksAre
    <3> QED
      BY <1>1, <1>4, <2>1, <2>3, <3>1
  <2>4. CASE m = 0
    BY <1>2, <1>4, <2>1, <2>4, BooksAre
  <2> QED
    BY <2>1, <2>2, <2>3, <2>4
<1>9. Debt = [m \in Months |-> IF m = 1 THEN owed ELSE 0]
  BY <1>8, DebtIsFunction
<1>10. Stored = {0}
  BY <1>3, <1>4, <1>5, MonthsType DEF Stored
<1> QED
  BY <1>1, <1>6, <1>7, <1>9, <1>10 DEF Init, Monthly!Init, Monthly!Months, Months

LEMMA BudgetFollows == AskedInv /\ [Next]_vars => [Monthly!Next]_(Monthly!vars)
<1> SUFFICES ASSUME AskedInv, [Next]_vars PROVE [Monthly!Next]_(Monthly!vars)
  OBVIOUS
<1> USE DEF history, setting, bound
<1>0. BudgetInv /\ CountInv /\ DebtInv /\ TypeOK /\ TypeOK' /\ Books(rows, late, month)
  BY TypeStep DEF AskedInv, BudgetInv, CountInv, DebtInv
<1>m. month \in Months /\ month \in Nat /\ Months \subseteq Nat
  BY <1>0, BooksAre
<1>c. \A t \in Threads :
        /\ call[t] \in Call /\ call[t].n \in Nat /\ call[t].over \in Nat
        /\ call[t].period \in Months /\ call[t].began \in Nat
        /\ Kept(call[t], rows, late, month) /\ Asked(call[t])
        /\ enforced => Bounded(call[t], rows, best)
        /\ call[t].pc # "idle" => call[t].period \in {month - 1, month}
  <2> SUFFICES ASSUME NEW t \in Threads
               PROVE  /\ call[t] \in Call /\ call[t].n \in Nat /\ call[t].over \in Nat
                      /\ call[t].period \in Months /\ call[t].began \in Nat
                      /\ Kept(call[t], rows, late, month) /\ Asked(call[t])
                      /\ enforced => Bounded(call[t], rows, best)
                      /\ call[t].pc # "idle" => call[t].period \in {month - 1, month}
    OBVIOUS
  <2>1. /\ call[t] \in Call /\ call[t].n \in Nat /\ call[t].over \in Nat
        /\ call[t].period \in Months /\ call[t].began \in Nat
        /\ Kept(call[t], rows, late, month) /\ Asked(call[t])
        /\ enforced => Bounded(call[t], rows, best)
    BY <1>0, <1>m DEF AskedInv, BudgetInv, DebtInv, TypeOK, Call
  <2>2. call[t].pc # "idle" => call[t].period \in {month - 1, month}
    <3> SUFFICES ASSUME call[t].pc # "idle"
                 PROVE  call[t].period \in {month - 1, month}
      OBVIOUS
    <3>1. /\ call[t].began <= call[t].period /\ call[t].period <= month
          /\ month <= call[t].began + 1
      BY <2>1 DEF Kept
    <3>2. call[t].period \in Nat /\ call[t].began \in Nat
      BY <1>m, <2>1
    <3> QED
      BY <1>m, <3>1, <3>2
  <2> QED
    BY <2>1, <2>2
<1>still. ASSUME UNCHANGED <<rows, late, month, enforced, best, handed>>
          PROVE  UNCHANGED Monthly!vars
  BY <1>still, <1>0, BooksStay DEF Monthly!vars
\* A unit comes back.
<1>back. ASSUME NEW m \in {month - 1, month}, handed' = handed \cup {m},
                UNCHANGED <<rows, late, month, enforced, best>>
         PROVE  [Monthly!Next]_(Monthly!vars)
  <2>1. Used' = Used /\ Over' = Over /\ Debt' = Debt /\ Stored' = Stored
    BY <1>back, <1>0, BooksStay
  <2>2. Monthly!Return(m)
    BY <1>back, <2>1 DEF Monthly!Return
  <2> QED
    BY <2>2 DEF Monthly!Next
<1>1. ASSUME NEW t \in Threads,
             (\E n \in Units : Consume(t, n)) \/ RecordCost(t) \/ Look(t) \/ Crash(t)
             \/ Ensure(t) \/ Record(t) \/ Release(t)
      PROVE  UNCHANGED Monthly!vars
  BY <1>1, <1>still DEF Consume, RecordCost, Look, Crash, Ensure, Record, Release
<1>2. ASSUME NEW t \in Threads, Insert(t) PROVE [Monthly!Next]_(Monthly!vars)
  <2> DEFINE p == call[t].period
             owed == call[t].owed
  <2>1. /\ p \in Months /\ p \in {month - 1, month} /\ owed \in Nat
        /\ UNCHANGED <<late, month, enforced, best, handed>>
        /\ p > 0 => /\ rows[p - 1].over - late[p - 1] <= owed
                    /\ owed <= rows[p - 1].over
    BY <1>2, <1>c DEF Insert, At, Kept, Call
  <2>2. CASE rows[p].stored
    BY <1>2, <1>still, <2>1, <2>2 DEF Insert
  <2>3. CASE ~ rows[p].stored
    <3>1. Store(p, Settled(owed))
      BY <1>2, <2>3 DEF Insert
    <3> HIDE DEF p, owed
    <3> QED
      BY <1>0, <2>1, <2>3, <3>1, RowMade
  <2> QED
    BY <2>2, <2>3
<1>3. ASSUME NEW t \in Threads, Claim(t) PROVE [Monthly!Next]_(Monthly!vars)
  <2> DEFINE c == call[t]
             p == c.period
  <2>1. /\ c \in Call /\ p \in Months /\ p \in {month - 1, month} /\ enforced
        /\ c.n \in Units \cup {0} /\ c.n \in Nat
        /\ rows[p].stored /\ c.limit <= Budget(rows[p], best)
        /\ UNCHANGED <<late, month, enforced, best, handed>>
    BY <1>3, <1>c DEF Claim, At, Asked, Kept, Bounded
  <2>2. CASE UNCHANGED rows
    BY <1>still, <2>1, <2>2
  <2>3. CASE /\ rows[p].used + c.n <= c.limit
             /\ Store(p, [rows[p] EXCEPT !.used = @ + c.n])
    <3>1. rows[p] \in OrgUsage /\ rows[p].used \in Nat /\ rows[p].carried \in Nat
      BY <1>0, <2>1 DEF TypeOK, OrgUsage
    <3>2. \A i \in Months : /\ rows'[i].stored = rows[i].stored
                            /\ rows'[i].carried = rows[i].carried
                            /\ rows'[i].over = rows[i].over
                            /\ i # p => rows'[i].used = rows[i].used
      BY <1>0, <2>1, <2>3 DEF Store, TypeOK, OrgUsage
    <3>3. rows'[p].used = rows[p].used + c.n
      BY <1>0, <2>1, <2>3 DEF Store, TypeOK, OrgUsage
    <3>4. Debt' = Debt /\ Stored' = Stored /\ p \in Stored
      BY <1>0, <2>1, <3>2, DebtStays, BooksAre
    <3>5. Over' = Over /\ Used' = [Used EXCEPT ![p] = @ + c.n]
      BY <3>2, <3>3 DEF Used, Over
    <3>6. Debt[p] = rows[p].carried /\ Used[p] = rows[p].used
      BY <1>0, <1>m, <2>1, BooksAre
    <3>7. best \in Nat /\ c.limit \in Nat
      BY <1>0, <2>1, MeteringAssumption DEF TypeOK, Call
    <3>8. rows[p].used + c.n <= Floor(best - rows[p].carried)
      BY <2>1, <2>3, <3>1, <3>7 DEF Budget, Floor
    <3>9. Monthly!Floor(best - Debt[p]) = Floor(best - rows[p].carried)
      BY <3>6 DEF Floor, Monthly!Floor
    <3> HIDE DEF p, c
    <3>10. CASE c.n = 0
      <4>1. Used' = Used
        BY <3>1, <3>2, <3>3, <3>10 DEF Used
      <4> QED
        BY <2>1, <3>4, <3>5, <4>1 DEF Monthly!vars
    <3>11. CASE c.n # 0
      <4>1. Monthly!Grant(p, c.n)
        BY <2>1, <3>4, <3>5, <3>6, <3>8, <3>9 DEF Monthly!Grant
      <4> QED
        BY <2>1, <3>11, <4>1 DEF Monthly!Next
    <3> QED
      BY <3>10, <3>11
  <2> QED
    BY <1>3, <2>2, <2>3 DEF Claim
<1>4. ASSUME NEW t \in Threads, Bump(t) PROVE [Monthly!Next]_(Monthly!vars)
  <2> DEFINE c == call[t]
             p == c.period
  <2>1. /\ c \in Call /\ p \in Months /\ p \in {month - 1, month}
        /\ c.n \in Units \cup {0} /\ c.over <= c.n /\ c.n \in Nat
        /\ (enforced => c.n = 0)
        /\ UNCHANGED <<month, enforced, best, handed>>
    BY <1>4, <1>c DEF Bump, At, Asked, Bounded
  <2>2. CASE ~ rows[p].stored
    BY <1>4, <1>still, <2>1, <2>2 DEF Bump
  <2>3. CASE rows[p].stored
    <3>1. /\ Store(p, Added(rows[p], c))
          /\ late' = IF p < month THEN [late EXCEPT ![p] = @ + c.over] ELSE late
      BY <1>4, <2>3 DEF Bump
    <3>2. c.n > 0 => ~ enforced
      BY <2>1
    <3> HIDE DEF c, p
    <3> QED
      BY <1>0, <2>1, <2>3, <3>1, <3>2, Tallied
  <2> QED
    BY <2>2, <2>3
<1>6. ASSUME NEW t \in Threads, NEW k \in 0 .. call[t].n, Work(t, k)
      PROVE  [Monthly!Next]_(Monthly!vars)
  <2> DEFINE p == call[t].period
  <2>1. p \in {month - 1, month}
    BY <1>6, <1>c DEF Work, At
  <2>2. /\ handed' = handed \cup {p} \/ handed' = handed
        /\ UNCHANGED <<rows, late, month, enforced, best>>
    BY <1>6 DEF Work
  <2> HIDE DEF p
  <2> QED
    BY <1>back, <1>still, <2>1, <2>2
<1>7. ASSUME NEW t \in Threads, Load(t) PROVE [Monthly!Next]_(Monthly!vars)
  <2> DEFINE p == call[t].period
  <2>1. p \in {month - 1, month}
    BY <1>7, <1>c DEF Load, At
  <2>2. handed' = handed \cup {p} /\ UNCHANGED <<rows, late, month, enforced, best>>
    BY <1>7 DEF Load
  <2> HIDE DEF p
  <2> QED
    BY <1>back, <2>1, <2>2
<1>8. ASSUME NEW t \in Threads, WriteBack(t) PROVE [Monthly!Next]_(Monthly!vars)
  <2> DEFINE p == call[t].period
             n == Less(call[t], rows[call[t].period])
  <2>1. /\ p \in Months /\ p \in {month - 1, month} /\ p \in handed
        /\ Store(p, [rows[p] EXCEPT !.used = n])
        /\ UNCHANGED <<late, month, enforced, best, handed>>
    BY <1>8, <1>0, <1>c DEF WriteBack, At, CountInv
  <2> HIDE DEF p, n
  <2>2. \A i \in Months : /\ rows'[i].stored = rows[i].stored
                          /\ rows'[i].carried = rows[i].carried
                          /\ rows'[i].over = rows[i].over
                          /\ i # p => rows'[i].used = rows[i].used
    BY <1>0, <2>1 DEF Store, TypeOK, OrgUsage
  <2>3. Debt' = Debt /\ Stored' = Stored /\ Over' = Over
    BY <1>0, <2>1, <2>2, DebtStays DEF Over
  <2>4. Used' \in [Months -> Nat] /\ \A i \in Months \ {p} : Used'[i] = Used[i]
    BY <1>0, <2>2, BooksAre, BooksAreNext
  <2>5. Monthly!Rewrite(p)
    BY <2>1, <2>3, <2>4 DEF Monthly!Rewrite, Monthly!Months, Months
  <2> QED
    BY <2>1, <2>5 DEF Monthly!Next
<1>9. ASSUME NextMonth PROVE [Monthly!Next]_(Monthly!vars)
  <2>1. /\ month < LastMonth /\ month' = month + 1
        /\ UNCHANGED <<rows, late, enforced, best, handed>>
    BY <1>9 DEF NextMonth
  <2>2. month + 1 \in Months
    BY <1>0, <2>1 DEF TypeOK
  <2>3. Used' = Used /\ Over' = Over /\ Stored' = Stored
    BY <2>1 DEF Used, Over, Stored
  <2>4. ASSUME NEW m \in Months
        PROVE  Debt'[m] = IF m = month + 1 THEN Over[month] ELSE Debt[m]
    <3>1. m \in Nat /\ month' = month + 1 /\ rows' = rows /\ late' = late
      BY <1>m, <2>1
    <3>2. CASE m = month + 1
      <4>1. ~ rows[m].stored /\ late[month] = 0
        BY <1>0, <1>m, <3>1, <3>2 DEF Books
      <4>2. Debt'[m] = rows'[m - 1].over - late'[m - 1]
        BY <1>0, <1>m, <3>1, <3>2, <4>1, BooksAreNext
      <4>3. m - 1 = month /\ Over[month] = rows[month].over /\ rows[month].over \in Nat
        BY <1>0, <1>m, <3>2, BooksAre
      <4> QED
        BY <3>1, <3>2, <4>1, <4>2, <4>3
    <3>3. CASE m # month + 1 /\ rows[m].stored
      BY <1>0, <3>1, <3>3, BooksAre, BooksAreNext
    <3>4. CASE m # month + 1 /\ ~ rows[m].stored /\ m \in 1 .. month
      BY <1>0, <1>m, <3>1, <3>4, BooksAre, BooksAreNext
    <3>5. CASE m # month + 1 /\ ~ rows[m].stored /\ m \notin 1 .. month
      <4>1. m \notin 1 .. month'
        BY <1>m, <3>1, <3>5
      <4> QED
        BY <1>0, <3>1, <3>5, <4>1, BooksAre, BooksAreNext
    <3> QED
      BY <3>2, <3>3, <3>4, <3>5
  <2>5. Debt' = [Debt EXCEPT ![month + 1] = Over[month]]
    BY <2>2, <2>4, DebtIsFunction
  <2>6. Monthly!Turn
    BY <2>1, <2>3, <2>5 DEF Monthly!Turn
  <2> QED
    BY <2>6 DEF Monthly!Next
<1>10. ASSUME NEW l \in Limits, ChangePlan(l) PROVE [Monthly!Next]_(Monthly!vars)
  <2>1. /\ UNCHANGED <<rows, late, month, enforced, handed>>
        /\ best' = IF l > best THEN l ELSE best
    BY <1>10 DEF ChangePlan
  <2>2. CASE l > best
    <3>1. Used' = Used /\ Over' = Over /\ Debt' = Debt /\ Stored' = Stored
      BY <1>0, <2>1, BooksStay
    <3>2. Monthly!Upgrade(l)
      BY <2>1, <2>2, <3>1 DEF Monthly!Upgrade
    <3> QED
      BY <3>2 DEF Monthly!Next
  <2>3. CASE ~ l > best
    BY <1>still, <2>1, <2>3
  <2> QED
    BY <2>2, <2>3
<1>11. ASSUME UNCHANGED vars PROVE UNCHANGED Monthly!vars
  BY <1>11, <1>still DEF vars
<1> QED
  BY <1>1, <1>2, <1>3, <1>4, <1>6, <1>7, <1>8, <1>9, <1>10, <1>11
     DEF Next, Step

\* Metering one allowance keeps MonthlyBudget: rows made on the fly by
\* whichever handler comes first, overruns computed from a stale counter and
\* booked in the month the clock named a moment ago, months that end under a
\* handler and hand-backs that race a claim come to the same as books in which
\* a month is settled once, for no less than was due when it began, and nothing
\* is granted before (billing._ensure_row, consume, record, release).
THEOREM MeteringKeepsTheBudget == Spec => ImplementsBudget
<1>1. AskedInv /\ [Next]_vars => AskedInv'
  BY AskedStep
<1>2. AskedInv /\ [Next]_vars => [Monthly!Next]_(Monthly!vars)
  BY BudgetFollows
<1> QED
  BY <1>1, <1>2, AskedInit, BudgetBegins, PTL DEF Spec, ImplementsBudget, Monthly!Spec

-----------------------------------------------------------------------------
(* What follows from the books: a debt may grow until the month is settled. *)

\* What a month that has begun owes is never forgiven, and is final once the
\* month has its row.
DebtIsFixed ==
  [][\A m \in Months : m <= month => /\ Debt'[m] >= Debt[m]
                                     /\ rows[m].stored => Debt'[m] = Debt[m]]_vars

\* Nothing that happens in a month, or is still recorded of the one before,
\* takes away from what it owes, and nothing adds to it once its row is made
\* (billing._ensure_row, record).
THEOREM DebtStaysFixed == Spec => DebtIsFixed
<1>1. AskedInv /\ [Next]_vars =>
        [\A m \in Months : m <= month => /\ Debt'[m] >= Debt[m]
                                         /\ rows[m].stored => Debt'[m] = Debt[m]]_vars
  <2> SUFFICES ASSUME AskedInv, [Next]_vars, NEW m \in Months, m <= month
               PROVE  /\ Debt'[m] >= Debt[m]
                      /\ rows[m].stored => Debt'[m] = Debt[m]
    OBVIOUS
  <2>1. [Monthly!Next]_(Monthly!vars)
    BY BudgetFollows
  <2>2. TypeOK
    BY DEF AskedInv, BudgetInv, CountInv, DebtInv
  <2>3. /\ month \in Nat /\ m \in Nat /\ Debt[m] \in Int
        /\ m \in Stored <=> rows[m].stored
    BY <2>2, BooksAre
  <2>4. CASE Debt' = Debt
    BY <2>3, <2>4
  <2>5. CASE Debt' = [Debt EXCEPT ![month + 1] = Over[month]]
    <3>1. Debt'[m] = Debt[m]
      BY <2>3, <2>5, DebtIsFunction
    <3> QED
      BY <2>3, <3>1
  <2>6. ASSUME NEW i, i \notin Stored,
               NEW due \in Debt[i] .. Over[i - 1], Debt' = [Debt EXCEPT ![i] = due]
        PROVE  /\ Debt'[m] >= Debt[m]
               /\ rows[m].stored => Debt'[m] = Debt[m]
    <3>1. CASE i = m
      <4>1. Debt'[m] = due /\ ~ rows[m].stored
        BY <2>3, <2>6, <3>1, DebtIsFunction
      <4>2. due >= Debt[m]
        BY <2>3, <3>1
      <4> QED
        BY <4>1, <4>2
    <3>2. CASE i # m
      <4>1. Debt'[m] = Debt[m]
        BY <2>6, <3>2, DebtIsFunction
      <4> QED
        BY <2>3, <4>1
    <3> QED
      BY <3>1, <3>2
  <2>7. \/ Debt' = Debt
        \/ Debt' = [Debt EXCEPT ![month + 1] = Over[month]]
        \/ \E i : /\ i \notin Stored
                  /\ \E due \in Debt[i] .. Over[i - 1] : Debt' = [Debt EXCEPT ![i] = due]
    BY <2>1 DEF Monthly!Next, Monthly!Grant, Monthly!Count, Monthly!Return,
       Monthly!Rewrite, Monthly!Upgrade, Monthly!Turn, Monthly!Settle, Monthly!vars
  <2> QED
    BY <2>4, <2>5, <2>6, <2>7
<1>2. AskedInv /\ [Next]_vars => AskedInv'
  BY AskedStep
<1> QED
  BY <1>1, <1>2, AskedInit, PTL DEF Spec, DebtIsFixed

-----------------------------------------------------------------------------
(***************************************************************************)
(* A request ends: the number of steps it has left, at most, is counted    *)
(* down by each of its own and never raised by anybody else's.  Looking    *)
(* for the month's row, making it and looking again is no loop, for a row  *)
(* stays; and the work is recorded once.                                   *)
(***************************************************************************)
More(c) == IF c.n = 0 THEN 0 ELSE 6
Gap(c, r) == IF r[c.period].stored THEN 0 ELSE 3

StepsLeft(c, r) ==
  CASE c.pc = "idle"    -> 0
    [] c.pc = "write"   -> 1
    [] c.pc = "load"    -> 2
    [] c.pc = "release" -> 3
    [] c.pc = "bump"    -> 4 + More(c) + Gap(c, r)
    [] c.pc = "insert"  -> IF c.back = "look" THEN 16 ELSE 5 + More(c)
    [] c.pc = "ensure"  -> IF c.back = "look" THEN 17 ELSE 6 + More(c)
    [] c.pc = "record"  -> 8 + More(c)
    [] c.pc = "working" -> 9
    [] c.pc = "claim"   -> 10
    [] c.pc = "look"    -> 15 + Gap(c, r)

\* No step lengthens a request, and each of its own shortens it.
RequestsEnd ==
  [][\A t \in Threads : ~ At(t, "idle") =>
       /\ StepsLeft(call'[t], rows') <= StepsLeft(call[t], rows)
       /\ Step(t) => StepsLeft(call'[t], rows') < StepsLeft(call[t], rows)]_vars

LEMMA StepsLeftAre ==
  ASSUME NEW c \in Call, NEW r
  PROVE  /\ More(c) = IF c.n = 0 THEN 0 ELSE 6
         /\ Gap(c, r) = IF r[c.period].stored THEN 0 ELSE 3
         /\ c.pc = "idle" => StepsLeft(c, r) = 0
         /\ c.pc = "write" => StepsLeft(c, r) = 1
         /\ c.pc = "load" => StepsLeft(c, r) = 2
         /\ c.pc = "release" => StepsLeft(c, r) = 3
         /\ c.pc = "bump" => StepsLeft(c, r) = 4 + More(c) + Gap(c, r)
         /\ c.pc = "insert" /\ c.back = "look" => StepsLeft(c, r) = 16
         /\ c.pc = "insert" /\ c.back # "look" => StepsLeft(c, r) = 5 + More(c)
         /\ c.pc = "ensure" /\ c.back = "look" => StepsLeft(c, r) = 17
         /\ c.pc = "ensure" /\ c.back # "look" => StepsLeft(c, r) = 6 + More(c)
         /\ c.pc = "record" => StepsLeft(c, r) = 8 + More(c)
         /\ c.pc = "working" => StepsLeft(c, r) = 9
         /\ c.pc = "claim" => StepsLeft(c, r) = 10
         /\ c.pc = "look" => StepsLeft(c, r) = 15 + Gap(c, r)
BY DEF StepsLeft, More, Gap

LEMMA StepsLeftType ==
  ASSUME NEW c \in Call, NEW r
  PROVE  StepsLeft(c, r) \in Nat
<1>1. More(c) \in Nat /\ Gap(c, r) \in Nat
  BY DEF More, Gap
<1> QED
  BY <1>1, StepsLeftAre DEF Call

\* A row of OrgUsage is there to stay.
LEMMA RowsRemain ==
  ASSUME TypeOK, [Next]_vars, NEW m \in Months, rows[m].stored
  PROVE  rows'[m].stored
<1> USE DEF history, setting, bound
<1>r. \A p \in Months : rows[p] \in OrgUsage
  BY DEF TypeOK
<1>c. \A t \in Threads : call[t] \in Call /\ call[t].period \in Months
  BY DEF TypeOK, Call
<1>m. month \in Months
  BY DEF TypeOK
<1>store. ASSUME NEW p \in Months, NEW r, Store(p, r), rows[p].stored => r.stored
          PROVE  rows'[m].stored
  BY <1>store DEF Store, TypeOK
<1>1. ASSUME NEW t \in Threads, Insert(t) PROVE rows'[m].stored
  <2>1. Settled(call[t].owed).stored
    BY DEF Settled, NoRow
  <2>2. UNCHANGED rows \/ Store(call[t].period, Settled(call[t].owed))
    BY <1>1 DEF Insert
  <2> QED
    BY <1>c, <1>store, <2>1, <2>2
<1>2. ASSUME NEW t \in Threads, Claim(t) PROVE rows'[m].stored
  <2> DEFINE p == call[t].period
             r == [rows[p] EXCEPT !.used = @ + call[t].n]
  <2>1. p \in Months /\ r.stored = rows[p].stored
    BY <1>c, <1>r DEF OrgUsage
  <2>2. UNCHANGED rows \/ Store(p, r)
    BY <1>2 DEF Claim
  <2> HIDE DEF p, r
  <2> QED
    BY <1>store, <2>1, <2>2
<1>3. ASSUME NEW p \in Months, NEW c, Store(p, Added(rows[p], c)) PROVE rows'[m].stored
  <2>1. Added(rows[p], c).stored = rows[p].stored
    BY <1>r DEF Added, OrgUsage
  <2> QED
    BY <1>3, <1>store, <2>1
<1>4. ASSUME NEW t \in Threads, Bump(t) PROVE rows'[m].stored
  BY <1>3, <1>4, <1>c DEF Bump
<1>5. ASSUME NEW t \in Threads, WriteBack(t) PROVE rows'[m].stored
  <2> DEFINE p == call[t].period
             r == [rows[p] EXCEPT !.used = Less(call[t], rows[p])]
  <2>1. p \in Months /\ r.stored = rows[p].stored /\ Store(p, r)
    BY <1>5, <1>c, <1>r DEF OrgUsage, WriteBack
  <2> HIDE DEF p, r
  <2> QED
    BY <1>store, <2>1
<1>6. ASSUME UNCHANGED rows PROVE rows'[m].stored
  BY <1>6
<1>7. \A n : \A t \in Threads :
        (\/ Consume(t, n) \/ RecordCost(t) \/ Look(t) \/ Ensure(t) \/ Record(t)
         \/ Work(t, n) \/ Release(t) \/ Load(t) \/ Crash(t))
          => UNCHANGED rows
  BY DEF Consume, RecordCost, Look, Ensure, Record, Work, Release, Load, Crash
<1>8. NextMonth \/ (\E l \in Limits : ChangePlan(l)) \/ UNCHANGED vars => UNCHANGED rows
  BY DEF NextMonth, ChangePlan, vars
<1> QED
  BY <1>1, <1>2, <1>4, <1>5, <1>6, <1>7, <1>8 DEF Next, Step

LEMMA RecordedSteps ==
  ASSUME NEW c \in Call, NEW q
  PROVE  /\ Recorded(c) \in Call
         /\ c.n = 0 => StepsLeft(Recorded(c), q) <= 3
         /\ StepsLeft(Recorded(c), q) <= 9
<1>1. c.n \in Nat /\ c.left \in Nat /\ Recorded(c) \in Call
  BY RecordedType DEF Call
<1>2. /\ c.n > 0 => Recorded(c).pc = "working"
      /\ c.n = 0 => Recorded(c).pc \in {"release", "idle"}
  <2>1. CASE c.n > 0
    BY <1>1, <2>1 DEF Recorded, Call
  <2>2. CASE c.n = 0 /\ c.left > 0
    BY <1>1, <2>2 DEF Recorded, Call
  <2>3. CASE c.n = 0 /\ c.left = 0
    BY <1>1, <2>3 DEF Recorded, Idle
  <2> QED
    BY <1>1, <2>1, <2>2, <2>3
<1> QED
  BY <1>1, <1>2, StepsLeftAre

LEMMA StepCounts ==
  ASSUME DebtInv, TypeOK', NEW t \in Threads, Step(t)
  PROVE  StepsLeft(call'[t], rows') < StepsLeft(call[t], rows)
<1> DEFINE c == call[t]
           left == StepsLeft(c, rows)
           then == StepsLeft(call'[t], rows')
<1>0. /\ c \in Call /\ c.period \in Months /\ c.n \in Nat /\ c.back \in {"look", "bump"}
      /\ Kept(c, rows, late, month) /\ call'[t] \in Call
      /\ month \in Months /\ Idle \in Call /\ TypeOK
  BY IdleType DEF DebtInv, TypeOK, Call
<1>go. ASSUME NEW l, Goto(t, l) PROVE call'[t] = l
  BY <1>0, <1>go DEF Goto, TypeOK
<1>i. Idle.pc = "idle" /\ \A q : StepsLeft(Idle, q) = 0
  <2>1. Idle.pc = "idle"
    BY DEF Idle
  <2> QED
    BY <1>0, <2>1, StepsLeftAre
<1>1. CASE Look(t)
  <2>1. c.pc = "look" /\ c.back = "look" /\ rows' = rows
    BY <1>0, <1>1 DEF Look, At, Kept
  <2>2. \/ ~ rows[c.period].stored /\ call'[t].pc = "ensure" /\ call'[t].back = c.back
        \/ rows[c.period].stored /\ call'[t].pc \in {"claim", "record"}
    <3>1. CASE ~ rows[c.period].stored
      <4>1. Goto(t, [c EXCEPT !.pc = "ensure"])
        BY <1>1, <3>1 DEF Look
      <4>2. call'[t] = [c EXCEPT !.pc = "ensure"]
        BY <1>go, <4>1
      <4> QED
        BY <1>0, <3>1, <4>2 DEF Call
    <3>2. CASE rows[c.period].stored /\ enforced
      <4>1. Goto(t, [c EXCEPT !.pc = "claim", !.limit = Allowance(rows[c.period])])
        BY <1>1, <3>2 DEF Look
      <4>2. call'[t] = [c EXCEPT !.pc = "claim", !.limit = Allowance(rows[c.period])]
        BY <1>go, <4>1
      <4> QED
        BY <1>0, <3>2, <4>2 DEF Call
    <3>3. CASE rows[c.period].stored /\ ~ enforced
      <4>1. \E k : Goto(t, [c EXCEPT !.pc = "record", !.over = k])
        BY <1>1, <3>3 DEF Look
      <4>2. PICK k : call'[t] = [c EXCEPT !.pc = "record", !.over = k]
        BY <1>go, <4>1
      <4> QED
        BY <1>0, <3>3, <4>2 DEF Call
    <3> QED
      BY <3>1, <3>2, <3>3
  <2>3. left = IF rows[c.period].stored THEN 15 ELSE 18
    BY <1>0, <2>1, StepsLeftAre
  <2>4. CASE ~ rows[c.period].stored
    <3>1. then = 17
      BY <1>0, <2>1, <2>2, <2>4, StepsLeftAre
    <3> QED
      BY <2>3, <2>4, <3>1
  <2>5. CASE rows[c.period].stored
    <3>1. then \in {8, 10, 14}
      BY <1>0, <2>2, <2>5, StepsLeftAre
    <3> QED
      BY <2>3, <2>5, <3>1
  <2> QED
    BY <2>4, <2>5
<1>2. CASE Ensure(t)
  <2>1. /\ c.pc = "ensure"
        /\ call'[t] = [c EXCEPT !.pc = "insert", !.owed = CarriedFromPrevious(c.period)]
    BY <1>2, <1>go DEF Ensure, At
  <2>2. call'[t].pc = "insert" /\ call'[t].back = c.back /\ call'[t].n = c.n
    BY <1>0, <2>1 DEF Call
  <2>3. left = (IF c.back = "look" THEN 17 ELSE 6 + More(c)) /\ More(c) \in {0, 6}
    BY <1>0, <2>1, StepsLeftAre
  <2>4. then = IF c.back = "look" THEN 16 ELSE 5 + More(c)
    BY <1>0, <2>2, StepsLeftAre
  <2> QED
    BY <2>3, <2>4
<1>2a. CASE Insert(t)
  <2>1. c.pc = "insert" /\ call'[t] = [c EXCEPT !.pc = c.back, !.owed = 0]
    BY <1>2a, <1>go DEF Insert, At
  <2>2. /\ call'[t].pc = c.back /\ call'[t].n = c.n /\ call'[t].period = c.period
    BY <1>0, <2>1 DEF Call
  <2>3. rows'[c.period].stored
    <3>1. CASE rows[c.period].stored
      BY <1>2a, <3>1 DEF Insert
    <3>2. CASE ~ rows[c.period].stored
      <4>1. rows'[c.period] = Settled(c.owed)
        BY <1>0, <1>2a, <3>2 DEF Insert, Store, TypeOK
      <4> QED
        BY <4>1 DEF Settled, NoRow
    <3> QED
      BY <3>1, <3>2
  <2>4. Gap(call'[t], rows') = 0 /\ More(call'[t]) = More(c) /\ More(c) \in {0, 6}
    BY <2>2, <2>3 DEF Gap, More
  <2>5. left = IF c.back = "look" THEN 16 ELSE 5 + More(c)
    BY <1>0, <2>1, StepsLeftAre
  <2>6. then = IF c.back = "look" THEN 15 ELSE 4 + More(c)
    BY <1>0, <2>2, <2>4, StepsLeftAre
  <2> QED
    BY <2>4, <2>5, <2>6
<1>3. CASE Claim(t)
  <2>1. c.pc = "claim" /\ call'[t] \in {Idle, [c EXCEPT !.pc = "working", !.limit = 0]}
    BY <1>3, <1>go DEF Claim, At
  <2>2. call'[t].pc \in {"idle", "working"}
    BY <1>0, <1>i, <2>1 DEF Call
  <2>3. left = 10 /\ then \in {0, 9}
    BY <1>0, <2>1, <2>2, StepsLeftAre
  <2> QED
    BY <2>3
<1>4. CASE Record(t)
  <2>1. c.pc = "record" /\ call'[t] = [c EXCEPT !.pc = "bump", !.period = month]
    BY <1>4, <1>go DEF Record, At
  <2>2. call'[t].pc = "bump" /\ call'[t].n = c.n
    BY <1>0, <2>1 DEF Call
  <2>3. /\ Gap(call'[t], rows') \in {0, 3} /\ More(call'[t]) = More(c)
        /\ More(c) \in {0, 6}
    BY <2>2 DEF Gap, More
  <2>4. left = 8 + More(c)
    BY <1>0, <2>1, StepsLeftAre
  <2>5. then = 4 + More(call'[t]) + Gap(call'[t], rows')
    BY <1>0, <2>2, StepsLeftAre
  <2> QED
    BY <2>3, <2>4, <2>5
<1>5. CASE Bump(t)
  <2>1. c.pc = "bump" /\ left = 4 + More(c) + Gap(c, rows)
    BY <1>0, <1>5, StepsLeftAre DEF Bump, At
  <2>2. CASE rows[c.period].stored
    <3>1. call'[t] = Recorded(c)
      BY <1>5, <1>go, <2>2 DEF Bump
    <3>2. then \in Nat /\ then <= 9 /\ (c.n = 0 => then <= 3)
      BY <1>0, <3>1, RecordedSteps, StepsLeftType
    <3>3. left = IF c.n = 0 THEN 4 ELSE 10
      BY <2>1, <2>2 DEF More, Gap
    <3> QED
      BY <3>2, <3>3
  <2>3. CASE ~ rows[c.period].stored
    <3>1. call'[t] = [c EXCEPT !.pc = "ensure", !.back = "bump"]
      BY <1>5, <1>go, <2>3 DEF Bump
    <3>2. call'[t].pc = "ensure" /\ call'[t].back # "look" /\ call'[t].n = c.n
      BY <1>0, <3>1 DEF Call
    <3>3. left = (IF c.n = 0 THEN 7 ELSE 13) /\ More(call'[t]) = IF c.n = 0 THEN 0 ELSE 6
      BY <2>1, <2>3, <3>2 DEF More, Gap
    <3>4. then = 6 + More(call'[t])
      BY <1>0, <3>2, StepsLeftAre
    <3> QED
      BY <3>3, <3>4
  <2> QED
    BY <2>2, <2>3
<1>6. CASE \E k \in 0 .. c.n : Work(t, k)
  <2>1. PICK k \in 0 .. c.n : Work(t, k)
    BY <1>6
  <2>2. /\ c.pc = "working"
        /\ call'[t] \in {Idle, [c EXCEPT !.pc = "release", !.n = c.n - k],
                         [c EXCEPT !.pc = "record", !.n = 0, !.left = c.n - k]}
    BY <1>go, <2>1 DEF Work, At
  <2>3. call'[t].pc \in {"idle", "release"} \/ (call'[t].pc = "record" /\ call'[t].n = 0)
    BY <1>0, <1>i, <2>2 DEF Call
  <2>4. left = 9 /\ then \in {0, 3, 8}
    BY <1>0, <2>2, <2>3, StepsLeftAre
  <2> QED
    BY <2>4
<1>7. CASE Release(t)
  <2>1. c.pc = "release" /\ call'[t] = [c EXCEPT !.pc = "load", !.period = month]
    BY <1>7, <1>go DEF Release, At
  <2>2. call'[t].pc = "load"
    BY <1>0, <2>1 DEF Call
  <2>3. left = 3 /\ then = 2
    BY <1>0, <2>1, <2>2, StepsLeftAre
  <2> QED
    BY <2>3
<1>7a. CASE Load(t)
  <2>1. /\ c.pc = "load"
        /\ call'[t] \in {Idle, [c EXCEPT !.pc = "write", !.held = rows[c.period].used]}
    BY <1>7a, <1>go DEF Load, At
  <2>2. call'[t].pc \in {"idle", "write"}
    BY <1>0, <1>i, <2>1 DEF Call
  <2>3. left = 2 /\ then \in {0, 1}
    BY <1>0, <2>1, <2>2, StepsLeftAre
  <2> QED
    BY <2>3
<1>8. CASE WriteBack(t)
  <2>1. c.pc = "write" /\ call'[t] = Idle
    BY <1>8, <1>go DEF WriteBack, At
  <2>2. left = 1 /\ then = 0
    BY <1>0, <1>i, <2>1, StepsLeftAre
  <2> QED
    BY <2>2
<1> QED
  BY <1>1, <1>2, <1>2a, <1>3, <1>4, <1>5, <1>6, <1>7, <1>7a, <1>8 DEF Step

\* A request that somebody else's step passes by has no more to do than before.
LEMMA OthersDoNotDelay ==
  ASSUME TypeOK, [Next]_vars, NEW t \in Threads, call'[t] = call[t]
  PROVE  StepsLeft(call'[t], rows') <= StepsLeft(call[t], rows)
<1>1. call[t] \in Call /\ call[t].period \in Months
  BY DEF TypeOK, Call
<1>2. StepsLeft(call[t], rows) \in Nat /\ StepsLeft(call[t], rows') \in Nat
  BY <1>1, StepsLeftType
<1>3. CASE call[t].pc \notin {"look", "bump"}
  <2>1. StepsLeft(call[t], rows') = StepsLeft(call[t], rows)
    BY <1>1, <1>3, StepsLeftAre DEF Call
  <2> QED
    BY <1>2, <2>1
<1>4. Gap(call[t], rows') <= Gap(call[t], rows)
  BY <1>1, RowsRemain DEF Gap
<1>5. CASE call[t].pc \in {"look", "bump"}
  <2>1. PICK k \in Nat : \A q : StepsLeft(call[t], q) = k + Gap(call[t], q)
    <3>1. More(call[t]) \in Nat
      BY DEF More
    <3>2. CASE call[t].pc = "look"
      BY <1>1, <3>2, StepsLeftAre
    <3>3. CASE call[t].pc = "bump"
      <4>1. \A q : StepsLeft(call[t], q) = (4 + More(call[t])) + Gap(call[t], q)
        BY <1>1, <3>3, StepsLeftAre
      <4> QED
        BY <3>1, <4>1
    <3> QED
      BY <1>5, <3>2, <3>3
  <2>2. Gap(call[t], rows') \in Nat /\ Gap(call[t], rows) \in Nat
    BY DEF Gap
  <2> QED
    BY <1>4, <2>1, <2>2
<1> QED
  BY <1>3, <1>5

\* Every request comes to its end within eighteen steps of its own, whatever the
\* others do meanwhile (consume, record, release).
THEOREM RequestsDoEnd == Spec => RequestsEnd
<1>1. ASSUME DebtInv, [Next]_vars, NEW t \in Threads, ~ At(t, "idle")
      PROVE  /\ StepsLeft(call'[t], rows') <= StepsLeft(call[t], rows)
             /\ Step(t) => StepsLeft(call'[t], rows') < StepsLeft(call[t], rows)
  <2>0. TypeOK /\ TypeOK' /\ call[t] \in Call /\ call'[t] \in Call
    BY <1>1, TypeStep DEF DebtInv, TypeOK
  <2>1. StepsLeft(call[t], rows) \in Nat /\ StepsLeft(call'[t], rows') \in Nat
    BY <2>0, StepsLeftType
  <2>2. Step(t) => StepsLeft(call'[t], rows') < StepsLeft(call[t], rows)
    BY <1>1, <2>0, StepCounts
  <2>3. CASE call'[t] = call[t]
    BY <1>1, <2>0, <2>2, <2>3, OthersDoNotDelay
  <2>4. CASE Step(t)
    BY <2>1, <2>2, <2>4
  <2>5. CASE Crash(t)
    <3>1. call'[t] = Idle /\ Idle.pc = "idle"
      BY <2>0, <2>5 DEF Crash, Goto, TypeOK, Idle
    <3>2. StepsLeft(call'[t], rows') = 0
      BY <2>0, <3>1, StepsLeftAre
    <3> QED
      BY <2>1, <2>2, <3>2
  <2>6. \/ Step(t) \/ Crash(t)
        \/ call'[t] = call[t]
    <3>1. ASSUME NEW u \in Threads, u # t, NEW l, Goto(u, l) PROVE call'[t] = call[t]
      BY <2>0, <3>1 DEF Goto, TypeOK
    <3>2. ASSUME NEW u \in Threads, u # t,
                 (\E n \in Units : Consume(u, n)) \/ RecordCost(u) \/ Step(u) \/ Crash(u)
          PROVE  \E l : Goto(u, l)
      <4>1. Look(u) => \E l : Goto(u, l)
        BY DEF Look
      <4>2. Claim(u) \/ Record(u) \/ Bump(u) => \E l : Goto(u, l)
        BY DEF Claim, Record, Bump
      <4>3. (\E k \in 0 .. call[u].n : Work(u, k)) => \E l : Goto(u, l)
        BY DEF Work
      <4> QED
        BY <3>2, <4>1, <4>2, <4>3
           DEF Consume, RecordCost, Step, Crash, Ensure, Insert, Release, Load, WriteBack
    <3>3. ~ (\E n \in Units : Consume(t, n)) /\ ~ RecordCost(t)
      BY <1>1 DEF Consume, RecordCost
    <3>4. NextMonth \/ (\E l \in Limits : ChangePlan(l)) \/ UNCHANGED vars => call' = call
      BY DEF NextMonth, ChangePlan, vars
    <3> QED
      BY <1>1, <3>1, <3>2, <3>3, <3>4 DEF Next
  <2> QED
    BY <2>3, <2>4, <2>5, <2>6
<1>2. DebtInv /\ [Next]_vars =>
        [\A t \in Threads : ~ At(t, "idle") =>
           /\ StepsLeft(call'[t], rows') <= StepsLeft(call[t], rows)
           /\ Step(t) => StepsLeft(call'[t], rows') < StepsLeft(call[t], rows)]_vars
  BY <1>1
<1> QED
  BY <1>2, DebtInit, DebtStep, PTL DEF Spec, RequestsEnd

=============================================================================
