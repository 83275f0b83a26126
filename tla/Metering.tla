------------------------------ MODULE Metering ------------------------------
(***************************************************************************)
(* One monthly allowance of one organisation: assessment_platform/         *)
(* billing.py (consume, record, release and the lazy settlement of last    *)
(* month's overrun), as the draft routes and a starting sitting call it.   *)
(*                                                                         *)
(* A thread is a request handler.  Every action is one statement on        *)
(* OrgUsage, with the commit that makes it seen, or one look at the clock; *)
(* a value kept in call[t] is what the Python frame keeps between two of   *)
(* them.                                                                   *)
(*                                                                         *)
(* Abstracted: one metric ("sittings" or "drafts": each has columns of its *)
(* own and a call touches one); costs, whose sum is atomic, but whose      *)
(* recording may create the month's row; a plan is its limit.  Assumed: no *)
(* call outlives the month after the one it began in.  Bounds: LastMonth,  *)
(* MaxCalls, MaxCrashes.  An operator named ...Wrong is no part of the     *)
(* specification (see Grading).                                            *)
(***************************************************************************)
EXTENDS Integers

CONSTANTS
  Threads,     \* request handlers that may overlap
  Limits,      \* what the plans allow a month
  Units,       \* how many units one call may ask for (a variant set of N costs N)
  Debts,       \* what last month may have run over by
  LastMonth,   \* bound: months 0 .. LastMonth, the first one already over
  MaxCalls,    \* bound on the calls made
  MaxCrashes   \* bound on the handlers a crash drops

ASSUME MeteringAssumption ==
  /\ Limits \subseteq Nat /\ Limits # {}
  /\ Units \subseteq Nat \ {0}
  /\ Debts \subseteq Nat
  /\ LastMonth \in Nat \ {0}
  /\ MaxCalls \in Nat
  /\ MaxCrashes \in Nat

VARIABLES
  month,      \* period_key(), the UTC calendar month
  limit,      \* plan_for(organization).<metric>
  enforced,   \* config.BILLING_ENFORCED of this deployment
  rows,       \* OrgUsage, a row per month once something was metered in it
  call,       \* what each handler's call into billing keeps
  delivered,  \* history: units of work that took place, per month charged
  handed,     \* history: months in which, or for which, a unit was handed back
  late,       \* history: overrun booked in a month that was over, per month
  best,       \* history: the highest limit in force so far
  calls,      \* history, for MaxCalls
  crashes     \* history, for MaxCrashes

history == <<delivered, handed, late>>
setting == <<month, limit, enforced, best>>
bound   == <<calls, crashes>>
vars    == <<rows, call, history, setting, bound>>

-----------------------------------------------------------------------------
Months == 0 .. LastMonth
OrgUsage == [stored : BOOLEAN, used : Nat, over : Nat, carried : Nat]
NoRow == [stored |-> FALSE, used |-> 0, over |-> 0, carried |-> 0]
Floor(n) == IF n > 0 THEN n ELSE 0

Idle == [pc |-> "idle", n |-> 0, left |-> 0, limit |-> 0, over |-> 0, owed |-> 0,
         held |-> 0, period |-> 0, began |-> 0, back |-> "look"]

Call == [pc : {"idle", "look", "ensure", "insert", "claim", "record", "bump",
               "working", "release", "load", "write"},
         n : Nat,             \* units asked for, or to hand back
         left : Nat,          \* units to hand back once the cost is recorded
         limit : Nat,         \* allowance as read
         over : Nat,          \* overrun as computed from the row as read
         owed : Nat,          \* last month's overrun as _ensure_row read it
         held : Nat,          \* the counter as release loaded it
         period : Months,     \* period_key() when it was last asked for
         began : Months,      \* the month the handler started in
         back : {"look", "bump"}]  \* where _ensure_row returns to

TypeOK ==
  /\ month \in Months
  /\ limit \in Limits
  /\ enforced \in BOOLEAN
  /\ rows \in [Months -> OrgUsage]
  /\ call \in [Threads -> Call]
  /\ delivered \in [Months -> Nat]
  /\ handed \subseteq Months
  /\ late \in [Months -> Nat]
  /\ best \in Limits
  /\ calls \in Nat
  /\ crashes \in Nat

\* A second month begins; the first one may have run over its limit while the
\* deployment was metering without enforcing.
Init ==
  \E debt \in Debts, initial \in Limits :
    /\ month = 1
    /\ limit = initial
    /\ best = initial
    /\ enforced \in BOOLEAN
    /\ rows = [m \in Months |->
                 IF m = 0 THEN [NoRow EXCEPT !.stored = TRUE,
                                             !.used = initial + debt, !.over = debt]
                 ELSE NoRow]
    /\ call = [t \in Threads |-> Idle]
    /\ delivered = [m \in Months |-> IF m = 0 THEN initial + debt ELSE 0]
    /\ handed = {}
    /\ late = [m \in Months |-> 0]
    /\ calls = 0
    /\ crashes = 0

-----------------------------------------------------------------------------
At(t, pc) == call[t].pc = pc
Goto(t, c) == call' = [call EXCEPT ![t] = c]
Store(m, r) == rows' = [rows EXCEPT ![m] = r]

\* The plan's limit less what the previous month ran over by.
Allowance(row) == Floor(limit - row.carried)

(***************************************************************************)
(* consume: claim n units before the work is done.                         *)
(***************************************************************************)
Consume(t, n) ==
  /\ At(t, "idle")
  /\ calls < MaxCalls
  /\ calls' = calls + 1
  /\ Goto(t, [Idle EXCEPT !.pc = "look", !.n = n, !.period = month,
                          !.began = month])
  /\ UNCHANGED <<rows, history, setting, crashes>>

\* Read the month's row, creating it first when there is none.  Without
\* enforcement the overrun is computed here, from the counter as read.
Look(t) ==
  LET c == call[t]
      row == rows[c.period]
      allowed == Allowance(row)
      past == Floor(row.used + c.n - allowed)
  IN /\ At(t, "look")
     /\ Goto(t, CASE ~ row.stored -> [c EXCEPT !.pc = "ensure"]
                  [] row.stored /\ enforced ->
                       [c EXCEPT !.pc = "claim", !.limit = allowed]
                  [] row.stored /\ ~ enforced ->
                       [c EXCEPT !.pc = "record",
                                 !.over = IF past < c.n THEN past ELSE c.n])
     /\ UNCHANGED <<rows, history, setting, bound>>

\* What the month before recorded going over (carried_from_previous).
CarriedFromPrevious(m) ==
  IF m > 0 /\ rows[m - 1].stored THEN rows[m - 1].over ELSE 0

\* forgets the debt when a cost is the month's first event
EnsureForgetsWrong(t) ==
  LET c == call[t]
  IN /\ At(t, "ensure")
     /\ Goto(t, [c EXCEPT !.pc = "insert",
                          !.owed = IF c.back = "look"
                                   THEN CarriedFromPrevious(c.period) ELSE 0])
     /\ UNCHANGED <<rows, history, setting, bound>>

\* _ensure_row looks up what the month before ran over by ...
Ensure(t) ==
  LET c == call[t]
  IN /\ At(t, "ensure")
     /\ Goto(t, [c EXCEPT !.pc = "insert", !.owed = CarriedFromPrevious(c.period)])
     /\ UNCHANGED <<rows, history, setting, bound>>

Settled(carried) == [NoRow EXCEPT !.stored = TRUE, !.carried = carried]

\* replaces the row a sibling worker has just inserted
InsertReplacesWrong(t) ==
  LET c == call[t]
  IN /\ At(t, "insert")
     /\ Store(c.period, Settled(c.owed))
     /\ Goto(t, [c EXCEPT !.pc = c.back, !.owed = 0])
     /\ UNCHANGED <<history, setting, bound>>

\* settles the month again when a sibling has made its row
InsertSettlesAgainWrong(t) ==
  LET c == call[t]
  IN /\ At(t, "insert")
     /\ Store(c.period, IF rows[c.period].stored
                        THEN [rows[c.period] EXCEPT !.carried = c.owed]
                        ELSE Settled(c.owed))
     /\ Goto(t, [c EXCEPT !.pc = c.back, !.owed = 0])
     /\ UNCHANGED <<history, setting, bound>>

\* ... and inserts the row that carries it; a sibling's row stays.
Insert(t) ==
  LET c == call[t]
  IN /\ At(t, "insert")
     /\ IF rows[c.period].stored THEN UNCHANGED rows
        ELSE Store(c.period, Settled(c.owed))
     /\ Goto(t, [c EXCEPT !.pc = c.back, !.owed = 0])
     /\ UNCHANGED <<history, setting, bound>>

\* checks what was used, not what will have been
ClaimWrong(t) ==
  LET c == call[t]
      row == rows[c.period]
  IN /\ At(t, "claim")
     /\ IF row.used < c.limit
        THEN /\ Store(c.period, [row EXCEPT !.used = @ + c.n])
             /\ Goto(t, [c EXCEPT !.pc = "working", !.limit = 0])
        ELSE /\ UNCHANGED rows
             /\ Goto(t, Idle)
     /\ UNCHANGED <<history, setting, bound>>

\* The conditional UPDATE: the limit is checked where the counter is moved.
Claim(t) ==
  LET c == call[t]
      row == rows[c.period]
  IN /\ At(t, "claim")
     /\ IF row.used + c.n <= c.limit
        THEN /\ Store(c.period, [row EXCEPT !.used = @ + c.n])
             /\ Goto(t, [c EXCEPT !.pc = "working", !.limit = 0])
        ELSE /\ UNCHANGED rows
             /\ Goto(t, Idle)
     /\ UNCHANGED <<history, setting, bound>>

(***************************************************************************)
(* record: add to the counters of the month it is when the clock is read.  *)
(***************************************************************************)
\* An agent callback, or a finished draft, records what it cost (n = 0).
RecordCost(t) ==
  /\ At(t, "idle")
  /\ calls < MaxCalls
  /\ calls' = calls + 1
  /\ Goto(t, [Idle EXCEPT !.pc = "record", !.period = month, !.began = month])
  /\ UNCHANGED <<rows, history, setting, crashes>>

\* After recording: work for a consume, the hand-back or the end for a cost.
Recorded(c) == CASE c.n > 0 -> [c EXCEPT !.pc = "working", !.over = 0]
                 [] c.n = 0 /\ c.left > 0 ->
                      [c EXCEPT !.pc = "release", !.n = c.left, !.left = 0]
                 [] OTHER -> Idle

Added(row, c) == [row EXCEPT !.used = @ + c.n, !.over = @ + c.over]

\* period_key(): the month the UPDATE will name, over or not by then.
Record(t) ==
  /\ At(t, "record")
  /\ Goto(t, [call[t] EXCEPT !.pc = "bump", !.period = month])
  /\ UNCHANGED <<rows, history, setting, bound>>

\* The UPDATE; when there is no row to take it, the row is made and it is run
\* again.
Bump(t) ==
  LET c == call[t]
      row == rows[c.period]
  IN /\ At(t, "bump")
     /\ IF row.stored
        THEN /\ Store(c.period, Added(row, c))
             /\ Goto(t, Recorded(c))
             /\ late' = IF c.period < month THEN [late EXCEPT ![c.period] = @ + c.over]
                        ELSE late
        ELSE /\ Goto(t, [c EXCEPT !.pc = "ensure", !.back = "bump"])
             /\ UNCHANGED <<rows, late>>
     /\ UNCHANGED <<delivered, handed, setting, bound>>

(***************************************************************************)
(* The work, and release.                                                  *)
(***************************************************************************)
\* k of the n units take place.  A shortfall is handed back: at once (the
\* agent refused; somebody else started the sitting), or after what the draft
\* cost was recorded.
Work(t, k) ==
  LET c == call[t]
      short == c.n - k
  IN /\ At(t, "working")
     /\ k \in 0 .. c.n
     /\ delivered' = [delivered EXCEPT ![c.period] = @ + k]
     /\ handed' = IF short > 0 THEN handed \cup {c.period} ELSE handed
     /\ \/ Goto(t, IF short > 0 THEN [c EXCEPT !.pc = "release", !.n = short]
                   ELSE Idle)
        \/ Goto(t, [c EXCEPT !.pc = "record", !.n = 0, !.left = short])
     /\ UNCHANGED <<rows, late, setting, bound>>

\* release reads the clock ...
Release(t) ==
  /\ At(t, "release")
  /\ Goto(t, [call[t] EXCEPT !.pc = "load", !.period = month])
  /\ UNCHANGED <<rows, history, setting, bound>>

\* ... loads the row of the month it was, if there is one ...
Load(t) ==
  LET c == call[t]
  IN /\ At(t, "load")
     /\ Goto(t, IF rows[c.period].stored
                THEN [c EXCEPT !.pc = "write", !.held = rows[c.period].used]
                ELSE Idle)
     /\ handed' = handed \cup {c.period}
     /\ UNCHANGED <<rows, delivered, late, setting, bound>>

\* A counter that stays at nought is not written at all.
Less(c, row) == IF c.held = 0 THEN row.used ELSE Floor(c.held - c.n)

\* ... and writes back the counter it read, less n.
WriteBack(t) ==
  LET c == call[t]
  IN /\ At(t, "write")
     /\ Store(c.period, [rows[c.period] EXCEPT !.used = Less(c, rows[c.period])])
     /\ Goto(t, Idle)
     /\ UNCHANGED <<history, setting, bound>>

(***************************************************************************)
(* The environment.                                                        *)
(***************************************************************************)
Crash(t) ==
  /\ crashes < MaxCrashes
  /\ ~ At(t, "idle")
  /\ crashes' = crashes + 1
  /\ Goto(t, Idle)
  /\ UNCHANGED <<rows, history, setting, calls>>

NextMonth ==
  /\ month < LastMonth
  /\ \A t \in Threads : At(t, "idle") \/ call[t].began = month
  /\ month' = month + 1
  /\ UNCHANGED <<rows, call, history, limit, enforced, best, bound>>

\* A checkout, an upgrade, a cancellation or a lapse (plan_for).
ChangePlan(l) ==
  /\ l # limit
  /\ limit' = l
  /\ best' = IF l > best THEN l ELSE best
  /\ UNCHANGED <<rows, call, history, month, enforced, bound>>

Step(t) == \/ Look(t) \/ Ensure(t) \/ Insert(t) \/ Claim(t) \/ Record(t) \/ Bump(t)
           \/ (\E k \in 0 .. call[t].n : Work(t, k))
           \/ Release(t) \/ Load(t) \/ WriteBack(t)

Next ==
  \/ \E t \in Threads : \/ \E n \in Units : Consume(t, n)
                        \/ RecordCost(t) \/ Step(t) \/ Crash(t)
  \/ NextMonth
  \/ \E l \in Limits : ChangePlan(l)

Spec == Init /\ [][Next]_vars

-----------------------------------------------------------------------------
Quiet == \A t \in Threads : At(t, "idle")

\* The budget: with enforcement, the work a month pays for stays within what
\* the month allows, however the claims interleave (consume).  Stated for the
\* months nothing was handed back in: release is another matter, see below.
WithinAllowance ==
  enforced => \A m \in Months \ ({0} \cup handed) :
                delivered[m] <= Floor(best - rows[m].carried)

\* Metering is "a faithful count of what happened": once everything is quiet
\* a month's counter is the work the month was charged for, also when the
\* month's row was created by two handlers at once.
CountsWhatHappened ==
  Quiet /\ crashes = 0 =>
    \A m \in Months \ handed : rows[m].used = delivered[m]

\* What a month ran over by until it ended is charged to the next one in full,
\* and nothing is charged twice or made up, whichever event makes that month's
\* row and however many handlers try (carried_from_previous, _ensure_row).  What
\* is booked in a month that is over may come after its settlement: then it is
\* charged to nobody.
DebtIsCarried ==
  \A m \in Months \ {0} :
    rows[m].stored => /\ rows[m - 1].over - late[m - 1] <= rows[m].carried
                      /\ rows[m].carried <= rows[m - 1].over

\* The books as MonthlyBudget keeps them: a month that has begun owes what its
\* row says; until it has one, what the month before ran over by in time.
Used == [m \in Months |-> rows[m].used]
Over == [m \in Months |-> rows[m].over]
Debt == [m \in Months |-> CASE rows[m].stored -> rows[m].carried
                            [] ~ rows[m].stored /\ m \in 1 .. month ->
                                 rows[m - 1].over - late[m - 1]
                            [] OTHER -> 0]
Stored == {m \in Months : rows[m].stored}

Monthly == INSTANCE MonthlyBudget WITH
  used <- Used, over <- Over, debt <- Debt, settled <- Stored, returned <- handed

\* Every step of the handlers, however they claim, record and hand back over a
\* month's end, is a step of books in which a month is settled once, for no less
\* than was due when it began, and nothing is granted before (_ensure_row).
ImplementsBudget == Monthly!Spec

=============================================================================
