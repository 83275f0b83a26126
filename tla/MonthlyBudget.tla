--------------------------- MODULE MonthlyBudget ---------------------------
(***************************************************************************)
(* What metering promises of one allowance, without handlers or stale      *)
(* reads: what a month ran over by until it ended is due in the next; the  *)
(* next is settled once, for that, or for more when an overrun came in     *)
(* late; units are granted, only then, within the best plan less the debt, *)
(* or, unenforced, only counted; a unit more than the plan allows goes     *)
(* down as overrun in the month it is counted in, which may be one that is *)
(* over and settled, and is then due nowhere; nothing but a return lowers  *)
(* a count.  Metering implements it (Metering!ImplementsBudget).           *)
(***************************************************************************)
EXTENDS Integers

CONSTANTS Limits, Units, Debts, LastMonth

VARIABLES
  month,     \* the current one
  enforced,  \* fixed
  best,      \* the highest limit in force so far
  used,      \* units counted, per month
  over,      \* how many of them were past the allowance
  debt,      \* what a month that has begun has to make up for
  settled,   \* the months whose debt is final
  returned   \* months in which a unit is, or was, handed back

vars == <<month, enforced, best, used, over, debt, settled, returned>>

Months == 0 .. LastMonth
Floor(n) == IF n > 0 THEN n ELSE 0

Init ==
  \E owed \in Debts :
    /\ month = 1
    /\ enforced \in BOOLEAN
    /\ best \in Limits
    /\ used = [m \in Months |-> IF m = 0 THEN best + owed ELSE 0]
    /\ over = [m \in Months |-> IF m = 0 THEN owed ELSE 0]
    /\ debt = [m \in Months |-> IF m = 1 THEN owed ELSE 0]
    /\ settled = {0}
    /\ returned = {}

\* n units are granted, before the work is done.
Grant(m, n) ==
  /\ enforced
  /\ m \in settled
  /\ used[m] + n <= Floor(best - debt[m])
  /\ used' = [used EXCEPT ![m] = @ + n]
  /\ UNCHANGED <<month, enforced, best, over, debt, settled, returned>>

\* n units took place, k of them past the allowance.
Count(m, n, k) ==
  /\ ~ enforced
  /\ m \in settled
  /\ used' = [used EXCEPT ![m] = @ + n]
  /\ over' = [over EXCEPT ![m] = @ + k]
  /\ UNCHANGED <<month, enforced, best, debt, settled, returned>>

\* Units come back in some month ...
Return(m) ==
  /\ returned' = returned \cup {m}
  /\ UNCHANGED <<month, enforced, best, used, over, debt, settled>>

\* ... whose count is then whatever the last to write made it.
Rewrite(m) ==
  /\ m \in returned
  /\ used' \in [Months -> Nat]
  /\ \A i \in Months \ {m} : used'[i] = used[i]
  /\ UNCHANGED <<month, enforced, best, over, debt, settled, returned>>

Upgrade(l) ==
  /\ l > best
  /\ best' = l
  /\ UNCHANGED <<month, enforced, used, over, debt, settled, returned>>

\* A month ends: what it ran over by so far is due in the next.
Turn ==
  /\ month < LastMonth
  /\ month' = month + 1
  /\ debt' = [debt EXCEPT ![month + 1] = over[month]]
  /\ UNCHANGED <<enforced, best, used, over, settled, returned>>

\* The first event of a month settles it: an overrun that came in after the
\* month before had ended may still be charged, all of it or a part.
Settle(m) ==
  /\ m \notin settled
  /\ settled' = settled \cup {m}
  /\ \E due \in debt[m] .. over[m - 1] : debt' = [debt EXCEPT ![m] = due]
  /\ UNCHANGED <<month, enforced, best, used, over, returned>>

\* What a request is charged to, or gives back to: one that began last month
\* may still be at it.
Next ==
  \/ \E m \in {month - 1, month} :
       \/ \E n \in Units : Grant(m, n) \/ \E k \in 0 .. n : Count(m, n, k)
       \/ Settle(m) \/ Return(m) \/ Rewrite(m)
  \/ \E l \in Limits : Upgrade(l)
  \/ Turn

Spec == Init /\ [][Next]_vars
=============================================================================
