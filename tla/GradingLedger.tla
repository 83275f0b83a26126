--------------------------- MODULE GradingLedger ---------------------------
(***************************************************************************)
(* What the grading path promises of a submission, without its threads,    *)
(* its agent or its snapshots: a numbered attempt is granted to exactly    *)
(* one caller, and what the agent answers to attempt n moves the           *)
(* submission only while attempt n is the current one and still waits.     *)
(* Grading implements this ledger (Grading!ImplementsLedger).              *)
(***************************************************************************)
EXTENDS Naturals

CONSTANT Subs

VARIABLES
  status,    \* of each submission
  attempts,  \* attempts granted so far
  open       \* granted attempts <<submission, number>> not answered yet

Init ==
  /\ status = [s \in Subs |-> "absent"]
  /\ attempts = [s \in Subs |-> 0]
  /\ open = {}

\* A submission is inserted.
Admit(s) ==
  /\ status[s] = "absent"
  /\ status' = [status EXCEPT ![s] = "pending"]
  /\ UNCHANGED <<attempts, open>>

\* One caller gets the next attempt: its number was never granted before.
Grant(s) ==
  /\ status[s] # "absent"
  /\ attempts' = [attempts EXCEPT ![s] = @ + 1]
  /\ status' = [status EXCEPT ![s] = "pending"]
  /\ open' = open \cup {<<s, attempts[s] + 1>>}

\* The agent accepts or refuses an attempt that is still the current one.
Answer(s, n) ==
  /\ <<s, n>> \in open
  /\ status[s] = "pending" /\ attempts[s] = n
  /\ \E answer \in {"running", "error"} :
       status' = [status EXCEPT ![s] = answer]
  /\ open' = open \ {<<s, n>>}
  /\ UNCHANGED attempts

\* An attempt ends without a word: superseded, unanswered, or its caller died.
Lapse(s, n) ==
  /\ <<s, n>> \in open
  /\ open' = open \ {<<s, n>>}
  /\ UNCHANGED <<status, attempts>>

\* A callback or the reaper settles the submission, or puts it back in line.
\* No attempt is spent.
Settle(s) ==
  /\ status[s] # "absent"
  /\ \E end \in {"pending", "done", "error"} :
       status' = [status EXCEPT ![s] = end]
  /\ UNCHANGED <<attempts, open>>

Next == \E s \in Subs : \/ Admit(s) \/ Grant(s) \/ Settle(s)
                        \/ \E n \in {p[2] : p \in open} : Answer(s, n) \/ Lapse(s, n)

Spec == Init /\ [][Next]_<<status, attempts, open>>
=============================================================================
