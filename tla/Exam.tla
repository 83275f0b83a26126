-------------------------------- MODULE Exam --------------------------------
(***************************************************************************)
(* What a candidate is promised of a sitting, without its requests, tabs,  *)
(* constraints or allowances: it begins once, its clock runs once, a slot  *)
(* deals one question for good, and every question served is handed in at  *)
(* most once, late exactly when the time was up, under the name the        *)
(* sitting was begun with if it was begun with one: an empty name stays,   *)
(* and says nothing about what is handed in.                               *)
(* Sittings implements it (Sittings!ImplementsExam).                       *)
(***************************************************************************)
EXTENDS Sequences

CONSTANTS Emails, Names, NoName, Blank, Slots, SetSlots, Pool, NoQuestion, Timed

VARIABLES
  clock,    \* of each candidate: "off", "running" or "out"
  name,     \* the name the sitting bears
  signed,   \* it was begun with that name, if only an empty one
  dealt,    \* the question each set slot has dealt
  answers   \* what was handed in

Init ==
  /\ clock = [e \in Emails |-> "off"]
  /\ name = [e \in Emails |-> NoName]
  /\ signed = [e \in Emails |-> FALSE]
  /\ dealt = [e \in Emails |-> [s \in SetSlots |-> NoQuestion]]
  /\ answers = {}

\* One request begins the sitting, with a name or without.
Begin(e, n) ==
  /\ clock[e] = "off"
  /\ clock' = [clock EXCEPT ![e] = "running"]
  /\ name' = [name EXCEPT ![e] = n]
  /\ signed' = [signed EXCEPT ![e] = (n # NoName)]
  /\ UNCHANGED <<dealt, answers>>

\* A sitting that was begun without a name is given one, or another.
Sign(e, n) ==
  /\ clock[e] # "off" /\ ~ signed[e]
  /\ name' = [name EXCEPT ![e] = n]
  /\ UNCHANGED <<clock, signed, dealt, answers>>

Deal(e, s) ==
  /\ dealt[e][s] = NoQuestion
  /\ \E i \in DOMAIN Pool[s] : dealt' = [dealt EXCEPT ![e][s] = Pool[s][i]]
  /\ UNCHANGED <<clock, name, signed, answers>>

RunOut(e) ==
  /\ Timed
  /\ clock[e] = "running"
  /\ clock' = [clock EXCEPT ![e] = "out"]
  /\ UNCHANGED <<name, signed, dealt, answers>>

\* What the set slots have dealt, and the fixed slots' only question.
Served(e) == {dealt[e][s] : s \in SetSlots} \cup {Pool[s][1] : s \in Slots \ SetSlots}

HandIn(e, q, n) ==
  /\ clock[e] # "off"
  /\ ~ \E a \in answers : a.email = e /\ a.question = q
  /\ signed[e] /\ name[e] # Blank => n = name[e]
  /\ answers' = answers \cup
       {[email |-> e, question |-> q, name |-> n, late |-> clock[e] = "out"]}
  /\ UNCHANGED <<clock, name, signed, dealt>>

Next ==
  \E e \in Emails :
    \/ \E n \in Names \cup {NoName, Blank} : Begin(e, n)
    \/ \E n \in Names \cup {Blank} : Sign(e, n)
    \/ \E s \in SetSlots : Deal(e, s)
    \/ RunOut(e)
    \/ \E q \in Served(e) \ {NoQuestion}, n \in Names : HandIn(e, q, n)

Spec == Init /\ [][Next]_<<clock, name, signed, dealt, answers>>
=============================================================================
