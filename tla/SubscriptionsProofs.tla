------------------------- MODULE SubscriptionsProofs -------------------------
(***************************************************************************)
(* Proofs about Subscriptions, for every number of organisations,          *)
(* subscriptions, customers, plans, requests, workers, events and faults,  *)
(* in whatever order the events come.                                      *)
(***************************************************************************)
EXTENDS Subscriptions, TLAPS

-----------------------------------------------------------------------------
(***************************************************************************)
(* Types.  An idle worker has no organisation; every subscription that     *)
(* is being paid or runs has one.                                          *)
(***************************************************************************)
Typed ==
  /\ live \subseteq Orgs
  /\ row \in [Orgs -> Organization]
  /\ owner \in [Customers -> Orgs \cup {NoOrg}]
  /\ sub \in [Subs -> Subscription]
  /\ sent \subseteq Event
  /\ th \in [Threads -> Thread]
  /\ wk \in [Workers -> Worker]
  /\ orderly \in BOOLEAN
  /\ clock \in 0..MaxEvents /\ faults \in 0..MaxFaults
  /\ crowded \subseteq Orgs /\ closing \subseteq Subs
  /\ \A t \in Threads : th[t].pc # "idle" => th[t].org \in Orgs
  /\ \A t \in Threads : th[t].pc \in {"customer", "session"} => th[t].plan \in Plans
  /\ \A w \in Workers : wk[w].ev # {} => wk[w].org \in Orgs
  /\ \A s \in Subs : sub[s].state \notin {"unused", "canceled"} => sub[s].org \in Orgs

LEMMA TypedInit == Init => Typed
<1> SUFFICES ASSUME Init PROVE Typed
  OBVIOUS
<1>1. NeverPaid \in Organization /\ IdleThread \in Thread /\ IdleWorker \in Worker
  BY DEF NeverPaid, Organization, IdleThread, Thread, IdleWorker, Worker
<1>2. sub \in [Subs -> Subscription] /\ \A s \in Subs : sub[s].state = "unused"
  BY DEF Init, Subscription
<1>3. 0 \in 0..MaxEvents /\ 0 \in 0..MaxFaults
  BY SubscriptionsAssumption
<1>4. orderly \in BOOLEAN
  BY Zenon DEF Init
<1>5. th \in [Threads -> Thread] /\ wk \in [Workers -> Worker]
  BY <1>1 DEF Init
<1>6. /\ \A t \in Threads : th[t].pc = "idle"
      /\ \A w \in Workers : wk[w].ev = {}
  BY DEF Init, IdleThread, IdleWorker
<1>7. /\ live \subseteq Orgs /\ row \in [Orgs -> Organization] /\ sent \subseteq Event
      /\ owner \in [Customers -> Orgs \cup {NoOrg}]
      /\ crowded \subseteq Orgs /\ closing \subseteq Subs
  BY <1>1 DEF Init
<1> QED
  BY <1>2, <1>3, <1>4, <1>5, <1>6, <1>7 DEF Typed, Init

LEMMA HandledType ==
  ASSUME Typed, NEW r \in Organization, NEW e \in Event
  PROVE  Handled(r, e) \in Organization
<1>1. /\ e.type \in {"completed", "written", "deleted"} /\ e.sub \in Subs
      /\ e.status \in {"entitled", "lapsed", "canceled"} /\ e.price \in Plans \cup {Unlisted}
  BY DEF Event
<1>2. sub[e.sub].cust \in Customers \cup {NoCustomer}
  BY <1>1 DEF Typed, Subscription
<1>3. Written(r, e) \in Organization
  BY <1>1 DEF Written, PlanFor, Organization
<1>4. Deleted(r, e) \in Organization
  BY <1>1 DEF Deleted, Organization
<1>5. [r EXCEPT !.cust = sub[e.sub].cust, !.sub = e.sub] \in Organization
  BY <1>1, <1>2 DEF Organization
<1> QED
  BY <1>1, <1>3, <1>4, <1>5 DEF Handled

LEMMA MergeType ==
  ASSUME NEW old \in Organization, NEW new \in Organization, NEW now \in Organization
  PROVE  Merge(old, new, now) \in Organization
BY DEF Merge, Column, Organization

\* Stripe emits an event about s, and changes it.
LEMMA EmitType ==
  ASSUME Typed, clock < MaxEvents, NEW s \in Subs,
         NEW type \in {"completed", "written", "deleted"},
         NEW status \in {"entitled", "lapsed", "canceled"},
         NEW price \in Plans \cup {Unlisted}
  PROVE  Emitted(s, type, status, price) \in Event /\ clock + 1 \in 0..MaxEvents
BY SubscriptionsAssumption DEF Typed, Emitted, Event

LEMMA EndsType ==
  ASSUME Typed, clock < MaxEvents, NEW s \in Subs, Ends(s)
  PROVE  /\ sub' \in [Subs -> Subscription] /\ sent' \subseteq Event
         /\ clock' \in 0..MaxEvents
         /\ \A r \in Subs : sub'[r].state \notin {"unused", "canceled"} => sub'[r].org \in Orgs
<1>1. sub[s].price \in Plans \cup {Unlisted}
  BY DEF Typed, Subscription
<1>2. Emitted(s, "deleted", "canceled", sub[s].price) \in Event /\ clock + 1 \in 0..MaxEvents
  BY <1>1, EmitType
<1>3. sub' \in [Subs -> Subscription]
  BY DEF Typed, Ends, Subscription
<1>4. ASSUME NEW r \in Subs PROVE r = s \/ sub'[r] = sub[r]
  BY DEF Typed, Ends
<1>5. sub'[s].state = "canceled"
  BY DEF Typed, Ends, Subscription
<1> QED
  BY <1>2, <1>3, <1>4, <1>5 DEF Typed, Ends

LEMMA TypedStep == Typed /\ [Next]_vars => Typed'
<1> SUFFICES ASSUME Typed, [Next]_vars PROVE Typed'
  OBVIOUS
<1> USE DEF stripe
<1>r. \A o \in Orgs : row[o] \in Organization /\ row[o].cust \in Customers \cup {NoCustomer}
  BY DEF Typed, Organization
<1>i. IdleThread \in Thread /\ IdleWorker \in Worker /\ NeverPaid \in Organization
      /\ IdleThread.pc = "idle" /\ IdleWorker.ev = {}
  BY DEF IdleThread, Thread, IdleWorker, Worker, NeverPaid, Organization
<1>1. ASSUME NEW t \in Threads, NEW o \in Orgs, NEW p \in Plans, BeginCheckout(t, o, p)
      PROVE  Typed'
  <2> DEFINE l == [pc |-> IF row[o].cust = NoCustomer THEN "customer" ELSE "session",
                   org |-> o, plan |-> p, cust |-> row[o].cust]
  <2>1. l \in Thread /\ l.org \in Orgs /\ l.plan \in Plans
    BY <1>r DEF Thread
  <2>2. th' = [th EXCEPT ![t] = l]
    BY <1>1 DEF BeginCheckout, Goto
  <2> HIDE DEF l
  <2> QED
    BY <1>1, <2>1, <2>2 DEF Typed, BeginCheckout
<1>2. ASSUME NEW t \in Threads, NEW c \in Customers, MakeCustomer(t, c)
      PROVE  Typed'
  <2>1. th[t].org \in Orgs /\ th[t].pc = "customer" /\ th[t].plan \in Plans
    BY <1>2 DEF Typed, MakeCustomer, At
  <2>2. owner' \in [Customers -> Orgs \cup {NoOrg}]
    BY <1>2, <2>1 DEF Typed, MakeCustomer
  <2>3. row' \in [Orgs -> Organization]
    BY <1>2, <2>1 DEF Typed, MakeCustomer, Organization
  <2>4. [th[t] EXCEPT !.pc = "session", !.cust = c] \in Thread
        /\ [th[t] EXCEPT !.pc = "session", !.cust = c].org = th[t].org
        /\ [th[t] EXCEPT !.pc = "session", !.cust = c].plan = th[t].plan
    BY DEF Typed, Thread
  <2>5. \E l \in Thread : /\ th' = [th EXCEPT ![t] = l]
                          /\ l.pc = "idle" \/ (l.org \in Orgs /\ l.plan \in Plans)
    BY <1>2, <1>i, <2>1, <2>4 DEF MakeCustomer, Goto
  <2> QED
    BY <1>2, <2>2, <2>3, <2>5 DEF Typed, MakeCustomer
<1>3. ASSUME NEW t \in Threads, NEW s \in Subs, OpenSession(t, s)
      PROVE  Typed'
  <2>1. th[t] \in Thread /\ th[t].org \in Orgs /\ th[t].plan \in Plans
    BY <1>3 DEF Typed, OpenSession, At
  <2> DEFINE n == [state |-> "checkout", org |-> th[t].org, cust |-> th[t].cust,
                   price |-> th[t].plan, plan |-> th[t].plan]
  <2>2. n \in Subscription /\ n.org \in Orgs
    BY <2>1 DEF Thread, Subscription
  <2>3. sub' = [sub EXCEPT ![s] = n] /\ th' = [th EXCEPT ![t] = IdleThread]
    BY <1>3 DEF OpenSession, Goto
  <2> HIDE DEF n
  <2> QED
    BY <1>3, <1>i, <2>2, <2>3 DEF Typed, OpenSession
<1>4. ASSUME NEW s \in Subs, Pay(s)
      PROVE  Typed'
  <2>1. sub[s].price \in Plans \cup {Unlisted} /\ sub[s].org \in Orgs
    BY <1>4 DEF Typed, Pay, Subscription
  <2>2. \A type \in {"completed", "written"} : Emitted(s, type, "entitled", sub[s].price) \in Event
    BY <1>4, <2>1, EmitType DEF Pay
  <2>3. clock' \in 0..MaxEvents
    BY <1>4, SubscriptionsAssumption DEF Typed, Pay
  <2>4. sub' \in [Subs -> Subscription] /\ \A r \in Subs : sub'[r].org = sub[r].org
        /\ (r # s => sub'[r].state = sub[r].state)
    BY <1>4 DEF Typed, Pay, Subscription
  <2>5. \A r \in Subs : sub'[r].state \notin {"unused", "canceled"} => sub'[r].org \in Orgs
    BY <2>1, <2>4 DEF Typed
  <2>6. sent' \subseteq Event
    BY <1>4, <2>2 DEF Typed, Pay
  <2> QED
    BY <1>4, <2>1, <2>3, <2>4, <2>5, <2>6 DEF Typed, Pay
<1>5. ASSUME NEW s \in Subs, NEW status \in {"entitled", "lapsed"},
             NEW p \in Plans \cup {Unlisted}, Change(s, status, p)
      PROVE  Typed'
  <2>1. Emitted(s, "written", status, p) \in Event /\ clock' \in 0..MaxEvents
    BY <1>5, EmitType DEF Change
  <2> DEFINE n == [sub[s] EXCEPT !.state = status, !.price = p,
                                 !.plan = PlanFor(p, @)]
  <2>n. n \in Subscription
    BY ZenonT(30) DEF Typed, Subscription, PlanFor
  <2>s. sub' = [sub EXCEPT ![s] = n]
    BY <1>5 DEF Typed, Change
  <2>2. sub' \in [Subs -> Subscription]
    BY <2>n, <2>s DEF Typed
  <2>3. \A r \in Subs : sub'[r].org = sub[r].org
        /\ (r # s => sub'[r].state = sub[r].state)
        /\ sub[s].state \notin {"unused", "canceled"}
    BY <1>5 DEF Typed, Change, Running, Subscription
  <2>4. \A r \in Subs : sub'[r].state \notin {"unused", "canceled"} => sub'[r].org \in Orgs
    BY <2>3 DEF Typed
  <2> QED
    BY <1>5, <2>1, <2>2, <2>4 DEF Typed, Change
<1>6. ASSUME NEW s \in Subs, Cancel(s)
      PROVE  Typed'
  <2>1. /\ sub' \in [Subs -> Subscription] /\ sent' \subseteq Event /\ clock' \in 0..MaxEvents
        /\ \A r \in Subs : sub'[r].state \notin {"unused", "canceled"} => sub'[r].org \in Orgs
    BY <1>6, EndsType DEF Cancel
  <2> QED
    BY <1>6, <2>1 DEF Typed, Cancel, Ends
<1>7. ASSUME NEW w \in Workers, NEW e \in sent, Receive(w, e)
      PROVE  Typed'
  <2>1. CASE OrgFor(e.sub) = {}
    BY <1>7, <2>1 DEF Typed, Receive
  <2>2. CASE OrgFor(e.sub) # {}
    <3>1. PICK o \in OrgFor(e.sub) : wk' = [wk EXCEPT ![w] = [ev |-> {e}, org |-> o, old |-> row[o]]]
      BY <1>7, <2>2 DEF Receive
    <3>2. o \in Orgs
      BY DEF Typed, OrgFor, ByCustomer
    <3>3. [ev |-> {e}, org |-> o, old |-> row[o]] \in Worker
      BY <1>r, <3>2 DEF Typed, Worker
    <3> QED
      BY <1>7, <2>2, <3>1, <3>2, <3>3 DEF Typed, Receive
  <2> QED
    BY <2>1, <2>2
<1>8. ASSUME NEW w \in Workers, Answer(w)
      PROVE  Typed'
  <2>1. PICK e \in wk[w].ev :
          /\ row' = IF wk[w].org \in live
                    THEN [row EXCEPT ![wk[w].org] =
                            Merge(wk[w].old, Handled(wk[w].old, e), row[wk[w].org])]
                    ELSE row
          /\ sent' \subseteq sent
          /\ faults' \in {faults} \/ (faults < MaxFaults /\ faults' = faults + 1)
    BY <1>8 DEF Answer
  <2>2. wk[w].org \in Orgs /\ e \in Event /\ wk[w].old \in Organization
    BY <1>8 DEF Typed, Answer, Busy, Worker
  <2>3. row' \in [Orgs -> Organization]
    <3>1. Merge(wk[w].old, Handled(wk[w].old, e), row[wk[w].org]) \in Organization
      BY <1>r, <2>2, HandledType, MergeType
    <3> QED
      BY <2>1, <3>1 DEF Typed
  <2>4. faults' \in 0..MaxFaults
    BY <2>1, SubscriptionsAssumption DEF Typed
  <2>5. wk' = [wk EXCEPT ![w] = IdleWorker]
    BY <1>8 DEF Answer
  <2> QED
    BY <1>8, <1>i, <2>1, <2>3, <2>4, <2>5 DEF Typed, Answer
<1>9. ASSUME NEW w \in Workers, Die(w)
      PROVE  Typed'
  BY <1>9, <1>i, SubscriptionsAssumption DEF Typed, Die
<1>10. ASSUME NEW t \in Threads, Drop(t)
       PROVE  Typed'
  BY <1>10, <1>i DEF Typed, Drop, Goto
<1>11. ASSUME NEW t \in Threads, NEW o \in Orgs, PurgeOrg(t, o)
       PROVE  Typed'
  <2> DEFINE l == [IdleThread EXCEPT !.pc = "purge", !.org = o]
  <2>1. l \in Thread /\ l.org = o /\ l.pc = "purge"
    BY DEF IdleThread, Thread
  <2>2. th' = [th EXCEPT ![t] = l]
    BY <1>11 DEF PurgeOrg, Goto
  <2>3. closing' \subseteq Subs
    BY <1>11 DEF Typed, PurgeOrg, RunningOf
  <2>4. \/ /\ row[o].sub # NoSub /\ sub[row[o].sub].state # "canceled"
           /\ clock < MaxEvents /\ Ends(row[o].sub) /\ faults' = faults
        \/ UNCHANGED <<owner, sub, sent, clock, crowded>> /\ faults < MaxFaults /\ faults' = faults + 1
        \/ UNCHANGED <<owner, sub, sent, clock, crowded, faults>>
    BY <1>11 DEF PurgeOrg
  <2> HIDE DEF l
  <2>5. CASE /\ row[o].sub # NoSub /\ clock < MaxEvents /\ Ends(row[o].sub) /\ faults' = faults
    <3>1. row[o].sub \in Subs
      BY <1>r, <2>5 DEF Organization
    <3> QED
      BY <1>11, <2>1, <2>2, <2>3, <2>5, <3>1, EndsType, ZenonT(30) DEF Typed, PurgeOrg, Ends
  <2>6. CASE UNCHANGED <<owner, sub, sent, clock, crowded>>
             /\ (faults' = faults \/ (faults < MaxFaults /\ faults' = faults + 1))
    <3>1. faults' \in 0..MaxFaults
      BY <2>6, SubscriptionsAssumption DEF Typed
    <3> QED
      BY <1>11, <2>1, <2>2, <2>3, <2>6, <3>1 DEF Typed, PurgeOrg
  <2> QED
    BY <2>4, <2>5, <2>6
<1>12. ASSUME NEW t \in Threads, Purge(t)
       PROVE  Typed'
  BY <1>12, <1>i DEF Typed, Purge, Goto
<1>13. CASE UNCHANGED vars
  BY <1>13 DEF vars, Typed
<1> QED
  BY <1>1, <1>2, <1>3, <1>4, <1>5, <1>6, <1>7, <1>8, <1>9, <1>10, <1>11, <1>12, <1>13
     DEF Next, Request, Webhook

\* Rows, requests, workers and what Stripe sends stay of their types
\* (start_checkout, stripe_webhook, _purge_org).
THEOREM TypeCorrect == Spec => []TypeOK
<1>1. Typed => TypeOK
  BY DEF Typed, TypeOK
<1> QED
  BY <1>1, TypedInit, TypedStep, PTL DEF Spec

-----------------------------------------------------------------------------
(***************************************************************************)
(* What an organisation has is its own.  A worker writes what it loaded    *)
(* and what the event says, so the copy it keeps has to be the             *)
(* organisation's own too, and the event about one of its subscriptions;   *)
(* and an event is about a subscription that was paid for.                 *)
(***************************************************************************)
Paid(s, o) == sub[s].org = o /\ sub[s].state \notin {"unused", "checkout"}

Own(o, r) ==
  /\ r.cust # NoCustomer => owner[r.cust] = o
  /\ r.sub # NoSub => Paid(r.sub, o)
  /\ r.plan # Free => \E s \in Subs : Paid(s, o)

Bought ==
  /\ \A s \in Subs : sub[s].state # "unused" =>
       /\ sub[s].org \in Orgs /\ sub[s].cust \in Customers
       /\ owner[sub[s].cust] = sub[s].org
  /\ \A t \in Threads : th[t].pc = "session" =>
       th[t].cust \in Customers /\ owner[th[t].cust] = th[t].org
  /\ \A e \in sent : Paid(e.sub, sub[e.sub].org)
  /\ \A o \in Orgs : Own(o, row[o])
  /\ \A w \in Workers : wk[w].ev # {} =>
       Own(wk[w].org, wk[w].old) /\ \A e \in wk[w].ev : Paid(e.sub, wk[w].org)

LEMMA BoughtInit == Init => Bought
BY DEF Init, Bought, Own, Paid, NeverPaid, IdleThread, IdleWorker

\* What an organisation has stays its own: no customer changes hands, and what
\* was paid for stays paid for.
LEMMA OwnStays ==
  ASSUME NEW o, NEW r, Own(o, r), r \in Organization, Typed, o \in Orgs, NoOrg \notin Orgs,
         \A c \in Customers : owner[c] # NoOrg => owner'[c] = owner[c],
         \A s \in Subs : Paid(s, o) => Paid(s, o)'
  PROVE  Own(o, r)'
BY DEF Own, Organization, Typed

\* A handled event leaves to an organisation what is its own.
LEMMA HandledOwn ==
  ASSUME Typed, Bought, NEW o \in Orgs, NEW r \in Organization, NEW e \in Event,
         Own(o, r), Paid(e.sub, o)
  PROVE  Own(o, Handled(r, e))
<1>1. e.sub \in Subs /\ e.type \in {"completed", "written", "deleted"}
  BY DEF Event
<1>2. owner[sub[e.sub].cust] = o
  BY <1>1 DEF Bought, Paid
<1>3. Own(o, Written(r, e))
  BY <1>1 DEF Own, Written, PlanFor, Organization
<1>4. Own(o, Deleted(r, e))
  BY <1>1 DEF Own, Deleted, Organization
<1>5. Own(o, [r EXCEPT !.cust = sub[e.sub].cust, !.sub = e.sub])
  BY <1>1, <1>2 DEF Own, Organization
<1> QED
  BY <1>1, <1>3, <1>4, <1>5 DEF Handled

LEMMA MergeOwn ==
  ASSUME NEW o, NEW old, NEW new, NEW now, Own(o, new), Own(o, now)
  PROVE  Own(o, Merge(old, new, now))
BY DEF Own, Merge, Column

\* Stripe's books only grow: a customer stays whose it is, a subscription that
\* was paid for stays so.
LEMMA BooksGrow ==
  ASSUME Typed, Bought, [Next]_vars
  PROVE  /\ \A c \in Customers : owner[c] # NoOrg => owner'[c] = owner[c]
         /\ \A s \in Subs, o \in Orgs : Paid(s, o) => Paid(s, o)'
<1> USE DEF stripe, Paid
<1>1. ASSUME NEW t \in Threads, Request(t)
      PROVE  /\ \A c \in Customers : owner[c] # NoOrg => owner'[c] = owner[c]
             /\ \A s \in Subs, o \in Orgs : Paid(s, o) => Paid(s, o)'
  <2>1. CASE \E o \in Orgs, p \in Plans : BeginCheckout(t, o, p)
    BY <2>1 DEF BeginCheckout
  <2>2. CASE \E c \in Customers : MakeCustomer(t, c)
    BY <2>2 DEF MakeCustomer, Typed
  <2>3. CASE \E s \in Subs : OpenSession(t, s)
    BY <2>3 DEF OpenSession, Typed
  <2>4. CASE \E o \in Orgs : PurgeOrg(t, o)
    <3>1. PICK o \in Orgs : PurgeOrg(t, o)
      BY <2>4
    <3>2. UNCHANGED <<owner, sub>> \/ (row[o].sub # NoSub /\ Ends(row[o].sub))
      BY <3>1 DEF PurgeOrg
    <3> QED
      BY <3>2 DEF Ends, Typed, Subscription
  <2>5. CASE Purge(t) \/ Drop(t)
    BY <2>5 DEF Purge, Drop
  <2> QED
    BY <1>1, <2>1, <2>2, <2>3, <2>4, <2>5 DEF Request
<1>2. ASSUME NEW w \in Workers, Webhook(w) \/ Die(w)
      PROVE  UNCHANGED <<owner, sub>>
  BY <1>2 DEF Webhook, Receive, Answer, Die
<1>3. ASSUME NEW s \in Subs, Pay(s) \/ Cancel(s)
      PROVE  /\ owner' = owner
             /\ \A r \in Subs, o \in Orgs : Paid(r, o) => Paid(r, o)'
  BY <1>3 DEF Pay, Cancel, Ends, Running, Typed, Subscription
<1>4. ASSUME NEW s \in Subs, NEW status \in {"entitled", "lapsed"},
             NEW p \in Plans \cup {Unlisted}, Change(s, status, p)
      PROVE  /\ owner' = owner
             /\ \A r \in Subs, o \in Orgs : Paid(r, o) => Paid(r, o)'
  <2>1. sub'[s].org = sub[s].org /\ sub'[s].state = status /\ \A r \in Subs : r = s \/ sub'[r] = sub[r]
    BY <1>4 DEF Change, Typed, Subscription
  <2> QED
    BY <1>4, <2>1 DEF Change
<1> QED
  BY <1>1, <1>2, <1>3, <1>4 DEF Next, vars

LEMMA BoughtStep == Typed /\ Bought /\ [Next]_vars => Bought'
<1> SUFFICES ASSUME Typed, Bought, [Next]_vars PROVE Bought'
  OBVIOUS
<1> USE DEF stripe
<1>r. \A o \in Orgs : row[o] \in Organization /\ Own(o, row[o])
  BY DEF Typed, Bought
<1>f. /\ \A e \in sent : e \in Event /\ e.sub \in Subs
      /\ \A w \in Workers : wk[w].old \in Organization
                            /\ \A e \in wk[w].ev : e \in Event /\ e.sub \in Subs
  BY DEF Typed, Worker, Event
<1>i. IdleThread.pc = "idle" /\ IdleWorker.ev = {}
  BY DEF IdleThread, IdleWorker
<1>g. /\ \A c \in Customers : owner[c] # NoOrg => owner'[c] = owner[c]
      /\ \A s \in Subs, o \in Orgs : Paid(s, o) => Paid(s, o)'
  BY BooksGrow
<1>o. ASSUME NEW o \in Orgs, NEW r \in Organization, Own(o, r) PROVE Own(o, r)'
  BY <1>g, <1>o, OwnStays, SubscriptionsAssumption
\* What a step leaves alone stays as it should be.
<1>s. ASSUME NEW e \in sent PROVE Paid(e.sub, sub[e.sub].org)'
  <2>1. sub[e.sub].org \in Orgs /\ Paid(e.sub, sub[e.sub].org)
    BY <1>f DEF Bought, Paid
  <2>2. Paid(e.sub, sub[e.sub].org) => sub'[e.sub].org = sub[e.sub].org
                                       /\ sub'[e.sub].state \notin {"unused", "checkout"}
    BY <1>f, <1>g, <2>1 DEF Paid
  <2> QED
    BY <2>1, <2>2 DEF Paid
<1>w. ASSUME NEW w \in Workers, wk'[w] = wk[w], wk[w].ev # {}
      PROVE  (Own(wk[w].org, wk[w].old) /\ \A e \in wk[w].ev : Paid(e.sub, wk[w].org))'
  <2>1. PICK o \in Orgs, r \in Organization, v \in SUBSET Event :
          o = wk[w].org /\ r = wk[w].old /\ v = wk[w].ev
    BY <1>w DEF Typed, Worker
  <2>2. Own(o, r) /\ \A e \in v : Paid(e.sub, o)
    BY <1>w, <2>1 DEF Bought
  <2>3. Own(o, r)'
    BY <1>o, <2>2
  <2>4. ASSUME NEW e \in v PROVE Paid(e.sub, o)'
    BY <1>g, <2>2 DEF Event
  <2>5. o = wk'[w].org /\ r = wk'[w].old /\ v = wk'[w].ev
    BY <1>w, <2>1
  <2>6. (Own(wk[w].org, wk[w].old))'
    BY <2>3, <2>5 DEF Own, Paid
  <2>7. \A e \in wk'[w].ev : (Paid(e.sub, wk[w].org))'
    BY <2>4, <2>5 DEF Paid
  <2> QED
    BY <2>6, <2>7
<1>t. ASSUME NEW t \in Threads, th'[t] = th[t], th[t].pc = "session"
      PROVE  (th[t].cust \in Customers /\ owner[th[t].cust] = th[t].org)'
  BY <1>t, <1>g, SubscriptionsAssumption DEF Typed, Bought
<1>b. ASSUME NEW s \in Subs, sub'[s].org = sub[s].org, sub'[s].cust = sub[s].cust,
             sub[s].state # "unused"
      PROVE  (sub[s].org \in Orgs /\ sub[s].cust \in Customers
              /\ owner[sub[s].cust] = sub[s].org)'
  BY <1>b, <1>g, SubscriptionsAssumption DEF Bought
<1>k. ASSUME NEW o \in Orgs, row'[o] = row[o] PROVE Own(o, row[o])'
  <2>1. Own(o, row[o])
    BY <1>r
  <2>2. \A c \in Customers : owner[c] = o => owner'[c] = o
    BY <1>g, SubscriptionsAssumption
  <2> QED
    BY <1>g, <1>k, <1>r, <2>1, <2>2 DEF Own, Organization
\* Requests.
<1>1. ASSUME NEW t \in Threads, NEW o \in Orgs, NEW p \in Plans, BeginCheckout(t, o, p)
      PROVE  Bought'
  <2>1. row[o].cust # NoCustomer => row[o].cust \in Customers /\ owner[row[o].cust] = o
    BY <1>r DEF Own, Organization
  <2>2. th'[t].pc = "session" =>
          th'[t].cust = row[o].cust /\ th'[t].org = o /\ row[o].cust # NoCustomer
    BY <1>1 DEF BeginCheckout, Goto, Typed
  <2>3. \A u \in Threads : th'[u].pc = "session" =>
          (th[u].cust \in Customers /\ owner[th[u].cust] = th[u].org)'
    BY <1>1, <1>t, <2>1, <2>2 DEF BeginCheckout, Goto, Typed
  <2> QED
    BY <1>1, <1>b, <1>k, <1>s, <1>w, <2>3 DEF BeginCheckout, Bought
<1>2. ASSUME NEW t \in Threads, NEW c \in Customers, MakeCustomer(t, c)
      PROVE  Bought'
  <2>1. th[t].org \in Orgs /\ th[t] \in Thread
    BY <1>2 DEF MakeCustomer, At, Typed
  <2>2. owner'[c] = th[t].org
    BY <1>2 DEF MakeCustomer, Typed
  <2> DEFINE l == [th[t] EXCEPT !.pc = "session", !.cust = c]
  <2>l. l.cust = c /\ l.org = th[t].org
    BY <2>1 DEF Thread
  <2>m. th'[t] = l \/ th'[t] = IdleThread
    BY <1>2 DEF MakeCustomer, Goto, Typed
  <2> HIDE DEF l
  <2>3. th'[t].pc = "session" => th'[t].cust = c /\ th'[t].org = th[t].org
    BY <1>i, <2>l, <2>m
  <2>4. \A u \in Threads : th'[u].pc = "session" =>
          (th[u].cust \in Customers /\ owner[th[u].cust] = th[u].org)'
    BY <1>2, <1>t, <2>2, <2>3 DEF MakeCustomer, Goto, Typed
  <2>5. \A o \in Orgs : Own(o, row[o])'
    <3>1. ASSUME NEW o \in Orgs, row'[o] # row[o] PROVE Own(o, row[o])'
      <4>1. o = th[t].org /\ row'[o] = [row[o] EXCEPT !.cust = c]
        BY <1>2, <3>1 DEF MakeCustomer, Typed
      <4>2. row'[o].cust = c /\ row'[o].sub = row[o].sub /\ row'[o].plan = row[o].plan
        BY <1>r, <4>1 DEF Organization
      <4>3. UNCHANGED sub
        BY <1>2 DEF MakeCustomer
      <4> QED
        BY <1>r, <2>2, <4>1, <4>2, <4>3 DEF Own, Paid
    <3> QED
      BY <1>k, <3>1
  <2> QED
    BY <1>2, <1>b, <1>s, <1>w, <2>4, <2>5 DEF MakeCustomer, Bought
<1>3. ASSUME NEW t \in Threads, NEW s \in Subs, OpenSession(t, s)
      PROVE  Bought'
  <2>1. /\ th[t].org \in Orgs /\ th[t].cust \in Customers
        /\ owner[th[t].cust] = th[t].org
    BY <1>3 DEF OpenSession, At, Typed, Bought
  <2>2. sub'[s].org = th[t].org /\ sub'[s].cust = th[t].cust
        /\ \A r \in Subs : r = s \/ sub'[r] = sub[r]
    BY <1>3 DEF OpenSession, Typed
  <2>3. \A u \in Threads : th'[u].pc = "session" =>
          (th[u].cust \in Customers /\ owner[th[u].cust] = th[u].org)'
    BY <1>3, <1>i, <1>t DEF OpenSession, Goto, Typed
  <2>4. \A r \in Subs : (sub[r].state # "unused" =>
          sub[r].org \in Orgs /\ sub[r].cust \in Customers /\ owner[sub[r].cust] = sub[r].org)'
    BY <1>3, <1>b, <2>1, <2>2 DEF OpenSession
  <2> QED
    BY <1>3, <1>k, <1>s, <1>w, <2>3, <2>4 DEF OpenSession, Bought
<1>4. ASSUME NEW t \in Threads, NEW o \in Orgs, PurgeOrg(t, o)
      PROVE  Bought'
  <2>0. PICK z \in Subs \cup {NoSub} : z = row[o].sub
    BY <1>r DEF Organization
  <2>1. UNCHANGED <<owner, sub, sent>> \/ (z # NoSub /\ Ends(z))
    BY <1>4, <2>0 DEF PurgeOrg
  <2>2. \A u \in Threads : th'[u].pc = "session" => th'[u] = th[u]
    BY <1>4 DEF PurgeOrg, Goto, Typed, IdleThread
  <2>3. UNCHANGED <<row, wk, owner>>
    BY <1>4, <2>1 DEF PurgeOrg, Ends
  <2>4. CASE UNCHANGED <<owner, sub, sent>>
    BY <1>b, <1>k, <1>s, <1>t, <1>w, <2>2, <2>3, <2>4 DEF Bought
  <2>5. CASE z # NoSub /\ Ends(z)
    <3>1. z \in Subs /\ Paid(z, o)
      BY <1>r, <2>0, <2>5 DEF Own
    <3>2. Paid(z, o)'
      BY <1>g, <3>1
    <3>3. \A r \in Subs : sub'[r].org = sub[r].org /\ sub'[r].cust = sub[r].cust
            /\ (r # z => sub'[r].state = sub[r].state)
      BY <2>5 DEF Ends, Typed, Subscription
    <3>4. \A r \in Subs : (sub[r].state # "unused" =>
            sub[r].org \in Orgs /\ sub[r].cust \in Customers /\ owner[sub[r].cust] = sub[r].org)'
      BY <1>b, <3>1, <3>3 DEF Paid
    <3>5. \A e \in sent' : e \in sent \/ e.sub = z
      BY <2>5 DEF Ends, Emitted
    <3>6. \A e \in sent' : Paid(e.sub, sub[e.sub].org)'
      BY <1>s, <3>2, <3>5 DEF Paid
    <3> QED
      BY <1>k, <1>t, <1>w, <2>2, <2>3, <3>4, <3>6 DEF Bought
  <2> QED
    BY <2>1, <2>4, <2>5
<1>5. ASSUME NEW t \in Threads, Purge(t)
      PROVE  Bought'
  <2>1. \A u \in Threads : th'[u].pc = "session" => th'[u] = th[u]
    BY <1>5, <1>i DEF Purge, Goto, Typed
  <2>2. \A o \in Orgs : row'[o] = row[o] \/ row'[o] = NeverPaid
    BY <1>5 DEF Purge, Typed
  <2>3. \A o \in Orgs : Own(o, NeverPaid)'
    BY DEF Own, NeverPaid
  <2>4. \A o \in Orgs : Own(o, row[o])'
    BY <1>k, <2>2, <2>3 DEF Own, Paid
  <2> QED
    BY <1>5, <1>b, <1>s, <1>t, <1>w, <2>1, <2>4 DEF Purge, Bought
<1>6. ASSUME NEW t \in Threads, Drop(t)
      PROVE  Bought'
  <2>1. \A u \in Threads : th'[u].pc = "session" => th'[u] = th[u]
    BY <1>6, <1>i DEF Drop, Goto, Typed
  <2> QED
    BY <1>6, <1>b, <1>k, <1>s, <1>t, <1>w, <2>1 DEF Drop, Bought
\* Stripe.
<1>7. ASSUME NEW s \in Subs, \/ Pay(s) \/ Cancel(s)
                              \/ \E status \in {"entitled", "lapsed"}, p \in Plans \cup {Unlisted} :
                                   Change(s, status, p)
      PROVE  Bought'
  <2> DEFINE Turns ==
        /\ sub[s].state # "unused" /\ UNCHANGED <<row, th, wk, owner>>
        /\ \A r \in Subs : /\ sub'[r].org = sub[r].org /\ sub'[r].cust = sub[r].cust
                           /\ r # s => sub'[r].state = sub[r].state
        /\ sub'[s].state \notin {"unused", "checkout"}
        /\ \A e \in sent' : e \in sent \/ e.sub = s
  <2>z. \A state \in {"entitled", "canceled"} :
          sub' = [sub EXCEPT ![s].state = state] =>
            /\ \A r \in Subs : /\ sub'[r].org = sub[r].org /\ sub'[r].cust = sub[r].cust
                               /\ r # s => sub'[r].state = sub[r].state
            /\ sub'[s].state = state
    BY DEF Typed, Subscription
  <2>a. ASSUME Pay(s) PROVE Turns
    <3>1. sub' = [sub EXCEPT ![s].state = "entitled"] /\ sub[s].state = "checkout"
          /\ UNCHANGED <<row, th, wk, owner>>
      BY <2>a DEF Pay
    <3>2. \A e \in sent' : e \in sent \/ e.sub = s
      BY <2>a DEF Pay, Emitted
    <3> QED
      BY <2>z, <3>1, <3>2
  <2>b. ASSUME Cancel(s) PROVE Turns
    <3>1. sub' = [sub EXCEPT ![s].state = "canceled"] /\ sub[s].state # "unused"
          /\ UNCHANGED <<row, th, wk, owner>>
      BY <2>b DEF Cancel, Ends, Running
    <3>2. \A e \in sent' : e \in sent \/ e.sub = s
      BY <2>b DEF Cancel, Ends, Emitted
    <3> QED
      BY <2>z, <3>1, <3>2
  <2>c. ASSUME NEW status \in {"entitled", "lapsed"}, NEW p \in Plans \cup {Unlisted},
               Change(s, status, p)
        PROVE  Turns
    <3> DEFINE n == [sub[s] EXCEPT !.state = status, !.price = p,
                                   !.plan = PlanFor(p, @)]
    <3>1. n.state = status /\ n.org = sub[s].org /\ n.cust = sub[s].cust
      BY DEF Typed, Subscription
    <3>2. sub' = [sub EXCEPT ![s] = n]
      BY <2>c DEF Change, Typed
    <3>3. \A e \in sent' : e \in sent \/ e.sub = s
      BY <2>c DEF Change, Emitted
    <3>4. sub[s].state # "unused" /\ UNCHANGED <<row, th, wk, owner>>
      BY <2>c DEF Change, Running
    <3> HIDE DEF n
    <3> QED
      BY <3>1, <3>2, <3>3, <3>4 DEF Typed
  <2>d. Turns
    BY <1>7, <2>a, <2>b, <2>c
  <2>1. sub[s].state # "unused" /\ UNCHANGED <<row, th, wk, owner>>
    BY <2>d
  <2>2. \A r \in Subs : sub'[r].org = sub[r].org /\ sub'[r].cust = sub[r].cust
          /\ (r # s => sub'[r].state = sub[r].state)
    BY <2>d
  <2>3. sub'[s].state \notin {"unused", "checkout"}
    BY <2>d
  <2>4. \A e \in sent' : e \in sent \/ e.sub = s
    BY <2>d
  <2>5. \A e \in sent' : Paid(e.sub, sub[e.sub].org)'
    BY <1>s, <2>3, <2>4 DEF Paid
  <2>6. \A r \in Subs : (sub[r].state # "unused" =>
          sub[r].org \in Orgs /\ sub[r].cust \in Customers /\ owner[sub[r].cust] = sub[r].org)'
    BY <1>b, <2>1, <2>2
  <2> QED
    BY <1>k, <1>t, <1>w, <2>1, <2>5, <2>6 DEF Bought
\* Webhooks.
<1>8. ASSUME NEW w \in Workers, NEW e \in sent, Receive(w, e)
      PROVE  Bought'
  <2>1. UNCHANGED <<row, th, sub, owner>> /\ sent' \subseteq sent
    BY <1>8 DEF Receive
  <2>2. \A v \in Workers : wk'[v].ev # {} =>
          (Own(wk[v].org, wk[v].old) /\ \A f \in wk[v].ev : Paid(f.sub, wk[v].org))'
    <3>1. CASE OrgFor(e.sub) = {}
      BY <1>8, <1>w, <3>1 DEF Receive
    <3>2. CASE OrgFor(e.sub) # {}
      <4>1. PICK o \in OrgFor(e.sub) : wk' = [wk EXCEPT ![w] = [ev |-> {e}, org |-> o, old |-> row[o]]]
        BY <1>8, <3>2 DEF Receive
      <4>2. o \in Orgs /\ e.sub \in Subs /\ Paid(e.sub, sub[e.sub].org)
        BY <1>f DEF OrgFor, ByCustomer, Typed, Bought
      <4>3. sub[e.sub].org = o
        BY <1>r, <4>2, SubscriptionsAssumption DEF OrgFor, ByCustomer, Bought, Paid, Own
      <4>4. Own(o, row[o])' /\ Paid(e.sub, o)'
        BY <1>k, <2>1, <4>2, <4>3 DEF Paid
      <4>5. wk'[w].org = o /\ wk'[w].old = row'[o] /\ wk'[w].ev = {e}
        BY <2>1, <4>1 DEF Typed
      <4>6. (Own(wk[w].org, wk[w].old) /\ \A f \in wk[w].ev : Paid(f.sub, wk[w].org))'
        BY <4>4, <4>5 DEF Own, Paid
      <4>7. \A v \in Workers : v = w \/ wk'[v] = wk[v]
        BY <4>1 DEF Typed
      <4> QED
        BY <1>w, <4>6, <4>7
    <3> QED
      BY <3>1, <3>2
  <2> QED
    BY <1>b, <1>k, <1>s, <1>t, <2>1, <2>2 DEF Bought
<1>9. ASSUME NEW w \in Workers, Answer(w)
      PROVE  Bought'
  <2>1. PICK e \in wk[w].ev :
          row' = IF wk[w].org \in live
                 THEN [row EXCEPT ![wk[w].org] =
                         Merge(wk[w].old, Handled(wk[w].old, e), row[wk[w].org])]
                 ELSE row
    BY <1>9 DEF Answer
  <2>2. sent' \subseteq sent /\ UNCHANGED <<owner, sub, th>>
    BY <1>9 DEF Answer
  <2>3. PICK o \in Orgs : o = wk[w].org
    BY <1>9 DEF Answer, Busy, Typed
  <2>4. e \in Event /\ wk[w].old \in Organization /\ Own(o, wk[w].old) /\ Paid(e.sub, o)
    BY <1>9, <1>f, <2>3 DEF Answer, Busy, Bought
  <2>5. Own(o, Merge(wk[w].old, Handled(wk[w].old, e), row[o]))
    BY <1>r, <2>4, HandledOwn, MergeOwn
  <2>6. \A q \in Orgs : Own(q, row'[q])
    BY <1>r, <2>1, <2>3, <2>5 DEF Typed
  <2>7. \A q \in Orgs : Own(q, row[q])'
    BY <2>2, <2>6 DEF Own, Paid
  <2>8. \A v \in Workers : wk'[v].ev # {} => wk'[v] = wk[v]
    BY <1>9, <1>i DEF Answer, Typed
  <2> QED
    BY <1>b, <1>s, <1>t, <1>w, <2>2, <2>7, <2>8 DEF Bought
<1>10. ASSUME NEW w \in Workers, Die(w)
       PROVE  Bought'
  <2>1. \A v \in Workers : wk'[v].ev # {} => wk'[v] = wk[v]
    BY <1>10, <1>i DEF Die, Typed
  <2> QED
    BY <1>10, <1>b, <1>k, <1>s, <1>t, <1>w, <2>1 DEF Die, Bought
<1>11. CASE UNCHANGED vars
  BY <1>11, <1>b, <1>k, <1>s, <1>t, <1>w DEF vars, Bought
<1> QED
  BY <1>1, <1>2, <1>3, <1>4, <1>5, <1>6, <1>7, <1>8, <1>9, <1>10, <1>11
     DEF Next, Request, Webhook

\* Nobody is entitled to what was never paid for, whatever becomes of Stripe's
\* events: lost answers, repetitions, any order, any number of handlers
\* (stripe_webhook, _org_for_stripe).
THEOREM EvidencedHolds == Spec => []Evidenced
<1>1. Typed /\ Bought => Evidenced
  BY DEF Typed, Bought, Evidenced, Own, Paid
<1> QED
  BY <1>1, TypedInit, TypedStep, BoughtInit, BoughtStep, PTL DEF Spec

-----------------------------------------------------------------------------
(***************************************************************************)
(* In step.  When events come in order, what is still to be handled, taken *)
(* in the order it was emitted, leads the row to what Stripe says.         *)
(***************************************************************************)
\* What Stripe has sent so far, delivered or not.
Books ==
  /\ \A e \in sent : e.at < clock
  /\ \A e, f \in sent : e.at = f.at => e.sub = f.sub /\ (e.type = f.type => e = f)
  /\ \A e \in sent : e.type = "deleted" =>
       /\ sub[e.sub].state = "canceled"
       /\ \A f \in sent : f.sub = e.sub /\ f.type # "deleted" => f.at < e.at
  /\ \A s \in Subs : sub[s].state = "checkout" =>
       sub[s].price \in Plans /\ sub[s].plan = sub[s].price
  /\ \A o \in Orgs \ crowded : \A r, s \in RunningOf(o) : r = s

\* What the handlers read and write of a row, the customer apart.
Alike(r, q) == r.sub = q.sub /\ r.plan = q.plan /\ r.status = q.status

\* The one worker busy handles the first of the events, and the row it loaded
\* is as it was.
InTurn ==
  /\ \A v, w \in Workers : Busy(v) /\ Busy(w) => v = w
  /\ \A w \in Workers : \A e \in wk[w].ev :
       /\ wk[w].ev = {e} /\ e \in sent
       /\ \A f \in sent : f.type # "deleted" => f.at >= e.at
       /\ wk[w].org \in live => Alike(wk[w].old, row[wk[w].org])

\* The subscription runs, or its end is still to be handled.
Accounted(s) == Running(s) \/ \E e \in sent : e.type = "deleted" /\ e.sub = s

Ending ==
  /\ \A e \in sent : e.type # "deleted" /\ sub[e.sub].org \in live => Accounted(e.sub)
  /\ \A o \in live :
       /\ row[o].sub = NoSub => row[o].plan = Free
       /\ row[o].sub # NoSub => Accounted(row[o].sub)

\* News of s to come, and the last of it.
News(s) == {e \in sent : e.type = "written" /\ e.sub = s}
Listed(s) == {e \in News(s) : e.price \in Plans}
Latest(e, E) == e \in E /\ \A f \in E : f.at <= e.at

Following(o, s) ==
  /\ \A f \in sent : f.type # "deleted" /\ f.sub # s /\ sub[f.sub].org = o =>
       \E e \in Listed(s) : f.at < e.at
  /\ \A e \in sent : Latest(e, Listed(s)) => e.price = sub[s].plan
  /\ Listed(s) = {} => row[o].sub = s /\ row[o].plan = sub[s].plan
  /\ \A e \in sent : Latest(e, News(s)) => e.status = sub[s].state
  /\ News(s) = {} => row[o].status = sub[s].state

InStep ==
  /\ InTurn
  /\ Ending
  /\ \A o \in live \ crowded : \A s \in RunningOf(o) : Following(o, s)

Ordered == orderly => InStep

LEMMA OrderedInit == Init => Books /\ Ordered
<1> SUFFICES ASSUME Init PROVE Books /\ Ordered
  OBVIOUS
<1>1. /\ \A s \in Subs : sub[s].state = "unused"
      /\ sent = {} /\ \A w \in Workers : wk[w].ev = {}
      /\ \A o \in Orgs : row[o].sub = NoSub /\ row[o].plan = Free
      /\ live = Orgs
  BY DEF Init, IdleWorker, NeverPaid
<1>2. Books
  BY <1>1 DEF Books, RunningOf, Running
<1>3. InTurn /\ Ending
  BY <1>1 DEF InTurn, Ending, Busy
<1> QED
  BY <1>1, <1>2, <1>3 DEF Ordered, InStep, RunningOf, Running

\* What the handler makes of a row, column by column.
LEMMA HandledIs ==
  ASSUME NEW r \in Organization, NEW e \in Event
  PROVE  /\ e.type = "completed" =>
              /\ Handled(r, e).sub = e.sub /\ Handled(r, e).plan = r.plan
              /\ Handled(r, e).status = r.status
         /\ e.type = "written" =>
              /\ Handled(r, e).sub = e.sub /\ Handled(r, e).status = e.status
              /\ Handled(r, e).plan = PlanFor(e.price, r.plan)
         /\ e.type = "deleted" =>
              IF r.sub \notin {NoSub, e.sub} THEN Handled(r, e) = r
              ELSE Handled(r, e).sub = NoSub /\ Handled(r, e).plan = Free
BY DEF Handled, Written, Deleted, Organization

\* Nothing came between: the commit leaves what the handler made of the row.
LEMMA MergeAlike ==
  ASSUME NEW old \in Organization, NEW now \in Organization, NEW e \in Event,
         Typed, Alike(old, now)
  PROVE  Alike(Merge(old, Handled(old, e), now), Handled(now, e))
<1>1. /\ old.sub = now.sub /\ old.plan = now.plan /\ old.status = now.status
  BY DEF Alike
<1>2. Alike(Merge(old, Handled(old, e), now), Handled(old, e))
  BY <1>1 DEF Alike, Merge, Column
<1>3. e.type \in {"completed", "written", "deleted"}
  BY DEF Event
<1>4. Alike(Handled(old, e), Handled(now, e))
  <2>1. CASE e.type = "completed"
    BY <1>1, <2>1, HandledIs DEF Alike
  <2>2. CASE e.type = "written"
    BY <1>1, <2>2, HandledIs DEF Alike
  <2>3. CASE e.type = "deleted"
    BY <1>1, <2>3 DEF Alike, Handled, Deleted, Organization
  <2> QED
    BY <1>3, <2>1, <2>2, <2>3
<1> QED
  BY <1>2, <1>4 DEF Alike

-----------------------------------------------------------------------------
\* What Stripe's steps do to its books.
LEMMA PayIs ==
  ASSUME Typed, NEW s \in Subs, Pay(s)
  PROVE  /\ sub[s].state = "checkout" /\ sub'[s].state = "entitled"
         /\ sub'[s].org = sub[s].org /\ sub'[s].price = sub[s].price /\ sub'[s].plan = sub[s].plan
         /\ \A r \in Subs : r # s => sub'[r] = sub[r]
         /\ sent' = sent \cup {Emitted(s, "completed", "entitled", sub[s].price),
                               Emitted(s, "written", "entitled", sub[s].price)}
<1>1. sub' = [sub EXCEPT ![s] = [sub[s] EXCEPT !.state = "entitled"]] /\ sub[s].state = "checkout"
  BY DEF Pay, Typed
<1>2. sub[s] \in Subscription
  BY DEF Typed
<1>3. sent' = sent \cup {Emitted(s, "completed", "entitled", sub[s].price),
                         Emitted(s, "written", "entitled", sub[s].price)}
  BY DEF Pay
<1> QED
  BY <1>1, <1>2, <1>3 DEF Typed, Subscription

LEMMA ChangeIs ==
  ASSUME Typed, NEW s \in Subs, NEW status \in {"entitled", "lapsed"},
         NEW price \in Plans \cup {Unlisted}, Change(s, status, price)
  PROVE  /\ Running(s) /\ Running(s)' /\ sub'[s].state = status
         /\ sub'[s].org = sub[s].org /\ sub'[s].plan = PlanFor(price, sub[s].plan)
         /\ \A r \in Subs : r # s => sub'[r] = sub[r]
         /\ sent' = sent \cup {Emitted(s, "written", status, price)}
<1> DEFINE n == [sub[s] EXCEPT !.state = status, !.price = price,
                               !.plan = PlanFor(price, @)]
<1>1. sub' = [sub EXCEPT ![s] = n] /\ Running(s)
      /\ sent' = sent \cup {Emitted(s, "written", status, price)}
  BY DEF Change, Typed
<1>2. n.state = status /\ n.org = sub[s].org /\ n.plan = PlanFor(price, sub[s].plan)
  BY DEF Typed, Subscription
<1> HIDE DEF n
<1>3. sub'[s] = n /\ \A r \in Subs : r # s => sub'[r] = sub[r]
  BY <1>1 DEF Typed
<1> QED
  BY <1>1, <1>2, <1>3 DEF Running

LEMMA EndsIs ==
  ASSUME Typed, NEW s \in Subs, Ends(s)
  PROVE  /\ sub'[s].state = "canceled" /\ sub'[s].org = sub[s].org
         /\ \A r \in Subs : r # s => sub'[r] = sub[r]
         /\ sent' = sent \cup {Emitted(s, "deleted", "canceled", sub[s].price)}
BY DEF Ends, Typed, Subscription

\* An event just emitted.
LEMMA EmittedIs ==
  ASSUME NEW s, NEW type, NEW status, NEW price
  PROVE  /\ Emitted(s, type, status, price).type = type
         /\ Emitted(s, type, status, price).sub = s
         /\ Emitted(s, type, status, price).status = status
         /\ Emitted(s, type, status, price).price = price
         /\ Emitted(s, type, status, price).at = clock
BY DEF Emitted

LEMMA EventIs ==
  ASSUME Typed, NEW e \in sent
  PROVE  /\ e \in Event /\ e.sub \in Subs /\ e.at \in Nat /\ clock \in Nat
         /\ e.type \in {"completed", "written", "deleted"}
         /\ e.status \in {"entitled", "lapsed", "canceled"} /\ e.price \in Plans \cup {Unlisted}
BY SubscriptionsAssumption DEF Typed, Event

\* The steps that send nothing and leave the books alone.
LEMMA BooksKept ==
  ASSUME Books, UNCHANGED <<sub, crowded>>, sent' \subseteq sent, clock' = clock
  PROVE  Books'
BY DEF Books, RunningOf, Running

LEMMA BooksOpen ==
  ASSUME Typed, Bought, Books, NEW t \in Threads, NEW s \in Subs, OpenSession(t, s)
  PROVE  Books'
<1>1. /\ sub'[s] = [state |-> "checkout", org |-> th[t].org, cust |-> th[t].cust,
                    price |-> th[t].plan, plan |-> th[t].plan]
      /\ \A r \in Subs : r # s => sub'[r] = sub[r]
      /\ sub[s].state = "unused" /\ UNCHANGED <<sent, clock, crowded>>
      /\ th[t].plan \in Plans
  BY DEF OpenSession, At, Typed
<1>2. \A e \in sent : e.sub # s /\ e.sub \in Subs
  BY <1>1, EventIs DEF Bought, Paid
<1>3. \A o \in Orgs : RunningOf(o)' = RunningOf(o)
  BY <1>1 DEF RunningOf, Running
<1>4. \A e \in sent : sub'[e.sub] = sub[e.sub]
  BY <1>1, <1>2
<1> QED
  BY <1>1, <1>3, <1>4 DEF Books

LEMMA BooksPay ==
  ASSUME Typed, Bought, Books, NEW s \in Subs, Pay(s)
  PROVE  Books'
<1>1. PICK c : c = Emitted(s, "completed", "entitled", sub[s].price)
  OBVIOUS
<1>2. PICK n : n = Emitted(s, "written", "entitled", sub[s].price)
  OBVIOUS
<1>3. /\ c.type = "completed" /\ c.sub = s /\ c.at = clock
      /\ n.type = "written" /\ n.sub = s /\ n.at = clock
  BY <1>1, <1>2, EmittedIs
<1>4. sent' = sent \cup {c, n} /\ clock' = clock + 1 /\ clock \in Nat
  BY <1>1, <1>2, PayIs, SubscriptionsAssumption DEF Pay, Typed
<1>5. \A e \in sent : e.at \in Nat /\ e.at < clock /\ e.sub \in Subs /\ e.sub # s
  BY PayIs, EventIs DEF Books, Bought, Paid
<1>6. \A e \in sent' : e.at < clock'
  BY <1>3, <1>4, <1>5
<1>7. \A e, f \in sent' : e.at = f.at => e.sub = f.sub /\ (e.type = f.type => e = f)
  BY <1>3, <1>4, <1>5 DEF Books
<1>8. \A e \in sent' : e.type = "deleted" => e \in sent
  BY <1>3, <1>4
<1>9. \A e \in sent' : e.type = "deleted" =>
        /\ sub'[e.sub].state = "canceled"
        /\ \A f \in sent' : f.sub = e.sub /\ f.type # "deleted" => f.at < e.at
  BY <1>3, <1>4, <1>5, <1>8, PayIs DEF Books
<1>10. \A r \in Subs : sub'[r].state = "checkout" =>
         sub'[r].price \in Plans /\ sub'[r].plan = sub'[r].price
  BY PayIs DEF Books
<1>11. ASSUME NEW o \in Orgs \ crowded' PROVE \A q, r \in RunningOf(o)' : q = r
  <2>1. o \notin crowded /\ (o = sub[s].org => RunningOf(o) = {})
    BY DEF Pay
  <2>2. RunningOf(o)' \subseteq IF o = sub[s].org THEN {s} ELSE RunningOf(o)
    BY <2>1, PayIs DEF RunningOf, Running
  <2> QED
    BY <2>1, <2>2 DEF Books
<1> QED
  BY <1>6, <1>7, <1>9, <1>10, <1>11 DEF Books

LEMMA BooksChange ==
  ASSUME Typed, Bought, Books, NEW s \in Subs, NEW status \in {"entitled", "lapsed"},
         NEW price \in Plans \cup {Unlisted}, Change(s, status, price)
  PROVE  Books'
<1>1. PICK n : n = Emitted(s, "written", status, price)
  OBVIOUS
<1>2. n.type = "written" /\ n.sub = s /\ n.at = clock
  BY <1>1, EmittedIs
<1>3. sent' = sent \cup {n} /\ clock' = clock + 1 /\ clock \in Nat /\ crowded' = crowded
  <2>1. clock' = clock + 1 /\ crowded' = crowded
    BY DEF Change
  <2>2. clock \in Nat
    BY SubscriptionsAssumption DEF Typed
  <2> QED
    BY <1>1, <2>1, <2>2, ChangeIs
<1>4. \A e \in sent : e.at \in Nat /\ e.at < clock /\ e.sub \in Subs
  BY EventIs DEF Books
<1>5. \A e \in sent' : e.at < clock'
  BY <1>2, <1>3, <1>4
<1>6. \A e, f \in sent' : e.at = f.at => e.sub = f.sub /\ (e.type = f.type => e = f)
  BY <1>2, <1>3, <1>4 DEF Books
<1>7. \A e \in sent' : e.type = "deleted" => e \in sent /\ e.sub # s
  BY <1>2, <1>3, ChangeIs DEF Books, Running
<1>8. \A e \in sent' : e.type = "deleted" =>
        /\ sub'[e.sub].state = "canceled"
        /\ \A f \in sent' : f.sub = e.sub /\ f.type # "deleted" => f.at < e.at
  BY <1>2, <1>3, <1>4, <1>7, ChangeIs DEF Books
<1>9. \A r \in Subs : sub'[r].state = "checkout" =>
         sub'[r].price \in Plans /\ sub'[r].plan = sub'[r].price
  BY ChangeIs DEF Books
<1>10. \A o \in Orgs : RunningOf(o)' = RunningOf(o)
  BY ChangeIs DEF RunningOf, Running
<1> QED
  BY <1>3, <1>5, <1>6, <1>8, <1>9, <1>10 DEF Books

LEMMA BooksEnds ==
  ASSUME Typed, Bought, Books, NEW s \in Subs, Running(s), Ends(s)
  PROVE  Books'
<1>1. PICK n : n = Emitted(s, "deleted", "canceled", sub[s].price)
  OBVIOUS
<1>2. n.type = "deleted" /\ n.sub = s /\ n.at = clock
  BY <1>1, EmittedIs
<1>3. sent' = sent \cup {n} /\ clock' = clock + 1 /\ clock \in Nat /\ crowded' = crowded
  BY <1>1, EndsIs, SubscriptionsAssumption DEF Ends, Typed
<1>4. \A e \in sent : e.at \in Nat /\ e.at < clock /\ e.sub \in Subs
  BY EventIs DEF Books
<1>5. \A e \in sent' : e.at < clock'
  BY <1>2, <1>3, <1>4
<1>6. \A e, f \in sent' : e.at = f.at => e.sub = f.sub /\ (e.type = f.type => e = f)
  BY <1>2, <1>3, <1>4 DEF Books
<1>7. \A e \in sent' : e.type = "deleted" =>
        /\ sub'[e.sub].state = "canceled"
        /\ \A f \in sent' : f.sub = e.sub /\ f.type # "deleted" => f.at < e.at
  BY <1>2, <1>3, <1>4, EndsIs DEF Books
<1>8. \A r \in Subs : sub'[r].state = "checkout" =>
         sub'[r].price \in Plans /\ sub'[r].plan = sub'[r].price
  BY EndsIs DEF Books
<1>9. \A o \in Orgs : RunningOf(o)' \subseteq RunningOf(o)
  BY EndsIs DEF RunningOf, Running
<1> QED
  BY <1>3, <1>5, <1>6, <1>7, <1>8, <1>9 DEF Books

-----------------------------------------------------------------------------
\* PurgeOrg cancels at most the subscription that runs.
LEMMA PurgeCalls ==
  ASSUME Typed, Bought, NEW t \in Threads, NEW o \in Orgs, PurgeOrg(t, o)
  PROVE  \/ UNCHANGED <<sub, sent, clock, crowded>>
         \/ \E s \in Subs : Running(s) /\ sub[s].org = o /\ row[o].sub = s /\ Ends(s)
<1>1. CASE row[o].sub # NoSub /\ sub[row[o].sub].state # "canceled" /\ Ends(row[o].sub)
  <2>1. row[o].sub \in Subs /\ Paid(row[o].sub, o)
    BY <1>1 DEF Bought, Own, Typed, Organization
  <2>2. Running(row[o].sub)
    BY <1>1, <2>1 DEF Paid, Running, Typed, Subscription
  <2> QED
    BY <1>1, <2>1, <2>2 DEF Paid
<1>2. CASE UNCHANGED <<sub, sent, clock, crowded>>
  BY <1>2
<1> QED
  BY <1>1, <1>2 DEF PurgeOrg, stripe

LEMMA BooksStep == Typed /\ Bought /\ Books /\ [Next]_vars => Books'
<1> SUFFICES ASSUME Typed, Bought, Books, [Next]_vars PROVE Books'
  OBVIOUS
<1> USE DEF stripe
<1>1. ASSUME NEW t \in Threads, Request(t) PROVE Books'
  <2>1. CASE \E o \in Orgs, p \in Plans : BeginCheckout(t, o, p)
    BY <2>1, BooksKept DEF BeginCheckout
  <2>2. CASE \E c \in Customers : MakeCustomer(t, c)
    BY <2>2, BooksKept DEF MakeCustomer
  <2>3. CASE \E s \in Subs : OpenSession(t, s)
    BY <2>3, BooksOpen
  <2>4. ASSUME NEW o \in Orgs, PurgeOrg(t, o) PROVE Books'
    BY <2>4, PurgeCalls, BooksKept, BooksEnds
  <2>5. CASE Purge(t) \/ Drop(t)
    BY <2>5, BooksKept DEF Purge, Drop
  <2> QED
    BY <1>1, <2>1, <2>2, <2>3, <2>4, <2>5 DEF Request
<1>2. ASSUME NEW w \in Workers, Webhook(w) \/ Die(w) PROVE Books'
  BY <1>2, BooksKept DEF Webhook, Receive, Answer, Die
<1>3. ASSUME NEW s \in Subs, Pay(s) PROVE Books'
  BY <1>3, BooksPay
<1>4. ASSUME NEW s \in Subs, Cancel(s) PROVE Books'
  BY <1>4, BooksEnds DEF Cancel
<1>5. ASSUME NEW s \in Subs, NEW status \in {"entitled", "lapsed"},
             NEW p \in Plans \cup {Unlisted}, Change(s, status, p)
      PROVE  Books'
  BY <1>5, BooksChange
<1>6. ASSUME UNCHANGED vars PROVE Books'
  BY <1>6, BooksKept DEF vars
<1> QED
  BY <1>1, <1>2, <1>3, <1>4, <1>5, <1>6 DEF Next

-----------------------------------------------------------------------------
\* Nothing that concerns s, or the rest of o, has happened.
LEMMA FollowingKept ==
  ASSUME NEW o, NEW s, Following(o, s), sub'[s] = sub[s], Alike(row'[o], row[o]),
         News(s)' = News(s),
         \A f \in sent' : f.type # "deleted" /\ sub'[f.sub].org = o =>
           f \in sent /\ sub[f.sub].org = o
  PROVE  Following(o, s)'
<1>1. Listed(s)' = Listed(s)
  BY DEF Listed
<1>2. News(s) \subseteq sent /\ News(s)' \subseteq sent'
  BY DEF News
<1>3. /\ \A e : Latest(e, Listed(s))' <=> Latest(e, Listed(s))
      /\ \A e : Latest(e, News(s))' <=> Latest(e, News(s))
  BY <1>1 DEF Latest
<1>4. \A e : /\ Latest(e, Listed(s))' => e \in sent
             /\ Latest(e, News(s))' => e \in sent
  BY <1>1, <1>2 DEF Latest, Listed
<1>5. row'[o].sub = row[o].sub /\ row'[o].plan = row[o].plan /\ row'[o].status = row[o].status
  BY DEF Alike
<1>6. /\ \A f \in sent' : f.type # "deleted" /\ f.sub # s /\ sub'[f.sub].org = o =>
           \E e \in Listed(s)' : f.at < e.at
  BY <1>1 DEF Following
<1>7. /\ \A e \in sent' : Latest(e, Listed(s))' => e.price = sub'[s].plan
      /\ \A e \in sent' : Latest(e, News(s))' => e.status = sub'[s].state
  BY <1>3, <1>4 DEF Following
<1>8. /\ Listed(s)' = {} => row'[o].sub = s /\ row'[o].plan = sub'[s].plan
      /\ News(s)' = {} => row'[o].status = sub'[s].state
  BY <1>1, <1>5 DEF Following
<1> QED
  BY <1>6, <1>7, <1>8 DEF Following

\* The subscription is paid: nothing else of o runs, and all there is to know
\* of it is to come.
LEMMA FollowingPay ==
  ASSUME Typed, Bought, Books, NEW s \in Subs, Pay(s)
  PROVE  Following(sub[s].org, s)'
<1>1. PICK n : n = Emitted(s, "written", "entitled", sub[s].price)
  OBVIOUS
<1>2. PICK c : c = Emitted(s, "completed", "entitled", sub[s].price)
  OBVIOUS
<1>3. /\ c.type = "completed" /\ c.sub = s /\ c.at = clock
      /\ n.type = "written" /\ n.sub = s /\ n.at = clock
      /\ n.price = sub[s].price /\ n.status = "entitled"
  BY <1>1, <1>2, EmittedIs
<1>4. sent' = sent \cup {c, n} /\ clock \in Nat
  BY <1>1, <1>2, PayIs, SubscriptionsAssumption DEF Typed
<1>5. \A e \in sent : e.at \in Nat /\ e.at < clock /\ e.sub \in Subs /\ e.sub # s
  BY PayIs, EventIs DEF Books, Bought, Paid
<1>6. sub[s].price \in Plans /\ sub[s].plan = sub[s].price
  BY PayIs DEF Books
<1>7. News(s)' = {n}
  BY <1>3, <1>4, <1>5 DEF News
<1>8. Listed(s)' = {n}
  BY <1>3, <1>6, <1>7 DEF Listed
<1>9. \A f \in sent' : f.sub # s => f.at < n.at
  BY <1>3, <1>4, <1>5
<1>10. \A e : Latest(e, Listed(s))' \/ Latest(e, News(s))' => e = n
  BY <1>7, <1>8 DEF Latest
<1>11. n.price = sub'[s].plan /\ n.status = sub'[s].state
  BY <1>3, <1>6, PayIs
<1>12. PICK o : o = sub[s].org
  OBVIOUS
<1>13. sub'[s].org = o
  BY <1>12, PayIs
<1>14. Following(o, s)'
  BY <1>7, <1>8, <1>9, <1>10, <1>11 DEF Following
<1> QED
  BY <1>12, <1>13, <1>14 DEF Following

\* A change of the subscription that runs is the last news of it.
LEMMA FollowingChange ==
  ASSUME Typed, Bought, Books, NEW s \in Subs, NEW status \in {"entitled", "lapsed"},
         NEW price \in Plans \cup {Unlisted}, Change(s, status, price),
         NEW o, Following(o, s)
  PROVE  Following(o, s)'
<1>1. PICK n : n = Emitted(s, "written", status, price)
  OBVIOUS
<1>2. /\ n.type = "written" /\ n.sub = s /\ n.at = clock
      /\ n.price = price /\ n.status = status
  BY <1>1, EmittedIs
<1>3. sent' = sent \cup {n} /\ clock \in Nat /\ row' = row
  <2>1. row' = row
    BY DEF Change
  <2> QED
    BY <1>1, <2>1, ChangeIs, SubscriptionsAssumption DEF Typed
<1>4. \A e \in sent : e.at \in Nat /\ e.at < clock /\ e.sub \in Subs
  BY EventIs DEF Books
<1>5. News(s)' = News(s) \cup {n} /\ News(s) \subseteq sent
  BY <1>2, <1>3 DEF News
<1>6. Listed(s)' = IF price = Unlisted THEN Listed(s) ELSE Listed(s) \cup {n}
  BY <1>2, <1>5, SubscriptionsAssumption DEF Listed
<1>7. Listed(s) \subseteq sent
  BY <1>5 DEF Listed
<1>l. ASSUME NEW E \in SUBSET sent, NEW e, Latest(e, E \cup {n}) PROVE e = n
  <2>1. e \in E \cup {n} /\ n.at <= e.at
    BY <1>l DEF Latest
  <2>2. e \in sent => e.at \in Nat /\ e.at < n.at /\ n.at \in Nat
    BY <1>2, <1>3, <1>4
  <2> QED
    BY <2>1, <2>2
<1>8. \A e \in sent' : Latest(e, News(s))' => e = n
  <2>1. \A e : Latest(e, News(s))' => Latest(e, News(s) \cup {n})
    BY <1>5 DEF Latest
  <2> QED
    BY <1>5, <1>l, <2>1
<1>9. \A e \in sent' : Latest(e, Listed(s))' => e.price = sub'[s].plan
  <2>1. CASE price = Unlisted
    <3>1. sub'[s].plan = sub[s].plan
      BY <2>1, ChangeIs DEF PlanFor
    <3>2. \A e : Latest(e, Listed(s))' => e \in sent /\ Latest(e, Listed(s))
      BY <1>6, <1>7, <2>1 DEF Latest
    <3> QED
      BY <3>1, <3>2 DEF Following
  <2>2. CASE price # Unlisted
    <3>1. sub'[s].plan = price
      BY <2>2, ChangeIs DEF PlanFor
    <3>2. \A e : Latest(e, Listed(s))' => e = n
      <4>1. \A e : Latest(e, Listed(s))' => Latest(e, Listed(s) \cup {n})
        BY <1>6, <2>2 DEF Latest
      <4> QED
        BY <1>7, <1>l, <4>1
    <3> QED
      BY <1>2, <3>1, <3>2
  <2> QED
    BY <2>1, <2>2
<1>10. \A f \in sent' : f.type # "deleted" /\ f.sub # s /\ sub'[f.sub].org = o =>
         \E e \in Listed(s)' : f.at < e.at
  <2> SUFFICES ASSUME NEW f \in sent', f.type # "deleted", f.sub # s, sub'[f.sub].org = o
      PROVE  \E e \in Listed(s)' : f.at < e.at
    OBVIOUS
  <2>1. f \in sent /\ sub[f.sub].org = o
    BY <1>2, <1>3, <1>4, ChangeIs
  <2>2. PICK e \in Listed(s) : f.at < e.at
    BY <2>1 DEF Following
  <2> QED
    BY <1>6, <2>2
<1>11. Listed(s)' = {} => row'[o].sub = s /\ row'[o].plan = sub'[s].plan
  <2> SUFFICES ASSUME Listed(s)' = {} PROVE row'[o].sub = s /\ row'[o].plan = sub'[s].plan
    OBVIOUS
  <2>1. price = Unlisted /\ Listed(s) = {}
    BY <1>6
  <2>2. sub'[s].plan = sub[s].plan
    BY <2>1, ChangeIs DEF PlanFor
  <2> QED
    BY <1>3, <2>1, <2>2 DEF Following
<1>12. News(s)' # {}
  BY <1>5
<1>13. n.status = sub'[s].state
  BY <1>2, ChangeIs
<1> QED
  BY <1>8, <1>9, <1>10, <1>11, <1>12, <1>13 DEF Following

-----------------------------------------------------------------------------
\* The first of the events is handled, and may be gone.
LEMMA FollowingHandled ==
  ASSUME Typed, Bought, Books, NEW o \in Orgs, NEW s \in RunningOf(o), Following(o, s),
         NEW e \in sent, sub[e.sub].org = o,
         \A f \in sent : f.type # "deleted" => f.at >= e.at,
         sub' = sub, Alike(row'[o], Handled(row[o], e)),
         sent' = sent \/ sent' = sent \ {e}
  PROVE  Following(o, s)'
<1>1. /\ e \in Event /\ e.sub \in Subs /\ e.at \in Nat
      /\ e.type \in {"completed", "written", "deleted"}
      /\ \A f \in sent : f.at \in Nat
  BY EventIs
<1>2. row[o] \in Organization /\ s \in Subs /\ Running(s)
  BY DEF Typed, RunningOf
<1>3. /\ row'[o].sub = Handled(row[o], e).sub /\ row'[o].plan = Handled(row[o], e).plan
      /\ row'[o].status = Handled(row[o], e).status
  BY DEF Alike
<1>4. /\ News(s) \subseteq sent /\ Listed(s) \subseteq News(s)
      /\ \A f \in News(s) : f.type = "written" /\ f.sub = s
  BY DEF News, Listed
<1>5. /\ News(s)' = News(s) \/ (sent' = sent \ {e} /\ News(s)' = News(s) \ {e})
      /\ Listed(s)' = Listed(s) \/ (sent' = sent \ {e} /\ Listed(s)' = Listed(s) \ {e})
  BY DEF News, Listed
<1>6. ASSUME NEW E \in SUBSET News(s), NEW x, Latest(x, E \ {e}) PROVE Latest(x, E)
  <2>1. x \in sent /\ x.type # "deleted"
    BY <1>4, <1>6 DEF Latest
  <2>2. e.at <= x.at
    BY <1>1, <2>1
  <2> QED
    BY <1>6, <2>2 DEF Latest
<1>7. \A f \in sent' : f.type # "deleted" /\ f.sub # s /\ sub'[f.sub].org = o =>
        \E g \in Listed(s)' : f.at < g.at
  <2> SUFFICES ASSUME NEW f \in sent', f.type # "deleted", f.sub # s, sub'[f.sub].org = o
      PROVE  \E g \in Listed(s)' : f.at < g.at
    OBVIOUS
  <2>1. f \in sent /\ f.at >= e.at
    BY <1>1
  <2>2. PICK g \in Listed(s) : f.at < g.at
    BY <2>1 DEF Following
  <2>3. g # e
    BY <1>1, <2>1, <2>2
  <2> QED
    BY <1>5, <2>2, <2>3
<1>8. \A x \in sent' : Latest(x, Listed(s))' => x.price = sub'[s].plan
  <2>1. \A x : Latest(x, Listed(s))' => Latest(x, Listed(s)) \/ Latest(x, Listed(s) \ {e})
    BY <1>5 DEF Latest
  <2>2. \A x : Latest(x, Listed(s))' => Latest(x, Listed(s))
    BY <1>4, <1>6, <2>1
  <2> QED
    BY <1>4, <2>2 DEF Following, Latest
<1>9. \A x \in sent' : Latest(x, News(s))' => x.status = sub'[s].state
  <2>1. \A x : Latest(x, News(s))' => Latest(x, News(s)) \/ Latest(x, News(s) \ {e})
    BY <1>5 DEF Latest
  <2>2. \A x : Latest(x, News(s))' => Latest(x, News(s))
    BY <1>4, <1>6, <2>1
  <2> QED
    BY <1>4, <2>2 DEF Following, Latest
<1>10. /\ Listed(s)' = {} => row'[o].sub = s /\ row'[o].plan = sub'[s].plan
       /\ News(s)' = {} => row'[o].status = sub'[s].state
  <2>1. CASE e.sub = s /\ e.type = "completed"
    <3>1. News(s)' = News(s) /\ Listed(s)' = Listed(s)
      BY <1>4, <1>5, <2>1
    <3> QED
      BY <1>1, <1>2, <1>3, <2>1, <3>1, HandledIs DEF Following
  <2>2. CASE e.sub = s /\ e.type = "written"
    <3>1. /\ row'[o].sub = s /\ row'[o].status = e.status
          /\ row'[o].plan = PlanFor(e.price, row[o].plan)
      BY <1>1, <1>2, <1>3, <2>2, HandledIs
    <3>2. e \in News(s) /\ (e \in Listed(s) <=> e.price \in Plans)
          /\ e.price \in Plans \cup {Unlisted}
      BY <1>1, <2>2, EventIs DEF News, Listed
    <3>3. ASSUME News(s)' = {} PROVE e.status = sub[s].state
      <4>1. Latest(e, News(s))
        BY <1>1, <1>5, <3>2, <3>3 DEF Latest
      <4> QED
        BY <4>1 DEF Following
    <3>4. ASSUME Listed(s)' = {} PROVE PlanFor(e.price, row[o].plan) = sub[s].plan
      <4>1. CASE e.price \in Plans
        <5>1. Latest(e, Listed(s))
          BY <1>1, <1>5, <3>2, <3>4, <4>1 DEF Latest
        <5> QED
          BY <4>1, <5>1, SubscriptionsAssumption DEF Following, PlanFor
      <4>2. CASE e.price = Unlisted
        <5>1. Listed(s) = {}
          BY <1>5, <3>2, <3>4, <4>2, SubscriptionsAssumption
        <5> QED
          BY <4>2, <5>1 DEF Following, PlanFor
      <4> QED
        BY <3>2, <4>1, <4>2
    <3> QED
      BY <3>1, <3>3, <3>4
  <2>3. CASE e.sub = s /\ e.type = "deleted"
    BY <1>2, <2>3 DEF Books, Running
  <2>4. CASE e.sub # s /\ e.type # "deleted"
    <3>1. Listed(s) # {} /\ e \notin News(s)
      BY <1>4, <2>4 DEF Following
    <3>2. Listed(s)' # {} /\ News(s)' # {}
      BY <1>4, <1>5, <3>1
    <3> QED
      BY <3>2
  <2>5. CASE e.sub # s /\ e.type = "deleted"
    <3>1. News(s)' = News(s) /\ Listed(s)' = Listed(s)
      BY <1>4, <1>5, <2>5
    <3>2. CASE row[o].sub = s
      <4>1. Handled(row[o], e) = row[o]
        BY <1>1, <1>2, <2>5, <3>2, HandledIs, SubscriptionsAssumption
      <4> QED
        BY <1>3, <3>1, <4>1 DEF Following
    <3>3. CASE row[o].sub # s
      BY <1>4, <3>1, <3>3 DEF Following
    <3> QED
      BY <3>2, <3>3
  <2> QED
    BY <1>1, <2>1, <2>2, <2>3, <2>4, <2>5
<1> QED
  BY <1>7, <1>8, <1>9, <1>10 DEF Following

-----------------------------------------------------------------------------
LEMMA InTurnKept ==
  ASSUME Typed, Books, InTurn, UNCHANGED wk, sent \subseteq sent',
         \A f \in sent' : f \in sent \/ f.at = clock,
         live' \subseteq live, \A o \in live' : Alike(row'[o], row[o])
  PROVE  InTurn'
<1>1. \A e \in sent : e.at \in Nat /\ e.at < clock /\ clock \in Nat
  BY EventIs DEF Books
<1>2. ASSUME NEW w \in Workers, NEW e \in wk[w].ev
      PROVE  /\ wk'[w].ev = {e} /\ e \in sent'
             /\ \A f \in sent' : f.type # "deleted" => f.at >= e.at
             /\ wk'[w].org \in live' => Alike(wk'[w].old, row'[wk'[w].org])
  <2>1. /\ wk[w].ev = {e} /\ e \in sent /\ wk'[w] = wk[w]
        /\ \A f \in sent : f.type # "deleted" => f.at >= e.at
        /\ wk[w].org \in live => Alike(wk[w].old, row[wk[w].org])
    BY <1>2 DEF InTurn
  <2>2. \A f \in sent' : f.type # "deleted" => f.at >= e.at
    BY <1>1, <2>1
  <2>3. wk'[w].org \in live' => Alike(wk'[w].old, row'[wk'[w].org])
    BY <2>1 DEF Alike
  <2> QED
    BY <2>1, <2>2, <2>3
<1>3. \A v, w \in Workers : Busy(v)' /\ Busy(w)' => v = w
  BY DEF InTurn, Busy
<1> QED
  BY <1>2, <1>3 DEF InTurn

LEMMA InTurnFree ==
  ASSUME \A w \in Workers : wk'[w].ev = {}
  PROVE  InTurn'
BY DEF InTurn, Busy

LEMMA EndingKept ==
  ASSUME Bought, Typed, Ending, live' \subseteq live, \A o \in live' : Alike(row'[o], row[o]),
         \A s \in Subs : Accounted(s) /\ sub[s].org \in live => Accounted(s)',
         \A e \in sent' : e.type # "deleted" /\ sub'[e.sub].org \in live' =>
           \/ e \in sent /\ sub[e.sub].org \in live
           \/ Accounted(e.sub)'
  PROVE  Ending'
<1>1. ASSUME NEW e \in sent', e.type # "deleted", sub'[e.sub].org \in live'
      PROVE  Accounted(e.sub)'
  <2>1. CASE e \in sent /\ sub[e.sub].org \in live
    <3>1. Accounted(e.sub) /\ e.sub \in Subs
      BY <1>1, <2>1, EventIs DEF Ending
    <3> QED
      BY <2>1, <3>1
  <2> QED
    BY <1>1, <2>1
<1>2. ASSUME NEW o \in live'
      PROVE  /\ row'[o].sub = NoSub => row'[o].plan = Free
             /\ row'[o].sub # NoSub => Accounted(row[o].sub)'
  <2>1. o \in live /\ o \in Orgs
    BY <1>2 DEF Typed
  <2>2. row'[o].sub = row[o].sub /\ row'[o].plan = row[o].plan
    BY <1>2 DEF Alike
  <2>3. ASSUME NEW s, s = row[o].sub, s # NoSub PROVE Accounted(s)'
    <3>1. s \in Subs /\ sub[s].org = o /\ Accounted(s)
      BY <2>1, <2>3 DEF Typed, Organization, Bought, Own, Paid, Ending
    <3> QED
      BY <2>1, <3>1
  <2>4. PICK s : s = row[o].sub
    OBVIOUS
  <2>5. row'[o].sub # NoSub => Accounted(row[o].sub)'
    BY <2>2, <2>3, <2>4 DEF Accounted, Running
  <2> QED
    BY <2>1, <2>2, <2>5 DEF Ending
<1> QED
  BY <1>1, <1>2 DEF Ending

-----------------------------------------------------------------------------
LEMMA EndingHandled ==
  ASSUME Typed, Bought, Books, Ending, NEW o \in live, NEW e \in sent, sub[e.sub].org = o,
         \A f \in sent : f.type # "deleted" => f.at >= e.at,
         UNCHANGED <<sub, live>>, Alike(row'[o], Handled(row[o], e)),
         \A x \in live : x # o => row'[x] = row[x],
         sent' = sent \/ sent' = sent \ {e}
  PROVE  Ending'
<1>1. /\ e \in Event /\ e.sub \in Subs /\ e.type \in {"completed", "written", "deleted"}
      /\ \A f \in sent : f.at \in Nat /\ f.sub \in Subs
      /\ live \subseteq Orgs /\ row[o] \in Organization
  BY EventIs DEF Typed
\* What is accounted for stays so, but for what ends by this event.
<1>2. ASSUME NEW s, Accounted(s), s # e.sub \/ e.type # "deleted" PROVE Accounted(s)'
  BY <1>2 DEF Accounted, Running
<1>3. ASSUME NEW f \in sent', f.type # "deleted", sub'[f.sub].org \in live'
      PROVE  Accounted(f.sub)'
  <2>1. f \in sent /\ Accounted(f.sub) /\ f.at >= e.at
    BY <1>3 DEF Ending
  <2>2. f.sub # e.sub \/ e.type # "deleted"
    BY <1>1, <1>3, <2>1 DEF Books
  <2> QED
    BY <1>2, <2>1, <2>2
<1>4. ASSUME NEW x \in live, NEW s, s = row'[x].sub
      PROVE  /\ s = NoSub => row'[x].plan = Free
             /\ s # NoSub => Accounted(s)'
  <2>1. CASE x # o
    <3>1. row'[x] = row[x]
      BY <2>1
    <3>2. s # NoSub => sub[s].org = x /\ Accounted(s)
      BY <1>1, <1>4, <3>1 DEF Bought, Own, Paid, Ending
    <3> QED
      BY <1>2, <1>4, <2>1, <3>1, <3>2 DEF Ending
  <2>2. CASE x = o /\ e.type # "deleted"
    <3>1. s = e.sub
      BY <1>1, <1>4, <2>2, HandledIs DEF Alike
    <3>2. Accounted(e.sub)
      BY <2>2 DEF Ending
    <3> QED
      BY <1>1, <1>2, <2>2, <3>1, <3>2, SubscriptionsAssumption
  <2>3. CASE x = o /\ e.type = "deleted" /\ row[o].sub \notin {NoSub, e.sub}
    <3>1. s = row[o].sub /\ s # NoSub
      BY <1>1, <1>4, <2>3, HandledIs DEF Alike
    <3>2. Accounted(s)
      BY <2>3, <3>1 DEF Ending
    <3> QED
      BY <1>2, <2>3, <3>1, <3>2
  <2>4. CASE x = o /\ e.type = "deleted" /\ row[o].sub \in {NoSub, e.sub}
    BY <1>1, <1>4, <2>4, HandledIs DEF Alike
  <2> QED
    BY <2>1, <2>2, <2>3, <2>4
<1>5. ASSUME NEW x \in live'
      PROVE  /\ row'[x].sub = NoSub => row'[x].plan = Free
             /\ row'[x].sub # NoSub => Accounted(row[x].sub)'
  <2>1. PICK s : s = row'[x].sub
    OBVIOUS
  <2>2. /\ s = NoSub => row'[x].plan = Free
        /\ s # NoSub => Accounted(s)'
    BY <1>4, <2>1
  <2> QED
    BY <2>1, <2>2 DEF Accounted, Running
<1> QED
  BY <1>3, <1>5 DEF Ending

\* No event is sent or acknowledged, and no row changes but in its customer.
LEMMA InStepQuiet ==
  ASSUME Typed, Bought, Books, InStep, UNCHANGED <<sub, sent, crowded>>,
         live' \subseteq live, \A o \in live' : Alike(row'[o], row[o]), InTurn'
  PROVE  InStep'
<1>1. \A s : Accounted(s)' <=> Accounted(s)
  BY DEF Accounted, Running
<1>2. Ending'
  BY <1>1, EndingKept DEF InStep
<1>3. ASSUME NEW o \in live' \ crowded', NEW s \in RunningOf(o)' PROVE Following(o, s)'
  <2>1. s \in RunningOf(o) /\ News(s)' = News(s) /\ Following(o, s)
    BY <1>3 DEF RunningOf, Running, News, InStep
  <2> QED
    BY <1>3, <2>1, FollowingKept
<1> QED
  BY <1>2, <1>3 DEF InStep

\* An event is emitted about s.
LEMMA InStepEmit ==
  ASSUME Typed, Bought, Books, Books', InStep, NEW s \in Subs, UNCHANGED <<live, row, wk>>,
         sub'[s].org = sub[s].org, \A r \in Subs : r # s => sub'[r] = sub[r],
         sent \subseteq sent', \A f \in sent' : f \in sent \/ (f.sub = s /\ f.at = clock),
         crowded \subseteq crowded',
         Accounted(s)',
         Running(s)' => Following(sub[s].org, s)',
         Running(s)' \/ \A f \in sent' : f \in sent \/ f.type = "deleted"
  PROVE  InStep'
<1>1. \A o \in live' : Alike(row'[o], row[o])
  BY DEF Alike
<1>2. InTurn'
  BY <1>1, InTurnKept DEF InStep
<1>3. \A r \in Subs : Accounted(r) => Accounted(r)'
  BY DEF Accounted, Running
<1>4. \A f \in sent' : f \in sent \/ Accounted(f.sub)'
  BY DEF Accounted
<1>5. \A r \in Subs : sub'[r].org = sub[r].org
  OBVIOUS
<1>6. \A f \in sent : f.sub \in Subs
  BY EventIs
<1>7. Ending'
  BY <1>1, <1>3, <1>4, <1>5, <1>6, EndingKept DEF InStep
<1>8. ASSUME NEW o \in live' \ crowded', NEW r \in RunningOf(o)' PROVE Following(o, r)'
  <2>1. CASE r = s
    <3>1. Running(s)' /\ sub[s].org = o
      BY <1>8, <2>1 DEF RunningOf, Running
    <3>2. Following(sub[s].org, s)'
      BY <3>1
    <3> QED
      BY <1>5, <2>1, <3>1, <3>2 DEF Following
  <2>2. CASE r # s
    <3>1. r \in Subs /\ sub'[r] = sub[r] /\ r \in RunningOf(o) /\ Following(o, r)
      BY <1>8, <2>2 DEF RunningOf, Running, InStep
    <3>2. News(r)' = News(r)
      BY <2>2 DEF News
    <3>3. Running(s)' => sub[s].org # o
      BY <1>5, <1>8, <2>2 DEF Books, RunningOf, Typed
    <3>4. \A f \in sent' : f.type # "deleted" /\ sub'[f.sub].org = o =>
            f \in sent /\ sub[f.sub].org = o
      BY <1>5, <1>6, <3>3
    <3> QED
      BY <1>1, <1>8, <3>1, <3>2, <3>4, FollowingKept
  <2> QED
    BY <2>1, <2>2
<1> QED
  BY <1>2, <1>7, <1>8 DEF InStep

-----------------------------------------------------------------------------
LEMMA InStepPay ==
  ASSUME Typed, Bought, Books, Books', InStep, NEW s \in Subs, Pay(s)
  PROVE  InStep'
<1>1. Following(sub[s].org, s)'
  BY FollowingPay
<1>2. Running(s)'
  BY PayIs DEF Running
<1>3. Accounted(s)'
  BY <1>2 DEF Accounted
<1>4. /\ UNCHANGED <<live, row, wk>> /\ crowded \subseteq crowded'
      /\ sub'[s].org = sub[s].org /\ \A r \in Subs : r # s => sub'[r] = sub[r]
  <2>1. UNCHANGED <<live, row, wk>> /\ crowded \subseteq crowded'
    BY DEF Pay
  <2> QED
    BY <2>1, PayIs
<1>5. sent \subseteq sent' /\ \A f \in sent' : f \in sent \/ (f.sub = s /\ f.at = clock)
  BY PayIs, EmittedIs
<1> QED
  BY <1>1, <1>2, <1>3, <1>4, <1>5, InStepEmit

LEMMA InStepChange ==
  ASSUME Typed, Bought, Books, Books', InStep, NEW s \in Subs,
         NEW status \in {"entitled", "lapsed"}, NEW price \in Plans \cup {Unlisted},
         Change(s, status, price)
  PROVE  InStep'
<1>1. /\ UNCHANGED <<live, row, wk, crowded>>
  BY DEF Change
<1>2. /\ Running(s) /\ Running(s)' /\ sub'[s].org = sub[s].org
      /\ \A r \in Subs : r # s => sub'[r] = sub[r]
  BY ChangeIs
<1>3. Accounted(s)'
  BY <1>2 DEF Accounted
<1>4. sent \subseteq sent' /\ \A f \in sent' : f \in sent \/ (f.sub = s /\ f.at = clock)
  BY ChangeIs, EmittedIs
\* Following is claimed of the organisations that are live and never ran two.
<1>5. CASE sub[s].org \in live \ crowded
  <2>1. PICK o : o = sub[s].org
    OBVIOUS
  <2>2. Following(o, s)
    BY <1>2, <1>5, <2>1 DEF InStep, RunningOf
  <2>3. Following(o, s)'
    BY <2>2, FollowingChange
  <2>4. Following(sub[s].org, s)'
    BY <1>2, <2>1, <2>3 DEF Following
  <2> QED
    BY <1>1, <1>2, <1>3, <1>4, <2>4, InStepEmit
<1>6. CASE sub[s].org \notin live \ crowded
  <2>1. \A o \in live' : Alike(row'[o], row[o])
    BY <1>1 DEF Alike
  <2>2. InTurn'
    BY <1>1, <1>4, <2>1, InTurnKept DEF InStep
  <2>3. \A r \in Subs : Accounted(r) => Accounted(r)'
    BY <1>2, <1>4 DEF Accounted, Running
  <2>4. /\ \A f \in sent' : f \in sent \/ Accounted(f.sub)'
        /\ \A r \in Subs : sub'[r].org = sub[r].org
        /\ \A f \in sent : f.sub \in Subs
    BY <1>2, <1>3, <1>4, EventIs
  <2>5. Ending'
    BY <1>1, <2>1, <2>3, <2>4, EndingKept DEF InStep
  <2>6. ASSUME NEW o \in live' \ crowded', NEW r \in RunningOf(o)' PROVE Following(o, r)'
    <3>1. r \in Subs /\ r # s /\ sub'[r] = sub[r] /\ r \in RunningOf(o) /\ Following(o, r)
      BY <1>1, <1>2, <1>6, <2>6 DEF RunningOf, Running, InStep
    <3>2. News(r)' = News(r)
      BY <1>4, <3>1 DEF News
    <3>3. \A f \in sent' : f.type # "deleted" /\ sub'[f.sub].org = o =>
            f \in sent /\ sub[f.sub].org = o
      BY <1>1, <1>2, <1>4, <1>6, <2>4, <2>6
    <3> QED
      BY <2>1, <2>6, <3>1, <3>2, <3>3, FollowingKept
  <2> QED
    BY <2>2, <2>5, <2>6 DEF InStep
<1> QED
  BY <1>5, <1>6

LEMMA InStepEnds ==
  ASSUME Typed, Bought, Books, Books', InStep, NEW s \in Subs, Ends(s),
         UNCHANGED <<live, row, wk>>
  PROVE  InStep'
<1>1. PICK n : n = Emitted(s, "deleted", "canceled", sub[s].price)
  OBVIOUS
<1>2. n.type = "deleted" /\ n.sub = s /\ n.at = clock
  BY <1>1, EmittedIs
<1>3. sent' = sent \cup {n} /\ crowded' = crowded
  BY <1>1, EndsIs DEF Ends
<1>4. ~ Running(s)' /\ Accounted(s)'
  BY <1>2, <1>3, EndsIs DEF Running, Accounted
<1>5. sub'[s].org = sub[s].org /\ \A r \in Subs : r # s => sub'[r] = sub[r]
  BY EndsIs
<1> QED
  BY <1>2, <1>3, <1>4, <1>5, InStepEmit

\* The checkout that is opened runs nothing yet.
LEMMA InStepOpen ==
  ASSUME Typed, Bought, Books, Books', InStep, NEW t \in Threads, NEW s \in Subs,
         OpenSession(t, s)
  PROVE  InStep'
<1>1. /\ sub'[s].state = "checkout" /\ sub[s].state = "unused"
      /\ \A r \in Subs : r # s => sub'[r] = sub[r]
      /\ UNCHANGED <<live, row, wk, sent, clock, crowded>>
  BY DEF OpenSession, Typed
<1>2. \A e \in sent : e.sub # s /\ e.sub \in Subs /\ sub'[e.sub] = sub[e.sub]
  BY <1>1, EventIs DEF Bought, Paid
<1>3. \A o \in live' : Alike(row'[o], row[o])
  BY <1>1 DEF Alike
<1>4. InTurn'
  BY <1>1, <1>3, InTurnKept DEF InStep
<1>5. \A r \in Subs : Accounted(r) => Accounted(r)'
  BY <1>1, <1>2 DEF Accounted, Running
<1>6. Ending'
  BY <1>1, <1>2, <1>3, <1>5, EndingKept DEF InStep
<1>7. ASSUME NEW o \in live' \ crowded', NEW r \in RunningOf(o)' PROVE Following(o, r)'
  <2>1. r # s /\ r \in Subs /\ sub'[r] = sub[r] /\ r \in RunningOf(o) /\ Following(o, r)
    BY <1>1, <1>7 DEF RunningOf, Running, InStep
  <2>2. News(r)' = News(r)
    BY <1>1 DEF News
  <2> QED
    BY <1>1, <1>2, <1>3, <1>7, <2>1, <2>2, FollowingKept
<1> QED
  BY <1>4, <1>6, <1>7 DEF InStep

\* What is not about a row any more may be acknowledged: it concerns no live
\* organisation.
LEMMA InStepReceive ==
  ASSUME Typed, Bought, Books, InStep, orderly, NEW w \in Workers, NEW e \in sent,
         Receive(w, e)
  PROVE  InStep'
<1>1. UNCHANGED <<live, row, sub, crowded>>
  BY DEF Receive
<1>2. \A o \in live' : Alike(row'[o], row[o])
  BY <1>1 DEF Alike
<1>3. e \in Event /\ e.sub \in Subs /\ Paid(e.sub, sub[e.sub].org)
  BY EventIs DEF Bought
<1>4. /\ \A v \in Workers : wk[v].ev = {}
      /\ \A f \in sent : f.type # "deleted" => f.at >= e.at
  BY DEF Receive, Due, Busy
<1>5. CASE OrgFor(e.sub) = {}
  <2>1. sent' = sent \ {e} /\ wk' = wk
    BY <1>5 DEF Receive
  <2>2. sub[e.sub].org \notin live
    BY <1>5 DEF OrgFor
  <2>3. InTurn'
    BY <1>4, <2>1, InTurnFree
  <2>4. \A s \in Subs : Accounted(s) /\ sub[s].org \in live => Accounted(s)'
    BY <1>1, <2>1, <2>2 DEF Accounted, Running
  <2>5. Ending'
    BY <1>1, <1>2, <2>1, <2>4, EndingKept DEF InStep
  <2>6. ASSUME NEW o \in live' \ crowded', NEW s \in RunningOf(o)' PROVE Following(o, s)'
    <3>1. s \in RunningOf(o) /\ s \in Subs /\ sub[s].org = o /\ Following(o, s) /\ s # e.sub
      BY <1>1, <2>2, <2>6 DEF RunningOf, Running, InStep
    <3>2. News(s)' = News(s)
      BY <2>1, <3>1 DEF News
    <3> QED
      BY <1>1, <1>2, <2>1, <2>6, <3>1, <3>2, FollowingKept
  <2> QED
    BY <2>3, <2>5, <2>6 DEF InStep
<1>6. CASE OrgFor(e.sub) # {}
  <2>1. PICK o \in OrgFor(e.sub) :
          wk' = [wk EXCEPT ![w] = [ev |-> {e}, org |-> o, old |-> row[o]]]
    BY <1>6 DEF Receive
  <2>2. sent' = sent
    BY <1>6 DEF Receive
  <2>3. /\ wk'[w].ev = {e} /\ wk'[w].org = o /\ wk'[w].old = row[o]
        /\ \A v \in Workers : v # w => wk'[v].ev = {}
    BY <1>4, <2>1 DEF Typed
  <2>4. InTurn'
    BY <1>1, <1>4, <2>2, <2>3 DEF InTurn, Busy, Alike
  <2> QED
    BY <1>1, <1>2, <2>2, <2>4, InStepQuiet
<1> QED
  BY <1>5, <1>6

-----------------------------------------------------------------------------
LEMMA InStepAnswer ==
  ASSUME Typed, Bought, Books, InStep, NEW w \in Workers, Answer(w)
  PROVE  InStep'
<1>1. PICK e \in wk[w].ev :
        /\ row' = IF wk[w].org \in live
                  THEN [row EXCEPT ![wk[w].org] =
                          Merge(wk[w].old, Handled(wk[w].old, e), row[wk[w].org])]
                  ELSE row
        /\ sent' = sent \/ sent' = sent \ {e}
  BY DEF Answer
<1>2. PICK o : o = wk[w].org
  OBVIOUS
<1>3. PICK old : old = wk[w].old
  OBVIOUS
<1>4. UNCHANGED <<live, sub, crowded>> /\ wk' = [wk EXCEPT ![w] = IdleWorker]
  BY DEF Answer
<1>5. /\ o \in Orgs /\ old \in Organization /\ row[o] \in Organization
      /\ e \in Event /\ e.sub \in Subs /\ sub[e.sub].org = o
  BY <1>2, <1>3 DEF Answer, Busy, Typed, Worker, Event, Bought, Paid
<1>6. /\ e \in sent /\ \A f \in sent : f.type # "deleted" => f.at >= e.at
      /\ o \in live => Alike(old, row[o])
  BY <1>2, <1>3 DEF InStep, InTurn
<1>7. InTurn'
  <2>1. \A v \in Workers : v # w => wk[v].ev = {}
    BY DEF Answer, Busy, InStep, InTurn
  <2>2. \A v \in Workers : wk'[v].ev = {}
    BY <1>4, <2>1 DEF Typed, IdleWorker
  <2> QED
    BY <2>2, InTurnFree
<1>8. CASE o \in live
  <2>1. row'[o] = Merge(old, Handled(old, e), row[o]) /\ \A x \in live : x # o => row'[x] = row[x]
    BY <1>1, <1>2, <1>3, <1>5, <1>8 DEF Typed
  <2>2. Alike(row'[o], Handled(row[o], e))
    BY <1>5, <1>6, <1>8, <2>1, MergeAlike
  <2>3. Ending'
    BY <1>1, <1>4, <1>5, <1>6, <1>8, <2>1, <2>2, EndingHandled DEF InStep
  <2>4. ASSUME NEW x \in live' \ crowded', NEW s \in RunningOf(x)' PROVE Following(x, s)'
    <3>1. x \in live \ crowded /\ s \in RunningOf(x) /\ Following(x, s) /\ sub'[s] = sub[s]
      BY <1>4, <2>4 DEF RunningOf, Running, InStep
    <3>2. CASE x = o
      BY <1>1, <1>4, <1>5, <1>6, <2>2, <3>1, <3>2, FollowingHandled
    <3>3. CASE x # o
      <4>1. News(s)' = News(s)
        <5>1. e.sub # s
          BY <1>5, <3>1, <3>3 DEF RunningOf
        <5> QED
          BY <1>1, <5>1 DEF News
      <4>2. Alike(row'[x], row[x])
        BY <2>1, <3>1, <3>3 DEF Alike
      <4>3. \A f \in sent' : f.type # "deleted" /\ sub'[f.sub].org = x =>
              f \in sent /\ sub[f.sub].org = x
        BY <1>1, <1>4
      <4> QED
        BY <3>1, <4>1, <4>2, <4>3, FollowingKept
    <3> QED
      BY <3>2, <3>3
  <2> QED
    BY <1>7, <2>3, <2>4 DEF InStep
\* The organisation has gone: nothing is left that the event concerns.
<1>9. CASE o \notin live
  <2>1. row' = row
    BY <1>1, <1>2, <1>9
  <2>2. \A x \in live' : Alike(row'[x], row[x])
    BY <2>1 DEF Alike
  <2>3. \A s \in Subs : Accounted(s) /\ sub[s].org \in live => Accounted(s)'
    BY <1>1, <1>4, <1>5, <1>9 DEF Accounted, Running
  <2>4. Ending'
    <3>1. \A f \in sent' : f \in sent
      BY <1>1
    <3> QED
      BY <1>4, <2>2, <2>3, <3>1, EndingKept DEF InStep
  <2>5. ASSUME NEW x \in live' \ crowded', NEW s \in RunningOf(x)' PROVE Following(x, s)'
    <3>1. s \in RunningOf(x) /\ sub'[s] = sub[s] /\ Following(x, s) /\ s # e.sub
      BY <1>4, <1>5, <1>9, <2>5 DEF RunningOf, Running, InStep
    <3>2. News(s)' = News(s)
      BY <1>1, <3>1 DEF News
    <3>3. \A f \in sent' : f.type # "deleted" /\ sub'[f.sub].org = x =>
            f \in sent /\ sub[f.sub].org = x
      BY <1>1, <1>4
    <3> QED
      BY <2>2, <2>5, <3>1, <3>2, <3>3, FollowingKept
  <2> QED
    BY <1>7, <2>4, <2>5 DEF InStep
<1> QED
  BY <1>8, <1>9

\* What changes no row's plan, sends no event and stops no worker.
LEMMA InStepIdle ==
  ASSUME Typed, Bought, Books, InStep, UNCHANGED <<sub, sent, clock, crowded, wk>>,
         live' \subseteq live, \A o \in live' : Alike(row'[o], row[o])
  PROVE  InStep'
<1>1. InTurn'
  BY InTurnKept DEF InStep
<1> QED
  BY <1>1, InStepQuiet

LEMMA OrderlyFixed == [Next]_vars => orderly' = orderly
BY ZenonT(30) DEF Next, Request, Webhook, BeginCheckout, MakeCustomer, OpenSession, PurgeOrg, Purge, Drop,
       Receive, Answer, Die, Pay, Cancel, Change, vars

LEMMA OrderedStep == Typed /\ Bought /\ Books /\ Ordered /\ [Next]_vars => Ordered'
<1> SUFFICES ASSUME Typed, Bought, Books, InStep, [Next]_vars, orderly PROVE InStep'
  BY OrderlyFixed DEF Ordered
<1> USE DEF stripe
<1>0. Books'
  BY BooksStep
<1>1. ASSUME NEW t \in Threads, Request(t) PROVE InStep'
  <2>1. CASE \E o \in Orgs, p \in Plans : BeginCheckout(t, o, p)
    BY <2>1, InStepIdle DEF BeginCheckout, Alike
  <2>2. ASSUME NEW c \in Customers, MakeCustomer(t, c) PROVE InStep'
    <3>1. row' = row \/ row' = [row EXCEPT ![th[t].org].cust = c]
      BY <2>2 DEF MakeCustomer
    <3>2. \A o \in live' : Alike(row'[o], row[o])
      BY <2>2, <3>1 DEF MakeCustomer, Alike, Typed, Organization
    <3> QED
      BY <2>2, <3>2, InStepIdle DEF MakeCustomer
  <2>3. CASE \E s \in Subs : OpenSession(t, s)
    BY <1>0, <2>3, InStepOpen
  <2>4. ASSUME NEW o \in Orgs, PurgeOrg(t, o) PROVE InStep'
    <3>1. UNCHANGED <<live, row, wk>>
      BY <2>4 DEF PurgeOrg
    <3>2. CASE UNCHANGED <<sub, sent, clock, crowded>>
      BY <3>1, <3>2, InStepIdle DEF Alike
    <3>3. CASE \E s \in Subs : Ends(s)
      BY <1>0, <3>1, <3>3, InStepEnds
    <3> QED
      BY <2>4, <3>2, <3>3, PurgeCalls
  <2>5. CASE Purge(t)
    <3>1. \A o \in live' : o \in live /\ row'[o] = row[o]
      BY <2>5 DEF Purge, Typed
    <3> QED
      BY <2>5, <3>1, InStepIdle DEF Purge, Alike
  <2>6. CASE Drop(t)
    BY <2>6, InStepIdle DEF Drop, Alike
  <2> QED
    BY <1>1, <2>1, <2>2, <2>3, <2>4, <2>5, <2>6 DEF Request
<1>2. ASSUME NEW w \in Workers, Webhook(w) PROVE InStep'
  BY <1>2, InStepReceive, InStepAnswer DEF Webhook
<1>3. ASSUME NEW w \in Workers, Die(w) PROVE InStep'
  <2>1. \A v \in Workers : v # w => wk[v].ev = {}
    BY <1>3 DEF Die, Busy, InStep, InTurn
  <2>2. \A v \in Workers : wk'[v].ev = {}
    BY <1>3, <2>1 DEF Die, Typed, IdleWorker
  <2>3. InTurn'
    BY <2>2, InTurnFree
  <2> QED
    BY <1>3, <2>3, InStepQuiet DEF Die, Alike
<1>4. ASSUME NEW s \in Subs, Pay(s) PROVE InStep'
  BY <1>0, <1>4, InStepPay
<1>5. ASSUME NEW s \in Subs, Cancel(s) PROVE InStep'
  BY <1>0, <1>5, InStepEnds DEF Cancel
<1>6. ASSUME NEW s \in Subs, NEW status \in {"entitled", "lapsed"},
             NEW p \in Plans \cup {Unlisted}, Change(s, status, p)
      PROVE  InStep'
  BY <1>0, <1>6, InStepChange
<1>7. ASSUME UNCHANGED vars PROVE InStep'
  BY <1>7, InStepIdle DEF vars, Alike
<1> QED
  BY <1>1, <1>2, <1>3, <1>4, <1>5, <1>6, <1>7 DEF Next

-----------------------------------------------------------------------------
\* With nothing left to hear about o, the row says what Stripe says.
LEMMA DrainedAgrees ==
  ASSUME Typed, Bought, InStep, NEW o \in live \ crowded, Drained(o)
  PROVE  Agrees(o)
<1>1. o \in Orgs /\ row[o] \in Organization
  BY DEF Typed
<1>2. ASSUME NEW s \in RunningOf(o)
      PROVE  row[o].sub = s /\ row[o].status = sub[s].state /\ row[o].plan = sub[s].plan
  <2>1. News(s) = {} /\ Listed(s) = {}
    BY DEF News, Listed, Drained, RunningOf
  <2> QED
    BY <2>1 DEF InStep, Following
<1>3. ASSUME RunningOf(o) = {} PROVE ~ Entitled(row[o])
  <2>1. ASSUME row[o].sub # NoSub PROVE FALSE
    <3>1. PICK s \in Subs : s = row[o].sub /\ sub[s].org = o
      BY <1>1, <2>1 DEF Organization, Bought, Own, Paid
    <3>2. Accounted(s)
      BY <2>1, <3>1 DEF InStep, Ending
    <3> QED
      BY <1>3, <3>1, <3>2 DEF Accounted, RunningOf, Drained
  <2> QED
    BY <2>1 DEF InStep, Ending, Entitled
<1> QED
  BY <1>2, <1>3 DEF Agrees

\* An organisation is on the plan it pays for once everything was delivered,
\* when Stripe's events come in order, late or repeated cancellations excepted,
\* and it never ran two subscriptions at once (stripe_webhook): whatever
\* answers are lost, and however many of its handlers die.
THEOREM RowsFollowStripe == Spec => []AgreesWhenDrained
<1>1. Typed /\ Bought /\ Ordered => AgreesWhenDrained
  BY DrainedAgrees DEF Ordered, AgreesWhenDrained
<1>2. Init => Books /\ Ordered
  BY OrderedInit
<1> QED
  BY <1>1, <1>2, TypedInit, TypedStep, BoughtInit, BoughtStep, BooksStep, OrderedStep, PTL DEF Spec

-----------------------------------------------------------------------------
\* What Stripe has canceled stays so.
LEMMA CanceledStays ==
  ASSUME Typed, Bought, [Next]_vars, NEW s \in Subs, sub[s].state = "canceled"
  PROVE  sub'[s].state = "canceled"
<1>1. ASSUME NEW t \in Threads, Request(t) PROVE sub'[s].state = "canceled"
  <2>1. CASE \E r \in Subs : OpenSession(t, r)
    BY <2>1 DEF OpenSession, Typed
  <2>2. ASSUME NEW o \in Orgs, PurgeOrg(t, o) PROVE sub'[s].state = "canceled"
    BY <2>2, PurgeCalls, EndsIs
  <2> QED
    BY <1>1, <2>1, <2>2 DEF Request, BeginCheckout, MakeCustomer, Purge, Drop, stripe
<1>2. ASSUME NEW w \in Workers, Webhook(w) \/ Die(w) PROVE sub'[s].state = "canceled"
  BY <1>2 DEF Webhook, Receive, Answer, Die, stripe
<1>3. ASSUME NEW r \in Subs, Pay(r) PROVE sub'[s].state = "canceled"
  BY <1>3, PayIs
<1>4. ASSUME NEW r \in Subs, Cancel(r) PROVE sub'[s].state = "canceled"
  BY <1>4, EndsIs DEF Cancel
<1>5. ASSUME NEW r \in Subs, NEW status \in {"entitled", "lapsed"},
             NEW p \in Plans \cup {Unlisted}, Change(r, status, p)
      PROVE  sub'[s].state = "canceled"
  BY <1>5, ChangeIs DEF Running
<1>6. ASSUME UNCHANGED vars PROVE sub'[s].state = "canceled"
  BY <1>6 DEF vars, stripe
<1> QED
  BY <1>1, <1>2, <1>3, <1>4, <1>5, <1>6 DEF Next

\* A purge adds to closing what it ends.
LEMMA ClosingEnds ==
  ASSUME Typed, Bought, Ordered, [Next]_vars, NEW s \in closing' \ closing
  PROVE  sub'[s].state = "canceled"
<1>1. PICK t \in Threads, o \in Orgs : PurgeOrg(t, o)
  BY ZenonT(30) DEF Next, Request, Webhook, BeginCheckout, MakeCustomer, OpenSession, Purge, Drop,
         Receive, Answer, Die, Pay, Cancel, Change, vars
<1>2. /\ orderly /\ Drained(o) /\ o \in live \ crowded /\ faults' = faults
      /\ s \in RunningOf(o)
  BY <1>1 DEF PurgeOrg
<1>3. row[o].sub = s
  BY <1>2, DrainedAgrees DEF Ordered, Agrees
<1>4. s # NoSub /\ sub[s].state # "canceled"
  BY <1>2, SubscriptionsAssumption DEF RunningOf, Running
<1>5. Ends(s)
  BY <1>1, <1>2, <1>3, <1>4 DEF PurgeOrg, Typed
<1> QED
  BY <1>2, <1>5, EndsIs DEF RunningOf

\* Deleting an organisation ends the subscription it ran, when the events about
\* it had come, in order, and been handled, and Stripe did not fail the call:
\* the row then knows the one subscription that runs (_purge_org).
THEOREM PurgeEndsIt == Spec => []PurgeEndsBilling
<1>1. Init => PurgeEndsBilling
  BY DEF Init, PurgeEndsBilling
<1>2. Typed /\ Bought /\ Ordered /\ PurgeEndsBilling /\ [Next]_vars => PurgeEndsBilling'
  <2> SUFFICES ASSUME Typed, Bought, Ordered, PurgeEndsBilling, [Next]_vars,
                      NEW s \in closing'
      PROVE  sub'[s].state = "canceled"
    BY DEF PurgeEndsBilling
  <2>1. CASE s \in closing
    BY <2>1, CanceledStays DEF PurgeEndsBilling, Typed
  <2>2. CASE s \notin closing
    BY <2>2, ClosingEnds
  <2> QED
    BY <2>1, <2>2
<1>3. Init => Books /\ Ordered
  BY OrderedInit
<1> QED
  BY <1>1, <1>2, <1>3, TypedInit, TypedStep, BoughtInit, BoughtStep, BooksStep, OrderedStep, PTL
     DEF Spec

=============================================================================
