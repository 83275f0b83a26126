---------------------------- MODULE Subscriptions ----------------------------
(***************************************************************************)
(* What an organisation is entitled to, as Stripe pays for it:             *)
(* assessment_platform/api.py (start_checkout, stripe_webhook, the         *)
(* cancellation in _purge_org), stripe_client.py and billing.plan_for.     *)
(*                                                                         *)
(* Stripe is the environment: customers, subscriptions and the events it   *)
(* sends about them, each at least once and in no particular order.  A     *)
(* request handler is a thread; stripe_webhook runs on the event loop of   *)
(* a process, a worker, and handles one event at a time.                   *)
(*                                                                         *)
(* Abstracted: of the statuses of a subscription, whether it entitles; the *)
(* billing period's end; signatures and redirects.  A commit of the ORM    *)
(* writes the columns that the handler changed and no other (Merge).       *)
(***************************************************************************)
EXTENDS Integers, FiniteSets

CONSTANTS
  Orgs, NoOrg,
  Subs, NoSub,            \* ids of subscriptions, each used once
  Customers, NoCustomer,  \* ids of customers, each used once
  Plans, Free,            \* the plans sold, and the one that costs nothing
  Unlisted,               \* a price that backs none of our plans
  Threads, Workers,
  MaxEvents,              \* bound on the moments at which Stripe emits events
  MaxStripe,              \* bound on those and the customers it makes, together
  MaxFaults               \* bound on lost answers and dying workers

ASSUME SubscriptionsAssumption ==
  /\ NoOrg \notin Orgs /\ NoSub \notin Subs /\ NoCustomer \notin Customers
  /\ Free \notin Plans /\ Unlisted \notin Plans \cup {Free}
  /\ MaxEvents \in Nat /\ MaxStripe \in Nat /\ MaxFaults \in Nat

VARIABLES
  live,     \* organisations with a row
  row,      \* the billing columns of Organization
  owner,    \* Stripe's customers: whom each was created for
  sub,      \* Stripe's subscriptions
  sent,     \* events not acknowledged yet
  th,       \* what each request keeps between two steps
  wk,       \* what each worker keeps between two steps
  orderly,  \* whether Stripe's events happen to come in order (see Due)
  clock,    \* how many times Stripe has emitted events
  faults,   \* history, for MaxFaults
  crowded,  \* history: organisations that had two subscriptions running at once
  closing   \* history: what ran when an organisation's purge came for it

stripe == <<owner, sub, sent, clock, crowded>>
vars == <<live, row, stripe, th, wk, orderly, faults, closing>>

-----------------------------------------------------------------------------
Organization ==
  [cust : Customers \cup {NoCustomer}, sub : Subs \cup {NoSub},
   plan : Plans \cup {Free}, status : {"entitled", "lapsed", "canceled"}]
NeverPaid ==
  [cust |-> NoCustomer, sub |-> NoSub, plan |-> Free, status |-> "entitled"]

\* plan is the last of ours that the subscription was for, price what it is for.
Subscription ==
  [state : {"unused", "checkout", "entitled", "lapsed", "canceled"},
   org : Orgs \cup {NoOrg}, cust : Customers \cup {NoCustomer},
   price : Plans \cup {Unlisted}, plan : Plans \cup {Free}]

\* at tells the order in which events were emitted.
Event ==
  [type : {"completed", "written", "deleted"}, sub : Subs,
   status : {"entitled", "lapsed", "canceled"}, price : Plans \cup {Unlisted},
   at : 0..MaxEvents]

Thread ==
  [pc : {"idle", "customer", "session", "purge"}, org : Orgs \cup {NoOrg},
   plan : Plans \cup {Free}, cust : Customers \cup {NoCustomer}]
IdleThread == [pc |-> "idle", org |-> NoOrg, plan |-> Free, cust |-> NoCustomer]

\* A worker idle, or with an event and the row it loaded for it.
Worker == [ev : SUBSET Event, org : Orgs \cup {NoOrg}, old : Organization]
IdleWorker == [ev |-> {}, org |-> NoOrg, old |-> NeverPaid]

TypeOK ==
  /\ live \subseteq Orgs
  /\ row \in [Orgs -> Organization]
  /\ owner \in [Customers -> Orgs \cup {NoOrg}]
  /\ sub \in [Subs -> Subscription]
  /\ sent \subseteq Event
  /\ th \in [Threads -> Thread]
  /\ wk \in [Workers -> Worker]
  /\ orderly \in BOOLEAN
  /\ clock \in 0..MaxEvents /\ faults \in 0..MaxFaults
  /\ crowded \subseteq Orgs /\ closing \subseteq Subs

Init ==
  /\ live = Orgs
  /\ row = [o \in Orgs |-> NeverPaid]
  /\ owner = [c \in Customers |-> NoOrg]
  /\ \E p \in Plans :
       sub = [s \in Subs |-> [state |-> "unused", org |-> NoOrg,
                              cust |-> NoCustomer, price |-> p, plan |-> Free]]
  /\ sent = {}
  /\ th = [t \in Threads |-> IdleThread]
  /\ wk = [w \in Workers |-> IdleWorker]
  /\ orderly \in BOOLEAN
  /\ clock = 0 /\ faults = 0
  /\ crowded = {} /\ closing = {}

At(t, pc) == th[t].pc = pc
Goto(t, l) == th' = [th EXCEPT ![t] = l]
Busy(w) == wk[w].ev # {}

\* plan_for: a lapsed subscription falls back to the free limits.
Entitled(r) == r.status = "entitled" /\ r.plan # Free

Running(s) == sub[s].state \in {"entitled", "lapsed"}
RunningOf(o) == {s \in Subs : Running(s) /\ sub[s].org = o}

\* plan_for_price: a price that is none of ours leaves the plan as it was.
PlanFor(price, was) == IF price = Unlisted THEN was ELSE price

\* What the commit of a handler that loaded old, and made it new, leaves of
\* a row that is now: the columns it changed, as it set them.
Column(old, new, now) == IF new # old THEN new ELSE now
Merge(old, new, now) ==
  [cust   |-> Column(old.cust, new.cust, now.cust),
   sub    |-> Column(old.sub, new.sub, now.sub),
   plan   |-> Column(old.plan, new.plan, now.plan),
   status |-> Column(old.status, new.status, now.status)]

-----------------------------------------------------------------------------
(* Checkout: an admin's request. *)

\* Stripe may do more, within the bounds.
Spare == clock + Cardinality({c \in Customers : owner[c] # NoOrg}) < MaxStripe

\* The id Stripe gives next; ids tell nothing else.
NextCustomer == CHOOSE c \in Customers : owner[c] = NoOrg
NextSub == CHOOSE s \in Subs : sub[s].state = "unused"

\* start_checkout, up to the call that makes the customer, or the session.
\* A second subscription is refused where the first is known and entitles.
BeginCheckoutWrong(t, o, p) ==
  /\ At(t, "idle") /\ o \in live
  /\ row' = [row EXCEPT ![o].plan = p]
  /\ Goto(t, [pc |-> IF row[o].cust = NoCustomer THEN "customer" ELSE "session",
              org |-> o, plan |-> p, cust |-> row[o].cust])
  /\ UNCHANGED <<live, stripe, wk, orderly, faults, closing>>
BeginCheckout(t, o, p) ==
  /\ At(t, "idle") /\ o \in live
  /\ ~ (row[o].sub # NoSub /\ row[o].status = "entitled")
  /\ Goto(t, [pc |-> IF row[o].cust = NoCustomer THEN "customer" ELSE "session",
              org |-> o, plan |-> p, cust |-> row[o].cust])
  /\ UNCHANGED <<live, row, stripe, wk, orderly, faults, closing>>

\* _stripe_customer: the customer exists from the call on; the commit fails
\* if the organisation has gone, and the request with it.
MakeCustomer(t, c) ==
  LET o == th[t].org
  IN /\ At(t, "customer") /\ owner[c] = NoOrg /\ Spare
     /\ c = NextCustomer
     /\ owner' = [owner EXCEPT ![c] = o]
     /\ IF o \in live
        THEN /\ row' = [row EXCEPT ![o].cust = c]
             /\ Goto(t, [th[t] EXCEPT !.pc = "session", !.cust = c])
        ELSE row' = row /\ Goto(t, IdleThread)
     /\ UNCHANGED <<live, sub, sent, clock, crowded, wk, orderly, faults, closing>>

\* create_checkout_session: the id the subscription will have, if it is paid.
OpenSession(t, s) ==
  /\ At(t, "session") /\ sub[s].state = "unused"
  /\ s = NextSub
  /\ sub' = [sub EXCEPT ![s] = [state |-> "checkout", org |-> th[t].org,
                                cust |-> th[t].cust, price |-> th[t].plan,
                                plan |-> th[t].plan]]
  /\ Goto(t, IdleThread)
  /\ UNCHANGED <<live, row, owner, sent, clock, crowded, wk, orderly, faults, closing>>

-----------------------------------------------------------------------------
(* Stripe. *)

Emitted(s, type, status, price) ==
  [type |-> type, sub |-> s, status |-> status, price |-> price, at |-> clock]

\* The checkout is paid: the subscription runs, and two events tell of it.
Pay(s) ==
  /\ sub[s].state = "checkout" /\ clock < MaxEvents /\ Spare
  /\ sub' = [sub EXCEPT ![s].state = "entitled"]
  /\ sent' = sent \cup {Emitted(s, type, "entitled", sub[s].price) :
                          type \in {"completed", "written"}}
  /\ clock' = clock + 1
  /\ crowded' = IF RunningOf(sub[s].org) = {} THEN crowded
                ELSE crowded \cup {sub[s].org}
  /\ UNCHANGED <<live, row, owner, th, wk, orderly, faults, closing>>

\* A card fails or recovers, or the plan is changed (in the portal, or by hand).
Change(s, status, price) ==
  /\ Running(s) /\ clock < MaxEvents /\ Spare
  /\ <<status, price>> # <<sub[s].state, sub[s].price>>
  /\ sub' = [sub EXCEPT ![s].state = status, ![s].price = price,
                        ![s].plan = PlanFor(price, @)]
  /\ sent' = sent \cup {Emitted(s, "written", status, price)}
  /\ clock' = clock + 1
  /\ UNCHANGED <<live, row, owner, crowded, th, wk, orderly, faults, closing>>

\* The subscription s ends, and an event tells of it.
Ends(s) ==
  /\ sub' = [sub EXCEPT ![s].state = "canceled"]
  /\ sent' = sent \cup {Emitted(s, "deleted", "canceled", sub[s].price)}
  /\ clock' = clock + 1
  /\ UNCHANGED <<owner, crowded>>

Cancel(s) ==
  /\ Running(s) /\ clock < MaxEvents /\ Spare
  /\ Ends(s)
  /\ UNCHANGED <<live, row, th, wk, orderly, faults, closing>>

-----------------------------------------------------------------------------
(* stripe_webhook. *)

\* _org_for_stripe: by the customer, else by the organisation's id in the
\* metadata; only what still has a row is found.
ByCustomer(s) == {o \in live : row[o].cust = sub[s].cust}
OrgFor(s) == IF ByCustomer(s) # {} THEN ByCustomer(s) ELSE live \cap {sub[s].org}

\* When events come in order, one is delivered after all that were emitted
\* before it, cancellations excepted: those may be late - and one process
\* handles them.  Otherwise, nothing is certain.
Due(w, e) ==
  orderly =>
    /\ \A v \in Workers : ~ Busy(v)
    /\ \A f \in sent : f.type # "deleted" => f.at >= e.at

\* The signed body arrives, and the row it is about is loaded.  An event about
\* nobody is acknowledged, and so never comes back.
ReceiveWrong(w, e) ==
  /\ e \in sent /\ ~ Busy(w) /\ Due(w, e)
  /\ sent' = sent \ {e}
  /\ wk' = IF OrgFor(e.sub) = {} THEN wk
           ELSE [wk EXCEPT ![w] = [ev |-> {e}, org |-> sub[e.sub].org,
                                   old |-> row[sub[e.sub].org]]]
  /\ UNCHANGED <<live, row, owner, sub, clock, crowded, th, orderly, faults, closing>>
Receive(w, e) ==
  /\ e \in sent /\ ~ Busy(w) /\ Due(w, e)
  /\ IF OrgFor(e.sub) = {}
     THEN sent' = sent \ {e} /\ wk' = wk
     ELSE /\ \E o \in OrgFor(e.sub) :
               wk' = [wk EXCEPT ![w] = [ev |-> {e}, org |-> o, old |-> row[o]]]
          /\ sent' = sent
  /\ UNCHANGED <<live, row, owner, sub, clock, crowded, th, orderly, faults, closing>>

\* What the event makes of the row: the completed checkout links the ids, a
\* created or updated subscription is mirrored - its plan if it is one of
\* ours - and a cancellation counts if it is the current one's.
Written(r, e) ==
  [r EXCEPT !.sub = e.sub, !.status = e.status,
            !.plan = PlanFor(e.price, @)]
DeletedWrong(r, e) ==
  [r EXCEPT !.plan = Free, !.status = "canceled", !.sub = NoSub]
Deleted(r, e) ==
  IF r.sub \notin {NoSub, e.sub} THEN r
  ELSE [r EXCEPT !.plan = Free, !.status = "canceled", !.sub = NoSub]
Handled(r, e) ==
  CASE e.type = "completed" -> [r EXCEPT !.cust = sub[e.sub].cust, !.sub = e.sub]
    [] e.type = "written"   -> Written(r, e)
    [] e.type = "deleted"   -> Deleted(r, e)

\* The commit, and the answer.  There is no row to update if the organisation
\* has gone: the handler fails.  An event not acknowledged comes again.
Answer(w) ==
  /\ Busy(w)
  /\ \E e \in wk[w].ev :
       LET o == wk[w].org
           old == wk[w].old
           new == Merge(old, Handled(old, e), row[o])
           fails == o \notin live /\ Handled(old, e) # old
       IN /\ row' = IF o \in live THEN [row EXCEPT ![o] = new] ELSE row
          /\ \/ ~ fails /\ sent' = sent \ {e} /\ faults' = faults
             \/ sent' = sent /\ (IF fails THEN faults' = faults
                                 ELSE faults < MaxFaults /\ faults' = faults + 1)
  /\ wk' = [wk EXCEPT ![w] = IdleWorker]
  /\ UNCHANGED <<live, owner, sub, clock, crowded, th, orderly, closing>>

\* A worker dies before it commits; a request is lost, or refused by Stripe.
Die(w) ==
  /\ Busy(w) /\ faults < MaxFaults
  /\ wk' = [wk EXCEPT ![w] = IdleWorker]
  /\ faults' = faults + 1
  /\ UNCHANGED <<live, row, stripe, th, orderly, closing>>
Drop(t) ==
  /\ ~ At(t, "idle")
  /\ Goto(t, IdleThread)
  /\ UNCHANGED <<live, row, stripe, wk, orderly, faults, closing>>

-----------------------------------------------------------------------------
(* The organisation is deleted. *)

\* Stripe has told us of everything about o.
Drained(o) ==
  /\ \A e \in sent : sub[e.sub].org # o
  /\ \A w \in Workers : wk[w].org # o

\* The cancellation in _purge_org: best effort, and before the rows go.
PurgeOrgWrong(t, o) ==
  /\ At(t, "idle") /\ o \in live
  /\ Goto(t, [IdleThread EXCEPT !.pc = "purge", !.org = o])
  /\ closing' = IF orderly /\ Drained(o) /\ o \notin crowded
                THEN closing \cup RunningOf(o) ELSE closing
  /\ UNCHANGED <<stripe, live, row, wk, orderly, faults>>
PurgeOrg(t, o) ==
  LET s == row[o].sub
      known == s # NoSub
      called == known /\ sub[s].state # "canceled"   \* else Stripe refuses
  IN /\ At(t, "idle") /\ o \in live
     /\ Goto(t, [IdleThread EXCEPT !.pc = "purge", !.org = o])
     /\ \/ /\ called /\ clock < MaxEvents /\ Spare
           /\ Ends(s)
           /\ faults' = faults
        \/ /\ called /\ faults < MaxFaults
           /\ UNCHANGED stripe
           /\ faults' = faults + 1
        \/ /\ ~ called
           /\ UNCHANGED <<stripe, faults>>
     /\ closing' = IF orderly /\ Drained(o) /\ o \notin crowded /\ faults' = faults
                   THEN closing \cup RunningOf(o) ELSE closing
     /\ UNCHANGED <<live, row, wk, orderly>>

\* ... and the deletes.
Purge(t) ==
  /\ At(t, "purge")
  /\ live' = live \ {th[t].org}
  /\ row' = [row EXCEPT ![th[t].org] = NeverPaid]
  /\ Goto(t, IdleThread)
  /\ UNCHANGED <<stripe, wk, orderly, faults, closing>>

-----------------------------------------------------------------------------
Request(t) ==
  \/ \E o \in Orgs, p \in Plans : BeginCheckout(t, o, p)
  \/ \E c \in Customers : MakeCustomer(t, c)
  \/ \E s \in Subs : OpenSession(t, s)
  \/ \E o \in Orgs : PurgeOrg(t, o)
  \/ Purge(t) \/ Drop(t)

Webhook(w) == (\E e \in sent : Receive(w, e)) \/ Answer(w)

Next ==
  \/ \E t \in Threads : Request(t)
  \/ \E w \in Workers : Webhook(w) \/ Die(w)
  \/ \E s \in Subs :
       \/ Pay(s) \/ Cancel(s)
       \/ \E status \in {"entitled", "lapsed"}, p \in Plans \cup {Unlisted} :
            Change(s, status, p)

Spec == Init /\ [][Next]_vars

\* Stripe repeats what was not acknowledged, and a handler that was not killed
\* answers; nobody else has to do anything.
FairSpec == Spec /\ \A w \in Workers : WF_vars(Webhook(w))

-----------------------------------------------------------------------------
\* The row says of o what Stripe says: entitled to the plan it pays for, by the
\* subscription that runs; to nothing when none does.
Agrees(o) ==
  /\ \A s \in RunningOf(o) :
       /\ row[o].sub = s
       /\ row[o].status = sub[s].state
       /\ row[o].plan = sub[s].plan
  /\ RunningOf(o) = {} => ~ Entitled(row[o])

\* When events come in order, late or repeated cancellations excepted, and
\* everything was delivered, the organisation is on the plan it pays for
\* (stripe_webhook) - unless it ran two subscriptions at once.
AgreesWhenDrained ==
  orderly =>
    \A o \in live \ crowded : Drained(o) => Agrees(o)

\* A paid plan, a customer and a subscription on a row are the organisation's
\* own, and were paid for at some time, whatever Stripe's events do
\* (_org_for_stripe, start_checkout: the redirect proves nothing).
Evidenced ==
  \A o \in live :
    /\ row[o].cust # NoCustomer => owner[row[o].cust] = o
    /\ row[o].sub # NoSub =>
         sub[row[o].sub].org = o /\ sub[row[o].sub].state \notin {"unused", "checkout"}
    /\ row[o].plan # Free =>
         \E s \in Subs : sub[s].org = o /\ sub[s].state \notin {"unused", "checkout"}

\* Deleting an organisation ends the subscription it ran (_purge_org), where
\* the events about it had been handled and Stripe did not fail the call.
PurgeEndsBilling ==
  \A s \in closing : sub[s].state = "canceled"

\* What is paid for is served, and what has ended is not, in the end.
CatchesUp ==
  \A o \in Orgs : []<>(orderly /\ o \in live \ crowded => Agrees(o))

=============================================================================
