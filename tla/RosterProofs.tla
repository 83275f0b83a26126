---------------------------- MODULE RosterProofs ----------------------------
(***************************************************************************)
(* Proofs about Roster, for every number of people, organisations,         *)
(* invitations, requests and overlapping handlers.                         *)
(***************************************************************************)
EXTENDS Roster, TLAPS, FiniteSetTheorems

-----------------------------------------------------------------------------
(* Types. *)

\* What a handler has loaded by the time it is at a given step.
Fit(l) ==
  /\ l \in Thread
  /\ l.pc \notin {"idle", "revoke"} => l.who \in People
  /\ l.pc \in {"promote", "demote", "remove", "invite"} => l.org \in Orgs
  /\ l.pc \in {"revoke", "leave", "join"} => l.inv \in Invites

TypeInv ==
  /\ TypeOK
  /\ \A t \in Threads : Fit(th[t])
  /\ \A i \in Invites : Stored(i) => invite[i].org \in Orgs

LEMMA IdleFit == Fit(Idle)
BY DEF Fit, Idle, Thread, Roles

LEMMA GotoFit ==
  ASSUME TypeInv, NEW t \in Threads, NEW l, Fit(l), Goto(t, l)
  PROVE  th' \in [Threads -> Thread] /\ \A u \in Threads : Fit(th'[u])
BY DEF TypeInv, TypeOK, Goto, Fit

LEMMA PurgedType ==
  ASSUME TypeInv, NEW o
  PROVE  /\ Purged(o) \in [People -> Membership]
         /\ PurgedInvites(o) \in [Invites -> OrgInvite]
         /\ \A i \in Invites : PurgedInvites(o)[i].org = invite[i].org
         /\ \A i \in Invites : PurgedInvites(o)[i].state = "unused" <=> invite[i].state = "unused"
         /\ \A i \in Invites : PurgedInvites(o)[i].state \in {"open", "expired", "accepted"} =>
              Stored(i) /\ invite[i].org # o
         /\ PurgedOrg(o) \in [Orgs -> {"new", "live", "purged"}]
<1>1. NoSeat \in Membership
  BY DEF NoSeat, Membership, Roles
<1>2. Purged(o) \in [People -> Membership]
  BY <1>1 DEF Purged, TypeInv, TypeOK
<1>3. \A i \in Invites : invite[i] \in OrgInvite
  BY DEF TypeInv, TypeOK
<1>4. \A i \in Invites : [invite[i] EXCEPT !.state = "gone"] \in OrgInvite
  BY <1>3 DEF OrgInvite
<1>5. PurgedInvites(o) \in [Invites -> OrgInvite]
  BY <1>3, <1>4 DEF PurgedInvites
<1>6. \A i \in Invites : /\ PurgedInvites(o)[i].org = invite[i].org
                         /\ PurgedInvites(o)[i].state = "unused" <=> invite[i].state = "unused"
                         /\ PurgedInvites(o)[i].state \in {"open", "expired", "accepted"} =>
                              Stored(i) /\ invite[i].org # o
  BY <1>3 DEF PurgedInvites, OrgInvite, Stored
<1>7. PurgedOrg(o) \in [Orgs -> {"new", "live", "purged"}]
  BY DEF PurgedOrg, TypeInv, TypeOK
<1> QED
  BY <1>2, <1>5, <1>6, <1>7

LEMMA SeatFromType ==
  ASSUME TypeInv, NEW i \in Invites
  PROVE  SeatFrom(i) \in Membership
BY DEF SeatFrom, Membership, TypeInv, TypeOK, OrgInvite

LEMMA TypeInit == Init => TypeInv
<1> SUFFICES ASSUME Init PROVE TypeInv
  OBVIOUS
<1>1. PICK p \in People, o \in Orgs, l \in Limits :
        /\ accounts = {p}
        /\ member = [q \in People |->
                       IF q = p THEN [org |-> o, role |-> "admin", via |-> NoInvite]
                       ELSE NoSeat]
        /\ org = [x \in Orgs |-> IF x = o THEN "live" ELSE "new"]
        /\ work \in SUBSET {o}
        /\ limit = [x \in Orgs |-> l]
        /\ best = limit
        /\ invite = [i \in Invites |-> Unused]
        /\ th = [t \in Threads |-> Idle]
        /\ apart \in {{}, Reducing, Admitting, Reducing \cup Admitting}
        /\ unsettled = {}
        /\ requests = 0
  BY DEF Init
<1>2. th \in [Threads -> Thread] /\ \A t \in Threads : Fit(th[t])
  BY <1>1, IdleFit DEF Fit
<1>3. member \in [People -> Membership]
  BY <1>1 DEF NoSeat, Membership, Roles
<1>4. Unused \in OrgInvite /\ Unused.state = "unused"
  BY DEF Unused, OrgInvite, Roles
<1>5. invite \in [Invites -> OrgInvite] /\ \A i \in Invites : invite[i].state = "unused"
  BY <1>1, <1>4
<1>6. /\ accounts \subseteq People /\ org \in [Orgs -> {"new", "live", "purged"}]
      /\ work \subseteq Orgs /\ limit \in [Orgs -> Limits] /\ best \in [Orgs -> Limits]
      /\ requests \in Nat
  BY <1>1
<1>7. apart \subseteq Reducing \cup Admitting
  BY <1>1
<1> QED
  BY <1>1, <1>2, <1>3, <1>5, <1>6, <1>7 DEF TypeInv, TypeOK, Stored

\* What Found does.
LEMMA FoundType ==
  ASSUME TypeInv, NEW p \in People, Found(p)
  PROVE  /\ member' \in [People -> Membership]
         /\ org' \in [Orgs -> {"new", "live", "purged"}]
<1>1. PICK o \in Orgs :
        /\ org' = [org EXCEPT ![o] = "live"]
        /\ member' = [member EXCEPT ![p] = [org |-> o, role |-> "admin", via |-> NoInvite]]
  BY DEF Found
<1>2. [org |-> o, role |-> "admin", via |-> NoInvite] \in Membership
  BY DEF Membership, Roles
<1> QED
  BY <1>1, <1>2 DEF TypeInv, TypeOK

LEMMA TypeStep == TypeInv /\ [Next]_vars => TypeInv'
<1> SUFFICES ASSUME TypeInv, [Next]_vars PROVE TypeInv'
  OBVIOUS
<1> USE DEF plan
<1>u. unsettled' \subseteq Orgs
  <2>1. CASE Note
    BY <2>1 DEF Note
  <2>2. CASE UNCHANGED vars
    BY <2>2 DEF vars, TypeInv, TypeOK
  <2> QED
    BY <2>1, <2>2 DEF Next
<1>t. \A t \in Threads : th[t] \in Thread /\ Fit(th[t])
  BY DEF TypeInv, TypeOK
<1>m. \A p \in People : member[p] \in Membership /\ member[p].org \in Orgs \cup {NoOrg}
                          /\ member[p].via \in Invites \cup {NoInvite}
  BY DEF TypeInv, TypeOK, Membership
<1>i. \A i \in Invites : invite[i] \in OrgInvite /\ invite[i].org \in Orgs \cup {NoOrg}
                          /\ invite[i].role \in Roles
  BY DEF TypeInv, TypeOK, OrgInvite
\* A request begins.
<1>go. ASSUME NEW t \in Threads, NEW l, Fit(l), Begin(t, l),
              UNCHANGED <<accounts, member, org, work, plan, invite, apart>>
       PROVE  TypeInv'
  <2>1. th' \in [Threads -> Thread] /\ \A u \in Threads : Fit(th'[u])
    BY <1>go, GotoFit DEF Begin
  <2>2. requests' \in Nat
    BY <1>go DEF Begin, TypeInv, TypeOK
  <2> QED
    BY <1>u, <1>go, <2>1, <2>2 DEF TypeInv, TypeOK, Stored
\* A handler has committed, or failed to.
<1>end. ASSUME NEW t \in Threads, Goto(t, Idle), UNCHANGED <<limit, best, apart, requests>>,
               accounts' \subseteq People, member' \in [People -> Membership],
               org' \in [Orgs -> {"new", "live", "purged"}], work' \subseteq Orgs,
               invite' \in [Invites -> OrgInvite],
               \A i \in Invites : Stored(i)' => invite'[i].org \in Orgs
        PROVE  TypeInv'
  <2>1. th' \in [Threads -> Thread] /\ \A u \in Threads : Fit(th'[u])
    BY <1>end, IdleFit, GotoFit
  <2> QED
    BY <1>u, <1>end, <2>1 DEF TypeInv, TypeOK
<1>same. /\ accounts \subseteq People /\ member \in [People -> Membership]
         /\ org \in [Orgs -> {"new", "live", "purged"}] /\ work \subseteq Orgs
         /\ invite \in [Invites -> OrgInvite]
         /\ \A i \in Invites : Stored(i) => invite[i].org \in Orgs
  BY DEF TypeInv, TypeOK
<1>1. ASSUME NEW t \in Threads, NEW a \in People, NEW p \in People, NEW r \in Roles,
             UpdateMemberRole(t, a, p, r)
      PROVE  TypeInv'
  <2>1. member[p].org \in Orgs
    BY <1>1, <1>m DEF UpdateMemberRole, IsAdmin
  <2>2. Fit([Idle EXCEPT !.pc = IF r = "admin" THEN "promote" ELSE "demote",
                         !.who = p, !.org = member[p].org, !.inv = member[p].via,
                         !.role = r])
    BY <1>m, <2>1 DEF Fit, Idle, Thread
  <2> QED
    BY <1>1, <1>go, <2>2 DEF UpdateMemberRole
<1>2. ASSUME NEW t \in Threads, NEW a \in People, NEW p \in People, RemoveMember(t, a, p)
      PROVE  TypeInv'
  <2>1. member[p].org \in Orgs
    BY <1>2, <1>m DEF RemoveMember, IsAdmin
  <2>2. Fit([Idle EXCEPT !.pc = "remove", !.who = p,
                         !.org = member[p].org, !.inv = member[p].via])
    BY <1>m, <2>1 DEF Fit, Idle, Thread, Roles
  <2> QED
    BY <1>2, <1>go, <2>2 DEF RemoveMember
<1>3. ASSUME NEW t \in Threads, NEW a \in People, NEW p \in People, NEW r \in Roles,
             CreateOrgInvite(t, a, p, r)
      PROVE  TypeInv'
  <2>1. member[a].org \in Orgs
    BY <1>3, <1>m DEF CreateOrgInvite, IsAdmin
  <2>2. Replaced(member[a].org, p) \subseteq Invites
    BY DEF Replaced
  <2>3. Fit([Idle EXCEPT !.pc = "invite", !.who = p, !.org = member[a].org,
                         !.role = r, !.doomed = Replaced(member[a].org, p)])
    BY <2>1, <2>2 DEF Fit, Idle, Thread
  <2> QED
    BY <1>3, <1>go, <2>3 DEF CreateOrgInvite
<1>4. ASSUME NEW t \in Threads, NEW p \in People, NEW i \in Invites,
             RevokeOrgInvite(t, p, i)
      PROVE  TypeInv'
  <2>1. Fit([Idle EXCEPT !.pc = "revoke", !.inv = i])
    BY DEF Fit, Idle, Thread, Roles
  <2> QED
    BY <1>4, <1>go, <2>1 DEF RevokeOrgInvite
<1>5. ASSUME NEW t \in Threads, NEW p \in People, NEW i \in Invites,
             AcceptOrgInvite(t, p, i)
      PROVE  TypeInv'
  <2>1. Fit([Idle EXCEPT !.pc = IF member[p].org = NoOrg THEN "join" ELSE "leave",
                         !.who = p, !.org = invite[i].org,
                         !.old = member[p].org, !.inv = i])
    BY <1>m, <1>i DEF Fit, Idle, Thread, Roles
  <2> QED
    BY <1>5, <1>go, <2>1 DEF AcceptOrgInvite
<1>6. ASSUME NEW t \in Threads, NEW p \in People, NEW i \in Invites \cup {NoInvite},
             Register(t, p, i)
      PROVE  TypeInv'
  <2>1. Fit([Idle EXCEPT !.pc = "register", !.who = p, !.inv = i])
    BY DEF Fit, Idle, Thread, Roles
  <2> QED
    BY <1>6, <1>go, <2>1 DEF Register
<1>7. ASSUME NEW t \in Threads, NEW p \in People, CreateOrg(t, p) PROVE TypeInv'
  <2>1. Fit([Idle EXCEPT !.pc = "found", !.who = p])
    BY DEF Fit, Idle, Thread, Roles
  <2> QED
    BY <1>7, <1>go, <2>1 DEF CreateOrg
<1>8. ASSUME NEW t \in Threads, NEW p \in People, DeleteMe(t, p) PROVE TypeInv'
  <2>1. \A o \in Orgs \cup {NoOrg} :
          Fit([Idle EXCEPT !.pc = "quit", !.who = p, !.old = o])
    BY DEF Fit, Idle, Thread, Roles
  <2> QED
    BY <1>8, <1>m, <1>go, <2>1 DEF DeleteMe
<1>9. ASSUME NEW t \in Threads, SetRole(t) PROVE TypeInv'
  <2> DEFINE l == th[t]
  <2>1. l.who \in People /\ l.role \in Roles
    BY <1>9, <1>t DEF SetRole, Fit, Thread
  <2>2. [member[l.who] EXCEPT !.role = l.role] \in Membership
    BY <1>m, <2>1 DEF Membership
  <2>3. [member EXCEPT ![l.who].role = l.role]
          = [member EXCEPT ![l.who] = [member[l.who] EXCEPT !.role = l.role]]
    BY <1>same, <2>1
  <2>4. member' \in [People -> Membership]
    BY <1>9, <1>same, <2>1, <2>2, <2>3 DEF SetRole
  <2> QED
    BY <1>9, <1>end, <1>same, <2>4 DEF SetRole, Stored
<1>10. ASSUME NEW t \in Threads, Remove(t) PROVE TypeInv'
  <2>1. NoSeat \in Membership
    BY DEF NoSeat, Membership, Roles
  <2>2. member' \in [People -> Membership]
    BY <1>10, <1>same, <2>1 DEF Remove
  <2> QED
    BY <1>10, <1>end, <1>same, <2>2 DEF Remove, Stored
<1>11. ASSUME NEW t \in Threads, Invite(t) PROVE TypeInv'
  <2> DEFINE l == th[t]
             new == [org |-> l.org, email |-> l.who, role |-> l.role, state |-> "open"]
  <2>1. l.who \in People /\ l.org \in Orgs /\ l.role \in Roles
    BY <1>11, <1>t DEF Invite, At, Fit, Thread
  <2>2. new \in OrgInvite
    BY <2>1 DEF OrgInvite
  <2>3. \A i \in Invites : [invite[i] EXCEPT !.state = "gone"] \in OrgInvite
    BY <1>i DEF OrgInvite
  <2>4. CASE UNCHANGED invite
    BY <1>11, <1>end, <1>same, <2>4 DEF Invite, Stored
  <2>5. ASSUME NEW i \in Invites,
               invite' = [j \in Invites |->
                    CASE j = i -> new
                      [] j \in l.doomed -> [invite[j] EXCEPT !.state = "gone"]
                      [] OTHER -> invite[j]]
        PROVE  TypeInv'
    <3>1. \A j \in Invites : \/ j = i /\ invite'[j] = new
                             \/ invite'[j] = [invite[j] EXCEPT !.state = "gone"]
                             \/ invite'[j] = invite[j]
      BY <2>5
    <3>2. invite' \in [Invites -> OrgInvite]
      <4>1. \A j \in Invites : invite'[j] \in OrgInvite
        BY <1>i, <2>2, <2>3, <3>1
      <4>2. invite' = [j \in Invites |-> invite'[j]]
        BY <2>5
      <4> QED
        BY <4>1, <4>2
    <3>3. \A j \in Invites : Stored(j)' => invite'[j].org \in Orgs
      <4> SUFFICES ASSUME NEW j \in Invites, Stored(j)' PROVE invite'[j].org \in Orgs
        OBVIOUS
      <4>1. [invite[j] EXCEPT !.state = "gone"].state = "gone"
        BY <1>i DEF OrgInvite
      <4>2. new.org \in Orgs
        BY <2>1
      <4>3. CASE j = i /\ invite'[j] = new
        BY <4>2, <4>3
      <4>4. CASE invite'[j] = [invite[j] EXCEPT !.state = "gone"]
        BY <4>1, <4>4 DEF Stored
      <4>5. CASE invite'[j] = invite[j]
        BY <1>same, <4>5 DEF Stored
      <4> QED
        BY <3>1, <4>3, <4>4, <4>5
    <3> QED
      BY <1>11, <1>end, <1>same, <3>2, <3>3 DEF Invite
  <2> QED
    BY <1>11, <2>4, <2>5 DEF Invite
<1>12. ASSUME NEW t \in Threads, Revoke(t) PROVE TypeInv'
  <2> DEFINE l == th[t]
             gone == [invite[l.inv] EXCEPT !.state = "gone"]
  <2>1. l.inv \in Invites
    BY <1>12, <1>t DEF Revoke, At, Fit
  <2>2. gone \in OrgInvite /\ gone.state = "gone"
    BY <1>i, <2>1 DEF OrgInvite
  <2>3. invite' = [invite EXCEPT ![l.inv] = gone]
    BY <1>12, <1>same DEF Revoke
  <2> HIDE DEF gone
  <2>4. invite' \in [Invites -> OrgInvite]
    BY <1>same, <2>1, <2>2, <2>3
  <2>5. \A i \in Invites : Stored(i)' => invite'[i].org \in Orgs
    BY <1>same, <2>1, <2>2, <2>3 DEF Stored
  <2> QED
    BY <1>12, <1>end, <1>same, <2>4, <2>5 DEF Revoke
<1>13. ASSUME NEW t \in Threads, LeaveEmptyOrg(t) PROVE TypeInv'
  <2>1. Fit([th[t] EXCEPT !.pc = "join"])
    BY <1>13, <1>t DEF LeaveEmptyOrg, At, Fit, Thread
  <2>2. th' \in [Threads -> Thread] /\ \A u \in Threads : Fit(th'[u])
    BY <1>13, <2>1, IdleFit, GotoFit DEF LeaveEmptyOrg
  <2> QED
    BY <1>u, <1>13, <2>2 DEF LeaveEmptyOrg, TypeInv, TypeOK, Stored
<1>14. ASSUME NEW t \in Threads, Join(t) PROVE TypeInv'
  <2> DEFINE l == th[t]
  <2>1. l.who \in People /\ l.inv \in Invites
    BY <1>14, <1>t DEF Join, At, Fit
  <2>2. CASE UNCHANGED <<member, invite, org, work>>
    BY <1>14, <1>end, <1>same, <2>2 DEF Join, Stored
  <2>3. CASE /\ member' = [Purged(l.old) EXCEPT ![l.who] = SeatFrom(l.inv)]
             /\ invite' = [PurgedInvites(l.old) EXCEPT ![l.inv].state = "accepted"]
             /\ org' = PurgedOrg(l.old)
             /\ work' = work \ {l.old}
             /\ Joinable(l.inv)
    <3> DEFINE inv == PurgedInvites(l.old)
               row == [inv[l.inv] EXCEPT !.state = "accepted"]
    <3>1. member' \in [People -> Membership]
      BY <2>1, <2>3, PurgedType, SeatFromType
    <3>2. inv \in [Invites -> OrgInvite] /\ inv[l.inv].org = invite[l.inv].org
      BY <2>1, PurgedType
    <3>3. invite[l.inv].org \in Orgs
      BY <1>same, <2>1, <2>3 DEF Joinable
    <3>a. \A i \in Invites : inv[i].state \in {"open", "expired", "accepted"} =>
                               inv[i].org \in Orgs
      BY <1>same, PurgedType
    <3>4. invite' = [inv EXCEPT ![l.inv] = row]
      BY <2>3, <3>2
    <3> HIDE DEF inv
    <3>5. row \in OrgInvite /\ row.org \in Orgs
      BY <2>1, <3>2, <3>3 DEF OrgInvite
    <3> HIDE DEF row
    <3>6. invite' \in [Invites -> OrgInvite]
      BY <2>1, <3>2, <3>4, <3>5
    <3>7. \A i \in Invites : Stored(i)' => invite'[i].org \in Orgs
      BY <2>1, <3>2, <3>4, <3>5, <3>a DEF Stored
    <3>8. org' \in [Orgs -> {"new", "live", "purged"}] /\ work' \subseteq Orgs
      BY <1>same, <2>3, PurgedType
    <3> QED
      BY <1>14, <1>end, <1>same, <3>1, <3>6, <3>7, <3>8 DEF Join
  <2> QED
    BY <1>14, <2>2, <2>3 DEF Join
<1>15. ASSUME NEW t \in Threads, Enrol(t) PROVE TypeInv'
  <2> DEFINE l == th[t]
  <2>1. l.who \in People /\ l.inv \in Invites \cup {NoInvite}
    BY <1>15, <1>t DEF Enrol, At, Fit, Thread
  <2>2. CASE UNCHANGED <<accounts, member, invite, org>>
    BY <1>15, <1>end, <1>same, <2>2 DEF Enrol, Stored
  <2>3. CASE accounts' = accounts \cup {l.who} /\ l.inv = NoInvite /\ Found(l.who)
    <3>1. UNCHANGED invite
      BY <2>3 DEF Found
    <3>2. member' \in [People -> Membership] /\ org' \in [Orgs -> {"new", "live", "purged"}]
      BY <2>1, <2>3, FoundType
    <3> QED
      BY <1>15, <1>end, <1>same, <2>1, <2>3, <3>1, <3>2 DEF Enrol, Stored
  <2>4. CASE /\ accounts' = accounts \cup {l.who} /\ l.inv # NoInvite /\ Joinable(l.inv)
             /\ member' = [member EXCEPT ![l.who] = SeatFrom(l.inv)]
             /\ invite' = [invite EXCEPT ![l.inv].state = "accepted"]
             /\ UNCHANGED org
    <3> DEFINE row == [invite[l.inv] EXCEPT !.state = "accepted"]
    <3>1. l.inv \in Invites
      BY <2>1, <2>4
    <3>2. member' \in [People -> Membership]
      BY <1>same, <2>1, <2>4, <3>1, SeatFromType
    <3>3. row \in OrgInvite /\ row.org \in Orgs
      BY <1>i, <1>same, <2>4, <3>1 DEF OrgInvite, Joinable
    <3>4. invite' = [invite EXCEPT ![l.inv] = row]
      BY <1>same, <2>4, <3>1
    <3> HIDE DEF row
    <3>5. invite' \in [Invites -> OrgInvite]
      BY <1>same, <3>1, <3>3, <3>4
    <3>6. \A i \in Invites : Stored(i)' => invite'[i].org \in Orgs
      BY <1>same, <3>1, <3>3, <3>4 DEF Stored
    <3> QED
      BY <1>15, <1>end, <1>same, <2>1, <2>4, <3>2, <3>5, <3>6 DEF Enrol
  <2> QED
    BY <1>15, <2>2, <2>3, <2>4 DEF Enrol
<1>16. ASSUME NEW t \in Threads, FoundOrg(t) PROVE TypeInv'
  <2>1. th[t].who \in People
    BY <1>16, <1>t DEF FoundOrg, At, Fit
  <2>2. CASE Found(th[t].who)
    <3>1. UNCHANGED invite
      BY <2>2 DEF Found
    <3>2. member' \in [People -> Membership] /\ org' \in [Orgs -> {"new", "live", "purged"}]
      BY <2>1, <2>2, FoundType
    <3> QED
      BY <1>16, <1>end, <1>same, <3>1, <3>2 DEF FoundOrg, Stored
  <2>3. CASE UNCHANGED <<member, org, invite>>
    BY <1>16, <1>end, <1>same, <2>3 DEF FoundOrg, Stored
  <2> QED
    BY <1>16, <2>2, <2>3 DEF FoundOrg
<1>17. ASSUME NEW t \in Threads, Quit(t) PROVE TypeInv'
  <2> DEFINE l == th[t]
  <2>1. NoSeat \in Membership
    BY DEF NoSeat, Membership, Roles
  <2>2. CASE UNCHANGED <<accounts, member, org, work, invite>>
    BY <1>17, <1>end, <1>same, <2>2 DEF Quit, Stored
  <2>3. CASE /\ accounts' = accounts \ {l.who}
             /\ member' = [member EXCEPT ![l.who] = NoSeat]
             /\ UNCHANGED <<org, work, invite>>
    <3>1. member' \in [People -> Membership] /\ accounts' \subseteq People
      BY <1>same, <2>1, <2>3
    <3> QED
      BY <1>17, <1>end, <1>same, <2>3, <3>1 DEF Quit, Stored
  <2>4. CASE /\ accounts' = accounts \ {l.who}
             /\ member' = Purged(l.old)
             /\ invite' = PurgedInvites(l.old)
             /\ org' = PurgedOrg(l.old)
             /\ work' = work \ {l.old}
    <3>1. /\ member' \in [People -> Membership] /\ invite' \in [Invites -> OrgInvite]
          /\ org' \in [Orgs -> {"new", "live", "purged"}]
          /\ accounts' \subseteq People /\ work' \subseteq Orgs
      BY <1>same, <2>4, PurgedType
    <3>2. \A i \in Invites : Stored(i)' => invite'[i].org \in Orgs
      BY <1>same, <2>4, PurgedType DEF Stored
    <3> QED
      BY <1>17, <1>end, <3>1, <3>2 DEF Quit
  <2> QED
    BY <1>17, <2>2, <2>3, <2>4 DEF Quit
<1>18. ASSUME NEW o \in Orgs, Author(o) PROVE TypeInv'
  <2>1. work' \subseteq Orgs
    BY <1>18, <1>same DEF Author
  <2> QED
    BY <1>u, <1>18, <2>1 DEF Author, TypeInv, TypeOK, Stored
<1>19. ASSUME NEW o \in Orgs, NEW l \in Limits, ChangePlan(o, l) PROVE TypeInv'
  <2>1. limit' \in [Orgs -> Limits] /\ best' \in [Orgs -> Limits]
    BY <1>19 DEF ChangePlan, TypeInv, TypeOK
  <2> QED
    BY <1>u, <1>19, <2>1 DEF ChangePlan, TypeInv, TypeOK, Stored
<1>20. ASSUME NEW i \in Invites, Expire(i) PROVE TypeInv'
  <2> DEFINE row == [invite[i] EXCEPT !.state = "expired"]
  <2>1. row \in OrgInvite /\ row.org = invite[i].org
    BY <1>i DEF OrgInvite
  <2>2. invite' = [invite EXCEPT ![i] = row]
    BY <1>20, <1>same DEF Expire
  <2>3. Stored(i)
    BY <1>20 DEF Expire, Stored
  <2> HIDE DEF row
  <2>4. invite' \in [Invites -> OrgInvite]
    BY <1>same, <2>1, <2>2
  <2>5. \A j \in Invites : Stored(j)' => invite'[j].org \in Orgs
    BY <1>same, <2>1, <2>2, <2>3 DEF Stored
  <2> QED
    BY <1>u, <1>20, <2>4, <2>5 DEF Expire, TypeInv, TypeOK
<1>21. ASSUME NEW t \in Threads, Crash(t) PROVE TypeInv'
  BY <1>21, <1>end, <1>same DEF Crash, Stored
<1>22. ASSUME UNCHANGED vars PROVE TypeInv'
  BY <1>22 DEF vars, TypeInv, TypeOK, Stored
<1> QED
  BY <1>1, <1>2, <1>3, <1>4, <1>5, <1>6, <1>7, <1>8, <1>9, <1>10, <1>11, <1>12,
     <1>13, <1>14, <1>15, <1>16, <1>17, <1>18, <1>19, <1>20, <1>21, <1>22
  DEF Next, Act, Ask, Step

\* Every reachable state is well typed.
THEOREM TypeCorrect == Spec => []TypeOK
<1>1. Spec => []TypeInv
  BY TypeInit, TypeStep, PTL DEF Spec
<1>2. TypeInv => TypeOK
  BY DEF TypeInv
<1> QED
  BY <1>1, <1>2, PTL

-----------------------------------------------------------------------------
(* Nothing dangles. *)

\* The invitation a handler holds may be taken up or deleted meanwhile, but
\* not reused, and it is to another organisation than the one left for it.
Aimed(rows, l) ==
  /\ l.pc \in {"revoke", "leave", "join"} => rows[l.inv].state # "unused"
  /\ l.pc \in {"leave", "join"} => rows[l.inv].org # l.old

LinkInv ==
  /\ TypeInv
  /\ NothingDangles
  /\ \A t \in Threads : Aimed(invite, th[t])

\* An invitation that was sent stays sent, and to the same organisation.
SentStays ==
  \A i \in Invites : invite[i].state # "unused" =>
    invite'[i].state # "unused" /\ invite'[i].org = invite[i].org

LEMMA AimedStays ==
  ASSUME TypeInv, NEW l, Fit(l), Aimed(invite, l), SentStays
  PROVE  Aimed(invite', l)
BY DEF Aimed, SentStays, Fit

LEMMA StateOnly ==
  ASSUME TypeInv, NEW i \in Invites, NEW s,
         invite[i].state # "unused", s # "unused",
         invite' = [invite EXCEPT ![i].state = s]
  PROVE  /\ SentStays
         /\ \A j \in Invites : invite'[j].org = invite[j].org
         /\ \A j \in Invites : j # i => invite'[j].state = invite[j].state
         /\ invite'[i].state = s
BY DEF TypeInv, TypeOK, OrgInvite, SentStays

LEMMA PurgeLinks ==
  ASSUME TypeInv, NothingDangles, NEW o
  PROVE  /\ \A p \in People : Purged(o)[p].org # NoOrg =>
              Purged(o)[p] = member[p] /\ p \in accounts /\ PurgedOrg(o)[member[p].org] = "live"
         /\ \A p \in People : member[p].org \in {NoOrg, o} => Purged(o)[p].org = NoOrg
         /\ \A i \in Invites : PurgedInvites(o)[i].state \in {"open", "expired", "accepted"} =>
              PurgedOrg(o)[PurgedInvites(o)[i].org] = "live"
         /\ \A x \in work \ {o} : PurgedOrg(o)[x] = "live"
         /\ \A x \in Orgs : x # o => PurgedOrg(o)[x] = org[x]
<1>1. \A x \in Orgs : x # o => PurgedOrg(o)[x] = org[x]
  BY DEF PurgedOrg
<1>2. NoSeat.org = NoOrg
  BY DEF NoSeat
<1>3. \A p \in People : Purged(o)[p] = IF member[p].org = o THEN NoSeat ELSE member[p]
  BY DEF Purged
<1>4. \A p \in People : member[p].org \in Orgs \cup {NoOrg}
  BY DEF TypeInv, TypeOK, Membership
<1>5. \A p \in People : Purged(o)[p].org # NoOrg =>
        Purged(o)[p] = member[p] /\ p \in accounts /\ PurgedOrg(o)[member[p].org] = "live"
  BY <1>1, <1>2, <1>3, <1>4 DEF NothingDangles
<1>6. \A p \in People : member[p].org \in {NoOrg, o} => Purged(o)[p].org = NoOrg
  BY <1>2, <1>3
<1>7. \A i \in Invites : PurgedInvites(o)[i].state \in {"open", "expired", "accepted"} =>
        PurgedOrg(o)[PurgedInvites(o)[i].org] = "live"
  BY <1>1, PurgedType DEF TypeInv, NothingDangles
<1>8. \A x \in work \ {o} : PurgedOrg(o)[x] = "live"
  BY <1>1 DEF TypeInv, TypeOK, NothingDangles
<1> QED
  BY <1>1, <1>5, <1>6, <1>7, <1>8

LEMMA FoundLinks ==
  ASSUME TypeInv, NothingDangles, NEW p \in People, Found(p), p \in accounts',
         accounts \subseteq accounts', UNCHANGED work
  PROVE  NothingDangles' /\ SentStays
<1>1. PICK o \in Orgs :
        /\ org[o] = "new"
        /\ org' = [org EXCEPT ![o] = "live"]
        /\ member' = [member EXCEPT ![p] = [org |-> o, role |-> "admin", via |-> NoInvite]]
        /\ UNCHANGED invite
  BY DEF Found
<1>2. org'[o] = "live" /\ \A x \in Orgs : org[x] = "live" => org'[x] = "live"
  BY <1>1 DEF TypeInv, TypeOK
<1>3. \A q \in People : \/ q = p /\ member'[q].org = o
                        \/ member'[q] = member[q]
  BY <1>1 DEF TypeInv, TypeOK
<1>4. \A q \in People : member[q].org \in Orgs \cup {NoOrg}
  BY DEF TypeInv, TypeOK, Membership
<1>5. \A q \in People : member'[q].org # NoOrg => q \in accounts' /\ org'[member'[q].org] = "live"
  BY <1>2, <1>3, <1>4 DEF NothingDangles
<1>6. \A i \in Invites : Stored(i)' => org'[invite'[i].org] = "live"
  BY <1>1, <1>2 DEF NothingDangles, TypeInv, Stored
<1>7. \A x \in work' : org'[x] = "live"
  BY <1>2 DEF NothingDangles, TypeInv, TypeOK
<1>8. SentStays
  BY <1>1 DEF SentStays
<1> QED
  BY <1>5, <1>6, <1>7, <1>8 DEF NothingDangles

LEMMA LinkInit == Init => LinkInv
<1> SUFFICES ASSUME Init PROVE LinkInv
  OBVIOUS
<1>1. PICK p \in People, o \in Orgs :
        /\ accounts = {p}
        /\ member = [q \in People |->
                       IF q = p THEN [org |-> o, role |-> "admin", via |-> NoInvite]
                       ELSE NoSeat]
        /\ org = [x \in Orgs |-> IF x = o THEN "live" ELSE "new"]
        /\ work \in SUBSET {o}
        /\ invite = [i \in Invites |-> Unused]
        /\ th = [t \in Threads |-> Idle]
  BY DEF Init
<1>2. \A q \in People : member[q].org # NoOrg => q = p /\ member[q].org = o
  BY <1>1 DEF NoSeat
<1>3. org[o] = "live"
  BY <1>1
<1>4. \A i \in Invites : ~ Stored(i)
  BY <1>1 DEF Stored, Unused
<1>5. NothingDangles
  BY <1>1, <1>2, <1>3, <1>4 DEF NothingDangles
<1>6. \A t \in Threads : Aimed(invite, th[t])
  BY <1>1 DEF Aimed, Idle
<1> QED
  BY <1>5, <1>6, TypeInit DEF LinkInv

LEMMA LinkStep == LinkInv /\ [Next]_vars => LinkInv'
<1> SUFFICES ASSUME LinkInv, [Next]_vars PROVE LinkInv'
  OBVIOUS
<1> USE DEF plan
<1>inv. TypeInv /\ NothingDangles /\ \A t \in Threads : Fit(th[t]) /\ Aimed(invite, th[t])
  BY DEF LinkInv, TypeInv
<1>type. TypeInv'
  BY <1>inv, TypeStep
<1>m. /\ member \in [People -> Membership]
      /\ \A p \in People : member[p] \in Membership
      /\ \A p \in People : member[p].org \in Orgs \cup {NoOrg}
  BY <1>inv DEF TypeInv, TypeOK, Membership
<1>i. /\ invite \in [Invites -> OrgInvite]
      /\ \A i \in Invites : invite[i] \in OrgInvite
      /\ \A i \in Invites : Stored(i) => invite[i].org \in Orgs
  BY <1>inv DEF TypeInv, TypeOK
\* What is left to show of a step of one handler, and of any other step.
<1>go. ASSUME NEW t \in Threads, NEW l, Goto(t, l), Aimed(invite', l), SentStays, NothingDangles'
       PROVE  LinkInv'
  <2>1. \A u \in Threads : th'[u] = IF u = t THEN l ELSE th[u]
    BY <1>go, <1>inv DEF Goto, TypeInv, TypeOK
  <2> QED
    BY <1>go, <1>inv, <1>type, <2>1 DEF LinkInv, Aimed, SentStays, Fit
<1>rest. ASSUME UNCHANGED th, SentStays, NothingDangles' PROVE LinkInv'
  BY <1>rest, <1>inv, <1>type DEF LinkInv, Aimed, SentStays, Fit
<1>begin. ASSUME NEW t \in Threads, NEW l, Begin(t, l), Aimed(invite, l),
                 UNCHANGED <<accounts, member, org, work, invite>>
          PROVE  LinkInv'
  BY <1>begin, <1>inv, <1>go DEF Begin, Aimed, SentStays, NothingDangles, Stored
<1>idle. ASSUME NEW t \in Threads, Goto(t, Idle), SentStays, NothingDangles' PROVE LinkInv'
  BY <1>idle, <1>go DEF Aimed, Idle
<1>1. ASSUME NEW t \in Threads, NEW a \in People, NEW p \in People, NEW r \in Roles,
             UpdateMemberRole(t, a, p, r)
      PROVE  LinkInv'
  BY <1>1, <1>begin DEF UpdateMemberRole, Aimed, Idle
<1>2. ASSUME NEW t \in Threads, NEW a \in People, NEW p \in People, RemoveMember(t, a, p)
      PROVE  LinkInv'
  BY <1>2, <1>begin DEF RemoveMember, Aimed, Idle
<1>3. ASSUME NEW t \in Threads, NEW a \in People, NEW p \in People, NEW r \in Roles,
             CreateOrgInvite(t, a, p, r)
      PROVE  LinkInv'
  BY <1>3, <1>begin DEF CreateOrgInvite, Aimed, Idle
<1>4. ASSUME NEW t \in Threads, NEW p \in People, NEW i \in Invites, RevokeOrgInvite(t, p, i)
      PROVE  LinkInv'
  BY <1>4, <1>begin DEF RevokeOrgInvite, Aimed, Idle, Pending
<1>5. ASSUME NEW t \in Threads, NEW p \in People, NEW i \in Invites, AcceptOrgInvite(t, p, i)
      PROVE  LinkInv'
  BY <1>5, <1>begin DEF AcceptOrgInvite, Aimed, Idle
<1>6. ASSUME NEW t \in Threads, NEW p \in People, NEW i \in Invites \cup {NoInvite},
             Register(t, p, i)
      PROVE  LinkInv'
  BY <1>6, <1>begin DEF Register, Aimed, Idle
<1>7. ASSUME NEW t \in Threads, NEW p \in People, CreateOrg(t, p) PROVE LinkInv'
  BY <1>7, <1>begin DEF CreateOrg, Aimed, Idle
<1>8. ASSUME NEW t \in Threads, NEW p \in People, DeleteMe(t, p) PROVE LinkInv'
  BY <1>8, <1>begin DEF DeleteMe, Aimed, Idle
<1>9. ASSUME NEW t \in Threads, SetRole(t) PROVE LinkInv'
  <2>1. \A p \in People : member'[p].org = member[p].org
    BY <1>9, <1>m DEF SetRole, Membership
  <2>2. NothingDangles'
    BY <1>9, <1>inv, <2>1 DEF SetRole, NothingDangles, Stored
  <2> QED
    BY <1>9, <1>idle, <2>2 DEF SetRole, SentStays
<1>10. ASSUME NEW t \in Threads, Remove(t) PROVE LinkInv'
  <2>1. \A p \in People : member'[p] = member[p] \/ member'[p].org = NoOrg
    BY <1>10, <1>m DEF Remove, NoSeat
  <2>2. NothingDangles'
    BY <1>10, <1>inv, <2>1 DEF Remove, NothingDangles, Stored
  <2> QED
    BY <1>10, <1>idle, <2>2 DEF Remove, SentStays
<1>11. ASSUME NEW t \in Threads, Invite(t) PROVE LinkInv'
  <2> DEFINE l == th[t]
             new == [org |-> l.org, email |-> l.who, role |-> l.role, state |-> "open"]
  <2>1. CASE UNCHANGED invite
    BY <1>11, <1>inv, <1>idle, <2>1 DEF Invite, SentStays, NothingDangles, Stored
  <2>2. ASSUME NEW i \in Invites, invite[i].state = "unused", org[l.org] = "live",
               invite' = [j \in Invites |->
                    CASE j = i -> new
                      [] j \in l.doomed -> [invite[j] EXCEPT !.state = "gone"]
                      [] OTHER -> invite[j]]
        PROVE  LinkInv'
    <3>1. new.org = l.org
      OBVIOUS
    <3> HIDE DEF new
    <3>2. \A j \in Invites : \/ j = i /\ invite'[j] = new
                             \/ invite'[j] = [invite[j] EXCEPT !.state = "gone"]
                             \/ invite'[j] = invite[j]
      BY <2>2
    <3>3. \A j \in Invites : /\ [invite[j] EXCEPT !.state = "gone"].state = "gone"
                             /\ [invite[j] EXCEPT !.state = "gone"].org = invite[j].org
      BY <1>i DEF OrgInvite
    <3>4. SentStays
      BY <2>2, <3>2, <3>3 DEF SentStays
    <3>5. ASSUME NEW j \in Invites, Stored(j)' PROVE org[invite'[j].org] = "live"
      <4>1. CASE j = i /\ invite'[j] = new
        BY <2>2, <3>1, <4>1
      <4>2. CASE invite'[j] = [invite[j] EXCEPT !.state = "gone"]
        BY <3>3, <3>5, <4>2 DEF Stored
      <4>3. CASE invite'[j] = invite[j]
        BY <1>inv, <3>5, <4>3 DEF Stored, NothingDangles
      <4> QED
        BY <3>2, <4>1, <4>2, <4>3
    <3>6. NothingDangles'
      BY <1>11, <1>inv, <3>5 DEF Invite, NothingDangles
    <3> QED
      BY <1>11, <1>idle, <3>4, <3>6 DEF Invite
  <2> QED
    BY <1>11, <2>1, <2>2 DEF Invite
<1>12. ASSUME NEW t \in Threads, Revoke(t) PROVE LinkInv'
  <2>1. th[t].inv \in Invites /\ invite[th[t].inv].state # "unused"
    BY <1>12, <1>inv DEF Revoke, At, Fit, Aimed
  <2>2. /\ SentStays
        /\ \A j \in Invites : invite'[j].org = invite[j].org
        /\ \A j \in Invites : Stored(j)' => Stored(j)
    BY <1>12, <1>inv, <2>1, StateOnly, ZenonT(30) DEF Revoke, Stored
  <2>3. NothingDangles'
    BY <1>12, <1>inv, <2>2 DEF Revoke, NothingDangles
  <2> QED
    BY <1>12, <1>idle, <2>2, <2>3 DEF Revoke
<1>13. ASSUME NEW t \in Threads, LeaveEmptyOrg(t) PROVE LinkInv'
  <2> DEFINE l == th[t]
  <2>1. SentStays /\ NothingDangles'
    BY <1>13, <1>inv DEF LeaveEmptyOrg, SentStays, NothingDangles, Stored
  <2>2. CASE Goto(t, Idle)
    BY <1>idle, <2>1, <2>2
  <2>3. CASE Goto(t, [l EXCEPT !.pc = "join"])
    <3>1. /\ [l EXCEPT !.pc = "join"].inv = l.inv
          /\ [l EXCEPT !.pc = "join"].old = l.old
      BY <1>inv DEF Fit, Thread
    <3>2. Aimed(invite', [l EXCEPT !.pc = "join"])
      BY <1>13, <1>inv, <3>1 DEF LeaveEmptyOrg, At, Aimed
    <3> QED
      BY <1>go, <2>1, <2>3, <3>2
  <2> QED
    BY <1>13, <2>2, <2>3 DEF LeaveEmptyOrg
<1>14. ASSUME NEW t \in Threads, Join(t) PROVE LinkInv'
  <2> DEFINE l == th[t]
  <2>1. l.who \in People /\ l.inv \in Invites
        /\ invite[l.inv].state # "unused" /\ invite[l.inv].org # l.old
    BY <1>14, <1>inv DEF Join, At, Fit, Aimed
  <2>2. CASE UNCHANGED <<member, invite, org, work>>
    BY <1>14, <1>inv, <1>idle, <2>2 DEF Join, SentStays, NothingDangles, Stored
  <2>3. CASE /\ member' = [Purged(l.old) EXCEPT ![l.who] = SeatFrom(l.inv)]
             /\ invite' = [PurgedInvites(l.old) EXCEPT ![l.inv].state = "accepted"]
             /\ org' = PurgedOrg(l.old)
             /\ work' = work \ {l.old}
             /\ Joinable(l.inv) /\ l.who \in accounts
    <3> DEFINE inv == PurgedInvites(l.old)
               row == [inv[l.inv] EXCEPT !.state = "accepted"]
               new == SeatFrom(l.inv)
    <3>1. /\ inv \in [Invites -> OrgInvite]
          /\ \A i \in Invites : inv[i].org = invite[i].org
          /\ \A i \in Invites : inv[i].state = "unused" <=> invite[i].state = "unused"
      BY <1>inv, PurgedType
    <3>2. \A i \in Invites : inv[i].state \in {"open", "expired", "accepted"} =>
            org'[inv[i].org] = "live"
      BY <1>inv, <2>3, PurgeLinks
    <3>3. new.org = invite[l.inv].org /\ org'[invite[l.inv].org] = "live"
      <4>1. invite[l.inv].org \in Orgs /\ org[invite[l.inv].org] = "live"
        BY <1>i, <2>1, <2>3 DEF Joinable
      <4> QED
        BY <1>inv, <2>1, <2>3, <4>1, PurgeLinks DEF SeatFrom
    <3>4. invite' = [inv EXCEPT ![l.inv] = row]
      BY <2>3, <3>1
    <3> HIDE DEF inv
    <3>5. row.org = invite[l.inv].org /\ row.state = "accepted"
      BY <2>1, <3>1 DEF OrgInvite
    <3> HIDE DEF row, new
    <3>6. \A i \in Invites : \/ i = l.inv /\ invite'[i] = row
                             \/ invite'[i] = inv[i]
      BY <2>1, <3>1, <3>4
    <3>7. SentStays
      BY <2>1, <3>1, <3>5, <3>6 DEF SentStays
    <3>8. \A i \in Invites : Stored(i)' => org'[invite'[i].org] = "live"
      BY <3>2, <3>3, <3>5, <3>6 DEF Stored
    <3>9. \A p \in People : \/ p = l.who /\ member'[p] = new
                            \/ member'[p] = Purged(l.old)[p]
      <4>1. Purged(l.old) \in [People -> Membership]
        BY <1>inv, PurgedType
      <4> QED
        BY <2>1, <2>3, <4>1 DEF new
    <3>10. \A p \in People : member'[p].org # NoOrg =>
             p \in accounts /\ org'[member'[p].org] = "live"
      BY <1>inv, <2>3, <3>3, <3>9, PurgeLinks
    <3>11. \A x \in work' : org'[x] = "live"
      BY <1>inv, <2>3, PurgeLinks
    <3>12. NothingDangles'
      BY <1>14, <3>8, <3>10, <3>11 DEF Join, NothingDangles
    <3> QED
      BY <1>14, <1>idle, <3>7, <3>12 DEF Join
  <2> QED
    BY <1>14, <2>2, <2>3 DEF Join
<1>15. ASSUME NEW t \in Threads, Enrol(t) PROVE LinkInv'
  <2> DEFINE l == th[t]
  <2>1. l.who \in People /\ l.inv \in Invites \cup {NoInvite}
    BY <1>15, <1>inv DEF Enrol, At, Fit, Thread
  <2>2. CASE UNCHANGED <<accounts, member, invite, org>>
    BY <1>15, <1>inv, <1>idle, <2>2 DEF Enrol, SentStays, NothingDangles, Stored
  <2>3. CASE accounts' = accounts \cup {l.who} /\ l.inv = NoInvite /\ Found(l.who)
    <3>1. UNCHANGED work
      BY <1>15 DEF Enrol
    <3> QED
      BY <1>15, <1>inv, <1>idle, <2>1, <2>3, <3>1, FoundLinks DEF Enrol
  <2>4. CASE /\ accounts' = accounts \cup {l.who} /\ l.inv # NoInvite /\ Joinable(l.inv)
             /\ member' = [member EXCEPT ![l.who] = SeatFrom(l.inv)]
             /\ invite' = [invite EXCEPT ![l.inv].state = "accepted"]
             /\ UNCHANGED org
    <3>1. l.inv \in Invites /\ invite[l.inv].state # "unused" /\ Stored(l.inv)
      BY <2>1, <2>4 DEF Joinable, Stored
    <3>2. /\ SentStays
          /\ \A j \in Invites : invite'[j].org = invite[j].org
          /\ \A j \in Invites : Stored(j)' => Stored(j)
      BY <1>inv, <2>4, <3>1, StateOnly DEF Stored
    <3>3. \A p \in People : \/ p = l.who /\ member'[p].org = invite[l.inv].org
                            \/ member'[p] = member[p]
      BY <1>m, <2>1, <2>4 DEF SeatFrom
    <3>4. NothingDangles'
      BY <1>15, <1>inv, <2>4, <3>1, <3>2, <3>3 DEF Enrol, NothingDangles, Joinable
    <3> QED
      BY <1>15, <1>idle, <3>2, <3>4 DEF Enrol
  <2> QED
    BY <1>15, <2>2, <2>3, <2>4 DEF Enrol
<1>16. ASSUME NEW t \in Threads, FoundOrg(t) PROVE LinkInv'
  <2>1. th[t].who \in People
    BY <1>16, <1>inv DEF FoundOrg, At, Fit
  <2>2. CASE Found(th[t].who) /\ th[t].who \in accounts
    <3>1. UNCHANGED <<accounts, work>>
      BY <1>16 DEF FoundOrg
    <3> QED
      BY <1>16, <1>inv, <1>idle, <2>1, <2>2, <3>1, FoundLinks DEF FoundOrg
  <2>3. CASE UNCHANGED <<member, org, invite>>
    BY <1>16, <1>inv, <1>idle, <2>3 DEF FoundOrg, SentStays, NothingDangles, Stored
  <2> QED
    BY <1>16, <2>2, <2>3 DEF FoundOrg
<1>17. ASSUME NEW t \in Threads, Quit(t) PROVE LinkInv'
  <2> DEFINE l == th[t]
  <2>2. CASE UNCHANGED <<accounts, member, org, work, invite>>
    BY <1>17, <1>inv, <1>idle, <2>2 DEF Quit, SentStays, NothingDangles, Stored
  <2>3. CASE /\ accounts' = accounts \ {l.who}
             /\ member' = [member EXCEPT ![l.who] = NoSeat]
             /\ UNCHANGED <<org, work, invite>>
    <3>1. \A p \in People : \/ member'[p].org = NoOrg
                            \/ p # l.who /\ member'[p] = member[p]
      BY <1>m, <2>3 DEF NoSeat
    <3>2. NothingDangles' /\ SentStays
      BY <1>inv, <2>3, <3>1 DEF NothingDangles, SentStays, Stored
    <3> QED
      BY <1>17, <1>idle, <3>2 DEF Quit
  <2>4. CASE /\ accounts' = accounts \ {l.who}
             /\ member' = Purged(l.old)
             /\ invite' = PurgedInvites(l.old)
             /\ org' = PurgedOrg(l.old)
             /\ work' = work \ {l.old}
             /\ member[l.who].org \in {NoOrg, l.old}
    <3>1. \A p \in People : member'[p].org # NoOrg =>
            p \in accounts' /\ org'[member'[p].org] = "live"
      BY <1>inv, <2>4, PurgeLinks
    <3>2. \A i \in Invites : Stored(i)' => org'[invite'[i].org] = "live"
      BY <1>inv, <2>4, PurgeLinks DEF Stored
    <3>3. \A x \in work' : org'[x] = "live"
      BY <1>inv, <2>4, PurgeLinks
    <3>4. SentStays
      BY <1>inv, <2>4, PurgedType DEF SentStays
    <3>5. NothingDangles'
      BY <3>1, <3>2, <3>3 DEF NothingDangles
    <3> QED
      BY <1>17, <1>idle, <3>4, <3>5 DEF Quit
  <2> QED
    BY <1>17, <2>2, <2>3, <2>4 DEF Quit
<1>18. ASSUME NEW o \in Orgs, Author(o) PROVE LinkInv'
  <2>1. org[o] = "live"
    BY <1>18, <1>inv, RosterAssumption DEF Author, Members, NothingDangles
  <2>2. NothingDangles' /\ SentStays
    BY <1>18, <1>inv, <2>1 DEF Author, NothingDangles, SentStays, Stored
  <2> QED
    BY <1>18, <1>rest, <2>2 DEF Author
<1>19. ASSUME NEW o \in Orgs, NEW n \in Limits, ChangePlan(o, n) PROVE LinkInv'
  BY <1>19, <1>inv, <1>rest DEF ChangePlan, NothingDangles, SentStays, Stored
<1>20. ASSUME NEW i \in Invites, Expire(i) PROVE LinkInv'
  <2>1. /\ SentStays
        /\ \A j \in Invites : invite'[j].org = invite[j].org
        /\ \A j \in Invites : Stored(j)' => Stored(j)
    BY <1>20, <1>inv, StateOnly DEF Expire, Stored
  <2>2. NothingDangles'
    BY <1>20, <1>inv, <2>1 DEF Expire, NothingDangles
  <2> QED
    BY <1>20, <1>rest, <2>1, <2>2 DEF Expire
<1>21. ASSUME NEW t \in Threads, Crash(t) PROVE LinkInv'
  BY <1>21, <1>inv, <1>idle DEF Crash, SentStays, NothingDangles, Stored
<1>22. ASSUME UNCHANGED vars PROVE LinkInv'
  BY <1>22, <1>inv, <1>rest DEF vars, SentStays, NothingDangles, Stored
<1> QED
  BY <1>1, <1>2, <1>3, <1>4, <1>5, <1>6, <1>7, <1>8, <1>9, <1>10, <1>11, <1>12,
     <1>13, <1>14, <1>15, <1>16, <1>17, <1>18, <1>19, <1>20, <1>21, <1>22
  DEF Next, Act, Ask, Step

\* Rows that point at one another go together, whoever joins, leaves or deletes
\* their account meanwhile (_purge_org, _purge_account, _join_org).
THEOREM RowsGoTogether == Spec => []NothingDangles
<1>1. Spec => []LinkInv
  BY LinkInit, LinkStep, PTL DEF Spec
<1>2. LinkInv => NothingDangles
  BY DEF LinkInv
<1> QED
  BY <1>1, <1>2, PTL

-----------------------------------------------------------------------------
(* Somebody can manage every organisation. *)

Other(seats, o, p) ==
  \E q \in People : q # p /\ seats[q].org = o /\ seats[q].role = "admin"

\* Whoever is about to lose a role or a seat leaves another admin behind, and
\* an account that is about to go is still there.
Backed(seats, people, l) ==
  /\ l.pc = "promote" => l.role = "admin"
  /\ l.pc \in {"demote", "remove"} => Other(seats, l.org, l.who)
  /\ l.pc = "quit" =>
       /\ l.who \in people
       /\ l.old = NoOrg /\ seats[l.who].org # NoOrg =>
            Other(seats, seats[l.who].org, l.who)

Managed ==
  \A o \in Orgs : org[o] = "live" =>
    \E q \in People : member[q].org = o /\ member[q].role = "admin"

Alone ==
  \A t, u \in Threads : th[t].pc \in Reducing /\ th[u].pc \in Reducing => t = u

Guarded ==
  /\ Managed
  /\ Alone
  /\ \A t \in Threads : Backed(member, accounts, th[t])

\* A step that takes nobody's seat or role or account.
Calm ==
  /\ \A p \in accounts : /\ p \in accounts' /\ member'[p].org = member[p].org
                         /\ member[p].role = "admin" => member'[p].role = "admin"
  /\ \A o \in Orgs : org'[o] = "live" =>
       org[o] = "live" \/ \E q \in People : member'[q].org = o /\ member'[q].role = "admin"

LEMMA ManagedIs == Managed <=> \A o \in Orgs : HasAdmin(o)
BY DEF Managed, HasAdmin, Admins, Members

LEMMA CalmManaged ==
  ASSUME LinkInv, Managed, Calm
  PROVE  Managed'
BY RosterAssumption DEF LinkInv, TypeInv, TypeOK, NothingDangles, Managed, Calm

LEMMA CalmBacked ==
  ASSUME LinkInv, Calm, NEW l, Fit(l), Backed(member, accounts, l)
  PROVE  Backed(member', accounts', l)
<1>1. \A o \in Orgs, p \in People : Other(member, o, p) => Other(member', o, p)
  BY RosterAssumption DEF LinkInv, NothingDangles, Calm, Other
<1>2. \A p \in People : member[p].org \in Orgs \cup {NoOrg}
  BY DEF LinkInv, TypeInv, TypeOK, Membership
<1>3. l.pc \in {"demote", "remove"} => l.who \in People /\ l.org \in Orgs
  BY DEF Fit
<1>4. l.pc = "quit" => l.who \in People
  BY DEF Fit
<1> QED
  BY <1>1, <1>2, <1>3, <1>4 DEF Backed, Calm

LEMMA FoundManaged ==
  ASSUME LinkInv, Managed, NEW p \in People, member[p].org = NoOrg, Found(p)
  PROVE  /\ Managed'
         /\ \A q \in People : q # p => member'[q] = member[q]
         /\ \A o \in Orgs : org'[o] = "live" =>
              org[o] = "live" \/ \E q \in People : member'[q].org = o /\ member'[q].role = "admin"
<1>1. PICK o \in Orgs :
        /\ org' = [org EXCEPT ![o] = "live"]
        /\ member' = [member EXCEPT ![p] = [org |-> o, role |-> "admin", via |-> NoInvite]]
  BY DEF Found
<1>2. member'[p].org = o /\ member'[p].role = "admin"
  BY <1>1 DEF LinkInv, TypeInv, TypeOK
<1>3. \A q \in People : q # p => member'[q] = member[q]
  BY <1>1 DEF LinkInv, TypeInv, TypeOK
<1>4. \A x \in Orgs : x # o => org'[x] = org[x]
  BY <1>1 DEF LinkInv, TypeInv, TypeOK
<1> QED
  BY <1>2, <1>3, <1>4, RosterAssumption DEF Managed

LEMMA PurgedManaged ==
  ASSUME LinkInv, Managed, NEW o, NEW x \in Orgs, PurgedOrg(o)[x] = "live"
  PROVE  \E q \in People : member[q].org = x /\ member[q].role = "admin" /\ x # o
                             /\ Purged(o)[q] = member[q]
<1>1. x # o /\ org[x] = "live"
  BY DEF PurgedOrg
<1>2. PICK q \in People : member[q].org = x /\ member[q].role = "admin"
  BY <1>1 DEF Managed
<1> QED
  BY <1>1, <1>2 DEF Purged

LEMMA GuardInit == Init => Guarded
<1> SUFFICES ASSUME Init PROVE Guarded
  OBVIOUS
<1>1. PICK p \in People, o \in Orgs :
        /\ member = [q \in People |->
                       IF q = p THEN [org |-> o, role |-> "admin", via |-> NoInvite]
                       ELSE NoSeat]
        /\ org = [x \in Orgs |-> IF x = o THEN "live" ELSE "new"]
        /\ th = [t \in Threads |-> Idle]
  BY DEF Init
<1>2. Managed
  BY <1>1 DEF Managed
<1>3. Alone /\ \A t \in Threads : Backed(member, accounts, th[t])
  BY <1>1 DEF Alone, Backed, Idle, Reducing
<1> QED
  BY <1>2, <1>3 DEF Guarded

LEMMA GuardStep ==
  ASSUME LinkInv, Guarded, Reducing \subseteq apart, [Next]_vars
  PROVE  Guarded'
<1> USE DEF plan
<1>inv. /\ TypeInv /\ NothingDangles /\ Managed /\ Alone
        /\ th \in [Threads -> Thread]
        /\ \A t \in Threads : Fit(th[t]) /\ Backed(member, accounts, th[t])
  BY DEF LinkInv, Guarded, TypeInv, TypeOK
<1>m. /\ member \in [People -> Membership]
      /\ \A p \in People : member[p].org \in Orgs \cup {NoOrg}
  BY <1>inv DEF TypeInv, TypeOK, Membership
<1>who. \A p, q \in People : member[p].org # NoOrg => p \in accounts
  BY <1>inv DEF NothingDangles
\* A request begins: if it may take a seat, none other is about to.
<1>begin. ASSUME NEW t \in Threads, NEW l, Begin(t, l), UNCHANGED <<accounts, member, org>>,
                 Backed(member, accounts, l)
          PROVE  Guarded'
  <2>1. \A u \in Threads : th'[u] = IF u = t THEN l ELSE th[u]
    BY <1>begin, <1>inv DEF Begin, Goto
  <2>2. l.pc \in Reducing => \A u \in Threads : th[u].pc \notin Reducing
    BY <1>begin DEF Begin
  <2>3. Alone'
    BY <1>inv, <2>1, <2>2 DEF Alone
  <2>4. Managed'
    BY <1>begin, <1>inv DEF Managed
  <2>5. \A u \in Threads : Backed(member', accounts', th'[u])
    BY <1>begin, <1>inv, <2>1
  <2> QED
    BY <2>3, <2>4, <2>5 DEF Guarded
\* A handler goes on, or commits, and takes nothing from anybody.
<1>calm. ASSUME NEW t \in Threads, NEW l, Goto(t, l), Calm,
                l.pc \in Reducing => th[t].pc \in Reducing,
                Backed(member', accounts', l)
         PROVE  Guarded'
  <2>1. \A u \in Threads : th'[u] = IF u = t THEN l ELSE th[u]
    BY <1>calm, <1>inv DEF Goto
  <2>2. Alone'
    BY <1>calm, <1>inv, <2>1 DEF Alone
  <2>3. Managed'
    BY <1>calm, <1>inv, CalmManaged
  <2>4. \A u \in Threads : Backed(member', accounts', th'[u])
    BY <1>calm, <1>inv, <2>1, CalmBacked
  <2> QED
    BY <2>2, <2>3, <2>4 DEF Guarded
<1>idle. ASSUME NEW t \in Threads, Goto(t, Idle), Calm PROVE Guarded'
  BY <1>idle, <1>calm DEF Backed, Idle, Reducing
<1>rest. ASSUME UNCHANGED th, Calm PROVE Guarded'
  <2>1. Managed'
    BY <1>rest, <1>inv, CalmManaged
  <2>2. \A u \in Threads : Backed(member', accounts', th'[u])
    BY <1>rest, <1>inv, CalmBacked
  <2> QED
    BY <1>rest, <1>inv, <2>1, <2>2 DEF Guarded, Alone
\* A handler that may take a seat commits: no other one was about to.
<1>alone. ASSUME NEW t \in Threads, th[t].pc \in Reducing, Goto(t, Idle), Managed'
          PROVE  Guarded'
  <2>1. \A u \in Threads : th'[u] = IF u = t THEN Idle ELSE th[u]
    BY <1>alone, <1>inv DEF Goto
  <2>2. \A u \in Threads : th'[u].pc \notin Reducing
    BY <1>alone, <1>inv, <2>1 DEF Alone, Idle, Reducing
  <2>3. \A u \in Threads : Backed(member', accounts', th'[u])
    BY <1>inv, <2>1, <2>2 DEF Backed, Idle, Reducing
  <2> QED
    BY <1>alone, <2>2, <2>3 DEF Guarded, Alone
\* Nothing the property looks at has changed.
<1>same. ASSUME UNCHANGED <<accounts, member, org>> PROVE Calm
  BY <1>same DEF Calm
<1>1. ASSUME NEW t \in Threads, NEW a \in People, NEW p \in People, NEW r \in Roles,
             UpdateMemberRole(t, a, p, r)
      PROVE  Guarded'
  <2> DEFINE l == [Idle EXCEPT !.pc = IF r = "admin" THEN "promote" ELSE "demote",
                               !.who = p, !.org = member[p].org, !.inv = member[p].via,
                               !.role = r]
  <2>1. l.pc = (IF r = "admin" THEN "promote" ELSE "demote") /\ l.who = p
        /\ l.org = member[p].org /\ l.role = r
    BY DEF Idle
  <2>2. ASSUME r = "member" PROVE Backed(member, accounts, l)
    <3>1. member[p].role = "admin" /\ Admins(member[p].org) # {p}
      BY <1>1, <1>m, <2>2 DEF UpdateMemberRole, LastAdmin, Membership, Roles
    <3>2. Other(member, member[p].org, p)
      BY <3>1 DEF Other, Admins, Members
    <3> QED
      BY <2>1, <2>2, <3>2 DEF Backed
  <2>3. ASSUME r = "admin" PROVE Backed(member, accounts, l)
    BY <2>1, <2>3 DEF Backed
  <2>4. Backed(member, accounts, l)
    BY <2>2, <2>3 DEF Roles
  <2>5. Begin(t, l) /\ UNCHANGED <<accounts, member, org>>
    BY <1>1 DEF UpdateMemberRole
  <2> HIDE DEF l
  <2> QED
    BY <1>begin, <2>4, <2>5
<1>2. ASSUME NEW t \in Threads, NEW a \in People, NEW p \in People, RemoveMember(t, a, p)
      PROVE  Guarded'
  <2> DEFINE l == [Idle EXCEPT !.pc = "remove", !.who = p,
                               !.org = member[p].org, !.inv = member[p].via]
  <2>1. l.pc = "remove" /\ l.who = p /\ l.org = member[p].org
    BY DEF Idle
  <2>2. CASE member[p].role = "admin"
    BY <1>2, <1>begin, <2>1, <2>2 DEF RemoveMember, Backed, LastAdmin, Other, Admins, Members
  <2>3. CASE member[p].role # "admin"
    BY <1>2, <1>begin, <2>1, <2>3 DEF RemoveMember, Backed, IsAdmin, Other
  <2> QED
    BY <2>2, <2>3
<1>3. ASSUME NEW t \in Threads, NEW a \in People, NEW p \in People, NEW r \in Roles,
             CreateOrgInvite(t, a, p, r)
      PROVE  Guarded'
  BY <1>3, <1>begin DEF CreateOrgInvite, Backed, Idle
<1>4. ASSUME NEW t \in Threads, NEW p \in People, NEW i \in Invites, RevokeOrgInvite(t, p, i)
      PROVE  Guarded'
  BY <1>4, <1>begin DEF RevokeOrgInvite, Backed, Idle
<1>5. ASSUME NEW t \in Threads, NEW p \in People, NEW i \in Invites, AcceptOrgInvite(t, p, i)
      PROVE  Guarded'
  BY <1>5, <1>begin DEF AcceptOrgInvite, Backed, Idle
<1>6. ASSUME NEW t \in Threads, NEW p \in People, NEW i \in Invites \cup {NoInvite},
             Register(t, p, i)
      PROVE  Guarded'
  BY <1>6, <1>begin DEF Register, Backed, Idle
<1>7. ASSUME NEW t \in Threads, NEW p \in People, CreateOrg(t, p) PROVE Guarded'
  BY <1>7, <1>begin DEF CreateOrg, Backed, Idle
<1>8. ASSUME NEW t \in Threads, NEW p \in People, DeleteMe(t, p) PROVE Guarded'
  <2> DEFINE o == member[p].org
             others == Members(o) \ {p}
             l == [Idle EXCEPT !.pc = "quit", !.who = p,
                               !.old = IF others = {} THEN o ELSE NoOrg]
  <2>1. l.pc = "quit" /\ l.who = p /\ l.old = (IF others = {} THEN o ELSE NoOrg)
    BY DEF Idle
  <2>2. ASSUME others # {}, o # NoOrg PROVE Other(member, o, p)
    <3>1. CASE member[p].role = "admin"
      BY <1>8, <2>2, <3>1 DEF DeleteMe, LastAdmin, Other, Admins, Members
    <3>2. CASE member[p].role # "admin"
      BY <1>inv, <1>m, <2>2, <3>2 DEF Other, Managed, NothingDangles
    <3> QED
      BY <3>1, <3>2
  <2>3. Backed(member, accounts, l)
    BY <1>8, <2>1, <2>2 DEF DeleteMe, Backed
  <2> QED
    BY <1>8, <1>begin, <2>3 DEF DeleteMe
<1>9. ASSUME NEW t \in Threads, SetRole(t) PROVE Guarded'
  <2> DEFINE l == th[t]
  <2>1. /\ \A p \in People : member'[p].org = member[p].org
        /\ \A p \in People : p # l.who \/ member[p].org # l.org => member'[p] = member[p]
        /\ UNCHANGED <<accounts, org>> /\ Goto(t, Idle)
    BY <1>9, <1>m DEF SetRole, SameSeat, Membership
  <2>2. CASE l.pc = "promote"
    <3>1. l.who \in People
      BY <1>inv, <2>2 DEF Fit
    <3>2. \A p \in People : member[p].role = "admin" => member'[p].role = "admin"
      BY <1>9, <1>inv, <1>m, <2>2, <3>1 DEF SetRole, Backed, Membership, TypeInv, TypeOK
    <3>3. Calm
      BY <1>inv, <2>1, <3>2 DEF Calm, TypeInv, TypeOK
    <3> QED
      BY <1>idle, <2>1, <3>3
  <2>3. CASE l.pc = "demote"
    <3>1. Other(member, l.org, l.who)
      BY <1>inv, <2>3 DEF Backed
    <3>2. Managed'
      BY <1>inv, <2>1, <3>1 DEF Managed, Other
    <3> QED
      BY <1>alone, <2>1, <2>3, <3>2 DEF Reducing
  <2> QED
    BY <1>9, <2>2, <2>3 DEF SetRole
<1>10. ASSUME NEW t \in Threads, Remove(t) PROVE Guarded'
  <2> DEFINE l == th[t]
  <2>1. /\ \A p \in People : p # l.who \/ member[p].org # l.org => member'[p] = member[p]
        /\ UNCHANGED <<accounts, org>> /\ Goto(t, Idle) /\ l.pc = "remove"
    BY <1>10, <1>m DEF Remove, SameSeat, At
  <2>2. Other(member, l.org, l.who)
    BY <1>inv, <2>1 DEF Backed
  <2>3. Managed'
    BY <1>inv, <2>1, <2>2 DEF Managed, Other
  <2> QED
    BY <1>alone, <2>1, <2>3 DEF Reducing
<1>11. ASSUME NEW t \in Threads, Invite(t) PROVE Guarded'
  BY <1>11, <1>idle, <1>same DEF Invite
<1>12. ASSUME NEW t \in Threads, Revoke(t) PROVE Guarded'
  BY <1>12, <1>idle, <1>same DEF Revoke
<1>13. ASSUME NEW t \in Threads, LeaveEmptyOrg(t) PROVE Guarded'
  <2> DEFINE l == th[t]
             next == [l EXCEPT !.pc = "join"]
  <2>1. Calm /\ l.pc = "leave" /\ l \in Thread
    BY <1>13, <1>inv, <1>same DEF LeaveEmptyOrg, At, Fit
  <2>2. CASE Goto(t, Idle)
    BY <1>idle, <2>1, <2>2
  <2>3. CASE Goto(t, next)
    <3>1. next.pc = "join"
      BY <2>1 DEF Thread
    <3>2. l.pc \in Reducing /\ Backed(member', accounts', next)
      BY <2>1, <3>1 DEF Reducing, Backed
    <3> HIDE DEF next
    <3> QED
      BY <1>calm, <2>1, <2>3, <3>2
  <2> QED
    BY <1>13, <2>2, <2>3 DEF LeaveEmptyOrg
<1>14. ASSUME NEW t \in Threads, Join(t) PROVE Guarded'
  <2> DEFINE l == th[t]
  <2>1. l.pc = "join" /\ l.who \in People /\ Goto(t, Idle)
    BY <1>14, <1>inv DEF Join, At, Fit
  <2>2. CASE UNCHANGED <<member, org>>
    BY <1>14, <1>idle, <1>same, <2>1, <2>2 DEF Join
  <2>3. CASE /\ member' = [Purged(l.old) EXCEPT ![l.who] = SeatFrom(l.inv)]
             /\ org' = PurgedOrg(l.old)
             /\ member[l.who].org \in {NoOrg, l.old}
    <3>1. \A q \in People : q # l.who => member'[q] = Purged(l.old)[q]
      BY <2>3 DEF Purged
    <3>2. Managed'
      BY <1>inv, <2>3, <3>1, PurgedManaged, RosterAssumption DEF Managed
    <3> QED
      BY <1>alone, <2>1, <3>2 DEF Reducing
  <2> QED
    BY <1>14, <2>2, <2>3 DEF Join
<1>15. ASSUME NEW t \in Threads, Enrol(t) PROVE Guarded'
  <2> DEFINE l == th[t]
  <2>1. l.who \in People /\ Goto(t, Idle)
    BY <1>15, <1>inv DEF Enrol, At, Fit
  <2>2. CASE UNCHANGED <<accounts, member, org>>
    BY <1>idle, <1>same, <2>1, <2>2
  <2>3. CASE l.who \notin accounts /\ accounts' = accounts \cup {l.who} /\ Found(l.who)
    <3>1. Calm
      BY <1>inv, <2>1, <2>3, FoundManaged DEF Calm, NothingDangles, TypeInv, TypeOK
    <3> QED
      BY <1>idle, <2>1, <3>1
  <2>4. CASE /\ l.who \notin accounts /\ accounts' = accounts \cup {l.who}
             /\ member' = [member EXCEPT ![l.who] = SeatFrom(l.inv)]
             /\ UNCHANGED org
    <3>1. Calm
      BY <1>inv, <1>m, <2>4 DEF Calm, TypeInv, TypeOK
    <3> QED
      BY <1>idle, <2>1, <3>1
  <2> QED
    BY <1>15, <2>2, <2>3, <2>4 DEF Enrol
<1>16. ASSUME NEW t \in Threads, FoundOrg(t) PROVE Guarded'
  <2>1. th[t].who \in People /\ th[t].pc = "found" /\ Goto(t, Idle)
    BY <1>16, <1>inv DEF FoundOrg, At, Fit
  <2>2. CASE Found(th[t].who) /\ member[th[t].who].org = NoOrg
    BY <1>alone, <1>inv, <2>1, <2>2, FoundManaged DEF Reducing
  <2>3. CASE UNCHANGED <<member, org>>
    BY <1>16, <1>idle, <1>same, <2>1, <2>3 DEF FoundOrg
  <2> QED
    BY <1>16, <2>2, <2>3 DEF FoundOrg
<1>17. ASSUME NEW t \in Threads, Quit(t) PROVE Guarded'
  <2> DEFINE l == th[t]
  <2>1. l.pc = "quit" /\ l.who \in People /\ Goto(t, Idle)
    BY <1>17, <1>inv DEF Quit, At, Fit
  <2>2. CASE UNCHANGED <<accounts, member, org>>
    BY <1>idle, <1>same, <2>1, <2>2
  <2>3. CASE l.old = NoOrg /\ member' = [member EXCEPT ![l.who] = NoSeat] /\ UNCHANGED org
    <3>1. \A q \in People : q # l.who => member'[q] = member[q]
      BY <1>m, <2>3
    <3>2. member[l.who].org # NoOrg => Other(member, member[l.who].org, l.who)
      BY <1>inv, <2>1, <2>3 DEF Backed
    <3>3. Managed'
      BY <1>inv, <2>3, <3>1, <3>2, RosterAssumption DEF Managed, Other
    <3> QED
      BY <1>alone, <2>1, <3>3 DEF Reducing
  <2>4. CASE member' = Purged(l.old) /\ org' = PurgedOrg(l.old)
    <3>1. Managed'
      BY <1>inv, <2>4, PurgedManaged DEF Managed
    <3> QED
      BY <1>alone, <2>1, <3>1 DEF Reducing
  <2> QED
    BY <1>17, <2>2, <2>3, <2>4 DEF Quit
<1>18. ASSUME NEW o \in Orgs, Author(o) PROVE Guarded'
  BY <1>18, <1>rest, <1>same DEF Author
<1>19. ASSUME NEW o \in Orgs, NEW n \in Limits, ChangePlan(o, n) PROVE Guarded'
  BY <1>19, <1>rest, <1>same DEF ChangePlan
<1>20. ASSUME NEW i \in Invites, Expire(i) PROVE Guarded'
  BY <1>20, <1>rest, <1>same DEF Expire
<1>21. ASSUME NEW t \in Threads, Crash(t) PROVE Guarded'
  BY <1>21, <1>idle, <1>same DEF Crash
<1>22. ASSUME UNCHANGED vars PROVE Guarded'
  BY <1>22, <1>rest, <1>same DEF vars
<1> QED
  BY <1>1, <1>2, <1>3, <1>4, <1>5, <1>6, <1>7, <1>8, <1>9, <1>10, <1>11, <1>12,
     <1>13, <1>14, <1>15, <1>16, <1>17, <1>18, <1>19, <1>20, <1>21, <1>22
  DEF Next, Act, Ask, Step

\* Which requests run apart is settled once and for all.
LEMMA ApartFixed == [Next]_vars => apart' = apart
<1> SUFFICES ASSUME [Next]_vars PROVE apart' = apart
  OBVIOUS
<1>1. ASSUME NEW t \in Threads, NEW a \in People, NEW p \in People, Ask(t, a, p)
      PROVE  apart' = apart
  BY <1>1 DEF Ask, UpdateMemberRole, RemoveMember, CreateOrgInvite
<1>2. ASSUME NEW t \in Threads, NEW p \in People, NEW i \in Invites,
             RevokeOrgInvite(t, p, i) \/ AcceptOrgInvite(t, p, i)
      PROVE  apart' = apart
  BY <1>2 DEF RevokeOrgInvite, AcceptOrgInvite
<1>3. ASSUME NEW t \in Threads, NEW p \in People, NEW i \in Invites \cup {NoInvite},
             Register(t, p, i) \/ CreateOrg(t, p) \/ DeleteMe(t, p)
      PROVE  apart' = apart
  BY <1>3 DEF Register, CreateOrg, DeleteMe
<1>4. ASSUME NEW t \in Threads, Step(t) \/ Crash(t) PROVE apart' = apart
  BY <1>4 DEF Step, SetRole, Remove, Invite, Revoke, LeaveEmptyOrg, Join, Enrol,
              FoundOrg, Quit, Crash
<1>5. ASSUME NEW o \in Orgs, NEW l \in Limits, Author(o) \/ ChangePlan(o, l)
      PROVE  apart' = apart
  BY <1>5 DEF Author, ChangePlan
<1>6. ASSUME NEW o \in Orgs, Author(o) PROVE apart' = apart
  BY <1>6 DEF Author
<1>7. ASSUME NEW i \in Invites, Expire(i) PROVE apart' = apart
  BY <1>7 DEF Expire
<1>8. ASSUME UNCHANGED vars PROVE apart' = apart
  BY <1>8 DEF vars
<1> QED
  BY <1>1, <1>2, <1>3, <1>4, <1>5, <1>6, <1>7, <1>8 DEF Next, Act

\* As long as the requests that take a seat do not overlap one another, no
\* change leaves an organisation without an admin (_last_admin_guard), however
\* many people, organisations and other requests there are.
THEOREM AdminStays == Spec => []AdminRemains
<1> DEFINE Inv == Reducing \subseteq apart => Guarded
<1>1. Init => LinkInv /\ Inv
  BY LinkInit, GuardInit
<1>2. ASSUME LinkInv, Inv, [Next]_vars PROVE Inv'
  BY <1>2, ApartFixed, GuardStep DEF Reducing
<1>3. Inv => AdminRemains
  BY ManagedIs DEF Guarded, AdminRemains
<1> QED
  BY <1>1, <1>2, <1>3, LinkStep, PTL DEF Spec

-----------------------------------------------------------------------------
(***************************************************************************)
(* Seats.  SeatsWithinPlan is not inductive: a request that gives a seat   *)
(* out does so in a later step than it counted them.  As long as no other  *)
(* such request is under way, the room it found is there still (Room): the *)
(* invitation it takes up, or the ones it replaces, do not count twice.    *)
(***************************************************************************)
Giving(l) == l.pc \in Admitting /\ (l.pc = "register" => l.inv # NoInvite)
Place(l) == IF l.pc = "invite" THEN l.org ELSE invite[l.inv].org
Spared(l) == IF l.pc = "invite" THEN l.doomed ELSE {l.inv}
Taken(o, out) == Cardinality(Members(o)) + Cardinality(Open(o) \ out)

Room(l) ==
  Giving(l) => /\ l.pc # "invite" => l.inv \in Invites /\ invite[l.inv].state # "unused"
               /\ Place(l) \in Orgs /\ org[Place(l)] # "new"
               /\ Taken(Place(l), Spared(l)) < best[Place(l)]

Within == \A o \in Orgs : org[o] = "live" => Seats(o) <= best[o]

AloneAdmitting ==
  \A t, u \in Threads : th[t].pc \in Admitting /\ th[u].pc \in Admitting => t = u

Seated ==
  /\ Within
  /\ AloneAdmitting
  /\ \A o \in Orgs : limit[o] <= best[o]
  /\ \A t \in Threads : Room(th[t])

\* A step after which no organisation has more members or open invitations
\* than it had, but for one that was just founded.
Modest(o) ==
  /\ Members(o)' \subseteq Members(o) /\ Open(o)' \subseteq Open(o)
  /\ best[o] <= best'[o]
  /\ org'[o] = "live" => org[o] = "live"

Settled ==
  /\ SentStays
  /\ \A o \in Orgs : Modest(o) \/ (org[o] = "new" /\ Seats(o)' <= best'[o])
  /\ \A o \in Orgs : org[o] # "new" => org'[o] # "new"

LEMMA Finite ==
  ASSUME NEW o
  PROVE  /\ IsFiniteSet(Members(o)) /\ IsFiniteSet(Open(o))
         /\ IsFiniteSet(Members(o)') /\ IsFiniteSet(Open(o)')
         /\ Cardinality(Members(o)) \in Nat /\ Cardinality(Open(o)) \in Nat
         /\ Cardinality(Members(o)') \in Nat /\ Cardinality(Open(o)') \in Nat
<1>1. /\ Members(o) \subseteq People /\ Members(o)' \subseteq People
      /\ Open(o) \subseteq Invites /\ Open(o)' \subseteq Invites
  BY DEF Members, Open
<1>2. /\ IsFiniteSet(Members(o)) /\ IsFiniteSet(Open(o))
      /\ IsFiniteSet(Members(o)') /\ IsFiniteSet(Open(o)')
  BY <1>1, RosterAssumption, FS_Subset
<1> QED
  BY <1>2, FS_CardinalityType

\* Fewer members and invitations take fewer seats.
LEMMA TakenShrinks ==
  ASSUME NEW o, NEW out, Members(o)' \subseteq Members(o), Open(o)' \subseteq Open(o)
  PROVE  /\ Seats(o) \in Nat /\ Seats(o)' \in Nat /\ Seats(o)' <= Seats(o)
         /\ Taken(o, out) \in Nat /\ Taken(o, out)' \in Nat
         /\ Taken(o, out)' <= Taken(o, out) /\ Taken(o, out) <= Seats(o)
<1>1. /\ IsFiniteSet(Open(o) \ out) /\ IsFiniteSet((Open(o) \ out)')
      /\ (Open(o) \ out)' \subseteq Open(o) \ out
      /\ Open(o) \ out \subseteq Open(o)
  <2>1. (Open(o) \ out)' = Open(o)' \ out /\ Open(o)' \ out \subseteq Open(o) \ out
    OBVIOUS
  <2>2. IsFiniteSet(Open(o) \ out)
    BY Finite, FS_Difference
  <2> QED
    BY <2>1, <2>2, FS_Subset
<1>2. /\ Cardinality(Open(o) \ out) \in Nat /\ Cardinality((Open(o) \ out)') \in Nat
      /\ Cardinality((Open(o) \ out)') <= Cardinality(Open(o) \ out)
      /\ Cardinality(Open(o) \ out) <= Cardinality(Open(o))
  BY <1>1, Finite, FS_Subset, FS_CardinalityType
<1>3. /\ Cardinality(Members(o)') <= Cardinality(Members(o))
      /\ Cardinality(Open(o)') <= Cardinality(Open(o))
  BY Finite, FS_Subset
<1>4. /\ Cardinality(Members(o)) \in Nat /\ Cardinality(Open(o)) \in Nat
      /\ Cardinality(Members(o)') \in Nat /\ Cardinality(Open(o)') \in Nat
  BY Finite
<1> QED
  BY <1>2, <1>3, <1>4 DEF Seats, Taken

LEMMA BestType == ASSUME TypeInv, NEW o \in Orgs PROVE best[o] \in Nat \ {0} /\ limit[o] \in Nat
BY RosterAssumption DEF TypeInv, TypeOK

LEMMA SettledWithin ==
  ASSUME LinkInv, LinkInv', Within, Settled
  PROVE  Within'
<1> SUFFICES ASSUME NEW o \in Orgs, org'[o] = "live" PROVE Seats(o)' <= best'[o]
  BY DEF Within
<1>1. best[o] \in Nat /\ best'[o] \in Nat
  BY BestType, RosterAssumption DEF LinkInv, TypeInv, TypeOK
<1>2. CASE Modest(o)
  <2>1. Seats(o) <= best[o] /\ best[o] <= best'[o]
    BY <1>2 DEF Modest, Within
  <2>2. Seats(o) \in Nat /\ Seats(o)' \in Nat /\ Seats(o)' <= Seats(o)
    BY <1>2, TakenShrinks DEF Modest
  <2> QED
    BY <1>1, <2>1, <2>2
<1> QED
  BY <1>2 DEF Settled

LEMMA SettledRoom ==
  ASSUME LinkInv, LinkInv', Settled, NEW l, Room(l)
  PROVE  Room(l)'
<1> SUFFICES ASSUME Giving(l)
    PROVE  /\ l.pc # "invite" => l.inv \in Invites /\ invite'[l.inv].state # "unused"
           /\ Place(l)' \in Orgs /\ org'[Place(l)'] # "new"
           /\ (Taken(Place(l), Spared(l)) < best[Place(l)])'
  BY DEF Room, Giving
<1>1. /\ l.pc # "invite" => l.inv \in Invites /\ invite[l.inv].state # "unused"
      /\ Place(l) \in Orgs /\ org[Place(l)] # "new"
      /\ Taken(Place(l), Spared(l)) < best[Place(l)]
  BY DEF Room
<1>2. PICK o \in Orgs : o = Place(l)
  BY <1>1
<1>3. PICK out : out = Spared(l) /\ out = Spared(l)'
  BY DEF Spared
<1>4. Place(l)' = o
  BY <1>1, <1>2 DEF Place, Settled, SentStays
<1>5. Modest(o)
  BY <1>1, <1>2 DEF Settled
<1>6. Taken(o, out)' <= Taken(o, out) /\ Taken(o, out) \in Nat /\ Taken(o, out)' \in Nat
  BY <1>5, TakenShrinks DEF Modest
<1>7. best[o] \in Nat /\ best'[o] \in Nat /\ best[o] <= best'[o]
  BY <1>5, BestType, RosterAssumption DEF LinkInv, TypeInv, TypeOK, Modest
<1>8. Taken(o, out)' < best'[o]
  BY <1>1, <1>2, <1>3, <1>6, <1>7
<1>9. Taken(Place(l), Spared(l))' = Taken(o, out)'
  BY <1>3, <1>4 DEF Taken, Members, Open
<1> QED
  BY <1>1, <1>2, <1>4, <1>8, <1>9 DEF Settled, SentStays

\* One more member, or one more open invitation, where there is room for it.
LEMMA OneMore ==
  ASSUME LinkInv, NEW o \in Orgs, NEW out, Taken(o, out) < best[o], best' = best,
         NEW x,
         \/ Members(o)' \subseteq Members(o) \cup {x} /\ Open(o)' \subseteq Open(o) \ out
         \/ Members(o)' \subseteq Members(o) /\ Open(o)' \subseteq (Open(o) \ out) \cup {x}
  PROVE  Seats(o)' <= best'[o]
<1> DEFINE m == Members(o)
           f == Open(o) \ out
<1>1. best[o] \in Nat
  BY BestType DEF LinkInv
<1>2. IsFiniteSet(m) /\ IsFiniteSet(f) /\ Cardinality(m) \in Nat /\ Cardinality(f) \in Nat
  BY Finite, FS_Difference, FS_CardinalityType
<1>3. Cardinality(m) + Cardinality(f) < best[o]
  BY DEF Taken
<1>4. /\ Cardinality(Members(o)') \in Nat /\ Cardinality(Open(o)') \in Nat
      /\ Seats(o)' = Cardinality(Members(o)') + Cardinality(Open(o)')
  BY Finite DEF Seats
<1> HIDE DEF m, f
<1>5. /\ IsFiniteSet(m \cup {x}) /\ Cardinality(m \cup {x}) \in Nat
      /\ Cardinality(m \cup {x}) <= Cardinality(m) + 1
      /\ IsFiniteSet(f \cup {x}) /\ Cardinality(f \cup {x}) \in Nat
      /\ Cardinality(f \cup {x}) <= Cardinality(f) + 1
  <2>1. ASSUME NEW S, IsFiniteSet(S), Cardinality(S) \in Nat
        PROVE  /\ IsFiniteSet(S \cup {x}) /\ Cardinality(S \cup {x}) \in Nat
               /\ Cardinality(S \cup {x}) <= Cardinality(S) + 1
    <3>1. /\ IsFiniteSet(S \cup {x})
          /\ Cardinality(S \cup {x}) = IF x \in S THEN Cardinality(S) ELSE Cardinality(S) + 1
      BY <2>1, FS_AddElement
    <3> QED
      BY <2>1, <3>1
  <2> QED
    BY <1>2, <2>1
<1>6. CASE Members(o)' \subseteq m \cup {x} /\ Open(o)' \subseteq f
  <2>1. Cardinality(Members(o)') <= Cardinality(m \cup {x}) /\ Cardinality(Open(o)') <= Cardinality(f)
    BY <1>2, <1>5, <1>6, FS_Subset
  <2> QED
    BY <1>1, <1>2, <1>3, <1>4, <1>5, <2>1
<1>7. CASE Members(o)' \subseteq m /\ Open(o)' \subseteq f \cup {x}
  <2>1. Cardinality(Members(o)') <= Cardinality(m) /\ Cardinality(Open(o)') <= Cardinality(f \cup {x})
    BY <1>2, <1>5, <1>7, FS_Subset
  <2> QED
    BY <1>1, <1>2, <1>3, <1>4, <1>5, <2>1
<1> QED
  BY <1>6, <1>7 DEF m, f

-----------------------------------------------------------------------------
\* Nobody joins and nothing is sent: seats are at most given back.
LEMMA Fewer ==
  ASSUME LinkInv,
         \A p \in People : member'[p].org \in {member[p].org, NoOrg},
         \A i \in Invites : /\ invite[i].state # "unused" =>
                                 invite'[i].state # "unused" /\ invite'[i].org = invite[i].org
                            /\ invite'[i].state = "open" =>
                                 invite[i].state = "open" /\ invite'[i].org = invite[i].org,
         \A o \in Orgs : /\ best[o] <= best'[o]
                         /\ org'[o] = "live" => org[o] = "live"
                         /\ org[o] # "new" => org'[o] # "new"
  PROVE  Settled
<1>1. \A o \in Orgs : Members(o)' \subseteq Members(o)
  BY RosterAssumption DEF Members
<1>2. \A o \in Orgs : Open(o)' \subseteq Open(o)
  BY DEF Open
<1> QED
  BY <1>1, <1>2 DEF Settled, SentStays, Modest

\* An organisation is founded with one seat taken.
LEMMA FoundSettles ==
  ASSUME LinkInv, NEW p \in People, Found(p), best' = best
  PROVE  Settled
<1>1. PICK o \in Orgs :
        /\ org[o] = "new" /\ org' = [org EXCEPT ![o] = "live"]
        /\ member' = [member EXCEPT ![p] = [org |-> o, role |-> "admin", via |-> NoInvite]]
        /\ invite' = invite
  BY DEF Found
<1>2. /\ TypeInv /\ NothingDangles /\ member \in [People -> Membership]
      /\ org \in [Orgs -> {"new", "live", "purged"}]
  BY DEF LinkInv, TypeInv, TypeOK
<1>3. \A q \in People : member'[q] =
        IF q = p THEN [org |-> o, role |-> "admin", via |-> NoInvite] ELSE member[q]
  BY <1>1, <1>2
<1>4. \A x \in Orgs : best[x] \in Nat \ {0} /\ best[x] <= best'[x]
  BY <1>2, BestType
<1>5. \A x \in Orgs : x # o => Modest(x)
  <2> SUFFICES ASSUME NEW x \in Orgs, x # o PROVE Modest(x)
    OBVIOUS
  <2>1. Members(x)' \subseteq Members(x)
    BY <1>3 DEF Members
  <2>2. Open(x)' \subseteq Open(x)
    BY <1>1 DEF Open
  <2>3. org'[x] = org[x]
    BY <1>1, <1>2
  <2> QED
    BY <1>4, <2>1, <2>2, <2>3 DEF Modest
<1>6. Seats(o)' <= best'[o]
  <2>1. Members(o)' \subseteq {p}
    BY <1>1, <1>2, <1>3, RosterAssumption DEF Members, NothingDangles
  <2>2. Open(o)' = {}
    BY <1>1, <1>2 DEF Open, NothingDangles, Stored
  <2>3. Cardinality(Open(o)') = 0
    BY <2>2, FS_EmptySet
  <2>4. IsFiniteSet({p}) /\ Cardinality({p}) = 1
    BY FS_Singleton
  <2>5. Cardinality(Members(o)') <= 1 /\ Cardinality(Members(o)') \in Nat
    BY <2>1, <2>4, Finite, FS_Subset
  <2> QED
    BY <1>4, <2>3, <2>5 DEF Seats
<1>7. SentStays
  BY <1>1 DEF SentStays
<1>8. \A x \in Orgs : org[x] # "new" => org'[x] # "new"
  BY <1>1, <1>2
<1> QED
  BY <1>1, <1>5, <1>6, <1>7, <1>8 DEF Settled

\* An open invitation holds the seat it will be exchanged for.
LEMMA HeldSeat ==
  ASSUME LinkInv, Within, NEW i \in Invites, invite[i].state = "open"
  PROVE  /\ invite[i].org \in Orgs /\ org[invite[i].org] = "live"
         /\ Taken(invite[i].org, {i}) < best[invite[i].org]
<1>1. invite[i].org \in Orgs /\ org[invite[i].org] = "live"
  BY DEF LinkInv, TypeInv, NothingDangles, Stored
<1>2. PICK o \in Orgs : o = invite[i].org
  BY <1>1
<1>3. Seats(o) <= best[o] /\ best[o] \in Nat
  BY <1>1, <1>2, BestType DEF Within, LinkInv
<1>4. i \in Open(o)
  BY <1>2 DEF Open
<1>5. /\ Cardinality(Open(o) \ {i}) = Cardinality(Open(o)) - 1
      /\ Cardinality(Open(o)) \in Nat /\ Cardinality(Members(o)) \in Nat
  BY <1>4, Finite, FS_RemoveElement
<1>6. Taken(o, {i}) < best[o]
  BY <1>3, <1>5 DEF Taken, Seats
<1> QED
  BY <1>1, <1>2, <1>6

\* One organisation gives out the seat it had; the others give none.
LEMMA GaveOne ==
  ASSUME LinkInv, Within, best' = best,
         NEW o \in Orgs, NEW out, Taken(o, out) < best[o], NEW x,
         \/ Members(o)' \subseteq Members(o) \cup {x} /\ Open(o)' \subseteq Open(o) \ out
         \/ Members(o)' \subseteq Members(o) /\ Open(o)' \subseteq (Open(o) \ out) \cup {x},
         \A y \in Orgs : y # o => /\ Members(y)' \subseteq Members(y)
                                  /\ Open(y)' \subseteq Open(y)
                                  /\ org'[y] = "live" => org[y] = "live"
  PROVE  Within'
<1> SUFFICES ASSUME NEW y \in Orgs, org'[y] = "live" PROVE Seats(y)' <= best'[y]
  BY DEF Within
<1>1. CASE y = o
  BY <1>1, OneMore
<1>2. CASE y # o
  <2>1. Seats(y) <= best[y] /\ best[y] \in Nat
    BY <1>2, BestType DEF Within, LinkInv
  <2>2. Seats(y) \in Nat /\ Seats(y)' \in Nat /\ Seats(y)' <= Seats(y)
    BY <1>2, TakenShrinks
  <2> QED
    BY <2>1, <2>2
<1> QED
  BY <1>1, <1>2

LEMMA SeatInit == Init => Seated
<1> SUFFICES ASSUME Init PROVE Seated
  OBVIOUS
<1>1. PICK p \in People, o \in Orgs, l \in Limits :
        /\ member = [q \in People |->
                       IF q = p THEN [org |-> o, role |-> "admin", via |-> NoInvite]
                       ELSE NoSeat]
        /\ org = [x \in Orgs |-> IF x = o THEN "live" ELSE "new"]
        /\ limit = [x \in Orgs |-> l] /\ best = limit
        /\ invite = [i \in Invites |-> Unused]
        /\ th = [t \in Threads |-> Idle]
  BY DEF Init
<1>2. Members(o) = {p}
  BY <1>1, RosterAssumption DEF Members, NoSeat
<1>3. Open(o) = {}
  BY <1>1 DEF Open, Unused
<1>4. Cardinality(Members(o)) = 1 /\ Cardinality(Open(o)) = 0
  BY <1>2, <1>3, FS_Singleton, FS_EmptySet
<1>5. l \in Nat \ {0}
  BY RosterAssumption
<1>6. Within
  BY <1>1, <1>4, <1>5 DEF Within, Seats
<1>7. \A x \in Orgs : limit[x] <= best[x]
  BY <1>1, <1>5
<1>8. \A t \in Threads : th[t].pc = "idle"
  BY <1>1 DEF Idle
<1> QED
  BY <1>6, <1>7, <1>8 DEF Seated, AloneAdmitting, Room, Giving, Admitting

-----------------------------------------------------------------------------
LEMMA SeatStep ==
  ASSUME LinkInv, LinkInv', Seated, Enforced, Admitting \subseteq apart, [Next]_vars
  PROVE  Seated'
<1> USE DEF plan
<1>inv. /\ TypeInv /\ NothingDangles /\ Within /\ AloneAdmitting
        /\ th \in [Threads -> Thread]
        /\ \A t \in Threads : Fit(th[t]) /\ Aimed(invite, th[t]) /\ Room(th[t])
  BY DEF LinkInv, Seated, TypeInv, TypeOK
<1>m. /\ member \in [People -> Membership] /\ org \in [Orgs -> {"new", "live", "purged"}]
      /\ invite \in [Invites -> OrgInvite]
      /\ \A p \in People : member[p].org \in Orgs \cup {NoOrg}
  BY <1>inv DEF TypeInv, TypeOK, Membership
<1>best. \A o \in Orgs : best[o] \in Nat /\ limit[o] \in Nat /\ limit[o] <= best[o]
  BY <1>inv, BestType DEF Seated
\* What had room has room still.
<1>kept. ASSUME Settled, NEW u \in Threads, NEW x, Room(x), th'[u] = x
         PROVE  Room(th[u])'
  <2>1. Room(x)'
    BY <1>kept, SettledRoom
  <2> QED
    BY <1>kept, <2>1 DEF Room, Giving, Place, Spared, Taken, Members, Open
\* No more seats are taken, and at most one request can give one out.
<1>go. ASSUME NEW t \in Threads, NEW l, Goto(t, l), Settled, Room(l),
              UNCHANGED <<limit, best>>,
              l.pc \in Admitting => \A u \in Threads : u # t => th[u].pc \notin Admitting
       PROVE  Seated'
  <2>1. \A u \in Threads : th'[u] = IF u = t THEN l ELSE th[u]
    BY <1>go, <1>inv DEF Goto
  <2>2. AloneAdmitting'
    BY <1>go, <1>inv, <2>1 DEF AloneAdmitting
  <2>3. Within'
    BY <1>go, <1>inv, SettledWithin
  <2>4. \A u \in Threads : Room(th[u])'
    BY <1>go, <1>inv, <1>kept, <2>1
  <2>5. \A o \in Orgs : limit'[o] <= best'[o]
    BY <1>go, <1>best
  <2> QED
    BY <2>2, <2>3, <2>4, <2>5 DEF Seated
\* Handlers that start nothing and give nothing out.
<1>idle. ASSUME NEW t \in Threads, Goto(t, Idle), Settled, UNCHANGED <<limit, best>>
         PROVE  Seated'
  BY <1>idle, <1>go DEF Idle, Room, Giving, Admitting
<1>same. ASSUME UNCHANGED <<member, org, invite, best>> PROVE Settled
  BY <1>same, <1>best, Fewer
<1>begin. ASSUME NEW t \in Threads, NEW l, Begin(t, l), Room(l),
                 UNCHANGED <<member, org, invite, limit, best>>
          PROVE  Seated'
  BY <1>begin, <1>same, <1>go DEF Begin
\* The environment's steps move no handler.
<1>rest. ASSUME UNCHANGED th, Settled, \A o \in Orgs : limit'[o] <= best'[o] PROVE Seated'
  <2>1. Within'
    BY <1>rest, <1>inv, SettledWithin
  <2>2. \A u \in Threads : Room(th[u])'
    BY <1>rest, <1>inv, <1>kept
  <2>3. AloneAdmitting'
    BY <1>rest, <1>inv DEF AloneAdmitting
  <2> QED
    BY <1>rest, <2>1, <2>2, <2>3 DEF Seated
\* The seat is given out: nobody else was about to give one.
<1>gave. ASSUME NEW t \in Threads, th[t].pc \in Admitting, Goto(t, Idle), Within',
                UNCHANGED <<limit, best>>
         PROVE  Seated'
  <2>1. \A u \in Threads : th'[u] = IF u = t THEN Idle ELSE th[u]
    BY <1>gave, <1>inv DEF Goto
  <2>2. \A u \in Threads : th'[u].pc \notin Admitting
    BY <1>gave, <1>inv, <2>1 DEF AloneAdmitting, Idle, Admitting
  <2> QED
    BY <1>gave, <1>best, <2>2 DEF Seated, AloneAdmitting, Room, Giving
<1>1. ASSUME NEW t \in Threads, NEW a \in People, NEW p \in People, NEW r \in Roles,
             UpdateMemberRole(t, a, p, r)
      PROVE  Seated'
  BY <1>1, <1>begin DEF UpdateMemberRole, Idle, Room, Giving, Admitting
<1>2. ASSUME NEW t \in Threads, NEW a \in People, NEW p \in People, RemoveMember(t, a, p)
      PROVE  Seated'
  BY <1>2, <1>begin DEF RemoveMember, Idle, Room, Giving, Admitting
\* What counts against the plan includes every open invitation but the replaced.
<1>3. ASSUME NEW t \in Threads, NEW a \in People, NEW p \in People, NEW r \in Roles,
             CreateOrgInvite(t, a, p, r)
      PROVE  Seated'
  <2> DEFINE o == member[a].org
             l == [Idle EXCEPT !.pc = "invite", !.who = p, !.org = o,
                               !.role = r, !.doomed = Replaced(o, p)]
  <2>1. l.pc = "invite" /\ l.org = o /\ l.doomed = Replaced(o, p)
    BY DEF Idle
  <2>2. o \in Orgs /\ org[o] = "live"
    BY <1>3, <1>m, <1>inv DEF CreateOrgInvite, IsAdmin, NothingDangles
  <2>3. Taken(o, Replaced(o, p)) < limit[o]
    BY <1>3 DEF CreateOrgInvite, SeatFree, Taken
  <2>4. Taken(o, Replaced(o, p)) \in Nat
    <3>1. IsFiniteSet(Open(o) \ Replaced(o, p))
      BY Finite, FS_Difference
    <3> QED
      BY <3>1, Finite, FS_CardinalityType DEF Taken
  <2>5. Taken(o, Replaced(o, p)) < best[o]
    BY <1>best, <2>2, <2>3, <2>4
  <2>6. Room(l)
    BY <2>1, <2>2, <2>5 DEF Room, Place, Spared
  <2>7. Begin(t, l) /\ UNCHANGED <<member, org, invite, limit, best>>
    BY <1>3 DEF CreateOrgInvite
  <2> HIDE DEF l
  <2> QED
    BY <1>begin, <2>6, <2>7
<1>4. ASSUME NEW t \in Threads, NEW p \in People, NEW i \in Invites, RevokeOrgInvite(t, p, i)
      PROVE  Seated'
  BY <1>4, <1>begin DEF RevokeOrgInvite, Idle, Room, Giving, Admitting
<1>5. ASSUME NEW t \in Threads, NEW p \in People, NEW i \in Invites, AcceptOrgInvite(t, p, i)
      PROVE  Seated'
  <2> DEFINE l == [Idle EXCEPT !.pc = IF member[p].org = NoOrg THEN "join" ELSE "leave",
                               !.who = p, !.org = invite[i].org,
                               !.old = member[p].org, !.inv = i]
  <2>1. l.pc \in {"join", "leave"} /\ l.inv = i
    BY DEF Idle
  <2>2. invite[i].state = "open"
    BY <1>5 DEF AcceptOrgInvite
  <2>3. Begin(t, l) /\ UNCHANGED <<member, org, invite, limit, best>>
    BY <1>5 DEF AcceptOrgInvite
  <2> HIDE DEF l
  <2>4. Room(l)
    BY <1>inv, <2>1, <2>2, HeldSeat DEF Room, Place, Spared
  <2> QED
    BY <1>begin, <2>3, <2>4
<1>6. ASSUME NEW t \in Threads, NEW p \in People, NEW i \in Invites \cup {NoInvite},
             Register(t, p, i)
      PROVE  Seated'
  <2> DEFINE l == [Idle EXCEPT !.pc = "register", !.who = p, !.inv = i]
  <2>1. l.pc = "register" /\ l.inv = i
    BY DEF Idle
  <2>2. i # NoInvite => i \in Invites /\ invite[i].state = "open"
    BY <1>6 DEF Register
  <2>3. Begin(t, l) /\ UNCHANGED <<member, org, invite, limit, best>>
    BY <1>6 DEF Register
  <2> HIDE DEF l
  <2>4. Room(l)
    BY <1>inv, <2>1, <2>2, HeldSeat DEF Room, Giving, Place, Spared
  <2> QED
    BY <1>begin, <2>3, <2>4
<1>7. ASSUME NEW t \in Threads, NEW p \in People, CreateOrg(t, p) PROVE Seated'
  BY <1>7, <1>begin DEF CreateOrg, Idle, Room, Giving, Admitting
<1>8. ASSUME NEW t \in Threads, NEW p \in People, DeleteMe(t, p) PROVE Seated'
  BY <1>8, <1>begin DEF DeleteMe, Idle, Room, Giving, Admitting
<1>9. ASSUME NEW t \in Threads, SetRole(t) PROVE Seated'
  <2>1. \A p \in People : member'[p].org = member[p].org
    BY <1>9, <1>m DEF SetRole, Membership
  <2>2. Settled
    BY <1>9, <1>best, <2>1, Fewer DEF SetRole
  <2> QED
    BY <1>9, <1>idle, <2>2 DEF SetRole
<1>10. ASSUME NEW t \in Threads, Remove(t) PROVE Seated'
  <2>1. \A p \in People : member'[p].org \in {member[p].org, NoOrg}
    BY <1>10, <1>m DEF Remove, NoSeat
  <2>2. Settled
    BY <1>10, <1>best, <2>1, Fewer DEF Remove
  <2> QED
    BY <1>10, <1>idle, <2>2 DEF Remove
<1>11. ASSUME NEW t \in Threads, Invite(t) PROVE Seated'
  <2> DEFINE l == th[t]
  <2>1. l.pc = "invite" /\ Goto(t, Idle) /\ UNCHANGED <<member, org, limit, best>>
    BY <1>11 DEF Invite, At
  <2>out. PICK out : out = l.doomed
    OBVIOUS
  <2>o. PICK o \in Orgs : o = l.org /\ out = l.doomed /\ Taken(o, out) < best[o]
    BY <1>inv, <2>1, <2>out DEF Room, Giving, Place, Spared, Admitting
  <2>2. CASE UNCHANGED invite
    BY <1>idle, <1>same, <2>1, <2>2
  <2>3. ASSUME NEW i \in Invites, invite[i].state = "unused",
               invite' = [j \in Invites |->
                    CASE j = i -> [org |-> l.org, email |-> l.who, role |-> l.role,
                                   state |-> "open"]
                      [] j \in l.doomed -> [invite[j] EXCEPT !.state = "gone"]
                      [] OTHER -> invite[j]]
        PROVE  Seated'
    <3>1. \A j \in Invites : j # i /\ invite'[j].state = "open" =>
            j \notin out /\ invite'[j] = invite[j]
      <4>1. \A j \in Invites : j # i =>
              invite'[j] = IF j \in out THEN [invite[j] EXCEPT !.state = "gone"] ELSE invite[j]
        BY <2>o, <2>3
      <4>2. \A j \in Invites : [invite[j] EXCEPT !.state = "gone"].state = "gone"
        BY <1>m DEF OrgInvite
      <4> QED
        BY <4>1, <4>2
    <3>2. invite'[i].state = "open" => invite'[i].org = o
      <4> DEFINE new == [org |-> l.org, email |-> l.who, role |-> l.role, state |-> "open"]
                 old == [invite[i] EXCEPT !.state = "gone"]
      <4>1. invite'[i] = new \/ invite'[i] = old
        BY <2>3
      <4>2. new.org = o /\ old.state = "gone"
        BY <1>m, <2>o DEF OrgInvite
      <4> HIDE DEF new, old
      <4> QED
        BY <4>1, <4>2
    <3>3. Open(o)' \subseteq (Open(o) \ out) \cup {i}
      BY <3>1 DEF Open
    <3>4. \A y \in Orgs : y # o => Open(y)' \subseteq Open(y)
      BY <3>1, <3>2 DEF Open
    <3>5. \A y \in Orgs : Members(y)' \subseteq Members(y)
      BY <2>1 DEF Members
    <3>6. Within'
      BY <1>inv, <2>1, <2>o, <3>3, <3>4, <3>5, GaveOne
    <3> QED
      BY <1>gave, <2>1, <3>6 DEF Admitting
  <2> QED
    BY <1>11, <2>2, <2>3 DEF Invite
<1>12. ASSUME NEW t \in Threads, Revoke(t) PROVE Seated'
  <2>1. th[t].inv \in Invites /\ invite[th[t].inv].state # "unused"
    BY <1>12, <1>inv DEF Revoke, At, Fit, Aimed
  <2>2. \A j \in Invites :
          /\ invite'[j].org = invite[j].org
          /\ invite'[j].state = "open" => invite[j].state = "open"
          /\ invite[j].state # "unused" => invite'[j].state # "unused"
    BY <1>12, <1>inv, <2>1, StateOnly DEF Revoke
  <2>3. Settled
    BY <1>12, <1>best, <2>2, Fewer DEF Revoke
  <2> QED
    BY <1>12, <1>idle, <2>3 DEF Revoke
<1>13. ASSUME NEW t \in Threads, LeaveEmptyOrg(t) PROVE Seated'
  <2> DEFINE l == th[t]
             next == [l EXCEPT !.pc = "join"]
  <2>1. Settled /\ l.pc = "leave" /\ l \in Thread /\ UNCHANGED <<limit, best>>
    BY <1>13, <1>same, <1>inv DEF LeaveEmptyOrg, At
  <2>2. CASE Goto(t, Idle)
    BY <1>idle, <2>1, <2>2
  <2>3. CASE Goto(t, next)
    <3>1. next.pc = "join" /\ next.inv = l.inv
      BY <2>1 DEF Thread
    <3>2. \A u \in Threads : u # t => th[u].pc \notin Admitting
      BY <1>inv, <2>1 DEF AloneAdmitting, Admitting
    <3> HIDE DEF next
    <3>3. Room(l) /\ Giving(l)
      BY <1>inv, <2>1 DEF Giving, Admitting
    <3>4. Room(next)
      BY <2>1, <3>1, <3>3 DEF Room, Place, Spared
    <3> QED
      BY <1>go, <2>1, <2>3, <3>2, <3>4
  <2> QED
    BY <1>13, <2>2, <2>3 DEF LeaveEmptyOrg
<1>14. ASSUME NEW t \in Threads, Join(t) PROVE Seated'
  <2> DEFINE l == th[t]
  <2>1. /\ l.pc = "join" /\ l.who \in People /\ l.inv \in Invites
        /\ Goto(t, Idle) /\ UNCHANGED <<limit, best>>
    BY <1>14, <1>inv DEF Join, At, Fit
  <2>o. PICK o \in Orgs, i \in Invites, p \in People :
          /\ o = invite[i].org /\ i = l.inv /\ p = l.who /\ o # l.old
          /\ Taken(o, {i}) < best[o]
    BY <1>inv, <2>1 DEF Room, Giving, Place, Spared, Admitting, Aimed
  <2>2. CASE UNCHANGED <<member, invite, org>>
    BY <1>idle, <1>same, <2>1, <2>2
  <2>3. CASE /\ member' = [Purged(l.old) EXCEPT ![l.who] = SeatFrom(l.inv)]
             /\ invite' = [PurgedInvites(l.old) EXCEPT ![l.inv].state = "accepted"]
             /\ org' = PurgedOrg(l.old)
    <3>1. \A q \in People : q # p /\ member'[q].org # NoOrg => member'[q] = member[q]
      BY <1>inv, <2>1, <2>o, <2>3, PurgeLinks DEF Purged
    <3>2. member'[p].org = o
      BY <1>inv, <2>o, <2>3, PurgedType DEF SeatFrom
    <3>3. \A j \in Invites : invite'[j].state = "open" => j # i /\ invite'[j] = invite[j]
      BY <1>m, <2>o, <2>3 DEF PurgedInvites, OrgInvite
    <3>4. /\ Members(o)' \subseteq Members(o) \cup {p}
          /\ \A y \in Orgs : y # o => Members(y)' \subseteq Members(y)
      BY <2>o, <3>1, <3>2, RosterAssumption DEF Members
    <3>5. /\ Open(o)' \subseteq Open(o) \ {i}
          /\ \A y \in Orgs : y # o => Open(y)' \subseteq Open(y)
      BY <3>3 DEF Open
    <3>6. \A y \in Orgs : org'[y] = "live" => org[y] = "live"
      BY <2>3 DEF PurgedOrg
    <3>7. Within'
      <4>1. Within /\ best' = best
        BY <1>inv, <2>1
      <4> QED
        BY <4>1, <2>o, <3>4, <3>5, <3>6, GaveOne, SMTT(30)
    <3> QED
      BY <1>gave, <2>1, <3>7 DEF Admitting
  <2> QED
    BY <1>14, <2>2, <2>3 DEF Join
<1>15. ASSUME NEW t \in Threads, Enrol(t) PROVE Seated'
  <2> DEFINE l == th[t]
  <2>1. /\ l.pc = "register" /\ l.who \in People /\ l.inv \in Invites \cup {NoInvite}
        /\ Goto(t, Idle) /\ UNCHANGED <<limit, best>>
    BY <1>15, <1>inv DEF Enrol, At, Fit, Thread
  <2>2. CASE UNCHANGED <<member, invite, org>>
    BY <1>idle, <1>same, <2>1, <2>2
  <2>3. CASE Found(l.who)
    BY <1>idle, <2>1, <2>3, FoundSettles
  <2>4. CASE /\ l.inv # NoInvite
             /\ member' = [member EXCEPT ![l.who] = SeatFrom(l.inv)]
             /\ invite' = [invite EXCEPT ![l.inv].state = "accepted"]
             /\ org' = org
    <3>1. PICK o \in Orgs, i \in Invites, p \in People :
            /\ o = invite[i].org /\ i = l.inv /\ p = l.who
            /\ invite[i].state # "unused" /\ Taken(o, {i}) < best[o]
      BY <1>inv, <2>1, <2>4 DEF Room, Giving, Place, Spared, Admitting
    <3>2. /\ \A q \in People : q # p => member'[q] = member[q]
          /\ member'[p].org = o
      BY <1>m, <2>4, <3>1 DEF SeatFrom
    <3>3. invite' = [invite EXCEPT ![i].state = "accepted"]
      BY <2>4, <3>1
    <3>4. \A j \in Invites : /\ invite'[j].org = invite[j].org
                             /\ invite'[j].state = "open" =>
                                  j # i /\ invite[j].state = "open"
      BY <1>inv, <3>1, <3>3, StateOnly, ZenonT(30)
    <3>5. /\ Members(o)' \subseteq Members(o) \cup {p}
          /\ \A y \in Orgs : y # o => Members(y)' \subseteq Members(y)
      BY <3>1, <3>2 DEF Members
    <3>6. /\ Open(o)' \subseteq Open(o) \ {i}
          /\ \A y \in Orgs : y # o => Open(y)' \subseteq Open(y)
      BY <3>4 DEF Open
    <3>7. Within'
      BY <1>inv, <2>1, <2>4, <3>1, <3>5, <3>6, GaveOne
    <3> QED
      BY <1>gave, <2>1, <3>7 DEF Admitting
  <2> QED
    BY <1>15, <2>2, <2>3, <2>4 DEF Enrol
<1>16. ASSUME NEW t \in Threads, FoundOrg(t) PROVE Seated'
  <2>1. th[t].who \in People /\ Goto(t, Idle) /\ UNCHANGED <<limit, best>>
    BY <1>16, <1>inv DEF FoundOrg, At, Fit
  <2>2. CASE Found(th[t].who)
    BY <1>idle, <2>1, <2>2, FoundSettles
  <2>3. CASE UNCHANGED <<member, org, invite>>
    BY <1>idle, <1>same, <2>1, <2>3
  <2> QED
    BY <1>16, <2>2, <2>3 DEF FoundOrg
<1>17. ASSUME NEW t \in Threads, Quit(t) PROVE Seated'
  <2> DEFINE l == th[t]
  <2>1. Goto(t, Idle) /\ UNCHANGED <<limit, best>>
    BY <1>17 DEF Quit
  <2>2. CASE UNCHANGED <<member, org, invite>>
    BY <1>idle, <1>same, <2>1, <2>2
  <2>3. CASE member' = [member EXCEPT ![l.who] = NoSeat] /\ UNCHANGED <<org, invite>>
    <3>1. \A p \in People : member'[p].org \in {member[p].org, NoOrg}
      BY <1>m, <2>3 DEF NoSeat
    <3>2. Settled
      BY <1>best, <2>1, <2>3, <3>1, Fewer
    <3> QED
      BY <1>idle, <2>1, <3>2
  <2>4. CASE member' = Purged(l.old) /\ invite' = PurgedInvites(l.old) /\ org' = PurgedOrg(l.old)
    <3>1. \A p \in People : member'[p].org \in {member[p].org, NoOrg}
      BY <2>4 DEF Purged, NoSeat
    <3>2. \A i \in Invites : /\ invite'[i].org = invite[i].org
                             /\ invite'[i].state = "unused" <=> invite[i].state = "unused"
                             /\ invite'[i].state = "open" => invite[i].state = "open"
      BY <1>m, <2>4 DEF PurgedInvites, OrgInvite, Stored
    <3>3. \A o \in Orgs : /\ org'[o] = "live" => org[o] = "live"
                          /\ org[o] # "new" => org'[o] # "new"
      BY <2>4 DEF PurgedOrg
    <3>4. Settled
      BY <1>best, <2>1, <3>1, <3>2, <3>3, Fewer
    <3> QED
      BY <1>idle, <2>1, <3>4
  <2> QED
    BY <1>17, <2>2, <2>3, <2>4 DEF Quit
<1>18. ASSUME NEW o \in Orgs, Author(o) PROVE Seated'
  BY <1>18, <1>rest, <1>same, <1>best DEF Author
<1>19. ASSUME NEW o \in Orgs, NEW n \in Limits, ChangePlan(o, n) PROVE Seated'
  <2>1. n \in Nat /\ limit \in [Orgs -> Limits] /\ best \in [Orgs -> Limits]
    BY <1>inv, RosterAssumption DEF TypeInv, TypeOK
  <2>2. \A x \in Orgs : limit'[x] <= best'[x] /\ best[x] <= best'[x]
    BY <1>19, <1>best, <2>1 DEF ChangePlan
  <2>3. Settled
    BY <1>19, <2>2, Fewer DEF ChangePlan
  <2> QED
    BY <1>19, <1>rest, <2>2, <2>3 DEF ChangePlan
<1>20. ASSUME NEW i \in Invites, Expire(i) PROVE Seated'
  <2>1. \A j \in Invites :
          /\ invite'[j].org = invite[j].org
          /\ invite'[j].state = "open" => invite[j].state = "open"
          /\ invite[j].state # "unused" => invite'[j].state # "unused"
    BY <1>20, <1>inv, StateOnly DEF Expire
  <2>2. Settled
    BY <1>20, <1>best, <2>1, Fewer DEF Expire
  <2> QED
    BY <1>20, <1>rest, <1>best, <2>2 DEF Expire
<1>21. ASSUME NEW t \in Threads, Crash(t) PROVE Seated'
  BY <1>21, <1>idle, <1>same DEF Crash
<1>22. ASSUME UNCHANGED vars PROVE Seated'
  BY <1>22, <1>rest, <1>same, <1>best DEF vars
<1> QED
  BY <1>1, <1>2, <1>3, <1>4, <1>5, <1>6, <1>7, <1>8, <1>9, <1>10, <1>11, <1>12,
     <1>13, <1>14, <1>15, <1>16, <1>17, <1>18, <1>19, <1>20, <1>21, <1>22
  DEF Next, Act, Ask, Step

\* Members and open invitations stay within the most the plan ever covered,
\* for every number of people, invitations and plans, as long as the requests
\* that give out seats do not overlap (_check_seat_capacity, accept_org_invite).
THEOREM SeatsAreKept == Spec => []SeatsWithinPlan
<1> DEFINE Inv == Enforced /\ Admitting \subseteq apart => Seated
<1>1. Init => LinkInv /\ Inv
  BY LinkInit, SeatInit
<1>2. ASSUME LinkInv, Inv, LinkInv', [Next]_vars PROVE Inv'
  BY <1>2, ApartFixed, SeatStep DEF Admitting
<1>3. Inv => SeatsWithinPlan
  BY DEF Seated, Within, SeatsWithinPlan
<1> QED
  BY <1>1, <1>2, <1>3, LinkStep, PTL DEF Spec

-----------------------------------------------------------------------------
(***************************************************************************)
(* Leaving.  Between its check and its commit, a request that leaves an    *)
(* organisation, or deletes an account, relies on what it saw: that nobody *)
(* else belongs to what it will purge, and that nothing was written there. *)
(* What an organisation relied on has not changed unless it is unsettled.  *)
(***************************************************************************)
Unshared(l) ==
  l.pc \in {"leave", "join", "quit"} /\ l.old # NoOrg /\ l.old \notin unsettled =>
    /\ l.pc = "leave" => member[l.who].org = l.old
    /\ l.pc # "leave" => Members(l.old) = {l.who}
    /\ l.pc = "join" => l.old \notin work

Departing == \A t \in Threads : Unshared(th[t])

Harmless ==
  /\ \A p \in People :
       /\ member[p].org # NoOrg /\ member'[p].org # member[p].org
       /\ member[p].org \notin unsettled
       => Concerns(p)
  /\ \A o \in work \ unsettled : org'[o] = "purged" =>
       \E t \in Threads : At(t, "quit") /\ Members(o) = {th[t].who}

\* What is left by some request before and after a step, and settled after it,
\* was settled before it and has not changed.
LEMMA SettledStays ==
  ASSUME TypeInv, [Next]_vars, NEW u \in Threads, NEW o \in Orgs,
         th[u].old = o, th'[u].old = o, o \notin unsettled'
  PROVE  /\ o \notin unsettled /\ (o \in work' => o \in work)
         /\ \A p \in People : member'[p].org = o <=> member[p].org = o
<1>1. CASE UNCHANGED vars
  BY <1>1 DEF vars, plan, Members
<1>2. CASE Note
  <2>1. Leaving(o) /\ Leaving(o)'
    BY DEF Leaving
  <2>2. o \notin unsettled /\ ~ Changed(o)
    BY <1>2, <2>1 DEF Note
  <2> QED
    BY <2>2 DEF Changed, Members
<1> QED
  BY <1>1, <1>2 DEF Next

\* So a handler that stays where it is may go on relying on what it saw.
LEMMA UnsharedStays ==
  ASSUME TypeInv, [Next]_vars, NEW u \in Threads, th'[u] = th[u], Unshared(th[u])
  PROVE  Unshared(th[u])'
<1> DEFINE l == th[u]
<1>1. l \in Thread /\ Fit(l)
  BY DEF TypeInv, TypeOK
<1>2. SUFFICES ASSUME l.pc \in {"leave", "join", "quit"}, l.old # NoOrg,
                      l.old \notin unsettled'
               PROVE  /\ l.pc = "leave" => member'[l.who].org = l.old
                      /\ l.pc # "leave" => {p \in People : member'[p].org = l.old} = {l.who}
                      /\ l.pc = "join" => l.old \notin work'
  BY DEF Unshared, Members
<1>3. l.old \in Orgs
  BY <1>1, <1>2 DEF Thread
<1>4. /\ l.old \notin unsettled /\ (l.old \in work' => l.old \in work)
      /\ \A p \in People : member'[p].org = l.old <=> member[p].org = l.old
  BY <1>2, <1>3, SettledStays
<1>5. CASE l.pc = "leave"
  BY <1>1, <1>2, <1>4, <1>5 DEF Unshared, Fit
<1> QED
  BY <1>2, <1>4, <1>5 DEF Unshared, Members

LEMMA DepartInit == Init => Departing
BY DEF Init, Idle, Departing, Unshared

LEMMA DepartStep ==
  ASSUME LinkInv, Departing, [Next]_vars
  PROVE  Departing' /\ Harmless
<1> USE DEF plan
<1>inv. /\ TypeInv /\ NothingDangles
        /\ th \in [Threads -> Thread]
        /\ \A t \in Threads : Fit(th[t]) /\ Unshared(th[t])
  BY DEF LinkInv, Departing, TypeInv, TypeOK
<1>m. /\ member \in [People -> Membership]
      /\ \A p \in People : member[p].org \in Orgs \cup {NoOrg}
      /\ \A o \in work : org[o] = "live" /\ o \in Orgs
  BY <1>inv DEF TypeInv, TypeOK, Membership, NothingDangles
\* A step that moves nobody and purges nothing.
<1>calm. ASSUME \A p \in People : member'[p].org = member[p].org, org' = org
         PROVE  Harmless
  BY <1>calm, <1>m DEF Harmless
\* The handler goes on to l.
<1>move. ASSUME NEW t \in Threads, NEW l, Goto(t, l),
                l.pc \in {"leave", "join", "quit"} /\ l.old # NoOrg /\ l.old \notin unsettled' =>
                  /\ l.pc = "leave" => member'[l.who].org = l.old
                  /\ l.pc # "leave" => {p \in People : member'[p].org = l.old} = {l.who}
                  /\ l.pc = "join" => l.old \notin work'
         PROVE  Departing'
  <2>1. \A u \in Threads : th'[u] = IF u = t THEN l ELSE th[u]
    BY <1>move, <1>inv DEF Goto
  <2>2. ASSUME NEW u \in Threads, u # t PROVE Unshared(th[u])'
    BY <1>inv, <2>1, <2>2, UnsharedStays
  <2>3. Unshared(th[t])'
    BY <1>move, <2>1 DEF Unshared, Members
  <2> QED
    BY <2>2, <2>3 DEF Departing
\* It is done: whoever it was about has had their way.
<1>done. ASSUME NEW t \in Threads, Goto(t, Idle)
         PROVE  Departing' /\ Concerns(th[t].who)
  <2>1. Departing'
    BY <1>done, <1>move DEF Idle
  <2>2. th'[t].pc = "idle"
    BY <1>done, <1>inv DEF Goto, Idle
  <2> QED
    BY <2>1, <2>2 DEF Concerns, At
<1>idle. ASSUME NEW t \in Threads, Goto(t, Idle), org' = org,
                \A p \in People : member'[p].org = member[p].org
         PROVE  Departing' /\ Harmless
  BY <1>idle, <1>done, <1>calm
<1>begin. ASSUME NEW t \in Threads, NEW l, Begin(t, l), l.pc \notin {"leave", "join", "quit"},
                 UNCHANGED <<member, org>>
          PROVE  Departing' /\ Harmless
  BY <1>begin, <1>move, <1>calm DEF Begin
\* No handler moves.
<1>rest. ASSUME UNCHANGED <<th, member, org>> PROVE Departing' /\ Harmless
  <2>1. \A u \in Threads : Unshared(th[u])'
    BY <1>rest, <1>inv, UnsharedStays
  <2> QED
    BY <1>rest, <1>calm, <2>1 DEF Departing
<1>1. ASSUME NEW t \in Threads, NEW a \in People, NEW p \in People, NEW r \in Roles,
             UpdateMemberRole(t, a, p, r)
      PROVE  Departing' /\ Harmless
  BY <1>1, <1>begin DEF UpdateMemberRole, Idle
<1>2. ASSUME NEW t \in Threads, NEW a \in People, NEW p \in People, RemoveMember(t, a, p)
      PROVE  Departing' /\ Harmless
  BY <1>2, <1>begin DEF RemoveMember, Idle
<1>3. ASSUME NEW t \in Threads, NEW a \in People, NEW p \in People, NEW r \in Roles,
             CreateOrgInvite(t, a, p, r)
      PROVE  Departing' /\ Harmless
  BY <1>3, <1>begin DEF CreateOrgInvite, Idle
<1>4. ASSUME NEW t \in Threads, NEW p \in People, NEW i \in Invites, RevokeOrgInvite(t, p, i)
      PROVE  Departing' /\ Harmless
  BY <1>4, <1>begin DEF RevokeOrgInvite, Idle
<1>5. ASSUME NEW t \in Threads, NEW p \in People, NEW i \in Invites, AcceptOrgInvite(t, p, i)
      PROVE  Departing' /\ Harmless
  <2> DEFINE l == [Idle EXCEPT !.pc = IF member[p].org = NoOrg THEN "join" ELSE "leave",
                               !.who = p, !.org = invite[i].org,
                               !.old = member[p].org, !.inv = i]
  <2>1. /\ l.pc = (IF member[p].org = NoOrg THEN "join" ELSE "leave")
        /\ l.who = p /\ l.old = member[p].org
    BY DEF Idle
  <2>2. Begin(t, l) /\ UNCHANGED <<member, work, org>>
    BY <1>5 DEF AcceptOrgInvite
  <2> HIDE DEF l
  <2> QED
    BY <1>move, <1>calm, <2>1, <2>2 DEF Begin
<1>6. ASSUME NEW t \in Threads, NEW p \in People, NEW i \in Invites \cup {NoInvite},
             Register(t, p, i)
      PROVE  Departing' /\ Harmless
  BY <1>6, <1>begin DEF Register, Idle
<1>7. ASSUME NEW t \in Threads, NEW p \in People, CreateOrg(t, p) PROVE Departing' /\ Harmless
  BY <1>7, <1>begin DEF CreateOrg, Idle
<1>8. ASSUME NEW t \in Threads, NEW p \in People, DeleteMe(t, p) PROVE Departing' /\ Harmless
  <2> DEFINE o == member[p].org
             others == Members(o) \ {p}
             l == [Idle EXCEPT !.pc = "quit", !.who = p,
                               !.old = IF others = {} THEN o ELSE NoOrg]
  <2>1. l.pc = "quit" /\ l.who = p /\ l.old = (IF others = {} THEN o ELSE NoOrg)
    BY DEF Idle
  <2>2. Begin(t, l) /\ UNCHANGED <<member, work, org>>
    BY <1>8 DEF DeleteMe
  <2>3. others = {} => {q \in People : member'[q].org = o} = {p}
    BY <2>2 DEF Members
  <2> HIDE DEF l
  <2> QED
    BY <1>move, <1>calm, <2>1, <2>2, <2>3 DEF Begin
<1>9. ASSUME NEW t \in Threads, SetRole(t) PROVE Departing' /\ Harmless
  <2>1. \A p \in People : member'[p].org = member[p].org
    BY <1>9, <1>m DEF SetRole, Membership
  <2> QED
    BY <1>9, <1>idle, <2>1 DEF SetRole
<1>10. ASSUME NEW t \in Threads, Remove(t) PROVE Departing' /\ Harmless
  <2>1. /\ Goto(t, Idle) /\ org' = org
        /\ \A p \in People : p # th[t].who => member'[p] = member[p]
    BY <1>10, <1>m DEF Remove
  <2>2. Departing' /\ Concerns(th[t].who)
    BY <1>done, <2>1
  <2>3. Harmless
    BY <1>m, <2>1, <2>2 DEF Harmless
  <2> QED
    BY <2>2, <2>3
<1>11. ASSUME NEW t \in Threads, Invite(t) PROVE Departing' /\ Harmless
  BY <1>11, <1>idle DEF Invite
<1>12. ASSUME NEW t \in Threads, Revoke(t) PROVE Departing' /\ Harmless
  BY <1>12, <1>idle DEF Revoke
\* The check that nobody else is left: the one who leaves still belongs, or the
\* organisation has changed.
<1>13. ASSUME NEW t \in Threads, LeaveEmptyOrg(t) PROVE Departing' /\ Harmless
  <2> DEFINE l == th[t]
             next == [l EXCEPT !.pc = "join"]
  <2>1. /\ l.pc = "leave" /\ l \in Thread /\ l.who \in People
        /\ UNCHANGED <<member, work, org>>
    BY <1>13, <1>inv DEF LeaveEmptyOrg, At, Fit
  <2>2. CASE Goto(t, Idle)
    BY <1>idle, <2>1, <2>2
  <2>3. CASE Goto(t, next) /\ Cardinality(Members(l.old)) <= 1 /\ l.old \notin work
    <3>1. next.pc = "join" /\ next.who = l.who /\ next.old = l.old
      BY <2>1 DEF Thread
    <3>2. ASSUME l.old # NoOrg, l.old \notin unsettled'
          PROVE  {p \in People : member'[p].org = l.old} = {l.who}
      <4>0. l.old \in Orgs /\ th'[t].old = l.old
        BY <1>inv, <2>1, <2>3, <3>1, <3>2 DEF Goto, Thread
      <4>1. l.old \notin unsettled
        BY <1>inv, <3>2, <4>0, SettledStays
      <4>2. l.who \in Members(l.old)
        BY <1>inv, <2>1, <3>2, <4>1 DEF Unshared, Members
      <4>3. IsFiniteSet(Members(l.old)) /\ Cardinality(Members(l.old)) \in Nat
        BY Finite
      <4>4. Cardinality(Members(l.old)) # 0
        BY <4>2, <4>3, FS_EmptySet
      <4>5. Cardinality(Members(l.old)) = 1
        BY <2>3, <4>3, <4>4
      <4>6. Members(l.old) = {l.who}
        BY <4>2, <4>3, <4>5, FS_Singleton
      <4> QED
        BY <2>1, <4>6 DEF Members
    <3> HIDE DEF next
    <3> QED
      BY <1>move, <1>calm, <2>1, <2>3, <3>1, <3>2
  <2> QED
    BY <1>13, <2>2, <2>3 DEF LeaveEmptyOrg
<1>14. ASSUME NEW t \in Threads, Join(t) PROVE Departing' /\ Harmless
  <2> DEFINE l == th[t]
  <2>1. l.pc = "join" /\ l.who \in People /\ Goto(t, Idle)
    BY <1>14, <1>inv DEF Join, At, Fit
  <2>2. Departing' /\ Concerns(l.who)
    BY <1>done, <2>1
  <2>3. CASE UNCHANGED <<member, org>>
    BY <1>calm, <2>2, <2>3
  <2>4. CASE /\ member' = [Purged(l.old) EXCEPT ![l.who] = SeatFrom(l.inv)]
             /\ org' = PurgedOrg(l.old)
    <3>1. l.old # NoOrg /\ l.old \notin unsettled =>
            l.old \notin work /\ Members(l.old) = {l.who}
      BY <1>inv, <2>1 DEF Unshared
    <3>2. ASSUME NEW p \in People, member[p].org # NoOrg, p # l.who,
                 member[p].org \notin unsettled
          PROVE  member'[p] = member[p]
      BY <2>4, <3>1, <3>2 DEF Purged, Members
    <3>3. \A o \in work \ unsettled : org'[o] = org[o]
      BY <1>m, <2>4, <3>1, RosterAssumption DEF PurgedOrg
    <3>4. \A o \in work \ unsettled : org'[o] # "purged"
      BY <1>m, <3>3
    <3> QED
      BY <1>m, <2>2, <3>2, <3>4 DEF Harmless
  <2> QED
    BY <1>14, <2>3, <2>4 DEF Join
<1>15. ASSUME NEW t \in Threads, Enrol(t) PROVE Departing' /\ Harmless
  <2> DEFINE l == th[t]
  <2>1. l.who \in People /\ Goto(t, Idle)
    BY <1>15, <1>inv DEF Enrol, At, Fit
  <2>2. Departing'
    BY <1>done, <2>1
  <2>3. CASE UNCHANGED <<member, org>>
    BY <1>calm, <2>2, <2>3
  <2>4. CASE l.who \notin accounts /\ \A p \in People : p # l.who => member'[p] = member[p]
    <3>1. member[l.who].org = NoOrg
      BY <1>inv, <2>1, <2>4 DEF NothingDangles
    <3>2. \A o \in work : org'[o] # "purged"
      BY <1>15, <1>m, <1>inv DEF Enrol, Found, TypeInv, TypeOK
    <3> QED
      BY <2>2, <2>4, <3>1, <3>2 DEF Harmless
  <2> QED
    BY <1>15, <1>m, <2>3, <2>4 DEF Enrol, Found
<1>16. ASSUME NEW t \in Threads, FoundOrg(t) PROVE Departing' /\ Harmless
  <2> DEFINE l == th[t]
  <2>1. Goto(t, Idle)
    BY <1>16 DEF FoundOrg
  <2>2. Departing'
    BY <1>done, <2>1
  <2>3. CASE UNCHANGED <<member, org>>
    BY <1>calm, <2>2, <2>3
  <2>4. CASE member[l.who].org = NoOrg /\ Found(l.who)
    <3>1. \A p \in People : p # l.who => member'[p] = member[p]
      BY <1>m, <2>4 DEF Found
    <3>2. \A o \in work : org'[o] # "purged"
      BY <1>m, <1>inv, <2>4 DEF Found, TypeInv, TypeOK
    <3> QED
      BY <2>2, <2>4, <3>1, <3>2 DEF Harmless
  <2> QED
    BY <1>16, <2>3, <2>4 DEF FoundOrg
<1>17. ASSUME NEW t \in Threads, Quit(t) PROVE Departing' /\ Harmless
  <2> DEFINE l == th[t]
  <2>1. l.pc = "quit" /\ l.who \in People /\ Goto(t, Idle)
    BY <1>17, <1>inv DEF Quit, At, Fit
  <2>2. Departing' /\ Concerns(l.who)
    BY <1>done, <2>1
  <2>3. CASE UNCHANGED <<member, org>>
    BY <1>calm, <2>2, <2>3
  <2>4. CASE member' = [member EXCEPT ![l.who] = NoSeat] /\ UNCHANGED org
    <3>1. \A p \in People : p # l.who => member'[p] = member[p]
      BY <1>m, <2>4
    <3> QED
      BY <1>m, <2>2, <2>4, <3>1 DEF Harmless
  <2>5. CASE l.old # NoOrg /\ member' = Purged(l.old) /\ org' = PurgedOrg(l.old)
    <3>1. l.old \notin unsettled => Members(l.old) = {l.who}
      BY <1>inv, <2>1, <2>5 DEF Unshared
    <3>2. ASSUME NEW p \in People, p # l.who, member[p].org \notin unsettled
          PROVE  member'[p] = member[p]
      BY <2>5, <3>1, <3>2 DEF Purged, Members
    <3>3. \A o \in work : org'[o] = "purged" => o = l.old
      BY <1>m, <2>5 DEF PurgedOrg
    <3>4. \A o \in work \ unsettled : org'[o] = "purged" =>
            th[t].pc = "quit" /\ Members(o) = {th[t].who}
      BY <2>1, <3>1, <3>3
    <3>5. \A o \in work \ unsettled : org'[o] = "purged" =>
            \E u \in Threads : At(u, "quit") /\ Members(o) = {th[u].who}
      BY <3>4, Zenon DEF At
    <3>6. \A p \in People : member'[p].org # member[p].org /\ member[p].org \notin unsettled =>
            Concerns(p)
      BY <2>2, <3>2
    <3> QED
      BY <2>2, <3>5, <3>6 DEF Harmless
  <2> QED
    BY <1>17, <2>3, <2>4, <2>5 DEF Quit
<1>18. ASSUME NEW o \in Orgs, Author(o) PROVE Departing' /\ Harmless
  BY <1>18, <1>rest DEF Author
<1>19. ASSUME NEW o \in Orgs, NEW n \in Limits, ChangePlan(o, n) PROVE Departing' /\ Harmless
  BY <1>19, <1>rest DEF ChangePlan
<1>20. ASSUME NEW i \in Invites, Expire(i) PROVE Departing' /\ Harmless
  BY <1>20, <1>rest DEF Expire
<1>21. ASSUME NEW t \in Threads, Crash(t) PROVE Departing' /\ Harmless
  BY <1>21, <1>idle DEF Crash
<1>22. ASSUME UNCHANGED vars PROVE Departing' /\ Harmless
  BY <1>22, <1>rest DEF vars
<1> QED
  BY <1>1, <1>2, <1>3, <1>4, <1>5, <1>6, <1>7, <1>8, <1>9, <1>10, <1>11, <1>12,
     <1>13, <1>14, <1>15, <1>16, <1>17, <1>18, <1>19, <1>20, <1>21, <1>22
  DEF Next, Act, Ask, Step

\* Nobody loses a seat but by a request about them, and nothing authored goes
\* but with the account of an organisation's last member (_leave_empty_org,
\* _purge_account), unless somebody came or went, or wrote, in an organisation
\* while a request was leaving it.
THEOREM LeavingIsHarmless == Spec => LeavingDestroysNothing
<1>1. Init => LinkInv /\ Departing
  BY LinkInit, DepartInit
<1>2. LinkInv /\ Departing /\ [Next]_vars => LinkInv' /\ Departing'
  BY LinkStep, DepartStep
<1>3. ASSUME LinkInv, Departing, [Next]_vars
      PROVE  [/\ \A p \in People :
                   /\ member[p].org # NoOrg /\ member'[p].org # member[p].org
                   /\ member[p].org \notin unsettled
                   => Concerns(p)
              /\ \A o \in work \ unsettled : org'[o] = "purged" =>
                   \E t \in Threads : At(t, "quit") /\ Members(o) = {th[t].who}]_vars
  BY <1>3, DepartStep DEF Harmless
<1> QED
  BY <1>1, <1>2, <1>3, PTL DEF Spec, LeavingDestroysNothing

=============================================================================
