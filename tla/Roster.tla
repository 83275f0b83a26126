------------------------------- MODULE Roster -------------------------------
(***************************************************************************)
(* Who belongs to which organisation: assessment_platform/api.py, the      *)
(* roster routes (roles, removals, invitations, acceptance), sign-up,      *)
(* founding an organisation and deleting an account.                       *)
(*                                                                         *)
(* A thread is a request handler.  Each route is two actions: the queries  *)
(* it decides by, and the transaction that follows; acceptance by someone  *)
(* who has an organisation already is three.  A commit that meets a row    *)
(* which is gone, or a unique or foreign key, is a 500 and changes nothing.*)
(*                                                                         *)
(* Abstracted: a person is their e-mail address; of the questions, sets    *)
(* and assessments of an organisation only whether it has any; the         *)
(* delivery of the invitation.  The pools Orgs and Invites are bounds.  An *)
(* operator named ...Wrong is no part of the specification (see Grading).  *)
(***************************************************************************)
EXTENDS Integers, FiniteSets

CONSTANTS
  People, Threads, NoPerson,
  Orgs, NoOrg,        \* organisation ids, each used once
  Invites, NoInvite,  \* ids of invitations, each used once
  Limits,             \* how many seats a plan may have
  Enforced,           \* config.BILLING_ENFORCED
  MaxRequests         \* bound on the requests made

ASSUME RosterAssumption ==
  /\ IsFiniteSet(People) /\ IsFiniteSet(Invites)
  /\ NoPerson \notin People /\ NoOrg \notin Orgs /\ NoInvite \notin Invites
  /\ Limits \subseteq Nat \ {0}
  /\ Enforced \in BOOLEAN /\ MaxRequests \in Nat

VARIABLES
  accounts,   \* people with an Interviewer row
  member,     \* Membership, at most one per person (uq_membership_interviewer)
  org,        \* an organisation id is new, live, or purged
  work,       \* organisations with a question, a set or an assessment
  limit,      \* the seats of each organisation's plan
  invite,     \* OrgInvite rows
  th,         \* what each handler keeps between two steps
  apart,      \* requests (by pc) that happen not to overlap
  best,       \* history: the most seats an organisation's plan ever had
  unsettled,  \* history: left by a request since whose checks it has changed
  requests    \* history, for MaxRequests

plan == <<limit, best>>
vars == <<accounts, member, org, work, plan, invite, th, apart, unsettled, requests>>

-----------------------------------------------------------------------------
Roles == {"admin", "member"}

\* via, the invitation a seat came through, tells a row from its successors.
Membership == [org : Orgs \cup {NoOrg}, role : Roles, via : Invites \cup {NoInvite}]
NoSeat == [org |-> NoOrg, role |-> "member", via |-> NoInvite]

OrgInvite == [org : Orgs \cup {NoOrg}, email : People \cup {NoPerson}, role : Roles,
              state : {"unused", "open", "expired", "accepted", "gone"}]
Unused == [org |-> NoOrg, email |-> NoPerson, role |-> "member", state |-> "unused"]

Thread == [pc : {"idle", "promote", "demote", "remove", "invite", "revoke",
                 "register", "found", "leave", "join", "quit"},
           who : People \cup {NoPerson},     \* whose seat, account or invitation
           org : Orgs \cup {NoOrg},          \* where
           old : Orgs \cup {NoOrg},          \* the organisation to be purged
           inv : Invites \cup {NoInvite},    \* the invitation, or via of a seat
           role : Roles,
           doomed : SUBSET Invites]          \* deleted, and locked till the commit
Idle == [pc |-> "idle", who |-> NoPerson, org |-> NoOrg,
         old |-> NoOrg, inv |-> NoInvite, role |-> "member", doomed |-> {}]

\* Requests that take somebody's seat, and those that give one out.
Reducing == {"demote", "remove", "quit", "leave", "join", "found"}
Admitting == {"invite", "register", "leave", "join"}

TypeOK ==
  /\ accounts \subseteq People
  /\ member \in [People -> Membership]
  /\ org \in [Orgs -> {"new", "live", "purged"}]
  /\ work \subseteq Orgs
  /\ limit \in [Orgs -> Limits]
  /\ best \in [Orgs -> Limits]
  /\ invite \in [Invites -> OrgInvite]
  /\ th \in [Threads -> Thread]
  /\ apart \subseteq Reducing \cup Admitting
  /\ unsettled \subseteq Orgs
  /\ requests \in Nat

\* One person has signed up and founded an organisation.
Init ==
  \E p \in People, o \in Orgs, l \in Limits :
    /\ accounts = {p}
    /\ member = [q \in People |->
                   IF q = p THEN [org |-> o, role |-> "admin", via |-> NoInvite]
                   ELSE NoSeat]
    /\ org = [x \in Orgs |-> IF x = o THEN "live" ELSE "new"]
    /\ work \in SUBSET {o}
    /\ limit = [x \in Orgs |-> l]
    /\ best = limit
    /\ invite = [i \in Invites |-> Unused]
    /\ th = [t \in Threads |-> Idle]
    /\ apart \in {{}, Reducing, Admitting, Reducing \cup Admitting}
    /\ unsettled = {}
    /\ requests = 0

-----------------------------------------------------------------------------
At(t, pc) == th[t].pc = pc
Goto(t, l) == th' = [th EXCEPT ![t] = l]

Ready(t) == At(t, "idle") /\ requests < MaxRequests

\* A request passed its checks; what runs apart finds no one on the way.
Begin(t, l) ==
  /\ l.pc \in apart => \A u \in Threads : th[u].pc \notin apart
  /\ requests' = requests + 1
  /\ Goto(t, l)

Members(o) == {p \in People : member[p].org = o}
Admins(o) == {p \in Members(o) : member[p].role = "admin"}
Pending(i) == invite[i].state \in {"open", "expired"}
Stored(i) == invite[i].state \in {"open", "expired", "accepted"}
Open(o) == {i \in Invites : invite[i].org = o /\ invite[i].state = "open"}
Seats(o) == Cardinality(Members(o)) + Cardinality(Open(o))

\* get_current_membership, _require_admin: as loaded when the request began.
IsAdmin(p) == p \in accounts /\ member[p].org # NoOrg /\ member[p].role = "admin"

\* counts members, not admins
LastAdminWrong(p) == member[p].role = "admin" /\ Members(member[p].org) = {p}

\* _last_admin_guard
LastAdmin(p) == member[p].role = "admin" /\ Admins(member[p].org) = {p}

\* A row some handler has deleted and not yet committed: others wait for it.
Locked(i) == \E t \in Threads : i \in th[t].doomed
Unlocked(o) == \A i \in Invites : invite[i].org = o => ~ Locked(i)

\* all but the invitations that nobody has taken up
PurgedInvitesWrong(o) ==
  [i \in Invites |-> IF invite[i].org = o /\ invite[i].state = "accepted"
                     THEN [invite[i] EXCEPT !.state = "gone"] ELSE invite[i]]

\* _purge_org, as a new value for the invitations, the members, ...
PurgedInvites(o) ==
  [i \in Invites |-> IF invite[i].org = o /\ Stored(i)
                     THEN [invite[i] EXCEPT !.state = "gone"] ELSE invite[i]]
Purged(o) == [p \in People |-> IF member[p].org = o THEN NoSeat ELSE member[p]]
PurgedOrg(o) == [x \in Orgs |-> IF x = o THEN "purged" ELSE org[x]]

(***************************************************************************)
(* Roles and removals.                                                     *)
(***************************************************************************)
\* update_member_role; the row is written only if the role differs.
UpdateMemberRole(t, a, p, r) ==
  /\ Ready(t)
  /\ IsAdmin(a) /\ member[p].org = member[a].org /\ member[p].role # r
  /\ r = "member" => ~ LastAdmin(p)
  /\ Begin(t, [Idle EXCEPT !.pc = IF r = "admin" THEN "promote" ELSE "demote",
                           !.who = p, !.org = member[p].org, !.inv = member[p].via,
                           !.role = r])
  /\ UNCHANGED <<accounts, member, org, work, plan, invite, apart>>

\* The membership row the handler has loaded is still there.
SameSeat(l) == member[l.who].org = l.org /\ member[l.who].via = l.inv

SetRole(t) ==
  LET l == th[t]
  IN /\ l.pc \in {"promote", "demote"}
     /\ IF SameSeat(l) THEN member' = [member EXCEPT ![l.who].role = l.role]
        ELSE UNCHANGED member
     /\ Goto(t, Idle)
     /\ UNCHANGED <<accounts, org, work, plan, invite, apart, requests>>

\* remove_member
RemoveMember(t, a, p) ==
  /\ Ready(t)
  /\ IsAdmin(a) /\ member[p].org = member[a].org
  /\ ~ LastAdmin(p)
  /\ Begin(t, [Idle EXCEPT !.pc = "remove", !.who = p,
                           !.org = member[p].org, !.inv = member[p].via])
  /\ UNCHANGED <<accounts, member, org, work, plan, invite, apart>>

Remove(t) ==
  LET l == th[t]
  IN /\ At(t, "remove")
     /\ IF SameSeat(l) THEN member' = [member EXCEPT ![l.who] = NoSeat]
        ELSE UNCHANGED member
     /\ Goto(t, Idle)
     /\ UNCHANGED <<accounts, org, work, plan, invite, apart, requests>>

(***************************************************************************)
(* Invitations.                                                            *)
(***************************************************************************)
\* Pending ones to the same address make way, and then hold no seat.
Replaced(o, p) == {i \in Invites : invite[i].org = o /\ invite[i].email = p /\ Pending(i)}

\* counts members only
SeatFreeWrong(o, out) == Enforced => Cardinality(Members(o)) < limit[o]

\* _check_seat_capacity, with the invitations in out deleted
SeatFree(o, out) ==
  Enforced => Cardinality(Members(o)) + Cardinality(Open(o) \ out) < limit[o]

\* create_org_invite
CreateOrgInvite(t, a, p, r) ==
  LET o == member[a].org
  IN /\ Ready(t)
     /\ IsAdmin(a) /\ p \notin Members(o)
     /\ \A i \in Replaced(o, p) : ~ Locked(i)
     /\ SeatFree(o, Replaced(o, p))
     /\ Begin(t, [Idle EXCEPT !.pc = "invite", !.who = p, !.org = o,
                              !.role = r, !.doomed = Replaced(o, p)])
     /\ UNCHANGED <<accounts, member, org, work, plan, invite, apart>>

Invite(t) ==
  LET l == th[t]
  IN /\ At(t, "invite")
     /\ IF org[l.org] = "live"
        THEN \E i \in Invites :
               /\ invite[i].state = "unused"
               /\ invite' = [j \in Invites |->
                    CASE j = i -> [org |-> l.org, email |-> l.who, role |-> l.role,
                                   state |-> "open"]
                      [] j \in l.doomed -> [invite[j] EXCEPT !.state = "gone"]
                      [] OTHER -> invite[j]]
        ELSE UNCHANGED invite
     /\ Goto(t, Idle)
     /\ UNCHANGED <<accounts, member, org, work, plan, apart, requests>>

\* revoke_org_invite
RevokeOrgInvite(t, a, i) ==
  /\ Ready(t)
  /\ IsAdmin(a) /\ invite[i].org = member[a].org /\ Pending(i)
  /\ Begin(t, [Idle EXCEPT !.pc = "revoke", !.inv = i])
  /\ UNCHANGED <<accounts, member, org, work, plan, invite, apart>>

Revoke(t) ==
  LET l == th[t]
  IN /\ At(t, "revoke")
     /\ ~ Locked(l.inv)
     /\ invite' = [invite EXCEPT ![l.inv].state = "gone"]
     /\ Goto(t, Idle)
     /\ UNCHANGED <<accounts, member, org, work, plan, apart, requests>>

(***************************************************************************)
(* Joining.                                                                *)
(***************************************************************************)
\* accept_org_invite: the address matches, and the seat is free still.
AcceptOrgInvite(t, p, i) ==
  LET o == invite[i].org
  IN /\ Ready(t)
     /\ p \in accounts /\ invite[i].state = "open" /\ invite[i].email = p
     /\ member[p].org # o
     /\ Enforced => Cardinality(Members(o)) < limit[o]
     /\ Begin(t, [Idle EXCEPT !.pc = IF member[p].org = NoOrg THEN "join" ELSE "leave",
                              !.who = p, !.org = o,
                              !.old = member[p].org, !.inv = i])
     /\ UNCHANGED <<accounts, member, org, work, plan, invite, apart>>

\* never mind what was authored there
LeaveEmptyOrgWrong(t) ==
  LET l == th[t]
  IN /\ At(t, "leave")
     /\ Goto(t, IF Cardinality(Members(l.old)) <= 1
                THEN [l EXCEPT !.pc = "join"] ELSE Idle)
     /\ UNCHANGED <<accounts, member, org, work, plan, invite, apart, requests>>

\* _leave_empty_org: nobody else in it, and nothing authored in it.
LeaveEmptyOrg(t) ==
  LET l == th[t]
  IN /\ At(t, "leave")
     /\ Goto(t, IF Cardinality(Members(l.old)) <= 1 /\ l.old \notin work
                THEN [l EXCEPT !.pc = "join"] ELSE Idle)
     /\ UNCHANGED <<accounts, member, org, work, plan, invite, apart, requests>>

\* The invitation's row can still be stamped, and its organisation joined.
Joinable(i) == Stored(i) /\ org[invite[i].org] = "live"

SeatFrom(i) == [org |-> invite[i].org, role |-> invite[i].role, via |-> i]

\* _purge_org of what was left, _join_org, commit.
Join(t) ==
  LET l == th[t]
  IN /\ At(t, "join")
     /\ ~ Locked(l.inv) /\ Unlocked(l.old)
     /\ IF /\ l.who \in accounts /\ Joinable(l.inv)
           /\ member[l.who].org \in {NoOrg, l.old}
        THEN /\ member' = [Purged(l.old) EXCEPT ![l.who] = SeatFrom(l.inv)]
             /\ invite' = [PurgedInvites(l.old) EXCEPT ![l.inv].state = "accepted"]
             /\ org' = PurgedOrg(l.old)
             /\ work' = work \ {l.old}
        ELSE UNCHANGED <<member, invite, org, work>>
     /\ Goto(t, Idle)
     /\ UNCHANGED <<accounts, plan, apart, requests>>

\* _found_org
Found(p) ==
  \E o \in Orgs :
    /\ org[o] = "new"
    /\ org' = [org EXCEPT ![o] = "live"]
    /\ member' = [member EXCEPT ![p] = [org |-> o, role |-> "admin", via |-> NoInvite]]
    /\ UNCHANGED invite

\* register, with an invitation or without
Register(t, p, i) ==
  /\ Ready(t)
  /\ p \notin accounts
  /\ i # NoInvite => invite[i].state = "open" /\ invite[i].email = p
  /\ Begin(t, [Idle EXCEPT !.pc = "register", !.who = p, !.inv = i])
  /\ UNCHANGED <<accounts, member, org, work, plan, invite, apart>>

Enrol(t) ==
  LET l == th[t]
  IN /\ At(t, "register")
     /\ ~ Locked(l.inv)
     /\ \/ /\ l.who \notin accounts
           /\ accounts' = accounts \cup {l.who}
           /\ IF l.inv = NoInvite THEN Found(l.who)
              ELSE /\ Joinable(l.inv)
                   /\ member' = [member EXCEPT ![l.who] = SeatFrom(l.inv)]
                   /\ invite' = [invite EXCEPT ![l.inv].state = "accepted"]
                   /\ UNCHANGED org
        \/ /\ l.who \in accounts \/ (l.inv # NoInvite /\ ~ Joinable(l.inv))
           /\ UNCHANGED <<accounts, member, invite, org>>
     /\ Goto(t, Idle)
     /\ UNCHANGED <<work, plan, apart, requests>>

\* create_org
CreateOrg(t, p) ==
  /\ Ready(t)
  /\ p \in accounts /\ member[p].org = NoOrg
  /\ Begin(t, [Idle EXCEPT !.pc = "found", !.who = p])
  /\ UNCHANGED <<accounts, member, org, work, plan, invite, apart>>

FoundOrg(t) ==
  LET l == th[t]
  IN /\ At(t, "found")
     /\ IF l.who \in accounts /\ member[l.who].org = NoOrg THEN Found(l.who)
        ELSE UNCHANGED <<member, org, invite>>
     /\ Goto(t, Idle)
     /\ UNCHANGED <<accounts, work, plan, apart, requests>>

(***************************************************************************)
(* Deleting an account.                                                    *)
(***************************************************************************)
\* delete_me, _purge_account: the last member takes the organisation along.
DeleteMe(t, p) ==
  LET o == member[p].org
      others == Members(o) \ {p}
  IN /\ Ready(t)
     /\ p \in accounts
     /\ o # NoOrg /\ others # {} => ~ LastAdmin(p)
     /\ Begin(t, [Idle EXCEPT !.pc = "quit", !.who = p,
                              !.old = IF others = {} THEN o ELSE NoOrg])
     /\ UNCHANGED <<accounts, member, org, work, plan, invite, apart>>

\* Only the seat goes, or everything of old; not a seat held elsewhere by now.
Quit(t) ==
  LET l == th[t]
  IN /\ At(t, "quit")
     /\ Unlocked(l.old)
     /\ IF l.who \in accounts /\ (l.old # NoOrg => member[l.who].org \in {NoOrg, l.old})
        THEN /\ accounts' = accounts \ {l.who}
             /\ IF l.old = NoOrg
                THEN /\ member' = [member EXCEPT ![l.who] = NoSeat]
                     /\ UNCHANGED <<org, work, invite>>
                ELSE /\ member' = Purged(l.old)
                     /\ invite' = PurgedInvites(l.old)
                     /\ org' = PurgedOrg(l.old)
                     /\ work' = work \ {l.old}
        ELSE UNCHANGED <<accounts, member, org, work, invite>>
     /\ Goto(t, Idle)
     /\ UNCHANGED <<plan, apart, requests>>

(***************************************************************************)
(* Everything else.                                                        *)
(***************************************************************************)
\* The first question, set or assessment is written, or the last dropped, by a
\* request of someone who was a member when it began.
Author(o) ==
  /\ org[o] = "live"
  /\ work' = IF o \in work THEN work \ {o} ELSE work \cup {o}
  /\ UNCHANGED <<accounts, member, org, plan, invite, th, apart, requests>>

Expire(i) ==
  /\ invite[i].state = "open"
  /\ invite' = [invite EXCEPT ![i].state = "expired"]
  /\ UNCHANGED <<accounts, member, org, work, plan, th, apart, requests>>

\* A checkout, an upgrade, a lapse (plan_for).
ChangePlan(o, l) ==
  /\ org[o] = "live" /\ l # limit[o]
  /\ limit' = [limit EXCEPT ![o] = l]
  /\ best' = IF l > best[o] THEN [best EXCEPT ![o] = l] ELSE best
  /\ UNCHANGED <<accounts, member, org, work, invite, th, apart, requests>>

\* A request dies before it commits.
Crash(t) ==
  /\ ~ At(t, "idle")
  /\ Goto(t, Idle)
  /\ UNCHANGED <<accounts, member, org, work, plan, invite, apart, requests>>

Ask(t, a, p) ==
  \/ \E r \in Roles : UpdateMemberRole(t, a, p, r) \/ CreateOrgInvite(t, a, p, r)
  \/ RemoveMember(t, a, p)

Step(t) ==
  \/ SetRole(t) \/ Remove(t) \/ Invite(t) \/ Revoke(t) \/ LeaveEmptyOrg(t)
  \/ Join(t) \/ Enrol(t) \/ FoundOrg(t) \/ Quit(t)

\* The organisation is the one some request would purge.
Leaving(o) == \E t \in Threads : th[t].old = o

\* Somebody came or went, or something was written.
Changed(o) == Members(o)' # Members(o) \/ o \in work' \ work

Note ==
  unsettled' = {o \in Orgs : Leaving(o) /\ Leaving(o)' /\ (o \in unsettled \/ Changed(o))}

Act ==
  \/ \E t \in Threads :
       \/ \E a, p \in People : Ask(t, a, p)
       \/ \E p \in People :
            \/ \E i \in Invites : RevokeOrgInvite(t, p, i) \/ AcceptOrgInvite(t, p, i)
            \/ \E i \in Invites \cup {NoInvite} : Register(t, p, i)
            \/ CreateOrg(t, p) \/ DeleteMe(t, p)
       \/ Step(t) \/ Crash(t)
  \/ \E o \in Orgs : Author(o) \/ \E l \in Limits : ChangePlan(o, l)
  \/ \E i \in Invites : Expire(i)

Next == Act /\ Note

Spec == Init /\ [][Next]_vars

-----------------------------------------------------------------------------
HasAdmin(o) == org[o] = "live" => Admins(o) # {}

\* Nobody's change leaves an organisation with no one to manage it
\* (_last_admin_guard), whatever else goes on - as long as the requests that
\* take a seat do not overlap one another: the guard is a query, not a lock.
AdminRemains == Reducing \subseteq apart => \A o \in Orgs : HasAdmin(o)

\* Members and open invitations stay within the most the plan ever covered,
\* as long as the requests that fill seats do not overlap (_seats_used,
\* accept_org_invite): an invitation's seat is held until it is taken up.
SeatsWithinPlan ==
  Enforced /\ Admitting \subseteq apart =>
    \A o \in Orgs : org[o] = "live" => Seats(o) <= best[o]

\* Rows that point at one another go together (_purge_org, _purge_account):
\* a seat has its person and its organisation, and so has a pending invitation.
NothingDangles ==
  /\ \A p \in People : member[p].org # NoOrg => p \in accounts /\ org[member[p].org] = "live"
  /\ \A i \in Invites : Stored(i) => org[invite[i].org] = "live"
  /\ \A o \in work : org[o] = "live"

\* Whose request a step of the roster carries out.
Concerns(p) == \E t \in Threads : th[t].who = p /\ At(t, "idle")'

\* Leaving destroys nothing (_leave_empty_org, _purge_account): a seat is lost
\* by one's own request or by being removed, and work disappears with the
\* account of the last member - unless somebody came or went there, or wrote
\* something, after a request that leaves began: what came in since its checks
\* goes with the organisation, and one who was removed meanwhile takes it from
\* the colleague who is left.
LeavingDestroysNothing ==
  [][/\ \A p \in People :
          /\ member[p].org # NoOrg /\ member'[p].org # member[p].org
          /\ member[p].org \notin unsettled
          => Concerns(p)
     /\ \A o \in work \ unsettled : org'[o] = "purged" =>
          \E t \in Threads : At(t, "quit") /\ Members(o) = {th[t].who}]_vars

=============================================================================
