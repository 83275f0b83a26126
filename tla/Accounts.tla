------------------------------ MODULE Accounts ------------------------------
(***************************************************************************)
(* Sign-in: assessment_platform/auth.py and the /auth routes of api.py.    *)
(* There is no table of sessions and none of links: a session is a signed  *)
(* token that carries the account's token_version, a mailed link one that  *)
(* carries the address or the password it was made for, and each holds     *)
(* while the account's row still says so.                                  *)
(*                                                                         *)
(* A thread is a request that checked a token or a password against the    *)
(* row it loaded and commits later.  A request that only hands out tokens  *)
(* is one step: what they carry is what it loaded, and they are checked    *)
(* against the row when they are used.                                     *)
(*                                                                         *)
(* Abstracted: a password is the number of its hash, salted and so never   *)
(* the same twice; ids of accounts are not given out again (PostgreSQL);   *)
(* the organisation joined, founded or left is in Roster; the rate limits, *)
(* the registration code and the breach list only refuse, and a refused    *)
(* request is no step.                                                     *)
(***************************************************************************)
EXTENDS Integers, FiniteSets

CONSTANTS
  Ids,       \* of accounts, each used once
  Emails,    \* normalised addresses
  Threads,
  MaxHashes, \* bound on the passwords ever set
  MaxVisits, \* bound on the logins, logouts and expiries
  MaxMails   \* bound on the links ever mailed

ASSUME AccountsAssumption ==
  MaxHashes \in Nat /\ MaxVisits \in Nat /\ MaxMails \in Nat

VARIABLES
  row,     \* Interviewer: the accounts there are
  tokens,  \* sessions' tokens, in the browsers
  links,   \* links that have been mailed
  th,      \* what each thread keeps between its reads and its commit
  hashes,  \* history: passwords set so far; numbers them
  visits, \* history, for the bound
  mails,   \* history, for the bound
  gone,    \* history: accounts deleted
  first,   \* history: the address each account registered with
  opened,  \* history: whose links were opened, and where they were mailed
  resets,  \* history: the links that set a password, and which
  raced    \* history: accounts with two changes of password in hand at once

history == <<gone, first, opened, resets, raced>>
bounds == <<hashes, visits, mails>>
vars == <<row, tokens, links, th, bounds, history>>

-----------------------------------------------------------------------------
Interviewer == [email : Emails, password_hash : 1..MaxHashes,
                token_version : 0..MaxHashes, verified : BOOLEAN]

\* password: history, the one that was proven to get it.
Token == [use : {"access", "refresh"}, sub : Ids, ver : 0..MaxHashes,
          password : 1..MaxHashes]

\* email: the account's when the link was made; to: where it was mailed.
Link ==
  [use : {"verify"}, sub : Ids, email : Emails, to : Emails]
    \cup [use : {"change_email"}, sub : Ids, email : Emails, to : Emails]
    \cup [use : {"reset"}, sub : Ids, email : Emails, to : Emails, pwd : 1..MaxHashes]

Idle == [pc |-> "idle"]
Thread ==
  {Idle}
    \cup [pc : {"change"}, of : Ids, ver : 0..MaxHashes]
    \cup [pc : {"issue"}, of : Ids, password : 1..MaxHashes]
    \cup [pc : {"link"}, of : Ids, link : Link, ver : 0..MaxHashes]
    \cup [pc : {"delete"}, of : Ids]

TypeOK ==
  /\ DOMAIN row \subseteq Ids /\ \A i \in DOMAIN row : row[i] \in Interviewer
  /\ tokens \subseteq Token
  /\ links \subseteq Link
  /\ th \in [Threads -> Thread]
  /\ hashes \in 0..MaxHashes /\ visits \in 0..MaxVisits /\ mails \in 0..MaxMails
  /\ gone \subseteq Ids /\ gone \cap DOMAIN row = {}
  /\ DOMAIN first = gone \cup DOMAIN row /\ \A i \in DOMAIN first : first[i] \in Emails
  /\ opened \subseteq Ids \X Emails
  /\ resets \subseteq [link : Link, password : 1..MaxHashes]
  /\ raced \subseteq Ids

Init ==
  /\ row = <<>> /\ tokens = {} /\ links = {}
  /\ th = [t \in Threads |-> Idle]
  /\ hashes = 0 /\ visits = 0 /\ mails = 0
  /\ gone = {} /\ first = <<>>
  /\ opened = {} /\ resets = {} /\ raced = {}

At(t, pc) == th[t].pc = pc
Goto(t, l) == th' = [th EXCEPT ![t] = l]
Live == DOMAIN row
Taken(e) == \E i \in Live : row[i].email = e

\* Interviewer.id: a sequence; the id of a deleted account does not come back.
Fresh(i) == i \notin DOMAIN first

Put(f, i, v) == [j \in DOMAIN f \cup {i} |-> IF j = i THEN v ELSE f[j]]

\* An UPDATE by id, where the row is still there; r differs from the row as it
\* is in the columns the request has set.
Store(i, r) == row' = [j \in Live |-> IF j = i THEN r ELSE row[j]]

\* _set_password: a new hash, and a version that voids every older token.
SetPasswordWrong(r, ver) == [r EXCEPT !.password_hash = hashes + 1]
SetPassword(r, ver) == [r EXCEPT !.password_hash = hashes + 1, !.token_version = ver + 1]
Hash == hashes < MaxHashes /\ hashes' = hashes + 1

\* _issue_session: a token of each use, under the version loaded.
Session(i, password) ==
  {[use |-> u, sub |-> i, ver |-> row[i].token_version, password |-> password] :
     u \in {"access", "refresh"}}

\* _session_interviewer.
Accepted(k) == k.sub \in Live /\ k.ver = row[k.sub].token_version

Mail(l) == mails < MaxMails /\ mails' = mails + 1 /\ links' = links \cup {l}

-----------------------------------------------------------------------------
\* register: the row, and a link to confirm its address.
Register(i, e) ==
  /\ Fresh(i) /\ ~ Taken(e)
  /\ Hash
  /\ row' = Put(row, i, [email |-> e, password_hash |-> hashes + 1,
                         token_version |-> 0, verified |-> FALSE])
  /\ first' = Put(first, i, e)
  /\ Mail([use |-> "verify", sub |-> i, email |-> e, to |-> e])
  /\ UNCHANGED <<tokens, th, visits, gone, opened, resets, raced>>

Login(i) ==
  /\ i \in Live
  /\ visits < MaxVisits /\ visits' = visits + 1
  /\ tokens' = tokens \cup Session(i, row[i].password_hash)
  /\ UNCHANGED <<row, links, th, hashes, mails, history>>

\* refresh_session.
Refresh(k) ==
  /\ k.use = "refresh" /\ Accepted(k)
  /\ tokens' = tokens \cup Session(k.sub, k.password)
  /\ UNCHANGED <<row, links, th, bounds, history>>

Lose(k) ==
  /\ visits < MaxVisits /\ visits' = visits + 1
  /\ tokens' = tokens \ {k}
  /\ UNCHANGED <<row, links, th, hashes, mails, history>>

\* logout drops this browser's cookie, and nothing else.
Logout(k) == k.use = "refresh" /\ Lose(k)

\* An access token lives for minutes.
Expire(k) == k.use = "access" /\ Lose(k)

-----------------------------------------------------------------------------
(* Links. *)

\* resend_verification; forgot_password, which needs no session.
ResendVerification(k) ==
  /\ k.use = "access" /\ Accepted(k) /\ ~ row[k.sub].verified
  /\ Mail([use |-> "verify", sub |-> k.sub, email |-> row[k.sub].email, to |-> row[k.sub].email])
  /\ UNCHANGED <<row, tokens, th, hashes, visits, history>>

ForgotPassword(i) ==
  /\ i \in Live
  /\ Mail([use |-> "reset", sub |-> i, email |-> row[i].email, to |-> row[i].email,
           pwd |-> row[i].password_hash])
  /\ UNCHANGED <<row, tokens, th, hashes, visits, history>>

\* update_me: a new address is only asked for, and its mailbox asked; the
\* caller has proven the password again.
UpdateMeWrong(k, e) ==
  /\ k.use = "access" /\ Accepted(k)
  /\ e # row[k.sub].email /\ ~ Taken(e)
  /\ Mail([use |-> "change_email", sub |-> k.sub, email |-> row[k.sub].email, to |-> e])
  /\ Store(k.sub, [row[k.sub] EXCEPT !.email = e])
  /\ UNCHANGED <<tokens, th, hashes, visits, history>>
UpdateMe(k, e) ==
  /\ k.use = "access" /\ Accepted(k)
  /\ e # row[k.sub].email /\ ~ Taken(e)
  /\ Mail([use |-> "change_email", sub |-> k.sub, email |-> row[k.sub].email, to |-> e])
  /\ UNCHANGED <<row, tokens, th, hashes, visits, history>>

\* interviewer_from_action_token: what a link is bound to still holds.
BoundToAddress(l) ==
  l.use \in {"verify", "change_email"} => l.email = row[l.sub].email
BoundToPasswordWrong(l) == TRUE
BoundToPassword(l) == l.use = "reset" => l.pwd = row[l.sub].password_hash

\* A thread that is about to set i's password, or has just set it: of two at
\* once, the account is marked.
SetsPassword(t, i) ==
  /\ th[t].pc # "idle" /\ th[t].of = i
  /\ \/ th[t].pc \in {"change", "issue"}
     \/ th[t].pc = "link" /\ th[t].link.use = "reset"
Racing(t, i) ==
  raced' = IF \E u \in Threads \ {t} : SetsPassword(u, i) THEN raced \cup {i} ELSE raced

\* verify_email, reset_password, confirm_email_change, up to their checks.
OpenLink(t, l) ==
  /\ At(t, "idle")
  /\ l.sub \in Live /\ BoundToAddress(l) /\ BoundToPassword(l)
  /\ l.use = "change_email" => \A i \in Live : row[i].email = l.to => i = l.sub
  /\ Goto(t, [pc |-> "link", of |-> l.sub, link |-> l, ver |-> row[l.sub].token_version])
  /\ IF l.use = "reset" THEN Racing(t, l.sub) ELSE raced' = raced
  /\ UNCHANGED <<row, tokens, links, bounds, gone, first, opened, resets>>

Opened(l) == opened' = opened \cup {<<l.sub, l.to>>}

\* Each commit is refused whole once the account has gone.
CommitVerify(t) ==
  LET l == th[t].link
  IN /\ At(t, "link") /\ l.use = "verify"
     /\ Store(l.sub, [row[l.sub] EXCEPT !.verified = TRUE]) /\ Opened(l)
     /\ Goto(t, Idle)
     /\ UNCHANGED <<tokens, links, bounds, gone, first, resets, raced>>

CommitReset(t) ==
  LET l == th[t].link
  IN /\ At(t, "link") /\ l.use = "reset"
     /\ Hash
     /\ Store(l.sub, SetPassword([row[l.sub] EXCEPT !.verified = TRUE], th[t].ver))
     /\ Opened(l)
     /\ resets' = IF l.sub \in Live
                  THEN resets \cup {[link |-> l, password |-> hashes + 1]} ELSE resets
     /\ Goto(t, Idle)
     /\ UNCHANGED <<tokens, links, visits, mails, gone, first, raced>>

\* ... and a move also where another account took the address meanwhile.
CommitMove(t) ==
  LET l == th[t].link
      free == \A i \in Live \ {l.sub} : row[i].email # l.to
  IN /\ At(t, "link") /\ l.use = "change_email"
     /\ IF free /\ l.sub \in Live
        THEN Store(l.sub, [row[l.sub] EXCEPT !.email = l.to, !.verified = TRUE])
        ELSE UNCHANGED row
     /\ Opened(l)
     /\ Goto(t, Idle)
     /\ UNCHANGED <<tokens, links, bounds, gone, first, resets, raced>>

-----------------------------------------------------------------------------
(* change_password and delete_me: a session, and the password again. *)

ChangePassword(t, k) ==
  /\ At(t, "idle")
  /\ k.use = "access" /\ Accepted(k)
  /\ Goto(t, [pc |-> "change", of |-> k.sub, ver |-> row[k.sub].token_version])
  /\ Racing(t, k.sub)
  /\ UNCHANGED <<row, tokens, links, bounds, gone, first, opened, resets>>

CommitChange(t) ==
  LET i == th[t].of
  IN /\ At(t, "change")
     /\ Hash
     /\ Store(i, SetPassword(row[i], th[t].ver))
     /\ Goto(t, IF i \in Live THEN [pc |-> "issue", of |-> i, password |-> hashes + 1] ELSE Idle)
     /\ UNCHANGED <<tokens, links, visits, mails, history>>

\* The session it hands out is of the row as refreshed.
Issue(t) ==
  LET i == th[t].of
  IN /\ At(t, "issue")
     /\ tokens' = IF i \in Live THEN tokens \cup Session(i, th[t].password) ELSE tokens
     /\ Goto(t, Idle)
     /\ UNCHANGED <<row, links, bounds, history>>

DeleteMe(t, k) ==
  /\ At(t, "idle")
  /\ k.use = "access" /\ Accepted(k)
  /\ Goto(t, [pc |-> "delete", of |-> k.sub])
  /\ UNCHANGED <<row, tokens, links, bounds, history>>

CommitDeletion(t) ==
  LET i == th[t].of
  IN /\ At(t, "delete")
     /\ row' = [j \in Live \ {i} |-> row[j]]
     /\ gone' = gone \cup {i}
     /\ Goto(t, Idle)
     /\ UNCHANGED <<tokens, links, bounds, first, opened, resets, raced>>

-----------------------------------------------------------------------------
Handler(t) ==
  \/ \E l \in links : OpenLink(t, l)
  \/ CommitVerify(t) \/ CommitReset(t) \/ CommitMove(t)
  \/ \E k \in tokens : ChangePassword(t, k) \/ DeleteMe(t, k)
  \/ CommitChange(t) \/ Issue(t) \/ CommitDeletion(t)

Next ==
  \/ \E i \in Ids : (\E e \in Emails : Register(i, e)) \/ Login(i) \/ ForgotPassword(i)
  \/ \E k \in tokens :
       \/ Refresh(k) \/ Logout(k) \/ Expire(k) \/ ResendVerification(k)
       \/ \E e \in Emails : UpdateMe(k, e)
  \/ \E t \in Threads : Handler(t)

Spec == Init /\ [][Next]_vars

-----------------------------------------------------------------------------
(* Properties. *)

\* _set_password: every token minted before is void from there on, so whoever
\* is signed in has proven the password in force - unless two requests set it
\* at once.
SessionsFollowPassword ==
  \A k \in tokens : Accepted(k) /\ k.sub \notin raced =>
    k.password = row[k.sub].password_hash

\* create_reset_token: a reset link is single-use, whatever else changes the
\* password - unless two requests had it open at once.
ResetOnce ==
  \A r, u \in resets : r.link = u.link /\ r.link.sub \notin raced => r = u

\* update_me, email_verified_at: an address is confirmed, and an account moved
\* to it, by a link that was opened in its mailbox.
AddressProven ==
  \A i \in Live : row[i].verified \/ row[i].email # first[i] => <<i, row[i].email>> \in opened

=============================================================================
