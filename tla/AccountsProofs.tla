---------------------------- MODULE AccountsProofs ----------------------------
(***************************************************************************)
(* Proofs about Accounts, for every number of accounts, addresses,         *)
(* requests, passwords and links, however they overlap.                    *)
(***************************************************************************)
EXTENDS Accounts, TLAPS

-----------------------------------------------------------------------------
(***************************************************************************)
(* Types.  Whatever names an account names one that was registered, and    *)
(* each password ever set has a number of its own.                         *)
(***************************************************************************)
Known ==
  /\ \A k \in tokens : k.sub \in DOMAIN first
  /\ \A l \in links : l.sub \in DOMAIN first
  /\ \A t \in Threads : th[t].pc # "idle" => th[t].of \in DOMAIN first

HoldsLink(t) == th[t].pc = "link" => th[t].link \in links /\ th[t].of = th[t].link.sub

Numbered ==
  /\ \A i \in Live : row[i].password_hash <= hashes /\ row[i].token_version < hashes
  /\ \A t \in Threads : th[t].pc \in {"change", "link"} => th[t].ver < hashes

Typed == TypeOK /\ Known /\ (\A t \in Threads : HoldsLink(t)) /\ Numbered

LEMMA InitTyped == Init => Typed
BY AccountsAssumption DEF Init, Typed, TypeOK, Known, HoldsLink, Numbered, Idle, Thread, Live

\* An UPDATE leaves every other row alone, and the row where it was.
LEMMA StoreRow ==
  ASSUME NEW i, NEW r, Store(i, r)
  PROVE  /\ Live' = Live
         /\ \A j \in Live : row'[j] = IF j = i THEN r ELSE row[j]
BY DEF Store, Live

LEMMA PutRow ==
  ASSUME NEW i, NEW r, row' = Put(row, i, r)
  PROVE  /\ Live' = Live \cup {i}
         /\ row'[i] = r
         /\ \A j \in Live \ {i} : row'[j] = row[j]
BY DEF Put, Live

LEMMA PutFirst ==
  ASSUME NEW i, NEW e, first' = Put(first, i, e)
  PROVE  /\ DOMAIN first' = DOMAIN first \cup {i}
         /\ first'[i] = e
         /\ \A j \in DOMAIN first \ {i} : first'[j] = first[j]
BY DEF Put

\* What a thread is left with.
LEMMA GotoThread ==
  ASSUME th \in [Threads -> Thread], NEW t \in Threads, NEW l \in Thread, Goto(t, l)
  PROVE  /\ th' \in [Threads -> Thread]
         /\ th'[t] = l
         /\ \A u \in Threads \ {t} : th'[u] = th[u]
BY DEF Goto

LEMMA IdleThread == Idle \in Thread /\ Idle.pc = "idle"
BY DEF Idle, Thread

LEMMA LinkSub == \A l \in Link : l.sub \in Ids /\ l.to \in Emails /\ l.use \in {"verify", "change_email", "reset"}
BY DEF Link

LEMMA SessionType ==
  ASSUME Typed, NEW i \in Live, NEW p \in 1..MaxHashes
  PROVE  /\ Session(i, p) \subseteq Token
         /\ \A k \in Session(i, p) :
              k.sub = i /\ k.ver = row[i].token_version /\ k.password = p
BY DEF Session, Token, Typed, TypeOK, Interviewer, Live

LEMMA ThreadVer ==
  ASSUME Typed
  PROVE  /\ hashes \in 0..MaxHashes
         /\ \A t \in Threads : th[t].pc \in {"change", "link"} => th[t].ver \in 0..MaxHashes
<1>1. ASSUME NEW t \in Threads, th[t].pc \in {"change", "link"} PROVE th[t].ver \in 0..MaxHashes
  <2>1. th[t] \in Thread /\ th[t].pc \notin {"idle", "issue", "delete"}
    BY <1>1 DEF Typed, TypeOK
  <2> QED
    BY <2>1, IdleThread DEF Thread
<1> QED
  BY <1>1 DEF Typed, TypeOK

\* What a token, a link or a thread speaks of.
LEMMA Registered ==
  ASSUME Typed
  PROVE  /\ Live \subseteq DOMAIN first /\ DOMAIN first \subseteq Ids
         /\ \A i \in Live : row[i] \in Interviewer
BY DEF Typed, TypeOK, Live

-----------------------------------------------------------------------------
LEMMA RegisterTyped ==
  ASSUME Typed, NEW i \in Ids, NEW e \in Emails, Register(i, e)
  PROVE  Typed'
<1> DEFINE r == [email |-> e, password_hash |-> hashes + 1, token_version |-> 0, verified |-> FALSE]
           l == [use |-> "verify", sub |-> i, email |-> e, to |-> e]
<1>1. hashes \in 0..MaxHashes /\ hashes' = hashes + 1 /\ hashes' \in 0..MaxHashes
  BY AccountsAssumption DEF Register, Hash, Typed, TypeOK
<1>2. r \in Interviewer /\ r.password_hash = hashes' /\ r.token_version = 0
  <2>1. hashes + 1 \in 1..MaxHashes /\ 0 \in 0..MaxHashes
    BY <1>1, AccountsAssumption
  <2> QED
    BY <1>1, <2>1 DEF Interviewer
<1>3. l \in Link /\ l.sub = i
  BY DEF Link
<1>4. Live' = Live \cup {i} /\ row'[i] = r /\ \A j \in Live \ {i} : row'[j] = row[j]
  BY PutRow DEF Register
<1>5. DOMAIN first' = DOMAIN first \cup {i} /\ first'[i] = e
      /\ \A j \in DOMAIN first \ {i} : first'[j] = first[j]
  BY PutFirst DEF Register
<1>6. links' = links \cup {l} /\ mails' \in 0..MaxMails
  BY AccountsAssumption DEF Register, Mail, Typed, TypeOK
<1>7. UNCHANGED <<tokens, th, visits, gone, opened, resets, raced>> /\ i \notin DOMAIN first
  BY DEF Register, Fresh
<1> HIDE DEF r, l
<1>8. TypeOK'
  BY <1>1, <1>2, <1>3, <1>4, <1>5, <1>6, <1>7 DEF Typed, TypeOK, Live
<1>9. Known'
  BY <1>3, <1>5, <1>6, <1>7 DEF Typed, Known
<1>10. \A t \in Threads : HoldsLink(t)'
  BY <1>6, <1>7 DEF Typed, HoldsLink
<1>11. Numbered'
  <2>1. \A j \in Live' : row'[j].password_hash <= hashes' /\ row'[j].token_version < hashes'
    BY <1>1, <1>2, <1>4 DEF Typed, TypeOK, Numbered, Live, Interviewer
  <2>2. \A t \in Threads : th'[t].pc \in {"change", "link"} => th'[t].ver < hashes'
    <3>1. \A t \in Threads : th'[t] = th[t]
      BY <1>7
    <3> QED
      BY <1>1, <3>1, ThreadVer DEF Typed, Numbered
  <2> QED
    BY <2>1, <2>2 DEF Numbered
<1> QED
  BY <1>8, <1>9, <1>10, <1>11 DEF Typed

\* A request that only hands out or takes away tokens, or mails a link.
LEMMA HandOutTyped ==
  ASSUME Typed, UNCHANGED <<row, th, hashes, history>>,
         tokens' \subseteq Token, \A k \in tokens' : k.sub \in DOMAIN first,
         links \subseteq links', links' \subseteq Link, \A l \in links' : l.sub \in DOMAIN first,
         visits' \in 0..MaxVisits, mails' \in 0..MaxMails
  PROVE  Typed'
<1>1. UNCHANGED <<gone, first, opened, resets, raced>>
  BY DEF history
<1>2. TypeOK'
  BY <1>1 DEF Typed, TypeOK
<1>3. Known'
  BY <1>1 DEF Typed, Known
<1>4. \A t \in Threads : HoldsLink(t)'
  BY DEF Typed, HoldsLink
<1>5. Numbered'
  BY DEF Typed, Numbered, Live
<1> QED
  BY <1>2, <1>3, <1>4, <1>5 DEF Typed

LEMMA SessionsTyped ==
  ASSUME Typed,
         \/ \E i \in Ids : Login(i)
         \/ \E k \in tokens : Refresh(k) \/ Lose(k)
  PROVE  Typed'
<1>1. \A j \in Live : row[j].password_hash \in 1..MaxHashes
  BY DEF Typed, TypeOK, Interviewer, Live
<1>2. \A k \in tokens : k.password \in 1..MaxHashes /\ k.sub \in DOMAIN first
  BY DEF Typed, TypeOK, Token, Known
<1>3. Live \subseteq DOMAIN first /\ tokens \subseteq Token /\ links \subseteq Link
      /\ \A l \in links : l.sub \in DOMAIN first
  BY DEF Typed, TypeOK, Live, Known
<1>4. visits' \in 0..MaxVisits /\ mails' \in 0..MaxMails
  BY AccountsAssumption DEF Login, Refresh, Lose, bounds, Typed, TypeOK
<1>5. tokens' \subseteq Token /\ \A m \in tokens' : m.sub \in DOMAIN first
  <2>1. ASSUME NEW i \in Ids, Login(i) PROVE tokens' \subseteq Token /\ \A m \in tokens' : m.sub \in DOMAIN first
    BY <1>1, <1>2, <1>3, <2>1, SessionType DEF Login
  <2>2. ASSUME NEW k \in tokens, Refresh(k) PROVE tokens' \subseteq Token /\ \A m \in tokens' : m.sub \in DOMAIN first
    BY <1>2, <1>3, <2>2, SessionType DEF Refresh, Accepted
  <2>3. ASSUME NEW k \in tokens, Lose(k) PROVE tokens' \subseteq Token /\ \A m \in tokens' : m.sub \in DOMAIN first
    BY <1>2, <1>3, <2>3 DEF Lose
  <2> QED
    BY <2>1, <2>2, <2>3
<1>6. UNCHANGED <<row, th, hashes, history, links>>
  BY DEF Login, Refresh, Lose, bounds
<1> QED
  BY <1>3, <1>4, <1>5, <1>6, HandOutTyped

LEMMA MailsTyped ==
  ASSUME Typed,
         \/ \E k \in tokens : ResendVerification(k) \/ \E e \in Emails : UpdateMe(k, e)
         \/ \E i \in Ids : ForgotPassword(i)
  PROVE  Typed'
<1>1. /\ Live \subseteq DOMAIN first /\ Live \subseteq Ids /\ tokens \subseteq Token /\ links \subseteq Link
      /\ \A l \in links : l.sub \in DOMAIN first
      /\ \A k \in tokens : k.sub \in DOMAIN first
      /\ visits \in 0..MaxVisits
  BY DEF Typed, TypeOK, Live, Known
<1>2. \A i \in Live : row[i].email \in Emails /\ row[i].password_hash \in 1..MaxHashes
  BY DEF Typed, TypeOK, Live, Interviewer
<1>3. SUFFICES ASSUME NEW l \in Link, Mail(l), l.sub \in Live,
                      UNCHANGED <<row, tokens, th, hashes, visits, history>>
               PROVE  Typed'
  <2>1. ASSUME NEW k \in tokens, ResendVerification(k) PROVE Typed'
    <3> DEFINE l == [use |-> "verify", sub |-> k.sub, email |-> row[k.sub].email,
                     to |-> row[k.sub].email]
    <3>1. l \in Link /\ l.sub \in Live
      BY <1>1, <1>2, <2>1 DEF ResendVerification, Accepted, Link
    <3> QED
      BY <1>3, <2>1, <3>1 DEF ResendVerification
  <2>2. ASSUME NEW k \in tokens, NEW e \in Emails, UpdateMe(k, e) PROVE Typed'
    <3> DEFINE l == [use |-> "change_email", sub |-> k.sub, email |-> row[k.sub].email, to |-> e]
    <3>1. l \in Link /\ l.sub \in Live
      BY <1>1, <1>2, <2>2 DEF UpdateMe, Accepted, Link
    <3> QED
      BY <1>3, <2>2, <3>1 DEF UpdateMe
  <2>3. ASSUME NEW i \in Ids, ForgotPassword(i) PROVE Typed'
    <3> DEFINE l == [use |-> "reset", sub |-> i, email |-> row[i].email,
                     to |-> row[i].email, pwd |-> row[i].password_hash]
    <3>1. l \in Link /\ l.sub \in Live
      BY <1>1, <1>2, <2>3 DEF ForgotPassword, Link
    <3> QED
      BY <1>3, <2>3, <3>1 DEF ForgotPassword
  <2> QED
    BY <2>1, <2>2, <2>3
<1>4. mails' \in 0..MaxMails /\ links' = links \cup {l}
  BY <1>3, AccountsAssumption DEF Mail, Typed, TypeOK
<1>5. links \subseteq links' /\ links' \subseteq Link /\ \A m \in links' : m.sub \in DOMAIN first
  BY <1>1, <1>3, <1>4
<1>6. tokens' \subseteq Token /\ (\A k \in tokens' : k.sub \in DOMAIN first) /\ visits' \in 0..MaxVisits
  BY <1>1, <1>3
<1> QED
  BY <1>3, <1>4, <1>5, <1>6, HandOutTyped

\* A step of a thread: what it is left with, and what it has written.
LEMMA ThreadTyped ==
  ASSUME Typed, NEW t \in Threads, NEW l \in Thread, Goto(t, l),
         l.pc # "idle" => l.of \in DOMAIN first,
         l.pc = "link" => l.link \in links /\ l.of = l.link.sub,
         l.pc \in {"change", "link"} => l.ver < hashes,
         hashes' \in 0..MaxHashes, hashes <= hashes',
         \A i \in Live' : /\ row'[i] \in Interviewer
                          /\ row'[i].password_hash <= hashes' /\ row'[i].token_version < hashes',
         gone' \cap Live' = {}, gone' \cup Live' = gone \cup Live, first' = first,
         tokens' \subseteq Token, \A k \in tokens' : k.sub \in DOMAIN first,
         UNCHANGED <<links, visits, mails>>,
         opened' \subseteq Ids \X Emails,
         resets' \subseteq [link : Link, password : 1..MaxHashes],
         raced' \subseteq Ids
  PROVE  Typed'
<1>1. th' \in [Threads -> Thread] /\ th'[t] = l /\ \A u \in Threads \ {t} : th'[u] = th[u]
  BY GotoThread DEF Typed, TypeOK
<1>2. TypeOK'
  BY <1>1 DEF Typed, TypeOK, Live
<1>3. Known'
  <2>1. ASSUME NEW u \in Threads, th'[u].pc # "idle" PROVE th'[u].of \in DOMAIN first
    BY <1>1, <2>1 DEF Typed, Known
  <2> QED
    BY <2>1 DEF Typed, Known
<1>4. \A u \in Threads : HoldsLink(u)'
  BY <1>1 DEF Typed, HoldsLink
<1>5. Numbered'
  <2>1. ASSUME NEW u \in Threads, th'[u].pc \in {"change", "link"} PROVE th'[u].ver < hashes'
    <3>1. hashes \in 0..MaxHashes
      BY ThreadVer
    <3>2. CASE u = t
      <4>1. l.ver \in 0..MaxHashes
        <5>1. l.pc \notin {"idle", "issue", "delete"}
          BY <1>1, <2>1, <3>2
        <5> QED
          BY <5>1, IdleThread DEF Thread
      <4> QED
        BY <1>1, <2>1, <3>1, <3>2, <4>1
    <3>3. CASE u # t
      <4>1. th'[u] = th[u]
        BY <1>1, <3>3
      <4> QED
        BY <2>1, <3>1, <4>1, ThreadVer DEF Typed, Numbered
    <3> QED
      BY <3>2, <3>3
  <2> QED
    BY <2>1 DEF Numbered
<1> QED
  BY <1>2, <1>3, <1>4, <1>5 DEF Typed

LEMMA RacingType ==
  ASSUME Typed, NEW t \in Threads, NEW i \in Ids, Racing(t, i)
  PROVE  raced' \subseteq Ids
BY DEF Racing, SetsPassword, Typed, TypeOK

\* A request that has only read so far.
LEMMA BegunTyped ==
  ASSUME Typed, NEW t \in Threads, NEW l \in Thread, Goto(t, l),
         l.pc # "idle" => l.of \in DOMAIN first,
         l.pc = "link" => l.link \in links /\ l.of = l.link.sub,
         l.pc \in {"change", "link"} => l.ver < hashes,
         UNCHANGED <<row, tokens, links, bounds, gone, first, opened, resets>>,
         raced' \subseteq Ids
  PROVE  Typed'
<1>1. UNCHANGED <<row, tokens, links, hashes, visits, mails, gone, first, opened, resets>>
  BY DEF bounds
<1>2. Live' = Live /\ hashes' \in 0..MaxHashes /\ hashes <= hashes'
  BY <1>1, AccountsAssumption, ThreadVer DEF Live
<1>3. /\ \A i \in Live : /\ row[i] \in Interviewer
                         /\ row[i].password_hash <= hashes /\ row[i].token_version < hashes
      /\ gone \cap Live = {} /\ tokens \subseteq Token
      /\ \A k \in tokens : k.sub \in DOMAIN first
      /\ opened \subseteq Ids \X Emails
      /\ resets \subseteq [link : Link, password : 1..MaxHashes]
  BY DEF Typed, TypeOK, Numbered, Known, Live
<1> QED
  BY <1>1, <1>2, <1>3, ThreadTyped

LEMMA OpenLinkTyped ==
  ASSUME Typed, NEW t \in Threads, NEW l \in links, OpenLink(t, l)
  PROVE  Typed'
<1> DEFINE m == [pc |-> "link", of |-> l.sub, link |-> l, ver |-> row[l.sub].token_version]
<1>1. l.sub \in Live /\ l \in Link /\ l.sub \in Ids /\ l.sub \in DOMAIN first
  BY DEF OpenLink, Typed, TypeOK, Known, Live
<1>2. row[l.sub].token_version \in 0..MaxHashes /\ row[l.sub].token_version < hashes
  BY <1>1 DEF Typed, TypeOK, Numbered, Interviewer, Live
<1>3. m \in Thread
  BY <1>1, <1>2 DEF Thread
<1>4. raced' \subseteq Ids
  BY <1>1, RacingType DEF OpenLink, Typed, TypeOK
<1> QED
  BY <1>1, <1>2, <1>3, <1>4, BegunTyped DEF OpenLink

LEMMA ChangePasswordTyped ==
  ASSUME Typed, NEW t \in Threads, NEW k \in tokens, ChangePassword(t, k)
  PROVE  Typed'
<1> DEFINE m == [pc |-> "change", of |-> k.sub, ver |-> row[k.sub].token_version]
<1>1. k.sub \in Live /\ k.sub \in Ids /\ k.sub \in DOMAIN first
  BY DEF ChangePassword, Accepted, Typed, TypeOK, Known, Live
<1>2. row[k.sub].token_version \in 0..MaxHashes /\ row[k.sub].token_version < hashes
  BY <1>1 DEF Typed, TypeOK, Numbered, Interviewer, Live
<1>3. m \in Thread
  BY <1>1, <1>2 DEF Thread
<1>4. raced' \subseteq Ids
  BY <1>1, RacingType DEF ChangePassword
<1> QED
  BY <1>1, <1>2, <1>3, <1>4, BegunTyped DEF ChangePassword

LEMMA DeleteMeTyped ==
  ASSUME Typed, NEW t \in Threads, NEW k \in tokens, DeleteMe(t, k)
  PROVE  Typed'
<1> DEFINE m == [pc |-> "delete", of |-> k.sub]
<1>1. k.sub \in Ids /\ k.sub \in DOMAIN first
  BY DEF DeleteMe, Accepted, Typed, TypeOK, Known, Live
<1>2. m \in Thread
  BY <1>1 DEF Thread
<1> QED
  BY <1>1, <1>2, BegunTyped DEF DeleteMe, history, Typed, TypeOK

\* SetPassword, of a row that is there.
LEMMA SetPasswordType ==
  ASSUME Typed, NEW r \in Interviewer, NEW v \in 0..MaxHashes, v < hashes, Hash
  PROVE  /\ SetPassword(r, v) \in Interviewer
         /\ SetPassword(r, v).password_hash = hashes + 1
         /\ SetPassword(r, v).token_version = v + 1
         /\ SetPassword(r, v).email = r.email
         /\ SetPassword(r, v).verified = r.verified
         /\ hashes' = hashes + 1 /\ hashes' \in 0..MaxHashes /\ hashes <= hashes' /\ v + 1 < hashes'
<1>1. hashes \in 0..MaxHashes /\ hashes < MaxHashes /\ hashes' = hashes + 1 /\ MaxHashes \in Nat
  BY AccountsAssumption DEF Typed, TypeOK, Hash
<1>2. v + 1 \in 0..MaxHashes /\ hashes + 1 \in 1..MaxHashes /\ hashes <= hashes + 1 /\ v + 1 < hashes + 1
  BY <1>1
<1> DEFINE h == hashes + 1
           w == v + 1
           s == [r EXCEPT !.password_hash = h, !.token_version = w]
<1>3. SetPassword(r, v) = s /\ h \in 1..MaxHashes /\ w \in 0..MaxHashes
  BY <1>2 DEF SetPassword
<1> HIDE DEF h, w
<1>4. s \in Interviewer /\ s.password_hash = h /\ s.token_version = w
      /\ s.email = r.email /\ s.verified = r.verified
  BY <1>3 DEF Interviewer
<1> QED
  BY <1>1, <1>2, <1>3, <1>4 DEF h, w

\* The thread and its link, at the commit.
LEMMA LinkInHand ==
  ASSUME Typed, NEW t \in Threads, At(t, "link")
  PROVE  /\ th[t].link \in links /\ th[t].link \in Link /\ th[t].of = th[t].link.sub
         /\ th[t].link.sub \in DOMAIN first /\ th[t].link.sub \in Ids
         /\ th[t].link.to \in Emails
         /\ th[t].ver \in 0..MaxHashes /\ th[t].ver < hashes
<1>1. th[t].link \in links /\ th[t].of = th[t].link.sub /\ th[t].ver < hashes
  BY DEF Typed, HoldsLink, At, Numbered
<1> QED
  BY <1>1, ThreadVer, Registered, LinkSub DEF Typed, TypeOK, Known, At

\* A commit: one row, the password's number, and what is on record of it.
LEMMA CommitTyped ==
  ASSUME Typed, NEW t \in Threads, NEW l \in Thread, Goto(t, l),
         l.pc \notin {"change", "link"}, l.pc # "idle" => l.of \in DOMAIN first,
         NEW i \in Ids, NEW r, Store(i, r),
         i \in Live => r \in Interviewer /\ r.password_hash <= hashes' /\ r.token_version < hashes',
         hashes' \in 0..MaxHashes, hashes <= hashes',
         UNCHANGED <<tokens, links, visits, mails, gone, first, raced>>,
         opened' \subseteq Ids \X Emails,
         resets' \subseteq [link : Link, password : 1..MaxHashes]
  PROVE  Typed'
<1>1. Live' = Live /\ \A j \in Live : row'[j] = IF j = i THEN r ELSE row[j]
  BY StoreRow
<1>2. ASSUME NEW j \in Live'
      PROVE  /\ row'[j] \in Interviewer
             /\ row'[j].password_hash <= hashes' /\ row'[j].token_version < hashes'
  <2>1. CASE j = i
    BY <1>1, <1>2, <2>1
  <2>2. CASE j # i
    <3>1. /\ row'[j] = row[j] /\ row[j] \in Interviewer
          /\ row[j].password_hash <= hashes /\ row[j].token_version < hashes
      BY <1>1, <1>2, <2>2 DEF Typed, TypeOK, Numbered, Live
    <3>2. row[j].password_hash \in Nat /\ row[j].token_version \in Nat /\ hashes \in Nat /\ hashes' \in Nat
      BY <3>1, AccountsAssumption, ThreadVer DEF Interviewer
    <3> QED
      BY <3>1, <3>2
  <2> QED
    BY <2>1, <2>2
<1>3. gone \cap Live = {} /\ tokens \subseteq Token /\ (\A k \in tokens : k.sub \in DOMAIN first)
      /\ raced \subseteq Ids
  BY DEF Typed, TypeOK, Known, Live
<1> QED
  BY <1>1, <1>2, <1>3, ThreadTyped

LEMMA OpenedType ==
  ASSUME Typed, NEW l \in Link, Opened(l)
  PROVE  opened' \subseteq Ids \X Emails
BY LinkSub DEF Opened, Typed, TypeOK

LEMMA CommitVerifyTyped ==
  ASSUME Typed, NEW t \in Threads, CommitVerify(t)
  PROVE  Typed'
<1> DEFINE i == th[t].link.sub
           r == [row[i] EXCEPT !.verified = TRUE]
<1>1. i \in Ids /\ th[t].link \in Link /\ Store(i, r)
  BY LinkInHand DEF CommitVerify
<1>2. i \in Live => r \in Interviewer /\ r.password_hash <= hashes /\ r.token_version < hashes
  BY DEF Typed, TypeOK, Numbered, Live, Interviewer
<1>3. opened' \subseteq Ids \X Emails
  BY <1>1, OpenedType DEF CommitVerify
<1>4. hashes \in 0..MaxHashes /\ hashes <= hashes
  BY AccountsAssumption, ThreadVer
<1>5. UNCHANGED <<tokens, links, hashes, visits, mails, gone, first, resets, raced>> /\ Goto(t, Idle)
  BY DEF CommitVerify, bounds
<1>6. /\ resets \subseteq [link : Link, password : 1..MaxHashes]
  BY DEF Typed, TypeOK
<1> HIDE DEF i, r
<1> QED
  BY <1>1, <1>2, <1>3, <1>4, <1>5, <1>6, IdleThread, CommitTyped

LEMMA CommitResetTyped ==
  ASSUME Typed, NEW t \in Threads, CommitReset(t)
  PROVE  Typed'
<1> DEFINE i == th[t].link.sub
           q == [row[i] EXCEPT !.verified = TRUE]
           r == SetPassword(q, th[t].ver)
<1>1. i \in Ids /\ th[t].link \in Link /\ Store(i, r) /\ Hash
      /\ th[t].ver \in 0..MaxHashes /\ th[t].ver < hashes
  BY LinkInHand DEF CommitReset
<1>2. i \in Live => q \in Interviewer
  BY DEF Typed, TypeOK, Live, Interviewer
<1>3. hashes \in 0..MaxHashes /\ hashes' = hashes + 1 /\ hashes' \in 0..MaxHashes /\ hashes <= hashes'
      /\ hashes + 1 \in 1..MaxHashes
  BY <1>1, AccountsAssumption, ThreadVer DEF Hash
<1> HIDE DEF q
<1>4. i \in Live => r \in Interviewer /\ r.password_hash <= hashes' /\ r.token_version < hashes'
  BY <1>1, <1>2, <1>3, SetPasswordType
<1>5. opened' \subseteq Ids \X Emails
  BY <1>1, OpenedType DEF CommitReset
<1>6. resets' \subseteq [link : Link, password : 1..MaxHashes]
  BY <1>1, <1>3 DEF CommitReset, Typed, TypeOK
<1>7. UNCHANGED <<tokens, links, visits, mails, gone, first, raced>> /\ Goto(t, Idle)
  BY DEF CommitReset
<1> HIDE DEF i, r
<1> QED
  BY <1>1, <1>3, <1>4, <1>5, <1>6, <1>7, IdleThread, CommitTyped

LEMMA CommitMoveTyped ==
  ASSUME Typed, NEW t \in Threads, CommitMove(t)
  PROVE  Typed'
<1> DEFINE i == th[t].link.sub
           l == th[t].link
           r == [row[i] EXCEPT !.email = l.to, !.verified = TRUE]
           free == \A j \in Live \ {i} : row[j].email # l.to
<1>1. i \in Ids /\ l \in Link /\ l.to \in Emails
  BY LinkInHand DEF CommitMove
<1>2. opened' \subseteq Ids \X Emails
  BY <1>1, OpenedType DEF CommitMove
<1>3. hashes \in 0..MaxHashes /\ hashes <= hashes
  BY AccountsAssumption, ThreadVer
<1>4. UNCHANGED <<tokens, links, hashes, visits, mails, gone, first, resets, raced>> /\ Goto(t, Idle)
  BY DEF CommitMove, bounds
<1>5. /\ resets \subseteq [link : Link, password : 1..MaxHashes]
      /\ raced \subseteq Ids
      /\ gone \cap Live = {} /\ tokens \subseteq Token /\ \A k \in tokens : k.sub \in DOMAIN first
  BY DEF Typed, TypeOK, Known, Live
<1>6. CASE free /\ i \in Live
  <2>1. Store(i, r)
    BY <1>6 DEF CommitMove
  <2>2. r \in Interviewer /\ r.password_hash <= hashes /\ r.token_version < hashes
    BY <1>1, <1>6 DEF Typed, TypeOK, Numbered, Live, Interviewer
  <2> HIDE DEF i, l, r, free
  <2> QED
    BY <1>1, <1>2, <1>3, <1>4, <1>5, <2>1, <2>2, IdleThread, CommitTyped
<1>7. CASE ~ (free /\ i \in Live)
  <2>1. UNCHANGED row
    BY <1>7 DEF CommitMove
  <2>2. /\ Live' = Live
        /\ \A j \in Live : /\ row[j] \in Interviewer
                           /\ row[j].password_hash <= hashes /\ row[j].token_version < hashes
    BY <2>1 DEF Typed, TypeOK, Numbered, Live
  <2> QED
    BY <1>2, <1>3, <1>4, <1>5, <2>1, <2>2, IdleThread, ThreadTyped
<1> QED
  BY <1>6, <1>7

LEMMA CommitChangeTyped ==
  ASSUME Typed, NEW t \in Threads, CommitChange(t)
  PROVE  Typed'
<1> DEFINE i == th[t].of
           r == SetPassword(row[i], th[t].ver)
           l == IF i \in Live THEN [pc |-> "issue", of |-> i, password |-> hashes + 1] ELSE Idle
<1>1. Store(i, r) /\ Hash /\ Goto(t, l)
  BY DEF CommitChange
<1>2. i \in DOMAIN first /\ i \in Ids /\ th[t].ver \in 0..MaxHashes /\ th[t].ver < hashes
  BY ThreadVer, Registered DEF CommitChange, At, Typed, Known, Numbered
<1>3. hashes' \in 0..MaxHashes /\ hashes <= hashes' /\ hashes + 1 \in 1..MaxHashes
  BY <1>1, AccountsAssumption, ThreadVer DEF Hash
<1>4. i \in Live => r \in Interviewer /\ r.password_hash <= hashes' /\ r.token_version < hashes'
  <2>1. i \in Live => row[i] \in Interviewer
    BY Registered
  <2>2. hashes \in 0..MaxHashes /\ hashes' = hashes + 1 /\ hashes' <= hashes'
    BY <1>1, ThreadVer, AccountsAssumption DEF Hash
  <2> QED
    BY <1>1, <1>2, <2>1, <2>2, SetPasswordType
<1>5. l \in Thread /\ l.pc \in {"idle", "issue"} /\ (l.pc # "idle" => l.of = i)
  BY <1>2, <1>3, IdleThread DEF Thread
<1>6. UNCHANGED <<tokens, links, visits, mails, gone, first, opened, resets, raced>>
  BY DEF CommitChange, history
<1>7. /\ resets \subseteq [link : Link, password : 1..MaxHashes]
      /\ opened \subseteq Ids \X Emails
  BY DEF Typed, TypeOK
<1> HIDE DEF i, r, l
<1> QED
  BY <1>1, <1>2, <1>3, <1>4, <1>5, <1>6, <1>7, CommitTyped

LEMMA IssueTyped ==
  ASSUME Typed, NEW t \in Threads, Issue(t)
  PROVE  Typed'
<1>1. th[t].pc = "issue" /\ th[t].of \in DOMAIN first /\ th[t].password \in 1..MaxHashes
  <2>1. th[t] \in Thread /\ th[t].pc = "issue"
    BY DEF Issue, At, Typed, TypeOK
  <2>2. th[t].password \in 1..MaxHashes
    BY <2>1, IdleThread DEF Thread
  <2> QED
    BY <2>1, <2>2 DEF Typed, Known
<1>2. tokens' \subseteq Token /\ \A k \in tokens' : k.sub \in DOMAIN first
  BY <1>1, SessionType DEF Issue, Typed, TypeOK, Known
<1>3. hashes \in 0..MaxHashes /\ hashes <= hashes
  BY AccountsAssumption, ThreadVer
<1>4. UNCHANGED <<row, links, hashes, visits, mails, gone, first, opened, resets, raced>> /\ Goto(t, Idle)
  BY DEF Issue, bounds, history
<1>5. /\ Live' = Live
      /\ \A j \in Live : /\ row[j] \in Interviewer
                         /\ row[j].password_hash <= hashes /\ row[j].token_version < hashes
      /\ gone \cap Live = {}
      /\ resets \subseteq [link : Link, password : 1..MaxHashes]
      /\ opened \subseteq Ids \X Emails
      /\ raced \subseteq Ids
  BY <1>4 DEF Typed, TypeOK, Numbered, Live
<1> QED
  BY <1>2, <1>3, <1>4, <1>5, IdleThread, ThreadTyped

LEMMA CommitDeletionTyped ==
  ASSUME Typed, NEW t \in Threads, CommitDeletion(t)
  PROVE  Typed'
<1> DEFINE i == th[t].of
<1>1. i \in DOMAIN first
  BY DEF CommitDeletion, At, Typed, Known
<1>2. Live' = Live \ {i} /\ \A j \in Live' : row'[j] = row[j]
  BY DEF CommitDeletion, Live
<1>3. gone' \cap Live' = {} /\ gone' \cup Live' = gone \cup Live
  BY <1>1, <1>2 DEF CommitDeletion, Typed, TypeOK, Live
<1>4. hashes \in 0..MaxHashes /\ hashes <= hashes
  BY AccountsAssumption, ThreadVer
<1>5. UNCHANGED <<tokens, links, hashes, visits, mails, first, opened, resets, raced>> /\ Goto(t, Idle)
  BY DEF CommitDeletion, bounds
<1>6. /\ \A j \in Live' : /\ row'[j] \in Interviewer
                         /\ row'[j].password_hash <= hashes /\ row'[j].token_version < hashes
      /\ resets \subseteq [link : Link, password : 1..MaxHashes]
      /\ opened \subseteq Ids \X Emails
      /\ raced \subseteq Ids
      /\ tokens \subseteq Token /\ \A k \in tokens : k.sub \in DOMAIN first
  BY <1>2 DEF Typed, TypeOK, Numbered, Known, Live
<1> HIDE DEF i
<1> QED
  BY <1>3, <1>4, <1>5, <1>6, IdleThread, ThreadTyped

LEMMA StepTyped == Typed /\ [Next]_vars => Typed'
<1> SUFFICES ASSUME Typed, [Next]_vars PROVE Typed'
  OBVIOUS
<1>1. CASE UNCHANGED vars
  BY <1>1 DEF vars, bounds, history, Typed, TypeOK, Known, HoldsLink, Numbered, Live
<1>2. ASSUME NEW t \in Threads, Handler(t) PROVE Typed'
  BY <1>2, OpenLinkTyped, CommitVerifyTyped, CommitResetTyped, CommitMoveTyped, ChangePasswordTyped,
     DeleteMeTyped, CommitChangeTyped, IssueTyped, CommitDeletionTyped DEF Handler
<1>3. ASSUME NEW k \in tokens,
             Refresh(k) \/ Logout(k) \/ Expire(k) \/ ResendVerification(k) \/ \E e \in Emails : UpdateMe(k, e)
      PROVE  Typed'
  BY <1>3, SessionsTyped, MailsTyped DEF Logout, Expire
<1>4. ASSUME NEW i \in Ids, (\E e \in Emails : Register(i, e)) \/ Login(i) \/ ForgotPassword(i)
      PROVE  Typed'
  BY <1>4, RegisterTyped, SessionsTyped, MailsTyped
<1> QED
  BY <1>1, <1>2, <1>3, <1>4 DEF Next

\* Rows, tokens, links and requests keep their types; in particular no
\* account's version outruns the passwords that were set.
THEOREM TypeCorrect == Spec => []TypeOK
<1>1. Spec => []Typed
  BY InitTyped, StepTyped, PTL DEF Spec
<1>2. Typed => TypeOK
  BY DEF Typed
<1> QED
  BY <1>1, <1>2, PTL

-----------------------------------------------------------------------------
(***************************************************************************)
(* Addresses.  An account that has proven nothing is where it registered,  *)
(* and no link that could change that was mailed elsewhere - but those     *)
(* which move it, and by being opened prove the address they move it to.   *)
(***************************************************************************)
Unproven(i) ==
  /\ row[i].email = first[i] /\ ~ row[i].verified
  /\ \A l \in links : l.sub = i /\ l.use # "change_email" => l.to = first[i]

Proven == \A i \in Live : <<i, row[i].email>> \in opened \/ Unproven(i)

LEMMA ProvenInit == Init => Proven
BY DEF Init, Proven, Live

\* Where rows, links and what was opened stay, or more is opened.
LEMMA ProvenStays ==
  ASSUME Typed, Proven, Live' \subseteq Live, \A i \in Live' : row'[i] = row[i],
         UNCHANGED <<first, links>>, opened \subseteq opened'
  PROVE  Proven'
BY DEF Proven, Unproven, Live

\* A link mailed to where the account is, or one that moves it.
LEMMA ProvenMailed ==
  ASSUME Typed, Proven, NEW l \in Link, Mail(l), l.sub \in Live,
         l.use = "change_email" \/ l.to = row[l.sub].email,
         UNCHANGED <<row, first, opened>>
  PROVE  Proven'
<1>1. links' = links \cup {l} /\ Live' = Live
  BY DEF Mail, Live
<1>2. SUFFICES ASSUME NEW i \in Live, Unproven(i) PROVE Unproven(i)'
  BY <1>1 DEF Proven
<1>3. ASSUME NEW m \in links', m.sub = i, m.use # "change_email" PROVE m.to = first[i]
  <2>1. CASE m \in links
    BY <1>2, <1>3, <2>1 DEF Unproven
  <2>2. CASE m = l
    BY <1>2, <1>3, <2>2 DEF Unproven
  <2> QED
    BY <1>1, <1>3, <2>1, <2>2
<1> QED
  BY <1>2, <1>3 DEF Unproven

\* A link is opened whose effect is on one row.
LEMMA ProvenCommitted ==
  ASSUME Typed, Proven, NEW l \in links, NEW r, Store(l.sub, r), Opened(l),
         UNCHANGED <<first, links>>,
         \/ l.use = "change_email" /\ r.email = l.to
         \/ l.use # "change_email" /\ r.email = row[l.sub].email
  PROVE  Proven'
<1>1. Live' = Live /\ \A j \in Live : row'[j] = IF j = l.sub THEN r ELSE row[j]
  BY StoreRow
<1>2. opened' = opened \cup {<<l.sub, l.to>>}
  BY DEF Opened
<1>3. SUFFICES ASSUME NEW i \in Live
               PROVE  <<i, row'[i].email>> \in opened' \/ Unproven(i)'
  BY <1>1 DEF Proven
<1>4. CASE i # l.sub
  BY <1>1, <1>2, <1>4 DEF Proven, Unproven
<1>5. CASE i = l.sub
  <2>1. CASE l.use = "change_email"
    BY <1>1, <1>2, <1>5, <2>1
  <2>2. CASE l.use # "change_email" /\ <<i, row[i].email>> \in opened
    BY <1>1, <1>2, <1>5, <2>2
  <2>3. CASE l.use # "change_email" /\ Unproven(i)
    BY <1>1, <1>2, <1>5, <2>3 DEF Unproven
  <2> QED
    BY <2>1, <2>2, <2>3 DEF Proven
<1> QED
  BY <1>4, <1>5

LEMMA ProvenStep == Typed /\ Proven /\ [Next]_vars => Proven'
<1> SUFFICES ASSUME Typed, Proven, [Next]_vars PROVE Proven'
  OBVIOUS
<1>1. ASSUME NEW i \in Ids, NEW e \in Emails, Register(i, e) PROVE Proven'
  <2> DEFINE r == [email |-> e, password_hash |-> hashes + 1, token_version |-> 0, verified |-> FALSE]
             l == [use |-> "verify", sub |-> i, email |-> e, to |-> e]
  <2>1. Live' = Live \cup {i} /\ row'[i] = r /\ \A j \in Live \ {i} : row'[j] = row[j]
    BY <1>1, PutRow DEF Register
  <2>2. first'[i] = e /\ (\A j \in DOMAIN first \ {i} : first'[j] = first[j]) /\ i \notin DOMAIN first
    BY <1>1, PutFirst DEF Register, Fresh
  <2>3. links' = links \cup {l} /\ opened' = opened
    BY <1>1 DEF Register, Mail
  <2>4. Unproven(i)'
    <3>1. r.email = e /\ r.verified = FALSE /\ l.to = e
      OBVIOUS
    <3> QED
      BY <2>1, <2>2, <2>3, <3>1 DEF Unproven, Typed, Known
  <2>5. ASSUME NEW j \in Live \ {i} PROVE <<j, row'[j].email>> \in opened' \/ Unproven(j)'
    <3>1. j \in DOMAIN first \ {i} /\ l.sub = i
      BY Registered
    <3> QED
      BY <2>1, <2>2, <2>3, <3>1 DEF Proven, Unproven
  <2> QED
    BY <2>1, <2>4, <2>5 DEF Proven
<1>2. ASSUME NEW k \in tokens, ResendVerification(k) PROVE Proven'
  <2> DEFINE l == [use |-> "verify", sub |-> k.sub, email |-> row[k.sub].email,
                   to |-> row[k.sub].email]
  <2>1. l \in Link /\ l.sub \in Live /\ l.to = row[l.sub].email
    BY <1>2, Registered DEF ResendVerification, Accepted, Link, Interviewer
  <2> QED
    BY <1>2, <2>1, ProvenMailed DEF ResendVerification, history
<1>3. ASSUME NEW i \in Ids, ForgotPassword(i) PROVE Proven'
  <2> DEFINE l == [use |-> "reset", sub |-> i, email |-> row[i].email,
                   to |-> row[i].email, pwd |-> row[i].password_hash]
  <2>1. l \in Link /\ l.sub \in Live /\ l.to = row[l.sub].email
    BY <1>3, Registered DEF ForgotPassword, Link, Interviewer
  <2> QED
    BY <1>3, <2>1, ProvenMailed DEF ForgotPassword, history
<1>4. ASSUME NEW k \in tokens, NEW e \in Emails, UpdateMe(k, e) PROVE Proven'
  <2> DEFINE l == [use |-> "change_email", sub |-> k.sub, email |-> row[k.sub].email, to |-> e]
  <2>1. l \in Link /\ l.sub \in Live /\ l.use = "change_email"
    BY <1>4, Registered DEF UpdateMe, Accepted, Link, Interviewer
  <2> QED
    BY <1>4, <2>1, ProvenMailed DEF UpdateMe, history
<1>5. ASSUME NEW t \in Threads, CommitVerify(t) PROVE Proven'
  <2> DEFINE l == th[t].link
             r == [row[l.sub] EXCEPT !.verified = TRUE]
  <2>1. l \in links
    BY <1>5, LinkInHand DEF CommitVerify
  <2>2. CASE l.sub \in Live
    <3>1. r.email = row[l.sub].email
      BY <2>2, Registered DEF Interviewer
    <3> QED
      BY <1>5, <2>1, <3>1, ProvenCommitted DEF CommitVerify
  <2>3. CASE l.sub \notin Live
    <3>1. Live' = Live /\ \A j \in Live : row'[j] = row[j]
      BY <1>5, <2>3, StoreRow DEF CommitVerify
    <3> QED
      BY <1>5, <3>1, ProvenStays DEF CommitVerify, Opened
  <2> QED
    BY <2>2, <2>3
<1>6. ASSUME NEW t \in Threads, CommitReset(t) PROVE Proven'
  <2> DEFINE l == th[t].link
             q == [row[l.sub] EXCEPT !.verified = TRUE]
             r == SetPassword(q, th[t].ver)
  <2>1. l \in links /\ th[t].ver \in 0..MaxHashes /\ th[t].ver < hashes
    BY <1>6, LinkInHand DEF CommitReset
  <2>2. CASE l.sub \in Live
    <3>1. q \in Interviewer /\ q.email = row[l.sub].email
      BY <2>2, Registered DEF Interviewer
    <3> HIDE DEF q
    <3>2. r.email = row[l.sub].email
      BY <1>6, <2>1, <3>1, SetPasswordType DEF CommitReset
    <3>3. Store(l.sub, r) /\ Opened(l) /\ l.use # "change_email" /\ UNCHANGED <<first, links>>
      BY <1>6 DEF CommitReset, q
    <3> HIDE DEF r
    <3> QED
      BY <2>1, <3>2, <3>3, ProvenCommitted
  <2>3. CASE l.sub \notin Live
    <3>1. Live' = Live /\ \A j \in Live : row'[j] = row[j]
      BY <1>6, <2>3, StoreRow DEF CommitReset
    <3> QED
      BY <1>6, <3>1, ProvenStays DEF CommitReset, Opened
  <2> QED
    BY <2>2, <2>3
<1>7. ASSUME NEW t \in Threads, CommitMove(t) PROVE Proven'
  <2> DEFINE l == th[t].link
             r == [row[l.sub] EXCEPT !.email = l.to, !.verified = TRUE]
  <2>1. l \in links /\ l.use = "change_email" /\ Opened(l) /\ UNCHANGED <<first, links>>
    BY <1>7, LinkInHand DEF CommitMove
  <2>2. CASE l.sub \in Live /\ Store(l.sub, r)
    <3>1. r.email = l.to
      BY <2>2, Registered DEF Interviewer
    <3> QED
      BY <2>1, <2>2, <3>1, ProvenCommitted
  <2>3. CASE UNCHANGED row
    BY <2>1, <2>3, ProvenStays DEF Opened, Live
  <2> QED
    BY <1>7, <2>2, <2>3 DEF CommitMove
<1>8. ASSUME NEW t \in Threads, CommitChange(t) PROVE Proven'
  <2> DEFINE i == th[t].of
             r == SetPassword(row[i], th[t].ver)
  <2>1. Live' = Live /\ \A j \in Live : row'[j] = IF j = i THEN r ELSE row[j]
    BY <1>8, StoreRow DEF CommitChange
  <2>2. UNCHANGED <<first, links, opened>>
    BY <1>8 DEF CommitChange, history
  <2>3. i \in Live => r.email = row[i].email /\ r.verified = row[i].verified
    <3>1. th[t].ver \in 0..MaxHashes /\ th[t].ver < hashes
      BY <1>8, ThreadVer DEF CommitChange, At, Typed, Numbered
    <3> QED
      BY <1>8, <3>1, Registered, SetPasswordType DEF CommitChange
  <2> HIDE DEF i, r
  <2> QED
    BY <2>1, <2>2, <2>3 DEF Proven, Unproven
<1>9. ASSUME NEW t \in Threads, CommitDeletion(t) PROVE Proven'
  BY <1>9, ProvenStays DEF CommitDeletion, Live
<1>10. ASSUME UNCHANGED <<row, links, first, opened>> PROVE Proven'
  BY <1>10, ProvenStays DEF Live
<1>11. ASSUME NEW t \in Threads, Handler(t) PROVE Proven'
  BY <1>5, <1>6, <1>7, <1>8, <1>9, <1>10, <1>11
     DEF Handler, OpenLink, ChangePassword, DeleteMe, Issue, bounds, history
<1>12. ASSUME NEW k \in tokens, Refresh(k) \/ Logout(k) \/ Expire(k) PROVE Proven'
  BY <1>10, <1>12 DEF Refresh, Logout, Expire, Lose, bounds, history
<1>13. ASSUME NEW i \in Ids, Login(i) PROVE Proven'
  BY <1>10, <1>13 DEF Login, history
<1> QED
  BY <1>1, <1>2, <1>3, <1>4, <1>10, <1>11, <1>12, <1>13 DEF Next, vars, history

\* update_me, verify_email, confirm_email_change: an address counts as
\* confirmed, and an account is moved to it, only by a link that was opened
\* in its mailbox, however the requests that open links overlap.
THEOREM AddressCorrect == Spec => []AddressProven
<1>1. Spec => [](Typed /\ Proven)
  <2>1. Init => Typed /\ Proven
    BY InitTyped, ProvenInit
  <2>2. (Typed /\ Proven) /\ [Next]_vars => (Typed /\ Proven)'
    BY StepTyped, ProvenStep
  <2> QED
    BY <2>1, <2>2, PTL DEF Spec
<1>2. Typed /\ Proven => AddressProven
  BY DEF Proven, Unproven, AddressProven
<1> QED
  BY <1>1, <1>2, PTL

-----------------------------------------------------------------------------
(***************************************************************************)
(* Requests that overlap.  Of two that are about to set an account's       *)
(* password, the later one has marked it; so of an account that is not     *)
(* marked, what the one request in hand has read is still so.              *)
(***************************************************************************)
Apart ==
  \A t, u \in Threads, i \in Ids :
    t # u /\ SetsPassword(t, i) /\ SetsPassword(u, i) => i \in raced

\* What a request that writes the password, or a new session, goes by.
GoesBy(l, i) ==
  /\ l.pc \in {"change", "link"} => l.ver = row[i].token_version
  /\ l.pc = "link" => l.link.pwd = row[i].password_hash
  /\ l.pc = "issue" => l.password = row[i].password_hash
Current(i) == \A t \in Threads : SetsPassword(t, i) => GoesBy(th[t], i)

\* No token is of a version to come, and those of this one of this password.
Follow(i) ==
  \A k \in tokens : k.sub = i =>
    /\ k.ver <= row[i].token_version
    /\ k.ver = row[i].token_version => k.password = row[i].password_hash

Unmarked(i) == i \notin raced
Sessions == \A i \in Live : Unmarked(i) => Current(i) /\ Follow(i)

LEMMA ApartInit == Init => Apart
BY DEF Init, Apart, SetsPassword, Idle

LEMMA SessionsInit == Init => Sessions
BY DEF Init, Sessions, Live

\* A thread that begins: whoever else writes the same has been noticed.
LEMMA ApartBegun ==
  ASSUME Typed, NEW t \in Threads, NEW l \in Thread, Goto(t, l),
         Apart, raced \subseteq raced',
         ASSUME NEW i \in Ids, l.pc # "idle", l.of = i, SetsPassword(t, i)',
                NEW u \in Threads \ {t}, SetsPassword(u, i)
         PROVE  i \in raced'
  PROVE  Apart'
<1>1. th'[t] = l /\ \A u \in Threads \ {t} : th'[u] = th[u]
  BY GotoThread DEF Typed, TypeOK
<1>2. \A u \in Threads \ {t}, i \in Ids : SetsPassword(u, i)' <=> SetsPassword(u, i)
  BY <1>1 DEF SetsPassword
<1>3. ASSUME NEW i \in Ids, SetsPassword(t, i)' PROVE l.pc # "idle" /\ l.of = i
  BY <1>1, <1>3 DEF SetsPassword
<1> SUFFICES ASSUME NEW a \in Threads, NEW b \in Threads, NEW i \in Ids, a # b,
                    SetsPassword(a, i)', SetsPassword(b, i)'
             PROVE  i \in raced'
  BY DEF Apart
<1>4. CASE a = t
  BY <1>2, <1>3, <1>4
<1>5. CASE b = t
  BY <1>2, <1>3, <1>5
<1>6. CASE a # t /\ b # t
  BY <1>2, <1>6 DEF Apart
<1> QED
  BY <1>4, <1>5, <1>6

\* A thread that stops writing, or writes on.
LEMMA ApartStays ==
  ASSUME Typed, Apart, raced' = raced,
         \A t \in Threads, i \in Ids : SetsPassword(t, i)' => SetsPassword(t, i)
  PROVE  Apart'
BY DEF Apart

LEMMA SetsLeft ==
  ASSUME Typed, NEW t \in Threads, NEW l \in Thread, Goto(t, l), l.pc \in {"idle", "delete"}
  PROVE  \A u \in Threads, i \in Ids : SetsPassword(u, i)' => SetsPassword(u, i) /\ u # t /\ th'[u] = th[u]
<1>1. th'[t] = l /\ \A u \in Threads \ {t} : th'[u] = th[u]
  BY GotoThread DEF Typed, TypeOK
<1> QED
  BY <1>1 DEF SetsPassword

LEMMA ApartStep == Typed /\ Apart /\ [Next]_vars => Apart'
<1> SUFFICES ASSUME Typed, Apart, [Next]_vars PROVE Apart'
  OBVIOUS
<1>1. ASSUME UNCHANGED <<th, raced>> PROVE Apart'
  BY <1>1 DEF Apart, SetsPassword
<1>2. ASSUME NEW t \in Threads, NEW l \in links, OpenLink(t, l) PROVE Apart'
  <2> DEFINE m == [pc |-> "link", of |-> l.sub, link |-> l, ver |-> row[l.sub].token_version]
  <2>1. l \in Link /\ l.sub \in Ids /\ row[l.sub].token_version \in 0..MaxHashes
    BY <1>2, Registered, LinkSub DEF OpenLink, Interviewer, Typed, TypeOK
  <2>2. m \in Thread /\ m.pc = "link" /\ m.of = l.sub /\ m.link = l
    BY <2>1 DEF Thread
  <2>3. Goto(t, m) /\ IF l.use = "reset" THEN Racing(t, l.sub) ELSE raced' = raced
    BY <1>2 DEF OpenLink
  <2> HIDE DEF m
  <2>4. th'[t] = m
    BY <2>2, <2>3, GotoThread DEF Typed, TypeOK
  <2>5. raced \subseteq raced'
    BY <2>3 DEF Racing
  <2>6. ASSUME NEW i \in Ids, m.pc # "idle", m.of = i, SetsPassword(t, i)',
               NEW u \in Threads \ {t}, SetsPassword(u, i)
        PROVE  i \in raced'
    <3>1. l.use = "reset" /\ i = l.sub
      BY <2>2, <2>4, <2>6 DEF SetsPassword
    <3> QED
      BY <2>3, <2>6, <3>1 DEF Racing
  <2> QED
    BY <2>2, <2>3, <2>5, <2>6, ApartBegun
<1>3. ASSUME NEW t \in Threads, NEW k \in tokens, ChangePassword(t, k) PROVE Apart'
  <2> DEFINE m == [pc |-> "change", of |-> k.sub, ver |-> row[k.sub].token_version]
  <2>1. k.sub \in Ids /\ row[k.sub].token_version \in 0..MaxHashes
    BY <1>3, Registered DEF ChangePassword, Accepted, Interviewer
  <2>2. m \in Thread /\ m.pc = "change" /\ m.of = k.sub
    BY <2>1 DEF Thread
  <2>3. Goto(t, m) /\ Racing(t, k.sub)
    BY <1>3 DEF ChangePassword
  <2> HIDE DEF m
  <2>4. th'[t] = m
    BY <2>2, <2>3, GotoThread DEF Typed, TypeOK
  <2>5. raced \subseteq raced'
    BY <2>3 DEF Racing
  <2>6. ASSUME NEW i \in Ids, m.pc # "idle", m.of = i, SetsPassword(t, i)',
               NEW u \in Threads \ {t}, SetsPassword(u, i)
        PROVE  i \in raced'
    <3>1. i = k.sub
      BY <2>2, <2>4, <2>6 DEF SetsPassword
    <3> QED
      BY <2>3, <2>6, <3>1 DEF Racing
  <2> QED
    BY <2>2, <2>3, <2>5, <2>6, ApartBegun
<1>4. ASSUME NEW t \in Threads, CommitChange(t) PROVE Apart'
  <2> DEFINE l == IF th[t].of \in Live
                  THEN [pc |-> "issue", of |-> th[t].of, password |-> hashes + 1] ELSE Idle
  <2>1. Goto(t, l) /\ raced' = raced /\ th[t].pc = "change"
    BY <1>4 DEF CommitChange, history, At
  <2>2. l \in Thread /\ l.pc \in {"idle", "issue"} /\ (l.pc = "issue" => l.of = th[t].of)
    <3>1. hashes + 1 \in 1..MaxHashes
      BY <1>4, AccountsAssumption, ThreadVer DEF CommitChange, Hash
    <3>2. th[t].of \in Ids
      BY <2>1, Registered DEF Typed, Known
    <3> QED
      BY <3>1, <3>2, IdleThread DEF Thread
  <2> HIDE DEF l
  <2>3. th'[t] = l /\ \A u \in Threads \ {t} : th'[u] = th[u]
    BY <2>1, <2>2, GotoThread DEF Typed, TypeOK
  <2>4. \A u \in Threads, i \in Ids : SetsPassword(u, i)' => SetsPassword(u, i)
    BY <2>1, <2>2, <2>3 DEF SetsPassword
  <2> QED
    BY <2>1, <2>4, ApartStays
<1>5. ASSUME NEW t \in Threads, NEW l \in Thread, Goto(t, l), l.pc \in {"idle", "delete"}, raced' = raced
      PROVE  Apart'
  BY <1>5, SetsLeft, ApartStays
<1>6. ASSUME NEW t \in Threads, NEW k \in tokens, DeleteMe(t, k) PROVE Apart'
  <2>1. [pc |-> "delete", of |-> k.sub] \in Thread
    BY <1>6, Registered DEF DeleteMe, Accepted, Thread
  <2> QED
    BY <1>5, <1>6, <2>1 DEF DeleteMe, history
<1>7. ASSUME NEW t \in Threads,
             CommitVerify(t) \/ CommitReset(t) \/ CommitMove(t) \/ Issue(t) \/ CommitDeletion(t)
      PROVE  Apart'
  BY <1>5, <1>7, IdleThread DEF CommitVerify, CommitReset, CommitMove, Issue, CommitDeletion, history
<1>8. ASSUME NEW t \in Threads, Handler(t) PROVE Apart'
  BY <1>2, <1>3, <1>4, <1>6, <1>7, <1>8 DEF Handler
<1>9. ASSUME NEW k \in tokens,
             Refresh(k) \/ Logout(k) \/ Expire(k) \/ ResendVerification(k) \/ \E e \in Emails : UpdateMe(k, e)
      PROVE  Apart'
  BY <1>1, <1>9 DEF Refresh, Logout, Expire, Lose, ResendVerification, UpdateMe, history
<1>10. ASSUME NEW i \in Ids, (\E e \in Emails : Register(i, e)) \/ Login(i) \/ ForgotPassword(i)
       PROVE  Apart'
  BY <1>1, <1>10 DEF Register, Login, ForgotPassword, history
<1> QED
  BY <1>1, <1>8, <1>9, <1>10 DEF Next, vars, history

\* Where no password is set.
LEMMA SessionsStay ==
  ASSUME Typed, Sessions, raced \subseteq raced', Live' \subseteq Live,
         \A i \in Live' : /\ row'[i].password_hash = row[i].password_hash
                          /\ row'[i].token_version = row[i].token_version,
         ASSUME NEW u \in Threads, NEW i \in Live, Unmarked(i), Unmarked(i)', SetsPassword(u, i)'
         PROVE  (SetsPassword(u, i) /\ th'[u] = th[u]) \/ GoesBy(th'[u], i),
         \A k \in tokens' \ tokens : k.sub \in Live /\ Unmarked(k.sub) =>
           k.ver = row[k.sub].token_version /\ k.password = row[k.sub].password_hash
  PROVE  Sessions'
<1> SUFFICES ASSUME NEW i \in Live', Unmarked(i)' PROVE Current(i)' /\ Follow(i)'
  BY DEF Sessions
<1>1. i \in Live /\ Unmarked(i) /\ Current(i) /\ Follow(i)
  BY DEF Sessions, Unmarked
<1>2. \A u \in Threads : SetsPassword(u, i)' => GoesBy(th'[u], i)
  BY <1>1 DEF Current
<1>3. Current(i)'
  BY <1>2 DEF Current, GoesBy
<1>4. Follow(i)'
  <2>1. ASSUME NEW k \in tokens', k.sub = i
        PROVE  /\ k.ver <= row[i].token_version
               /\ k.ver = row[i].token_version => k.password = row[i].password_hash
    <3>1. row[i].token_version <= row[i].token_version
      BY <1>1, Registered, AccountsAssumption DEF Interviewer
    <3> QED
      BY <1>1, <2>1, <3>1 DEF Follow
  <2> QED
    BY <2>1 DEF Follow
<1> QED
  BY <1>3, <1>4

\* Where one is: nothing older than it is let in any more.
LEMMA SessionsSet ==
  ASSUME Typed, Sessions, Apart, NEW t \in Threads, NEW i \in Ids,
         SetsPassword(t, i), th[t].pc \in {"change", "link"},
         NEW r, Store(i, r), i \in Live => r.password_hash = hashes + 1 /\ r.token_version = th[t].ver + 1,
         NEW l \in Thread, Goto(t, l),
         l.pc = "idle" \/ (l.pc = "issue" /\ l.of = i /\ l.password = hashes + 1),
         UNCHANGED <<tokens, raced>>
  PROVE  Sessions'
<1>1. Live' = Live /\ \A j \in Live : row'[j] = IF j = i THEN r ELSE row[j]
  BY StoreRow
<1>2. th'[t] = l /\ \A u \in Threads \ {t} : th'[u] = th[u]
  BY GotoThread DEF Typed, TypeOK
<1> SUFFICES ASSUME NEW j \in Live, Unmarked(j) PROVE Current(j)' /\ Follow(j)'
  BY <1>1 DEF Sessions, Unmarked
<1>3. Current(j) /\ Follow(j) /\ j \in Ids
  BY Registered DEF Sessions
<1>4. CASE j # i
  <2>1. row'[j] = row[j]
    BY <1>1, <1>4
  <2>2. ~ SetsPassword(t, j)'
    BY <1>2, <1>4 DEF SetsPassword
  <2>3. ASSUME NEW u \in Threads, SetsPassword(u, j)' PROVE GoesBy(th[u], j) /\ th'[u] = th[u]
    <3>1. u # t /\ th'[u] = th[u]
      BY <1>2, <2>2, <2>3
    <3> QED
      BY <1>3, <2>3, <3>1 DEF Current, SetsPassword
  <2> QED
    BY <1>3, <2>1, <2>3 DEF Current, GoesBy, Follow
<1>5. CASE j = i
  <2>1. row'[i].password_hash = hashes + 1 /\ row'[i].token_version = th[t].ver + 1
    BY <1>1, <1>5
  <2>2. ASSUME NEW u \in Threads, SetsPassword(u, i)' PROVE u = t /\ l.pc = "issue"
    <3>1. CASE u # t
      <4>1. SetsPassword(u, i)
        BY <1>2, <2>2, <3>1 DEF SetsPassword
      <4> QED
        BY <1>5, <3>1, <4>1 DEF Apart, Unmarked
    <3>2. CASE u = t
      BY <1>2, <2>2, <3>2 DEF SetsPassword
    <3> QED
      BY <3>1, <3>2
  <2>3. Current(i)'
    BY <1>2, <2>1, <2>2 DEF Current, GoesBy
  <2>4. Follow(i)'
    <3>1. th[t].ver = row[i].token_version /\ th[t].ver \in Nat
      BY <1>3, <1>5, ThreadVer, AccountsAssumption DEF Current, GoesBy
    <3>2. ASSUME NEW k \in tokens, k.sub = i PROVE k.ver < row'[i].token_version /\ k.ver \in Nat
      <4>1. k.ver \in Nat
        BY AccountsAssumption DEF Typed, TypeOK, Token
      <4> QED
        BY <1>3, <1>5, <2>1, <3>1, <3>2, <4>1 DEF Follow
    <3>3. row'[i].token_version \in Nat
      BY <2>1, <3>1
    <3>4. \A k \in tokens : k.sub = i => k.ver <= row'[i].token_version /\ k.ver # row'[i].token_version
      BY <3>2, <3>3
    <3> QED
      BY <3>4 DEF Follow
  <2> QED
    BY <1>5, <2>3, <2>4
<1> QED
  BY <1>4, <1>5

\* The password and the version of the rows that are there.
SameKeys ==
  \A i \in Live' : /\ row'[i].password_hash = row[i].password_hash
                   /\ row'[i].token_version = row[i].token_version

LEMMA SessionsStep == Typed /\ Apart /\ Sessions /\ [Next]_vars => Sessions'
<1> SUFFICES ASSUME Typed, Apart, Sessions, [Next]_vars PROVE Sessions'
  OBVIOUS
\* What only reads, or writes something else.
<1>1. ASSUME UNCHANGED <<row, th, raced>>, tokens' \subseteq tokens PROVE Sessions'
  BY <1>1, SessionsStay DEF Live, SetsPassword
<1>2. ASSUME NEW t \in Threads, NEW l \in Thread, Goto(t, l), l.pc \in {"idle", "delete"},
             raced' = raced, tokens' = tokens, Live' \subseteq Live, SameKeys
      PROVE  Sessions'
  <2>1. \A u \in Threads, i \in Ids : SetsPassword(u, i)' =>
          SetsPassword(u, i) /\ th'[u] = th[u]
    BY <1>2, SetsLeft
  <2>2. Live \subseteq Ids
    BY Registered
  <2> QED
    BY <1>2, <2>1, <2>2, SessionsStay DEF SameKeys
\* A new session is of the row as it is.
<1>3. ASSUME NEW i \in Live, NEW p \in 1..MaxHashes, Unmarked(i) => p = row[i].password_hash,
             tokens' = tokens \cup Session(i, p), UNCHANGED <<row, raced>>,
             \A u \in Threads, j \in Ids : SetsPassword(u, j)' =>
               SetsPassword(u, j) /\ th'[u] = th[u]
      PROVE  Sessions'
  <2>1. \A k \in tokens' \ tokens : k.sub = i /\ k.ver = row[i].token_version /\ k.password = p
    BY <1>3, SessionType
  <2>2. Live \subseteq Ids
    BY Registered
  <2> QED
    BY <1>3, <2>1, <2>2, SessionsStay DEF Live
<1>4. ASSUME NEW i \in Ids, NEW e \in Emails, Register(i, e) PROVE Sessions'
  <2>1. Live' = Live \cup {i} /\ i \notin DOMAIN first /\ \A j \in Live \ {i} : row'[j] = row[j]
    BY <1>4, PutRow DEF Register, Fresh
  <2>2. UNCHANGED <<tokens, th, raced>>
    BY <1>4 DEF Register
  <2>3. ASSUME NEW j \in Live, Unmarked(j)' PROVE Current(j)' /\ Follow(j)'
    <3>1. row'[j] = row[j]
      BY <2>1, Registered
    <3> QED
      BY <2>2, <2>3, <3>1 DEF Sessions, Unmarked, Current, GoesBy, Follow, SetsPassword
  <2>4. Current(i)' /\ Follow(i)'
    BY <2>1, <2>2 DEF Current, Follow, SetsPassword, Typed, Known
  <2> QED
    BY <2>1, <2>3, <2>4 DEF Sessions
<1>5. ASSUME NEW i \in Ids, Login(i) PROVE Sessions'
  <2>1. i \in Live /\ row[i].password_hash \in 1..MaxHashes
        /\ tokens' = tokens \cup Session(i, row[i].password_hash)
    BY <1>5, Registered DEF Login, Interviewer
  <2>2. UNCHANGED <<row, raced, th>>
    BY <1>5 DEF Login, history
  <2> QED
    BY <1>3, <2>1, <2>2 DEF SetsPassword
<1>6. ASSUME NEW k \in tokens, Refresh(k) PROVE Sessions'
  <2>1. k.sub \in Live /\ k.ver = row[k.sub].token_version /\ k.password \in 1..MaxHashes
        /\ tokens' = tokens \cup Session(k.sub, k.password)
    BY <1>6 DEF Refresh, Accepted, Typed, TypeOK, Token
  <2>2. Unmarked(k.sub) => k.password = row[k.sub].password_hash
    BY <2>1 DEF Sessions, Follow
  <2>3. UNCHANGED <<row, raced, th>>
    BY <1>6 DEF Refresh, history
  <2> QED
    BY <1>3, <2>1, <2>2, <2>3 DEF SetsPassword
<1>7. ASSUME NEW t \in Threads, Issue(t) PROVE Sessions'
  <2>1. th[t].pc = "issue" /\ th[t] \in Thread /\ Goto(t, Idle) /\ UNCHANGED <<row, raced>>
    BY <1>7 DEF Issue, At, history, Typed, TypeOK
  <2>2. CASE th[t].of \in Live
    <3>1. th[t].password \in 1..MaxHashes /\ tokens' = tokens \cup Session(th[t].of, th[t].password)
      BY <1>7, <2>1, <2>2, IdleThread DEF Issue, Thread
    <3>2. Unmarked(th[t].of) => th[t].password = row[th[t].of].password_hash
      BY <2>1, <2>2 DEF Sessions, Current, GoesBy, SetsPassword
    <3>3. \A u \in Threads, j \in Ids : SetsPassword(u, j)' =>
            SetsPassword(u, j) /\ th'[u] = th[u]
      BY <2>1, IdleThread, SetsLeft
    <3> QED
      BY <1>3, <2>1, <2>2, <3>1, <3>2, <3>3
  <2>3. CASE th[t].of \notin Live
    BY <1>2, <1>7, <2>1, <2>3, IdleThread DEF Issue, SameKeys, Live
  <2> QED
    BY <2>2, <2>3
\* What begins to write goes by what it has just read.
<1>8. ASSUME NEW t \in Threads, NEW l \in Thread, Goto(t, l), raced \subseteq raced',
             UNCHANGED <<row, tokens>>,
             \A i \in Ids : i = l.of /\ SetsPassword(t, i)' => GoesBy(l, i)
      PROVE  Sessions'
  <2>1. th'[t] = l /\ \A u \in Threads \ {t} : th'[u] = th[u]
    BY <1>8, GotoThread DEF Typed, TypeOK
  <2>2. ASSUME NEW u \in Threads, NEW i \in Live, SetsPassword(u, i)'
        PROVE  (SetsPassword(u, i) /\ th'[u] = th[u]) \/ GoesBy(th'[u], i)
    <3>1. CASE u # t
      BY <2>1, <2>2, <3>1 DEF SetsPassword
    <3>2. CASE u = t
      <4>1. i = l.of /\ i \in Ids
        BY <2>1, <2>2, <3>2, Registered DEF SetsPassword
      <4> QED
        BY <1>8, <2>1, <2>2, <3>2, <4>1
    <3> QED
      BY <3>1, <3>2
  <2>3. Live' = Live /\ tokens' \ tokens = {} /\ \A i \in Live : row'[i] = row[i]
    BY <1>8 DEF Live
  <2> QED
    BY <1>8, <2>2, <2>3, SessionsStay
<1>9. ASSUME NEW t \in Threads, NEW l \in links, OpenLink(t, l) PROVE Sessions'
  <2> DEFINE m == [pc |-> "link", of |-> l.sub, link |-> l, ver |-> row[l.sub].token_version]
  <2>1. l \in Link /\ l.sub \in Ids /\ row[l.sub].token_version \in 0..MaxHashes
    BY <1>9, Registered, LinkSub DEF OpenLink, Interviewer, Typed, TypeOK
  <2>2. m \in Thread /\ m.pc = "link" /\ m.of = l.sub /\ m.link = l /\ m.ver = row[l.sub].token_version
    BY <2>1 DEF Thread
  <2>3. Goto(t, m) /\ raced \subseteq raced' /\ UNCHANGED <<row, tokens>> /\ BoundToPassword(l)
    BY <1>9 DEF OpenLink, Racing
  <2> HIDE DEF m
  <2>4. th'[t] = m
    BY <2>2, <2>3, GotoThread DEF Typed, TypeOK
  <2>5. \A i \in Ids : SetsPassword(t, i)' => l.use = "reset"
    BY <2>2, <2>4 DEF SetsPassword
  <2>6. l.use = "reset" => GoesBy(m, m.of)
    BY <2>2, <2>3 DEF GoesBy, BoundToPassword
  <2> QED
    BY <1>8, <2>2, <2>3, <2>5, <2>6
<1>10. ASSUME NEW t \in Threads, NEW k \in tokens, ChangePassword(t, k) PROVE Sessions'
  <2> DEFINE m == [pc |-> "change", of |-> k.sub, ver |-> row[k.sub].token_version]
  <2>1. k.sub \in Ids /\ row[k.sub].token_version \in 0..MaxHashes
    BY <1>10, Registered DEF ChangePassword, Accepted, Interviewer
  <2>2. m \in Thread /\ GoesBy(m, m.of)
    BY <2>1 DEF Thread, GoesBy
  <2>3. Goto(t, m) /\ raced \subseteq raced' /\ UNCHANGED <<row, tokens>>
    BY <1>10 DEF ChangePassword, Racing
  <2> HIDE DEF m
  <2> QED
    BY <1>8, <2>2, <2>3
<1>11. ASSUME NEW t \in Threads, NEW k \in tokens, DeleteMe(t, k) PROVE Sessions'
  <2>1. [pc |-> "delete", of |-> k.sub] \in Thread
    BY <1>11, Registered DEF DeleteMe, Accepted, Thread
  <2>2. Live' = Live /\ SameKeys
    BY <1>11 DEF DeleteMe, Live, SameKeys
  <2> QED
    BY <1>2, <1>11, <2>1, <2>2 DEF DeleteMe, history
<1>12. ASSUME NEW t \in Threads, CommitVerify(t) PROVE Sessions'
  <2> DEFINE i == th[t].link.sub
             r == [row[i] EXCEPT !.verified = TRUE]
  <2>1. Live' = Live /\ \A j \in Live : row'[j] = IF j = i THEN r ELSE row[j]
    BY <1>12, StoreRow DEF CommitVerify
  <2>2. i \in Live => r.password_hash = row[i].password_hash /\ r.token_version = row[i].token_version
    BY Registered DEF Interviewer
  <2>3. SameKeys
    BY <2>1, <2>2 DEF SameKeys
  <2> QED
    BY <1>2, <1>12, <2>1, <2>3, IdleThread DEF CommitVerify
<1>13. ASSUME NEW t \in Threads, CommitMove(t) PROVE Sessions'
  <2> DEFINE i == th[t].link.sub
             r == [row[i] EXCEPT !.email = th[t].link.to, !.verified = TRUE]
  <2>1. CASE Store(i, r)
    <3>1. Live' = Live /\ \A j \in Live : row'[j] = IF j = i THEN r ELSE row[j]
      BY <2>1, StoreRow
    <3>2. i \in Live => r.password_hash = row[i].password_hash /\ r.token_version = row[i].token_version
      BY Registered DEF Interviewer
    <3>3. SameKeys
      BY <3>1, <3>2 DEF SameKeys
    <3> QED
      BY <1>2, <1>13, <3>1, <3>3, IdleThread DEF CommitMove
  <2>2. CASE UNCHANGED row
    BY <1>2, <1>13, <2>2, IdleThread DEF CommitMove, SameKeys, Live
  <2> QED
    BY <1>13, <2>1, <2>2 DEF CommitMove
<1>14. ASSUME NEW t \in Threads, CommitDeletion(t) PROVE Sessions'
  <2>1. Live' \subseteq Live /\ SameKeys
    BY <1>14 DEF CommitDeletion, Live, SameKeys
  <2> QED
    BY <1>2, <1>14, <2>1, IdleThread DEF CommitDeletion
<1>15. ASSUME NEW t \in Threads, CommitReset(t) PROVE Sessions'
  <2> DEFINE i == th[t].link.sub
             q == [row[i] EXCEPT !.verified = TRUE]
             r == SetPassword(q, th[t].ver)
  <2>1. i \in Ids /\ th[t].of = i /\ th[t].ver \in 0..MaxHashes /\ th[t].ver < hashes /\ Hash
    BY <1>15, LinkInHand DEF CommitReset
  <2>2. SetsPassword(t, i) /\ th[t].pc = "link"
    BY <1>15, <2>1 DEF CommitReset, At, SetsPassword
  <2>3. i \in Live => q \in Interviewer
    BY Registered DEF Interviewer
  <2>4. Store(i, r) /\ Goto(t, Idle) /\ UNCHANGED <<tokens, raced>>
    BY <1>15 DEF CommitReset
  <2> HIDE DEF q
  <2>5. i \in Live => r.password_hash = hashes + 1 /\ r.token_version = th[t].ver + 1
    BY <2>1, <2>3, SetPasswordType
  <2> HIDE DEF i, r
  <2> QED
    BY <2>1, <2>2, <2>4, <2>5, IdleThread, SessionsSet
<1>16. ASSUME NEW t \in Threads, CommitChange(t) PROVE Sessions'
  <2> DEFINE i == th[t].of
             r == SetPassword(row[i], th[t].ver)
             l == IF i \in Live THEN [pc |-> "issue", of |-> i, password |-> hashes + 1] ELSE Idle
  <2>1. i \in Ids /\ th[t].ver \in 0..MaxHashes /\ th[t].ver < hashes /\ Hash /\ th[t].pc = "change"
    BY <1>16, ThreadVer, Registered DEF CommitChange, At, Typed, Known, Numbered
  <2>2. SetsPassword(t, i)
    BY <2>1 DEF SetsPassword
  <2>3. Store(i, r) /\ Goto(t, l) /\ UNCHANGED <<tokens, raced>>
    BY <1>16 DEF CommitChange, history
  <2>4. i \in Live => r.password_hash = hashes + 1 /\ r.token_version = th[t].ver + 1
    BY <2>1, Registered, SetPasswordType
  <2>5. hashes + 1 \in 1..MaxHashes
    BY <2>1, AccountsAssumption, ThreadVer DEF Hash
  <2>6. l \in Thread /\ (l.pc = "idle" \/ (l.pc = "issue" /\ l.of = i /\ l.password = hashes + 1))
    BY <2>1, <2>5, IdleThread DEF Thread
  <2> HIDE DEF i, r, l
  <2> QED
    BY <2>1, <2>2, <2>3, <2>4, <2>6, SessionsSet
<1>17. ASSUME NEW t \in Threads, Handler(t) PROVE Sessions'
  BY <1>7, <1>9, <1>10, <1>11, <1>12, <1>13, <1>14, <1>15, <1>16, <1>17 DEF Handler
<1>18. ASSUME NEW k \in tokens, Logout(k) \/ Expire(k) \/ ResendVerification(k) \/ \E e \in Emails : UpdateMe(k, e)
       PROVE  Sessions'
  BY <1>1, <1>18 DEF Logout, Expire, Lose, ResendVerification, UpdateMe, history
<1>19. ASSUME NEW i \in Ids, ForgotPassword(i) PROVE Sessions'
  BY <1>1, <1>19 DEF ForgotPassword, history
<1> QED
  BY <1>1, <1>4, <1>5, <1>6, <1>17, <1>18, <1>19 DEF Next, vars, history

SessionInv == Typed /\ Apart /\ Sessions

LEMMA SessionInvHolds == Spec => []SessionInv
<1>1. Init => SessionInv
  BY InitTyped, ApartInit, SessionsInit DEF SessionInv
<1>2. SessionInv /\ [Next]_vars => SessionInv'
  BY StepTyped, ApartStep, SessionsStep DEF SessionInv
<1> QED
  BY <1>1, <1>2, PTL DEF Spec

\* _set_password: a session is good as long as the password it was proven
\* with, except where two requests set an account's password at once.
THEOREM SessionsCorrect == Spec => []SessionsFollowPassword
<1>1. SessionInv => SessionsFollowPassword
  BY DEF SessionInv, Sessions, Follow, Unmarked, SessionsFollowPassword, Accepted
<1> QED
  BY <1>1, SessionInvHolds, PTL

-----------------------------------------------------------------------------
(***************************************************************************)
(* Reset links.  Passwords are numbered, an account's only grows, and what *)
(* a link set is later than the one it was made for.                       *)
(***************************************************************************)
Spent ==
  /\ \A l \in links : l.use = "reset" => l.pwd <= hashes
  /\ \A r \in resets :
       /\ r.link.use = "reset" /\ r.link.sub \in DOMAIN first /\ r.link.pwd < r.password
       /\ r.link.sub \in Live => r.password <= row[r.link.sub].password_hash

LEMMA ResetLink == \A l \in Link : l.use = "reset" => l.pwd \in 1..MaxHashes
BY DEF Link

\* A link that was mailed, if one was.
LEMMA NewLink ==
  ASSUME Typed, [Next]_vars, NEW l \in links' \ links, l.use = "reset"
  PROVE  l.pwd <= hashes /\ hashes' = hashes
<1>1. \A i \in Live : row[i].password_hash <= hashes
  BY DEF Typed, Numbered
<1>2. ASSUME NEW i \in Ids, ForgotPassword(i) PROVE l.pwd <= hashes /\ hashes' = hashes
  <2> DEFINE m == [use |-> "reset", sub |-> i, email |-> row[i].email,
                   to |-> row[i].email, pwd |-> row[i].password_hash]
  <2>1. i \in Live /\ l = m /\ hashes' = hashes
    BY <1>2 DEF ForgotPassword, Mail
  <2> QED
    BY <1>1, <2>1
<1>3. ASSUME NEW i \in Ids, (\E e \in Emails : Register(i, e)) \/ Login(i) PROVE FALSE
  <2>1. ASSUME NEW e \in Emails, Register(i, e) PROVE FALSE
    <3>1. links' = links \cup {[use |-> "verify", sub |-> i, email |-> e, to |-> e]}
      BY <2>1 DEF Register, Mail
    <3> QED
      BY <3>1
  <2>2. ~ Login(i)
    BY DEF Login
  <2> QED
    BY <1>3, <2>1, <2>2
<1>4. ASSUME NEW k \in tokens,
             Refresh(k) \/ Logout(k) \/ Expire(k) \/ ResendVerification(k) \/ \E e \in Emails : UpdateMe(k, e)
      PROVE  FALSE
  BY <1>4 DEF Refresh, Logout, Expire, Lose, ResendVerification, UpdateMe, Mail
<1>5. ASSUME NEW t \in Threads, Handler(t) PROVE FALSE
  BY <1>5 DEF Handler, OpenLink, CommitVerify, CommitReset, CommitMove, ChangePassword, DeleteMe,
              CommitChange, Issue, CommitDeletion
<1> QED
  BY <1>2, <1>3, <1>4, <1>5 DEF Next, vars

\* An account that was marked stays marked.
LEMMA RacedGrows == [Next]_vars => raced \subseteq raced'
BY DEF Next, Handler, OpenLink, CommitVerify, CommitReset, CommitMove, ChangePassword, DeleteMe,
       CommitChange, Issue, CommitDeletion, Refresh, Logout, Expire, Lose, ResendVerification, UpdateMe,
       Register, Login, ForgotPassword, Racing, vars, history

\* One request sets a password by a link, and the link goes on record; or
\* none does.
LEMMA NewReset ==
  ASSUME [Next]_vars
  PROVE  \/ resets' = resets
         \/ \E t \in Threads :
              /\ CommitReset(t) /\ th[t].link.sub \in Live
              /\ resets' = resets \cup {[link |-> th[t].link, password |-> hashes + 1]}
<1>1. ASSUME NEW t \in Threads, CommitReset(t)
      PROVE  \/ resets' = resets
             \/ /\ th[t].link.sub \in Live
                /\ resets' = resets \cup {[link |-> th[t].link, password |-> hashes + 1]}
  BY <1>1 DEF CommitReset
<1>2. ASSUME NEW t \in Threads, Handler(t), ~ CommitReset(t) PROVE resets' = resets
  BY <1>2 DEF Handler, OpenLink, CommitVerify, CommitMove, ChangePassword, DeleteMe,
              CommitChange, Issue, CommitDeletion, history
<1>3. ASSUME NEW k \in tokens,
             Refresh(k) \/ Logout(k) \/ Expire(k) \/ ResendVerification(k) \/ \E e \in Emails : UpdateMe(k, e)
      PROVE  resets' = resets
  BY <1>3 DEF Refresh, Logout, Expire, Lose, ResendVerification, UpdateMe, history
<1>4. ASSUME NEW i \in Ids, (\E e \in Emails : Register(i, e)) \/ Login(i) \/ ForgotPassword(i)
      PROVE  resets' = resets
  BY <1>4 DEF Register, Login, ForgotPassword, history
<1> QED
  BY <1>1, <1>2, <1>3, <1>4 DEF Next, vars, history

\* A registered account's row, while it is there, is given later passwords.
Later ==
  /\ hashes <= hashes' /\ DOMAIN first \subseteq DOMAIN first'
  /\ \A i \in DOMAIN first : i \in Live' =>
       i \in Live /\ row[i].password_hash <= row'[i].password_hash

LEMMA SameIsLater ==
  ASSUME Typed, Live' \subseteq Live, SameKeys, UNCHANGED <<hashes, first>>
  PROVE  Later
<1>1. hashes <= hashes /\ \A i \in Live : row[i].password_hash \in Nat
  BY ThreadVer, Registered, AccountsAssumption DEF Interviewer
<1>2. \A i \in Live : row[i].password_hash <= row[i].password_hash
  BY <1>1
<1> QED
  BY <1>1, <1>2 DEF Later, SameKeys

LEMMA SetIsLater ==
  ASSUME Typed, NEW i, NEW r, Store(i, r), i \in Live => r.password_hash = hashes + 1,
         Hash, first' = first
  PROVE  Later
<1>1. Live' = Live /\ \A j \in Live : row'[j] = IF j = i THEN r ELSE row[j]
  BY StoreRow
<1>2. hashes \in Nat /\ hashes' = hashes + 1 /\ \A j \in Live : row[j].password_hash \in Nat
  BY ThreadVer, Registered, AccountsAssumption DEF Interviewer, Hash
<1>3. ASSUME NEW j \in Live PROVE row[j].password_hash <= row'[j].password_hash
  <2>1. CASE j = i
    BY <1>1, <1>2, <2>1 DEF Typed, Numbered
  <2>2. CASE j # i
    BY <1>1, <1>2, <2>2
  <2> QED
    BY <2>1, <2>2
<1> QED
  BY <1>1, <1>2, <1>3 DEF Later

LEMMA StepIsLater == Typed /\ [Next]_vars => Later
<1> SUFFICES ASSUME Typed, [Next]_vars PROVE Later
  OBVIOUS
<1>1. ASSUME UNCHANGED <<row, hashes, first>> PROVE Later
  BY <1>1, SameIsLater DEF Live, SameKeys
<1>2. ASSUME NEW i \in Ids, NEW e \in Emails, Register(i, e) PROVE Later
  <2>1. Live' = Live \cup {i} /\ i \notin DOMAIN first /\ \A j \in Live \ {i} : row'[j] = row[j]
    BY <1>2, PutRow DEF Register, Fresh
  <2>2. DOMAIN first' = DOMAIN first \cup {i}
    BY <1>2, PutFirst DEF Register
  <2>3. hashes \in Nat /\ hashes' = hashes + 1 /\ \A j \in Live : row[j].password_hash \in Nat
    BY <1>2, ThreadVer, Registered, AccountsAssumption DEF Register, Interviewer, Hash
  <2>4. hashes <= hashes' /\ \A j \in Live : row[j].password_hash <= row[j].password_hash
    BY <2>3
  <2> QED
    BY <2>1, <2>2, <2>4 DEF Later
<1>3. ASSUME NEW t \in Threads, CommitVerify(t) PROVE Later
  <2> DEFINE i == th[t].link.sub
             r == [row[i] EXCEPT !.verified = TRUE]
  <2>1. Live' = Live /\ \A j \in Live : row'[j] = IF j = i THEN r ELSE row[j]
    BY <1>3, StoreRow DEF CommitVerify
  <2>2. i \in Live => r.password_hash = row[i].password_hash /\ r.token_version = row[i].token_version
    BY Registered DEF Interviewer
  <2>3. SameKeys
    BY <2>1, <2>2 DEF SameKeys
  <2> QED
    BY <1>3, <2>1, <2>3, SameIsLater DEF CommitVerify, bounds
<1>4. ASSUME NEW t \in Threads, CommitMove(t) PROVE Later
  <2> DEFINE i == th[t].link.sub
             r == [row[i] EXCEPT !.email = th[t].link.to, !.verified = TRUE]
  <2>1. CASE Store(i, r)
    <3>1. Live' = Live /\ \A j \in Live : row'[j] = IF j = i THEN r ELSE row[j]
      BY <2>1, StoreRow
    <3>2. i \in Live => r.password_hash = row[i].password_hash /\ r.token_version = row[i].token_version
      BY Registered DEF Interviewer
    <3>3. SameKeys
      BY <3>1, <3>2 DEF SameKeys
    <3> QED
      BY <1>4, <3>1, <3>3, SameIsLater DEF CommitMove, bounds
  <2>2. CASE UNCHANGED row
    BY <1>1, <1>4, <2>2 DEF CommitMove, bounds
  <2> QED
    BY <1>4, <2>1, <2>2 DEF CommitMove
<1>5. ASSUME NEW t \in Threads, CommitDeletion(t) PROVE Later
  <2>1. Live' \subseteq Live /\ SameKeys
    BY <1>5 DEF CommitDeletion, Live, SameKeys
  <2> QED
    BY <1>5, <2>1, SameIsLater DEF CommitDeletion, bounds
<1>6. ASSUME NEW t \in Threads, CommitReset(t) PROVE Later
  <2> DEFINE i == th[t].link.sub
             q == [row[i] EXCEPT !.verified = TRUE]
             r == SetPassword(q, th[t].ver)
  <2>1. th[t].ver \in 0..MaxHashes /\ th[t].ver < hashes /\ Hash /\ Store(i, r) /\ first' = first
    BY <1>6, LinkInHand DEF CommitReset
  <2>2. i \in Live => q \in Interviewer
    BY Registered DEF Interviewer
  <2> HIDE DEF q
  <2>3. i \in Live => r.password_hash = hashes + 1
    BY <2>1, <2>2, SetPasswordType
  <2> HIDE DEF i, r
  <2> QED
    BY <2>1, <2>3, SetIsLater
<1>7. ASSUME NEW t \in Threads, CommitChange(t) PROVE Later
  <2> DEFINE i == th[t].of
             r == SetPassword(row[i], th[t].ver)
  <2>1. th[t].ver \in 0..MaxHashes /\ th[t].ver < hashes /\ Hash /\ Store(i, r) /\ first' = first
    BY <1>7, ThreadVer DEF CommitChange, At, Typed, Numbered, history
  <2>2. i \in Live => r.password_hash = hashes + 1
    BY <2>1, Registered, SetPasswordType
  <2> HIDE DEF i, r
  <2> QED
    BY <2>1, <2>2, SetIsLater
<1>8. ASSUME NEW t \in Threads, Handler(t) PROVE Later
  BY <1>1, <1>3, <1>4, <1>5, <1>6, <1>7, <1>8
     DEF Handler, OpenLink, ChangePassword, DeleteMe, Issue, bounds, history
<1>9. ASSUME NEW k \in tokens,
             Refresh(k) \/ Logout(k) \/ Expire(k) \/ ResendVerification(k) \/ \E e \in Emails : UpdateMe(k, e)
      PROVE  Later
  BY <1>1, <1>9 DEF Refresh, Logout, Expire, Lose, ResendVerification, UpdateMe, bounds, history
<1>10. ASSUME NEW i \in Ids, Login(i) \/ ForgotPassword(i) PROVE Later
  BY <1>1, <1>10 DEF Login, ForgotPassword, history
<1> QED
  BY <1>1, <1>2, <1>8, <1>9, <1>10 DEF Next, vars, bounds, history

LEMMA SpentStep == Typed /\ Spent /\ [Next]_vars => Spent'
<1> SUFFICES ASSUME Typed, Spent, [Next]_vars PROVE Spent'
  OBVIOUS
<1>1. Later /\ Typed'
  BY StepIsLater, StepTyped
<1>2. hashes \in Nat /\ hashes' \in Nat /\ hashes <= hashes'
  BY <1>1, AccountsAssumption DEF Typed, TypeOK, Later
<1>3. ASSUME NEW l \in links', l.use = "reset" PROVE l.pwd <= hashes'
  <2>1. CASE l \in links
    <3>1. l.pwd \in 1..MaxHashes /\ l.pwd <= hashes
      BY <1>3, <2>1, ResetLink DEF Spent, Typed, TypeOK
    <3> QED
      BY <1>2, <3>1, AccountsAssumption
  <2>2. CASE l \notin links
    BY <1>3, <2>2, NewLink
  <2> QED
    BY <2>1, <2>2
<1>4. \A r \in resets : r.password \in Nat
  BY AccountsAssumption DEF Typed, TypeOK
<1>5. \A i \in Live : row[i].password_hash \in Nat
  BY Registered, AccountsAssumption DEF Interviewer
<1>6. \A i \in Live' : row'[i].password_hash \in Nat
  BY <1>1, AccountsAssumption DEF Typed, TypeOK, Live, Interviewer
<1>7. ASSUME NEW r \in resets
      PROVE  /\ r.link.use = "reset" /\ r.link.sub \in DOMAIN first' /\ r.link.pwd < r.password
             /\ r.link.sub \in Live' => r.password <= row'[r.link.sub].password_hash
  <2>1. /\ r.link.use = "reset" /\ r.link.sub \in DOMAIN first /\ r.link.pwd < r.password
        /\ r.link.sub \in Live => r.password <= row[r.link.sub].password_hash
    BY DEF Spent
  <2>2. r.link.sub \in DOMAIN first'
    BY <1>1, <2>1 DEF Later
  <2>3. ASSUME r.link.sub \in Live' PROVE r.password <= row'[r.link.sub].password_hash
    <3>1. r.link.sub \in Live /\ row[r.link.sub].password_hash <= row'[r.link.sub].password_hash
      BY <1>1, <2>1, <2>3 DEF Later
    <3> QED
      BY <1>4, <1>5, <1>6, <2>1, <2>3, <3>1
  <2> QED
    BY <2>1, <2>2, <2>3
<1>8. ASSUME NEW t \in Threads, CommitReset(t), th[t].link.sub \in Live
      PROVE  /\ th[t].link.use = "reset" /\ th[t].link.sub \in DOMAIN first' /\ th[t].link.pwd < hashes + 1
             /\ th[t].link.sub \in Live' => hashes + 1 <= row'[th[t].link.sub].password_hash
  <2> DEFINE i == th[t].link.sub
             q == [row[i] EXCEPT !.verified = TRUE]
             r == SetPassword(q, th[t].ver)
  <2>1. /\ th[t].ver \in 0..MaxHashes /\ th[t].ver < hashes /\ Hash /\ Store(i, r)
        /\ th[t].link \in links /\ th[t].link \in Link /\ i \in DOMAIN first /\ th[t].link.use = "reset"
    BY <1>8, LinkInHand DEF CommitReset
  <2>2. th[t].link.pwd \in Nat /\ th[t].link.pwd <= hashes
    BY <2>1, ResetLink, AccountsAssumption DEF Spent
  <2>3. q \in Interviewer
    BY <1>8, Registered DEF Interviewer
  <2>4. row'[i] = r
    BY <1>8, <2>1, StoreRow
  <2> HIDE DEF q
  <2>5. r.password_hash = hashes + 1
    BY <2>1, <2>3, SetPasswordType
  <2>6. hashes + 1 <= hashes + 1 /\ th[t].link.pwd < hashes + 1
    BY <1>2, <2>2
  <2>7. i \in DOMAIN first'
    BY <1>1, <2>1 DEF Later
  <2> HIDE DEF r
  <2> QED
    BY <2>1, <2>4, <2>5, <2>6, <2>7
<1>9. CASE resets' = resets
  BY <1>3, <1>7, <1>9 DEF Spent
<1>10. CASE resets' # resets
  <2>1. PICK t \in Threads :
          /\ CommitReset(t) /\ th[t].link.sub \in Live
          /\ resets' = resets \cup {[link |-> th[t].link, password |-> hashes + 1]}
    BY <1>10, NewReset
  <2> DEFINE n == [link |-> th[t].link, password |-> hashes + 1]
  <2>2. n.link = th[t].link /\ n.password = hashes + 1 /\ resets' = resets \cup {n}
    BY <2>1
  <2> HIDE DEF n
  <2>3. /\ n.link.use = "reset" /\ n.link.sub \in DOMAIN first' /\ n.link.pwd < n.password
        /\ n.link.sub \in Live' => n.password <= row'[n.link.sub].password_hash
    BY <1>8, <2>1, <2>2
  <2> QED
    BY <1>3, <1>7, <2>2, <2>3 DEF Spent
<1> QED
  BY <1>9, <1>10

LEMMA ResetOnceStep == SessionInv /\ Spent /\ ResetOnce /\ [Next]_vars => ResetOnce'
<1> SUFFICES ASSUME SessionInv, Spent, ResetOnce, [Next]_vars,
                    NEW r \in resets', NEW u \in resets', r.link = u.link,
                    r.link.sub \notin raced'
             PROVE  r = u
  BY DEF ResetOnce
<1>1. raced \subseteq raced'
  BY RacedGrows
<1>2. CASE resets' = resets
  BY <1>1, <1>2 DEF ResetOnce
<1>3. CASE resets' # resets
  <2>1. PICK t \in Threads :
          /\ CommitReset(t) /\ th[t].link.sub \in Live
          /\ resets' = resets \cup {[link |-> th[t].link, password |-> hashes + 1]}
    BY <1>3, NewReset
  <2> DEFINE n == [link |-> th[t].link, password |-> hashes + 1]
             i == th[t].link.sub
  <2>2. ASSUME NEW o \in resets, o.link = th[t].link, Unmarked(i) PROVE FALSE
    <3>1. th[t].of = i /\ th[t].pc = "link" /\ th[t].link.use = "reset" /\ th[t].link \in Link
      BY <2>1, LinkInHand DEF SessionInv, CommitReset, At
    <3>2. SetsPassword(t, i)
      BY <3>1 DEF SetsPassword
    <3>3. th[t].link.pwd = row[i].password_hash
      BY <2>1, <2>2, <3>1, <3>2 DEF SessionInv, Sessions, Current, GoesBy
    <3>4. o.link.pwd < o.password /\ o.password <= row[i].password_hash
      BY <2>1, <2>2 DEF Spent
    <3>5. o.password \in Nat /\ o.link.pwd \in Nat /\ row[i].password_hash \in Nat
      <4>1. o.link.pwd \in Nat
        BY <2>2, <3>1, ResetLink, AccountsAssumption
      <4> QED
        BY <2>1, <4>1, Registered, AccountsAssumption DEF SessionInv, Typed, TypeOK, Interviewer
    <3> QED
      BY <2>2, <3>3, <3>4, <3>5
  <2>3. n.link = th[t].link /\ resets' = resets \cup {n}
    BY <2>1
  <2> HIDE DEF n
  <2> QED
    BY <1>1, <2>2, <2>3 DEF ResetOnce, Unmarked
<1> QED
  BY <1>2, <1>3

\* create_reset_token: a reset link sets one password and never another, at
\* whatever distance, except where two requests set an account's password at
\* once.
THEOREM ResetCorrect == Spec => []ResetOnce
<1>1. Spec => [](SessionInv /\ Spent /\ ResetOnce)
  <2>1. Init => SessionInv /\ Spent /\ ResetOnce
    <3>1. Init => SessionInv
      BY InitTyped, ApartInit, SessionsInit DEF SessionInv
    <3>2. Init => Spent /\ ResetOnce
      BY DEF Init, Spent, ResetOnce
    <3> QED
      BY <3>1, <3>2
  <2>2. (SessionInv /\ Spent /\ ResetOnce) /\ [Next]_vars => (SessionInv /\ Spent /\ ResetOnce)'
    <3>1. SessionInv /\ [Next]_vars => SessionInv'
      BY StepTyped, ApartStep, SessionsStep DEF SessionInv
    <3>2. SessionInv /\ Spent /\ [Next]_vars => Spent'
      BY SpentStep DEF SessionInv
    <3> QED
      BY <3>1, <3>2, ResetOnceStep
  <2> QED
    BY <2>1, <2>2, PTL DEF Spec
<1> QED
  BY <1>1, PTL
=============================================================================
