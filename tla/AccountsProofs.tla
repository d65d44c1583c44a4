--------------------------- MODULE AccountsProofs ---------------------------
(***************************************************************************)
(* Proofs about Accounts, for any usernames, identities, requests, methods *)
(* and number of attempts.                                                 *)
(***************************************************************************)
EXTENDS Accounts, TLAPS

USE AccountsAssumption

-----------------------------------------------------------------------------
(* Type correctness.                                                       *)

RequestsOK ==
  /\ req \in [Requests -> Request]
  /\ \A r \in Requests : WellFormed(req[r])
  /\ reply \in Reply

\* One request changes to a well-formed one, with a well-typed reply or none.
LEMMA ReplaceRequest ==
  ASSUME TypeOK, NEW r \in Requests, NEW q \in Request, WellFormed(q),
         req' = [req EXCEPT ![r] = q], reply' \in Reply
  PROVE  RequestsOK'
BY DEF TypeOK, RequestsOK, WellFormed

\* The request that is not in progress is well formed.
LEMMA IdleType == Idle \in Request /\ WellFormed(Idle) /\ NoReply \in Reply
BY DEF Idle, Request, WellFormed, Steps, Roles, NoReply, Reply, Codes

\* Answering a request keeps req and reply well typed.
LEMMA AnswerType ==
  ASSUME TypeOK, NEW r \in Requests, NEW code, Answer(r, code),
         code \in {"ok", "refused", "conflict", "no_free_name", "internal"}
  PROVE  RequestsOK'
<1>1. req[r] \in Request
  BY DEF TypeOK
<1>2. reply' \in Reply
  BY <1>1 DEF Answer, Request, Reply, Codes
<1> QED
  BY <1>2, IdleType, ReplaceRequest DEF Answer

\* So does moving on to another statement of the same sign-in.
LEMMA ProceedType ==
  ASSUME TypeOK, NEW r \in Requests, NEW step, Proceed(r, step),
         step \in {"create", "link", "commit", "relookup"},
         req[r].step \notin {"idle", "setRole"}
  PROVE  RequestsOK'
<1> DEFINE q == [req[r] EXCEPT !.step = step]
<1>0. req[r] \in Request /\ step \in Steps
  BY DEF TypeOK, Steps
<1>1. q \in Request
  BY <1>0 DEF Request
<1>2. WellFormed(q)
  BY DEF TypeOK, Request, WellFormed
<1> QED
  BY <1>1, <1>2, IdleType, ReplaceRequest DEF Proceed

\* So does issuing a token, which is one for an account that exists.
LEMMA IssueType ==
  ASSUME TypeOK, NEW r \in Requests, NEW n \in Usernames, Issue(r, n)
  PROVE  RequestsOK' /\ sessions' \in SUBSET Session
<1>1. [user |-> n, identity |-> req[r].identity] \in Session
  BY DEF TypeOK, Request, Session
<1> QED
  BY <1>1, AnswerType DEF Issue, TypeOK

\* The username a sign-in tries is a username.
LEMMA NameType ==
  ASSUME TypeOK, NEW r \in Requests, req[r].step \notin {"idle", "setRole"}
  PROVE  Name(r) \in Usernames
<1>1. req[r].base \in Bases /\ req[r].attempt \in 1..MaxAttempts
  BY DEF TypeOK, WellFormed, Request
<1> QED
  BY <1>1 DEF Name

TablesOK ==
  /\ registered \in SUBSET Usernames
  /\ passwords \in SUBSET registered
  /\ inactive \in SUBSET registered
  /\ role \in [Usernames -> Roles]
  /\ links \in SUBSET Link

\* A new account with a password keeps the tables well typed.
LEMMA AddAccountType ==
  ASSUME TypeOK, NEW n \in Usernames, NEW first \in Roles,
         AddAccount(n, first), passwords' = passwords \cup {n},
         UNCHANGED <<inactive, links>>
  PROVE  TablesOK'
BY DEF TypeOK, AddAccount, TablesOK

\* So does one with a link.
LEMMA AddLinkedAccountType ==
  ASSUME TypeOK, NEW r \in Requests, AddLinkedAccount(r),
         req[r].step \notin {"idle", "setRole"}
  PROVE  TablesOK'
<1>1. Name(r) \in Usernames
  BY NameType
<1>2. req[r].identity \in Identities
  BY DEF TypeOK, WellFormed
<1> QED
  BY <1>1, <1>2 DEF AddLinkedAccount, AddAccount, TypeOK, TablesOK, Link

\* What a request does when it arrives keeps the state well typed.
LEMMA ArriveType ==
  ASSUME TypeOK, NEW r \in Requests, Arrive(r)
  PROVE  TypeOK'
<1>1. CASE SignUp(r)
  <2>1. RequestsOK'
    BY <1>1, AnswerType DEF SignUp
  <2>2. TablesOK'
    <3>1. CASE UNCHANGED tables
      BY <3>1 DEF TypeOK, TablesOK, tables
    <3>2. CASE ~UNCHANGED tables
      <4>1. PICK n \in Usernames :
              /\ AddAccount(n, "BASIC")
              /\ passwords' = passwords \cup {n}
              /\ UNCHANGED <<inactive, links>>
        BY <1>1, <3>2 DEF SignUp
      <4> QED
        BY <4>1, AddAccountType DEF Roles
    <3> QED
      BY <3>1, <3>2
  <2> QED
    BY <1>1, <2>1, <2>2 DEF SignUp, TypeOK, TablesOK, RequestsOK
<1>2. CASE SignIn(r)
  <2>1. RequestsOK' /\ sessions' \in SUBSET Session
    BY <1>2, AnswerType, IssueType DEF SignIn, TypeOK
  <2> QED
    BY <1>2, <2>1 DEF SignIn, TypeOK, RequestsOK, tables
<1>3. CASE BeginExternal(r)
  <2>1. RequestsOK'
    <3>1. CASE Answer(r, "refused")
      BY <3>1, AnswerType
    <3>2. CASE \E i \in Identities, b \in Bases :
                 req' = [req EXCEPT ![r] = [Idle EXCEPT !.step = "lookup",
                                              !.identity = i, !.base = b]]
      <4>1. PICK i \in Identities, b \in Bases :
              req' = [req EXCEPT ![r] = [Idle EXCEPT !.step = "lookup",
                                           !.identity = i, !.base = b]]
        BY <3>2
      <4> DEFINE q == [Idle EXCEPT !.step = "lookup", !.identity = i,
                                   !.base = b]
      <4>2. q \in Request
        BY IdleType DEF Request, Steps
      <4>3. WellFormed(q)
        BY DEF Idle, WellFormed
      <4>4. reply' \in Reply
        BY <1>3, IdleType, AnswerType DEF BeginExternal, RequestsOK
      <4> QED
        BY <4>1, <4>2, <4>3, <4>4, ReplaceRequest
    <3> QED
      BY <1>3, <3>1, <3>2 DEF BeginExternal
  <2> QED
    BY <1>3, <2>1 DEF BeginExternal, TypeOK, RequestsOK, tables
<1>4. CASE BeginSetRole(r)
  <2>1. RequestsOK'
    <3>1. CASE Answer(r, "refused")
      BY <3>1, AnswerType
    <3>2. CASE ~Answer(r, "refused")
      <4>1. PICK actor \in Usernames, n \in Usernames, rank \in Roles :
              /\ req' = [req EXCEPT ![r] =
                   [Idle EXCEPT !.step = "setRole", !.actor = actor,
                                !.user = n, !.rank = rank]]
              /\ reply' = NoReply
        BY <1>4, <3>2 DEF BeginSetRole
      <4> DEFINE q == [Idle EXCEPT !.step = "setRole", !.actor = actor,
                                   !.user = n, !.rank = rank]
      <4>2. q \in Request
        BY IdleType DEF Request, Steps
      <4>3. WellFormed(q)
        BY DEF Idle, WellFormed
      <4> QED
        BY <4>1, <4>2, <4>3, IdleType, ReplaceRequest
    <3> QED
      BY <3>1, <3>2
  <2> QED
    BY <1>4, <2>1 DEF BeginSetRole, TypeOK, RequestsOK, tables
<1> QED
  BY <1>1, <1>2, <1>3, <1>4 DEF Arrive

\* So do the statements of a sign-in that follow a conflict.
LEMMA NextNameType ==
  ASSUME TypeOK, NEW r \in Requests, NextName(r), req[r].step = "relookup"
  PROVE  RequestsOK'
<1>1. CASE Answer(r, "no_free_name")
  BY <1>1, AnswerType
<1>2. CASE req[r].attempt < MaxAttempts
  <2> DEFINE q == [req[r] EXCEPT !.step = "create",
                                 !.attempt = req[r].attempt + 1]
  <2>1. req' = [req EXCEPT ![r] = q] /\ reply' = NoReply
    BY <1>2 DEF NextName, TypeOK
  <2>2. req[r] \in Request /\ req[r].attempt + 1 \in 1..MaxAttempts
    BY <1>2 DEF TypeOK, Request
  <2>3. q \in Request
    BY <2>2 DEF Request, Steps
  <2>4. WellFormed(q)
    BY <2>2 DEF TypeOK, Request, WellFormed
  <2> QED
    BY <2>1, <2>3, <2>4, IdleType, ReplaceRequest
<1> QED
  BY <1>1, <1>2 DEF NextName

\* So do the statements of a request in progress.
LEMMA RunType ==
  ASSUME TypeOK, NEW r \in Requests, Run(r)
  PROVE  TypeOK'
<1>1. CASE Lookup(r)
  <2>1. RequestsOK'
    <3>1. CASE Answer(r, "refused")
      BY <3>1, AnswerType
    <3>2. CASE Proceed(r, "create")
      BY <1>1, <3>2, ProceedType DEF Lookup
    <3>3. CASE ~Answer(r, "refused") /\ ~Proceed(r, "create")
      <4>1. PICK l \in links :
              /\ req' = [req EXCEPT ![r].step = "touch", ![r].user = l.user]
              /\ reply' = NoReply
        BY <1>1, <3>3 DEF Lookup
      <4> DEFINE q == [req[r] EXCEPT !.step = "touch", !.user = l.user]
      <4>2. req[r] \in Request /\ l.user \in Usernames
        BY DEF TypeOK, Link
      <4>3. req' = [req EXCEPT ![r] = q]
        BY <4>1 DEF TypeOK
      <4>4. q \in Request
        BY <4>2 DEF Request, Steps
      <4>5. WellFormed(q)
        BY <1>1, <4>2 DEF Lookup, TypeOK, Request, WellFormed
      <4> QED
        BY <4>1, <4>3, <4>4, <4>5, IdleType, ReplaceRequest
    <3> QED
      BY <3>1, <3>2, <3>3
  <2> QED
    BY <1>1, <2>1 DEF Lookup, TypeOK, RequestsOK, tables
<1>2. CASE Touch(r)
  <2>1. req[r].user \in Usernames
    BY <1>2 DEF Touch, TypeOK, WellFormed
  <2>2. RequestsOK' /\ sessions' \in SUBSET Session
    BY <1>2, <2>1, IssueType DEF Touch
  <2> QED
    BY <1>2, <2>2 DEF Touch, TypeOK, RequestsOK, tables
<1>3. CASE Relookup(r)
  <2>1. RequestsOK' /\ sessions' \in SUBSET Session
    <3>1. CASE \E l \in links : Issue(r, l.user)
      BY <3>1, IssueType DEF TypeOK, Link
    <3>2. CASE UNCHANGED sessions /\ (Answer(r, "refused") \/ NextName(r))
      BY <1>3, <3>2, AnswerType, NextNameType DEF Relookup, TypeOK
    <3> QED
      BY <1>3, <3>1, <3>2 DEF Relookup
  <2> QED
    BY <1>3, <2>1 DEF Relookup, TypeOK, RequestsOK, tables
<1>4. CASE CreateLinked(r)
  <2>1. CASE Proceed(r, "relookup") /\ UNCHANGED <<tables, sessions>>
    <3>1. RequestsOK'
      BY <1>4, <2>1, ProceedType DEF CreateLinked
    <3> QED
      BY <1>4, <2>1, <3>1 DEF CreateLinked, TypeOK, RequestsOK, tables
  <2>2. CASE AddLinkedAccount(r)
    <3>1. TablesOK'
      BY <1>4, <2>2, AddLinkedAccountType DEF CreateLinked
    <3>2. Name(r) \in Usernames
      BY <1>4, NameType DEF CreateLinked
    <3>3. RequestsOK' /\ sessions' \in SUBSET Session
      BY <1>4, <3>2, AnswerType, IssueType, ProceedType
         DEF CreateLinked, TypeOK
    <3> QED
      BY <1>4, <3>1, <3>3 DEF CreateLinked, TypeOK, RequestsOK, TablesOK
  <2> QED
    BY <1>4, <2>1, <2>2 DEF CreateLinked
<1>5. CASE InsertAccount(r)
  <2>1. RequestsOK'
    BY <1>5, ProceedType DEF InsertAccount
  <2> QED
    BY <1>5, <2>1 DEF InsertAccount, TypeOK, RequestsOK, tables
<1>6. CASE InsertLink(r)
  <2>1. RequestsOK'
    BY <1>6, ProceedType DEF InsertLink
  <2> QED
    BY <1>6, <2>1 DEF InsertLink, TypeOK, RequestsOK, tables
<1>7. CASE CommitAccount(r)
  <2>1. TablesOK'
    BY <1>7, AddLinkedAccountType DEF CommitAccount
  <2>2. Name(r) \in Usernames
    BY <1>7, NameType DEF CommitAccount
  <2>3. RequestsOK' /\ sessions' \in SUBSET Session
    BY <1>7, <2>2, IssueType DEF CommitAccount
  <2> QED
    BY <1>7, <2>1, <2>3 DEF CommitAccount, TypeOK, RequestsOK, TablesOK
<1>8. CASE SetRole(r)
  <2>1. RequestsOK'
    BY <1>8, AnswerType DEF SetRole, UpdateRole
  <2>2. role' \in [Usernames -> Roles]
    <3>1. req[r] \in Request
      BY DEF TypeOK
    <3>2. req[r].rank \in Roles
      BY <3>1 DEF Request
    <3> QED
      BY <1>8, <3>2 DEF SetRole, UpdateRole, TypeOK
  <2> QED
    BY <1>8, <2>1, <2>2 DEF SetRole, TypeOK, RequestsOK
<1>9. CASE Busy(r)
  <2>1. RequestsOK'
    BY <1>9, AnswerType DEF Busy
  <2> QED
    BY <1>9, <2>1 DEF Busy, TypeOK, RequestsOK, tables
<1> QED
  BY <1>1, <1>2, <1>3, <1>4, <1>5, <1>6, <1>7, <1>8, <1>9 DEF Run

\* Every step keeps the state well typed.
LEMMA NextType == TypeOK /\ [Next]_vars => TypeOK'
<1> SUFFICES ASSUME TypeOK, [Next]_vars
             PROVE  TypeOK'
  OBVIOUS
<1>1. CASE Start
  <2>1. TablesOK'
    <3>1. PICK n \in AdminNames \cup {Nobody} :
            IF n # Nobody /\ n \notin registered
              THEN AddAccount(n, "ADMIN") /\ passwords' = passwords \cup {n}
              ELSE UNCHANGED <<registered, role, passwords>>
      BY <1>1 DEF Start
    <3>2. CASE n # Nobody /\ n \notin registered
      BY <1>1, <3>1, <3>2, AddAccountType DEF Start, Roles
    <3>3. CASE ~(n # Nobody /\ n \notin registered)
      BY <1>1, <3>1, <3>3 DEF Start, TypeOK, TablesOK
    <3> QED
      BY <3>2, <3>3
  <2> QED
    BY <1>1, <2>1, IdleType DEF Start, TypeOK, TablesOK
<1>2. CASE Crash
  BY <1>2, IdleType DEF Crash, TypeOK, tables
<1>3. CASE Expire
  BY <1>3, IdleType DEF Expire, TypeOK, tables
<1>4. ASSUME NEW r \in Requests, StatementFails(r)
      PROVE  TypeOK'
  <2>1. RequestsOK'
    BY <1>4, AnswerType DEF StatementFails
  <2> QED
    BY <1>4, <2>1 DEF StatementFails, Release, TypeOK, RequestsOK, tables
<1>5. ASSUME NEW n \in Deactivatable, SetActive(n)
      PROVE  TypeOK'
  BY <1>5, IdleType DEF SetActive, TypeOK
<1>6. CASE UNCHANGED vars
  BY <1>6 DEF vars, tables, TypeOK
<1> QED
  BY <1>1, <1>2, <1>3, <1>4, <1>5, <1>6, ArriveType, RunType DEF Next

\* Every reachable state of the accounts is well typed, and every request in
\* progress has the arguments of its next statement at hand.
THEOREM AccountsTypeCorrect == Spec => []TypeOK
<1>1. Init => TypeOK
  BY IdleType DEF Init, TypeOK, Roles
<1> QED
  BY <1>1, NextType, PTL DEF Spec

-----------------------------------------------------------------------------
(* The inductive invariant.                                                *)

\* A request in the middle of SQLite's transaction holds the write lock and
\* what it has inserted is still new.
TransactionHeld ==
  \A r \in Requests : req[r].step \in {"link", "commit"} =>
    /\ Engine = "sqlite"
    /\ writer = r
    /\ Name(r) \notin registered
    /\ req[r].step = "commit" => ~Linked(req[r].identity)

\* Nothing is in progress while the server is down, and only a sign-in has an
\* identity.
RequestsInPlace ==
  /\ \A r \in Requests : ~up => req[r].step = "idle"
  /\ \A r \in Requests : req[r].step = "idle" => req[r].identity = NoIdentity

\* The account a sign-in has read is linked to its identity.
AccountRead ==
  \A r \in Requests : req[r].step = "touch" =>
    [identity |-> req[r].identity, user |-> req[r].user] \in links

AccountsInv == TransactionHeld /\ RequestsInPlace /\ AccountRead

-----------------------------------------------------------------------------
(* How a step changes the directory of accounts.                           *)

SameDirectory == UNCHANGED <<registered, passwords, links>>

Registers(n) ==
  /\ n \notin registered
  /\ registered' = registered \cup {n}
  /\ passwords' = passwords \cup {n}
  /\ links' = links

Enrols(i, n) ==
  /\ n \notin registered
  /\ ~Linked(i)
  /\ registered' = registered \cup {n}
  /\ passwords' = passwords
  /\ links' = links \cup {[identity |-> i, user |-> n]}

\* A first sign-in enrols its identity, whether in one statement or at the end
\* of a transaction.
LEMMA EnrolSteps ==
  ASSUME TypeOK, AccountsInv, NEW r \in Requests,
         CommitAccount(r) \/ (CreateLinked(r) /\ ~SameDirectory)
  PROVE  /\ Enrols(req[r].identity, Name(r))
         /\ req[r].identity \in Identities /\ Name(r) \in Usernames
         /\ role' = [role EXCEPT ![Name(r)] = ExternalRole]
<1>1. req[r].step \in {"create", "commit"}
  BY DEF CommitAccount, CreateLinked
<1>2. req[r].identity \in Identities /\ Name(r) \in Usernames
  BY <1>1, NameType DEF TypeOK, WellFormed
<1>3. CASE CommitAccount(r)
  BY <1>2, <1>3 DEF CommitAccount, AddLinkedAccount, AddAccount, Enrols,
     AccountsInv, TransactionHeld
<1>4. CASE CreateLinked(r) /\ ~SameDirectory
  BY <1>2, <1>4 DEF CreateLinked, AddLinkedAccount, AddAccount, Enrols,
     SameDirectory, tables
<1> QED
  BY <1>3, <1>4

\* A sign-up or a start registers an account with a password.
LEMMA RegisterSteps ==
  ASSUME TypeOK, Start \/ \E r \in Requests : SignUp(r), ~SameDirectory
  PROVE  \E n \in Usernames, first \in Roles :
           Registers(n) /\ role' = [role EXCEPT ![n] = first]
<1>1. CASE Start
  <2>1. PICK n \in AdminNames \cup {Nobody} :
          /\ n # Nobody /\ n \notin registered
          /\ AddAccount(n, "ADMIN") /\ passwords' = passwords \cup {n}
    BY <1>1 DEF Start, SameDirectory
  <2>2. n \in Usernames /\ "ADMIN" \in Roles
    BY <2>1 DEF Roles
  <2>3. Registers(n) /\ role' = [role EXCEPT ![n] = "ADMIN"]
    BY <1>1, <2>1 DEF Start, AddAccount, Registers
  <2> QED
    BY <2>2, <2>3
<1>2. CASE \E r \in Requests : SignUp(r)
  <2>1. PICK n \in Usernames :
          /\ n \notin registered
          /\ AddAccount(n, "BASIC") /\ passwords' = passwords \cup {n}
          /\ UNCHANGED <<inactive, links>>
    BY <1>2 DEF SignUp, SameDirectory, tables
  <2>2. "BASIC" \in Roles
    BY DEF Roles
  <2>3. Registers(n) /\ role' = [role EXCEPT ![n] = "BASIC"]
    BY <2>1 DEF AddAccount, Registers
  <2> QED
    BY <2>2, <2>3
<1> QED
  BY <1>1, <1>2

\* Nothing else changes the directory.
LEMMA DirectorySteps ==
  ASSUME TypeOK, AccountsInv, [Next]_vars
  PROVE  \/ SameDirectory
         \/ \E n \in Usernames : Registers(n)
         \/ \E i \in Identities, n \in Usernames : Enrols(i, n)
<1>1. CASE Start
  BY <1>1, RegisterSteps
<1>2. ASSUME NEW r \in Requests, SignUp(r)
      PROVE  SameDirectory \/ \E n \in Usernames : Registers(n)
  BY <1>2, RegisterSteps
<1>3. ASSUME NEW r \in Requests, CreateLinked(r) \/ CommitAccount(r)
      PROVE  \/ SameDirectory
             \/ \E i \in Identities, n \in Usernames : Enrols(i, n)
  BY <1>3, EnrolSteps
<1>4. ASSUME NEW r \in Requests,
             \/ SignIn(r) \/ BeginExternal(r) \/ BeginSetRole(r) \/ Lookup(r)
             \/ Touch(r) \/ Relookup(r) \/ InsertAccount(r) \/ InsertLink(r)
             \/ SetRole(r) \/ Busy(r) \/ StatementFails(r)
      PROVE  SameDirectory
  BY <1>4 DEF SameDirectory, tables, SignIn, BeginExternal, BeginSetRole,
     Lookup, Touch, Relookup, InsertAccount, InsertLink, SetRole, Busy,
     StatementFails
<1>5. CASE \/ Crash \/ Expire \/ UNCHANGED vars
           \/ \E n \in Deactivatable : SetActive(n)
  BY <1>5 DEF SameDirectory, tables, vars, Crash, Expire, SetActive
<1> QED
  BY <1>1, <1>2, <1>3, <1>4, <1>5 DEF Next, Arrive, Run

\* Either way of making an account keeps accounts and links matched.
LEMMA MatchStays ==
  ASSUME TypeOK, AccountsInv, LinksMatchAccounts, [Next]_vars
  PROVE  LinksMatchAccounts'
<1>1. CASE SameDirectory
  BY <1>1 DEF SameDirectory, LinksMatchAccounts
<1>2. ASSUME NEW n \in Usernames, Registers(n)
      PROVE  LinksMatchAccounts'
  BY <1>2 DEF Registers, LinksMatchAccounts, TypeOK
<1>3. ASSUME NEW i \in Identities, NEW n \in Usernames, Enrols(i, n)
      PROVE  LinksMatchAccounts'
  <2> DEFINE new == [identity |-> i, user |-> n]
  <2>1. \A l \in links : l.identity # i /\ l.user # n
    BY <1>3 DEF Enrols, Linked, LinksMatchAccounts
  <2>2. n \notin passwords
    BY <1>3 DEF Enrols, TypeOK
  <2>3. /\ registered' = registered \cup {n} /\ passwords' = passwords
        /\ links' = links \cup {new} /\ new.identity = i /\ new.user = n
    BY <1>3 DEF Enrols
  <2> HIDE DEF new
  <2>4. \A l \in links' : l.user \in registered' \ passwords'
    BY <2>2, <2>3 DEF LinksMatchAccounts
  <2>5. \A m \in registered' \ passwords' : \E l \in links' : l.user = m
    BY <2>3 DEF LinksMatchAccounts
  <2>6. \A l, m \in links' :
          l.identity = m.identity \/ l.user = m.user => l = m
    BY <2>1, <2>3 DEF LinksMatchAccounts
  <2> QED
    BY <2>4, <2>5, <2>6 DEF LinksMatchAccounts
<1> QED
  BY <1>1, <1>2, <1>3, DirectorySteps

-----------------------------------------------------------------------------
(* The inductive invariant is preserved.                                   *)

RequestStep(r) == Arrive(r) \/ Run(r) \/ StatementFails(r)

\* A step of one request leaves the others where they are.
LEMMA OthersWait ==
  ASSUME TypeOK, NEW r \in Requests, RequestStep(r),
         NEW s \in Requests \ {r}
  PROVE  req'[s] = req[s]
<1>1. CASE Arrive(r)
  BY <1>1 DEF Arrive, SignUp, SignIn, BeginExternal, BeginSetRole, Issue,
     Answer, TypeOK
<1>2. CASE Lookup(r) \/ Touch(r) \/ Relookup(r)
  BY <1>2 DEF Lookup, Touch, Relookup, NextName, Issue, Answer, Proceed,
     TypeOK
<1>3. CASE CreateLinked(r) \/ InsertAccount(r) \/ InsertLink(r)
             \/ CommitAccount(r)
  BY <1>3 DEF CreateLinked, InsertAccount, InsertLink, CommitAccount, Issue,
     Answer, Proceed, TypeOK
<1>4. CASE SetRole(r) \/ Busy(r) \/ StatementFails(r)
  BY <1>4 DEF SetRole, UpdateRole, Busy, StatementFails, Answer, TypeOK
<1> QED
  BY <1>1, <1>2, <1>3, <1>4 DEF RequestStep, Run

\* While one request holds the write lock no other changes accounts or links,
\* nor takes the lock.
LEMMA WriterExcludes ==
  ASSUME TypeOK, AccountsInv, Engine = "sqlite",
         NEW r \in Requests, RequestStep(r),
         NEW s \in Requests \ {r}, writer = s
  PROVE  writer' = s /\ UNCHANGED <<registered, links>>
<1>1. ~MayWrite(r) /\ writer # Nobody
  BY DEF MayWrite
<1>2. req[r].step \notin {"link", "commit"}
  BY DEF AccountsInv, TransactionHeld
<1>3. CASE Arrive(r)
  BY <1>1, <1>3 DEF Arrive, SignUp, SignIn, BeginExternal, BeginSetRole,
     tables
<1>4. CASE Run(r)
  BY <1>1, <1>2, <1>4 DEF Run, Lookup, Touch, Relookup, CreateLinked,
     InsertAccount, InsertLink, CommitAccount, SetRole, Busy, tables
<1>5. CASE StatementFails(r)
  BY <1>5 DEF StatementFails, Release, tables
<1> QED
  BY <1>3, <1>4, <1>5 DEF RequestStep

\* Moving on changes nothing of a request but its next statement.
LEMMA ProceedStep ==
  ASSUME TypeOK, NEW r \in Requests, NEW step, Proceed(r, step)
  PROVE  /\ req'[r].step = step
         /\ req'[r].identity = req[r].identity
         /\ req'[r].user = req[r].user
         /\ req'[r].base = req[r].base
         /\ req'[r].attempt = req[r].attempt
         /\ Name(r)' = Name(r)
<1>1. req[r] \in Request
  BY DEF TypeOK
<1>2. req'[r] = [req[r] EXCEPT !.step = step]
  BY DEF Proceed, TypeOK
<1> QED
  BY <1>1, <1>2 DEF Request, Name

\* A request that has its answer is no longer in progress.
LEMMA AnswerStep ==
  ASSUME TypeOK, NEW r \in Requests, NEW code, Answer(r, code)
  PROVE  req'[r] = Idle /\ req'[r].step = "idle"
BY DEF Answer, Idle, TypeOK

\* A change of role that is let in begins as one.
LEMMA BeginsRole ==
  ASSUME TypeOK, NEW r \in Requests, BeginSetRole(r), ~Answer(r, "refused")
  PROVE  req'[r].step = "setRole"
<1>1. PICK a \in Usernames, n \in Usernames, k \in Roles :
        req' = [req EXCEPT ![r] = [Idle EXCEPT !.step = "setRole",
                                     !.actor = a, !.user = n, !.rank = k]]
  BY DEF BeginSetRole
<1>2. req'[r] = [Idle EXCEPT !.step = "setRole", !.actor = a, !.user = n,
                             !.rank = k]
  BY <1>1 DEF TypeOK
<1> QED
  BY <1>2 DEF Idle

\* A request that arrives is answered or begins a sign-in or a change of role.
LEMMA ArriveStep ==
  ASSUME TypeOK, NEW r \in Requests, Arrive(r)
  PROVE  req'[r] = Idle \/ req'[r].step \in {"lookup", "setRole"}
<1>1. CASE SignUp(r) \/ SignIn(r) \/ Answer(r, "refused")
  BY <1>1, AnswerStep DEF SignUp, SignIn, Issue
<1>2. CASE BeginExternal(r) /\ ~Answer(r, "refused")
  <2>1. PICK i \in Identities, b \in Bases :
          req' = [req EXCEPT ![r] = [Idle EXCEPT !.step = "lookup",
                                       !.identity = i, !.base = b]]
    BY <1>2 DEF BeginExternal
  <2>2. req'[r] = [Idle EXCEPT !.step = "lookup", !.identity = i, !.base = b]
    BY <2>1 DEF TypeOK
  <2> QED
    BY <2>2 DEF Idle
<1>3. CASE BeginSetRole(r) /\ ~Answer(r, "refused")
  BY <1>3, BeginsRole
<1> QED
  BY <1>1, <1>2, <1>3 DEF Arrive

\* A sign-in that has found the account of its identity.
LEMMA FoundStep ==
  ASSUME TypeOK, NEW r \in Requests, NEW l \in links,
         l.identity = req[r].identity,
         req' = [req EXCEPT ![r].step = "touch", ![r].user = l.user]
  PROVE  /\ req'[r].step = "touch"
         /\ [identity |-> req'[r].identity, user |-> req'[r].user] \in links
<1>1. req'[r] = [req[r] EXCEPT !.step = "touch", !.user = l.user]
  BY DEF TypeOK
<1>2. req[r] \in Request
  BY DEF TypeOK
<1>3. req'[r].step = "touch"
  BY <1>1, <1>2 DEF Request
<1>4. req'[r].user = l.user
  BY <1>1, <1>2 DEF Request
<1>5. req'[r].identity = req[r].identity
  BY <1>1, <1>2 DEF Request
<1>6. l = [identity |-> req[r].identity, user |-> l.user]
  BY DEF TypeOK, Link
<1> QED
  BY <1>3, <1>4, <1>5, <1>6

\* A lookup ends the sign-in, or finds the account of the identity, or goes on
\* to create it.
LEMMA LookupStep ==
  ASSUME TypeOK, NEW r \in Requests, Lookup(r)
  PROVE  \/ req'[r] = Idle
         \/ req'[r].step = "create"
         \/ /\ req'[r].step = "touch"
            /\ [identity |-> req'[r].identity, user |-> req'[r].user] \in links
<1>1. CASE Answer(r, "refused") \/ Proceed(r, "create")
  BY <1>1, AnswerStep, ProceedStep
<1>2. CASE ~(Answer(r, "refused") \/ Proceed(r, "create"))
  BY <1>2, FoundStep DEF Lookup
<1> QED
  BY <1>1, <1>2

\* A second lookup ends the sign-in or tries another name.
LEMMA RelookupStep ==
  ASSUME TypeOK, NEW r \in Requests, Relookup(r)
  PROVE  req'[r] = Idle \/ req'[r].step = "create"
<1>1. CASE \E code : Answer(r, code)
  BY <1>1, AnswerStep
<1>2. CASE ~\E code : Answer(r, code)
  <2>1. req' = [req EXCEPT ![r].step = "create",
                           ![r].attempt = req[r].attempt + 1]
    BY <1>2 DEF Relookup, NextName, Issue
  <2>2. req'[r] = [req[r] EXCEPT !.step = "create",
                                 !.attempt = req[r].attempt + 1]
    BY <2>1 DEF TypeOK
  <2>3. req[r] \in Request
    BY DEF TypeOK
  <2> QED
    BY <2>2, <2>3 DEF Request
<1> QED
  BY <1>1, <1>2

\* What a step leaves a request to do next.
LEMMA NextStep ==
  ASSUME TypeOK, NEW r \in Requests, RequestStep(r)
  PROVE  \/ req'[r] = Idle
         \/ req'[r].step \in {"lookup", "setRole", "create", "relookup"}
         \/ /\ req'[r].step = "touch"
            /\ [identity |-> req'[r].identity, user |-> req'[r].user] \in links
         \/ InsertAccount(r) /\ Proceed(r, "link") /\ writer' = r
         \/ InsertLink(r) /\ Proceed(r, "commit") /\ UNCHANGED writer
<1>1. CASE InsertAccount(r) \/ InsertLink(r)
  BY <1>1, ProceedStep DEF InsertAccount, InsertLink
<1>2. CASE Touch(r) \/ CommitAccount(r) \/ CreateLinked(r)
  BY <1>2, AnswerStep, ProceedStep DEF Touch, CommitAccount, CreateLinked,
     Issue
<1>3. CASE SetRole(r) \/ Busy(r) \/ StatementFails(r)
  BY <1>3, AnswerStep DEF SetRole, UpdateRole, Busy, StatementFails
<1> QED
  BY <1>1, <1>2, <1>3, ArriveStep, LookupStep, RelookupStep
     DEF RequestStep, Run

\* A request enters the transaction by inserting its account, and goes on in
\* it by inserting its link.
LEMMA EnterTransaction ==
  ASSUME TypeOK, NEW r \in Requests, RequestStep(r),
         req'[r].step \in {"link", "commit"}
  PROVE  \/ InsertAccount(r) /\ Proceed(r, "link") /\ writer' = r
         \/ InsertLink(r) /\ Proceed(r, "commit") /\ UNCHANGED writer
<1>1. req'[r] # Idle
  BY DEF Idle
<1>2. req'[r].step \notin {"lookup", "setRole", "create", "relookup", "touch"}
  OBVIOUS
<1> QED
  BY <1>1, <1>2, NextStep

\* No step breaks into a transaction or takes the name it has inserted.
LEMMA TransactionStays ==
  ASSUME TypeOK, AccountsInv, NEW r \in Requests, RequestStep(r)
  PROVE  TransactionHeld'
<1> SUFFICES ASSUME NEW s \in Requests, req'[s].step \in {"link", "commit"}
             PROVE  /\ Engine = "sqlite"
                    /\ writer' = s
                    /\ Name(s)' \notin registered'
                    /\ req'[s].step = "commit" => ~Linked(req[s].identity)'
  BY DEF TransactionHeld
<1>1. CASE s # r
  <2>1. req'[s] = req[s]
    BY <1>1, OthersWait
  <2>2. /\ Engine = "sqlite" /\ writer = s /\ Name(s) \notin registered
        /\ req[s].step = "commit" => ~Linked(req[s].identity)
    BY <2>1 DEF AccountsInv, TransactionHeld
  <2>3. writer' = s /\ UNCHANGED <<registered, links>>
    BY <1>1, <2>2, WriterExcludes
  <2> QED
    BY <2>1, <2>2, <2>3 DEF Name, Linked
<1>2. CASE s = r
  <2>1. CASE InsertAccount(r) /\ Proceed(r, "link") /\ writer' = r
    <3>1. req'[r].step = "link" /\ Name(r)' = Name(r)
      BY <2>1, ProceedStep
    <3>2. Name(r) \notin registered
      <4>1. ~Proceed(r, "relookup")
        BY <3>1, ProceedStep
      <4> QED
        BY <2>1, <4>1 DEF InsertAccount
    <3> QED
      BY <1>2, <2>1, <3>1, <3>2 DEF InsertAccount, tables
  <2>2. CASE InsertLink(r) /\ Proceed(r, "commit") /\ UNCHANGED writer
    <3>1. /\ req'[r].step = "commit" /\ Name(r)' = Name(r)
          /\ req'[r].identity = req[r].identity
      BY <2>2, ProceedStep
    <3>2. ~Linked(req[r].identity)
      <4>1. ~Proceed(r, "relookup")
        BY <3>1, ProceedStep
      <4> QED
        BY <2>2, <4>1 DEF InsertLink
    <3>3. Engine = "sqlite" /\ writer = r /\ Name(r) \notin registered
      BY <2>2 DEF InsertLink, AccountsInv, TransactionHeld
    <3> QED
      BY <1>2, <2>2, <3>1, <3>2, <3>3 DEF InsertLink, tables, Linked
  <2> QED
    BY <1>2, <2>1, <2>2, EnterTransaction
<1> QED
  BY <1>1, <1>2

\* A request runs only while the server is up.
LEMMA PlaceStays ==
  ASSUME TypeOK, AccountsInv, NEW r \in Requests, RequestStep(r)
  PROVE  RequestsInPlace'
<1>1. up /\ up' = up
  <2>1. CASE Arrive(r)
    BY <2>1 DEF Arrive, Arrives, SignUp, SignIn, BeginExternal, BeginSetRole
  <2>2. CASE Run(r) \/ StatementFails(r)
    <3>1. req[r].step # "idle"
      BY <2>2 DEF Run, Lookup, Touch, Relookup, CreateLinked, InsertAccount,
         InsertLink, CommitAccount, SetRole, Busy, StatementFails
    <3>2. up' = up
      BY <2>2 DEF Run, Lookup, Touch, Relookup, CreateLinked, InsertAccount,
         InsertLink, CommitAccount, SetRole, Busy, StatementFails
    <3> QED
      BY <3>1, <3>2 DEF AccountsInv, RequestsInPlace, TypeOK
  <2> QED
    BY <2>1, <2>2 DEF RequestStep
<1>2. ASSUME NEW s \in Requests, req'[s].step = "idle"
      PROVE  req'[s].identity = NoIdentity
  <2>1. CASE s # r
    BY <1>2, <2>1, OthersWait DEF AccountsInv, RequestsInPlace
  <2>2. CASE s = r
    <3>1. /\ ~Proceed(r, "link") /\ ~Proceed(r, "commit")
          /\ req'[r].step \notin {"lookup", "setRole", "create", "relookup",
                                  "touch"}
      BY <1>2, <2>2, ProceedStep
    <3>2. req'[r] = Idle
      BY <3>1, NextStep
    <3> QED
      BY <2>2, <3>2 DEF Idle
  <2> QED
    BY <2>1, <2>2
<1> QED
  BY <1>1, <1>2 DEF RequestsInPlace

\* Links and passwords are never taken away.
LEMMA DirectoryGrows ==
  ASSUME TypeOK, AccountsInv, [Next]_vars
  PROVE  links \subseteq links' /\ passwords \subseteq passwords'
BY DirectorySteps DEF SameDirectory, Registers, Enrols

\* What a sign-in has read of its account stays true.
LEMMA ReadStays ==
  ASSUME TypeOK, AccountsInv, NEW r \in Requests, RequestStep(r)
  PROVE  AccountRead'
<1> SUFFICES ASSUME NEW s \in Requests, req'[s].step = "touch"
             PROVE  [identity |-> req'[s].identity, user |-> req'[s].user]
                      \in links'
  BY DEF AccountRead
<1>1. links \subseteq links'
  BY DirectoryGrows DEF Next, RequestStep
<1>2. CASE s # r
  BY <1>1, <1>2, OthersWait DEF AccountsInv, AccountRead
<1>3. CASE s = r
  BY <1>1, <1>3, NextStep, ProceedStep DEF Idle
<1> QED
  BY <1>2, <1>3

\* Every step preserves the inductive invariant.
LEMMA InvStays ==
  ASSUME TypeOK, AccountsInv, [Next]_vars
  PROVE  AccountsInv'
<1>1. ASSUME NEW r \in Requests, RequestStep(r)
      PROVE  AccountsInv'
  BY <1>1, TransactionStays, PlaceStays, ReadStays DEF AccountsInv
<1>2. CASE Start
  <2>1. \A r \in Requests : req'[r].step = "idle"
    BY <1>2 DEF Start, AccountsInv, RequestsInPlace
  <2>2. req' = req
    BY <1>2 DEF Start
  <2> QED
    BY <2>1, <2>2 DEF AccountsInv, TransactionHeld, RequestsInPlace,
       AccountRead
<1>3. CASE Crash
  <2>1. \A r \in Requests : req'[r] = Idle
    BY <1>3 DEF Crash
  <2> QED
    BY <2>1 DEF Idle, AccountsInv, TransactionHeld, RequestsInPlace,
       AccountRead
<1>4. CASE \/ Expire \/ UNCHANGED vars \/ \E n \in Deactivatable : SetActive(n)
  <2>1. UNCHANGED <<registered, links, writer, up, req>>
    BY <1>4 DEF Expire, vars, tables, SetActive
  <2> QED
    BY <2>1 DEF AccountsInv, TransactionHeld, RequestsInPlace, AccountRead,
       Name, Linked
<1> QED
  BY <1>1, <1>2, <1>3, <1>4 DEF Next, RequestStep

LEMMA InvInductive == Spec => [](TypeOK /\ AccountsInv)
<1>1. Init => AccountsInv
  BY DEF Init, Idle, AccountsInv, TransactionHeld, RequestsInPlace,
     AccountRead
<1> QED
  BY <1>1, AccountsTypeCorrect, InvStays, PTL DEF Spec

-----------------------------------------------------------------------------
(* The theorems.                                                           *)

\* LinksMatchAccounts, for every value of the constants: an account is never
\* left without a password and an identity, nor has it both.
THEOREM LinksAlwaysMatch == Spec => []LinksMatchAccounts
<1>1. Init => LinksMatchAccounts
  BY DEF Init, LinksMatchAccounts
<1> QED
  BY <1>1, InvInductive, MatchStays, PTL DEF Spec

\* A new token is owned when its account has the password or the link.
LEMMA IssueOwned ==
  ASSUME TypeOK, AccountsInv, SessionsAreOwned, [Next]_vars,
         NEW r \in Requests, NEW n \in Usernames, Issue(r, n),
         IF req[r].identity = NoIdentity
           THEN n \in passwords
           ELSE [identity |-> req[r].identity, user |-> n] \in links'
  PROVE  SessionsAreOwned'
<1> DEFINE new == [user |-> n, identity |-> req[r].identity]
<1>1. new.user = n /\ new.identity = req[r].identity
  OBVIOUS
<1>2. sessions' = sessions \cup {new}
  BY DEF Issue
<1>3. links \subseteq links' /\ passwords \subseteq passwords'
  BY DirectoryGrows
<1> HIDE DEF new
<1> SUFFICES ASSUME NEW s \in sessions'
             PROVE  IF s.identity = NoIdentity
                      THEN s.user \in passwords'
                      ELSE [identity |-> s.identity, user |-> s.user]
                             \in links'
  BY DEF SessionsAreOwned
<1>4. CASE s \in sessions
  BY <1>3, <1>4 DEF SessionsAreOwned
<1>5. CASE s = new
  BY <1>1, <1>3, <1>5
<1> QED
  BY <1>2, <1>4, <1>5

\* Every way to get a token gives one for one's own account.
LEMMA OwnedStays ==
  ASSUME TypeOK, AccountsInv, SessionsAreOwned, [Next]_vars
  PROVE  SessionsAreOwned'
<1>0. links \subseteq links' /\ passwords \subseteq passwords'
  BY DirectoryGrows
<1>1. CASE sessions' \subseteq sessions
  BY <1>0, <1>1 DEF SessionsAreOwned
<1>2. ASSUME NEW r \in Requests, SignIn(r)
      PROVE  SessionsAreOwned'
  <2>1. req[r].identity = NoIdentity
    BY <1>2 DEF SignIn, Arrives, AccountsInv, RequestsInPlace
  <2> QED
    BY <1>1, <1>2, <2>1, IssueOwned DEF SignIn, PasswordWorks
<1>3. ASSUME NEW r \in Requests, Touch(r)
      PROVE  SessionsAreOwned'
  <2>1. [identity |-> req[r].identity, user |-> req[r].user] \in links
    BY <1>3 DEF Touch, AccountsInv, AccountRead
  <2>2. req[r].identity # NoIdentity /\ req[r].user \in Usernames
    BY <1>3 DEF Touch, TypeOK, WellFormed
  <2> QED
    BY <1>0, <1>3, <2>1, <2>2, IssueOwned DEF Touch
<1>4. ASSUME NEW r \in Requests, Relookup(r)
      PROVE  SessionsAreOwned'
  <2>1. CASE UNCHANGED sessions
    BY <1>1, <2>1
  <2>2. CASE \E l \in links :
               l.identity = req[r].identity /\ Issue(r, l.user)
    <3>1. PICK l \in links :
            l.identity = req[r].identity /\ Issue(r, l.user)
      BY <2>2
    <3>2. /\ l = [identity |-> l.identity, user |-> l.user]
          /\ l.user \in Usernames /\ l.identity \in Identities
      BY DEF TypeOK, Link
    <3> QED
      BY <1>0, <3>1, <3>2, IssueOwned
  <2> QED
    BY <1>4, <2>1, <2>2 DEF Relookup
<1>5. ASSUME NEW r \in Requests, CreateLinked(r) \/ CommitAccount(r),
             ~UNCHANGED sessions
      PROVE  SessionsAreOwned'
  <2>1. Issue(r, Name(r)) /\ AddLinkedAccount(r)
    BY <1>5 DEF CreateLinked, CommitAccount
  <2>2. /\ [identity |-> req[r].identity, user |-> Name(r)] \in links'
        /\ Name(r) \in Usernames /\ req[r].identity \in Identities
    BY <1>5, <2>1, NameType
       DEF AddLinkedAccount, CreateLinked, CommitAccount, TypeOK, WellFormed
  <2> QED
    BY <2>1, <2>2, IssueOwned
<1>6. ASSUME NEW r \in Requests,
             \/ SignUp(r) \/ BeginExternal(r) \/ BeginSetRole(r) \/ Lookup(r)
             \/ InsertAccount(r) \/ InsertLink(r) \/ SetRole(r) \/ Busy(r)
             \/ StatementFails(r)
      PROVE  sessions' = sessions
  BY <1>6 DEF SignUp, BeginExternal, BeginSetRole, Lookup, InsertAccount,
     InsertLink, SetRole, Busy, StatementFails
<1>7. CASE \/ Start \/ Crash \/ Expire \/ UNCHANGED vars
           \/ \E n \in Deactivatable : SetActive(n)
  <2>1. sessions' \subseteq sessions
    BY <1>7 DEF Start, Crash, Expire, vars, SetActive
  <2> QED
    BY <1>1, <2>1
<1> QED
  BY <1>1, <1>2, <1>3, <1>4, <1>5, <1>6, <1>7 DEF Next, Arrive, Run

\* SessionsAreOwned, for every value of the constants: no interleaving of
\* first sign-ins and sign-ups gives anybody a token for another's account.
THEOREM SessionsAlwaysOwned == Spec => []SessionsAreOwned
<1>1. Init => SessionsAreOwned
  BY DEF Init, SessionsAreOwned
<1> QED
  BY <1>1, InvInductive, OwnedStays, PTL DEF Spec

\* A role changes with a new account or by SetRole.
LEMMA RoleSteps ==
  ASSUME TypeOK, AccountsInv, [Next]_vars, role' # role
  PROVE  \/ \E n \in Usernames, first \in Roles :
              Registers(n) /\ role' = [role EXCEPT ![n] = first]
         \/ \E i \in Identities, n \in Usernames :
              Enrols(i, n) /\ role' = [role EXCEPT ![n] = ExternalRole]
         \/ \E r \in Requests :
              SetRole(r) /\ req[r].actor # req[r].user /\ UpdateRole(r)
<1>1. CASE Start \/ \E r \in Requests : SignUp(r)
  <2>1. ~SameDirectory
    BY <1>1 DEF Start, SignUp, SameDirectory, AddAccount, tables
  <2> QED
    BY <1>1, <2>1, RegisterSteps
<1>2. ASSUME NEW r \in Requests, CommitAccount(r) \/ CreateLinked(r)
      PROVE  \E i \in Identities, n \in Usernames :
               Enrols(i, n) /\ role' = [role EXCEPT ![n] = ExternalRole]
  <2>1. CommitAccount(r) \/ (CreateLinked(r) /\ ~SameDirectory)
    BY <1>2 DEF CreateLinked, AddLinkedAccount, AddAccount, SameDirectory,
       tables
  <2> QED
    BY <2>1, EnrolSteps
<1>3. ASSUME NEW r \in Requests, SetRole(r)
      PROVE  req[r].actor # req[r].user /\ UpdateRole(r)
  BY <1>3 DEF SetRole
<1>4. ASSUME NEW r \in Requests,
             \/ SignIn(r) \/ BeginExternal(r) \/ BeginSetRole(r) \/ Lookup(r)
             \/ Touch(r) \/ Relookup(r) \/ InsertAccount(r) \/ InsertLink(r)
             \/ Busy(r) \/ StatementFails(r)
      PROVE  FALSE
  BY <1>4 DEF tables, SignIn, BeginExternal, BeginSetRole, Lookup, Touch,
     Relookup, InsertAccount, InsertLink, Busy, StatementFails
<1>5. CASE \/ Crash \/ Expire \/ UNCHANGED vars
           \/ \E n \in Deactivatable : SetActive(n)
  BY <1>5 DEF tables, vars, Crash, Expire, SetActive
<1> QED
  BY <1>1, <1>2, <1>3, <1>4, <1>5 DEF Next, Arrive, Run

\* What UpdateRole changes, when it changes anything.
LEMMA UpdateRoleStep ==
  ASSUME TypeOK, NEW r \in Requests, SetRole(r), UpdateRole(r), role' # role
  PROVE  /\ req[r].user \in registered /\ req[r].rank \in Roles
         /\ role' = [role EXCEPT ![req[r].user] = req[r].rank]
         /\ SameDirectory
<1>1. req[r] \in Request
  BY DEF TypeOK
<1>2. req[r].rank \in Roles
  BY <1>1 DEF Request
<1> QED
  BY <1>2 DEF SetRole, UpdateRole, SameDirectory

\* RolesChangeForAnother, for every value of the constants: whatever the
\* start-up and the sign-ins that race do, only another account's request
\* changes the role of an account.
THEOREM RolesAlwaysChangeForAnother == Spec => RolesChangeForAnother
<1> DEFINE Step ==
      \A n \in registered : role'[n] # role[n] =>
        \E r \in Requests :
          req[r].step = "setRole" /\ req[r].user = n /\ req[r].actor # n
<1>1. ASSUME TypeOK, AccountsInv, [Next]_vars
      PROVE  Step
  <2> SUFFICES ASSUME NEW n \in registered, role'[n] # role[n]
               PROVE  \E r \in Requests : /\ req[r].step = "setRole"
                                          /\ req[r].user = n
                                          /\ req[r].actor # n
    OBVIOUS
  <2>1. role \in [Usernames -> Roles] /\ n \in Usernames
    BY <1>1 DEF TypeOK
  <2>2. \A m, first : m \notin registered =>
          role' # [role EXCEPT ![m] = first]
    BY <2>1
  <2>3. PICK r \in Requests :
          SetRole(r) /\ req[r].actor # req[r].user /\ UpdateRole(r)
    BY <1>1, <2>2, RoleSteps DEF Registers, Enrols
  <2>4. role' = [role EXCEPT ![req[r].user] = req[r].rank]
    BY <1>1, <2>3, UpdateRoleStep
  <2>5. req[r].user = n
    BY <2>1, <2>4
  <2> QED
    BY <2>3, <2>5 DEF SetRole
<1>2. TypeOK /\ AccountsInv /\ [Next]_vars => [Step]_vars
  BY <1>1
<1> QED
  BY <1>2, InvInductive, PTL DEF Spec, RolesChangeForAnother

\* An administrator who can sign in.
Administers(n) == n \in registered \ inactive /\ role[n] = "ADMIN"

\* What is left of AdminsStay, which requests that run at once can break: unless
\* an operator switches accounts off, the last administrator goes only by a
\* request of an actor whom Guard has let in as one and who is none any more
\* when SetRole's statement runs.  Nobody demotes the last administrator in
\* full possession of the role, themselves included.
THEOREM LastAdminFallsToStaleAdmission ==
  Spec => [][HasAdmin /\ ~HasAdmin' /\ UNCHANGED inactive =>
               \E r \in Requests : SetRole(r) /\ ~Administers(req[r].actor)]_vars
<1>1. ASSUME TypeOK, AccountsInv, [Next]_vars,
             HasAdmin, ~HasAdmin', UNCHANGED inactive
      PROVE  \E r \in Requests : SetRole(r) /\ ~Administers(req[r].actor)
  <2>1. PICK n \in registered \ inactive : role[n] = "ADMIN"
    BY <1>1 DEF HasAdmin
  <2>2. registered \subseteq registered'
    BY <1>1, DirectorySteps DEF SameDirectory, Registers, Enrols
  <2>3. \A m : Administers(m) => role'[m] # "ADMIN"
    BY <1>1, <2>2 DEF HasAdmin, Administers
  <2>4. Administers(n) /\ role'[n] # "ADMIN"
    BY <2>1, <2>3 DEF Administers
  <2>5. /\ role \in [Usernames -> Roles]
        /\ \A m : Administers(m) => m \in registered /\ m \in Usernames
    BY <1>1 DEF TypeOK, Administers
  <2>6. \A m, first : m \notin registered =>
          role' # [role EXCEPT ![m] = first]
    BY <2>4, <2>5 DEF Administers
  <2>7. role' # role
    BY <2>4 DEF Administers
  <2>8. PICK r \in Requests :
          SetRole(r) /\ req[r].actor # req[r].user /\ UpdateRole(r)
    BY <1>1, <2>6, <2>7, RoleSteps DEF Registers, Enrols
  <2>9. role' = [role EXCEPT ![req[r].user] = req[r].rank]
    BY <1>1, <2>7, <2>8, UpdateRoleStep
  <2>10. ASSUME Administers(req[r].actor)
         PROVE  FALSE
    BY <2>3, <2>5, <2>8, <2>9, <2>10 DEF Administers
  <2> QED
    BY <2>8, <2>10
<1>2. TypeOK /\ AccountsInv /\ [Next]_vars =>
        [HasAdmin /\ ~HasAdmin' /\ UNCHANGED inactive =>
           \E r \in Requests : SetRole(r) /\ ~Administers(req[r].actor)]_vars
  BY <1>1
<1> QED
  BY <1>2, InvInductive, PTL DEF Spec

\* The statements of the code, in either engine, implement the directory in
\* which an account appears in one step with its password or its identity.
THEOREM AccountsImplementDirectory == Spec => ImplementsDirectory
<1>1. Init => Directory!Init
  BY DEF Init, Directory!Init, Roles
<1>2. ASSUME TypeOK, AccountsInv, [Next]_vars
      PROVE  [Directory!Next]_(Directory!vars)
  <2>1. CASE role' = role
    <3>1. CASE SameDirectory
      BY <2>1, <3>1 DEF SameDirectory, Directory!vars
    <3>2. ASSUME NEW n \in Usernames, n \notin registered
          PROVE  role[n] \in Roles /\ role' = [role EXCEPT ![n] = role[n]]
      BY <1>2, <2>1 DEF TypeOK
    <3>3. ASSUME NEW n \in Usernames, Registers(n)
          PROVE  Directory!Next
      <4>1. Directory!Register(n, role[n]) /\ role[n] \in Roles
        BY <3>2, <3>3 DEF Registers, Directory!Register, Directory!Open
      <4> QED
        BY <4>1 DEF Directory!Next
    <3>4. ASSUME NEW i \in Identities, NEW n \in Usernames, Enrols(i, n)
          PROVE  Directory!Next
      <4>1. Directory!Enrol(i, n, role[n]) /\ role[n] \in Roles
        BY <3>2, <3>4 DEF Enrols, Linked, Directory!Enrol, Directory!Open
      <4> QED
        BY <4>1 DEF Directory!Next
    <3> QED
      BY <1>2, <3>1, <3>3, <3>4, DirectorySteps
  <2>2. CASE role' # role
    <3>1. ASSUME NEW n \in Usernames, NEW first \in Roles,
                 Registers(n) /\ role' = [role EXCEPT ![n] = first]
          PROVE  Directory!Next
      <4>1. Directory!Register(n, first)
        BY <3>1 DEF Registers, Directory!Register, Directory!Open
      <4> QED
        BY <4>1 DEF Directory!Next
    <3>2. ASSUME NEW i \in Identities, NEW n \in Usernames,
                 Enrols(i, n) /\ role' = [role EXCEPT ![n] = ExternalRole]
          PROVE  Directory!Next
      <4>1. Directory!Enrol(i, n, ExternalRole)
        BY <3>2 DEF Enrols, Linked, Directory!Enrol, Directory!Open
      <4> QED
        BY <4>1 DEF Directory!Next
    <3>3. ASSUME NEW r \in Requests, SetRole(r), UpdateRole(r)
          PROVE  Directory!Next
      <4>1. Directory!Regrade(req[r].user, req[r].rank)
        BY <1>2, <2>2, <3>3, UpdateRoleStep
           DEF SameDirectory, Directory!Regrade
      <4>2. req[r].user \in Usernames /\ req[r].rank \in Roles
        BY <1>2, <2>2, <3>3, UpdateRoleStep DEF TypeOK
      <4> QED
        BY <4>1, <4>2 DEF Directory!Next
    <3> QED
      BY <1>2, <2>2, <3>1, <3>2, <3>3, RoleSteps
  <2> QED
    BY <2>1, <2>2
<1> QED
  BY <1>1, <1>2, InvInductive, PTL
     DEF Spec, ImplementsDirectory, Directory!Spec

-----------------------------------------------------------------------------
(* A first sign-in that gives up has tried every name.                     *)

Tried(q) == \A k \in 1..q.attempt : k < q.attempt =>
              Candidate[q.base][k] \in registered

\* The names a sign-in has gone past are taken, and so is the one it has just
\* tried, unless the conflict came from its own identity.
NamesTried ==
  ~Faulty =>
    \A r \in Requests :
      /\ req[r].step \in {"lookup", "create", "link", "commit", "relookup"} =>
           Tried(req[r])
      /\ req[r].step = "relookup" =>
           Linked(req[r].identity) \/ Name(r) \in registered

\* A sign-in looks its identity up again only after a conflict.
LEMMA ConflictStep ==
  ASSUME TypeOK, NEW r \in Requests, RequestStep(r),
         req'[r].step = "relookup"
  PROVE  /\ Linked(req[r].identity) \/ Name(r) \in registered
         /\ \/ CreateLinked(r) \/ InsertAccount(r) \/ InsertLink(r)
         /\ Proceed(r, "relookup")
<1>1. \A code : ~Answer(r, code)
  BY AnswerStep
<1>2. \A step : Proceed(r, step) => step = "relookup"
  BY ProceedStep
<1>3. req'[r] # Idle
  BY DEF Idle
<1>4. CASE CreateLinked(r) \/ InsertAccount(r) \/ InsertLink(r)
  BY <1>1, <1>2, <1>4 DEF CreateLinked, InsertAccount, InsertLink, Issue
<1>5. ~Arrive(r) /\ ~Lookup(r) /\ ~Relookup(r)
  BY <1>3, ArriveStep, LookupStep, RelookupStep
<1>6. ~Touch(r) /\ ~CommitAccount(r) /\ ~SetRole(r) /\ ~Busy(r)
        /\ ~StatementFails(r)
  BY <1>1 DEF Touch, CommitAccount, SetRole, UpdateRole, Busy,
     StatementFails, Issue
<1> QED
  BY <1>4, <1>5, <1>6 DEF RequestStep, Run

\* Where a step leaves a sign-in among the names it tries.
LEMMA AttemptStep ==
  ASSUME TypeOK, NEW r \in Requests, RequestStep(r),
         req'[r].step \in {"lookup", "create", "link", "commit", "relookup"}
  PROVE  \/ req'[r].attempt = 1
         \/ /\ req[r].step \in {"lookup", "create", "link"}
            /\ req'[r].base = req[r].base
            /\ req'[r].attempt = req[r].attempt
         \/ /\ Relookup(r) /\ (Faulty \/ ~Linked(req[r].identity))
            /\ req'[r].base = req[r].base
            /\ req'[r].attempt = req[r].attempt + 1
<1>1. \A code : ~Answer(r, code)
  BY AnswerStep DEF Idle
<1>2. CASE Arrive(r)
  <2>1. BeginExternal(r)
    BY <1>1, <1>2, BeginsRole DEF Arrive, SignUp, SignIn, Issue
  <2>2. PICK i \in Identities, b \in Bases :
          req' = [req EXCEPT ![r] = [Idle EXCEPT !.step = "lookup",
                                       !.identity = i, !.base = b]]
    BY <1>1, <2>1 DEF BeginExternal
  <2>3. req'[r] = [Idle EXCEPT !.step = "lookup", !.identity = i, !.base = b]
    BY <2>2 DEF TypeOK
  <2> QED
    BY <2>3 DEF Idle
<1>3. CASE Relookup(r)
  <2>1. NextName(r) /\ (Faulty \/ ~Linked(req[r].identity))
    BY <1>1, <1>3 DEF Relookup, Issue
  <2>2. req' = [req EXCEPT ![r].step = "create",
                           ![r].attempt = req[r].attempt + 1]
    BY <1>1, <2>1 DEF NextName
  <2>3. req'[r] = [req[r] EXCEPT !.step = "create",
                                 !.attempt = req[r].attempt + 1]
    BY <2>2 DEF TypeOK
  <2>4. req[r] \in Request
    BY DEF TypeOK
  <2>5. req'[r].base = req[r].base /\ req'[r].attempt = req[r].attempt + 1
    BY <2>3, <2>4 DEF Request
  <2> QED
    BY <1>3, <2>1, <2>5
<1>4. CASE Lookup(r)
  <2>1. req'[r].step # "touch"
    OBVIOUS
  <2>2. Proceed(r, "create")
    BY <1>1, <1>4, <2>1, FoundStep DEF Lookup
  <2> QED
    BY <1>4, <2>2, ProceedStep DEF Lookup
<1>5. CASE CreateLinked(r) \/ InsertAccount(r) \/ InsertLink(r)
  BY <1>1, <1>5, ProceedStep DEF CreateLinked, InsertAccount, InsertLink,
     Issue
<1>6. ~Touch(r) /\ ~CommitAccount(r) /\ ~SetRole(r) /\ ~Busy(r)
        /\ ~StatementFails(r)
  BY <1>1 DEF Touch, CommitAccount, SetRole, UpdateRole, Busy,
     StatementFails, Issue
<1> QED
  BY <1>2, <1>3, <1>4, <1>5, <1>6 DEF RequestStep, Run

\* The names in use only grow in number.
LEMMA RegisteredGrows ==
  ASSUME TypeOK, AccountsInv, [Next]_vars
  PROVE  registered \subseteq registered'
BY DirectorySteps DEF SameDirectory, Registers, Enrols

\* A step goes past a name only when it is taken.
LEMMA TriedStays ==
  ASSUME TypeOK, AccountsInv, NamesTried, NEW r \in Requests, RequestStep(r)
  PROVE  NamesTried'
<1>1. registered \subseteq registered' /\ links \subseteq links'
  BY RegisteredGrows, DirectoryGrows DEF Next, RequestStep
<1> SUFFICES ASSUME ~Faulty, NEW s \in Requests
             PROVE  /\ req'[s].step \in {"lookup", "create", "link", "commit",
                                         "relookup"} => Tried(req[s])'
                    /\ req'[s].step = "relookup" =>
                         (Linked(req[s].identity) \/ Name(s) \in registered)'
  BY DEF NamesTried
<1>2. CASE s # r
  <2>1. req'[s] = req[s]
    BY <1>2, OthersWait
  <2> QED
    BY <1>1, <2>1 DEF NamesTried, Tried, Linked, Name
<1>3. CASE s = r
  <2>1. ASSUME req'[r].step = "relookup"
        PROVE  (Linked(req[r].identity) \/ Name(r) \in registered)'
    <3>1. Name(r)' = Name(r) /\ req'[r].identity = req[r].identity
      BY <2>1, ConflictStep, ProceedStep
    <3> QED
      BY <1>1, <2>1, <3>1, ConflictStep DEF Linked
  <2>2. ASSUME req'[r].step \in {"lookup", "create", "link", "commit",
                                 "relookup"}
        PROVE  Tried(req[r])'
    <3>1. /\ req[r].attempt \in Nat
          /\ req[r].step \in {"lookup", "create", "link", "relookup"} =>
               Tried(req[r])
          /\ req[r].step = "relookup" =>
               Linked(req[r].identity) \/ Name(r) \in registered
      BY DEF NamesTried, TypeOK, Request
    <3>2. CASE req'[r].attempt = 1
      BY <3>2 DEF Tried
    <3>3. CASE /\ req[r].step \in {"lookup", "create", "link"}
               /\ req'[r].base = req[r].base
               /\ req'[r].attempt = req[r].attempt
      BY <1>1, <3>1, <3>3 DEF Tried
    <3>4. CASE /\ Relookup(r) /\ ~Linked(req[r].identity)
               /\ req'[r].base = req[r].base
               /\ req'[r].attempt = req[r].attempt + 1
      <4>1. Tried(req[r]) /\ Name(r) \in registered
        BY <3>1, <3>4 DEF Relookup
      <4>2. ASSUME NEW k \in 1..(req[r].attempt + 1),
                   k < req[r].attempt + 1
            PROVE  Candidate[req[r].base][k] \in registered
        <5>1. CASE k = req[r].attempt
          BY <4>1, <5>1 DEF Name
        <5>2. CASE k < req[r].attempt
          <6>1. k \in 1..req[r].attempt
            BY <3>1, <5>2
          <6> QED
            BY <4>1, <5>2, <6>1 DEF Tried
        <5> QED
          BY <3>1, <4>2, <5>1, <5>2
      <4> QED
        BY <1>1, <3>4, <4>2 DEF Tried
    <3> QED
      BY <2>2, <3>2, <3>3, <3>4, AttemptStep
  <2> QED
    BY <1>3, <2>1, <2>2
<1> QED
  BY <1>2, <1>3

\* So does every other step.
LEMMA TriedInductive ==
  ASSUME TypeOK, AccountsInv, NamesTried, [Next]_vars
  PROVE  NamesTried'
<1>1. ASSUME NEW r \in Requests, RequestStep(r)
      PROVE  NamesTried'
  BY <1>1, TriedStays
<1>2. CASE Start
  <2>1. \A r \in Requests : req'[r].step = "idle"
    BY <1>2 DEF Start, AccountsInv, RequestsInPlace
  <2> QED
    BY <2>1 DEF NamesTried
<1>3. CASE Crash
  <2>1. \A r \in Requests : req'[r].step = "idle"
    BY <1>3 DEF Crash, Idle
  <2> QED
    BY <2>1 DEF NamesTried
<1>4. CASE \/ Expire \/ UNCHANGED vars \/ \E n \in Deactivatable : SetActive(n)
  <2>1. UNCHANGED <<registered, links, req>>
    BY <1>4 DEF Expire, vars, tables, SetActive
  <2> QED
    BY <2>1 DEF NamesTried, Tried, Linked, Name
<1> QED
  BY <1>1, <1>2, <1>3, <1>4 DEF Next, RequestStep

\* A request that is told there is no free name has tried them all.
LEMMA GiveUpStep ==
  ASSUME TypeOK, AccountsInv, NamesTried, ConflictMeansTaken, [Next]_vars
  PROVE  ConflictMeansTaken'
<1>1. registered \subseteq registered'
  BY RegisteredGrows
<1> SUFFICES ASSUME reply'.code = "no_free_name", ~Faulty
             PROVE  \A k \in 1..MaxAttempts :
                      Candidate[reply'.base][k] \in registered'
  BY DEF ConflictMeansTaken
<1>2. CASE reply' = reply
  BY <1>1, <1>2 DEF ConflictMeansTaken
<1>3. reply' # NoReply
  BY DEF NoReply
<1>4. \A r, code : Answer(r, code) => code = "no_free_name"
  BY DEF Answer
<1>5. ASSUME NEW r \in Requests, Relookup(r)
      PROVE  \A k \in 1..MaxAttempts :
               Candidate[reply'.base][k] \in registered'
  <2>1. NextName(r) /\ ~Linked(req[r].identity)
    BY <1>4, <1>5 DEF Relookup, Issue
  <2>2. ~(req[r].attempt < MaxAttempts) /\ reply'.base = req[r].base
    BY <1>3, <2>1 DEF NextName, Answer
  <2>3. req[r].attempt \in 1..MaxAttempts
    BY DEF TypeOK, Request
  <2>4. req[r].attempt = MaxAttempts
    BY <2>2, <2>3
  <2>5. Tried(req[r]) /\ Name(r) \in registered
    BY <1>5, <2>1 DEF NamesTried, Relookup
  <2> SUFFICES ASSUME NEW k \in 1..MaxAttempts
               PROVE  Candidate[req[r].base][k] \in registered
    BY <1>1, <2>2
  <2>6. CASE k = MaxAttempts
    BY <2>4, <2>5, <2>6 DEF Name
  <2>7. CASE k < MaxAttempts
    BY <2>4, <2>5, <2>7 DEF Tried
  <2> QED
    BY <2>6, <2>7
<1>6. ASSUME NEW r \in Requests
      PROVE  ~Arrive(r) /\ ~StatementFails(r)
  BY <1>3, <1>4 DEF Arrive, SignUp, SignIn, BeginExternal, BeginSetRole,
     Issue, StatementFails
<1>7. ASSUME NEW r \in Requests
      PROVE  /\ ~Lookup(r) /\ ~Touch(r) /\ ~CreateLinked(r)
             /\ ~InsertAccount(r) /\ ~InsertLink(r) /\ ~CommitAccount(r)
             /\ ~SetRole(r) /\ ~Busy(r)
  BY <1>3, <1>4 DEF Lookup, Touch, CreateLinked, InsertAccount, InsertLink,
     CommitAccount, SetRole, UpdateRole, Busy, Issue, Proceed
<1>8. ~Start /\ ~Crash /\ ~Expire /\ \A n \in Deactivatable : ~SetActive(n)
  BY <1>3 DEF Start, Crash, Expire, SetActive
<1>9. CASE UNCHANGED vars
  BY <1>2, <1>9 DEF vars
<1> QED
  BY <1>5, <1>6, <1>7, <1>8, <1>9 DEF Next, Run

\* ConflictMeansTaken, for every value of the constants: however many sign-ins
\* race and whatever name each of them tries, none gives up while a name that
\* it may have is free.
THEOREM GivesUpOnlyWhenTaken == Spec => []ConflictMeansTaken
<1>1. Init => NamesTried
  BY DEF Init, Idle, NamesTried
<1>2. Init => ConflictMeansTaken
  BY DEF Init, NoReply, ConflictMeansTaken
<1> QED
  BY <1>1, <1>2, InvInductive, TriedInductive, GiveUpStep, PTL DEF Spec

-----------------------------------------------------------------------------
(* How long a request can last.                                            *)

\* At most so many statements of a request are still to come: a name costs the
\* two inserts and the lookup after a conflict.
StatementsLeft(q) ==
  CASE q.step = "idle" -> 0
    [] q.step \in {"touch", "commit", "setRole"} -> 1
    [] q.step = "relookup" -> 3 * (MaxAttempts - q.attempt) + 1
    [] q.step = "link" -> 3 * (MaxAttempts - q.attempt) + 2
    [] q.step = "create" -> 3 * (MaxAttempts - q.attempt) + 3
    [] q.step = "lookup" -> 3 * (MaxAttempts - q.attempt) + 4

Shortens(r) == StatementsLeft(req'[r]) < StatementsLeft(req[r])

LEMMA LeftType ==
  ASSUME NEW q \in Request
  PROVE  /\ StatementsLeft(q) \in 0..(3 * MaxAttempts + 1)
         /\ q.step # "idle" => StatementsLeft(q) > 0
<1>1. q.step \in Steps /\ q.attempt \in 1..MaxAttempts
  BY DEF Request
<1>2. /\ MaxAttempts - q.attempt \in 0..(MaxAttempts - 1)
      /\ MaxAttempts \in Nat \ {0}
  BY <1>1, AccountsAssumption
<1>3. CASE q.step = "idle"
  BY <1>2, <1>3 DEF StatementsLeft
<1>4. CASE q.step \in {"touch", "commit", "setRole"}
  BY <1>2, <1>4 DEF StatementsLeft
<1>5. CASE q.step = "relookup"
  BY <1>2, <1>5 DEF StatementsLeft
<1>6. CASE q.step = "link"
  BY <1>2, <1>6 DEF StatementsLeft
<1>7. CASE q.step = "create"
  BY <1>2, <1>7 DEF StatementsLeft
<1>8. CASE q.step = "lookup"
  BY <1>2, <1>8 DEF StatementsLeft
<1> QED
  BY <1>1, <1>3, <1>4, <1>5, <1>6, <1>7, <1>8 DEF Steps

LEMMA AnswersShorten ==
  ASSUME TypeOK, NEW r \in Requests, req[r].step # "idle", req'[r] = Idle
  PROVE  Shortens(r)
<1>1. StatementsLeft(req[r]) > 0
  BY LeftType DEF TypeOK
<1>2. StatementsLeft(req'[r]) = 0
  BY DEF StatementsLeft, Idle
<1> QED
  BY <1>1, <1>2 DEF Shortens

\* The statement a request goes on to is nearer to its end.
LEMMA ProceedShortens ==
  ASSUME TypeOK, NEW r \in Requests, req'[r].attempt = req[r].attempt,
         \/ req[r].step = "lookup" /\ req'[r].step \in {"touch", "create"}
         \/ req[r].step = "create" /\ req'[r].step \in {"link", "relookup"}
         \/ req[r].step = "link" /\ req'[r].step \in {"commit", "relookup"}
  PROVE  Shortens(r)
<1> DEFINE n == 3 * (MaxAttempts - req[r].attempt)
<1>1. n \in Nat
  BY AccountsAssumption DEF TypeOK, Request
<1>2. /\ req[r].step = "lookup" => StatementsLeft(req[r]) = n + 4
      /\ req[r].step = "create" => StatementsLeft(req[r]) = n + 3
      /\ req[r].step = "link" => StatementsLeft(req[r]) = n + 2
  BY DEF StatementsLeft
<1>3. /\ req'[r].step = "create" => StatementsLeft(req'[r]) = n + 3
      /\ req'[r].step = "link" => StatementsLeft(req'[r]) = n + 2
      /\ req'[r].step = "relookup" => StatementsLeft(req'[r]) = n + 1
      /\ req'[r].step \in {"touch", "commit"} => StatementsLeft(req'[r]) = 1
  BY DEF StatementsLeft
<1> HIDE DEF n
<1> QED
  BY <1>1, <1>2, <1>3 DEF Shortens

\* So is the next name, although it is tried with the same statement again.
LEMMA NextNameShortens ==
  ASSUME TypeOK, NEW r \in Requests, req[r].step = "relookup",
         req'[r].step = "create", req'[r].attempt = req[r].attempt + 1
  PROVE  Shortens(r)
<1>1. req[r].attempt \in 1..MaxAttempts /\ MaxAttempts \in Nat
  BY AccountsAssumption DEF TypeOK, Request
<1>2. /\ StatementsLeft(req[r]) = 3 * (MaxAttempts - req[r].attempt) + 1
      /\ StatementsLeft(req'[r]) =
           3 * (MaxAttempts - (req[r].attempt + 1)) + 3
  BY DEF StatementsLeft
<1> QED
  BY <1>1, <1>2 DEF Shortens

LEMMA RunShortens ==
  ASSUME TypeOK, NEW r \in Requests, Run(r) \/ StatementFails(r)
  PROVE  Shortens(r)
<1>0. req[r].step # "idle"
  BY DEF Run, Lookup, Touch, Relookup, CreateLinked, InsertAccount,
     InsertLink, CommitAccount, SetRole, Busy, StatementFails
<1>1. ASSUME NEW code, Answer(r, code)
      PROVE  Shortens(r)
  BY <1>0, <1>1, AnswerStep, AnswersShorten
<1>2. CASE Lookup(r)
  <2>1. CASE Proceed(r, "create")
    BY <1>2, <2>1, ProceedStep, ProceedShortens DEF Lookup
  <2>2. CASE \E l \in links : req' = [req EXCEPT ![r].step = "touch",
                                                ![r].user = l.user]
    <3>1. req'[r].step = "touch" /\ req'[r].attempt = req[r].attempt
      BY <2>2 DEF TypeOK, Request
    <3> QED
      BY <1>2, <3>1, ProceedShortens DEF Lookup
  <2> QED
    BY <1>1, <1>2, <2>1, <2>2 DEF Lookup
<1>3. CASE Relookup(r)
  <2>1. CASE req' = [req EXCEPT ![r].step = "create",
                                ![r].attempt = req[r].attempt + 1]
    <3>1. /\ req'[r].step = "create"
          /\ req'[r].attempt = req[r].attempt + 1
      BY <2>1 DEF TypeOK, Request
    <3> QED
      BY <1>3, <3>1, NextNameShortens DEF Relookup
  <2> QED
    BY <1>1, <1>3, <2>1 DEF Relookup, NextName, Issue
<1>4. CASE CreateLinked(r) \/ InsertAccount(r) \/ InsertLink(r)
  BY <1>1, <1>4, ProceedStep, ProceedShortens
     DEF CreateLinked, InsertAccount, InsertLink, Issue
<1> QED
  BY <1>1, <1>2, <1>3, <1>4
     DEF Run, Touch, CommitAccount, SetRole, UpdateRole, Busy,
         StatementFails, Issue

\* A request never starts over: each of its statements brings it nearer to its
\* answer, nothing that others do takes it back, and it has at most
\* 3 * MaxAttempts + 1 of them.  So the loop of createExternalUser ends,
\* whatever names and identities other sign-ins take meanwhile; that the next
\* statement runs is what the fairness of EveryRequestAnswered adds.
THEOREM RequestsWindDown ==
  Spec => /\ [](\A r \in Requests :
                  StatementsLeft(req[r]) \in 0..(3 * MaxAttempts + 1))
          /\ [][\A r \in Requests :
                  /\ Run(r) => Shortens(r)
                  /\ req[r].step # "idle" => req'[r] = req[r] \/ Shortens(r)]_vars
<1>1. TypeOK => \A r \in Requests :
                  StatementsLeft(req[r]) \in 0..(3 * MaxAttempts + 1)
  BY LeftType DEF TypeOK
<1>2. ASSUME TypeOK, [Next]_vars, NEW r \in Requests, req[r].step # "idle"
      PROVE  req'[r] = req[r] \/ Shortens(r)
  <2>1. ASSUME NEW p \in Requests, RequestStep(p)
        PROVE  req'[r] = req[r] \/ Shortens(r)
    <3>1. CASE p # r
      <4>1. r \in Requests \ {p}
        BY <3>1
      <4> QED
        BY <1>2, <2>1, <4>1, OthersWait
    <3>2. CASE p = r
      <4>1. ~Arrive(r)
        BY <1>2 DEF Arrive, Arrives, SignUp, SignIn, BeginExternal,
                    BeginSetRole
      <4> QED
        BY <1>2, <2>1, <3>2, <4>1, RunShortens DEF RequestStep
    <3> QED
      BY <3>1, <3>2
  <2>2. CASE Crash
    BY <1>2, <2>2, AnswersShorten DEF Crash
  <2> QED
    BY <1>2, <2>1, <2>2 DEF Next, RequestStep, Start, Expire, SetActive, vars
<1>3. TypeOK /\ [Next]_vars =>
        [\A r \in Requests :
           /\ Run(r) => Shortens(r)
           /\ req[r].step # "idle" => req'[r] = req[r] \/ Shortens(r)]_vars
  BY <1>2, RunShortens
<1> QED
  BY <1>1, <1>3, AccountsTypeCorrect, PTL DEF Spec
=============================================================================
