------------------------------ MODULE Accounts ------------------------------
(***************************************************************************)
(* User accounts and their roles: the service and store of                 *)
(* internal/pkg/auth as the handlers of cmd/api/handlers/auth.go and the   *)
(* OIDC callback use them, one action per SQL statement.                   *)
(*                                                                         *)
(* Accounts are never renamed or deleted, so an account is named by its    *)
(* username here, where the code has an integer id besides.  A username    *)
(* stands for what NormalizeUsername makes of the client's; passwords are  *)
(* known to their owners only and are not modelled.                        *)
(*                                                                         *)
(* PostgreSQL creates an account and the link to its identity in one       *)
(* statement.  SQLite does it in a transaction that holds the write lock   *)
(* while other requests go on reading the committed rows.                  *)
(***************************************************************************)
EXTENDS Naturals, FiniteSets

CONSTANTS
  Usernames,      \* names an account may have
  AdminNames,     \* settings of AUTH_ADMIN_USERNAME the server may start with
  Identities,     \* (issuer, subject) pairs of the identity provider
  NoIdentity,     \* a sign-in with a password
  Bases,          \* usernames derived from an identity's other claims
  MaxAttempts,    \* maxUsernameAttempts
  Candidate,      \* the name tried for a base at each attempt
  Methods,        \* ways to authenticate that are on
  AutoCreate,     \* whether an unknown identity gets an account
  ExternalRole,   \* the role of such an account
  KeepsSecret,    \* whether AUTH_JWT_SECRET is set, so tokens outlive a restart
  Faulty,         \* whether statements may fail
  Deactivatable,  \* accounts an operator may switch off and on
  Requests,       \* HTTP requests that may be in progress at once
  Nobody,         \* holder of a free lock; no account
  Engine          \* "sqlite" or "postgres"

Roles == {"ADMIN", "FORM_CREATOR", "BASIC"}

ASSUME AccountsAssumption ==
  /\ Engine \in {"sqlite", "postgres"}
  /\ AdminNames \subseteq Usernames /\ Deactivatable \subseteq Usernames
  /\ NoIdentity \notin Identities
  /\ Nobody \notin Requests \cup Usernames
  /\ MaxAttempts \in Nat \ {0}
  /\ Candidate \in [Bases -> [1..MaxAttempts -> Usernames]]
  /\ Methods \subseteq {"basic", "jwt", "oidc"}
  /\ ExternalRole \in Roles
  /\ {AutoCreate, KeepsSecret, Faulty} \subseteq BOOLEAN

VARIABLES
  registered,  \* usernames in table users
  passwords,   \* those with a password_hash
  inactive,    \* those whose is_active is false
  role,        \* role of each account
  links,       \* rows of user_identities
  writer,      \* SQLite: the request whose transaction holds the write lock
  sessions,    \* valid tokens: account, and the identity they were issued for
  up,          \* whether the server runs
  req,         \* requests in progress: next statement and local variables
  reply        \* the response sent by the last step, if it sent one

tables == <<registered, passwords, inactive, role, links>>
vars == <<tables, writer, sessions, up, req, reply>>

Link == [identity: Identities, user: Usernames]
Session == [user: Usernames, identity: Identities \cup {NoIdentity}]

\* The statement a request runs next.
Steps ==
  {"idle", "lookup", "touch", "create", "link", "commit", "relookup",
   "setRole"}

Request ==
  [step: Steps,
   identity: Identities \cup {NoIdentity},
   base: Bases \cup {Nobody},
   attempt: 1..MaxAttempts,
   user: Usernames \cup {Nobody},    \* account read, or target of SetRole
   actor: Usernames \cup {Nobody},   \* signed-in user of SetRole
   rank: Roles]                      \* role SetRole gives

Codes == {"none", "ok", "refused", "conflict", "no_free_name", "internal"}
Reply == [code: Codes, base: Bases \cup {Nobody}]

WellFormed(q) ==
  /\ q.step \notin {"idle", "setRole"} =>
       q.identity \in Identities /\ q.base \in Bases
  /\ q.step = "touch" => q.user \in Usernames
  /\ q.step = "setRole" => q.user \in Usernames /\ q.actor \in Usernames

TypeOK ==
  /\ registered \in SUBSET Usernames
  /\ passwords \in SUBSET registered
  /\ inactive \in SUBSET registered
  /\ role \in [Usernames -> Roles]
  /\ links \in SUBSET Link
  /\ writer \in Requests \cup {Nobody}
  /\ sessions \in SUBSET Session
  /\ up \in BOOLEAN
  /\ req \in [Requests -> Request]
  /\ \A r \in Requests : WellFormed(req[r])
  /\ reply \in Reply

-----------------------------------------------------------------------------
(* Requests.                                                               *)

Idle ==
  [step |-> "idle", identity |-> NoIdentity, base |-> Nobody, attempt |-> 1,
   user |-> Nobody, actor |-> Nobody, rank |-> "BASIC"]

NoReply == [code |-> "none", base |-> Nobody]

Init ==
  /\ registered = {} /\ passwords = {} /\ inactive = {} /\ links = {}
  /\ role = [n \in Usernames |-> "BASIC"]
  /\ writer = Nobody
  /\ sessions = {}
  /\ up = FALSE
  /\ req = [r \in Requests |-> Idle]
  /\ reply = NoReply

\* Request r has sent its response and is over.
Answer(r, code) ==
  /\ req' = [req EXCEPT ![r] = Idle]
  /\ reply' = [code |-> code, base |-> req[r].base]

\* Request r goes on to its next statement.
Proceed(r, step) ==
  /\ req' = [req EXCEPT ![r].step = step]
  /\ reply' = NoReply

\* Request r gets a token for account n and is answered.
Issue(r, n) ==
  /\ sessions' = sessions \cup {[user |-> n, identity |-> req[r].identity]}
  /\ Answer(r, "ok")

\* A statement that writes waits for SQLite's writer.
MayWrite(r) == writer \in {Nobody, r}

Linked(i) == \E l \in links : l.identity = i

\* The username a request tries.
Name(r) == Candidate[req[r].base][req[r].attempt]

-----------------------------------------------------------------------------
(* The server starts: newAuthService creates the configured admin.         *)

AddAccount(n, first) ==
  /\ registered' = registered \cup {n}
  /\ role' = [role EXCEPT ![n] = first]

\* Fault: the bootstrap promotes whoever has the admin's name.
StartPromoting ==
  /\ ~up
  /\ up' = TRUE
  /\ \E n \in AdminNames \cup {Nobody} :
       IF n # Nobody
         THEN AddAccount(n, "ADMIN") /\ passwords' = passwords \cup {n}
         ELSE UNCHANGED <<registered, role, passwords>>
  /\ reply' = NoReply
  /\ UNCHANGED <<inactive, links, writer, sessions, req>>

\* EnsureUser leaves an existing account alone.
Start ==
  /\ ~up
  /\ up' = TRUE
  /\ \E n \in AdminNames \cup {Nobody} :
       IF n # Nobody /\ n \notin registered
         THEN AddAccount(n, "ADMIN") /\ passwords' = passwords \cup {n}
         ELSE UNCHANGED <<registered, role, passwords>>
  /\ reply' = NoReply
  /\ UNCHANGED <<inactive, links, writer, sessions, req>>

-----------------------------------------------------------------------------
(* Accounts with a password.                                               *)

Arrives(r) == up /\ req[r].step = "idle"

SignUp(r) ==
  /\ Arrives(r)
  /\ \/ /\ {"basic", "jwt"} \cap Methods = {}
        /\ Answer(r, "refused")
        /\ UNCHANGED tables
     \/ /\ {"basic", "jwt"} \cap Methods # {}
        /\ MayWrite(r)
        /\ \E n \in Usernames :
             IF n \in registered
               THEN Answer(r, "conflict") /\ UNCHANGED tables
               ELSE /\ AddAccount(n, "BASIC")
                    /\ passwords' = passwords \cup {n}
                    /\ Answer(r, "ok")
                    /\ UNCHANGED <<inactive, links>>
  /\ UNCHANGED <<writer, sessions, up>>

\* Accounts a request may act for with a password, or with a token.
PasswordWorks(n) == n \in passwords \ inactive
TokenWorks(n) == n \in registered \ inactive /\ \E s \in sessions : s.user = n

\* checkPassword reads the account; a wrong password is as good as no account.
SignIn(r) ==
  /\ Arrives(r)
  /\ \/ Answer(r, "refused") /\ UNCHANGED sessions
     \/ \E n \in Usernames :
          "jwt" \in Methods /\ PasswordWorks(n) /\ Issue(r, n)
  /\ UNCHANGED <<tables, writer, up>>

-----------------------------------------------------------------------------
(* Sign-in with an external identity.                                      *)

BeginExternal(r) ==
  /\ Arrives(r)
  /\ IF "oidc" \in Methods
       THEN /\ \E i \in Identities, b \in Bases :
                 req' = [req EXCEPT ![r] =
                   [Idle EXCEPT !.step = "lookup", !.identity = i, !.base = b]]
            /\ reply' = NoReply
       ELSE Answer(r, "refused")
  /\ UNCHANGED <<tables, writer, sessions, up>>

\* GetByIdentity: the account of the identity, or what to do without one.
Lookup(r) ==
  /\ req[r].step = "lookup"
  /\ \/ \E l \in links :
          /\ l.identity = req[r].identity
          /\ IF l.user \in inactive
               THEN Answer(r, "refused")
               ELSE /\ req' = [req EXCEPT ![r].step = "touch",
                                          ![r].user = l.user]
                    /\ reply' = NoReply
     \/ /\ ~Linked(req[r].identity)
        /\ IF AutoCreate THEN Proceed(r, "create") ELSE Answer(r, "refused")
  /\ UNCHANGED <<tables, writer, sessions, up>>

\* TouchIdentity records the sign-in in columns that nothing else reads.
Touch(r) ==
  /\ req[r].step = "touch"
  /\ MayWrite(r)
  /\ Issue(r, req[r].user)
  /\ UNCHANGED <<tables, writer, up>>

\* The new account and its link.
AddLinkedAccount(r) ==
  /\ AddAccount(Name(r), ExternalRole)
  /\ links' = links \cup {[identity |-> req[r].identity, user |-> Name(r)]}
  /\ UNCHANGED <<passwords, inactive>>

\* Fault: only the name is unique.
CreateLinkedAgain(r) ==
  /\ Engine = "postgres"
  /\ req[r].step = "create"
  /\ IF Name(r) \in registered
       THEN Proceed(r, "relookup") /\ UNCHANGED <<tables, sessions>>
       ELSE AddLinkedAccount(r) /\ Issue(r, Name(r))
  /\ UNCHANGED <<writer, up>>

\* PostgreSQL: one statement, which may commit although the answer is lost.
CreateLinked(r) ==
  /\ Engine = "postgres"
  /\ req[r].step = "create"
  /\ IF Name(r) \in registered \/ Linked(req[r].identity)
       THEN Proceed(r, "relookup") /\ UNCHANGED <<tables, sessions>>
       ELSE /\ AddLinkedAccount(r)
            /\ \/ Issue(r, Name(r))
               \/ Faulty /\ Answer(r, "internal") /\ UNCHANGED sessions
  /\ UNCHANGED <<writer, up>>

\* Fault: the account is inserted outside the transaction of its link.
InsertAlone(r) ==
  /\ Engine = "sqlite"
  /\ req[r].step = "create"
  /\ writer = Nobody
  /\ IF Name(r) \in registered
       THEN Proceed(r, "relookup") /\ UNCHANGED <<registered, role, writer>>
       ELSE /\ AddAccount(Name(r), ExternalRole)
            /\ Proceed(r, "link")
            /\ writer' = r
  /\ UNCHANGED <<passwords, inactive, links, sessions, up>>

\* SQLite: the transaction begins and inserts the account.
InsertAccount(r) ==
  /\ Engine = "sqlite"
  /\ req[r].step = "create"
  /\ writer = Nobody
  /\ IF Name(r) \in registered
       THEN Proceed(r, "relookup") /\ UNCHANGED writer
       ELSE Proceed(r, "link") /\ writer' = r
  /\ UNCHANGED <<tables, sessions, up>>

\* Fault: nothing stops a second link of an identity.
LinkAgain(r) ==
  /\ req[r].step = "link"
  /\ Proceed(r, "commit")
  /\ UNCHANGED <<tables, writer, sessions, up>>

\* It inserts the link, or rolls back when the identity has one.
InsertLink(r) ==
  /\ req[r].step = "link"
  /\ IF Linked(req[r].identity)
       THEN Proceed(r, "relookup") /\ writer' = Nobody
       ELSE Proceed(r, "commit") /\ UNCHANGED writer
  /\ UNCHANGED <<tables, sessions, up>>

CommitAccount(r) ==
  /\ req[r].step = "commit"
  /\ AddLinkedAccount(r)
  /\ writer' = Nobody
  /\ Issue(r, Name(r))
  /\ UNCHANGED up

\* Faults: the same name again; one name too many, or too few.
SameName(r) == Proceed(r, "create")
OneNameMore(r) ==
  IF req[r].attempt <= MaxAttempts
    THEN /\ req' = [req EXCEPT ![r].step = "create",
                               ![r].attempt = req[r].attempt + 1]
         /\ reply' = NoReply
    ELSE Answer(r, "no_free_name")
StopEarly(r) ==
  IF req[r].attempt + 1 < MaxAttempts
    THEN /\ req' = [req EXCEPT ![r].step = "create",
                               ![r].attempt = req[r].attempt + 1]
         /\ reply' = NoReply
    ELSE Answer(r, "no_free_name")

NextName(r) ==
  IF req[r].attempt < MaxAttempts
    THEN /\ req' = [req EXCEPT ![r].step = "create",
                               ![r].attempt = req[r].attempt + 1]
         /\ reply' = NoReply
    ELSE Answer(r, "no_free_name")

\* Fault: the account that has the name is taken for the identity's.
AdoptByName(r) ==
  /\ req[r].step = "relookup"
  /\ Issue(r, Name(r))
  /\ UNCHANGED <<tables, writer, up>>

\* After a conflict: a concurrent first sign-in may have linked the identity.
\* A lookup that fails counts as one that finds nothing.
Relookup(r) ==
  /\ req[r].step = "relookup"
  /\ \/ \E l \in links :
          /\ l.identity = req[r].identity
          /\ IF l.user \in inactive
               THEN Answer(r, "refused") /\ UNCHANGED sessions
               ELSE Issue(r, l.user)
     \/ /\ Faulty \/ ~Linked(req[r].identity)
        /\ NextName(r)
        /\ UNCHANGED sessions
  /\ UNCHANGED <<tables, writer, up>>

-----------------------------------------------------------------------------
(* Roles.                                                                  *)

\* Guard reads the account behind the credentials and asks the route's Policy.
MayAct(n) ==
  \/ "basic" \in Methods /\ PasswordWorks(n)
  \/ "jwt" \in Methods /\ TokenWorks(n)

BeginSetRole(r) ==
  /\ Arrives(r)
  /\ \/ Answer(r, "refused")
     \/ \E actor, n \in Usernames, rank \in Roles :
          /\ MayAct(actor)
          /\ role[actor] = "ADMIN"
          /\ req' = [req EXCEPT ![r] =
               [Idle EXCEPT !.step = "setRole", !.actor = actor, !.user = n,
                            !.rank = rank]]
          /\ reply' = NoReply
  /\ UNCHANGED <<tables, writer, sessions, up>>

UpdateRole(r) ==
  /\ MayWrite(r)
  /\ IF req[r].user \in registered
       THEN /\ role' = [role EXCEPT ![req[r].user] = req[r].rank]
            /\ Answer(r, "ok")
       ELSE UNCHANGED role /\ Answer(r, "refused")

\* The role is changed for the actor that Guard let in earlier.
SetRole(r) ==
  /\ req[r].step = "setRole"
  /\ IF req[r].actor = req[r].user
       THEN UNCHANGED role /\ Answer(r, "refused")
       ELSE UpdateRole(r)
  /\ UNCHANGED <<registered, passwords, inactive, links, writer, sessions, up>>

-----------------------------------------------------------------------------
(* Failures and the environment.                                           *)

Release(r) == writer' = IF writer = r THEN Nobody ELSE writer

\* SQLite: a write that has waited for the writer for busy_timeout fails.
Busy(r) ==
  /\ req[r].step \in {"touch", "create", "setRole"}
  /\ ~MayWrite(r)
  /\ Answer(r, "internal")
  /\ UNCHANGED <<tables, writer, sessions, up>>

\* A statement fails; SQLite rolls back the transaction it belongs to.
StatementFails(r) ==
  /\ Faulty
  /\ req[r].step \notin {"idle", "relookup"}
  /\ Answer(r, "internal")
  /\ Release(r)
  /\ UNCHANGED <<tables, sessions, up>>

\* The process stops: requests are lost, open transactions rolled back, and
\* tokens become invalid when the secret that signed them was a random one.
Crash ==
  /\ up
  /\ up' = FALSE
  /\ req' = [r \in Requests |-> Idle]
  /\ writer' = Nobody
  /\ sessions' = IF KeepsSecret THEN sessions ELSE {}
  /\ reply' = NoReply
  /\ UNCHANGED tables

\* A token expires.
Expire ==
  /\ \E s \in sessions : sessions' = sessions \ {s}
  /\ reply' = NoReply
  /\ UNCHANGED <<tables, writer, up, req>>

\* An operator switches an account off or on, in the database itself.
SetActive(n) ==
  /\ n \in registered
  /\ writer = Nobody
  /\ inactive' \in {inactive \ {n}, inactive \cup {n}}
  /\ reply' = NoReply
  /\ UNCHANGED <<registered, passwords, role, links, writer, sessions, up, req>>

-----------------------------------------------------------------------------
(* The specification.                                                      *)

Arrive(r) == SignUp(r) \/ SignIn(r) \/ BeginExternal(r) \/ BeginSetRole(r)

\* Request r, in progress, runs its next statement.
Run(r) ==
  \/ Lookup(r) \/ Touch(r) \/ Relookup(r)
  \/ CreateLinked(r) \/ InsertAccount(r) \/ InsertLink(r) \/ CommitAccount(r)
  \/ SetRole(r) \/ Busy(r)

Next ==
  \/ Start \/ Crash \/ Expire
  \/ \E r \in Requests : Arrive(r) \/ Run(r) \/ StatementFails(r)
  \/ \E n \in Deactivatable : SetActive(n)

Spec == Init /\ [][Next]_vars

\* The Go scheduler runs every goroutine, and the database answers every
\* statement or gives up on it after busy_timeout.
FairSpec == Spec /\ \A r \in Requests : WF_vars(Run(r))

-----------------------------------------------------------------------------
(* Properties.                                                             *)

\* A token opens the account its owner signed in to: the one linked to the
\* identity, or one with a password, whichever sign-ins raced for the name.
SessionsAreOwned ==
  \A s \in sessions :
    IF s.identity = NoIdentity
      THEN s.user \in passwords
      ELSE [identity |-> s.identity, user |-> s.user] \in links

\* An account has a password or exactly one identity, never both or neither,
\* and an identity opens one account: no failure leaves half of a creation and
\* no identity is linked to an account somebody else has made.
LinksMatchAccounts ==
  /\ \A l \in links : l.user \in registered \ passwords
  /\ \A n \in registered \ passwords : \E l \in links : l.user = n
  /\ \A l, m \in links : l.identity = m.identity \/ l.user = m.user => l = m

\* A first sign-in gives up only when every name for it is taken, although the
\* conflicts it meets may also come from its own identity.
ConflictMeansTaken ==
  reply.code = "no_free_name" /\ ~Faulty =>
    \A k \in 1..MaxAttempts : Candidate[reply.base][k] \in registered

\* The role of an account changes only by a request of another account, for
\* it: neither a restart nor a sign-in with a taken name changes it.
RolesChangeForAnother ==
  [][\A n \in registered : role'[n] # role[n] =>
       \E r \in Requests :
         req[r].step = "setRole" /\ req[r].user = n /\ req[r].actor # n]_vars

\* Once there is an administrator who can sign in there always is one.
HasAdmin == \E n \in registered \ inactive : role[n] = "ADMIN"
AdminsStay == [][HasAdmin => HasAdmin']_vars

\* Accounts appear in one step with their password or their identity, and
\* after that only roles change.
Directory == INSTANCE AccountDirectory
  WITH registered <- registered, passwords <- passwords, links <- links,
       role <- role
ImplementsDirectory == Directory!Spec

\* Every request in progress is answered or lost in a crash: a sign-in whose
\* names are taken stops trying, and no request waits for the writer forever.
EveryRequestAnswered ==
  \A r \in Requests : req[r].step # "idle" ~> req[r].step = "idle"
=============================================================================
