# gogoform in TLA+

Specifications, model checks and proofs for gogoform, a multi-tenant form
backend written in Go. Paths are relative to the repository's `workdir/`
directory unless they start with `docs/` or `README.md`.

## 1. The system

An HTTP server (`cmd/api`). Every request runs in its own goroutine; a handler
(`cmd/api/handlers`) calls a domain service (`internal/pkg/*`), which runs
queries through the interface `db.Querier`. PostgreSQL queries are generated
into `internal/db`; SQLite's into `internal/db/sqlitegen`, behind the adapter
`internal/database/sqlite_querier.go`. **Every query is a statement that
commits by itself**: no transaction spans two steps of a handler. The one
exception is `CreateUserWithIdentity` on SQLite, which runs two inserts in one
transaction (PostgreSQL does it in one statement). So any other request can run
between two statements of a handler, and a crash can fall there too. Nothing
but the database is shared between requests.

| Component | State | Operations | Hard behaviour | What makes it correct |
|---|---|---|---|---|
| Forms (`internal/pkg/forms`, `handlers/forms.go`) | table `forms` | Create, Update, Delete, GetByID, GetPublicBySlug, listings | slugs race across tenants; an update is one `UPDATE` whose subquery decides the lock, then a second query explains why no row matched; SQLite gives ids out again | unique slugs, tenant isolation, content locked once there are submissions, true answers |
| Submissions (`internal/pkg/submissions`, `handlers/submissions.go`) | `form_submissions`, `submission_metadata` | public Create, tenant's List | form read, then inserted, then metadata: three statements; deadline; failed metadata | no orphans, deadline, a stored submission is announced, rows stay with their tenant |
| Webhooks (`internal/pkg/webhooks`, `handlers/webhooks.go`) | `form_webhooks` | Create, List | ownership checked in one query, used in the next | rows and listings stay with their tenant |
| Tenants (`internal/pkg/tenants`, `handlers/tenants.go`) | `tenants` | Create, Authenticate, Me | key checked once per request; suspended from outside | only active tenants' requests start |
| Migrations (`internal/database/migrate.go`) | `schema_migrations`, the schema | Migrate at start-up | several replicas start at once; crashes; rolling updates; migrations outside a transaction | once, in order, with their record; servers serve a complete schema |
| Accounts (`internal/pkg/auth`, `handlers/auth.go`) | `users`, `user_identities`; tokens are signed, not stored | SignUp, EnsureUser, SignIn, SignInExternal, SetRole, Guard | first sign-ins of one identity race; usernames taken; roles changed under running requests; accounts deactivated from outside | one account per identity, no account taken over, roles change only on an admin's behalf |
| OIDC login (`internal/pkg/auth/oidc`, `handlers/app_oidc.go`) | a signed cookie in the browser | OIDCLogin, OIDCCallback | callbacks duplicated, late, or of another tab; a restart changes the key | a sign-in completes a flow that this browser started |
| Files (`internal/pkg/files`, `handlers/files.go`) | `files` | Create, Get, ListAll, Delete | random ids; listing and total by two statements | the pages of a listing add up to its total |
| Generated queries (`internal/db`, `internal/db/sqlitegen`) | none | 33 methods' statements, once per engine | written twice, in two dialects | the engines agree |
| SQLite adapter (`internal/database/sqlite_querier.go`, `errors.go`) | none | every method of `db.Querier` | 64-bit ids narrowed to 32, errors classified, two inserts in a transaction | it is the `db.Querier` that PostgreSQL's is; it fails only for a reason |
| App pages (`handlers/app*.go`) | none | HTML pages, exports, form builder | several statements per page, any of which may fail or see another state | a page shows one tenant's rows; it is answered |
| Config (`internal/config`), server start (`cmd/api/main.go`) | the configuration | LoadDotEnv, Init, run | four sources of each setting, defaults that depend on others, checks made in two places | precedence; what is accepted works; few refusals come after the migrations |
| Errors, logger, health, API docs, sample data | none | - | - | not modelled |

The components meet in the database: submissions and webhooks reference forms
(foreign keys without cascade), forms reference tenants, submissions reference
users. Public submissions read forms by slug; tenants' listings join
submissions with forms. The server reads its settings, opens the database,
applies the migrations, makes the services, creates the bootstrap admin, asks
the identity provider for its configuration, then serves.

## 2. Modules

| Module | What it is |
|---|---|
| `FormService` | forms, submissions, webhooks and the tenants' authentication, one action per SQL statement of a handler |
| `MCFormService` | the requests and symmetries of its TLC instances |
| `FormServiceProofs` | theorems about it |
| `MigrateOnce` | what the migrations promise: applied one by one, in order, each with its record or, outside a transaction, recorded before the next begins |
| `Migrate` | replicas that run the migrations concurrently, with failures and restarts |
| `MCMigrate` | its TLC instances: a rolling update |
| `MigrateProofs` | theorems about it, among them that it implements `MigrateOnce` |
| `AccountDirectory` | what the account service promises about who has an account |
| `Accounts` | passwords, external identities, tokens and roles, one action per SQL statement |
| `MCAccounts` | the derived usernames and symmetries of its TLC instances |
| `AccountsProofs` | theorems about it, among them that it implements `AccountDirectory` |
| `Login` | the browser's side of an OIDC sign-in: flow cookie, redirect, callback, session |
| `MCLogin` | the symmetry of its TLC instance |
| `LoginProofs` | theorems about it |
| `Tables` | the tables as the generated models have them, the queries' arguments, constraints and results |
| `Queries` | the statements of `internal/db`, PostgreSQL's |
| `SqliteQueries` | the statements of `internal/db/sqlitegen` |
| `Querier` | the contract of `db.Querier`, over `Queries` |
| `SqliteQuerier` | the SQLite adapter, over `SqliteQueries`, and the refinement mapping to `Querier` |
| `SqliteQuerierProofs` | the proof that the adapter implements the contract |
| `Settings` | `.env`, TOML file and environment, and what is accepted of them |
| `Server` | `run` from its start to the pages it serves, over `SqliteQuerier` and `Settings` |
| `MCServer` | its settings, databases and view for TLC |
| `ConstraintProofs` | the proof that every statement of the adapter keeps the schema's keys and references |
| `ServerProofs` | theorems about the server, over those of `SqliteQuerierProofs` and `ConstraintProofs` |
| `ListingProofs` | theorems about the pages of its listings and the client that walks through them |

The two halves look at the same program from two sides. `FormService`,
`Accounts` and `Login` follow the handlers that write, with the few columns their
properties need and the behaviour of both engines. `Server` composes the whole
server on SQLite: settings, start-up, every statement of the adapter over full
tables, and the handlers that read with several statements.
`FormService` and `Accounts` meet in the tables only; `Migrate` runs before
either; `Login` ends where `Accounts` begins, in `SignInExternal`. An action
whose comment begins with "Fault" is a wrong variant of the action after it and
belongs to no specification: it is there to see that a property notices.

### FormService

State and code. `forms`, `submissions`, `metadata`, `webhooks` are the rows of
the four tables (columns no property tells apart are left out; a form's
definition keeps slug, content, the four flags and the two dates).
`lastFormId` is the highest id ever given out: PostgreSQL's identity counter.
`req[r]` is a request in progress: the
statement it runs next and its handler's local variables. `reply` is the
response sent by the last step. `activeTenants` and `clock` belong to the
environment.

A request starts with `Begin` (the API key is read, `Authenticate`), which names a
form by any positive id, also one no form has yet (`parseID`), or with
`Submit` (the public form is read by slug and the visitor is admitted or
turned away: `GetPublicBySlug`, `availableForm`, the sign-in rules). `Run(r)`
is its next statement:

| Handler | Statements (actions) |
|---|---|
| `formsController.Create` | `CreateForm` |
| `formsController.Update` | `RejectUpdate`, or `UpdateForm` (SQLite: one action; PostgreSQL: `SnapshotForm` then `UpdateForm`), then `ClassifyUpdate` when no row matched |
| `formsController.Delete` | `DeleteForm` |
| `submissionsController.Create` | `Submit`, `StoreSubmission`, `AddMetadata` |
| `submissionsController.List` | `CheckOwner`, `ListSubmissions` |
| `webhooksController.Create` | `CheckOwner`, `CreateWebhook` |
| `webhooksController.List` | `CheckOwner`, `ListWebhooks` |

`StatementFails` is any statement answering 500, `Crash` loses all requests,
`AckLost` is a commit whose acknowledgement is lost (PostgreSQL only: SQLite is
in the process). `Tick` moves the clock, `SetTenantActive` is the operator.

Engine. The constant `Engine` selects what differs. SQLite's
`INTEGER PRIMARY KEY` without `AUTOINCREMENT` gives a new row the highest id in
use plus one, so the id of a deleted form can come back; PostgreSQL's identity
never repeats one. SQLite runs one writing statement at a time; PostgreSQL's
`UPDATE` under READ COMMITTED finds its row in a snapshot and, if the row was
changed meanwhile, evaluates the WHERE clause again on the new row, but its
`NOT EXISTS` subquery still sees the snapshot.

Abstractions. PostgreSQL's gaps in identity values and the order in which
concurrent inserts commit are left out: only "never repeated" is used. Reading
the form and reading the clock in `Submit` are one action; the later the clock
is read, the later the deadline is missed, which can happen anyway: the
deadline is checked when the form is read, and a submission admitted just in
time is stored after it. Only the listings whose scope can go wrong are modelled;
`List`, `Count`, `ListAll` and `GET` of a form are single reads. The admin
routes (`ListAll`, `GetAnyByID`) read across tenants on purpose.

### Migrate

`schema` is the sequence of migrations whose effects are committed, `recorded`
the versions in `schema_migrations`. `lock` is PostgreSQL's session advisory
lock or SQLite's write lock. Each replica has a `pc` and the migration it is
at. On PostgreSQL a replica takes the lock, reads the versions once and runs
what is missing, a transaction each. On SQLite `BEGIN IMMEDIATE` takes the
write lock, the version is checked inside, and a migration marked
`transaction:false` runs as three independent statements. `Known` gives each
replica the number of migrations its binary embeds. Running the statements of a
migration that is already applied fails, because they create tables that exist
(as those of the repository do). `Fail` is a failed statement, a wait that
exceeds `busy_timeout`, or a killed process; `CommitUnacknowledged` is a commit
the replica never hears of; `BreakOff` is a migration outside a transaction that
ends half-way, with enough of its tables made for the next attempt to fail (the
model does not tell half a migration from a whole one that has no record);
`Restart` is docker compose's
`restart: unless-stopped`.

### Accounts

Accounts are never renamed or deleted, so a username names its account.
`registered`, `passwords`, `inactive`, `role` are the columns of `users`,
`links` the rows of `user_identities`; `sessions` are the tokens that are still
valid, with the identity they were issued for, which the code keeps nowhere.
`TouchIdentity` writes columns that no other statement reads. A password is
known to its owner only, so a sign-in with the wrong one is a refusal, and a
token is valid unless it has expired or the server has lost the key that
signed it.

| Code | Statements (actions) |
|---|---|
| `newAuthService`, `EnsureUser` | `Start` |
| `SignUp`, `SignIn` | `SignUp`, `SignIn` |
| `SignInExternal` | `BeginExternal`, `Lookup`, then `Touch`, or the loop of `createExternalUser`: create, and after a conflict `Relookup`, which finds the account of a concurrent sign-in or goes on with the next name |
| `CreateUserWithIdentity` | PostgreSQL: `CreateLinked`; SQLite: `InsertAccount`, `InsertLink`, `CommitAccount` |
| `Guard`, `SetRole` | `BeginSetRole` (the actor's role is read), `SetRole` (the row is updated) |

On SQLite the transaction of `CreateUserWithIdentity` holds the only write
lock (`writer`) while readers see the committed rows; a write that waits longer
than `busy_timeout` is `Busy`. What the transaction inserts is added at the
commit. `Crash` loses the requests and rolls the transaction back.

The names of a sign-in are data: `Candidate[base][attempt]` stands for what
`externalUsername` and `usernameWithSuffix` make of the claims. The instances
let the second name for one base be the first name for another, which is how
two unrelated sign-ins meet.

### Login

A flow stands for its three secrets (state, nonce, PKCE verifier). The server
stores nothing; what the sealed cookie holds is in `started`, and `cookie[b]`
says which flow's cookie is in browser `b`. `issued` and `redeemed` are the
provider's codes, `req[r]` is a callback in progress, `session[b]` the person
whose token is in the session cookie. `cleared` remembers which flows are over
because a later answer took their cookie; it guards nothing.

`OIDCLogin` is the handler and `Redirected` the arrival of its answer, which sets
the cookie: `sent` holds the answers on their way, and those of two tabs may arrive
in either order or never. A callback's parameters `state`, `code` and `error` are
independent (`Queries`), as the handler reads them: any browser may come with the
state of any flow and any code the provider has issued, its own or another
browser's, or with none, any number of times. `OIDCCallback` is the handler up to the
exchange, `Exchange` the call to the provider with the checks of nonce and email
domain, `SignInExternal` the call modelled in `Accounts`, and `Deliver` the arrival
of the response: it clears the flow cookie, whichever flow that holds by then, and
sets the session. `Lose` is a response that never arrives. `Restart` changes the key
when no secret is configured. The provider issues a code for one flow, redeems it
once, and compares the PKCE verifier only if `ChecksPKCE`.

### Queries, contract and adapter

A database is one record with a set of rows per table (`Tables`). A statement is
an operator on it: a read returns rows, a write the database after it, with the
id of the new row as an argument. `Queries` and `SqliteQueries` are translated
separately from the two generated packages, down to which tables a listing
joins. A listing is a set: `ORDER BY ... LIMIT ... OFFSET` picks the rows whose
rank, the number of rows sorted before them, is in the page. Constraints are
predicates of `Tables`; a write that breaks several reports any of them.
`Consistent` collects them for a whole database: every table's keys are unique and every
reference of a row is to a row that is there.

`Querier` says what callers of `db.Querier` may rely on: one statement, all or
nothing; a new id is one not in use; the rows returned are rows of the table,
with ids of 32 bits; or an error. `SqliteQuerier` is the code: the id SQLite
gives (`IsNextRowId`: one more than the highest), a conversion per row type
(`ToInt32` and the `To...` functions, named as in the source), `ErrNoRows`, and
`CreateUserWithIdentity` with its two inserts in one transaction. A conversion
error after an INSERT leaves the row inserted, in the code and here.

`ImplementsQuerier` is the refinement; its mapping is the identity, because both
sides have a database and a last answer. It is worth stating because the two
sides are written over different translations of the SQL, one of them with
conversions that may fail.

### Settings and Server

`Settings` is `internal/config` as operators, named as its functions. A text
is modelled by what the program makes of it (a number, a boolean, a set of
names, or the class its checks tell apart); a text that does not parse is
`Malformed`. `TokenTTL` wraps around at the width of a `time.Duration`.

| Code | Actions of `Server` |
|---|---|
| `LoadDotEnv` | `ReadDotEnv`: what is set stays; a bad line ends the start |
| `config.Init`, `Load` | `LoadConfig` |
| `database.Open`, `Migrate` | `OpenDatabase`, `Migrate`: succeed or fail |
| `newAuthService`, `EnsureUser` | `NewAuthService`, `EnsureAdmin` |
| `oidc.New` | `DiscoverProvider` |
| shutdown | `Stop` |
| `guardPage`, `sessionUser` | `OpenPage`, `ReadSession`, which also answers a page of a form whose id is malformed, and the builder without a form |
| `Index` (`load`) | `Dashboard`: four statements |
| `Form`, `ExportJSON`, `ExportCSV`, `Builder` | `ReadForm`, `ReadRows` |
| `Account`, `Users` | `Account`, `Users` |
| `tenantsController.Authenticate`, `formsController.List` | `Authenticate`, `List`, `Count` |
| every other request | `Statement`: any method of the adapter, with any arguments |

`phase` says how far `run` has come. `req` is a page in progress, with its next
statement and local variables; `walk` is a client that asks for page after page
of its tenant's forms, which is the use the API's `offset`, `limit` and `total`
are for. One page or one walk is followed at a time; everything else the server
does meanwhile is `Statement`, so any number of other requests may run between
two statements of a page. That `Statement` allows more than the handlers do (it
may create an account in no handler's order) makes the safety properties
stronger.

## 3. Runs

### Forms

All instances have two requests at once, which is what it takes for one to run
between two statements of another; ids 1..2 (or 1) so that a form can be
deleted and another made, by either of two tenants, under the same id; two
slugs, so that an update can run into another form's slug; two contents, so
that a change of content shows. `LockInputs` are a published form, the same
with another content, and a draft under the other slug. When the id space is
used up an insert answers 500, which stands for the end of the integers. Whether an
update is rightly told that its form is locked is checked step by step
(`LocksMistakeOnlyNewForms`): of a form created between its two queries it is not.

| Run | Instance | Checks |
|---|---|---|
| `forms_sqlite` | SQLite, 2 tenants, 2 form ids, 1 submission | `UniqueKeys`, `References`, `TenantScoped`, `ContentLocked`. The view drops `reply`, which no guard and none of these properties reads |
| `forms_postgres` | the same on PostgreSQL | `TypeOK`, `RowsStayWithTheirTenant`, `ListingsAreScoped`, `LocksMistakeOnlyNewForms`, `StoredIsAnnounced` |
| `forms_answered` | 1 tenant, who can be suspended, a signed-in user, forms with a window, a private form, a contradictory request, clock 0..2 | `EveryRequestAnswered` |
| `forms_lock_race` | violation, PostgreSQL | `ContentLocked` |
| `forms_id_reuse` | violation, SQLite | `RowsStayWithTheirTenant` |

What the violations show:

* `forms_lock_race`. `forms_ports.go:33-35` says that the content of a form with
  submissions is locked. On PostgreSQL an `UPDATE` that took its snapshot before
  a submission committed still writes the new content. It is enough that the submission
  commits between the snapshot and the write. On SQLite the lock holds
  (`forms_sqlite`, and theorem `ContentIsLockedOnSQLite`).
* `forms_id_reuse`. The webhook and submission handlers check a form and then
  insert by its id. On SQLite the form can be deleted in between and its id be
  given to another tenant's form. On PostgreSQL that is impossible
  (`forms_postgres`, and theorem `RowsStayOnPostgres`).

Fairness: `WF(Run(r))` for every request, because the Go scheduler runs every
goroutine and the database answers or fails every statement. Nothing forces
requests to arrive, the clock to move or operators to act.

### Migrations

Three replicas, one of them with an older binary that lacks the last migration
(a rolling update), two faults anywhere: enough for one replica to die while a
second waits and a third restarts.

| Run | Instance | Checks |
|---|---|---|
| `migrate_postgres` | three migrations, each in a transaction | `TypeOK`, `RunsOnce`, `EveryReplicaServes` |
| `migrate_sqlite` | the repository's two SQLite migrations, the second `transaction:false` | `ServesMigrated`, `ImplementsOnce` (refinement of `MigrateOnce`), `EveryReplicaServes` |

On SQLite two replicas can both find a `transaction:false` migration missing and
both run its statements, so `RunsOnce` speaks of the migrations in a transaction
only. The second run fails (its tables exist), so the replica stops and is
restarted; the effects are there once all the same (`ImplementsOnce`), and a
server that serves has the whole schema (`ServesMigrated`).

Deadlock is not checked in these runs: when every replica serves, nothing is
left to happen.

Fairness: weak fairness of each replica's steps (the process runs, the lock
reaches a waiter because each holder asks for it finitely often between faults)
and of its restarts (docker compose). `EveryReplicaServes` has one exception,
`HalfDone`: a crash between a `transaction:false` migration and its record
leaves a database on which every later start fails. The code marks such
migrations as unwrapped and promises nothing for that case.

### Accounts

Two requests at once; three usernames, two bases with two names each, of which
one is shared; an administrator configured under a name that a sign-in also
derives, and that somebody may have signed up with before.

| Run | Instance | Checks |
|---|---|---|
| `accounts_sqlite` | SQLite, passwords and one identity signing in twice at once, crashes | `TypeOK`, `LinksMatchAccounts`, `ConflictMeansTaken`, `ImplementsDirectory` (refinement of `AccountDirectory`), `RolesChangeForAnother`, `EveryRequestAnswered` |
| `accounts_postgres` | PostgreSQL, tokens and two identities, failing statements, lost answers, crashes, an account switched off and on. The view drops `reply`, which no guard and neither property reads | `SessionsAreOwned`, `ImplementsDirectory` |
| `accounts_admins` | violation, PostgreSQL | `AdminsStay` |

`accounts_admins`: `auth_service.go:376-378` says that the last admin cannot
demote themselves by mistake. Each of two administrators can demote the other
when both requests have been let in by `Guard` before either `UPDATE` runs; then
there is no administrator, and since `EnsureUser` leaves existing accounts alone
a restart does not make one. It takes a promotion first and two requests at
once, which no test does.

Fairness: `WF(Run(r))` for every request. On SQLite the holder of the write lock
is itself a request that runs to its commit, and a waiter that is starved gives
up after `busy_timeout` (`Busy` is part of `Run`).

### Sign-in at the provider

| Run | Instance | Checks |
|---|---|---|
| `login` | two browsers, two flows, two codes, two callbacks at once, an allowed and another person, time 0..2 with a time to live of 1, a restart, a provider that does not check PKCE, a configured secret | `TypeOK`, `SessionsAreOwn`, `AnsweredFlowsAreOver`, `ExpiredAnswerIsTrue` |

Two browsers let one come with the other's code or state; two flows let a second tab
replace the first one's cookie and two codes let each be issued one; two callbacks
let a reload race its first answer; three instants let a cookie be valid, expire and
be over. Nothing is required to happen, so there is no fairness and no liveness
property: a person may leave at any point.

`SessionsAreOwn` is checked with a provider that redeems a code whatever the
verifier. A callback with the browser's own state and another browser's code then
gets as far as an ID token, and only its nonce gives it away.

`AnsweredFlowsAreOver` is what is left of "The flow is single-use whatever happens
next" (`cmd/api/handlers/app_oidc.go:191`). The flow ends when the browser gets the
answer that clears its cookie: callbacks sent before that, two at once or a repeated one
after a lost answer, all reach the provider with the same flow, which redeems a code
once. No callback sent afterwards does.

`ExpiredAnswerIsTrue` has two exceptions that the page's text does not name. A
callback's answer clears the cookie of whatever flow the browser has started
since, and the late answer of an older login replaces the cookie of a newer flow; the
other tab is then told that its sign-in expired or was started in another browser.
Trying again works, as the page says.

### The server

`server` runs `MCServer`: 140 combinations of settings (seven environments, five
`.env` files, four configuration files) on a new database in memory, with or
without `AUTO_MIGRATE`, on a file with two tenants and a form, and on one whose
form ids have outgrown 32 bits. What they contain is chosen so that every check of `Validate` that
another setting can influence succeeds and fails, every source overrides every
other, and the lifetime of tokens overflows (`MaxDuration` is 7 and a minute 3).

| Property | Question |
|---|---|
| `TypeOK` | no row is of another type than its table's; the tables keep the schema's constraints; no method returns rows and an error |
| `ImplementsQuerier`, `ErrorsAreJustified` | the adapter returns what is there, and errors only for a reason |
| `PagesAddUp` | the pages of a listing show each row once and their total is the number beside them, for every filter |
| `ExportStaysWithTenant` | a page or export never shows rows of a form that has taken the id of the one it read |
| `WalkMissesNothing` | paging by offset misses no form that was there from the beginning, while others insert and update |
| `AccountsCanBeOpened` | no account without password and identity is left behind |
| `RealEnvironmentWins`, `SignInMethodsWork`, `OnlyTheseRefusalsAreLate` | precedence; what is accepted works; what Load accepts is refused after the migrations for named reasons only |
| `BootEnds`, `PageAnswered` | the start ends or waits for the provider; a page is answered or the server stops |

`WalkMissesNothing` is about insertions and updates only. A deleted form moves
the later ones up by one, and an offset then skips one: known of offsets, and
the code promises nothing about it; the walk gives up.

`OnlyTheseRefusalsAreLate` names the refusals that come too late to leave the
database as it was: a lifetime of tokens that overflows (`auth.NewService`), a name
or password of the first administrator that does not fit (`Load` only checks that
both are set, `internal/config/config.go:437`; `EnsureUser` checks them,
`cmd/api/main.go:187`), and whatever the provider refuses.

Bounds. `IdMax` is 2 and `MaxRowId` 3: two ids that fit and one that does not.
`MaxRows` is 2, counted over users, forms, submissions, webhooks and files
(tenants, identities and metadata are bounded by the keys, identities and
submissions there are): a form and its submission, two forms of two tenants, a
deleted form and its successor. `ListLimit` is 1, so that two forms are two
pages; two instants let the newest form have the smaller id. A statement that
would grow the tables beyond `MaxRows` is not taken.

The view (`Distinct`) drops the last answer and the last response, which no
action reads, and, once the server serves, all settings but the one that is read
then. The phase and the request in progress are in the view, so that the
liveness properties and the enabledness of the fair actions depend on the view
only; the properties about answers and responses are about steps, which are
checked before a state is compared. Deadlock is not checked: the server may stop.

Fairness: `WF(~AwaitsProvider /\ Boot)`, for `run` is one goroutine, what it calls
before and after is local and returns, waiting for SQLite's writer is limited by
`busy_timeout`; and `WF(Serve)`, for every statement returns and the goroutine of a
request is scheduled. The provider is under no obligation: `oidc.New`
(`cmd/api/main.go:102`) calls it with a context without a deadline and a client
without a timeout, so one that never answers keeps the start from ending, and
`BootEnds` claims no more than that nothing else does. Clients, operators and signals are
under no obligation. On PostgreSQL `Boot` ends at `OpenDatabase`, which takes no
step there; the run's settings name SQLite only.

## 4. Proofs

The theorems hold for every value of the constants that satisfies the modules'
assumptions: any number of tenants, users, requests, ids, migrations, replicas,
faults, and any set of form requests.

`FormServiceProofs`. `TypeCorrect` comes first: besides types it says that a request
has the arguments of its next statement. `TablesInv` is the inductive invariant on
both engines: `UniqueKeys` needs `IdsGivenOut` (an id from PostgreSQL's counter is
new because no form is above the counter), `References` needs `SubmissionHeld`
(metadata is written for a submission that is there). From it follow `KeysAreUnique`
and `ReferencesHold`, and `TenantsAreScoped`, an action property: the row that an
UPDATE or DELETE finds by id and tenant is the only one with that id.
`ContentIsLockedOnSQLite` needs that no request holds a snapshot (`NoSnapshots`). On
PostgreSQL `ContentLocked` fails, as `forms_lock_race` shows;
`LockYieldsToOldSnapshots` says how much of it is left on either engine: a form with
submissions is never deleted, and its content goes only by an update of its own
tenant that found the row in a snapshot without submissions and writes after one was
stored.

On SQLite `RowsStayWithTheirTenant` fails, as `forms_id_reuse` shows, because an id
can come back, and `ListingsAreScoped` is not claimed for the same reason. `RowsStrayOnlyWhenIdsComeBack`
says that this is the only way, on either engine: a handler that has checked a form
goes on rightly (`ReliesRightly`) until the form is gone and its id, one already
given out (`FormsNamed`), is given to a new form (`IdComesBack`); and a row goes
astray, or a listing shows other rows, only by the second statement of a handler
that has stopped to go on rightly. PostgreSQL's counter never gives an id again
(`NoIdComesBack`), so `OwnersInv` is inductive there; hence `RowsStayOnPostgres` and
`ListingsAreScopedOnPostgres`.

The answer "locked" is worked out by a second query, and it can be wrong: a path may
name any positive id, so the `UPDATE` may find no row because no form has the id yet
(or any more), another request of the tenant then creates the form, and the second
query finds it. `LocksAreMistakenOnlyForNewForms` says that this is the only way, on
either engine: a lock that an update has seen stays (`SeenLocksStay`), so an update
that found no row goes on to a form its tenant does not have, or to one with
submissions, until such a form is created (`CreatedMeanwhile`).

On both engines `StoredSubmissionsAreAnnounced`
follows from `TypeOK` and `TablesInv` (a submission whose metadata is being written
is there). `RequestsWindDown` gives a request at most three statements
(`StatementsLeft`).

`MigrateProofs`. `MigrateTypeCorrect`, then, for any mix of migrations that run in a
transaction and that do not, on either engine, the invariant `MigrateInv`: the
schema is the migrations 1..n, and the recorded versions are the same or lack the
last, which then is one outside a transaction (`InOrder`); whoever works on the
schema inside a transaction holds the lock (`LockHeld`); nobody is past the first
missing migration and whoever runs one is at it (`Progress`); on PostgreSQL what was
read under the lock is still true (`ReadIsCurrent`). The effects of a migration then
come as the next element of the schema, and a record that comes later is that of the
last: `MigrateOnce`'s two steps, hence `MigrateImplementsOnce`. `MigrateRunsOnce`
and `MigrateServesMigrated` follow from the same invariant, and so does
`HalfDoneIsTheLast`, which bounds what the exception of `EveryReplicaServes` can
leave behind: one migration at most, the last, one that opted out of its
transaction. `LockIsNeverLeftBehind` (by `NoLeak`) says that a replica holds the
lock exactly while it is at a step that needs it, whatever fails. `StartUpsWindDown`
gives a replica at most `5 * Known[p] + 7` steps (`StepsLeft`): each of them lowers
the number, and another replica's never raises it.

`AccountsProofs`. `AccountsInv` says that a request in SQLite's transaction holds
the write lock and that what it has inserted is still new (`TransactionHeld`), that
nothing is in progress while the server is down (`RequestsInPlace`) and that the
account a sign-in has read is linked to its identity (`AccountRead`). It is needed
because the commit adds what two earlier statements have checked. From it every step
either leaves the directory of accounts alone, registers a new name with a password
or enrols a new name with an unlinked identity (`DirectorySteps`), which gives
`LinksAlwaysMatch`, `SessionsAlwaysOwned` and the refinement
`AccountsImplementDirectory`. `RolesAlwaysChangeForAnother` is an action property
from the same invariant. `LastAdminFallsToStaleAdmission` is what remains of
`AdminsStay`, which `accounts_admins` shows broken: the last administrator is
demoted only by a request whose actor was an administrator when Guard read the
account and is none when the statement runs. `RequestsWindDown` bounds the
statements of a request by `3 * MaxAttempts + 1` (`StatementsLeft`): each lowers
what is left, and no name or identity taken by others raises it, so the loop of
`createExternalUser` ends. `GivesUpOnlyWhenTaken` adds `NamesTried`: the names
before the current attempt are taken, and after a conflict either the current one is
or the identity has been linked meanwhile, in which case the second lookup finds it.

`LoginProofs`. `FlowsOK`: a cookie is that of a flow which its browser started, was
redirected for and has had no answer for since; hence `AnsweredFlowsStayOver`, because
a callback goes on only with the flow of the cookie it came with (`ExchangeBegins`).
`SignInsOK` carries from the exchange (`ExchangesOK`) to the answer that the person is
allowed and signed in for a flow of this browser; hence `SessionsAlwaysOwn`, for any
combination of state and code and for providers that check PKCE and those that do not:
the nonce is enough. `CookiesOK`: a flow that is neither over nor cleared has left the
browser a cookie, its own or another one with a seal at least as young and at least as
long-lived (`SealsOK`); hence `ExpiredAnswerAlwaysTrue`.

`SqliteQuerierProofs` has three parts. The copies of the queries and of `Tables` on
the two sides agree (`Same...`). A converted row is the row itself or reports an
overflow, and exactly the rows with a wide id do (`Narrowed`, one lemma per
conversion, and `Results` for the answers made of them). Each method then maps to
the contract's and keeps the database in its type (`NextRefines`); the type is the
inductive invariant (`DatabaseStaysTyped`), needed because a conversion is only
understood on rows of the tables' types. `AdapterImplementsQuerier` follows.

`ConstraintProofs`. What the schema declares and a migration could lose: unique
keys, and references to rows that are there. `ConstraintsHoldOnEitherEngine` proves
it for the contract `Querier`, so for every engine that keeps it, whichever unused
ids it gives out and also when a statement fails after its effect;
`ConstraintsHold`, for the SQLite adapter, follows from that and
`AdapterImplementsQuerier`. The proof goes table by table (`TableByTable`), with one
lemma for each writing statement (`ContractStep` joins them). An INSERT keeps the
keys because its id is one that no row has and the statement itself refuses what
breaks another constraint; an UPDATE keeps them because it names its row by the key
and leaves the key alone; a DELETE keeps the references because it refuses a row
that is referenced. `CreateUserWithIdentity` is two inserts whose first must not be
seen without the second.

`ServerProofs`. Every step of the server is a method of the adapter or leaves the
database alone (`ServerStatements`), so the database stays in its type there too.
`SettingsInv` says what `environ` and `config` are in each phase; the three theorems
on settings are consequences of it, and of `Validate` and `Normalize`.
`ExportsStayWithTheirTenant` needs no invariant on the request: the statement
compares form and tenant itself, which is exactly what protects it
(`RowsOfTheForm`). `AccountsStayOpen` classifies the effects on accounts
(`AccountStep`). `ServerTypeCorrect` needs that rows a page goes on with have ids
that can be named (`NamedIds`), which is the adapter's narrowing.
`ErrorsAreAlwaysJustified` traces a row that does not fit, also one computed by a
join, back to its table (`WideSources`). `StartAndPagesWindDown` counts what is left
of a start (`BootLeft`, at most seven steps) and of a page (`PageLeft`, at most five
statements).

`ListingProofs`. `Ranks`: when rows stand in a strict total order, the numbers of
rows before each are 0..n-1, each once; the listings' orders, by date and then by
id, are total because ids are unique, which is what `ConstraintsHold` is needed for.
So a page of `LIMIT` and `OFFSET` is an interval of ranks and the pages partition
the listing, and as every form and file has its tenant, the listing that joins
tenants and the count that does not are about the same rows: `ListingsAddUp`. For
`WalksMissNothing` the rows change between two pages. `PlacesGrow` is the reason
that it goes well: an insert or an edit never moves a row forward, because a form's
date and id are never written again. `WalkInv` says that the forms that were there
from the beginning and are not shown yet stand at the next offset or later; a page
shows those in its interval (`PageShown`), the others stand beyond it
(`PageLeaves`), and a page that is not full leaves none (`ShortPage`).
`KeyFindsTenant`: the API key is looked up anew for every page, and the tenant it
names is still the same one.

Assumptions. `TablesAssumption` (ids are numbers, the program's are fewer than the
database's, NULL is none of the values), `DatabasesAssumption` (the server starts on
a well-typed database), `DatabasesKeepConstraints` (and on one that keeps its
schema's constraints, which the migrations declare), `SettingsTyped` (what a parser
accepts is a value of its setting), and for `AccountsStayOpen` that the accounts of
the database it starts on have a way in.

Only model-checked. `EveryReplicaServes`, `EveryRequestAnswered`, `BootEnds` and
`PageAnswered`, because the proof system does not handle ENABLED, hence fairness.
The part without fairness is proved of each: `StartUpsWindDown`, `RequestsWindDown`
(in `FormServiceProofs` and in `AccountsProofs`) and `StartAndPagesWindDown` say
that steps, once taken, lead to an end, and `LockIsNeverLeftBehind` that nobody
keeps what another waits for; that the next step is taken is the fairness the runs
assume. Every other property of a run that is expected to pass is stated by a
theorem.

## 5. Not modelled

* The multipart upload of files (size limits, names, content types), `formStatus`
  and `formAccess` of the pages, `copySlug` and `safeNext`, OIDC scopes and email
  domains as settings: data without control that a property here is about.
* Faults of SQLite while the server serves (a write that waits too long, a full
  disk) are in `Accounts` and `FormService`; in `Server` a statement fails only
  because of its data or of missing tables, which is what makes
  `ErrorsAreJustified` say something.
* The PostgreSQL server after `OpenDatabase`, which `FormService`, `Accounts` and
  `Migrate` follow.
* Cryptography (password hashes, token and cookie signatures, the provider's ID
  token): what a valid one proves is modelled, how it is verified is not.
* Rendering, logging, health checks, sample data and the generated API
  description.
* Induction over data and liveness are out of the proof system's reach.

## 6. Plan

What could come next, in this order:

1. `Names`: `sanitizeUsername`, `usernameWithSuffix`, `copySlug`, `safeNext`
   over short inputs. `Accounts` takes `Candidate` as a constant; this is where
   it comes from, with the lemma that the candidates of a base differ.
2. `formStatus` and `formAccess` of the pages against what `GetPublicBySlug` and
   `availableForm` do, so that a page never calls a form open whose submissions
   are refused. A suspended tenant's form is the case to look at.
3. The limits of a multipart upload: body, part and file.
4. The same start-up on PostgreSQL.
