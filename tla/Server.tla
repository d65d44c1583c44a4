------------------------------- MODULE Server -------------------------------
(***************************************************************************)
(* The server on SQLite from its start to its pages: run in cmd/api/main   *)
(* reads the settings, opens and migrates the database, makes the services *)
(* and serves.  Then clients read pages that take several statements while *)
(* other requests run statements of their own; every statement goes        *)
(* through the methods of SqliteQuerier and commits by itself.             *)
(***************************************************************************)
EXTENDS SqliteQuerier, Settings

CONSTANTS
  Environments,  \* the environments the server may be started in
  DotEnvs,       \* the .env files, as sequences of lines
  Tomls,         \* the configuration files, or NoFile
  AdminName,     \* the username of AUTH_ADMIN_USERNAME
  AdminHash,     \* the hash of AUTH_ADMIN_PASSWORD
  ListLimit,     \* appListLimit, and the limit of the forms API's clients
  MaxRows        \* bound on the rows of the tables that Size counts

ASSUME ServerAssumption ==
  /\ ListLimit \in Nat \ {0} /\ MaxRows \in Nat
  /\ AdminName \in Usernames /\ AdminHash \in Hashes /\ "ADMIN" \in Roles

\* What a parser accepts is a value of its setting.
Accepts(over) ==
  Overlay(Defaults,
          [k \in {j \in DOMAIN over : over[j] # Malformed} |-> over[k]])
    \in Config

ASSUME SettingsTyped ==
  /\ \A toml \in Tomls : toml = NoFile \/ Overlay(Defaults, toml) \in Config
  /\ \A lines \in DotEnvs : Len(lines) \in Nat
  /\ \A env \in Environments, lines \in DotEnvs :
       DotEnvFails(lines) \/ Accepts(LoadDotEnv(env, lines))

VARIABLES
  phase,    \* how far run has come, or how it ended
  sources,  \* the settings given, and environ, the process environment
  config,   \* the configuration, once loaded
  schema,   \* whether the database has its tables
  req,      \* the page in progress: its next statement and local variables
  reply,    \* the response sent by the last step, if it sent one
  walk      \* a client that pages through the forms of its tenant

serving == <<req, reply, walk>>
allVars == <<db, answer, phase, sources, config, schema, serving>>

Booting == {"dotenv", "config", "open", "migrate", "auth", "admin", "oidc"}

-----------------------------------------------------------------------------
(* Requests.                                                               *)

AppPages == {"dashboard", "form", "export", "builder", "account", "users"}

\* The statement a page runs first.
FirstStep ==
  [dashboard |-> "forms", form |-> "form", export |-> "form",
   builder |-> "form", account |-> "identities", users |-> "users"]

Idle ==
  [page |-> "none", step |-> "idle", user |-> Null, tenant |-> Null,
   form |-> Null, rows |-> {}]

NoReply == [page |-> "none", code |-> "none", tenant |-> Null, rows |-> {}]

NoWalk == [tenant |-> Null, offset |-> 0, seen |-> {}, owed |-> {}]

Request ==
  [page: AppPages \cup {"none", "list"},
   step: {"idle", "session", "forms", "formsTotal", "files", "filesTotal",
          "form", "rows", "identities", "users", "authenticate", "list",
          "count"},
   user: Ids \cup {Null},
   tenant: Ids \cup {Null},
   form: Ids \cup {Null},
   rows: SUBSET Ids]           \* ids of the forms listed

Walk ==
  [tenant: Ids \cup {Null}, offset: Nat,
   seen: SUBSET Ids,           \* forms the client has been shown
   owed: SUBSET Ids]           \* forms there were when it began

TypeOK ==
  /\ db \in Database /\ Consistent(db)
  /\ answer.rows # {} => answer.error = "none"
  /\ phase \in Booting \cup {"serve", "failed", "stopped"}
  /\ config \in Config
  /\ schema \in BOOLEAN
  /\ req \in Request
  /\ walk \in Walk

\* The settings that are read once .env is.
Environ(s) == LoadDotEnv(s.env, s.dotenv)
InMemory(s) ==
  /\ ~LoadFails(s.toml, Environ(s))
  /\ Load(s.toml, Environ(s)).DATABASE_URL = "memory"

\* db is the database that the settings name: one in memory is a new one.
ServerInit ==
  /\ \E env \in Environments, dotenv \in DotEnvs, toml \in Tomls :
       sources = [env |-> env, dotenv |-> dotenv, toml |-> toml,
                  environ |-> env]
  /\ db \in (IF InMemory(sources) THEN {Empty} ELSE Databases)
  /\ schema \in {db # Empty, ~InMemory(sources)}
  /\ answer = Found({})
  /\ phase = "dotenv"
  /\ config = Defaults
  /\ req = Idle /\ reply = NoReply /\ walk = NoWalk

-----------------------------------------------------------------------------
(* Start-up.                                                               *)

\* run goes on, or returns an error and the process exits.
Go(next) == phase' = next /\ UNCHANGED serving
Quit == Go("failed")

ReadDotEnv ==
  /\ phase = "dotenv"
  /\ IF DotEnvFails(sources.dotenv) THEN Quit ELSE Go("config")
  /\ sources' = [sources EXCEPT !.environ = LoadDotEnv(@, sources.dotenv)]
  /\ UNCHANGED <<db, answer, config, schema>>

LoadConfig ==
  /\ phase = "config"
  /\ IF LoadFails(sources.toml, sources.environ)
       THEN Quit /\ UNCHANGED config
       ELSE /\ Go("open")
            /\ config' = Load(sources.toml, sources.environ)
  /\ UNCHANGED <<db, answer, sources, schema>>

\* On PostgreSQL the server goes on as FormService and Accounts have it, which
\* is not followed here.
OpenDatabase ==
  /\ phase = "open"
  /\ Driver(config) = "sqlite"
  /\ Go("migrate") \/ Quit
  /\ UNCHANGED <<db, answer, sources, config, schema>>

\* Fault: without auto_migrate the server waits for its tables.
MigrateAlways ==
  /\ phase = "migrate"
  /\ AutoMigrateEnabled(config) \/ schema
  /\ Go("auth") \/ Quit
  /\ schema' = (schema \/ phase' = "auth")
  /\ UNCHANGED <<db, answer, sources, config>>

Migrate ==
  /\ phase = "migrate"
  /\ IF AutoMigrateEnabled(config)
       THEN \/ Go("auth") /\ schema' = TRUE
            \/ Quit /\ UNCHANGED schema
       ELSE Go("auth") /\ UNCHANGED schema
  /\ UNCHANGED <<db, answer, sources, config>>

NewAuthService ==
  /\ phase = "auth"
  /\ IF NewServiceFails(config) THEN Quit ELSE Go("admin")
  /\ UNCHANGED <<db, answer, sources, config, schema>>

\* A statement: without the tables it fails.
Run(method) == IF schema THEN method ELSE Read(Failed("internal"))

EnsureAdmin ==
  /\ phase = "admin"
  /\ \/ /\ config.AUTH_ADMIN_USERNAME = "unset"
        /\ Go("oidc")
        /\ UNCHANGED <<db, answer>>
     \/ /\ AdminFails(config)
        /\ Quit
        /\ UNCHANGED <<db, answer>>
     \/ /\ config.AUTH_ADMIN_USERNAME # "unset" /\ ~AdminFails(config)
        /\ Run(CreateUserIfNotExists(
             [name |-> AdminName, hash |-> AdminHash, role |-> "ADMIN"]))
        /\ IF answer'.error = "none" THEN Go("oidc") ELSE Quit
  /\ UNCHANGED <<sources, config, schema>>

\* oidc.New asks the provider for its configuration, without a time limit: the
\* context of run has no deadline and the HTTP client no timeout.
AwaitsProvider == phase = "oidc" /\ Uses(config, "oidc")

DiscoverProvider ==
  /\ phase = "oidc"
  /\ Go("serve") \/ (AwaitsProvider /\ Quit)
  /\ UNCHANGED <<db, answer, sources, config, schema>>

\* A signal, or a port that cannot be listened on; Shutdown waits ten seconds
\* for the requests in progress.
Stop ==
  /\ phase = "serve"
  /\ phase' = "stopped"
  /\ req' = Idle /\ reply' = NoReply /\ walk' = NoWalk
  /\ UNCHANGED <<db, answer, sources, config, schema>>

Boot ==
  \/ ReadDotEnv \/ LoadConfig \/ OpenDatabase \/ Migrate
  \/ NewAuthService \/ EnsureAdmin \/ DiscoverProvider

-----------------------------------------------------------------------------
(* The pages.                                                              *)

Step ==
  /\ phase = "serve"
  /\ UNCHANGED <<phase, sources, config, schema>>

Send(code, tenant, rows) ==
  /\ req' = Idle
  /\ reply' = [page |-> req.page, code |-> code, tenant |-> tenant,
               rows |-> rows]
  /\ UNCHANGED walk

Answer(code) == Send(code, Null, {})

Then(next) == req' = next /\ reply' = NoReply /\ UNCHANGED walk
ThenStep(step) == Then([req EXCEPT !.step = step])

\* Fault: the handler returns after an error without a response.
IfFoundOnly(follows) == answer'.error = "none" /\ follows

\* A page goes on when its statement succeeds and shows the error otherwise.
IfFound(follows) ==
  \/ answer'.error = "none" /\ follows
  \/ answer'.error # "none" /\ Answer(answer'.error)

TheRow == CHOOSE r \in answer'.rows : TRUE

\* routes and mount: the operator's pages need the credentials of the app.
Operator(page) == page \in {"dashboard", "form", "export", "builder"}
Mounted(page) == Operator(page) => AppEnabled(config)

\* The Access of the page's route; users holds the one signed in.
Allows(page, users) ==
  /\ page \in {"account", "users"} => users # {}
  /\ page = "users" => \A u \in users : u.role = "ADMIN"

\* Pages change nothing, so the client that pages through the API does it by
\* itself.
Open(page, form) ==
  /\ Step
  /\ req = Idle /\ walk = NoWalk
  /\ Mounted(page)
  /\ Then([Idle EXCEPT !.page = page, !.step = "session", !.form = form])
  /\ UNCHANGED <<db, answer>>

OfForm(page) == page \in {"form", "export", "builder"}

\* The form is Null when the id is malformed, or when the builder is opened
\* without one.
OpenPage ==
  \/ \E page \in AppPages : Open(page, Null)
  \/ \E page \in {p \in AppPages : OfForm(p)}, i \in Ids : Open(page, i)

\* guardPage for a visitor whose session names user i, or without a session:
\* whatever keeps sessionUser from finding the user, there is none then.  A
\* page of a form without an id is answered before its first statement.
Guard(users) ==
  \/ /\ ~Allows(req.page, users)
     /\ Answer(IF users = {} THEN "signin" ELSE "forbidden")
  \/ /\ Allows(req.page, users)
     /\ OfForm(req.page) /\ req.form = Null
     /\ Answer("bad_request") \/ (req.page = "builder" /\ Answer("ok"))
  \/ /\ Allows(req.page, users)
     /\ OfForm(req.page) => req.form # Null
     /\ Then([req EXCEPT !.step = FirstStep[req.page],
                 !.user = IF req.page = "account"
                            THEN (CHOOSE u \in users : TRUE).id ELSE Null])

ReadSession ==
  /\ Step
  /\ req.step = "session"
  /\ \/ Guard({}) /\ UNCHANGED <<db, answer>>
     \/ \E i \in Ids : Run(GetUserByID(i)) /\ Guard(answer'.rows)

\* load: four statements.
Dashboard ==
  LET top == [offset |-> 0, limit |-> ListLimit] IN
  /\ Step
  /\ \/ /\ req.step = "forms"
        /\ Run(ListAllForms(top)) /\ IfFound(ThenStep("formsTotal"))
     \/ /\ req.step = "formsTotal"
        /\ Run(CountAllForms) /\ IfFound(ThenStep("files"))
     \/ /\ req.step = "files"
        /\ Run(ListAllFiles(top)) /\ IfFound(ThenStep("filesTotal"))
     \/ /\ req.step = "filesTotal"
        /\ Run(CountAllFiles) /\ IfFound(Answer("ok"))

\* form, and Builder, which needs no more than the form.
ReadForm ==
  /\ Step
  /\ req.step = "form"
  /\ Run(GetAnyFormByID(req.form))
  /\ IfFound(IF req.page = "builder"
               THEN Answer("ok")
               ELSE Then([req EXCEPT !.step = "rows",
                                     !.tenant = TheRow.tenant]))

\* The submissions of the form read before, for the page and the exports.
ReadRows ==
  LET of == [form |-> req.form, tenant |-> req.tenant] IN
  /\ Step
  /\ req.step = "rows"
  /\ Run(IF req.page = "export"
           THEN ListAllSubmissionsByForm(of)
           ELSE ListSubmissionsByForm(of, [offset |-> 0, limit |-> ListLimit]))
  /\ IfFound(Send("ok", req.tenant, answer'.rows))

Account ==
  /\ Step
  /\ req.step = "identities"
  /\ Run(CountUserIdentities(req.user)) /\ IfFound(Answer("ok"))

Users ==
  /\ Step
  /\ req.step = "users"
  /\ Run(ListUsers([offset |-> 0, limit |-> ListLimit]))
  /\ IfFound(Answer("ok"))

-----------------------------------------------------------------------------
(* GET /forms, asked for page after page.                                  *)

TenantForms(t) == {f \in db.forms : f.tenant = t}

BeginWalk ==
  /\ Step
  /\ req = Idle /\ walk = NoWalk
  /\ \E t \in Ids :
       /\ TenantForms(t) # {} /\ \A f \in TenantForms(t) : f.id \in Ids
       /\ walk' = [NoWalk EXCEPT !.tenant = t,
                                 !.owed = {f.id : f \in TenantForms(t)}]
  /\ req' = Idle /\ reply' = NoReply
  /\ UNCHANGED <<db, answer>>

RequestList ==
  /\ Step
  /\ req = Idle /\ walk # NoWalk
  /\ Then([Idle EXCEPT !.page = "list", !.step = "authenticate"])
  /\ UNCHANGED <<db, answer>>

\* The tenant whose key the client has.
KeyOf(t) == (CHOOSE r \in db.tenants : r.id = t).key

Authenticate ==
  /\ Step
  /\ req.step = "authenticate"
  /\ Run(GetTenantByAPIKey(KeyOf(walk.tenant)))
  /\ \/ /\ answer'.error = "none"
        /\ Then([req EXCEPT !.step = "list", !.tenant = TheRow.id])
     \/ /\ answer'.error # "none"
        /\ Answer(IF answer'.error = "no_rows" THEN "unauthorized"
                  ELSE "internal")

AllOf(t) ==
  [tenant |-> t, active |-> Null, draft |-> Null, search |-> Titles]

\* Fault: offsets count from 1.
PageFromOne(offset) == [offset |-> offset + 1, limit |-> ListLimit]

\* parsePage
PageAt(offset) == [offset |-> offset, limit |-> ListLimit]

List ==
  /\ Step
  /\ req.step = "list"
  /\ Run(ListFormsByTenant(AllOf(req.tenant), PageAt(walk.offset)))
  /\ IfFound(Then([req EXCEPT !.step = "count",
                              !.rows = {f.id : f \in answer'.rows}]))

\* The last statement; the client goes on until a page is not full.
Count ==
  /\ Step
  /\ req.step = "count"
  /\ Run(CountFormsByTenant(AllOf(req.tenant)))
  /\ \/ /\ answer'.error = "none"
        /\ req' = Idle
        /\ reply' = [page |-> "list", code |-> "ok", tenant |-> req.tenant,
                     rows |-> req.rows]
        /\ walk' = IF Cardinality(req.rows) < ListLimit
                     THEN NoWalk
                     ELSE [walk EXCEPT !.offset = @ + ListLimit,
                                       !.seen = @ \cup req.rows]
     \/ answer'.error # "none" /\ Answer(answer'.error)

Serve ==
  \/ ReadSession \/ Dashboard \/ ReadForm \/ ReadRows \/ Account \/ Users
  \/ Authenticate \/ List \/ Count

-----------------------------------------------------------------------------
(* Everything else the server is asked to do, one statement at a time.  A  *)
(* read of another request leaves no trace, so it is left out while a page *)
(* is in progress.  The client that pages gives up when a form is deleted,  *)
(* for then nothing is promised to it.                                     *)

\* Keys, Identities and the submissions bound the rows of the other tables.
Size(d) ==
  Cardinality(d.users) + Cardinality(d.forms) + Cardinality(d.submissions)
    + Cardinality(d.webhooks) + Cardinality(d.files)

Statement ==
  /\ Step
  /\ schema
  /\ Next
  /\ req = Idle \/ db' # db
  /\ Size(db') <= MaxRows
  /\ reply' = NoReply
  /\ IF \E f \in db.forms : ~HasId(db'.forms, f.id)
       THEN walk' = NoWalk /\ req' = IF walk = NoWalk THEN req ELSE Idle
       ELSE UNCHANGED <<req, walk>>

ServerNext ==
  \/ Boot \/ Stop
  \/ OpenPage \/ BeginWalk \/ RequestList \/ Serve
  \/ Statement

ServerSpec == ServerInit /\ [][ServerNext]_allVars

\* The process is scheduled and its statements return; the provider need not
\* answer.
FairServer ==
  ServerSpec /\ WF_allVars(~AwaitsProvider /\ Boot) /\ WF_allVars(Serve)
-----------------------------------------------------------------------------
(* Properties.                                                             *)

\* A method of the adapter reports an internal error only while the tables
\* are missing or hold an id of more than 32 bits: on a database that a
\* PostgreSQL of the same data could hold, SQLite answers every query.
ErrorsAreJustified ==
  [][ answer'.error = "internal" /\ answer' # answer =>
        \/ ~schema
        \/ \E t \in DOMAIN db' : \E r \in db'[t] : Wide(r) ]_<<db, answer>>

\* The pages of one row each of a listing hold every row once, and the page
\* after the last, whose offset is the total, holds none.
Complete(pages, total) ==
  /\ \A n \in 0..(total - 1) : Cardinality(pages[n]) = 1
  /\ \A n, m \in 0..total : n # m => pages[n] \cap pages[m] = {}
  /\ pages[total] = {}

\* The pages of a listing, whatever the filter, show every row once, and the
\* total shown beside them, which another statement with its own WHERE or
\* FROM clause counts, is the number of those rows.
PagesAddUp ==
  LET row(n) == [offset |-> n, limit |-> 1]
      forms == Q!CountAllForms(db)
      files == Q!CountAllFiles(db)
  IN  /\ Complete([n \in 0..forms |-> Q!ListAllForms(db, row(n))], forms)
      /\ Complete([n \in 0..files |-> Q!ListAllFiles(db, row(n))], files)
      /\ \A filter \in Filters :
           LET matches == Q!CountFormsByTenant(db, filter)
           IN  Complete([n \in 0..matches |->
                          Q!ListFormsByTenant(db, filter, row(n))], matches)

\* A page or an export reads the form with one statement and its submissions
\* with another; when the form is deleted in between and its id given to a
\* form of another tenant, the submissions of that one are not shown.
ExportStaysWithTenant ==
  [][ \A r \in reply'.rows :
        reply'.page \in {"form", "export"} =>
          [id |-> r.form, tenant |-> reply'.tenant]
            \in {[id |-> f.id, tenant |-> f.tenant] : f \in db'.forms} ]_reply

\* A client that pages through the forms of its tenant until a page is not
\* full has seen every form there was when it began, whatever was inserted
\* or updated meanwhile, as long as none was deleted.
WalkMissesNothing ==
  [][ walk # NoWalk /\ reply'.page = "list" /\ walk' = NoWalk =>
        walk.owed \subseteq walk.seen \cup reply'.rows ]_serving

\* What the process environment sets is in effect, then what the first line
\* of .env for it sets, then the TOML file, then the default.
RealEnvironmentWins ==
  phase \in {"open", "migrate", "auth", "admin"} =>
    \A k \in DOMAIN config \ {"AUTH_METHODS"} :
      LET lines == {n \in 1..Len(sources.dotenv) : sources.dotenv[n].key = k}
          first == CHOOSE n \in lines : \A m \in lines : n <= m
      IN  config[k] = IF k \in DOMAIN sources.env THEN sources.env[k]
                      ELSE IF lines # {} THEN sources.dotenv[first].value
                      ELSE Overlay(Defaults, sources.toml)[k]

\* Once run has opened and migrated the database, settings that Load accepted
\* end it only for a lifetime of tokens that overflows, a name or password that
\* EnsureUser refuses to the first administrator, or the provider's refusal;
\* otherwise it takes a statement that fails.
OnlyTheseRefusalsAreLate ==
  [][ phase' = "failed" /\ phase \in {"auth", "admin", "oidc"} =>
        \/ phase = "auth" /\ TokenTTL(config) < 0
        \/ phase = "admin" /\ (AdminFails(config) \/ answer'.error # "none")
        \/ phase = "oidc" /\ Uses(config, "oidc") ]_phase

\* Once the settings are accepted there is a way to sign in, and none that is
\* unknown or lacks its settings.
SignInMethodsWork ==
  phase \in {"open", "migrate", "auth", "admin", "oidc", "serve"} =>
    /\ config.AUTH_METHODS # {}
    /\ config.AUTH_METHODS \subseteq Methods
    /\ Uses(config, "oidc") =>
         "unset" \notin {config.OIDC_ISSUER_URL, config.OIDC_CLIENT_ID,
                        config.OIDC_REDIRECT_URL}

\* Every account has a password or an identity at a provider: the two inserts
\* of CreateUserWithIdentity leave no account that nobody can sign in to.
AccountsCanBeOpened ==
  \A u \in db.users :
    u.hash # Null \/ \E l \in db.identities : l.user = u.id

\* run ends its start-up, it serves or exits, or waits for the provider.
BootEnds == <>(phase \notin Booting \/ AwaitsProvider)

\* A page that was asked for is answered, or the server stops.
PageAnswered == req # Idle ~> req = Idle
=============================================================================
