---------------------------- MODULE ServerProofs ----------------------------
(***************************************************************************)
(* What a start leaves in effect, and what the pages show, for every       *)
(* environment, every pair of files, every database and every number of    *)
(* rows: the configuration a server serves with, the way in to every       *)
(* account, the tenant of what is exported, and the contract of db.Querier *)
(* kept by the composition.                                                *)
(***************************************************************************)
EXTENDS Server, ConstraintProofs

-----------------------------------------------------------------------------
(* Settings.                                                               *)

\* Values laid over a configuration leave one, if no value is malformed.
LEMMA OverlayTyped ==
  ASSUME NEW c \in Config, NEW over, Accepts(over), ~EnvFails(over)
  PROVE  ApplyEnv(c, over) \in Config
<1> DEFINE given ==
             [k \in {j \in DOMAIN over : over[j] # Malformed} |-> over[k]]
           d == Overlay(Defaults, given)
           e == Overlay(c, over)
<1>1. /\ DOMAIN given = DOMAIN over
      /\ \A k \in DOMAIN over : given[k] = over[k]
  BY DEF EnvFails
<1> HIDE DEF given
<1>2. DOMAIN Defaults = DOMAIN c
  BY DEF Defaults, Config
<1>3. /\ e = [k \in DOMAIN c |-> e[k]]
      /\ \A k \in DOMAIN c : e[k] = d[k] \/ e[k] = c[k]
  BY <1>1, <1>2 DEF Overlay
<1>4. d \in Config
  BY DEF Accepts, given
<1> HIDE DEF d, e
<1>5. e \in Config
  BY <1>3, <1>4 DEF Config
<1> QED
  BY <1>5 DEF ApplyEnv, e

\* Normalising keeps every setting but the methods.
LEMMA Normalized ==
  ASSUME NEW c \in Config
  PROVE  /\ Normalize(c) \in Config
         /\ \A k \in DOMAIN c \ {"AUTH_METHODS"} : Normalize(c)[k] = c[k]
         /\ Normalize(c).AUTH_METHODS # {}
  BY DEF Normalize, NormalizeStringList, DefaultMethods, Config, Methods

-----------------------------------------------------------------------------
(* The configuration in effect.                                            *)

Loaded == {"open", "migrate", "auth", "admin", "oidc", "serve"}

\* The settings are the ones given, and once loaded they are in effect.
SettingsInv ==
  /\ sources = [env |-> sources.env, dotenv |-> sources.dotenv,
                toml |-> sources.toml, environ |-> sources.environ]
  /\ sources.env \in Environments /\ sources.dotenv \in DotEnvs
  /\ sources.toml \in Tomls
  /\ phase = "dotenv" => sources.environ = sources.env
  /\ phase \in {"config"} \cup Loaded =>
       /\ ~DotEnvFails(sources.dotenv)
       /\ sources.environ = LoadDotEnv(sources.env, sources.dotenv)
  /\ phase \in Loaded =>
       /\ config = Load(sources.toml, sources.environ)
       /\ ~LoadFails(sources.toml, sources.environ)
  /\ config \in Config
  /\ phase \in Booting \cup {"serve", "failed", "stopped"}

\* The steps that leave the settings alone take the server from a phase with a
\* configuration to another or to its end.
LEMMA SettingsSteps ==
  ASSUME ServerNext
  PROVE  \/ ReadDotEnv
         \/ LoadConfig
         \/ /\ UNCHANGED <<sources, config>>
            /\ phase \in Loaded
            /\ phase' \in Loaded \cup {"failed", "stopped"}
<1> USE DEF Loaded, Go, Quit
<1>1. CASE Boot
  BY <1>1
  DEF Boot, OpenDatabase, Migrate, NewAuthService, EnsureAdmin,
      DiscoverProvider
<1>2. CASE Stop
  BY <1>2 DEF Stop
<1>3. ASSUME Step
      PROVE  /\ UNCHANGED <<sources, config>> /\ phase' = phase
             /\ phase = "serve"
  BY <1>3 DEF Step
<1>4. CASE OpenPage
  BY <1>3, <1>4 DEF OpenPage, Open
<1>5. CASE BeginWalk
  BY <1>3, <1>5 DEF BeginWalk
<1>6. CASE RequestList
  BY <1>3, <1>6 DEF RequestList
<1>7. CASE Serve
  BY <1>3, <1>7
  DEF Serve, ReadSession, Dashboard, ReadForm, ReadRows, Account, Users,
      Authenticate, List, Count
<1>8. CASE Statement
  BY <1>3, <1>8 DEF Statement
<1> QED
  BY <1>1, <1>2, <1>4, <1>5, <1>6, <1>7, <1>8 DEF ServerNext

\* What Load accepts is a configuration.
LEMMA LoadTyped ==
  ASSUME NEW toml \in Tomls, NEW env \in Environments,
         NEW lines \in DotEnvs, ~DotEnvFails(lines),
         ~LoadFails(toml, LoadDotEnv(env, lines))
  PROVE  /\ ApplyEnv(Overlay(Defaults, toml), LoadDotEnv(env, lines))
              \in Config
         /\ Load(toml, LoadDotEnv(env, lines)) \in Config
<1> DEFINE environ == LoadDotEnv(env, lines)
<1>1. Accepts(environ) /\ Overlay(Defaults, toml) \in Config
  BY SettingsTyped DEF LoadFails
<1>2. ~EnvFails(environ)
  BY DEF LoadFails
<1> HIDE DEF environ
<1>3. ApplyEnv(Overlay(Defaults, toml), environ) \in Config
  BY <1>1, <1>2, OverlayTyped
<1> QED
  BY <1>3, Normalized DEF Load, environ

\* The defaults are values of their settings.
LEMMA DefaultsTyped == Defaults \in Config
BY DEF Defaults, Config, AllRoles

\* At first nothing is read and the configuration is the default.
LEMMA SettingsInvInit == ServerInit => SettingsInv
BY DefaultsTyped DEF ServerInit, SettingsInv, Loaded, Booting

\* Reading the sources, and nothing else, changes what is configured.
LEMMA SettingsInvStep ==
  ASSUME SettingsInv, [ServerNext]_allVars
  PROVE  SettingsInv'
<1>1. CASE UNCHANGED allVars
  BY <1>1 DEF allVars, SettingsInv
<1>2. CASE ReadDotEnv
  BY <1>2 DEF ReadDotEnv, SettingsInv, Go, Quit, Loaded, Booting
<1>3. CASE LoadConfig
  BY <1>3, LoadTyped
  DEF LoadConfig, SettingsInv, Go, Quit, Loaded, Booting
<1>4. CASE /\ UNCHANGED <<sources, config>>
           /\ phase \in Loaded
           /\ phase' \in Loaded \cup {"failed", "stopped"}
  BY <1>4 DEF SettingsInv, Loaded, Booting
<1> QED
  BY <1>1, <1>2, <1>3, <1>4, SettingsSteps

\* So what is configured always comes from the sources.
LEMMA SettingsHold == ServerSpec => []SettingsInv
BY SettingsInvInit, SettingsInvStep, PTL DEF ServerSpec

\* Whatever the settings, a server that is past reading them has a way to sign
\* in, and OpenID Connect among its ways only with what it needs.
THEOREM SomeMethodAlwaysWorks == ServerSpec => []SignInMethodsWork
<1>1. SettingsInv => SignInMethodsWork
  <2> SUFFICES ASSUME SettingsInv, phase \in Loaded
               PROVE  /\ config.AUTH_METHODS # {}
                      /\ config.AUTH_METHODS \subseteq Methods
                      /\ Uses(config, "oidc") => Configured(config)
    BY DEF SignInMethodsWork, Loaded, Configured
  <2>1. Validate(config)
    BY DEF SettingsInv, LoadFails, Load
  <2>2. config.AUTH_METHODS # {}
    BY LoadTyped, Normalized DEF SettingsInv, Load, Loaded
  <2> QED
    BY <2>1, <2>2 DEF Validate
<1> QED
  BY <1>1, SettingsHold, PTL

\* auth.NewService refuses nothing that Load accepted, but for the overflow of
\* a lifetime.
LEMMA NewServiceAccepts ==
  ASSUME SettingsInv, phase = "auth", NewServiceFails(config)
  PROVE  TokenTTL(config) < 0
<1>1. Validate(config) /\ config \in Config
  BY DEF SettingsInv, LoadFails, Load, Loaded
<1>2. config.AUTH_JWT_SECRET \in Nat
  BY <1>1 DEF Config
<1>3. ~(SecretLen(config) < MinSecretLen)
  BY <1>1, <1>2, SettingsAssumption DEF SecretLen, Validate
<1>4. ExternalRole(config) \in AllRoles
  BY <1>1 DEF Validate, ValidateOIDC, ExternalRole, Configured, Unconfigured,
              OIDCValidRoles, AllRoles
<1> QED
  BY <1>1, <1>3, <1>4 DEF NewServiceFails, Validate

\* So a start fails after the migrations only for that, for an administrator
\* whom EnsureUser refuses, at the provider or in a statement.
THEOREM LateRefusalsAreFew == ServerSpec => OnlyTheseRefusalsAreLate
<1> DEFINE Late ==
      phase' = "failed" /\ phase \in {"auth", "admin", "oidc"} =>
        \/ phase = "auth" /\ TokenTTL(config) < 0
        \/ phase = "admin" /\ (AdminFails(config) \/ answer'.error # "none")
        \/ phase = "oidc" /\ Uses(config, "oidc")
<1>1. ASSUME SettingsInv, [ServerNext]_allVars,
             phase \in {"auth", "admin", "oidc"}, phase' = "failed"
      PROVE  Late
  <2>1. Boot
    BY <1>1
    DEF ServerNext, allVars, Stop, OpenPage, Open, BeginWalk, RequestList,
        Serve, ReadSession, Dashboard, ReadForm, ReadRows, Account, Users,
        Authenticate, List, Count, Statement, Step
  <2>2. CASE phase = "auth"
    <3>1. NewServiceFails(config)
      BY <1>1, <2>1, <2>2
      DEF Boot, ReadDotEnv, LoadConfig, OpenDatabase, Migrate, NewAuthService,
          EnsureAdmin, DiscoverProvider, Go, Quit
    <3> QED
      BY <1>1, <2>2, <3>1, NewServiceAccepts
  <2>3. CASE phase = "admin"
    BY <1>1, <2>1, <2>3
    DEF Boot, ReadDotEnv, LoadConfig, OpenDatabase, Migrate, NewAuthService,
        EnsureAdmin, DiscoverProvider, Go, Quit
  <2>4. CASE phase = "oidc"
    BY <1>1, <2>1, <2>4
    DEF Boot, ReadDotEnv, LoadConfig, OpenDatabase, Migrate, NewAuthService,
        EnsureAdmin, DiscoverProvider, AwaitsProvider, Go, Quit
  <2> QED
    BY <1>1, <2>2, <2>3, <2>4
<1>2. SettingsInv /\ [ServerNext]_allVars => [Late]_phase
  BY <1>1
<1> QED
  BY <1>2, SettingsHold, PTL DEF ServerSpec, OnlyTheseRefusalsAreLate

\* The first line of .env for a setting, said in two ways.
LEMMA FirstLines ==
  ASSUME NEW lines, Len(lines) \in Nat, ~DotEnvFails(lines), NEW k
  PROVE  LET of == {n \in 1..Len(lines) : lines[n].key = k}
         IN  /\ FirstLine(lines, k)
                  = CHOOSE n \in of : \A m \in of : n <= m
             /\ k \in {lines[n].key : n \in GoodLines(lines)} <=> of # {}
<1> DEFINE of == {n \in 1..Len(lines) : lines[n].key = k}
           first == {n \in GoodLines(lines) :
                       /\ lines[n].key = k
                       /\ \A m \in 1..(n - 1) : lines[m].key # k}
           least == {n \in of : \A m \in of : n <= m}
<1>1. GoodLines(lines) = 1..Len(lines)
  BY DEF GoodLines, DotEnvFails
<1>2. first = least
  BY <1>1
<1>3. FirstLine(lines, k) = CHOOSE n \in first : TRUE
  BY DEF FirstLine
<1>4. (CHOOSE n \in of : \A m \in of : n <= m) = CHOOSE n \in least : TRUE
  OBVIOUS
<1> QED
  BY <1>1, <1>2, <1>3, <1>4

\* Every setting in effect is the one of the source that comes first.
THEOREM SourcesKeepTheirOrder == ServerSpec => []RealEnvironmentWins
<1>1. SettingsInv => RealEnvironmentWins
  <2> DEFINE lines == sources.dotenv
             of(k) == {n \in 1..Len(lines) : lines[n].key = k}
             c == ApplyEnv(Overlay(Defaults, sources.toml), sources.environ)
  <2> SUFFICES ASSUME SettingsInv, phase \in Loaded,
                      NEW k \in DOMAIN config \ {"AUTH_METHODS"}
               PROVE  config[k] =
                        IF k \in DOMAIN sources.env THEN sources.env[k]
                        ELSE IF of(k) # {}
                          THEN lines[CHOOSE n \in of(k) :
                                       \A m \in of(k) : n <= m].value
                        ELSE Overlay(Defaults, sources.toml)[k]
    BY DEF RealEnvironmentWins, Loaded
  <2>1. /\ Len(lines) \in Nat /\ ~DotEnvFails(lines)
        /\ c \in Config /\ config = Normalize(c)
    BY SettingsTyped, LoadTyped DEF SettingsInv, Load
  <2>2. k \in DOMAIN c /\ config[k] = c[k]
    BY <2>1, Normalized DEF Config, SettingsInv
  <2>3. c[k] = IF k \in DOMAIN sources.environ THEN sources.environ[k]
               ELSE Overlay(Defaults, sources.toml)[k]
    BY <2>2 DEF ApplyEnv, Overlay
  <2>4. /\ DOMAIN sources.environ
             = DOMAIN sources.env
                 \cup {lines[n].key : n \in GoodLines(lines)}
        /\ k \in DOMAIN sources.environ =>
             sources.environ[k] =
               IF k \in DOMAIN sources.env THEN sources.env[k]
               ELSE lines[FirstLine(lines, k)].value
    BY DEF SettingsInv, LoadDotEnv
  <2>5. /\ FirstLine(lines, k)
             = CHOOSE n \in of(k) : \A m \in of(k) : n <= m
        /\ k \in {lines[n].key : n \in GoodLines(lines)} <=> of(k) # {}
    BY <2>1, FirstLines
  <2> HIDE DEF lines, of, c
  <2> QED
    BY <2>2, <2>3, <2>4, <2>5
<1> QED
  BY <1>1, SettingsHold, PTL

-----------------------------------------------------------------------------
(* The statements the server runs.                                         *)

\* A method returns rows or an error, never both.
LEMMA AnswersAreWhole ==
  ASSUME Next
  PROVE  answer'.rows # {} => answer'.error = "none"
<1> DEFINE Whole == answer'.rows # {} => answer'.error = "none"
<1>1. /\ \A S : Read(Converted(S)) => Whole
      /\ \A S : Read(Single(S)) => Whole
      /\ \A d, S : Write(d, Single(S)) => Whole
      /\ \A n : Read(Counted(n)) => Whole
      /\ \A d, n : Write(d, Counted(n)) => Whole
      /\ \A d : Write(d, Found({})) => Whole
      /\ \A v : Reject(v) => Whole
      /\ Read(Failed("no_rows")) => Whole
  BY DEF Read, Write, Reject, Converted, Single, Counted, Found, Failed
<1> SUFFICES Whole
  OBVIOUS
<1> HIDE DEF Whole
<1>2. CASE AnyTenants
  BY <1>1, <1>2 DEF AnyTenants, CreateTenant, GetTenantByAPIKey
<1>3. CASE AnyUsers
  BY <1>1, <1>3
  DEF AnyUsers, CreateUser, CreateUserIfNotExists, CreateUserWithIdentity,
      GetUserByID, CountUserIdentities, GetUserByUsername, GetUserByIdentity,
      ListUsers, UpdateUserRole, TouchUserIdentity
<1>4. CASE AnyFiles
  BY <1>1, <1>4
  DEF AnyFiles, CreateFile, GetFileByID, ListAllFiles, CountAllFiles,
      DeleteFile
<1>5. CASE AnyForms
  BY <1>1, <1>5
  DEF AnyForms, CreateForm, GetFormByID, DeleteForm, GetAnyFormByID,
      GetPublicFormBySlug, CountFormsByTenant, ListFormsByTenant,
      ListAllForms, CountAllForms, UpdateForm
<1>6. CASE AnySubmissions
  BY <1>1, <1>6
  DEF AnySubmissions, CreateFormSubmission, CreateSubmissionMetadata,
      ListAllSubmissionsByForm, ListSubmissionsByForm, CreateFormWebhook,
      ListActiveWebhooksByForm
<1> QED
  BY <1>2, <1>3, <1>4, <1>5, <1>6 DEF Next

\* The statements of start-up and of the pages change nothing but for the
\* first administrator, whom a method of the adapter creates.
LEMMA ServerStatements ==
  ASSUME ServerNext
  PROVE  Next \/ UNCHANGED db
<1>1. \A result : Read(result) => UNCHANGED db
  BY DEF Read
<1>2. CASE Boot
  <2>1. [name |-> AdminName, hash |-> AdminHash, role |-> "ADMIN"] \in UserArgs
    BY ServerAssumption DEF UserArgs
  <2>2. CASE EnsureAdmin
    BY <1>1, <2>1, <2>2 DEF EnsureAdmin, Run, Next, AnyUsers
  <2> QED
    BY <1>2, <2>2
    DEF Boot, ReadDotEnv, LoadConfig, OpenDatabase, Migrate, NewAuthService,
        DiscoverProvider
<1>3. CASE Serve
  BY <1>1, <1>3
  DEF Serve, ReadSession, Dashboard, ReadForm, ReadRows, Account, Users,
      Authenticate, List, Count, Run, GetUserByID, ListAllForms,
      CountAllForms, ListAllFiles, CountAllFiles, GetAnyFormByID,
      ListAllSubmissionsByForm, ListSubmissionsByForm, CountUserIdentities,
      ListUsers, GetTenantByAPIKey, ListFormsByTenant, CountFormsByTenant
<1>4. CASE Stop \/ OpenPage \/ BeginWalk \/ RequestList
  BY <1>4 DEF Stop, OpenPage, Open, BeginWalk, RequestList
<1> QED
  BY <1>2, <1>3, <1>4 DEF ServerNext, Statement

\* Every step of the server keeps the database in its type.
LEMMA DatabaseTypedStep ==
  ASSUME DatabaseTyped, [ServerNext]_allVars
  PROVE  DatabaseTyped'
<1>1. CASE UNCHANGED db
  BY <1>1 DEF DatabaseTyped
<1> QED
  BY <1>1, NextRefines, ServerStatements DEF allVars

\* So it always is.
LEMMA DatabaseHolds == ServerSpec => []DatabaseTyped
<1>1. ServerInit => DatabaseTyped
  BY DatabasesAssumption DEF ServerInit, DatabaseTyped, Empty, Database
<1> QED
  BY <1>1, DatabaseTypedStep, PTL DEF ServerSpec

\* And it always keeps the constraints of the schema.
LEMMA ConstraintsStay == ServerSpec => []Consistent(db)
<1>1. ServerInit => Consistent(db)
  BY DatabasesKeepConstraints, EmptyKept DEF ServerInit
<1>2. ASSUME DatabaseTyped, DatabaseTyped', Consistent(db),
             [ServerNext]_allVars
      PROVE  Consistent(db)'
  <2>1. CASE UNCHANGED db
    BY <1>2, <2>1
  <2>2. CASE Next
    BY <1>2, <2>2, ConstraintsStep DEF DatabaseTyped
  <2> QED
    BY <1>2, <2>1, <2>2, ServerStatements DEF allVars
<1> QED
  BY <1>1, <1>2, DatabaseHolds, PTL DEF ServerSpec

-----------------------------------------------------------------------------
(* What a page shows of a form's submissions.                              *)

\* An answered list of submissions is of the form asked for, which its tenant
\* has at that moment.
LEMMA RowsOfTheForm ==
  ASSUME DatabaseTyped, NEW of, NEW p,
         \/ ListAllSubmissionsByForm(of)
         \/ ListSubmissionsByForm(of, p)
  PROVE  \A r \in answer'.rows :
           \E f \in db.forms : f.id = r.form /\ f.tenant = of.tenant
<1> DEFINE S == Q!SubmissionsOfTenant(db, of)
           R(T) == {Q!WithMetadata(db, s) : s \in T}
<1>1. S \subseteq SubmissionRow
  BY Tabled DEF Q!SubmissionsOfTenant, DatabaseTyped
<1>2. \A T \in SUBSET S :
        /\ Faithful(R(T), {ToListAllSubmissionsByFormRow(s) : s \in R(T)})
        /\ Faithful(R(T), {ToListSubmissionsByFormRow(s) : s \in R(T)})
  BY <1>1, FaithfulSubmissions DEF DatabaseTyped
<1>3. Q!NewestPage(S, p) \subseteq S
  BY DEF Q!NewestPage
<1>4. \E T \in SUBSET S : answer'.rows \subseteq R(T)
  <2>1. \A U, V : Faithful(U, V) /\ answer' = Converted(V)
                   => answer'.rows \subseteq U
    <3> SUFFICES ASSUME NEW U, NEW V, Faithful(U, V), answer' = Converted(V)
                 PROVE  answer'.rows \subseteq U
      OBVIOUS
    <3>1. Converted(V) = Failed("internal") \/ Converted(V) = Found(U)
      BY Results
    <3> QED
      BY <3>1 DEF Failed, Found
  <2>2. CASE ListAllSubmissionsByForm(of)
    BY <1>2, <2>1, <2>2
    DEF ListAllSubmissionsByForm, Read, Q!ListAllSubmissionsByForm
  <2>3. CASE ListSubmissionsByForm(of, p)
    BY <1>2, <1>3, <2>1, <2>3
    DEF ListSubmissionsByForm, Read, Q!ListSubmissionsByForm
  <2> QED
    BY <2>2, <2>3
<1>5. \A s \in S :
        /\ Q!WithMetadata(db, s).form = s.form
        /\ \E f \in db.forms : f.id = s.form /\ f.tenant = of.tenant
  BY DEF Q!WithMetadata, Q!SubmissionsOfTenant
<1> QED
  BY <1>4, <1>5

\* Which steps send rows.
LEMMA Replying ==
  ASSUME [ServerNext]_allVars
  PROVE  ReadRows \/ UNCHANGED reply \/ reply'.rows = {} \/ reply'.page = "list"
<1> DEFINE Bare == UNCHANGED reply \/ reply'.rows = {}
<1>1. /\ \A code : Answer(code) => Bare
      /\ \A next : Then(next) => Bare
      /\ \A step : ThenStep(step) => Bare
      /\ \A next : Go(next) => Bare
      /\ Quit => Bare
      /\ reply' = NoReply => Bare
      /\ \A follows : IfFound(follows) /\ (follows => Bare) => Bare
  BY DEF Answer, Send, Then, ThenStep, Go, Quit, serving, NoReply, IfFound
<1>2. \A users : Guard(users) => Bare
  BY <1>1 DEF Guard
<1>3. CASE Boot
  BY <1>1, <1>3
  DEF Boot, ReadDotEnv, LoadConfig, OpenDatabase, Migrate, NewAuthService,
      EnsureAdmin, DiscoverProvider
<1>4. CASE Stop \/ OpenPage \/ BeginWalk \/ RequestList \/ Statement
  BY <1>1, <1>4 DEF Stop, OpenPage, Open, BeginWalk, RequestList, Statement
<1>5. CASE ReadSession
  BY <1>2, <1>5 DEF ReadSession
<1>6. CASE Dashboard \/ Account \/ Users
  BY <1>1, <1>6 DEF Dashboard, Account, Users, IfFound
<1>7. CASE ReadForm
  BY <1>1, <1>7 DEF ReadForm, IfFound
<1>8. CASE Authenticate \/ List
  BY <1>1, <1>8 DEF Authenticate, List, IfFound
<1>9. CASE Count
  BY <1>1, <1>9 DEF Count
<1> QED
  BY <1>3, <1>4, <1>5, <1>6, <1>7, <1>8, <1>9
  DEF ServerNext, Serve, allVars, serving

\* Submissions shown or exported for a tenant are those of a form it has when
\* they are read, also when the form read before is gone and its id in use
\* again.
THEOREM ExportsStayWithTheirTenant == ServerSpec => ExportStaysWithTenant
<1> DEFINE Scoped == \A r \in reply'.rows :
             reply'.page \in {"form", "export"} =>
               [id |-> r.form, tenant |-> reply'.tenant]
                 \in {[id |-> f.id, tenant |-> f.tenant] : f \in db'.forms}
<1>1. ASSUME DatabaseTyped, [ServerNext]_allVars
      PROVE  [Scoped]_reply
  <2>1. CASE UNCHANGED reply
    BY <2>1
  <2>2. CASE reply'.rows = {} \/ reply'.page = "list"
    BY <2>2
  <2>3. CASE ReadRows
    <3>1. CASE reply'.rows = {}
      BY <2>2, <3>1
    <3>2. CASE reply'.rows # {}
      <4> DEFINE of == [form |-> req.form, tenant |-> req.tenant]
                 p == [offset |-> 0, limit |-> ListLimit]
      <4>1. /\ answer'.error = "none"
            /\ reply'.rows = answer'.rows
            /\ reply'.tenant = req.tenant
        BY <2>3, <3>2 DEF ReadRows, IfFound, Answer, Send
      <4>2. \/ ListAllSubmissionsByForm(of)
            \/ ListSubmissionsByForm(of, p)
        BY <2>3, <4>1 DEF ReadRows, Run, Read, Failed
      <4>3. db' = db
        BY <4>2 DEF ListAllSubmissionsByForm, ListSubmissionsByForm, Read
      <4>4. \A r \in answer'.rows :
              \E f \in db.forms : f.id = r.form /\ f.tenant = of.tenant
        BY <1>1, <4>2, RowsOfTheForm
      <4> QED
        BY <4>1, <4>3, <4>4
    <3> QED
      BY <3>1, <3>2
  <2> QED
    BY <1>1, <2>1, <2>2, <2>3, Replying
<1> QED
  BY <1>1, DatabaseHolds, PTL DEF ServerSpec, ExportStaysWithTenant

-----------------------------------------------------------------------------
(* Accounts.                                                               *)

\* A method changes accounts and identities in one of four ways.
AccountStep ==
  \/ UNCHANGED <<db.users, db.identities>>
  \/ /\ db'.identities = db.identities
     /\ \E u : db'.users = db.users \cup {u} /\ u.hash \in Hashes
  \/ \E u, l : /\ db'.users = db.users \cup {u}
              /\ db'.identities = db.identities \cup {l} /\ l.user = u.id
  \/ /\ \A v \in db'.users :
          \E u \in db.users : v.id = u.id /\ v.hash = u.hash
     /\ \A l \in db.identities : \E m \in db'.identities : m.user = l.user

\* Which methods change other tables only.
LEMMA OtherTables ==
  ASSUME DatabaseTyped, AnyTenants \/ AnyFiles \/ AnyForms \/ AnySubmissions
  PROVE  UNCHANGED <<db.users, db.identities>>
<1> USE DEF DatabaseTyped, Database
<1>1. /\ \A result : Read(result) => UNCHANGED db
      /\ \A v : Reject(v) => UNCHANGED db
  BY DEF Read, Reject
<1>2. CASE AnyTenants
  BY <1>1, <1>2
  DEF AnyTenants, CreateTenant, GetTenantByAPIKey, Write, Q!CreateTenant
<1>3. CASE AnyFiles
  BY <1>1, <1>3
  DEF AnyFiles, CreateFile, GetFileByID, ListAllFiles, CountAllFiles,
      DeleteFile, Write, Q!CreateFile, Q!DeleteFile
<1>4. CASE AnyForms
  BY <1>1, <1>4
  DEF AnyForms, CreateForm, GetFormByID, DeleteForm, GetAnyFormByID,
      GetPublicFormBySlug, CountFormsByTenant, ListFormsByTenant,
      ListAllForms, CountAllForms, UpdateForm, Write, Q!CreateForm,
      Q!UpdateForm, Q!DeleteForm
<1>5. CASE AnySubmissions
  BY <1>1, <1>5
  DEF AnySubmissions, CreateFormSubmission, CreateSubmissionMetadata,
      ListAllSubmissionsByForm, ListSubmissionsByForm, CreateFormWebhook,
      ListActiveWebhooksByForm, Write, Q!CreateFormSubmission,
      Q!CreateSubmissionMetadata, Q!CreateFormWebhook
<1> QED
  BY <1>2, <1>3, <1>4, <1>5

LEMMA AccountSteps ==
  ASSUME DatabaseTyped, Next
  PROVE  AccountStep
<1> USE DEF DatabaseTyped
<1>1. /\ \A result : Read(result) => UNCHANGED db
      /\ \A v : Reject(v) => UNCHANGED db
  BY DEF Read, Reject
<1>2. ASSUME NEW i, NEW arg \in UserArgs, db' = Q!CreateUser(db, i, arg)
      PROVE  AccountStep
  <2> DEFINE u == [id |-> i, name |-> arg.name, hash |-> arg.hash,
                   role |-> arg.role, active |-> TRUE]
  <2>1. /\ db'.users = db.users \cup {u}
        /\ db'.identities = db.identities
    BY <1>2 DEF Q!CreateUser, Database
  <2>2. u.hash \in Hashes
    BY DEF UserArgs
  <2> QED
    BY <2>1, <2>2 DEF AccountStep
<1>3. ASSUME NEW arg \in UserArgs,
             CreateUser(arg) \/ CreateUserIfNotExists(arg)
      PROVE  AccountStep
  BY <1>1, <1>2, <1>3
  DEF CreateUser, CreateUserIfNotExists, Write, Q!CreateUserIfNotExists,
      AccountStep
<1>4. ASSUME NEW arg \in LinkArgs, CreateUserWithIdentity(arg)
      PROVE  AccountStep
  <2>1. CASE UNCHANGED db
    BY <2>1 DEF AccountStep
  <2>2. ASSUME NEW i, db' = Q!CreateUserIdentity(
                        Q!CreateUserWithoutPassword(db, i, arg), i, arg)
        PROVE  AccountStep
    <3> DEFINE u == [id |-> i, name |-> arg.name, hash |-> Null,
                     role |-> arg.role, active |-> TRUE]
               l == [user |-> i, identity |-> arg.identity,
                     email |-> arg.email]
    <3>1. /\ db'.users = db.users \cup {u}
          /\ db'.identities = db.identities \cup {l}
      BY <2>2
      DEF Q!CreateUserIdentity, Q!CreateUserWithoutPassword, Database
    <3>2. l.user = u.id
      OBVIOUS
    <3> HIDE DEF u, l
    <3> QED
      BY <3>1, <3>2 DEF AccountStep
  <2> QED
    BY <1>1, <1>4, <2>1, <2>2 DEF CreateUserWithIdentity, Write
<1>5. ASSUME NEW arg \in RoleArgs, UpdateUserRole(arg)
      PROVE  AccountStep
  <2>1. /\ db'.identities = db.identities
        /\ \A v \in db'.users : \E u \in db.users :
             v = IF u.id = arg.id THEN [u EXCEPT !.role = arg.role] ELSE u
    BY <1>5 DEF UpdateUserRole, Write, Q!UpdateUserRole, Database
  <2>2. \A u \in db.users :
          LET v == [u EXCEPT !.role = arg.role]
          IN  v.id = u.id /\ v.hash = u.hash
    BY DEF Database, UserRow
  <2> QED
    BY <2>1, <2>2 DEF AccountStep
<1>6. ASSUME NEW arg \in TouchArgs, TouchUserIdentity(arg)
      PROVE  AccountStep
  <2>1. /\ db'.users = db.users
        /\ db'.identities =
             {IF l.identity = arg.identity THEN [l EXCEPT !.email = arg.email]
              ELSE l : l \in db.identities}
    BY <1>6 DEF TouchUserIdentity, Write, Q!TouchUserIdentity, Database
  <2>2. \A l \in db.identities : [l EXCEPT !.email = arg.email].user = l.user
    BY DEF Database, IdentityRow
  <2> QED
    BY <2>1, <2>2 DEF AccountStep
<1>7. CASE AnyUsers
  <2>1. CASE UNCHANGED db
    BY <2>1 DEF AccountStep
  <2> QED
    BY <1>1, <1>3, <1>4, <1>5, <1>6, <1>7, <2>1
    DEF AnyUsers, GetUserByID, CountUserIdentities, GetUserByUsername,
        GetUserByIdentity, ListUsers
<1> QED
  BY <1>7, OtherTables DEF Next, AccountStep

\* A database whose accounts all have a way in keeps it so: no method, and no
\* rollback of one, leaves an account without password and identity.
THEOREM AccountsStayOpen ==
  ASSUME \A d \in Databases : \A u \in d.users :
           u.hash # Null \/ \E l \in d.identities : l.user = u.id
  PROVE  ServerSpec => []AccountsCanBeOpened
<1>1. ServerInit => AccountsCanBeOpened
  BY DEF ServerInit, AccountsCanBeOpened, Empty
<1>2. ASSUME DatabaseTyped, AccountsCanBeOpened, [ServerNext]_allVars
      PROVE  AccountsCanBeOpened'
  <2>1. CASE UNCHANGED db
    BY <1>2, <2>1 DEF AccountsCanBeOpened
  <2>2. CASE AccountStep
    BY <1>2, <2>2, TablesAssumption DEF AccountStep, AccountsCanBeOpened
  <2> QED
    BY <1>2, <2>1, <2>2, ServerStatements, AccountSteps DEF allVars
<1> QED
  BY <1>1, <1>2, DatabaseHolds, PTL DEF ServerSpec

-----------------------------------------------------------------------------
(* Internal errors.  Results says that a method fails on a row only when   *)
(* the row holds a wide id; here the row is traced to its table.           *)

HasWide(d) == \E t \in DOMAIN d : \E r \in d[t] : Wide(r)

Justified == answer'.error = "internal" => HasWide(db')

\* Rows that a query computes are wide only if a row it reads is.
LEMMA WideSources ==
  ASSUME NEW d \in Database
  PROVE  /\ \A r \in d.tenants : Wide(r) => HasWide(d)
         /\ \A r \in d.users : Wide(r) => HasWide(d)
         /\ \A r \in d.files : Wide(r) => HasWide(d)
         /\ \A r \in d.forms : Wide(r) => HasWide(d)
         /\ \A r \in d.submissions : Wide(r) => HasWide(d)
         /\ \A r \in d.metadata : Wide(r) => HasWide(d)
         /\ \A r \in d.webhooks : Wide(r) => HasWide(d)
         /\ \A f \in d.files : Wide(Q!FileMetadata(f)) => HasWide(d)
         /\ \A e : \A f \in d.forms : Wide(Q!Overview(e, f)) => HasWide(d)
         /\ \A s \in d.submissions : Wide(Q!WithMetadata(d, s)) => HasWide(d)
<1>1. DOMAIN d = {"tenants", "users", "identities", "forms", "submissions",
                  "metadata", "webhooks", "files"}
  BY DEF Database
<1>2. \A t \in DOMAIN d : \A r : r \in d[t] /\ Wide(r) => HasWide(d)
  BY DEF HasWide
<1>3. ASSUME NEW f \in d.files, Wide(Q!FileMetadata(f))
      PROVE  Wide(f)
  BY <1>3 DEF Wide, Q!FileMetadata, IdColumns, Database, FileRow
<1>4. ASSUME NEW e, NEW f \in d.forms, Wide(Q!Overview(e, f))
      PROVE  Wide(f)
  BY <1>4 DEF Wide, Q!Overview, IdColumns, Database, FormRow
<1>5. ASSUME NEW s \in d.submissions, Wide(Q!WithMetadata(d, s))
      PROVE  Wide(s) \/ \E m \in d.metadata : Wide(m)
  <2> DEFINE of == {m \in d.metadata : m.submission = s.id}
             row == Q!WithMetadata(d, s)
  <2>1. /\ row.id = s.id /\ row.form = s.form /\ row.user = s.user
        /\ row.seconds = IF of = {} THEN Null
                         ELSE (CHOOSE m \in of : TRUE).seconds
        /\ DOMAIN row = {"id", "form", "user", "at", "seconds"}
    BY DEF Q!WithMetadata
  <2>2. PICK c \in {"id", "form", "user", "seconds"} :
          row[c] \in Nat /\ row[c] > IdMax
    BY <1>5, <2>1 DEF Wide, IdColumns
  <2>3. CASE c = "seconds"
    <3>1. of # {}
      BY <2>1, <2>2, <2>3, TablesAssumption
    <3>2. PICK m \in d.metadata : m.seconds \in Nat /\ m.seconds > IdMax
      BY <2>1, <2>2, <2>3, <3>1
    <3> QED
      BY <3>2 DEF Wide, IdColumns, Database, MetadataRow
  <2>4. CASE c # "seconds"
    BY <2>1, <2>2, <2>4 DEF Wide, IdColumns, Database, SubmissionRow
  <2> QED
    BY <2>3, <2>4
<1> QED
  BY <1>1, <1>2, <1>3, <1>4, <1>5

\* An answer made of the converted rows S is no unjustified error.
Errs(S) == answer' \in {Converted(S), Single(S)} => Justified

\* A method that fails on faithful rows has met a wide one.
LEMMA Traced ==
  ASSUME NEW R, NEW S, Faithful(R, S), \A r \in R : Wide(r) => HasWide(db')
  PROVE  Errs(S)
<1>1. One(R).error # "internal" /\ Found(R).error # "internal"
  BY DEF One, Found, Failed
<1> QED
  BY <1>1, Results DEF Errs, Justified

\* Each conversion of rows of the database.
LEMMA RowErrors ==
  ASSUME DatabaseTyped'
  PROVE  /\ \A R \in SUBSET db'.tenants : Errs({ToTenant(t) : t \in R})
         /\ \A R \in SUBSET db'.users : Errs({ToUser(u) : u \in R})
         /\ \A R \in SUBSET db'.files : Errs({ToFile(f) : f \in R})
         /\ \A R \in SUBSET db'.forms : Errs({ToForm(f) : f \in R})
         /\ \A R \in SUBSET db'.forms : Errs({ToGetFormByIDRow(f) : f \in R})
         /\ \A R \in SUBSET db'.submissions :
              Errs({ToFormSubmission(s) : s \in R})
         /\ \A R \in SUBSET db'.metadata :
              Errs({ToSubmissionMetadatum(m) : m \in R})
         /\ \A R \in SUBSET db'.webhooks : Errs({ToFormWebhook(w) : w \in R})
<1>1. db' \in Database
  BY DEF DatabaseTyped
<1>2. ASSUME NEW R \in SUBSET db'.tenants
      PROVE  Errs({ToTenant(t) : t \in R})
  <2>1. R \subseteq TenantRow
    BY <1>1, Tabled
  <2>2. Faithful(R, {ToTenant(t) : t \in R})
    BY <1>1, <2>1, FaithfulAccounts
  <2>3. \A r \in R : Wide(r) => HasWide(db')
    BY <1>1, WideSources
  <2> QED
    BY <2>2, <2>3, Traced
<1>3. ASSUME NEW R \in SUBSET db'.users
      PROVE  Errs({ToUser(u) : u \in R})
  <2>1. R \subseteq UserRow
    BY <1>1, Tabled
  <2>2. Faithful(R, {ToUser(u) : u \in R})
    BY <1>1, <2>1, FaithfulAccounts
  <2>3. \A r \in R : Wide(r) => HasWide(db')
    BY <1>1, WideSources
  <2> QED
    BY <2>2, <2>3, Traced
<1>4. ASSUME NEW R \in SUBSET db'.files
      PROVE  Errs({ToFile(f) : f \in R})
  <2>1. R \subseteq FileRow
    BY <1>1, Tabled
  <2>2. Faithful(R, {ToFile(f) : f \in R})
    BY <1>1, <2>1, FaithfulFiles
  <2>3. \A r \in R : Wide(r) => HasWide(db')
    BY <1>1, WideSources
  <2> QED
    BY <2>2, <2>3, Traced
<1>5. ASSUME NEW R \in SUBSET db'.forms
      PROVE  /\ Errs({ToForm(f) : f \in R})
             /\ Errs({ToGetFormByIDRow(f) : f \in R})
  <2>1. R \subseteq FormRow
    BY <1>1, Tabled
  <2>2. /\ Faithful(R, {ToForm(f) : f \in R})
        /\ Faithful(R, {ToGetFormByIDRow(f) : f \in R})
    BY <1>1, <2>1, FaithfulForms
  <2>3. \A r \in R : Wide(r) => HasWide(db')
    BY <1>1, WideSources
  <2> QED
    BY <2>2, <2>3, Traced
<1>6. ASSUME NEW R \in SUBSET db'.submissions
      PROVE  Errs({ToFormSubmission(s) : s \in R})
  <2>1. R \subseteq SubmissionRow
    BY <1>1, Tabled
  <2>2. Faithful(R, {ToFormSubmission(s) : s \in R})
    BY <1>1, <2>1, FaithfulSubmissions
  <2>3. \A r \in R : Wide(r) => HasWide(db')
    BY <1>1, WideSources
  <2> QED
    BY <2>2, <2>3, Traced
<1>7. ASSUME NEW R \in SUBSET db'.metadata
      PROVE  Errs({ToSubmissionMetadatum(m) : m \in R})
  <2>1. R \subseteq MetadataRow
    BY <1>1, Tabled
  <2>2. Faithful(R, {ToSubmissionMetadatum(m) : m \in R})
    BY <1>1, <2>1, FaithfulDeliveries
  <2>3. \A r \in R : Wide(r) => HasWide(db')
    BY <1>1, WideSources
  <2> QED
    BY <2>2, <2>3, Traced
<1>8. ASSUME NEW R \in SUBSET db'.webhooks
      PROVE  Errs({ToFormWebhook(w) : w \in R})
  <2>1. R \subseteq WebhookRow
    BY <1>1, Tabled
  <2>2. Faithful(R, {ToFormWebhook(w) : w \in R})
    BY <1>1, <2>1, FaithfulDeliveries
  <2>3. \A r \in R : Wide(r) => HasWide(db')
    BY <1>1, WideSources
  <2> QED
    BY <2>2, <2>3, Traced
<1> QED
  BY <1>2, <1>3, <1>4, <1>5, <1>6, <1>7, <1>8

\* Each conversion of rows that a query computes from F.
LEMMA ComputedErrors ==
  ASSUME DatabaseTyped'
  PROVE  /\ \A F \in SUBSET db'.files :
              LET R == {Q!FileMetadata(f) : f \in F}
              IN  /\ Errs({ToCreateFileRow(Q!FileMetadata(f)) : f \in F})
                  /\ Errs({ToListAllFilesRow(f) : f \in R})
         /\ \A d : \A F \in SUBSET db'.forms :
              LET R == {Q!Overview(d, f) : f \in F}
              IN  /\ Errs({ToGetAnyFormByIDRow(f) : f \in R})
                  /\ Errs({ToListAllFormsRow(f) : f \in R})
                  /\ Errs({ToListFormsByTenantRow(f) : f \in R})
         /\ \A F \in SUBSET db'.submissions :
              LET R == {Q!WithMetadata(db', s) : s \in F}
              IN  /\ Errs({ToListAllSubmissionsByFormRow(s) : s \in R})
                  /\ Errs({ToListSubmissionsByFormRow(s) : s \in R})
<1>1. db' \in Database
  BY DEF DatabaseTyped
<1>2. ASSUME NEW F \in SUBSET db'.files
      PROVE  LET R == {Q!FileMetadata(f) : f \in F}
             IN  /\ Errs({ToCreateFileRow(Q!FileMetadata(f)) : f \in F})
                 /\ Errs({ToListAllFilesRow(f) : f \in R})
  <2> DEFINE R == {Q!FileMetadata(f) : f \in F}
  <2>1. F \subseteq FileRow
    BY <1>1, Tabled
  <2>2. /\ Faithful(R, {ToCreateFileRow(Q!FileMetadata(f)) : f \in F})
        /\ Faithful(R, {ToListAllFilesRow(f) : f \in R})
    BY <2>1, FaithfulFiles
  <2>3. \A r \in R : Wide(r) => HasWide(db')
    BY <1>1, WideSources
  <2> HIDE DEF R
  <2>4. /\ Errs({ToCreateFileRow(Q!FileMetadata(f)) : f \in F})
        /\ Errs({ToListAllFilesRow(f) : f \in R})
    BY <2>2, <2>3, Traced
  <2> QED
    BY <2>4 DEF R
<1>3. ASSUME NEW d, NEW F \in SUBSET db'.forms
      PROVE  LET R == {Q!Overview(d, f) : f \in F}
             IN  /\ Errs({ToGetAnyFormByIDRow(f) : f \in R})
                 /\ Errs({ToListAllFormsRow(f) : f \in R})
                 /\ Errs({ToListFormsByTenantRow(f) : f \in R})
  <2> DEFINE R == {Q!Overview(d, f) : f \in F}
  <2>1. F \subseteq FormRow
    BY <1>1, Tabled
  <2>2. /\ Faithful(R, {ToGetAnyFormByIDRow(f) : f \in R})
        /\ Faithful(R, {ToListAllFormsRow(f) : f \in R})
        /\ Faithful(R, {ToListFormsByTenantRow(f) : f \in R})
    BY <2>1, FaithfulOverviews
  <2>3. \A r \in R : Wide(r) => HasWide(db')
    BY <1>1, WideSources
  <2> HIDE DEF R
  <2>4. /\ Errs({ToGetAnyFormByIDRow(f) : f \in R})
        /\ Errs({ToListAllFormsRow(f) : f \in R})
        /\ Errs({ToListFormsByTenantRow(f) : f \in R})
    BY <2>2, <2>3, Traced
  <2> QED
    BY <2>4 DEF R
<1>4. ASSUME NEW F \in SUBSET db'.submissions
      PROVE  LET R == {Q!WithMetadata(db', s) : s \in F}
             IN  /\ Errs({ToListAllSubmissionsByFormRow(s) : s \in R})
                 /\ Errs({ToListSubmissionsByFormRow(s) : s \in R})
  <2> DEFINE R == {Q!WithMetadata(db', s) : s \in F}
  <2>1. F \subseteq SubmissionRow
    BY <1>1, Tabled
  <2>2. /\ Faithful(R, {ToListAllSubmissionsByFormRow(s) : s \in R})
        /\ Faithful(R, {ToListSubmissionsByFormRow(s) : s \in R})
    BY <1>1, <2>1, FaithfulSubmissions
  <2>3. \A r \in R : Wide(r) => HasWide(db')
    BY <1>1, WideSources
  <2> HIDE DEF R
  <2>4. /\ Errs({ToListAllSubmissionsByFormRow(s) : s \in R})
        /\ Errs({ToListSubmissionsByFormRow(s) : s \in R})
    BY <2>2, <2>3, Traced
  <2> QED
    BY <2>4 DEF R
<1> QED
  BY <1>2, <1>3, <1>4

\* Reads of tenants and accounts, whatever is asked for.
LEMMA AccountReadErrors ==
  ASSUME DatabaseTyped'
  PROVE  /\ \A key : GetTenantByAPIKey(key) => Justified
         /\ \A i : GetUserByID(i) => Justified
         /\ \A name : GetUserByUsername(name) => Justified
         /\ \A identity : GetUserByIdentity(identity) => Justified
         /\ \A p : ListUsers(p) => Justified
         /\ \A i : CountUserIdentities(i) => Justified
<1>1. ASSUME NEW key, GetTenantByAPIKey(key)
      PROVE  Justified
  <2> DEFINE R == Q!GetTenantByAPIKey(db, key)
  <2>1. db' = db /\ R \in SUBSET db.tenants
    BY <1>1 DEF GetTenantByAPIKey, Read, Q!GetTenantByAPIKey
  <2>2. answer' = Single({ToTenant(t) : t \in R})
    BY <1>1 DEF GetTenantByAPIKey, Read
  <2> HIDE DEF R
  <2>3. Errs({ToTenant(t) : t \in R})
    BY <2>1, RowErrors
  <2> QED
    BY <2>2, <2>3 DEF Errs
<1>2. ASSUME NEW R \in SUBSET db.users,
             \/ Read(Single({ToUser(u) : u \in R}))
             \/ Read(Converted({ToUser(u) : u \in R}))
      PROVE  Justified
  <2>1. Errs({ToUser(u) : u \in R})
    BY <1>2, RowErrors DEF Read
  <2> QED
    BY <1>2, <2>1 DEF Read, Errs
<1>3. \A i : GetUserByID(i) => Justified
  <2> SUFFICES ASSUME NEW i, GetUserByID(i) PROVE Justified
    OBVIOUS
  <2> DEFINE R == Q!GetUserByID(db, i)
  <2>1. R \in SUBSET db.users
    BY DEF Q!GetUserByID
  <2>2. Read(Single({ToUser(u) : u \in R}))
    BY DEF GetUserByID
  <2> HIDE DEF R
  <2> QED
    BY <1>2, <2>1, <2>2
<1>4. \A name : GetUserByUsername(name) => Justified
  <2> SUFFICES ASSUME NEW name, GetUserByUsername(name) PROVE Justified
    OBVIOUS
  <2> DEFINE R == Q!GetUserByUsername(db, name)
  <2>1. R \in SUBSET db.users
    BY DEF Q!GetUserByUsername
  <2>2. Read(Single({ToUser(u) : u \in R}))
    BY DEF GetUserByUsername
  <2> HIDE DEF R
  <2> QED
    BY <1>2, <2>1, <2>2
<1>5. \A identity : GetUserByIdentity(identity) => Justified
  <2> SUFFICES ASSUME NEW identity, GetUserByIdentity(identity)
               PROVE  Justified
    OBVIOUS
  <2> DEFINE R == Q!GetUserByIdentity(db, identity)
  <2>1. R \in SUBSET db.users
    BY DEF Q!GetUserByIdentity
  <2>2. Read(Single({ToUser(u) : u \in R}))
    BY DEF GetUserByIdentity
  <2> HIDE DEF R
  <2> QED
    BY <1>2, <2>1, <2>2
<1>6. \A p : ListUsers(p) => Justified
  <2> SUFFICES ASSUME NEW p, ListUsers(p) PROVE Justified
    OBVIOUS
  <2> DEFINE R == Q!ListUsers(db, p)
  <2>1. R \in SUBSET db.users
    BY DEF Q!ListUsers, Q!PageById
  <2>2. Read(Converted({ToUser(u) : u \in R}))
    BY DEF ListUsers
  <2> HIDE DEF R
  <2> QED
    BY <1>2, <2>1, <2>2
<1>7. \A i : CountUserIdentities(i) => Justified
  BY DEF CountUserIdentities, Read, Counted, Justified
<1> QED
  BY <1>1, <1>3, <1>4, <1>5, <1>6, <1>7

\* Reads of files.
LEMMA FileReadErrors ==
  ASSUME DatabaseTyped'
  PROVE  /\ \A uuid : GetFileByID(uuid) => Justified
         /\ \A p : ListAllFiles(p) => Justified
         /\ CountAllFiles => Justified
<1>1. \A uuid : GetFileByID(uuid) => Justified
  <2> SUFFICES ASSUME NEW uuid, GetFileByID(uuid)
               PROVE  Justified
    OBVIOUS
  <2> DEFINE F == Q!GetFileByID(db, uuid)
  <2>1. db' = db /\ F \in SUBSET db.files
    BY DEF GetFileByID, Read, Q!GetFileByID
  <2>2. answer' = Single({ToFile(f) : f \in F})
    BY DEF GetFileByID, Read
  <2> HIDE DEF F
  <2>3. Errs({ToFile(f) : f \in F})
    BY <2>1, RowErrors
  <2> QED
    BY <2>2, <2>3 DEF Errs
<1>2. \A p : ListAllFiles(p) => Justified
  <2> SUFFICES ASSUME NEW p, ListAllFiles(p)
               PROVE  Justified
    OBVIOUS
  <2> DEFINE F == Q!NewestFilesPage(
                     {f \in db.files : Q!HasId(db.tenants, f.tenant)}, p)
             R == {Q!FileMetadata(f) : f \in F}
  <2>1. db' = db /\ F \in SUBSET db.files
    BY DEF ListAllFiles, Read, Q!NewestFilesPage
  <2>2. answer' = Converted({ToListAllFilesRow(f) : f \in R})
    BY DEF ListAllFiles, Read, Q!ListAllFiles
  <2> HIDE DEF F
  <2>3. Errs({ToListAllFilesRow(f) : f \in R})
    BY <2>1, ComputedErrors
  <2> QED
    BY <2>2, <2>3 DEF Errs
<1>3. CountAllFiles => Justified
  BY DEF CountAllFiles, Read, Counted, Justified
<1> QED
  BY <1>1, <1>2, <1>3

\* Reads of forms.
LEMMA FormReadErrors ==
  ASSUME DatabaseTyped'
  PROVE  /\ \A i : GetAnyFormByID(i) => Justified
         /\ \A arg : GetFormByID(arg) => Justified
         /\ \A slug : GetPublicFormBySlug(slug) => Justified
         /\ \A p : ListAllForms(p) => Justified
         /\ \A filter, p : ListFormsByTenant(filter, p) => Justified
         /\ CountAllForms => Justified
         /\ \A filter : CountFormsByTenant(filter) => Justified
<1>1. \A i : GetAnyFormByID(i) => Justified
  <2> SUFFICES ASSUME NEW i, GetAnyFormByID(i)
               PROVE  Justified
    OBVIOUS
  <2> DEFINE F == {f \in db.forms : f.id = i /\ Q!HasId(db.tenants, f.tenant)}
             R == {Q!Overview(db, f) : f \in F}
  <2>1. db' = db /\ F \in SUBSET db.forms
    BY DEF GetAnyFormByID, Read, Q!HasId
  <2>2. answer' = Single({ToGetAnyFormByIDRow(f) : f \in R})
    BY DEF GetAnyFormByID, Read, Q!GetAnyFormByID
  <2> HIDE DEF F
  <2>3. Errs({ToGetAnyFormByIDRow(f) : f \in R})
    BY <2>1, ComputedErrors
  <2> QED
    BY <2>2, <2>3 DEF Errs
<1>2. \A arg : GetFormByID(arg) => Justified
  <2> SUFFICES ASSUME NEW arg, GetFormByID(arg)
               PROVE  Justified
    OBVIOUS
  <2> DEFINE F == Q!GetFormByID(db, arg)
  <2>1. db' = db /\ F \in SUBSET db.forms
    BY DEF GetFormByID, Read, Q!GetFormByID
  <2>2. answer' = Single({ToGetFormByIDRow(f) : f \in F})
    BY DEF GetFormByID, Read
  <2> HIDE DEF F
  <2>3. Errs({ToGetFormByIDRow(f) : f \in F})
    BY <2>1, RowErrors
  <2> QED
    BY <2>2, <2>3 DEF Errs
<1>3. \A slug : GetPublicFormBySlug(slug) => Justified
  <2> SUFFICES ASSUME NEW slug, GetPublicFormBySlug(slug)
               PROVE  Justified
    OBVIOUS
  <2> DEFINE F == Q!GetPublicFormBySlug(db, slug)
  <2>1. db' = db /\ F \in SUBSET db.forms
    BY DEF GetPublicFormBySlug, Read, Q!GetPublicFormBySlug
  <2>2. answer' = Single({ToForm(f) : f \in F})
    BY DEF GetPublicFormBySlug, Read
  <2> HIDE DEF F
  <2>3. Errs({ToForm(f) : f \in F})
    BY <2>1, RowErrors
  <2> QED
    BY <2>2, <2>3 DEF Errs
<1>4. \A p : ListAllForms(p) => Justified
  <2> SUFFICES ASSUME NEW p, ListAllForms(p)
               PROVE  Justified
    OBVIOUS
  <2> DEFINE F == Q!NewestPage(
                     {f \in db.forms : Q!HasId(db.tenants, f.tenant)}, p)
             R == {Q!Overview(db, f) : f \in F}
  <2>1. db' = db /\ F \in SUBSET db.forms
    BY DEF ListAllForms, Read, Q!NewestPage
  <2>2. answer' = Converted({ToListAllFormsRow(f) : f \in R})
    BY DEF ListAllForms, Read, Q!ListAllForms
  <2> HIDE DEF F
  <2>3. Errs({ToListAllFormsRow(f) : f \in R})
    BY <2>1, ComputedErrors
  <2> QED
    BY <2>2, <2>3 DEF Errs
<1>5. \A filter, p : ListFormsByTenant(filter, p) => Justified
  <2> SUFFICES ASSUME NEW filter, NEW p, ListFormsByTenant(filter, p)
               PROVE  Justified
    OBVIOUS
  <2> DEFINE F == Q!NewestPage(Q!Matching(db, filter), p)
             R == {Q!Overview(db, f) : f \in F}
  <2>1. db' = db /\ F \in SUBSET db.forms
    BY DEF ListFormsByTenant, Read, Q!NewestPage, Q!Matching
  <2>2. answer' = Converted({ToListFormsByTenantRow(f) : f \in R})
    BY DEF ListFormsByTenant, Read, Q!ListFormsByTenant
  <2> HIDE DEF F
  <2>3. Errs({ToListFormsByTenantRow(f) : f \in R})
    BY <2>1, ComputedErrors
  <2> QED
    BY <2>2, <2>3 DEF Errs
<1>6. CountAllForms => Justified
  BY DEF CountAllForms, Read, Counted, Justified
<1>7. \A filter : CountFormsByTenant(filter) => Justified
  BY DEF CountFormsByTenant, Read, Counted, Justified
<1> QED
  BY <1>1, <1>2, <1>3, <1>4, <1>5, <1>6, <1>7

\* Reads of submissions and webhooks.
LEMMA SubmissionReadErrors ==
  ASSUME DatabaseTyped'
  PROVE  /\ \A arg : ListAllSubmissionsByForm(arg) => Justified
         /\ \A arg, p : ListSubmissionsByForm(arg, p) => Justified
         /\ \A form : ListActiveWebhooksByForm(form) => Justified
<1>1. \A arg : ListAllSubmissionsByForm(arg) => Justified
  <2> SUFFICES ASSUME NEW arg, ListAllSubmissionsByForm(arg)
               PROVE  Justified
    OBVIOUS
  <2> DEFINE F == Q!SubmissionsOfTenant(db, arg)
             R == {Q!WithMetadata(db, s) : s \in F}
  <2>1. db' = db /\ F \in SUBSET db.submissions
    BY DEF ListAllSubmissionsByForm, Read, Q!SubmissionsOfTenant
  <2>2. answer' = Converted({ToListAllSubmissionsByFormRow(s) : s \in R})
    BY DEF ListAllSubmissionsByForm, Read, Q!ListAllSubmissionsByForm
  <2> HIDE DEF F
  <2>3. Errs({ToListAllSubmissionsByFormRow(s) : s \in R})
    BY <2>1, ComputedErrors
  <2> QED
    BY <2>2, <2>3 DEF Errs
<1>2. \A arg, p : ListSubmissionsByForm(arg, p) => Justified
  <2> SUFFICES ASSUME NEW arg, NEW p, ListSubmissionsByForm(arg, p)
               PROVE  Justified
    OBVIOUS
  <2> DEFINE F == Q!NewestPage(Q!SubmissionsOfTenant(db, arg), p)
             R == {Q!WithMetadata(db, s) : s \in F}
  <2>1. db' = db /\ F \in SUBSET db.submissions
    BY DEF ListSubmissionsByForm, Read, Q!NewestPage, Q!SubmissionsOfTenant
  <2>2. answer' = Converted({ToListSubmissionsByFormRow(s) : s \in R})
    BY DEF ListSubmissionsByForm, Read, Q!ListSubmissionsByForm
  <2> HIDE DEF F
  <2>3. Errs({ToListSubmissionsByFormRow(s) : s \in R})
    BY <2>1, ComputedErrors
  <2> QED
    BY <2>2, <2>3 DEF Errs
<1>3. \A form : ListActiveWebhooksByForm(form) => Justified
  <2> SUFFICES ASSUME NEW form, ListActiveWebhooksByForm(form)
               PROVE  Justified
    OBVIOUS
  <2> DEFINE F == Q!ListActiveWebhooksByForm(db, form)
  <2>1. db' = db /\ F \in SUBSET db.webhooks
    BY DEF ListActiveWebhooksByForm, Read, Q!ListActiveWebhooksByForm
  <2>2. answer' = Converted({ToFormWebhook(w) : w \in F})
    BY DEF ListActiveWebhooksByForm, Read
  <2> HIDE DEF F
  <2>3. Errs({ToFormWebhook(w) : w \in F})
    BY <2>1, RowErrors
  <2> QED
    BY <2>2, <2>3 DEF Errs
<1> QED
  BY <1>1, <1>2, <1>3

\* A method that writes returns a row of the table it leaves, or no row.
LEMMA Returned ==
  ASSUME DatabaseTyped'
  PROVE  /\ \A d, i : Write(d, Single({ToTenant(t) :
                           t \in {u \in d.tenants : u.id = i}})) => Justified
         /\ \A d, i : Write(d, Single({ToUser(u) :
                           u \in {v \in d.users : v.id = i}})) => Justified
         /\ \A d, i : Write(d, Single({ToForm(f) :
                           f \in {g \in d.forms : g.id = i}})) => Justified
         /\ \A d, i : Write(d, Single({ToFormSubmission(s) :
                           s \in {r \in d.submissions : r.id = i}})) => Justified
         /\ \A d, i : Write(d, Single({ToSubmissionMetadatum(m) :
                           m \in {n \in d.metadata : n.id = i}})) => Justified
         /\ \A d, i : Write(d, Single({ToFormWebhook(w) :
                           w \in {v \in d.webhooks : v.id = i}})) => Justified
         /\ \A d, uuid : Write(d, Single({ToCreateFileRow(Q!FileMetadata(f)) :
                           f \in Q!GetFileByID(d, uuid)})) => Justified
         /\ \A d, n : Write(d, Counted(n)) => Justified
         /\ \A d : Write(d, Found({})) => Justified
         /\ Read(Failed("no_rows")) => Justified
<1>1. ASSUME NEW d, NEW i,
             Write(d, Single({ToTenant(t) :
                                t \in {u \in d.tenants : u.id = i}}))
      PROVE  Justified
  <2> DEFINE R == {u \in d.tenants : u.id = i}
  <2>1. db' = d /\ R \in SUBSET d.tenants
    BY <1>1 DEF Write
  <2>2. answer' = Single({ToTenant(t) : t \in R})
    BY <1>1 DEF Write
  <2> HIDE DEF R
  <2>3. Errs({ToTenant(t) : t \in R})
    BY <2>1, RowErrors
  <2> QED
    BY <2>2, <2>3 DEF Errs
<1>2. ASSUME NEW d, NEW i,
             Write(d, Single({ToUser(u) :
                                u \in {v \in d.users : v.id = i}}))
      PROVE  Justified
  <2> DEFINE R == {v \in d.users : v.id = i}
  <2>1. db' = d /\ R \in SUBSET d.users
    BY <1>2 DEF Write
  <2>2. answer' = Single({ToUser(u) : u \in R})
    BY <1>2 DEF Write
  <2> HIDE DEF R
  <2>3. Errs({ToUser(u) : u \in R})
    BY <2>1, RowErrors
  <2> QED
    BY <2>2, <2>3 DEF Errs
<1>3. ASSUME NEW d, NEW i,
             Write(d, Single({ToForm(f) :
                                f \in {g \in d.forms : g.id = i}}))
      PROVE  Justified
  <2> DEFINE R == {g \in d.forms : g.id = i}
  <2>1. db' = d /\ R \in SUBSET d.forms
    BY <1>3 DEF Write
  <2>2. answer' = Single({ToForm(f) : f \in R})
    BY <1>3 DEF Write
  <2> HIDE DEF R
  <2>3. Errs({ToForm(f) : f \in R})
    BY <2>1, RowErrors
  <2> QED
    BY <2>2, <2>3 DEF Errs
<1>4. ASSUME NEW d, NEW i,
             Write(d, Single({ToFormSubmission(s) :
                                s \in {r \in d.submissions : r.id = i}}))
      PROVE  Justified
  <2> DEFINE R == {r \in d.submissions : r.id = i}
  <2>1. db' = d /\ R \in SUBSET d.submissions
    BY <1>4 DEF Write
  <2>2. answer' = Single({ToFormSubmission(s) : s \in R})
    BY <1>4 DEF Write
  <2> HIDE DEF R
  <2>3. Errs({ToFormSubmission(s) : s \in R})
    BY <2>1, RowErrors
  <2> QED
    BY <2>2, <2>3 DEF Errs
<1>5. ASSUME NEW d, NEW i,
             Write(d, Single({ToSubmissionMetadatum(m) :
                                m \in {n \in d.metadata : n.id = i}}))
      PROVE  Justified
  <2> DEFINE R == {n \in d.metadata : n.id = i}
  <2>1. db' = d /\ R \in SUBSET d.metadata
    BY <1>5 DEF Write
  <2>2. answer' = Single({ToSubmissionMetadatum(m) : m \in R})
    BY <1>5 DEF Write
  <2> HIDE DEF R
  <2>3. Errs({ToSubmissionMetadatum(m) : m \in R})
    BY <2>1, RowErrors
  <2> QED
    BY <2>2, <2>3 DEF Errs
<1>6. ASSUME NEW d, NEW i,
             Write(d, Single({ToFormWebhook(w) :
                                w \in {v \in d.webhooks : v.id = i}}))
      PROVE  Justified
  <2> DEFINE R == {v \in d.webhooks : v.id = i}
  <2>1. db' = d /\ R \in SUBSET d.webhooks
    BY <1>6 DEF Write
  <2>2. answer' = Single({ToFormWebhook(w) : w \in R})
    BY <1>6 DEF Write
  <2> HIDE DEF R
  <2>3. Errs({ToFormWebhook(w) : w \in R})
    BY <2>1, RowErrors
  <2> QED
    BY <2>2, <2>3 DEF Errs
<1>7. ASSUME NEW d, NEW uuid,
             Write(d, Single({ToCreateFileRow(Q!FileMetadata(f)) :
                                f \in Q!GetFileByID(d, uuid)}))
      PROVE  Justified
  <2> DEFINE F == Q!GetFileByID(d, uuid)
  <2>1. db' = d /\ F \in SUBSET d.files
    BY <1>7 DEF Write, Q!GetFileByID
  <2>2. answer' = Single({ToCreateFileRow(Q!FileMetadata(f)) : f \in F})
    BY <1>7 DEF Write
  <2> HIDE DEF F
  <2>3. Errs({ToCreateFileRow(Q!FileMetadata(f)) : f \in F})
    BY <2>1, ComputedErrors
  <2> QED
    BY <2>2, <2>3 DEF Errs
<1>8. /\ \A d, n : Write(d, Counted(n)) => Justified
      /\ \A d : Write(d, Found({})) => Justified
      /\ Read(Failed("no_rows")) => Justified
  BY DEF Write, Read, Counted, Found, Failed, Justified
<1> QED
  BY <1>1, <1>2, <1>3, <1>4, <1>5, <1>6, <1>7, <1>8

\* A statement that breaks a constraint says which.
LEMMA Rejected ==
  /\ Reject({"foreign_key"}) => Justified
  /\ \A holds, v : v # "internal" /\ Reject(Unless(holds, v)) => Justified
  /\ \A arg, i : Reject(FormViolations(db, i, arg)) => Justified
  /\ \A arg : Reject(FileViolations(db, arg)) => Justified
  /\ \A arg : Reject(SubmissionViolations(db, arg)) => Justified
  /\ \A arg : Reject(MetadataViolations(db, arg)) => Justified
<1>1. \A v : Reject(v) /\ "internal" \notin v => Justified
  BY DEF Reject, Failed, Justified
<1>2. \A holds, v : v # "internal" => "internal" \notin Unless(holds, v)
  BY DEF Unless
<1>3. /\ \A arg, i : "internal" \notin FormViolations(db, i, arg)
      /\ \A arg : "internal" \notin FileViolations(db, arg)
      /\ \A arg : "internal" \notin SubmissionViolations(db, arg)
      /\ \A arg : "internal" \notin MetadataViolations(db, arg)
  BY <1>2
  DEF FormViolations, FileViolations, SubmissionViolations, MetadataViolations
<1> QED
  BY <1>1, <1>2, <1>3

\* Every method of the adapter.
LEMMA MethodErrors ==
  ASSUME DatabaseTyped', Next
  PROVE  Justified
<1> USE Returned, Rejected
<1>1. CASE AnyTenants
  BY <1>1, AccountReadErrors DEF AnyTenants, CreateTenant
<1>2. CASE AnyUsers
  BY <1>2, AccountReadErrors
  DEF AnyUsers, CreateUser, CreateUserIfNotExists, CreateUserWithIdentity,
      UpdateUserRole, TouchUserIdentity
<1>3. CASE AnyFiles
  <2>1. ASSUME NEW arg, CreateFile(arg)
        PROVE  Justified
    <3>1. CASE Reject(FileViolations(db, arg))
      BY <3>1
    <3>2. ASSUME NEW at,
                 LET d == Q!CreateFile(db, arg, at)
                 IN  Write(d, Single({ToCreateFileRow(Q!FileMetadata(f)) :
                                        f \in Q!GetFileByID(d, arg.uuid)}))
          PROVE  Justified
      <4> DEFINE d == Q!CreateFile(db, arg, at)
                 uuid == arg.uuid
      <4>1. Write(d, Single({ToCreateFileRow(Q!FileMetadata(f)) :
                               f \in Q!GetFileByID(d, uuid)}))
        BY <3>2
      <4> HIDE DEF d, uuid
      <4> QED
        BY <4>1
    <3> QED
      BY <2>1, <3>1, <3>2 DEF CreateFile
  <2>2. \A arg : DeleteFile(arg) => Justified
    BY DEF DeleteFile
  <2> QED
    BY <1>3, <2>1, <2>2, FileReadErrors DEF AnyFiles
<1>4. CASE AnyForms
  <2>1. \A arg : CreateForm(arg) => Justified
    BY DEF CreateForm
  <2>2. \A arg : UpdateForm(arg) => Justified
    BY DEF UpdateForm
  <2>3. \A arg : DeleteForm(arg) => Justified
    BY DEF DeleteForm
  <2> QED
    BY <1>4, <2>1, <2>2, <2>3, FormReadErrors DEF AnyForms
<1>5. CASE AnySubmissions
  BY <1>5, SubmissionReadErrors
  DEF AnySubmissions, CreateFormSubmission, CreateSubmissionMetadata,
      CreateFormWebhook
<1> QED
  BY <1>1, <1>2, <1>3, <1>4, <1>5 DEF Next

\* Once the tables are there, a query on a database without wide ids never
\* fails with an internal error, and one that fails on such an id has met it.
THEOREM ErrorsAreAlwaysJustified == ServerSpec => ErrorsAreJustified
<1>1. ASSUME DatabaseTyped', schema, [ServerNext]_allVars
      PROVE  UNCHANGED answer \/ Justified
  <2> USE <1>1 DEF Run
  <2>1. CASE EnsureAdmin
    <3>1. UNCHANGED answer \/ Next
      BY <2>1, ServerAssumption DEF EnsureAdmin, Next, AnyUsers, UserArgs
    <3> QED
      BY <3>1, MethodErrors
  <2>2. CASE ReadSession \/ Account \/ Users \/ Authenticate
    BY <2>2, AccountReadErrors DEF ReadSession, Account, Users, Authenticate
  <2>3. CASE Dashboard
    BY <2>3, FormReadErrors, FileReadErrors DEF Dashboard
  <2>4. CASE ReadForm \/ List \/ Count
    BY <2>4, FormReadErrors DEF ReadForm, List, Count
  <2>5. CASE ReadRows
    BY <2>5, SubmissionReadErrors DEF ReadRows
  <2>6. CASE Statement
    BY <2>6, MethodErrors DEF Statement
  <2> QED
    BY <2>1, <2>2, <2>3, <2>4, <2>5, <2>6
    DEF ServerNext, Boot, ReadDotEnv, LoadConfig, OpenDatabase, Migrate,
        NewAuthService, DiscoverProvider, Stop, OpenPage, Open, BeginWalk,
        RequestList, Serve, allVars
<1>2. ASSUME DatabaseTyped', [ServerNext]_allVars
      PROVE  [ answer'.error = "internal" /\ answer' # answer =>
                 \/ ~schema
                 \/ \E t \in DOMAIN db' : \E r \in db'[t] : Wide(r)
             ]_<<db, answer>>
  BY <1>1, <1>2 DEF Justified, HasWide, DatabaseTyped
<1> QED
  BY <1>2, DatabaseHolds, PTL DEF ServerSpec, ErrorsAreJustified

-----------------------------------------------------------------------------
(* Types.                                                                  *)

\* The rows a method answers with are some of those it found and are not wide.
LEMMA AnsweredRows ==
  ASSUME NEW R, NEW S, Faithful(R, S), answer' \in {Converted(S), Single(S)}
  PROVE  /\ answer'.rows \subseteq R /\ \A r \in answer'.rows : ~Wide(r)
         /\ answer' = Single(S) /\ answer'.error = "none"
              => answer'.rows # {}
<1>1. CASE answer' = Failed("internal")
  BY <1>1 DEF Failed
<1>2. CASE answer' = Found(R) /\ \A r \in R : ~Wide(r)
  BY <1>2 DEF Found, Single, Converted, Failed
<1>3. CASE answer' = One(R) /\ \A r \in One(R).rows : ~Wide(r)
  BY <1>3 DEF One, Found, Failed
<1> QED
  BY <1>1, <1>2, <1>3, Results

\* Nor does any step of the server.
LEMMA AnswersWhole ==
  ASSUME [ServerNext]_allVars
  PROVE  \/ UNCHANGED answer
         \/ answer'.rows # {} => answer'.error = "none"
<1> DEFINE Whole == answer'.rows # {} => answer'.error = "none"
<1> SUFFICES UNCHANGED answer \/ Whole
  OBVIOUS
<1>1. /\ \A S : Read(Converted(S)) => Whole
      /\ \A S : Read(Single(S)) => Whole
      /\ \A n : Read(Counted(n)) => Whole
      /\ \A e : Read(Failed(e)) => Whole
      /\ \A d, n : Write(d, Counted(n)) => Whole
      /\ Next => Whole
  BY AnswersAreWhole
  DEF Read, Write, Converted, Single, Counted, Found, Failed
<1> HIDE DEF Whole
<1>2. CASE EnsureAdmin
  BY <1>1, <1>2 DEF EnsureAdmin, Run, CreateUserIfNotExists
<1>3. CASE ReadSession \/ Dashboard \/ ReadForm
  BY <1>1, <1>3
  DEF ReadSession, Dashboard, ReadForm, Run, GetUserByID, ListAllForms,
      CountAllForms, ListAllFiles, CountAllFiles, GetAnyFormByID
<1>4. CASE ReadRows \/ Account \/ Users
  BY <1>1, <1>4
  DEF ReadRows, Account, Users, Run, ListAllSubmissionsByForm,
      ListSubmissionsByForm, CountUserIdentities, ListUsers
<1>5. CASE Authenticate \/ List \/ Count
  BY <1>1, <1>5
  DEF Authenticate, List, Count, Run, GetTenantByAPIKey, ListFormsByTenant,
      CountFormsByTenant
<1> QED
  BY <1>1, <1>2, <1>3, <1>4, <1>5
  DEF allVars, ServerNext, Boot, ReadDotEnv, LoadConfig, OpenDatabase,
      Migrate, NewAuthService, DiscoverProvider, Stop, OpenPage, Open,
      BeginWalk, RequestList, Serve, Statement

\* The ids in the rows that a page goes on with can be named.
LEMMA NamedIds ==
  ASSUME DatabaseTyped
  PROVE  /\ \A i : GetUserByID(i) => \A u \in answer'.rows : u.id \in Ids
         /\ \A key : GetTenantByAPIKey(key) /\ answer'.error = "none"
              => answer'.rows # {} /\ \A t \in answer'.rows : t.id \in Ids
         /\ \A i : GetAnyFormByID(i) /\ answer'.error = "none"
              => /\ answer'.rows # {}
                 /\ \A f \in answer'.rows : f.tenant \in Ids
         /\ \A filter, p : ListFormsByTenant(filter, p)
              => \A f \in answer'.rows : f.id \in Ids
<1> USE DEF DatabaseTyped
<1>1. \A r, c : c \in IdColumns /\ c \in DOMAIN r /\ r[c] \in RowIds /\ ~Wide(r)
                => r[c] \in Ids
  BY TablesAssumption DEF Wide, RowIds, Ids
<1>2. ASSUME NEW i, GetUserByID(i)
      PROVE  \A u \in answer'.rows : u.id \in Ids
  <2>1. Q!GetUserByID(db, i) \subseteq UserRow
    BY Tabled DEF Q!GetUserByID
  <2>2. \A u \in answer'.rows : u \in UserRow /\ ~Wide(u)
    BY <1>2, <2>1, FaithfulAccounts, AnsweredRows DEF GetUserByID, Read
  <2> QED
    BY <1>1, <2>2 DEF UserRow, IdColumns
<1>3. ASSUME NEW key, GetTenantByAPIKey(key), answer'.error = "none"
      PROVE  answer'.rows # {} /\ \A t \in answer'.rows : t.id \in Ids
  <2>1. Q!GetTenantByAPIKey(db, key) \subseteq TenantRow
    BY Tabled DEF Q!GetTenantByAPIKey
  <2>2. /\ answer'.rows # {}
        /\ \A t \in answer'.rows : t \in TenantRow /\ ~Wide(t)
    BY <1>3, <2>1, FaithfulAccounts, AnsweredRows DEF GetTenantByAPIKey, Read
  <2> QED
    BY <1>1, <2>2 DEF TenantRow, IdColumns
<1>4. \A f \in FormRow :
        LET o == Q!Overview(db, f)
        IN  /\ {"id", "tenant"} \subseteq DOMAIN o
            /\ o.id \in RowIds /\ o.tenant \in RowIds
  BY DEF Q!Overview, FormRow
<1>5. ASSUME NEW i, GetAnyFormByID(i), answer'.error = "none"
      PROVE  /\ answer'.rows # {}
             /\ \A f \in answer'.rows : f.tenant \in Ids
  <2> DEFINE F == {f \in db.forms : f.id = i /\ Q!HasId(db.tenants, f.tenant)}
             R == {Q!Overview(db, f) : f \in F}
  <2>1. F \subseteq FormRow /\ Q!GetAnyFormByID(db, i) = R
    BY Tabled DEF Q!GetAnyFormByID
  <2>2. Faithful(R, {ToGetAnyFormByIDRow(f) : f \in R})
    BY <2>1, FaithfulOverviews
  <2> HIDE DEF R
  <2>3. /\ answer'.rows # {}
        /\ \A f \in answer'.rows : f \in R /\ ~Wide(f)
    BY <1>5, <2>1, <2>2, AnsweredRows DEF GetAnyFormByID, Read
  <2> USE DEF R
  <2> QED
    BY <1>1, <1>4, <2>1, <2>3 DEF IdColumns
<1>6. ASSUME NEW filter, NEW p, ListFormsByTenant(filter, p)
      PROVE  \A f \in answer'.rows : f.id \in Ids
  <2> DEFINE F == Q!NewestPage(Q!Matching(db, filter), p)
             R == {Q!Overview(db, f) : f \in F}
  <2>1. F \subseteq FormRow /\ Q!ListFormsByTenant(db, filter, p) = R
    BY Tabled DEF Q!ListFormsByTenant, Q!Matching, Q!NewestPage
  <2>2. Faithful(R, {ToListFormsByTenantRow(f) : f \in R})
    BY <2>1, FaithfulOverviews
  <2> HIDE DEF R
  <2>3. \A f \in answer'.rows : f \in R /\ ~Wide(f)
    BY <1>6, <2>1, <2>2, AnsweredRows DEF ListFormsByTenant, Read
  <2> USE DEF R
  <2> QED
    BY <1>1, <1>4, <2>1, <2>3 DEF IdColumns
<1> QED
  BY <1>2, <1>3, <1>5, <1>6

\* The request and the client that pages; a page that asks who is signed in is
\* one of the app.
Typed == /\ req \in Request /\ walk \in Walk
         /\ req.step = "session" => req.page \in AppPages

\* The moves of a page keep their types.
LEMMA Moves ==
  ASSUME Typed
  PROVE  /\ UNCHANGED <<req, walk>> => Typed'
         /\ \A code : Answer(code) => Typed'
         /\ \A code, t, rows : Send(code, t, rows) => Typed'
         /\ \A step \in {"formsTotal", "files", "filesTotal"} :
              ThenStep(step) => Typed'
         /\ req' = Idle /\ walk' \in Walk => Typed'
<1>1. Idle \in Request /\ Idle.step # "session"
  BY DEF Idle, Request
<1>2. ASSUME NEW step \in {"formsTotal", "files", "filesTotal"}
      PROVE  /\ [req EXCEPT !.step = step] \in Request
             /\ [req EXCEPT !.step = step].step = step
  BY DEF Typed, Request
<1> QED
  BY <1>1, <1>2 DEF Answer, Send, Then, ThenStep, Typed

\* Every step of the pages keeps the types of the request and the client.
LEMMA TypedStep ==
  ASSUME DatabaseTyped, Typed, [ServerNext]_allVars
  PROVE  Typed'
<1>1. CASE UNCHANGED <<req, walk>>
  BY <1>1, Moves
<1>2. CASE Stop
  BY <1>2, Moves DEF Stop, NoWalk, Walk
<1>3. CASE OpenPage
  <2>1. ASSUME NEW page \in AppPages, NEW form \in Ids \cup {Null},
               Open(page, form)
        PROVE  Typed'
    BY <2>1 DEF Open, Then, Idle, Typed, Request
  <2> QED
    BY <1>3, <2>1 DEF OpenPage, AppPages
<1>4. CASE BeginWalk
  <2>1. PICK t \in Ids :
          /\ \A f \in TenantForms(t) : f.id \in Ids
          /\ walk' = [NoWalk EXCEPT !.tenant = t,
                                    !.owed = {f.id : f \in TenantForms(t)}]
    BY <1>4 DEF BeginWalk
  <2>2. walk' \in Walk
    BY <2>1 DEF NoWalk, Walk
  <2> QED
    BY <1>4, <2>2, Moves DEF BeginWalk
<1>5. CASE RequestList
  BY <1>5 DEF RequestList, Then, Idle, Typed, Request
<1>6. CASE ReadSession
  <2>1. ASSUME NEW users, \A u \in users : u.id \in Ids, Guard(users)
        PROVE  Typed'
    <3>1. CASE Allows(req.page, users)
      <4>1. req.page = "account" => (CHOOSE u \in users : TRUE).id \in Ids
        BY <2>1, <3>1 DEF Allows
      <4>2. FirstStep[req.page] \in {"forms", "form", "identities", "users"}
        BY <1>6 DEF ReadSession, Typed, AppPages, FirstStep
      <4>3. CASE \E code : Answer(code)
        BY <4>3, Moves
      <4>4. CASE ~\E code : Answer(code)
        BY <2>1, <3>1, <4>1, <4>2, <4>4 DEF Guard, Then, Typed, Request
      <4> QED
        BY <4>3, <4>4
    <3>2. CASE ~Allows(req.page, users)
      BY <2>1, <3>2, Moves DEF Guard
    <3> QED
      BY <3>1, <3>2
  <2>2. CASE Guard({})
    BY <2>1, <2>2
  <2>3. ASSUME NEW i, Run(GetUserByID(i)), Guard(answer'.rows)
        PROVE  Typed'
    <3>1. \A u \in answer'.rows : u.id \in Ids
      BY <2>3, NamedIds DEF Run, Read, Failed
    <3> QED
      BY <2>1, <2>3, <3>1
  <2> QED
    BY <1>6, <2>2, <2>3 DEF ReadSession
<1>7. CASE Dashboard \/ ReadRows \/ Account \/ Users
  BY <1>7, Moves DEF Dashboard, ReadRows, Account, Users, IfFound
<1>8. CASE ReadForm
  <2>1. CASE answer'.error = "none"
    <3>1. TheRow.tenant \in Ids
      BY <1>8, <2>1, NamedIds DEF ReadForm, Run, Read, Failed, TheRow
    <3>2. CASE req.page = "builder"
      BY <1>8, <2>1, <3>2, Moves DEF ReadForm, IfFound
    <3>3. CASE req.page # "builder"
      BY <1>8, <2>1, <3>1, <3>3 DEF ReadForm, IfFound, Then, Typed, Request
    <3> QED
      BY <3>2, <3>3
  <2>2. CASE answer'.error # "none"
    BY <1>8, <2>2, Moves DEF ReadForm, IfFound
  <2> QED
    BY <2>1, <2>2
<1>9. CASE Authenticate
  <2>1. CASE answer'.error = "none"
    <3>1. TheRow.id \in Ids
      BY <1>9, <2>1, NamedIds DEF Authenticate, Run, Read, Failed, TheRow
    <3> QED
      BY <1>9, <2>1, <3>1 DEF Authenticate, Then, Typed, Request
  <2>2. CASE answer'.error # "none"
    BY <1>9, <2>2, Moves DEF Authenticate
  <2> QED
    BY <2>1, <2>2
<1>10. CASE List
  <2>1. \A f \in answer'.rows : f.id \in Ids
    BY <1>10, NamedIds DEF List, Run, Read, Failed
  <2>2. CASE answer'.error = "none"
    <3>1. {f.id : f \in answer'.rows} \in SUBSET Ids
      BY <2>1
    <3> QED
      BY <1>10, <2>2, <3>1 DEF List, IfFound, Then, Typed, Request
  <2>3. CASE answer'.error # "none"
    BY <1>10, <2>3, Moves DEF List, IfFound
  <2> QED
    BY <2>2, <2>3
<1>11. CASE Count
  <2>1. walk' \in Walk
    <3>1. NoWalk \in Walk
      BY DEF NoWalk, Walk
    <3>2. [walk EXCEPT !.offset = @ + ListLimit, !.seen = @ \cup req.rows]
            \in Walk
      <4>1. walk.offset + ListLimit \in Nat
        BY ServerAssumption DEF Walk, Typed
      <4>2. walk.seen \cup req.rows \in SUBSET Ids
        BY DEF Walk, Typed, Request
      <4> QED
        BY <4>1, <4>2 DEF Walk, Typed
    <3> QED
      BY <1>11, <3>1, <3>2 DEF Count, Answer, Send, Typed
  <2>2. req' = Idle
    BY <1>11 DEF Count, Answer, Send
  <2> QED
    BY <2>1, <2>2, Moves
<1>12. CASE Statement
  BY <1>12, Moves DEF Statement, NoWalk, Walk
<1>13. CASE Boot
  BY <1>1, <1>13
  DEF Boot, ReadDotEnv, LoadConfig, OpenDatabase, Migrate, NewAuthService,
      EnsureAdmin, DiscoverProvider, Go, Quit, serving
<1> QED
  BY <1>1, <1>2, <1>3, <1>4, <1>5, <1>6, <1>7, <1>8, <1>9, <1>10, <1>11,
     <1>12, <1>13
  DEF ServerNext, Serve, allVars, serving

LEMMA TypedHolds == ServerSpec => []Typed
<1>1. ServerInit => Typed
  BY DEF ServerInit, Typed, Idle, Request, NoWalk, Walk
<1>2. DatabaseTyped /\ Typed /\ [ServerNext]_allVars => Typed'
  BY TypedStep
<1> QED
  BY <1>1, <1>2, DatabaseHolds, PTL DEF ServerSpec

\* The database never holds a row, nor a page a local value, of another type
\* than its own, nor one that breaks a constraint of the schema, and no method
\* returns rows together with an error.
THEOREM ServerTypeCorrect == ServerSpec => []TypeOK
<1>1. ServerInit => TypeOK
  <2> SUFFICES ASSUME ServerInit PROVE TypeOK
    OBVIOUS
  <2>1. req \in Request /\ walk \in Walk
    BY DEF ServerInit, Idle, Request, NoWalk, Walk
  <2>2. db \in Database /\ Consistent(db)
    BY DatabasesAssumption, DatabasesKeepConstraints, EmptyKept
    DEF ServerInit, Empty, Database
  <2>3. answer.rows = {} /\ schema \in BOOLEAN
    BY DEF ServerInit, Found, InMemory
  <2> QED
    BY <2>1, <2>2, <2>3, DefaultsTyped DEF ServerInit, TypeOK, Booting
<1>2. ASSUME TypeOK, Typed', DatabaseTyped', Consistent(db)', SettingsInv',
             [ServerNext]_allVars
      PROVE  TypeOK'
  <2>1. (answer.rows # {} => answer.error = "none")'
    BY <1>2, AnswersWhole DEF TypeOK
  <2>2. schema' \in BOOLEAN
    BY <1>2
    DEF TypeOK, allVars, ServerNext, Boot, ReadDotEnv, LoadConfig,
        OpenDatabase, Migrate, NewAuthService, EnsureAdmin, DiscoverProvider,
        Stop, OpenPage, Open, BeginWalk, RequestList, Serve, ReadSession,
        Dashboard, ReadForm, ReadRows, Account, Users, Authenticate, List,
        Count, Statement, Step
  <2> QED
    BY <1>2, <2>1, <2>2 DEF TypeOK, DatabaseTyped, SettingsInv, Typed
<1> QED
  BY <1>1, <1>2, TypedHolds, DatabaseHolds, ConstraintsStay, SettingsHold, PTL
  DEF ServerSpec

-----------------------------------------------------------------------------
(* A start ends, and so does every page.                                   *)

\* How many steps of run are left until it serves, at most.
BootLeft(ph) ==
  CASE ph = "dotenv" -> 7
    [] ph = "config" -> 6
    [] ph = "open" -> 5
    [] ph = "migrate" -> 4
    [] ph = "auth" -> 3
    [] ph = "admin" -> 2
    [] ph = "oidc" -> 1
    [] OTHER -> 0

\* How many statements of a page are left, at most.
PageLeft(q) ==
  CASE q.step = "idle" -> 0
    [] q.step = "session" -> 5
    [] q.step = "forms" -> 4
    [] q.step \in {"formsTotal", "authenticate"} -> 3
    [] q.step \in {"files", "form", "list"} -> 2
    [] OTHER -> 1

BootShortens == BootLeft(phase') < BootLeft(phase)
PageShortens == PageLeft(req') < PageLeft(req)

\* Each step of run leads to a later one or to the exit.
LEMMA BootSteps ==
  ASSUME Boot
  PROVE  BootShortens /\ UNCHANGED req
BY DEF Boot, ReadDotEnv, LoadConfig, OpenDatabase, Migrate, NewAuthService,
       EnsureAdmin, DiscoverProvider, Go, Quit, serving, BootShortens, BootLeft

\* An answer ends the page, a statement that succeeds leads to one of the later
\* ones.
LEMMA PageMoves ==
  ASSUME Typed, req.step # "idle"
  PROVE  /\ \A code : Answer(code) => PageShortens
         /\ \A code, t, rows : Send(code, t, rows) => PageShortens
         /\ \A step \in {"formsTotal", "files", "filesTotal"} :
              ThenStep(step) => req'.step = step
         /\ req' = Idle => PageShortens
<1>1. PageLeft(Idle) = 0 /\ PageLeft(req) \in 1..5
  BY DEF PageLeft, Idle
<1>2. req' = Idle => PageShortens
  BY <1>1 DEF PageShortens
<1> QED
  BY <1>2 DEF Answer, Send, ThenStep, Then, Typed, Request

\* Whatever statement a page runs.
LEMMA ServeShortens ==
  ASSUME Typed, Serve
  PROVE  PageShortens
<1>0. req.step # "idle"
  BY DEF Serve, ReadSession, Dashboard, ReadForm, ReadRows, Account, Users,
         Authenticate, List, Count
<1>1. CASE ReadSession
  <2>1. ASSUME NEW users, Guard(users)
        PROVE  PageShortens
    <3>1. FirstStep[req.page] \in {"forms", "form", "identities", "users"}
      BY <1>1 DEF ReadSession, Typed, AppPages, FirstStep
    <3>2. \/ req'.step = FirstStep[req.page]
          \/ \E code : Answer(code)
      BY <2>1 DEF Guard, Then, Typed, Request
    <3> QED
      BY <1>0, <1>1, <3>1, <3>2, PageMoves
      DEF ReadSession, PageShortens, PageLeft
  <2> QED
    BY <1>1, <2>1 DEF ReadSession
<1>2. CASE Dashboard
  BY <1>0, <1>2, PageMoves DEF Dashboard, IfFound, PageShortens, PageLeft
<1>3. CASE ReadForm
  <2>1. req'.step = "rows" \/ \E code : Answer(code)
    BY <1>3 DEF ReadForm, IfFound, Then, Typed, Request
  <2> QED
    BY <1>0, <1>3, <2>1, PageMoves DEF ReadForm, PageShortens, PageLeft
<1>4. CASE ReadRows \/ Account \/ Users
  BY <1>0, <1>4, PageMoves DEF ReadRows, Account, Users, IfFound
<1>5. CASE Authenticate
  <2>1. req'.step = "list" \/ \E code : Answer(code)
    BY <1>5 DEF Authenticate, Then, Typed, Request
  <2> QED
    BY <1>0, <1>5, <2>1, PageMoves DEF Authenticate, PageShortens, PageLeft
<1>6. CASE List
  <2>1. req'.step = "count" \/ \E code : Answer(code)
    BY <1>6 DEF List, IfFound, Then, Typed, Request
  <2> QED
    BY <1>0, <1>6, <2>1, PageMoves DEF List, PageShortens, PageLeft
<1>7. CASE Count
  BY <1>0, <1>7, PageMoves DEF Count
<1> QED
  BY <1>1, <1>2, <1>3, <1>4, <1>5, <1>6, <1>7 DEF Serve

\* Run takes at most seven steps until it serves or exits and never goes back
\* to one it has done, and a page runs at most five statements: nothing that
\* happens meanwhile takes it back.  That the next step is taken is what
\* the fairness of BootEnds and PageAnswered adds.
THEOREM StartAndPagesWindDown ==
  ServerSpec => /\ [](BootLeft(phase) \in 0..7 /\ PageLeft(req) \in 0..5)
                /\ [][/\ Boot => BootShortens
                      /\ \/ UNCHANGED phase
                         \/ BootShortens
                         \/ phase = "serve" /\ phase' = "stopped"
                      /\ Serve => PageShortens
                      /\ req.step # "idle" => UNCHANGED req \/ PageShortens
                     ]_allVars
<1>1. BootLeft(phase) \in 0..7 /\ PageLeft(req) \in 0..5
  BY DEF BootLeft, PageLeft
<1>2. ASSUME [ServerNext]_allVars
      PROVE  \/ UNCHANGED phase
             \/ BootShortens
             \/ phase = "serve" /\ phase' = "stopped"
  BY <1>2, BootSteps
  DEF ServerNext, allVars, Stop, OpenPage, Open, BeginWalk, RequestList, Step,
      Serve, ReadSession, Dashboard, ReadForm, ReadRows, Account, Users,
      Authenticate, List, Count, Statement
<1>3. ASSUME Typed, [ServerNext]_allVars, req.step # "idle"
      PROVE  UNCHANGED req \/ PageShortens
  <2>1. ~OpenPage /\ ~BeginWalk /\ ~RequestList
    <3>1. req # Idle
      BY <1>3 DEF Idle
    <3> QED
      BY <3>1 DEF OpenPage, Open, BeginWalk, RequestList
  <2>2. req' = Idle => PageShortens
    BY <1>3, PageMoves
  <2> QED
    BY <1>3, <2>1, <2>2, BootSteps, ServeShortens
    DEF ServerNext, allVars, serving, Stop, Statement
<1>4. Typed /\ [ServerNext]_allVars
        => [/\ Boot => BootShortens
            /\ \/ UNCHANGED phase
               \/ BootShortens
               \/ phase = "serve" /\ phase' = "stopped"
            /\ Serve => PageShortens
            /\ req.step # "idle" => UNCHANGED req \/ PageShortens]_allVars
  BY <1>2, <1>3, BootSteps, ServeShortens
<1> QED
  BY <1>1, <1>4, TypedHolds, PTL DEF ServerSpec
=============================================================================
