------------------------------ MODULE Settings ------------------------------
(***************************************************************************)
(* The configuration of the server: the .env file, the TOML file and the   *)
(* environment, how they combine, and what is accepted.                    *)
(*                                                                         *)
(* An environment is a function from the names of the variables that are   *)
(* set.  Texts are modelled by what the program makes of them: a number, a *)
(* boolean, a set of names, or for other texts the class the checks tell   *)
(* apart ("" is "unset"); a text that is no number or boolean where one is *)
(* expected, "" included, is Malformed.                                    *)
(***************************************************************************)
EXTENDS Integers, Sequences

CONSTANTS
  Malformed,    \* a text that does not parse
  BadLine,      \* a line of .env that is not KEY=VALUE
  NoFile,       \* a file that does not exist
  Unset,        \* no value: Go's nil
  MinSecretLen, \* shortest secret, in bytes
  Minute,       \* time.Minute, in units of a time.Duration
  MaxDuration,  \* largest time.Duration
  MaxPort

ASSUME SettingsAssumption ==
  /\ MinSecretLen \in Nat \ {0} /\ MaxPort \in Nat \ {0}
  /\ Minute \in Nat \ {0} /\ MaxDuration \in Nat
  /\ Unset \notin BOOLEAN

Methods == {"basic", "jwt", "oidc"}

\* The roles of package auth, and the copy of them that config keeps.
AllRoles == {"ADMIN", "FORM_CREATOR", "BASIC"}

\* Fault: a role that auth no longer has.
StaleRoles == AllRoles \cup {"other"}

OIDCValidRoles == {"ADMIN", "FORM_CREATOR", "BASIC"}

\* The values of each setting, by the name of its variable.
Config ==
  [SERVER_PORT: Int,
   LOG_LEVEL: {"known", "other"},
   DATABASE_URL: {"unset", "postgres", "sqlite", "memory", "other"},
   SQLITE_BUSY_TIMEOUT_MS: Int,
   SQLITE_JOURNAL_MODE: {"unset", "known", "other"},
   AUTO_MIGRATE: BOOLEAN \cup {Unset},
   APP_USERNAME: {"unset", "name", "colon"},
   APP_PASSWORD: {"unset", "text"},
   AUTH_JWT_SECRET: Nat,                      \* its length
   AUTH_TOKEN_TTL_MINUTES: Int,
   AUTH_ADMIN_USERNAME: {"unset", "valid", "invalid"},
   AUTH_ADMIN_PASSWORD: {"unset", "valid", "invalid"},
   AUTH_METHODS: SUBSET (Methods \cup {"blank", "other"}),
   OIDC_ISSUER_URL: {"unset", "absolute", "other"},
   OIDC_CLIENT_ID: {"unset", "text"},
   OIDC_REDIRECT_URL: {"unset", "absolute", "other"},
   OIDC_AUTO_CREATE_USERS: BOOLEAN,
   OIDC_DEFAULT_ROLE: AllRoles \cup {"unset", "other"}]

-----------------------------------------------------------------------------
(* The .env file, a sequence of lines; comments and blank lines left out.  *)

IsBad(line) == line = BadLine

\* The lines read before the first bad one.
GoodLines(lines) ==
  {n \in 1..Len(lines) : \A m \in 1..n : ~IsBad(lines[m])}

\* unquote strips quotes, which are part of no value here.
FirstLine(lines, key) ==
  CHOOSE n \in GoodLines(lines) :
    /\ lines[n].key = key
    /\ \A m \in 1..(n - 1) : lines[m].key # key

\* Fault: variables that are set already are set again.
LoadDotEnvOverriding(env, lines) ==
  LET keys == {lines[n].key : n \in GoodLines(lines)}
  IN  [k \in DOMAIN env \cup keys |->
        IF k \in keys THEN lines[FirstLine(lines, k)].value ELSE env[k]]

\* A variable that is set, by the caller or by an earlier line, stays.
LoadDotEnv(env, lines) ==
  LET keys == {lines[n].key : n \in GoodLines(lines)}
  IN  [k \in DOMAIN env \cup keys |->
        IF k \in DOMAIN env THEN env[k]
        ELSE lines[FirstLine(lines, k)].value]

DotEnvFails(lines) == \E n \in 1..Len(lines) : IsBad(lines[n])

-----------------------------------------------------------------------------
(* The configuration.                                                      *)

Defaults ==
  [SERVER_PORT |-> 1, LOG_LEVEL |-> "known", DATABASE_URL |-> "unset",
   SQLITE_BUSY_TIMEOUT_MS |-> 5, SQLITE_JOURNAL_MODE |-> "known",
   AUTO_MIGRATE |-> Unset, APP_USERNAME |-> "unset", APP_PASSWORD |-> "unset",
   AUTH_JWT_SECRET |-> 0, AUTH_TOKEN_TTL_MINUTES |-> 1,
   AUTH_ADMIN_USERNAME |-> "unset", AUTH_ADMIN_PASSWORD |-> "unset",
   AUTH_METHODS |-> {}, OIDC_ISSUER_URL |-> "unset",
   OIDC_CLIENT_ID |-> "unset", OIDC_REDIRECT_URL |-> "unset",
   OIDC_AUTO_CREATE_USERS |-> TRUE, OIDC_DEFAULT_ROLE |-> "BASIC"]

\* toml.Unmarshal over the defaults, and applyEnv over both.
Overlay(base, over) ==
  [k \in DOMAIN base |-> IF k \in DOMAIN over THEN over[k] ELSE base[k]]

EnvFails(env) == \E k \in DOMAIN env : env[k] = Malformed
ApplyEnv(c, env) == Overlay(c, env)

Configured(c) ==
  /\ c.OIDC_ISSUER_URL # "unset"
  /\ c.OIDC_CLIENT_ID # "unset"
  /\ c.OIDC_REDIRECT_URL # "unset"

Unconfigured(c) ==
  /\ c.OIDC_ISSUER_URL = "unset"
  /\ c.OIDC_CLIENT_ID = "unset"
  /\ c.OIDC_REDIRECT_URL = "unset"

\* normalizeStringList drops blank entries and duplicates.
NormalizeStringList(names) == names \ {"blank"}

DefaultMethods(c) ==
  {"basic", "jwt"} \cup (IF Configured(c) THEN {"oidc"} ELSE {})

\* Fault: the default is filled in before blank entries are dropped.
NormalizeLate(c) ==
  LET given == c.AUTH_METHODS
  IN  [c EXCEPT !.AUTH_METHODS =
        NormalizeStringList(IF given = {} THEN DefaultMethods(c) ELSE given)]

Normalize(c) ==
  LET given == NormalizeStringList(c.AUTH_METHODS)
  IN  [c EXCEPT !.AUTH_METHODS =
        IF given = {} THEN DefaultMethods(c) ELSE given]

Uses(c, m) == m \in c.AUTH_METHODS

Driver(c) ==
  CASE c.DATABASE_URL = "postgres" -> "postgres"
    [] c.DATABASE_URL \in {"sqlite", "memory"} -> "sqlite"
    [] OTHER -> "unset"

AutoMigrateEnabled(c) ==
  IF c.AUTO_MIGRATE = Unset THEN Driver(c) = "sqlite" ELSE c.AUTO_MIGRATE

\* AppConfig.Enabled
AppEnabled(c) == c.APP_USERNAME # "unset" /\ c.APP_PASSWORD # "unset"

ValidateDatabaseURI(uri) == uri \in {"postgres", "sqlite", "memory"}
ValidateAbsoluteURL(url) == url = "absolute"

ValidateOIDC(c) ==
  \/ Unconfigured(c)
  \/ /\ Configured(c)
     /\ ValidateAbsoluteURL(c.OIDC_ISSUER_URL)
     /\ ValidateAbsoluteURL(c.OIDC_REDIRECT_URL)
     /\ c.OIDC_DEFAULT_ROLE \in OIDCValidRoles

Validate(c) ==
  /\ c.SERVER_PORT \in 1..MaxPort
  /\ c.LOG_LEVEL = "known"
  /\ ValidateDatabaseURI(c.DATABASE_URL)
  /\ c.SQLITE_BUSY_TIMEOUT_MS >= 0
  /\ c.SQLITE_JOURNAL_MODE = "known"
  /\ (c.APP_USERNAME = "unset") = (c.APP_PASSWORD = "unset")
  /\ c.APP_USERNAME # "colon"
  /\ c.AUTH_JWT_SECRET = 0 \/ c.AUTH_JWT_SECRET >= MinSecretLen
  /\ c.AUTH_TOKEN_TTL_MINUTES >= 1
  /\ (c.AUTH_ADMIN_USERNAME = "unset") = (c.AUTH_ADMIN_PASSWORD = "unset")
  /\ c.AUTH_METHODS \subseteq Methods
  /\ Uses(c, "oidc") => Configured(c)
  /\ ValidateOIDC(c)

\* What Load makes of the file and the environment: NoFile also stands for a
\* file that is no TOML.
LoadFails(toml, env) ==
  \/ toml = NoFile
  \/ EnvFails(env)
  \/ ~Validate(Normalize(ApplyEnv(Overlay(Defaults, toml), env)))

Load(toml, env) == Normalize(ApplyEnv(Overlay(Defaults, toml), env))

-----------------------------------------------------------------------------
(* What the rest of start-up makes of the configuration.                   *)

\* TokenTTL: the product wraps around in 64 bits.
TokenTTL(c) ==
  LET d == (c.AUTH_TOKEN_TTL_MINUTES * Minute) % (2 * (MaxDuration + 1))
  IN  IF d > MaxDuration THEN d - 2 * (MaxDuration + 1) ELSE d

\* jwtSecret makes up a secret when none is configured.
SecretLen(c) ==
  IF c.AUTH_JWT_SECRET = 0 THEN MinSecretLen ELSE c.AUTH_JWT_SECRET

\* ExternalOptions.DefaultRole as newAuthService passes it and NewService
\* fills it in.
ExternalRole(c) ==
  IF Uses(c, "oidc") /\ c.OIDC_DEFAULT_ROLE # "unset"
    THEN c.OIDC_DEFAULT_ROLE ELSE "BASIC"

\* auth.NewService
NewServiceFails(c) ==
  \/ SecretLen(c) < MinSecretLen
  \/ TokenTTL(c) < 0
  \/ ~(c.AUTH_METHODS \subseteq Methods)
  \/ ExternalRole(c) \notin AllRoles

\* EnsureUser's checks of the first administrator's name and password.
AdminFails(c) ==
  /\ c.AUTH_ADMIN_USERNAME # "unset"
  /\ "invalid" \in {c.AUTH_ADMIN_USERNAME, c.AUTH_ADMIN_PASSWORD}
=============================================================================
