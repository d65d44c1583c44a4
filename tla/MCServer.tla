------------------------------ MODULE MCServer ------------------------------
(* Instances of Server for TLC: settings of every kind that run tells      *)
(* apart, and databases to start on.                                       *)
EXTENDS Server, TLC

CONSTANTS k1, k2, c1, c2, s1, h1

\* A form that is open, an edit of it that the schema refuses, and a draft.
open ==
  [title |-> "t", slug |-> s1, content |-> c1, active |-> TRUE,
   draft |-> FALSE, public |-> TRUE, anonymous |-> TRUE]
contradictory == [open EXCEPT !.anonymous = FALSE]
draft == [open EXCEPT !.slug = "s2", !.content = c2, !.draft = TRUE]

MCFormDefs == {open, contradictory, draft}
MCFilters ==
  {[tenant |-> 1, active |-> Null, draft |-> Null, search |-> {"t"}],
   [tenant |-> 1, active |-> TRUE, draft |-> FALSE, search |-> {"t"}]}
MCPages == {[offset |-> 0, limit |-> 1]}

\* Two tenants, the second one suspended, and a form of the first.
seeded ==
  [Empty EXCEPT
    !.tenants = {[id |-> 1, key |-> k1, active |-> TRUE],
                 [id |-> 2, key |-> k2, active |-> FALSE]},
    !.forms = {[id |-> 1, tenant |-> 1, def |-> open, at |-> 0]}]

\* The ids of one table have run past 32 bits.
outgrown ==
  [Empty EXCEPT
    !.tenants = {[id |-> 1, key |-> k1, active |-> TRUE]},
    !.forms = {[id |-> 1, tenant |-> 1, def |-> open, at |-> 0],
               [id |-> MaxRowId, tenant |-> 1, def |-> draft, at |-> 0]}]

MCDatabases == {seeded, outgrown}

provider ==
  [OIDC_ISSUER_URL |-> "absolute", OIDC_CLIENT_ID |-> "text",
   OIDC_REDIRECT_URL |-> "absolute"]
complete ==
  provider @@
  [DATABASE_URL |-> "sqlite", APP_USERNAME |-> "name",
   APP_PASSWORD |-> "text", AUTH_JWT_SECRET |-> MinSecretLen,
   AUTH_ADMIN_USERNAME |-> "valid", AUTH_ADMIN_PASSWORD |-> "valid",
   AUTH_METHODS |-> {"basic", "oidc"}]
minimal == [DATABASE_URL |-> "memory", AUTH_METHODS |-> {"blank"}]
halved == [DATABASE_URL |-> "sqlite", OIDC_CLIENT_ID |-> "text"]

MCTomls == {NoFile, complete, minimal, halved}

MCEnvironments ==
  {<<>>,
   [AUTO_MIGRATE |-> FALSE],
   [AUTH_METHODS |-> {"oidc"}, LOG_LEVEL |-> "known",
    AUTH_ADMIN_USERNAME |-> "unset", AUTH_ADMIN_PASSWORD |-> "unset"],
   [OIDC_DEFAULT_ROLE |-> "other"],
   [AUTH_TOKEN_TTL_MINUTES |-> MaxDuration, DATABASE_URL |-> "sqlite"],
   [AUTH_ADMIN_PASSWORD |-> "invalid"],
   [SERVER_PORT |-> Malformed]}

MCDotEnvs ==
  {<<>>,
   <<[key |-> "AUTO_MIGRATE", value |-> TRUE],
     [key |-> "OIDC_DEFAULT_ROLE", value |-> "ADMIN"],
     [key |-> "OIDC_DEFAULT_ROLE", value |-> "BASIC"]>>,
   <<[key |-> "APP_PASSWORD", value |-> "unset"],
     [key |-> "APP_USERNAME", value |-> "unset"]>>,
   <<[key |-> "LOG_LEVEL", value |-> "other"]>>,
   <<[key |-> "LOG_LEVEL", value |-> "known"], BadLine>>}

\* No guard reads the last answer or response, and once it serves the server
\* reads of its settings only whether the app is enabled.
Distinct ==
  <<db, phase, schema, req, walk,
    IF phase \in Booting THEN <<sources, config>> ELSE AppEnabled(config)>>
=============================================================================
