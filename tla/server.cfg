SPECIFICATION FairServer
CONSTANTS
  k1 = k1
  k2 = k2
  c1 = c1
  c2 = c2
  s1 = s1
  h1 = h1
  Null = Null
  Malformed = Malformed
  BadLine = BadLine
  NoFile = NoFile
  Unset = Unset
  IdMax = 2
  MaxRowId = 3
  Keys = {k1, k2}
  Usernames = {"root", "ann"}
  AdminName = "root"
  Hashes = {h1}
  AdminHash = h1
  Roles = {"ADMIN", "BASIC"}
  Emails = {}
  Slugs = {s1, "s2"}
  Contents = {c1, c2}
  Titles = {"t"}
  Blobs = {"b"}
  Identities = {"i"}
  Uuids = {1, 2}
  Instants = {0, 1}
  FormDefs <- MCFormDefs
  Filters <- MCFilters
  Pages <- MCPages
  Databases <- MCDatabases
  MinSecretLen = 32
  Minute = 3
  MaxDuration = 7
  MaxPort = 2
  Environments <- MCEnvironments
  DotEnvs <- MCDotEnvs
  Tomls <- MCTomls
  ListLimit = 1
  MaxRows = 2
VIEW Distinct
CHECK_DEADLOCK FALSE
INVARIANTS TypeOK PagesAddUp RealEnvironmentWins SignInMethodsWork AccountsCanBeOpened
PROPERTIES ImplementsQuerier ErrorsAreJustified ExportStaysWithTenant WalkMissesNothing OnlyTheseRefusalsAreLate BootEnds PageAnswered
