SPECIFICATION FairSpec
CONSTANTS
  bob = bob
  bob2 = bob2
  bob22 = bob22
  Nobody = Nobody
  NoIdentity = NoIdentity
  MaxAttempts = 2
  Candidate <- Suffixed
  Bases = {bob, bob2}
  Usernames = {bob, bob2, bob22}
  AdminNames = {bob}
  Identities = {i1}
  Methods = {"basic", "oidc"}
  AutoCreate = TRUE
  ExternalRole = "BASIC"
  KeepsSecret = FALSE
  Faulty = FALSE
  Deactivatable = {}
  Requests = {r1, r2}
  Engine = "sqlite"
INVARIANTS TypeOK LinksMatchAccounts ConflictMeansTaken
PROPERTIES ImplementsDirectory RolesChangeForAnother EveryRequestAnswered
