SPECIFICATION Spec
CONSTANTS
  bob = bob
  bob2 = bob2
  bob22 = bob22
  Nobody = Nobody
  NoIdentity = NoIdentity
  MaxAttempts = 2
  Candidate <- Suffixed
  Bases = {bob, bob2}
  Usernames = {bob, bob2, bob22}
  AdminNames = {bob}
  Identities = {i1}
  Methods = {"basic"}
  AutoCreate = TRUE
  ExternalRole = "BASIC"
  KeepsSecret = TRUE
  Faulty = FALSE
  Deactivatable = {}
  Requests = {r1, r2}
  Engine = "postgres"
PROPERTY AdminsStay
