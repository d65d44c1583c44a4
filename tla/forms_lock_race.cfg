SPECIFICATION Spec
CONSTANTS
  t1 = t1
  t2 = t2
  c1 = c1
  c2 = c2
  s1 = s1
  s2 = s2
  Nobody = Nobody
  NoInput = NoInput
  Tenants = {t1, t2}
  Users = {}
  Slugs = {s1, s2}
  Contents = {c1, c2}
  FormInputs <- LockInputs
  Suspendable = {}
  Requests = {r1, r2}
  Engine = "postgres"
  MaxForms = 1
  MaxSubmissions = 1
  MaxTime = 0
PROPERTY ContentLocked
