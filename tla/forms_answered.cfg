SPECIFICATION FairSpec
CONSTANTS
  t1 = t1
  t2 = t2
  c1 = c1
  c2 = c2
  s1 = s1
  s2 = s2
  Nobody = Nobody
  NoInput = NoInput
  Tenants = {t1}
  Users = {u1}
  Slugs = {s1}
  Contents = {c1, c2}
  FormInputs <- AccessInputs
  Suspendable = {t1}
  Requests = {r1, r2}
  Engine = "postgres"
  MaxForms = 1
  MaxSubmissions = 1
  MaxTime = 2
PROPERTY EveryRequestAnswered
