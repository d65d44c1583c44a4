SPECIFICATION FairSpec
CONSTANTS
  old = old
  Nobody = Nobody
  Replicas = {p1, p2, old}
  Count = 2
  Known <- RollingUpdate
  Transactional = {1}
  Engine = "sqlite"
  MaxFaults = 2
INVARIANT ServesMigrated
PROPERTIES ImplementsOnce EveryReplicaServes
CHECK_DEADLOCK FALSE
