SPECIFICATION FairSpec
CONSTANTS
  old = old
  Nobody = Nobody
  Replicas = {p1, p2, old}
  Count = 3
  Known <- RollingUpdate
  Transactional = {1, 2, 3}
  Engine = "postgres"
  MaxFaults = 2
INVARIANTS TypeOK RunsOnce
PROPERTY EveryReplicaServes
CHECK_DEADLOCK FALSE
