SPECIFICATION Spec
CONSTANTS
  None = None
  r1 = r1
  r2 = r2
  n1 = n1
  n2 = n2
  Replicas = {r1, r2}
  Ingresses = {i1}
  Nodes = {n1, n2}
  NodeOf <- Apart
  UpdateStatusOnShutdown = TRUE
  MaxTasks = 1
  MaxLosses = 1
  MaxFailures = 1
  MaxExits = 0
PROPERTIES OneNodeSyncs
CHECK_DEADLOCK FALSE
