SPECIFICATION FairSpec
CONSTANTS
  None = None
  Nodes = {n1, n2}
  Containers = {"c1", "c2"}
  PodOf <- OnePod
  NamespaceOf <- OneNamespace
  Home = n1
  Sinks = {"metric", "other"}
  MaxParallelism = 2
  Keep = 1
  MaxTime = 2
  MaxChanges = 1
INVARIANTS TypeOK BatchesAreSound
PROPERTIES Settles
CHECK_DEADLOCK FALSE
