SPECIFICATION Spec
CONSTANTS
  None = None
  Nodes = {n1}
  Containers = {"c1", "c2"}
  PodOf <- OnePod
  NamespaceOf <- OneNamespace
  Home = n1
  Sinks = {"metric"}
  MaxParallelism = 2
  Keep = 1
  MaxTime = 3
  MaxChanges = 1
INVARIANTS BatchesAreSound
CHECK_DEADLOCK FALSE
