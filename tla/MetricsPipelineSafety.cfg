SPECIFICATION FairSpec
CONSTANTS
  None = None
  Unnamed = Unnamed
  Zero = Zero
  Nodes = {n1, n2}
  Pods = {p1}
  Usages = {"low", "high"}
  PodStats <- ReportedPods
  MaxChanges = 3
INVARIANTS TypeOK HealthyIsFresh PodsAreWhole
PROPERTIES Settles
CHECK_DEADLOCK FALSE
