SPECIFICATION Spec
CONSTANTS
  None = None
  Unnamed = Unnamed
  Zero = Zero
  Nodes = {n1, n2}
  Pods = {p1}
  Usages = {"low", "high"}
  PodStats <- ReportedPods
  MaxChanges = 1
INVARIANTS NodesAreWhole
CHECK_DEADLOCK FALSE
