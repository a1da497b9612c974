SPECIFICATION SpecUndisturbed
CONSTANTS
  None = None
  r1 = r1
  r2 = r2
  own = own
  other = other
  Rules = {r1, r2}
  FileOf <- Files
  SizeOf <- Sizes
  MaxSize = 1
  Versions = {1}
  Namespaces = {own, other}
  Own = own
  NsOf <- Places
  MonitorNs = other
  Specs <- Variants
  FirstSpec <- Plain
  FirstLabels <- Labels
  MaxChanges = 3
  MaxEvents = 1
INVARIANTS GoverningServiceExists
CHECK_DEADLOCK FALSE
