SPECIFICATION FairSpec
CONSTANTS
  None = None
  Ams = {a1, a2}
  Specs <- Variants
  FirstSpec <- Plain
  MaxChanges = 2
  MaxEvents = 1
INVARIANTS TypeOK QuietIsRight
PROPERTIES DestroysOnlyOrphans Settles
CHECK_DEADLOCK FALSE
