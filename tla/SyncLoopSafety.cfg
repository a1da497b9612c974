SPECIFICATION Spec
CONSTANTS
    Values = {a, b}
    NoValue = NoValue
    NoElement = NoElement
    Sources = {"ingress"}
    RingSize = 1
    Day = 2
    Steps = 15
    DynamicCertificatesEnabled = TRUE
    MaxClock = 1
    MaxChanges = 2
    MaxFailures = 1
SYMMETRY ValueSymmetry
INVARIANTS
    TypeOK
    IInv
    NoLostUpdate
    DueIsQueued
    AppliedIsRunning
    RunningIsAsNewAsLastSync
PROPERTY
    NoSyncAfterShutdown
CHECK_DEADLOCK FALSE
