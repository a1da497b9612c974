SPECIFICATION FairSpec
CONSTANTS
    Values = {a, b}
    NoValue = NoValue
    NoElement = NoElement
    Sources = {"configmap", "service"}
    RingSize = 1
    Day = 2
    Steps = 15
    DynamicCertificatesEnabled = FALSE
    MaxClock = 1
    MaxChanges = 1
    MaxFailures = 1
PROPERTIES
    Converges
    ShutdownCompletes
CHECK_DEADLOCK FALSE
