SPECIFICATION Spec
CONSTANTS
    Values = {a, b}
    NoValue = NoValue
    NoElement = NoElement
    Sources = {"configmap"}
    RingSize = 1
    Day = 2
    Steps = 15
    DynamicCertificatesEnabled = TRUE
    MaxClock = 1
    MaxChanges = 3
    MaxFailures = 0
INVARIANT
    NginxReflectsCluster
CHECK_DEADLOCK FALSE
