SPECIFICATION Spec
CONSTANTS
    Values = {a, b}
    NoValue = NoValue
    NoElement = NoElement
    Sources = {}
    RingSize = 1
    Day = 2
    Steps = 15
    DynamicCertificatesEnabled = TRUE
    MaxClock = 1
    MaxChanges = 1
    MaxFailures = 0
INVARIANT
    TemplateIsApplied
CHECK_DEADLOCK FALSE
