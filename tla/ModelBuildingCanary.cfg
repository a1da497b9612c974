SPECIFICATION Spec
CONSTANTS
  None = None
  Manifests <- CanaryIngresses
  Services = {"a", "b", "c"}
  ServiceStates <- States
  Secrets = {"s"}
  Certs <- CertSet
  StreamPorts = {9000}
  StreamStates <- StreamSet
  DefaultService = "c"
  Names <- NamesOf
  FirstCluster <- Start
  MaxIngresses = 3
  MaxChanges = 2
INVARIANTS CanariesServe
CHECK_DEADLOCK FALSE
