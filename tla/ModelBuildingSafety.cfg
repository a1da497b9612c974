SPECIFICATION Spec
CONSTANTS
  None = None
  Manifests <- Ordinary
  Services = {"a", "b", "c"}
  ServiceStates <- States
  Secrets = {"s"}
  Certs <- CertSet
  StreamPorts = {9000}
  StreamStates <- StreamSet
  DefaultService = "c"
  Names <- NamesOf
  FirstCluster <- Start
  MaxIngresses = 3
  MaxChanges = 3
INVARIANTS TypeOK OldestIngressWins LocationsHaveBackends EndpointsAreCurrent CertificatesAreRight FileIsCurrent
CHECK_DEADLOCK FALSE
