SPECIFICATION FairSpec
CONSTANTS
  Absent = Absent
  None = None
  s1 = s1
  s2 = s2
  Ingresses = {i1}
  Secrets = {s1}
  Data = {c1, c2, p1}
  Certificates = {c1, c2}
  Passwords = {c2, p1}
  Specs <- AllKindsSpecs
  DefaultSSLCertificate = None
  DisableCatchAll = TRUE
  OCSP = FALSE
  MaxChanges = 3
INVARIANTS TypeOK IInv CertificatesAreCurrent NothingIsSilent
PROPERTIES CertificatesAreServed
CHECK_DEADLOCK FALSE
