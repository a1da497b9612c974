SPECIFICATION Spec
CONSTANTS
  Absent = Absent
  None = None
  s1 = s1
  s2 = s2
  Ingresses = {i1}
  Secrets = {s1}
  Data = {c1}
  Certificates = {c1}
  Passwords = {}
  Specs <- TLSSpecs
  DefaultSSLCertificate = None
  DisableCatchAll = FALSE
  OCSP = FALSE
  MaxChanges = 3
INVARIANTS ListsTheCluster
CHECK_DEADLOCK FALSE
