SPECIFICATION Spec
CONSTANTS
  Absent = Absent
  None = None
  s1 = s1
  s2 = s2
  Ingresses = {i1}
  Secrets = {s1, s2}
  Data = {c1}
  Certificates = {c1}
  Passwords = {}
  Specs <- ClassSpecs
  DefaultSSLCertificate = s1
  DisableCatchAll = TRUE
  OCSP = TRUE
  MaxChanges = 3
INVARIANTS ReferencesAreCurrent NoIngressIsMissing
PROPERTIES WritesAreNotified
CHECK_DEADLOCK FALSE
