SPECIFICATION Spec
CONSTANTS
  MaxOps = 3
  Names = {"a", "b"}
  Below <- Subdomains
  Versions = {"8.3"}
  Allowed = {"static", "8.3", "redirect", "wildcard"}
  MaxDomains = 2
  MaxExceptions = 1
  LateNames = {}
  Requests <- AllRequests
  MaxFaults = 2
  DomainAttempts = 3
  CertificateAttempts = 4
CHECK_DEADLOCK FALSE
INVARIANTS CertificateInUse ActiveIsServed PreparedBeforeServed
PROPERTIES NewestWins
