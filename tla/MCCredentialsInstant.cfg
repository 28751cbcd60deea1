SPECIFICATION Spec
CONSTANTS
  Key = {k1}
  Request = {r1, r2}
  CredentialTTL = 2
  CacheTTL = 2
  UtcOffset = 0
  MaxHandling = 1
  MaxTime = 6
  Never = Never
  None = None
SYMMETRY Symmetry
INVARIANT
  RevocationIsInstant
