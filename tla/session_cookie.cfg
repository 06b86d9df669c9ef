CONSTANTS
  Session = {1}
  Sso = {}
  r1 = r1
  r2 = r2
  v1 = v1
  v2 = v2
  Renewal = {r1}
  Revocation = {v1}
  Nobody = Nobody
  AccessLife = 1
  GuardLife = 1
  CheckFailure = "allow"
  RedisFails = FALSE
  IdpFails = FALSE
  Interrupts = FALSE
  Losses = {}
  MaxId = 3
SPECIFICATION Spec
INVARIANT CookieNamesLiveRow
