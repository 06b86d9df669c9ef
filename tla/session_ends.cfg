CONSTANTS
  Session = {1, 2}
  Sso = {}
  r1 = r1
  r2 = r2
  v1 = v1
  v2 = v2
  Renewal = {r1, r2}
  Revocation = {v1, v2}
  Only = 1
  Revoker = v1
  Nobody = Nobody
  AccessLife = 0
  GuardLife = 1
  CheckFailure = "allow"
  RedisFails = FALSE
  IdpFails = FALSE
  Interrupts = TRUE
  Losses = {"expired", "inactive"}
  MaxId = 3
SPECIFICATION SceneSpec
PROPERTY EveryRequestEnds
