CONSTANTS
  Session = {1}
  Sso = {1}
  r1 = r1
  r2 = r2
  v1 = v1
  v2 = v2
  Renewal = {r1, r2}
  Revocation = {v1}
  Nobody = Nobody
  AccessLife = 1
  GuardLife = 1
  CheckFailure = "deny"
  RedisFails = TRUE
  IdpFails = TRUE
  Interrupts = TRUE
  Losses = {"disabled"}
  MaxId = 3
SYMMETRY RenewalSymmetry
SPECIFICATION Spec
INVARIANTS TypeOK RevokedStaysRevoked RevokedTokensRefused
PROPERTY TokenExchangedOnce
