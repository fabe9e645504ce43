SPECIFICATION Spec
CONSTANTS
  None = None
  Commands = {p1, p2}
  Deploys = {d1, d2}
  Usernames = {"alice"}
  Lifetime = 1
  MaxKeys = 3
  MaxTokens = 2
  MaxTime = 2
INVARIANTS TypeOK FreshTokensWork TLSChainVerifies RetiredKeysStayRetired NoTokenOutlivesItsLifetime
SYMMETRY Symmetry
CHECK_DEADLOCK FALSE
