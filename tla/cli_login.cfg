\* Two logins that compete for the port, and the proxies that use the keyring.
CONSTANTS
  l1 = l1  l2 = l2
  x1 = x1  x2 = x2
  q1 = q1
  None = None
  Logins <- TwoLogins
  MaxCallbacks = 2
  Proxies <- TwoProxies
  MaxRuns = 2
  Requests <- OneRequest
  MaxTokens = 2
  Rotates = TRUE
SPECIFICATION FairSpec
INVARIANTS
  TypeOK
  SavedIsOwn
  RejectedHasRival
PROPERTIES
  LoginEnds
