SPECIFICATION ClientFairSpec
CONSTANTS
  Callers = {c1, c2, c3}
  None = None
  MaxAttempts = 2
  MaxIssues = 2
INVARIANTS
  TokensAreNotWasted
PROPERTIES
  OneStaleTokenIsSurvived
  CallsEnd
