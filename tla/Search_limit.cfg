SPECIFICATION FairSpec
CONSTANTS
  Vacancies = {v1, v2, v3}
  Versions = {old}
  Relevant = {old}
  Configs <- FixedConfiguration
  ScopeOf <- Scopes
  Searches = {press}
  Presses = {press}
  Workers = {w1, w2}
  MaxAnalyses = 2
  Failures = {"service", "malformed", "unexpected"}
  None = None
INVARIANTS
  RequestsAreBounded
  FailuresStopThePool
PROPERTIES
  SearchEnds
