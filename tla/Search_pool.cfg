SPECIFICATION Spec
CONSTANTS
  Vacancies = {v1, v2}
  Versions = {old, new, irrelevant}
  Relevant = {old, new}
  Configs <- Configurations
  ScopeOf <- Scopes
  Searches = {job, press}
  Presses = {press}
  Workers = {w1, w2}
  MaxAnalyses = 2
  Failures = {"malformed"}
  None = None
SYMMETRY Symmetry
INVARIANTS
  CompleteSearchIsCurrent
PROPERTIES
  NoRequestIsWasted
