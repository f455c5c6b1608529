SPECIFICATION Spec
CONSTANTS
  v1 = v1
  v2 = v2
  Handlers = {h1, h2}
  Job = job
  Listing <- TwoCards
  Situations <- AllSituations
  MaxGeneration = 4
  MaxMessages = 2
  None = None
SYMMETRY Symmetry
CHECK_DEADLOCK FALSE
INVARIANTS
  SubmissionNeverRedraws
  OnlyRenderedIsSent
  PositionIsKept
PROPERTIES
  ProgressNeverHidesAScreen
