SPECIFICATION Spec
CONSTANTS
  Drafts = {d1}
  Generated = {g1, g2}
  Typed = {t1}
  Handlers = {h1, h2}
  MaxTokens = 1
  None = None
SYMMETRY Symmetry
CHECK_DEADLOCK FALSE
INVARIANTS
  PostedLetterIsTheUsers
  EditPageAsks
