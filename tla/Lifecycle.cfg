SPECIFICATION Spec
CONSTANTS
  Handlers = {h1, h2}
  MaxChanges = 4
SYMMETRY Symmetry
INVARIANTS
  StatusIsRecorded
PROPERTIES
  ViewNeverOverrides
  AppliedAtIsKept
  ImplementsLifecycle
