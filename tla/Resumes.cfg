SPECIFICATION Spec
CONSTANTS
  Resumes = {r1, r2, r3}
  Tasks = {p1, p2}
  None = None
  MaxChanges = 2
SYMMETRY Symmetry
INVARIANTS
  DefaultIsUnique
PROPERTIES
  SyncKeepsChoice
  SyncRepairs
