\* A BAR write that is refused once.
SPECIFICATION Spec
CONSTANTS
  NDev = 2
  LDoms = {l1, l2}
  Size <- MCSize
  MaxSize = 8
  UniqBase = 12
  GuestBases = {4, 12, 28}
  W = 40
  MaxWrites = 3
INVARIANTS
  ReadsBackOwn
SYMMETRY Symmetry
