\* An LDom's address above the window.
SPECIFICATION Spec
CONSTANTS
  NDev = 2
  LDoms = {l1, l2}
  Size <- MCSize
  MaxSize = 8
  UniqBase = 12
  GuestBases = {4, 12, 28}
  W = 40
  MaxWrites = 3
INVARIANTS
  ShadowMapsToUniq
SYMMETRY Symmetry
