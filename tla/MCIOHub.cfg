\* LDoms choose addresses below, within and above the hub's windows, the same
\* ones included.
SPECIFICATION Spec
CONSTANTS
  NDev = 2
  LDoms = {l1, l2}
  Size <- MCSize
  MaxSize = 8
  UniqBase = 12
  GuestBases = {4, 12, 28}
  W = 40
  MaxWrites = 3
INVARIANTS
  DecodeDisjoint
  EntriesLeadToWindows
  WindowReached
SYMMETRY Symmetry
