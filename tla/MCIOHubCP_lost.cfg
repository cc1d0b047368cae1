\* Two runs of the tool overlap between search and write.
SPECIFICATION CPSpec
CONSTANTS
  Procs = {p1, p2}
  Devices = {d1, d2}
  DSids = {0, 1}
  NRows = 2
  RowIds = 4
  Serial = FALSE
INVARIANTS
  MaskAsGranted
SYMMETRY Symmetry
