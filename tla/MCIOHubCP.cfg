\* One run of the tool at a time, three LDoms, two rows: the table fills up.
SPECIFICATION CPFairSpec
CONSTANTS
  Procs = {p1}
  Devices = {d1, d2}
  DSids = {0, 1, 2}
  NRows = 2
  RowIds = 4
  Serial = TRUE
INVARIANTS
  OneRowPerLDom
  TagFollowsTable
  MaskAsGranted
PROPERTIES
  ToolReturns
