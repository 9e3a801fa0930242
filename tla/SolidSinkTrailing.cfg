SPECIFICATION Spec
CONSTANTS
  p1 = p1
  p2 = p2
  MaxFiles = 2
  MaxBlocks = 2
  MaxTotal = 2
  Absent = Absent
  Old = Old
  Paths <- MCPaths
  Groups <- MCGroups
INVARIANTS
  FinishRefusesTruncation
