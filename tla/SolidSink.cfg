SPECIFICATION FairSpec
CONSTANTS
  p1 = p1
  p2 = p2
  MaxFiles = 3
  MaxBlocks = 2
  MaxTotal = 2
  Absent = Absent
  Old = Old
  Paths <- MCPaths
  Groups <- MCGroups
INVARIANTS
  TypeOK
  Routed
  WritesOnlySound
  RejectedForCause
PROPERTIES
  DeliversAllOrNothing
  Terminates
