SPECIFICATION Spec
CONSTANTS
  p1 = p1
  p2 = p2
  Absent = Absent
  Old = Old
  Dir = Dir
  MaxEntries = 2
  Paths <- MCPaths
  Trees <- MCTrees
  Archives <- MCArchives
INVARIANT DeclaredSizeDelivered
