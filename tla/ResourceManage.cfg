\* Blocks of two objects; any pointer may be put at any time.
SPECIFICATION Spec
CONSTANTS
  p1 = p1
  p2 = p2
  p3 = p3
  p4 = p4
  Objects = {p1, p2, p3, p4}
  Null = Null
  Unit = 2
  MaxBlocks = 2
  MaxUnused = 5
SYMMETRY Symmetric
INVARIANTS
  
  NothingLost
