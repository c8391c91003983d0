SPECIFICATION Spec
CONSTANTS
  Conns = {c1, c2}
  Budget = 2
  OutLen = 1
  SnapLen = 2
  StatusLen = 2
  ExitLen = 1
  MaxChunk = 2
  MaxReg = 2
  Faults = {}
  c1 = c1
  c2 = c2
INVARIANTS
  MailboxBound
  
PROPERTIES
  CutoverClean
SYMMETRY MCSymmetry
CHECK_DEADLOCK FALSE
