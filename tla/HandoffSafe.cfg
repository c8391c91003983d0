CONSTANTS
  Sessions = {a}
  Protected = {}
  Children = {c1, c2}
  NoChild = NoChild
  Old = old
  Successors = {s1, s2}
  Trusted = {s1, s2}
  OldVersions = {2, 3}
  MaxChunk = 2
  Faults = {"earlyCrash"}
SYMMETRY MCSymmetry
SPECIFICATION Spec
INVARIANTS TypeOK SealDiscipline OneReader AdoptedIsCurrent  SessionsSurvive ExitOnce OnePublisher
 
CHECK_DEADLOCK FALSE
