CONSTANTS
  Sessions = {a, b}
  Protected = {a}
  Children = {c1}
  NoChild = NoChild
  Old = old
  Successors = {s1, s2}
  Trusted = {s1}
  OldVersions = {2}
  MaxChunk = 1
  Faults = {"earlyCrash", "lateAck", "lateRelease", "dupFails", "crash", "sigterm"}
SPECIFICATION FairSpec
PROPERTIES SuccessorSettles ReadersResume CommitReleases
CHECK_DEADLOCK FALSE
