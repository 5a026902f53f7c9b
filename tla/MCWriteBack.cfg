SPECIFICATION Spec
CONSTANTS
  p1 = p1  p2 = p2  f1 = f1  f2 = f2
  Paths = {p1, p2}
  Contents <- MCContents
  Filters = {f1, f2}
  Absent = Absent
  Ghost = Ghost
  FirstTree <- OneFile
  RemoteTrees <- MCRemote
  MaxOps = 2
  MaxFetches = 1
  MaxFaults = 1
  MaxEvents = 3
  None = None  Moved = Moved
INVARIANTS TypeOK NothingForgotten PlaceholdersFit
SYMMETRY Symmetric
CHECK_DEADLOCK FALSE
