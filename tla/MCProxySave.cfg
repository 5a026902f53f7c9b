SPECIFICATION SaveSpec
CONSTANTS
  a = a  b = b  p1 = p1  p2 = p2  x = x  y = y
  Pushers = {a, b}
  Paths = {p1, p2}
  Contents = {x}
  Absent = Absent
  FirstTree <- OneFile
  MaxCommits = 2
  Maintained = {a}
  MaxEdits <- MCTwoOne
  MaxFaults = 1
  None = None
INVARIANTS SaveTypeOK SyncedIsOnRemote MissingIsPending WholeWhenQuiet WalkStaysInClone WorkingCopyFollows
PROPERTIES RefreshDropsOnlyUnsent ImplementsBranch SavesReturn
CHECK_DEADLOCK FALSE
