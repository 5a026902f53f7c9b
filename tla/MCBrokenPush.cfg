SPECIFICATION PushSpec
CONSTANTS
  a = a  b = b  p1 = p1  p2 = p2  x = x  y = y
  Pushers = {a}
  Paths = {p1, p2}
  Contents = {x, y}
  Absent = Absent
  FirstTree <- OneFile
  MaxCommits = 1
  MaxFaults = 1
  None = None
INVARIANTS BranchIsReadable
