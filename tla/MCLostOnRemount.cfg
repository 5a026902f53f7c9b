SPECIFICATION Spec
CONSTANTS
  a = a  b = b  x = x  y = y
  Clients = {a, b}
  ReadOnly = {}
  Renamers = {}
  Trees = {x, y}
  FirstTree = x
  MaxCommits <- MCOne
  MaxFaults = 1
  None = None
PROPERTY CommitsSurvive
