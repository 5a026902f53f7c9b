SPECIFICATION Spec
CONSTANTS
  a = a  b = b  x = x  y = y
  Clients = {a, b}
  ReadOnly = {}
  Renamers = {a}
  Trees = {x, y}
  FirstTree = x
  MaxCommits <- MCIdleB
  MaxFaults = 1
  None = None
PROPERTY IdleMountOwesNothing
