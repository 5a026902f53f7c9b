SPECIFICATION FairSpec
CONSTANTS
  a = a  b = b  x = x  y = y
  Clients = {a, b}
  ReadOnly = {b}
  Renamers = {a, b}
  Trees = {x, y}
  FirstTree = x
  MaxCommits <- MCTwoOne
  MaxFaults = 1
  None = None
INVARIANTS CountedIsRemote
PROPERTIES NoticedIsPushed RemoteFastForwards MountsFollow
