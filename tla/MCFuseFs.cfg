SPECIFICATION Spec
CONSTANTS
  x = x  y = y  raw = raw
  Names = {1, 2, 4}
  AsDir <- MCAsDir
  Versions <- MCVersions
  Bytes = {x, y, raw}
  Submodule = Submodule
  RawTree <- MCRawTree
  MaxRead = 2
  MaxMoves = 2
  None = None
INVARIANTS TypeOK InodesKeepTheirPath ListingIsFaithful ReadIsFaithful
