SPECIFICATION Spec
CONSTANTS
  p1 = p1  x = x
  Sessions = {s1, s2}
  Readers = {s1}
  Paths = {p1, p2}
  Contents = {x, y}
  Absent = Absent
  Unasked = Unasked
  None = None
  FirstTree <- OneFile
  MaxChanges = 2
INVARIANTS TypeOK AnswersAreRecent CommittedTookEffect FolderFollowsHead
PROPERTIES PushesAppend
