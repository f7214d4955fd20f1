SPECIFICATION FairSpec
CONSTANTS
  Path = {p1}
  Reader = {r1, r2}
  Editor = {e1}
  Entry = {x1, x2, x3, x4, x5}
  MaxVer = 0
  Snapshots = FALSE
  None = None
PROPERTY ReadsFinish
