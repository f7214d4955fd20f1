SPECIFICATION Spec
CONSTANTS
  Path = {p1, p2}
  Reader = {r1, r2}
  Editor = {e1}
  Entry = {x1, x2, x3, x4, x5, x6, x7}
  MaxVer = 1
  Snapshots = TRUE
  None = None
SYMMETRY Symmetry
INVARIANT ReadIsFresh
VIEW Live
