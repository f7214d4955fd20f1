SPECIFICATION Spec
CONSTANTS
  a = a
  b = b
  folder = folder
  below = below
  home = home
  own = own
  nameA = nameA
  nameB = nameB
  upA = upA
  ver = ver
  plain = plain
  kind = kind
  None = None
  Empty = Empty
  Path = {a, b}
  Text = {t, u}
  Place = {home, own}
  Home = home
  Version = {ver}
  Root = {folder, below}
  RootOf <- MCRootOf
  Name = {nameA, nameB, upA}
  Rel <- MCRel
  Under <- MCUnder
  Ignores <- MCIgnores
  KindsOf <- MCKindsOf
  MaxEvents = 4
CHECK_DEADLOCK FALSE
INVARIANTS
  IgnoredStayOut
  FollowsConfig
