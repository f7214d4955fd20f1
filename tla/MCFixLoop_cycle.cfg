CONSTANTS
  a = a
  b = b
  c = c
  i1 = i1
  i2 = i2
  i3 = i3
  i4 = i4
  i5 = i5
  i6 = i6
  i7 = i7
  m = m
  t1 = t1
  t2 = t2
  t3 = t3
  Nowhere = Nowhere
  Blank = Blank
  File <- MCFile
  Paths <- MCPaths
  Nets <- MCRing
  Issue <- MCIssue
  Rules <- MCRules
  Spawn <- MCSpawn
  Foreign = {i3}
  Matter <- MCMatter
  Hidden = {m}
  Own <- MCOwn
  Typed <- MCTyped
  Projects <- MCProjects
  Leaf <- MCLeaf
  MaxIncludeDepth = 2
  RulePasses = 10
  WorkspacePasses = 10
  MaxRuns = 1
  MaxSaves = 0
  MaxTroubles = 0
SPECIFICATION Spec
CHECK_DEADLOCK FALSE
INVARIANT CyclesConverge
