SPECIFICATION Spec
CONSTANTS
  f1 = f1
  f2 = f2
  f3 = f3
  f4 = f4
  absent = absent
  big = big
  front = front
  ignored = ignored
  plain = plain
  node = node
  repo = repo
  misset = misset
  kind = kind
  None = None
  File = {f1, f2, f3, f4, absent, big, front, ignored}
  Ignored = {ignored}
  Unreadable = {absent}
  TooLarge = {big}
  BadFront = {front}
  Protected = {f2}
  Fronted = {f2}
  Kind = {None, kind}
  KindOf <- MCKindOf
  Overridden = {f2, f3}
  On <- MCOn
  Rule = {plain, node, repo, misset}
  Misset = {misset}
  Node = {node}
  Repo = {repo}
  Sharing = {plain}
  Finds <- MCFinds
  PanicsOn <- MCPanicsOn
  Run <- MCBad
  Procs = 2
  Worker = {1, 2}
  Buffer = {1, 2, 3}
CHECK_DEADLOCK FALSE
INVARIANTS
  SettingsMakeNoDifference
