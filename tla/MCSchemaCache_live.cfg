SPECIFICATION FairSpec
CONSTANTS
  main = main
  base = base
  frag = frag
  Path = {main, base}
  Content <- MCCycle
  Nil = Nil
  Schema = {main}
  Reader = {r1}
  Entry = {x1, x2}
  MaxVer = 0
PROPERTY InvalidateReturns
