SPECIFICATION SchemaSpec
CONSTANTS
  main = main
  base = base
  frag = frag
  Path <- MCPath
  Content <- MCContent
  Nil = Nil
  Schema = {main}
  Reader = {r1}
  Entry = {x1, x2}
  MaxVer = 1
INVARIANTS FragmentEvicts NoDependentIsLost
