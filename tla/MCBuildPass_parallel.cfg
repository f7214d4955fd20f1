SPECIFICATION Spec
CONSTANTS
  source = source
  part = part
  one = one
  two = two
  first = first
  second = second
  File <- MCFile
  Target <- MCTarget
  Input <- MCInput
  Output <- MCOutput
  Line <- MCLine
  Content <- MCContent
  Make <- MCMake
  Torn = 3
  Written <- MCWritten
  None = None
  Flags <- MCTogether
  MaxEdits = 1
INVARIANT PairsAreSafe
