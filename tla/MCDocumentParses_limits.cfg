SPECIFICATION Spec
CONSTANTS
  Lint = {l1, l2}
  MaxVersion = 1
  MaxOpens = 2
  None = None
SYMMETRY Symmetry
INVARIANTS HitIsOwnText SecondCheckHits
