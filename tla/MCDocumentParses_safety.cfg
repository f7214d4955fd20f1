SPECIFICATION Spec
CONSTANTS
  Lint = {l1, l2, l3}
  MaxVersion = 3
  MaxOpens = 2
  None = None
SYMMETRY Symmetry
INVARIANTS TypeOK WatermarkHolds OnlyLatePutsMislead
