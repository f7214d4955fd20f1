SPECIFICATION SessionSpec
CONSTANTS
  Doc = {a, b}
  Caller = {c1}
  Method = {"Check", "CheckVersion"}
  MaxVer = 2
  None = None
SYMMETRY Symmetry
INVARIANTS QuietInvalidateHeals
