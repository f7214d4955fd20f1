SPECIFICATION SessionSpec
CONSTANTS
  Doc = {a, b}
  Caller = {c1, c2}
  Method = {"Check", "CheckVersion"}
  MaxVer = 1
  None = None
SYMMETRY Symmetry
INVARIANTS SessionTypeOK QuietInvalidateHeals CheckIsFresh NextOperationSees
