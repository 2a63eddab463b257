SPECIFICATION Spec
CONSTANTS
  k1 = k1
  k2 = k2
  k3 = k3
  k4 = k4
  k5 = k5
  Key <- Keys
  Hash <- Hashes
  Value = {1, 2}
  None = None
  MinSize = 4
  MaxBins = 16
INVARIANTS
  TypeOK
  NeverWrong
  LoadBounded
  IsTheMap
