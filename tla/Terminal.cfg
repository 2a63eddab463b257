SPECIFICATION Spec
CONSTANTS
  t1 = t1
  t2 = t2
  Reader <- TwoReaders
  Char = {"a", "nl"}
  KbdSize = 2
  RawSize = 2
  Sizes = {1, 3}
  None = None
CHECK_DEADLOCK FALSE
SYMMETRY ReaderSymmetry
INVARIANTS
  TypeOK
  KeysArriveInOrder
  CanonicalShowsOneLine
  ParkedIsQueued
  NoSleepOnInput
  ReadGetsSome
