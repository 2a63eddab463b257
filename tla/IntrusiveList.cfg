SPECIFICATION Spec
CONSTANTS
  e1 = e1
  e2 = e2
  e3 = e3
  e4 = e4
  Elem <- Elems
  List <- Lists
  Null = Null
INVARIANTS
  TypeOK
  IteratorFollowsScan
  PointersRepresentQueues
