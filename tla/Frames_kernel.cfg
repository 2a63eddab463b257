SPECIFICATION Spec
CONSTANTS
  d1 = d1
  d2 = d2
  d3 = d3
  Dir <- Dirs
  InitDir = d1
  NPages = 2
  NFrames = 9
  NKernel = 3
  PageSize = 4
  WordBits = 4
CHECK_DEADLOCK FALSE
SYMMETRY DirSymmetry
INVARIANT KernelFramesKept
