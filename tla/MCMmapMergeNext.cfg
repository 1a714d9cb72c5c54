\* A block that ends where a region begins and touches no other.
CONSTANTS
  N_MMAP = 3
  MMAP_BEGIN <- AreaBegin
  MMAP_END <- AreaEnd
  SpanWrap = 16
  AddrWrap = 32
  Frames = 6
  Begins <- AnyBegin
  Lengths <- UpToSix
  NextOnlyMerge = TRUE
  FullStoreSplit = FALSE
SPECIFICATION Spec
INVARIANT WellFormed
