\* A region is split when the store is empty.
CONSTANTS
  N_MMAP = 2
  MMAP_BEGIN <- AreaBegin
  MMAP_END <- AreaEnd
  SpanWrap = 16
  AddrWrap = 32
  Frames = 6
  Begins <- AnyBegin
  Lengths <- UpToSix
  NextOnlyMerge = FALSE
  FullStoreSplit = TRUE
SPECIFICATION Spec
VIEW View
INVARIANT MappedExact
