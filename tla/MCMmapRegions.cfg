\* Every sequence of calls that stays clear of the two defects.
CONSTANTS
  N_MMAP = 3
  MMAP_BEGIN <- AreaBegin
  MMAP_END <- AreaEnd
  SpanWrap = 16
  AddrWrap = 32
  Frames = 5
  Begins <- AnyBegin
  Lengths <- UpToSix
  NextOnlyMerge = FALSE
  FullStoreSplit = FALSE
SPECIFICATION FairSpec
VIEW View
INVARIANTS WellFormed Conservation MappedExact CallExact FirstFit
PROPERTIES ImplementsPageSet CallReturns
CHECK_DEADLOCK FALSE
