\* Every block of bytes under every page table.
CONSTANTS
  PGSIZE = 4
  NPages = 3
  Wrap = 32
  Lengths <- AnyLength
SPECIFICATION FairSpec
INVARIANTS Guarded CopyinExact CopyoutExact StrExact
PROPERTY Returns
CHECK_DEADLOCK FALSE
