\* The array of test 1, shorter than a page.
CONSTANTS
  PGSIZE = 4
  NPages = 3
  Wrap = 32
  Lengths <- AnyLength
SPECIFICATION Spec
INVARIANT SmallCopyReceived
CHECK_DEADLOCK FALSE
