\* Two harts, two nested locks, handlers that print: safety, refinement, release.
CONSTANTS
  h0 = h0
  h1 = h1
  list_lk = list_lk
  print_lk = print_lk
  NoCPU = NoCPU
  NoLock = NoLock
  CPU <- Harts
  Lock <- NestedLocks
  TaskLocks <- NestedLocks
  IrqLocks <- PrintLock
  Rank <- NestedRank
  MaxOff = 1
SPECIFICATION FairSpec
VIEW View
INVARIANTS MutualExclusion NoPanic NestedHolds IntrStack
PROPERTIES ImplementsLock LeafReleased
