\* Two harts, three pages: conservation, the list in memory, the pool.
CONSTANTS
  h0 = h0
  h1 = h1
  CPU <- Harts
  NoCPU = NoCPU
  AllocBegin = 1
  KernPages = 2
  AllocEnd = 4
SPECIFICATION FairSpec
INVARIANTS Conservation FreeChain CountExact
PROPERTIES ImplementsPool LockReturned
