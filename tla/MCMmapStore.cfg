\* Two harts, three nodes: conservation, the list in memory, walks, the pool.
CONSTANTS
  h0 = h0
  h1 = h1
  CPU <- Harts
  NoCPU = NoCPU
  N_MMAP = 3
SPECIFICATION Spec
INVARIANTS Conservation AllocExact ShownExact
PROPERTY ImplementsPool
