\* Heap, mmap and stack side by side; the frames run out.
CONSTANTS
  PGSIZE = 2
  VA_MAX = 30
  Wrap = 40
  MMAP_BEGIN = 12
  MMAP_END = 18
  Frames = 10
  Tops <- HeapTops
  Faults <- AllFaults
SPECIFICATION Spec
INVARIANTS Apart SpaceExact FramesExact
PROPERTY FaultServed
CHECK_DEADLOCK FALSE
