\* Blocks of up to two pages mapped, unmapped and mapped anew; tables run out.
CONSTANTS
  root = root
  p1 = p1
  p2 = p2
  p3 = p3
  p4 = p4
  Table <- Tables
  Root = root
  Fanout = 2
  VA_MAX = 5
  PPage <- Physical
  Invalid = Invalid
  Nowhere = Nowhere
  MaxLen = 2
SPECIFICATION Spec
SYMMETRY Symmetry
INVARIANT TreeShape
PROPERTIES ImplementsMap PageExact
CHECK_DEADLOCK FALSE
