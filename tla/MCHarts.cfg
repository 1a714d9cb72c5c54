\* Boot, timer, echo and panic on two harts.
CONSTANTS
  h0 = h0
  h1 = h1
  CPU <- TwoHarts
  Boot = h0
  NoCPU = NoCPU
  Typed <- Input
  FifoSize = 2
  MaxFired <- Firings
  Period = 2
  MsgLen = 2
SPECIFICATION FairSpec
INVARIANTS InitBeforeUse TicksExact EchoExact Silence
PROPERTIES Served PanicHeard
CHECK_DEADLOCK FALSE
