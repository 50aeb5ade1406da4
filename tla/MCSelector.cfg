\* Two ports, two pids; events can push the pool one block over the limit.
SPECIFICATION Spec
CONSTANTS
  Ports = {p1, p2}
  Pids = {v, a}
  Bufs = {b1, b2, b3}
  Limit = 2
  NumBuf = 2
  MaxHand = 1
  MaxSend = 1
  Evt = Evt
  Unfilled = Unfilled
  Free = Free
SYMMETRY BufSymmetry
INVARIANTS
  RefcountExact
  BuffersCounted
  FiltersFollowPorts
PROPERTIES
  EventsSurvive
  FifoOrder
