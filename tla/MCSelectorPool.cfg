\* One pid: the buffer pool behind the selector.
SPECIFICATION LiveSpec
CONSTANTS
  Ports = {p1, p2}
  Pids = {v}
  Bufs = {b1, b2}
  Limit = 2
  NumBuf = 2
  MaxHand = 1
  MaxSend = 1
  Evt = Evt
  Unfilled = Unfilled
  Free = Free
PROPERTIES
  BuffersComeBack
  ImplementsPool
