\* Three holders share three blocks; events may use all of them, packets two.
SPECIFICATION Spec
CONSTANTS
  Holders = {port1, port2, dvb}
  Bufs = {b1, b2, b3}
  Limit = 2
SYMMETRY PoolSymmetry
INVARIANTS
  RefcountExact
  NumBuffersExact
  DataWithinLimit
