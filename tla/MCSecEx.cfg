SPECIFICATION LiveSpec
CONSTANTS
  Pids = {p1}
  Size <- MCSize
  Lens = {3}
  MAX_SEC_SZ = 4
  Bufs = {b1, b2}
  NoBuf = NoBuf
  NoPid = NoPid
  MaxGarbles = 1
INVARIANTS
  SectionsExact
  PacketsReleased
PROPERTY
  SectionsResume
