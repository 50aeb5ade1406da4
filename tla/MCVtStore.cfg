\* One magazine in memory, or three or all while programs are received.
SPECIFICATION Spec
CONSTANTS
  Mags = {m1, m2, m3, m4}
  Ptrs = {b1, b2, b3, b4, b5}
  NoMag = NoMag
  NoPtr = NoPtr
  mag_limit = 1
  PerPnr = 2
  MaxPnrs = 2
  MaxPk = 2
SYMMETRY StoreSymmetry
INVARIANTS
  OneHome
  PacketsKept
  ListSound
  ImageComplete
