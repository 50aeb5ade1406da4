\* Up to MaxLinks - 1 blocks in MaxEnd units of file.
SPECIFICATION FpSpec
CONSTANTS
  HDR = 1
  ReqSizes = {1, 2, 4}
  FragSizes = {1}
  DefFrag = 6
  MaxLinks = 8
  MaxEnd = 15
INVARIANTS
  ChainSound
  TreeSound
  BestFit
PROPERTY
  ImplementsHeap
