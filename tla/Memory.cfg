SPECIFICATION Spec
CONSTANTS
  HeapBlocks = {b1, b2, b3}
  SlabItems = {i1, i2}
  ConfigSizes = {8, 1000}
  RequestSizes = {5, 8, 20}
  Sizes = {0, 29, 32, 44}
SYMMETRY Symmetry
INVARIANTS
  CapacityCovers
  BlocksAccounted
PROPERTIES
  BlocksGoBack
  ReallocKeepsData
