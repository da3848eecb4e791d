CONSTANTS
  NodeSeq <- MCNodes
  GpuSeq <- MCGpus
  MemCap = 25
  MarginPct = 10
  Slots = {s1, s2, s3}
  PathSet <- MCPathSet
  HeldSizes = {0, 7}
SPECIFICATION Spec
SYMMETRY MCSymmetry
INVARIANT GrantsAreFree
INVARIANT CapableIsPlaceable
INVARIANT ReturningHelps
