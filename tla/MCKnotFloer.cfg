CONSTANTS
  MarkerLists <- MCMarkerLists
  SliceStates <- MCSliceStates
SPECIFICATION Spec
INVARIANT TraceIsRight
INVARIANT JobsAccepted
INVARIANT KernelAgrees
INVARIANT ChainComplex
INVARIANT MergeIsSerial
INVARIANT PriceCovers
INVARIANT HfkIsKnotFloer
INVARIANT TauIsBounded
