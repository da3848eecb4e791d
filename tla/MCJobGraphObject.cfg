CONSTANTS
  Jobs <- MCJobs
  ShardsOf <- MCShards
  Graphs <- MCGraphs
SPECIFICATION Spec
CHECK_DEADLOCK FALSE
INVARIANT VerdictIsRight
INVARIANT WalkReturnsComponent
PROPERTY AlwaysAnswers
