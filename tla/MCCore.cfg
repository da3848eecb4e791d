CONSTANTS
  Jobs <- MCJobs
  JobOrder <- MCOrder
  Deps <- MCDeps
  Shards <- MCShards
  NodeSeq <- MCNodes
  GpuSeq <- MCGpus
  MemCap = 40
  MarginPct = 10
  Paths <- MCPaths
  Cost <- MCZero
  VramPct = 50
  TimeLimit = 1
  Rates = {}
  RamBaseline = 0
  ContextVram = 0
  InputSize <- MCInput
  DeclaredOut <- MCDeclared
  OutBytes <- MCOut
  DeviceResident = {}
  SpillFloor = 100
  SpillBudget = 0
  SharedFloor = 4
  SharedMinConsumers = 2
  MayFail <- MCJobs
  WrongShards = {"gen"}
  WorkersMayDie = TRUE
  SampleSizes = {}
  MaxSamples = 0
SPECIFICATION Spec
CHECK_DEADLOCK FALSE
INVARIANT LedgerExact
INVARIANT CoresExclusive
INVARIANT RefcountExact
INVARIANT ReadersServed
INVARIANT FailureIsolated
INVARIANT TerminalsReported
INVARIANT CleanExit
PROPERTY ImplementsLifecycle
