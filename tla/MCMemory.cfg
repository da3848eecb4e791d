CONSTANTS
  Jobs <- MCJobs
  JobOrder <- MCOrder
  Deps <- MCDeps
  Shards <- MCShards
  NodeSeq <- MCNodes
  GpuSeq <- MCGpus
  MemCap = 13
  MarginPct = 10
  Paths <- MCPaths
  Cost <- MCZero
  VramPct = 50
  TimeLimit = 1
  Rates = {}
  RamBaseline = 0
  ContextVram = 0
  InputSize <- MCInput
  DeclaredOut <- MCDeclared
  OutBytes <- MCOut
  DeviceResident = {}
  SpillFloor = 2
  SpillBudget = 5
  SharedFloor = 100
  SharedMinConsumers = 2
  MayFail <- MCJobs
  WrongShards = {}
  WorkersMayDie = FALSE
  SampleSizes <- MCSizes
  MaxSamples = 2
SPECIFICATION Spec
CHECK_DEADLOCK FALSE
INVARIANT TypeOK
INVARIANT SpillBudgetKept
INVARIANT NeverStalls
INVARIANT StallsAreForMemory
PROPERTY AdmissionKeepsMargin
