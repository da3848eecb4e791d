CONSTANTS
  Jobs <- MCJobs
  JobOrder <- MCOrder
  Deps <- MCDeps
  Shards <- MCShards
  NodeSeq <- MCNodes
  GpuSeq <- MCGpus
  MemCap = 40
  MarginPct = 10
  Paths <- MCPaths
  Cost <- MCCost
  VramPct = 50
  TimeLimit = 5
  Rates <- MCRates
  RamBaseline = 1
  ContextVram = 2
  InputSize <- MCInput
  DeclaredOut <- MCDeclared
  OutBytes <- MCOut
  DeviceResident = {"dev"}
  SpillFloor = 100
  SpillBudget = 0
  SharedFloor = 100
  SharedMinConsumers = 2
  MayFail <- MCJobs
  WrongShards = {}
  WorkersMayDie = FALSE
  SampleSizes = {}
  MaxSamples = 0
SPECIFICATION Spec
CHECK_DEADLOCK FALSE
INVARIANT DeviceMemoryReturned
