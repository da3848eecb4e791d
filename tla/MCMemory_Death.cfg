CONSTANTS
  Jobs <- MCJobs
  JobOrder <- MCOrder
  Deps <- MCDeps
  Shards <- MCShards
  NodeSeq <- MCNodes
  GpuSeq <- MCGpus
  MemCap = 16
  MarginPct = 10
  Paths <- MCPaths
  Cost <- MCZero
  VramPct = 50
  TimeLimit = 1
  Rates = {}
  RamBaseline = 0
  ContextVram = 0
  InputSize <- MCInput
  DeclaredOut <- MCDeclared
  OutBytes <- MCOut
  DeviceResident = {}
  SpillFloor = 2
  SpillBudget = 8
  SharedFloor = 100
  SharedMinConsumers = 2
  MayFail = {"q"}
  WrongShards = {}
  WorkersMayDie = TRUE
  SampleSizes = {}
  MaxSamples = 0
SPECIFICATION Spec
CHECK_DEADLOCK FALSE
PROPERTY Terminates
