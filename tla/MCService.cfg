SPECIFICATION ServiceSpec
CONSTANTS
  d0 = d0  d1 = d1  d2 = d2  Idle = Idle
  Cpus = {0}
  Vcpus = {d1, d2}
  Domains = {d0, d1, d2}
  Dom0 = d0
  VcpuDomain <- SelfDomain
  Strategies = {"RM"}
  InitStrategy = "RM"
  InitPeriod <- RmPeriod
  InitSlice <- RmSlice
  InitPriority <- NoPriority
  Senders = {1}
  TaskletCpus = {}
  Affinities = {}
  Adjustments = {}
  AdjustDomains = {}
  GuestOps = {"block"}
  CtlOps = {}
  QuietAdjust = TRUE
  MigrateRunning = FALSE
  Tick = 2
INVARIANTS TimeTypeOK BudgetBound ReplenishedInTime
PROPERTIES DispatchOrder SliceReceived
