SPECIFICATION Spec
CONSTANTS
  d0 = d0  d1 = d1  d2 = d2  Idle = Idle
  Cpus = {0, 1}
  Vcpus = {d1}
  Domains = {d0, d1, d2}
  Dom0 = d0
  VcpuDomain <- SelfDomain
  Strategies = {"FP"}
  InitStrategy = "FP"
  InitPeriod <- MCPeriod
  InitSlice <- MCSlice
  InitPriority <- MCPriority
  Senders = {1, 2}
  TaskletCpus = {0}
  Affinities <- Pins
  Adjustments <- MCAdjustments
  AdjustDomains = {}
  GuestOps = {"block", "yield"}
  CtlOps = {"pause", "pause_nosync", "affinity"}
  QuietAdjust = TRUE
  MigrateRunning = FALSE
INVARIANTS TypeOK NoLostEvent RunnableIsQueued RunstateAccurate Accounts TaskletsNoticed MigrationOwned
PROPERTIES ImplementsDispatch
