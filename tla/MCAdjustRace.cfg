SPECIFICATION Spec
CONSTANTS
  d0 = d0  d1 = d1  d2 = d2  Idle = Idle
  Cpus = {0}
  Vcpus = {d1}
  Domains = {d0, d1, d2}
  Dom0 = d0
  VcpuDomain <- SelfDomain
  Strategies = {"FP"}
  InitStrategy = "FP"
  InitPeriod <- MCPeriod
  InitSlice <- MCSlice
  InitPriority <- MCPriority
  Senders = {1}
  TaskletCpus = {}
  Affinities <- Pins
  Adjustments <- MCAdjustments
  AdjustDomains = {d1}
  GuestOps = {"block"}
  CtlOps = {"adjust"}
  QuietAdjust = FALSE
  MigrateRunning = FALSE
INVARIANTS RunqIntegrity
