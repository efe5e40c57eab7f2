SPECIFICATION Spec
CONSTANTS
  d0 = d0  d1 = d1  d2 = d2  Idle = Idle
  Cpus = {0, 1}
  Vcpus = {d1}
  Domains = {d0, d1, d2}
  Dom0 = d0
  VcpuDomain <- SelfDomain
  Strategies = {"FP"}
  InitStrategy = "FP"
  InitPeriod <- MCPeriod
  InitSlice <- MCSlice
  InitPriority <- MCPriority
  Senders = {}
  TaskletCpus = {}
  Affinities <- Pins
  Adjustments <- MCAdjustments
  AdjustDomains = {d1}
  GuestOps = {}
  CtlOps = {"affinity", "adjust"}
  QuietAdjust = TRUE
  MigrateRunning = TRUE
PROPERTIES SwitchAssertions
