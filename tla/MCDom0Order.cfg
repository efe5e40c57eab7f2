SPECIFICATION Spec
CONSTANTS
  d0 = d0  d1 = d1  d2 = d2  Idle = Idle
  Cpus = {0}
  Vcpus = {d0, d1, d2}
  Domains = {d0, d1, d2}
  Dom0 = d0
  VcpuDomain <- SelfDomain
  Strategies = {"RM", "FP"}
  InitStrategy = "RM"
  InitPeriod <- DefaultPeriod
  InitSlice <- MCSlice
  InitPriority <- MCPriority
  Senders = {}
  TaskletCpus = {}
  Affinities <- Pins
  Adjustments <- MCAdjustments
  AdjustDomains = {}
  GuestOps = {}
  CtlOps = {"strategy"}
  QuietAdjust = TRUE
  MigrateRunning = FALSE
INVARIANTS AllSorted
