SPECIFICATION Spec
CONSTANTS
  d0 = d0  d1 = d1  d2 = d2  Idle = Idle
  Cpus = {0}
  Vcpus = {d0, d1, d2}
  Domains = {d0, d1, d2}
  Dom0 = d0
  VcpuDomain <- SelfDomain
  Strategies = {"RM", "DM", "FP"}
  InitStrategy = "RM"
  InitPeriod <- MCPeriod
  InitSlice <- MCSlice
  InitPriority <- MCPriority
  Senders = {}
  TaskletCpus = {}
  Affinities = {}
  Adjustments <- MCAdjustments
  AdjustDomains = {d1}
  GuestOps = {}
  CtlOps = {"pause_nosync", "adjust", "strategy"}
  QuietAdjust = TRUE
  MigrateRunning = FALSE
INVARIANTS RunqIntegrity GuestsSorted SortingInv
