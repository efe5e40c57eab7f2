SPECIFICATION FairTimeSpec
CONSTANTS
  d0 = d0  d1 = d1  d2 = d2  Idle = Idle
  Cpus = {0, 1}
  Vcpus = {d2}
  Domains = {d0, d1, d2}
  Dom0 = d0
  VcpuDomain <- SelfDomain
  Strategies = {"RM"}
  InitStrategy = "RM"
  InitPeriod <- RmPeriod
  InitSlice <- RmSlice
  InitPriority <- NoPriority
  Senders = {}
  TaskletCpus = {}
  Affinities = {{0}, {1}}
  Adjustments = {}
  AdjustDomains = {}
  GuestOps = {}
  CtlOps = {"pause", "affinity"}
  QuietAdjust = TRUE
  MigrateRunning = TRUE
  Tick = 1
INVARIANTS   PausedOffCpu
PROPERTIES PauseCompletes MigrationCompletes
