\* Event-driven checkpointing of a guest that writes its state node whenever
\* it likes; no fault.
CONSTANTS
  n1 = n1
  n2 = n2
  d1 = d1
  Nics <- TwoNics
  Disks <- NoDisk
  DevicesFail = FALSE
  MaxStream = 3
  Types = {"PV", "HVM"}
  Modes = {TRUE}
  PatientGuest = FALSE
  MaxVersion = 2
  MaxEvents = 2
  Faults = {}
SPECIFICATION Spec
INVARIANT AnswersMatch
CHECK_DEADLOCK FALSE
