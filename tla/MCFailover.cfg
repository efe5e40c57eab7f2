\* Periodic checkpointing and a crash of the primary, no other fault.
CONSTANTS
  n1 = n1
  n2 = n2
  d1 = d1
  Nics <- OneNic
  Disks <- OneDisk
  DevicesFail = FALSE
  MaxStream = 3
  Types = {"PV", "HVM"}
  Modes = {FALSE}
  PatientGuest = TRUE
  MaxVersion = 2
  MaxEvents = 1
  Faults = {"crash"}
SPECIFICATION Spec
PROPERTY FailsOver
CHECK_DEADLOCK FALSE
