\* Both modes, both kinds of guest, every fault; a guest that writes its
\* state node only when a checkpoint is awaited.
CONSTANTS
  n1 = n1
  n2 = n2
  d1 = d1
  Nics <- OneNic
  Disks <- OneDisk
  DevicesFail = TRUE
  MaxStream = 2
  Types = {"PV", "HVM"}
  Modes = {FALSE, TRUE}
  PatientGuest = TRUE
  MaxVersion = 2
  MaxEvents = 1
  Faults = {"crash", "cut", "late", "backup"}
SPECIFICATION Spec
INVARIANTS RemusTypeOK AnswersMatch BackupConsistent OutputCommit SessionEndsClean RemusInv
PROPERTIES EveryRequestAnswered GuestResumes TakesOver
CHECK_DEADLOCK FALSE
