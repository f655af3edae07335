SPECIFICATION FairSpec
CONSTANTS
  SeqMax = 2
  Window = 4
  Faults = {"commitRead", "dataRead", "quietWrite", "statusRead", "inputWrite"}
  MaxFaults = 1
  BootResults = {"loaded", "rejected"}
  ModuleFails = {"pump", "packet"}
  QuietRecovery = TRUE
  Rereads = 1
  Retries = 2
  Timeouts = FALSE
PROPERTIES FailureReported BothWaysFlow
CHECK_DEADLOCK FALSE
