CONSTANTS
  SeqMax = 2
  Window = 4
  Faults = {}
  MaxFaults = 0
  BootResults = {"loaded"}
  ModuleFails = {"input"}
  QuietRecovery = FALSE
  Rereads = 1
  Retries = 2
  Timeouts = FALSE
SPECIFICATION Spec
PROPERTIES ErrorLatched
CHECK_DEADLOCK FALSE
