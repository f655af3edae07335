SPECIFICATION Spec
CONSTANTS
  SeqMax = 2
  Window = 4
  Faults = {"commitRead", "ackRead", "statusRead", "dataRead", "ackWrite", "inputWrite"}
  MaxFaults = 2
  BootResults = {"loaded", "rejected", "entryFailed"}
  ModuleFails = {"input", "ack", "pump", "packet"}
  QuietRecovery = FALSE
  Rereads = 2
  Retries = 3
  Timeouts = TRUE
INVARIANTS TypeOK InputInOrder
PROPERTIES ImplementsChannel SilentAfterFailure
CHECK_DEADLOCK FALSE
