SPECIFICATION FairSpec
CONSTANTS
  DeltaModes = {{1, 3}}
  PlainModes = {{0}, {2}}
  Values = {0, 1}
  Streaming = TRUE
  DmaFails = TRUE
INVARIANTS TypeOK InStep ShownIsFrame
PROPERTIES FrameCompletes
CHECK_DEADLOCK FALSE
