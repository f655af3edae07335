SPECIFICATION Spec
CONSTANTS
  DeltaModes = {{0, 1}}
  PlainModes = {}
  Values = {0, 1}
  Streaming = TRUE
  DmaFails = FALSE
INVARIANTS ShownIsFrame
