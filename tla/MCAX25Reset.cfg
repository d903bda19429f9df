\* A reset between two calls.
SPECIFICATION Spec
CONSTANTS
  MaxFrameLen = 4
  MinFrameLen = 3
  CrcCheck = TRUE
  ErrorCorrection = FALSE
  Fcs <- MCFcs
  Chunks <- BurstChunks
  MaxCalls = 3
  MaxResets = 1
INVARIANTS
  ResetForgets
\* A behaviour ends after MaxCalls calls.
CHECK_DEADLOCK FALSE
