\* The CRC check off and error correction on: damaged frames.
SPECIFICATION FairSpec
CONSTANTS
  MaxFrameLen = 4
  MinFrameLen = 3
  CrcCheck = TRUE
  ErrorCorrection = TRUE
  Fcs <- MCFcs
  Chunks <- DamagedChunks
  MaxCalls = 4
  MaxResets = 1
INVARIANTS
  NoFrameDiscarded
PROPERTIES
  DecodeReturns
\* A behaviour ends after MaxCalls calls.
CHECK_DEADLOCK FALSE
