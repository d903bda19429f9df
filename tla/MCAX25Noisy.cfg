\* The CRC check on: whole frames, halves of one, and noise, in any order.
SPECIFICATION Spec
CONSTANTS
  MaxFrameLen = 4
  MinFrameLen = 3
  CrcCheck = FALSE
  ErrorCorrection = TRUE
  Fcs <- MCFcs
  Chunks <- NoisyChunks
  MaxCalls = 4
  MaxResets = 1
INVARIANTS
  NoBitLost
  Cursors
  FrameFaithful
PROPERTIES
  ImplementsDecoder
\* A behaviour ends after MaxCalls calls.
CHECK_DEADLOCK FALSE
