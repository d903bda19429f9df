\* Both frame formats, with wrong bits, noise and a reset.
SPECIFICATION FairSpec
CONSTANTS
  Configs <- AllConfigs
  CrcSize = 2
  Crc <- MCCrc
  Descramble <- MCDescramble
  Chunks <- MCChunks
  MaxSends = 3
  MaxResets = 1
INVARIANTS
  FrameFaithful
  NoFrameMissed
  ResetForgets
PROPERTIES
  ImplementsDecoder
  InputDrained
\* A behaviour ends after MaxSends chunks.
CHECK_DEADLOCK FALSE
