\* Both modes, each with two sets of constructor arguments.
SPECIFICATION FairSpec
CONSTANTS
  Mode5Configs <- MCConfigs5
  LengthFieldLen = 2
  GolayDecode <- MCGolayDecode
  Mode5Chunks <- MCChunks5
  MaxHeld = 8
  Mode6Configs <- MCConfigs6
  MaxFrameLen = 6
  HeaderLen = 1
  FcsLen = 1
  Mode6Chunks <- MCChunks6
  Parity = 1
  RsDecode <- MCRsDecode
  CrcSize = 1
  Crc <- MCCrc
  Descramble <- MCDescramble
  MaxSends = 3
  MaxResets = 1
INVARIANTS
  BufferAccounted
  FrameFaithful
  NoFrameMissed
PROPERTIES
  ImplementsDecoder
  DecodeReturns
\* A behaviour ends after MaxSends chunks.
CHECK_DEADLOCK FALSE
