\* Whole octets through the self-synchronising whitening.
SPECIFICATION Spec
CONSTANTS
  BlockKinds <- WhiteKind
  Asm <- MCAsm
  Threshold = 1
  RegLen = 4
  Window = 4
  CaduLen = 3
  Vcdu <- MCVcdu
  LrptChunks <- MCLrptChunks
  Phases = {0, 1}
  MaxLrptSends = 3
  MaxLrptHeld = 12
  Skip = 2
  NFrames = 4
  MaxFrames = 5
  MaxAliens = 2
  Payloads = {"empty", "short", "long", "huge"}
  FrameLen <- MCFrameLen
  SinkMtu = 5
  SourceMtu = 3
  MaxSent = 2
  MaxRecorded = 4
  MaxSecond = 2
  MaxStepsBack = 1
  MaxRestarts = 1
  GolayMessages <- MCGolayMessages
  MaxErrors = 4
  WhiteningConfigs <- SelfSyncOctets
  MaxUnderWay = 2
  MaxCount = 6
  Header <- MCHeader
  EncConfigs <- MCEncConfigs
  EncPdus <- MCEncPdus
  EncCrc <- MCEncCrc
  LineNoise <- MCLineNoise
  MaxOnLine = 3
INVARIANT
  DescrambleInverts
CHECK_DEADLOCK FALSE
