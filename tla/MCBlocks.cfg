\* Each of the blocks by itself.
SPECIFICATION Spec
CONSTANTS
  BlockKinds <- All
  Asm <- MCAsm
  Threshold = 1
  RegLen = 4
  Window = 4
  CaduLen = 3
  Vcdu <- MCVcdu
  LrptChunks <- MCLrptChunks
  Phases = {0, 1}
  MaxLrptSends = 3
  MaxLrptHeld = 12
  Skip = 2
  NFrames = 4
  MaxFrames = 5
  MaxAliens = 2
  Payloads = {"empty", "short", "long", "huge"}
  FrameLen <- MCFrameLen
  SinkMtu = 5
  SourceMtu = 3
  MaxSent = 2
  MaxRecorded = 4
  MaxSecond = 2
  MaxStepsBack = 1
  MaxRestarts = 1
  GolayMessages <- MCGolayMessages
  MaxErrors = 4
  WhiteningConfigs <- MCWhiteningConfigs
  MaxUnderWay = 2
  MaxCount = 5
  Header <- MCHeader
  EncConfigs <- MCEncConfigs
  EncPdus <- MCEncPdus
  EncCrc <- MCEncCrc
  LineNoise <- MCLineNoise
  MaxOnLine = 3
INVARIANTS
  LrptAsSent
  FramesAccounted
  NoFileOverwritten
  GolayCorrects
  DescramblerRecovers
  EncodedReadable
PROPERTIES
  EachMessageArrives
\* Every bound is reached.
CHECK_DEADLOCK FALSE
