\* Argos with its CRC check: three flags, two more, and a good frame.
SPECIFICATION Spec
CONSTANTS
  Kinds <- ArgosOnly
  ArgosMaxFrameLen = 5
  ArgosFcs <- MCFcs
  ArgosConfigs <- CheckedConfig
  ArgosChunks <- FlagChunks
  MaxSends = 3
  Control <- MCControl
  NegTable <- MCNegTable
  PosTable <- MCPosTable
  FrameWords = 4
  AmsatParity = 2
  Codewords <- MCCodewords
  SpacecraftIds <- MCSpacecraftIds
  AmsatChunks <- MCAmsatChunks
  AmsatMaxSends = 4
  Sentences <- MCSentences
  InjectErrors = TRUE
  PauseDots = 16
  DotWindows = 4
  ConfNum = 3
  ConfDen = 5
  MinLen = 2
  MaxLen = 3
  DirtyWindows = 2
  NfWindows = 2
  ChannelsNum = 2
  Recordings <- MCRecordings
  LeadIn = 9
  WorkSizes <- MCWorkSizes
  DecodeSizes <- MCDecodeSizes
  MaxErrors = 1
  MaxQueued = 0
  MaxAir = 8
  MaxSentences = 2
  MaxResets = 0
INVARIANTS
  AnyNumberOfFlags
\* A behaviour ends after MaxSends chunks.
CHECK_DEADLOCK FALSE
