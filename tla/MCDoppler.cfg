\* A second of three steps, two samples each; messages anywhere, or none.
SPECIFICATION Spec
CONSTANTS
  Degree = 3
  Modulus = 65536
  CorrectionsPerSec = 3
  UpdatePeriod = 2
  Offset = 5
  Diffs = {4, 5}
  Garbage = {9}
  MaxItems = 12
  MaxMessages = 4
  MaxResets = 1
INVARIANTS
  TypeOK
  StepsCoverSamples
  TableCurrent
  AppliedIsPredicted
\* A behaviour ends after MaxItems samples.
CHECK_DEADLOCK FALSE
