\* The four points of doppler_correction_cc, one frequency.
SPECIFICATION Spec
CONSTANTS
  Degree = 4
  Modulus = 65536
  CorrectionsPerSec = 3
  UpdatePeriod = 2
  Offset = 5
  Diffs = {5}
  Garbage = {9}
  MaxItems = 16
  MaxMessages = 4
  MaxResets = 0
INVARIANTS
  SteadyFrequency
\* A behaviour ends after MaxItems samples.
CHECK_DEADLOCK FALSE
