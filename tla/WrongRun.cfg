\* Two acquisitions, between which a board changes detectors; no access fails.
SPECIFICATION Spec
CONSTANTS
  fDetectorType = "gastof"
  Setups <- ChangingDetector
  MaxRuns = 2
  MaxBursts = 1
  MaxUnread = 2
  MayFail = FALSE
INVARIANT DrawnAsConfigured
CHECK_DEADLOCK FALSE
