\* Two acquisitions, between which a board moves or changes detectors; the database may be locked.
SPECIFICATION Spec
CONSTANTS
  fDetectorType = "gastof"
  Setups <- MovingBoard
  MaxRuns = 2
  MaxBursts = 1
  MaxUnread = 2
  MayFail = TRUE
INVARIANT AddressesOfOneRun
\* Acquisitions are over, and the monitor waits.
CHECK_DEADLOCK FALSE
