\* One board with two channels, in both acquisition modes.
SPECIFICATION Spec
CONSTANTS
  Setups <- TwoModes
  BLTWords = 2
  StartTime <- BeforeWrap
  TimeStep <- Step
  MaxBurst = 2
  MaxCuts = 1
INVARIANTS TypeOK Recorded HitsComplete LeftOutForErrors PairsSound WidthsRight ScriptAgrees
PROPERTY FilesDone
\* A board may be stopped and its files read.
CHECK_DEADLOCK FALSE
