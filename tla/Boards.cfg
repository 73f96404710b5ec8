\* The boards of config/config.xml and config_nofpga.xml, with up to two failures.
SPECIFICATION Spec
CONSTANTS
  Setups <- AllSetups
  Controls <- LeftWords
  LeftMicros <- OldMicros
  MaxFailures = 2
  HVAddress = 12
  ShortSize = 256
  WordSize = 65536
  MaxTriggers = 3
  FileTriggers = 2
  MaxBursts = 2
INVARIANTS TypeOK HeaderTrue DamageBounded ControlAsAsked ResetReleased MarksBounded HVRecorded
\* The process may end, crash or wait for ever.
CHECK_DEADLOCK FALSE
