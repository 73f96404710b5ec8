\* Two acquisitions one after the other; boards may fail in the configuration.
SPECIFICATION Spec
CONSTANTS
  first = first
  second = second
  Processes = {first, second}
  NumTDC = 2
  MaxBursts = 2
  MaxSignals = 1
  Faults <- BoardsFail
  NoFile = NoFile
INVARIANTS HeaderIdentifiesBurst AllTold ConditionsRecorded
PROPERTY RunLogSpec
\* Every process ends, or has its bound of bursts and waits for a signal.
CHECK_DEADLOCK FALSE
