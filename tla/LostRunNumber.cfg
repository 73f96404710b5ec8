\* A master that finds two messages in one read.
SPECIFICATION Spec
CONSTANTS
  fetch = fetch
  Processes = {fetch}
  NumTDC = 1
  MaxBursts = 1
  MaxSignals = 0
  Faults <- SlowMaster
  NoFile = NoFile
INVARIANT HeaderRetrieves
\* Every process ends, or has its bound of bursts and waits for a signal.
CHECK_DEADLOCK FALSE
