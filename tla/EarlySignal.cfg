\* A signal during the configuration.
SPECIFICATION Spec
CONSTANTS
  fetch = fetch
  Processes = {fetch}
  NumTDC = 2
  MaxBursts = 1
  MaxSignals = 1
  Faults <- Undisturbed
  NoFile = NoFile
INVARIANT AbortReachesAll
\* Every process ends, or has its bound of bursts and waits for a signal.
CHECK_DEADLOCK FALSE
