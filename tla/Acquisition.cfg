\* One acquisition, up to six signals, when messages are lost, accesses fail and answers are late.
SPECIFICATION FairSpec
CONSTANTS
  fetch = fetch
  Processes = {fetch}
  NumTDC = 2
  MaxBursts = 2
  MaxSignals = 6
  Faults <- Unlucky
  NoFile = NoFile
INVARIANTS TypeOK AnnouncedComplete AnnouncedOnce
PROPERTY StopEnds
\* Every process ends, or has its bound of bursts and waits for a signal.
CHECK_DEADLOCK FALSE
