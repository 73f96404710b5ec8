\* Progress: the reads of the master give up after the timeout; one request or ping.
SPECIFICATION FairSpec
CONSTANTS
  tty = tty
  fetch = fetch
  dqm = dqm
  gui = gui
  web = web
  Clients = {tty, gui}
  TypeOf <- MCTypeOf
  FDs = {4, 5}
  ListenFd = 3
  Pids = {}
  NoClient = NoClient
  NoPid = NoPid
  Requests <- AllRequests
  Quota <- TerminalOnly
INVARIANT TypeOK
PROPERTY DeathNoticed RequestRead Identified
\* Every process may be gone, or wait for ever.
CHECK_DEADLOCK FALSE
