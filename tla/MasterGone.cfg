\* Expected violation: the end of the master ends the connection of its clients.
SPECIFICATION Spec
CONSTANTS
  tty = tty
  fetch = fetch
  dqm = dqm
  gui = gui
  web = web
  Clients = {dqm, gui}
  TypeOf <- MCTypeOf
  FDs = {4, 5}
  ListenFd = 3
  Pids = {p1}
  NoClient = NoClient
  NoPid = NoPid
  Requests <- AcquisitionRequests
  Quota <- One
INVARIANT MasterGoneDisconnects
\* Every process may be gone, or wait for ever.
CHECK_DEADLOCK FALSE
