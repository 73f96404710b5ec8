\* A GUI starts and stops the acquisition and asks for the run, while ppsFetch opens runs; announcements may be late.
SPECIFICATION Spec
CONSTANTS
  tty = tty
  fetch = fetch
  dqm = dqm
  gui = gui
  web = web
  Clients = {gui, fetch}
  TypeOf <- MCTypeOf
  FDs = {4, 5}
  ListenFd = 3
  Pids = {p1}
  NoClient = NoClient
  NoPid = NoPid
  Requests <- GuiRequests
  Quota <- Two
INVARIANT RunsInOrder
\* Every process may be gone, or wait for ever.
CHECK_DEADLOCK FALSE
