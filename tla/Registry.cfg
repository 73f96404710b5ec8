\* Clients announce themselves, in time or late, ping, leave and die, on two descriptors.
SPECIFICATION Spec
CONSTANTS
  tty = tty
  fetch = fetch
  dqm = dqm
  gui = gui
  web = web
  Clients = {tty, gui, fetch}
  TypeOf <- MCTypeOf
  FDs = {4, 5}
  ListenFd = 3
  Pids = {}
  NoClient = NoClient
  NoPid = NoPid
  Requests <- PingRequests
  Quota <- TerminalOnly
INVARIANTS RegistryConsistent OwnIdentifier
PROPERTIES MembershipSpec DrainedByPing PromptKnown
\* Every process may be gone, or wait for ever.
CHECK_DEADLOCK FALSE
