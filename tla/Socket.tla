------------------------------- MODULE Socket -------------------------------
(***************************************************************************)
(* The socket layer shared by the run-control master (ppsRun) and all the  *)
(* processes that talk to it: src/Socket.cpp, include/Socket.h and the     *)
(* message keys of include/MessageKeys.h, on top of the TCP streams and    *)
(* the processes of the operating system.                                  *)
(*                                                                         *)
(* A client is one connection of one process: a process that binds again   *)
(* (the Bind button of the GUI, say) is another client.  A message is a    *)
(* record of its key and of the integer the handlers read in its value;    *)
(* texts (file names, exception lines) are abstracted to 0.                *)
(***************************************************************************)
EXTENDS Wire, FiniteSets

CONSTANTS
  Clients,      \* connections, one per process that ever binds to the master
  TypeOf,       \* the type every client announces in its ADD_CLIENT
  FDs,          \* descriptors accept() can return in the master process
  ListenFd,     \* descriptor of the listening socket of the master
  Pids,         \* process numbers fork() can return (bounds the starts)
  NoClient,     \* no connection (an unused descriptor)
  NoPid         \* the -1 of fork() and of a Messenger that started nothing

ASSUME FDsAssumption ==
  /\ FDs \subseteq Nat
  /\ ListenFd \in Nat
  /\ \A fd \in FDs : fd > ListenFd

(* The codes of Socket::SocketType that a client may announce (-1 is       *)
(* INVALID and 0 the master's own).                                        *)
MASTER           == 0
WEBSOCKET_CLIENT == 1
CLIENT           == 2
DETECTOR         == 3
DQM              == 4
DAQ              == 5

SocketTypes == MASTER .. DAQ
ClientTypes == SocketTypes \ {MASTER}

ASSUME TypeOfAssumption == TypeOf \in [Clients -> ClientTypes]
ASSUME NoneAssumption == NoClient \notin Clients /\ NoPid \notin Pids

MessageKeys == {
  "INVALID_KEY", "EXCEPTION",
  "ADD_CLIENT", "REMOVE_CLIENT", "GET_CLIENTS", "PING_CLIENT",
  "GET_RUN_NUMBER", "SET_NEW_FILENAME", "NEW_RUN",
  "MASTER_DISCONNECT", "SET_CLIENT_ID",
  "THIS_CLIENT_DELETED", "OTHER_CLIENT_DELETED", "CLIENTS_LIST", "PING_ANSWER",
  "ACQUISITION_STARTED", "ACQUISITION_STOPPED", "RUN_NUMBER", "NEW_FILENAME",
  "WEB_GET_CLIENTS", "START_ACQUISITION", "STOP_ACQUISITION",
  "NEW_DQM_PLOT", "UPDATED_DQM_PLOT", "NUM_TRIGGERS", "HV_STATUS" }

(* The type code of an ADD_CLIENT is cast to SocketType unchecked; the     *)
(* programs of the repository only announce client types.                  *)
Messages == {m \in [key : MessageKeys, val : Int] :
               m.key = "ADD_CLIENT" => m.val \in ClientTypes}

VARIABLES
  link,     \* master's end of each connection
  hup,      \* has the client closed its end?
  conn,     \* descriptor table of the master: the connection behind each fd
  backlog,  \* connections waiting for accept()
  up,       \* bytes sent by each client and not yet read by the master
  down,     \* bytes sent by the master and not yet read by each client
  proc,     \* state of the acquisition processes forked by the master
  held      \* connections whose descriptors each such process inherited

sockVars == <<link, hup, conn, backlog, up, down, proc, held>>

LinkStates == {"idle", "queued", "open", "shut"}
ProcStates == {"none", "running", "signalled", "zombie", "reaped"}

Streams == [Clients -> Seq(Messages)]

SocketTypeOK ==
  /\ link \in [Clients -> LinkStates]
  /\ hup \in [Clients -> BOOLEAN]
  /\ conn \in [FDs -> Clients \cup {NoClient}]
  /\ backlog \in Seq(Clients)
  /\ up \in Streams
  /\ down \in Streams
  /\ proc \in [Pids -> ProcStates]
  /\ held \in [Pids -> SUBSET Clients]

SocketInit ==
  /\ link = [c \in Clients |-> "idle"]
  /\ hup = [c \in Clients |-> FALSE]
  /\ conn = [fd \in FDs |-> NoClient]
  /\ backlog = <<>>
  /\ up = [c \in Clients |-> <<>>]
  /\ down = [c \in Clients |-> <<>>]
  /\ proc = [p \in Pids |-> "none"]
  /\ held = [p \in Pids |-> {}]

OpenFds == {fd \in FDs : conn[fd] # NoClient}

(* The descriptor the kernel picks for a new connection: the lowest free.  *)
IsLowestFree(fd) ==
  /\ fd \in FDs \ OpenFds
  /\ \A other \in FDs \ OpenFds : fd <= other

(* What recv() gives when nothing has come within the timeout that         *)
(* Configure() sets on the listening socket, and that the sockets returned *)
(* by accept() inherit: an error, taken for an empty message.              *)
Expired(c) ==
  IF up[c] = <<>> /\ ~hup[c] THEN {[msg |-> NoMessage, rest |-> <<>>]} ELSE {}

(* Mutant of Fetch: of the messages read at once, the last is kept.        *)
Fetch_Last(c) ==
  {[msg |-> up[c][n], rest |-> SubSeq(up[c], n + 1, Len(up[c]))] :
     n \in 1 .. Len(up[c])} \cup Expired(c)

(* recv() of the master on the connection of c.                            *)
Fetch(c) == Reads(up[c]) \cup Expired(c)

(* recv() of the master returns 0: the exception of number 11000.          *)
Disconnected(c) == up[c] = <<>> /\ hup[c]

(* Processes that still have the descriptors they inherited.               *)
LiveProcs == {p \in Pids : proc[p] \in {"running", "signalled"}}

(* recv() of client c returns 0: every copy of the master's end is closed, *)
(* those inherited by the processes it forked included.                    *)
EndOfStream(c) ==
  /\ down[c] = <<>>
  /\ link[c] = "shut"
  /\ \A p \in LiveProcs : c \notin held[p]

(* SendMessage() of a client; what is sent to a closed socket is lost.     *)
SendUp(c, m) ==
  up' = IF link[c] = "shut" THEN up ELSE [up EXCEPT ![c] = Append(@, m)]

(* SendMessage() to one connection; a failure is only printed.             *)
SendTo(channels, c, m) ==
  IF c \in Clients /\ ~hup[c]
  THEN [channels EXCEPT ![c] = Append(@, m)]
  ELSE channels
=============================================================================
