------------------------------- MODULE Client -------------------------------
(***************************************************************************)
(* The processes that bind to the master: src/Client.cpp (listener,        *)
(* ppsFetch, the DQM processes) and scripts/SocketHandler.py (the GUI),    *)
(* composed with the master.  What each program does with the messages is  *)
(* not modelled here: a client sends any of its requests at any time.      *)
(***************************************************************************)
EXTENDS Messenger

CONSTANTS
  Requests,   \* what each client may send once it is connected
  Quota       \* bound on the number of requests of each client

ASSUME RequestsAssumption ==
  /\ Requests \in [Clients -> SUBSET Messages]
  /\ \A c \in Clients : \A m \in Requests[c] :
       /\ m.key # "ADD_CLIENT"
       /\ m.key = "REMOVE_CLIENT" => m.val = ListenFd
  /\ Quota \in [Clients -> Nat]

VARIABLES
  cstate,     \* where each client is in Connect() .. Disconnect()
  fClientId,  \* the identifier it was given, -1 if none
  sent        \* number of requests it has sent

clientVars == <<cstate, fClientId, sent>>
vars == <<sockVars, masterVars, clientVars>>

(* "connected": ADD_CLIENT not sent; "announced": waiting for an answer to *)
(* it; "ready": Connect() has returned; "leaving": REMOVE_CLIENT sent;     *)
(* "gone": the process has ended.                                          *)
ClientStates ==
  {"idle", "connected", "announced", "ready", "leaving", "gone"}

TypeOK ==
  /\ SocketTypeOK
  /\ MessengerTypeOK
  /\ cstate \in [Clients -> ClientStates]
  /\ fClientId \in [Clients -> Int]
  /\ sent \in [Clients -> Nat]

Init ==
  /\ SocketInit
  /\ MessengerInit
  /\ cstate = [c \in Clients |-> "idle"]
  /\ fClientId = [c \in Clients |-> -1]
  /\ sent = [c \in Clients |-> 0]

-----------------------------------------------------------------------------
(* Start() and PrepareConnection(): the kernel of the master's machine     *)
(* completes the connection, accept() comes later.                         *)
Connect(c) ==
  /\ cstate[c] = "idle"
  /\ pc # "dead"
  /\ cstate' = [cstate EXCEPT ![c] = "connected"]
  /\ link' = [link EXCEPT ![c] = "queued"]
  /\ backlog' = Append(backlog, c)
  /\ UNCHANGED <<hup, conn, up, down, proc, held, masterVars, fClientId, sent>>

(* Announce(), first half.                                                 *)
Announce(c) ==
  /\ cstate[c] = "connected"
  /\ cstate' = [cstate EXCEPT ![c] = "announced"]
  /\ SendUp(c, Message("ADD_CLIENT", TypeOf[c]))
  /\ UNCHANGED <<link, hup, conn, backlog, down, proc, held, masterVars,
                 fClientId, sent>>

(* Announce(), second half: one message is read; anything but an           *)
(* identifier is reported and the client goes on without one.              *)
AwaitId(c) ==
  /\ cstate[c] = "announced"
  /\ \E r \in Reads(down[c]) :
       /\ down' = [down EXCEPT ![c] = r.rest]
       /\ fClientId' = IF r.msg.key = "SET_CLIENT_ID"
                       THEN [fClientId EXCEPT ![c] = r.msg.val]
                       ELSE fClientId
  /\ cstate' = [cstate EXCEPT ![c] = "ready"]
  /\ UNCHANGED <<link, hup, conn, backlog, up, proc, held, masterVars, sent>>

(* The same when nothing comes within the receive timeout, or the end of   *)
(* the stream does; the GUI has no timeout and goes on waiting.            *)
NoAnswer(c) ==
  /\ cstate[c] = "announced"
  /\ TypeOf[c] # DAQ
  /\ down[c] = <<>>
  /\ cstate' = [cstate EXCEPT ![c] = "ready"]
  /\ UNCHANGED <<sockVars, masterVars, fClientId, sent>>

(* Send() of one of the requests of this client.                           *)
Request(c) ==
  /\ cstate[c] = "ready"
  /\ sent[c] < Quota[c]
  /\ \E m \in Requests[c] : SendUp(c, m)
  /\ sent' = [sent EXCEPT ![c] = @ + 1]
  /\ UNCHANGED <<link, hup, conn, backlog, down, proc, held, masterVars, cstate,
                 fClientId>>

(* The process ends: its memory is gone and the kernel closes its socket.  *)
Exit(c) ==
  /\ hup' = [hup EXCEPT ![c] = TRUE]
  /\ down' = [down EXCEPT ![c] = <<>>]
  /\ cstate' = [cstate EXCEPT ![c] = "gone"]
  /\ fClientId' = [fClientId EXCEPT ![c] = -1]
  /\ sent' = [sent EXCEPT ![c] = 0]
  /\ UNCHANGED <<link, conn, backlog, proc, held, masterVars>>

(* Receive(): a plain client answers the pings of the master and exits on  *)
(* the two messages that tell it to; all the other programs only look at   *)
(* the keys they wait for.                                                 *)
Receive(c) ==
  /\ cstate[c] = "ready"
  /\ \E r \in Reads(down[c]) :
       IF TypeOf[c] = CLIENT
          /\ r.msg.key \in {"MASTER_DISCONNECT", "OTHER_CLIENT_DELETED"}
       THEN Exit(c) /\ UNCHANGED up
       ELSE /\ down' = [down EXCEPT ![c] = r.rest]
            /\ IF TypeOf[c] = CLIENT /\ r.msg.key = "PING_CLIENT"
               THEN SendUp(c, Message("PING_ANSWER", 0))
               ELSE UNCHANGED up
            /\ UNCHANGED <<link, hup, conn, backlog, proc, held, masterVars,
                           clientVars>>

(* The end of the stream is a fatal exception, except for the GUI.         *)
EndOfFile(c) ==
  /\ cstate[c] = "ready"
  /\ TypeOf[c] # DAQ
  /\ EndOfStream(c)
  /\ Exit(c)
  /\ UNCHANGED up

(* Disconnect(), from the destructor or the GUI's Unbind: the identifier,  *)
(* possibly -1, is sent back,                                              *)
Leave(c) ==
  /\ cstate[c] = "ready"
  /\ cstate' = [cstate EXCEPT ![c] = "leaving"]
  /\ SendUp(c, Message("REMOVE_CLIENT", fClientId[c]))
  /\ UNCHANGED <<link, hup, conn, backlog, down, proc, held, masterVars,
                 fClientId, sent>>

(* and the process ends after one read, whatever it gives: the answer it   *)
(* waits for is never sent, so that ~Client() disconnects once more after  *)
(* ~VMEReader() and ~DQMProcess().                                         *)
Close(c) ==
  /\ cstate[c] = "leaving"
  /\ Exit(c)
  /\ IF TypeOf[c] \in {DETECTOR, DQM}
     THEN SendUp(c, Message("REMOVE_CLIENT", fClientId[c]))
     ELSE UNCHANGED up

(* The process is killed, or interrupted while it connects.                *)
Crash(c) ==
  /\ cstate[c] \in {"connected", "announced", "ready"}
  /\ Exit(c)
  /\ UNCHANGED up

ClientStep(c) ==
  \/ Connect(c) \/ Announce(c) \/ AwaitId(c) \/ NoAnswer(c) \/ Request(c)
  \/ Receive(c) \/ EndOfFile(c) \/ Leave(c) \/ Close(c) \/ Crash(c)

Master == (MasterLoop \/ Quit) /\ UNCHANGED clientVars

Next ==
  \/ Master
  \/ ProcessExit /\ UNCHANGED clientVars
  \/ \E c \in Clients : ClientStep(c)

(* The master never sleeps outside select() and recv(), and a client that  *)
(* is connecting says so and waits for its answer.  Nobody has to connect, *)
(* ask, read, leave or die.                                                *)
Fairness ==
  /\ WF_vars(MasterLoop /\ UNCHANGED clientVars)
  /\ \A c \in Clients :
       /\ WF_vars(Announce(c))
       /\ WF_vars(AwaitId(c) \/ NoAnswer(c))

Spec == Init /\ [][Next]_vars
FairSpec == Spec /\ Fairness

-----------------------------------------------------------------------------
(* Properties                                                              *)

(* The registry of a running master is consistent: its entries are the     *)
(* listening socket and one entry, with one type, per descriptor that      *)
(* accept() returned and that is still open; select() watches exactly      *)
(* these; no two of them are the same connection (AcceptConnections,       *)
(* SwitchClientType, DisconnectClient).                                    *)
RegistryConsistent ==
  pc # "dead" =>
    /\ fMaster = RegisteredFds
    /\ RegisteredFds = OpenFds \cup {ListenFd}
    /\ \A e1, e2 \in fSocketsConnected : e1[1] = e2[1] => e1 = e2
    /\ \A e \in fSocketsConnected : e[2] = MASTER <=> e[1] = ListenFd
    /\ \A fd1, fd2 \in OpenFds : conn[fd1] = conn[fd2] => fd1 = fd2
    /\ \A c \in Clients : link[c] = "open" <=> \E fd \in FDs : conn[fd] = c

(* While its connection lives, a client that has an identifier has that of *)
(* its own connection: descriptors are used again, but what a client says  *)
(* with its identifier (REMOVE_CLIENT) never names somebody else.          *)
OwnIdentifier ==
  \A c \in Clients :
    link[c] = "open" /\ fClientId[c] # -1 =>
      fClientId[c] \in FDs /\ conn[fClientId[c]] = c

(* What a client announced has reached the master by the time AddClient()  *)
(* reads from its connection.                                              *)
InTime(c) ==
  /\ up[c] # <<>>
  /\ link[c] = "queued" \/ (pc = "announce" /\ conn[pos] = c)

(* The master has the connection of c under the type that c announced, and *)
(* no other, unless AddClient() is not done with it.                       *)
Known(c) ==
  \A fd \in FDs : conn[fd] = c =>
    (pc = "announce" /\ pos = fd) \/ <<fd, TypeOf[c]>> \in fSocketsConnected

(* A client whose announcement was there in time is known by its type from *)
(* then on and as long as its connection lives, whoever else is late, dies *)
(* or is served meanwhile, and whatever it has sent since: SendAll() never *)
(* forgets it (AddClient, FetchMessage).  One that was late is not.        *)
PromptKnown == \A c \in Clients : [](InTime(c) => []Known(c))

(* A socket that select() reported has something to read when the loop of  *)
(* Receive() comes to it ("Looking for something to read!"), unless it was *)
(* drained by a ping that another client asked for in the same loop: the   *)
(* master waits there for nobody else.                                     *)
DrainedByPing ==
  [][\A fd \in AllFds :
       pc' \in {"scan", "ping"} /\ fd \in Remaining' =>
         \/ Readable(fd)'
         \/ pc = "ping" /\ fd = toping
         \/ fd \in Remaining /\ ~Readable(fd)]_vars

(* Seen by its clients, the registry is that of Membership.                *)
Registered ==
  {<<conn[e[1]], e[2]>> : e \in {e \in fSocketsConnected : e[1] \in FDs}}

Members == INSTANCE Membership WITH
  Plain     <- CLIENT,
  members   <- Registered,
  left      <- {c \in Clients : link[c] = "shut"},
  withdrawn <- {c \in Clients : hup[c] \/ cstate[c] = "leaving"},
  open      <- pc # "dead"

(* A client joins once, is given the type it announced and no other, and   *)
(* is dropped only after its own request or its end: nobody is removed in  *)
(* place of another (Messenger, all the handlers).                         *)
MembershipSpec == Members!Spec

(* A client that has died, or left, is no longer registered in the end.    *)
DeathNoticed ==
  \A c \in Clients : hup[c] ~> link[c] # "open"

(* What a client has sent is read in the end, or the connection closed.    *)
RequestRead ==
  \A c \in Clients : up[c] # <<>> ~> up[c] = <<>>

(* A client that announced itself does not wait for its identifier for     *)
(* ever, unless the master dies.                                           *)
Identified ==
  \A c \in Clients :
    cstate[c] = "announced" ~> cstate[c] # "announced" \/ pc = "dead"

Gets(c, m) == down'[c] = Append(down[c], m)

(* Run numbers reach every client in increasing order, whether they were   *)
(* asked for or told, and none is ahead of the database (NEW_RUN,          *)
(* GET_RUN_NUMBER, StartAcquisition).                                      *)
RunsInOrder ==
  \A c \in Clients : \A i \in DOMAIN down[c] :
    down[c][i].key = "RUN_NUMBER" /\ down[c][i].val # -1 =>
      /\ down[c][i].val \in 1 .. lastRun
      /\ \A j \in i .. Len(down[c]) :
           down[c][j].key = "RUN_NUMBER" /\ down[c][j].val # -1 =>
             down[c][i].val <= down[c][j].val

(* A process that was forked is told to this GUI, which waits for the      *)
(* answer if it asked for it (START_ACQUISITION, scripts/RunControl.py).   *)
StartTold(c) ==
  [][StartAcquisition /\ proc' # proc /\ link[c] = "open" /\ ~hup[c] =>
       Gets(c, Message("ACQUISITION_STARTED", 0))]_vars

-----------------------------------------------------------------------------
(* What the invariants above need to be inductive                          *)

(* The queue of the listening socket holds distinct connections that wait  *)
(* for accept(), and is not empty when accept() is called.                 *)
BacklogInv ==
  /\ \A i \in 1 .. Len(backlog) : link[backlog[i]] = "queued"
  /\ \A i, j \in 1 .. Len(backlog) : backlog[i] = backlog[j] => i = j
  /\ pc \in {"scan", "ping"} /\ ListenFd \in fReadFds => backlog # <<>>

(* The master waits in the middle of a handler only for a connection that  *)
(* is open, and in AddClient() for one that has no type yet; a master that *)
(* is dead has no connection; a client that did not connect has none.      *)
WaitingInv ==
  /\ pc = "announce" => pos \in OpenFds /\ <<pos, CLIENT>> \in fSocketsConnected
  /\ pc = "ping" => toping \in OpenFds
  /\ pc = "dead" =>
       /\ fSocketsConnected = {} /\ fMaster = {} /\ OpenFds = {}
       /\ \A c \in Clients : link[c] \notin {"open", "queued"}
  /\ \A c \in Clients : cstate[c] = "idle" => link[c] = "idle" /\ ~hup[c]

TableInv == TypeOK /\ RegistryConsistent /\ BacklogInv /\ WaitingInv

(* An identifier that was given to c, held by c or still on its way, names *)
(* the connection of c until that is closed.                               *)
GivenTo(c, id) ==
  \/ link[c] = "shut"
  \/ link[c] = "open" /\ id \in FDs /\ conn[id] = c

IdentifiersInv ==
  \A c \in Clients :
    /\ fClientId[c] # -1 => GivenTo(c, fClientId[c])
    /\ \A i \in 1 .. Len(down[c]) :
         down[c][i].key = "SET_CLIENT_ID" => GivenTo(c, down[c][i].val)

(* A client asks to be removed when it leaves, and nobody else but (in     *)
(* vain) the master; it declares no type but its own.                      *)
Legitimate(c, m) ==
  /\ link[c] \in {"queued", "open"}
  /\ m.key = "ADD_CLIENT" => m.val = TypeOf[c]
  /\ m.key = "REMOVE_CLIENT" /\ m.val \in FDs =>
       /\ link[c] = "open" /\ conn[m.val] = c
       /\ hup[c] \/ cstate[c] = "leaving"

RequestsInv ==
  \A c \in Clients :
    /\ \A i \in 1 .. Len(up[c]) : Legitimate(c, up[c][i])
    /\ link[c] = "idle" => cstate[c] = "idle"

MembershipInv == TableInv /\ IdentifiersInv /\ RequestsInv

-----------------------------------------------------------------------------
(* What a comment says, and the code does not do                           *)

(* include/Messenger.h:34, Disconnect(): "Remove this master from the      *)
(* socket, thus disconnecting automatically the clients connected": once   *)
(* it is gone, the stream of every client that has read everything ends.   *)
MasterGoneDisconnects ==
  \A c \in Clients :
    pc = "dead" /\ cstate[c] \notin {"idle", "gone"} /\ down[c] = <<>> =>
      EndOfStream(c)
=============================================================================
