----------------------------- MODULE Messenger ------------------------------
(***************************************************************************)
(* The master of the run control (ppsRun): src/Messenger.cpp and the loop  *)
(* of main.cpp.  One thread selects the readable descriptors, then serves  *)
(* them in the order of its set of connected sockets; every handler runs   *)
(* to its end before the next descriptor is looked at, and two of them     *)
(* wait in the middle for a given client: AddClient() and a ping.          *)
(***************************************************************************)
EXTENDS Socket

VARIABLES
  fSocketsConnected,  \* pairs <<descriptor, type>>, the registry
  fMaster,            \* descriptors that select() watches
  fReadFds,           \* descriptors the last select() found readable
  pc,                 \* where the master's thread is
  pos,                \* last descriptor visited by the loop of Receive()
  toping,             \* target of the ping being handled
  tries,              \* messages of the target read by this ping
  fPID,               \* last result of fork()
  reaping,            \* SIGCHLD ignored: finished children leave no zombie
  lastRun             \* highest run id in the online database, 0 if none

masterVars == <<fSocketsConnected, fMaster, fReadFds, pc, pos, toping, tries,
                fPID, reaping, lastRun>>

(* "select": blocked in select(); "scan": in the loop over the sockets;    *)
(* "announce": AddClient() waits for the first message of the client at    *)
(* descriptor pos; "ping": ProcessMessage() waits for toping's answer.     *)
MasterStates == {"select", "scan", "announce", "ping", "dead"}

AllFds == FDs \cup {ListenFd}

MessengerTypeOK ==
  /\ fSocketsConnected \subseteq AllFds \X SocketTypes
  /\ fMaster \subseteq AllFds
  /\ fReadFds \subseteq AllFds
  /\ pc \in MasterStates
  /\ pos \in AllFds \cup {-1}
  /\ toping \in FDs \cup {-1}
  /\ tries \in 0 .. 1
  /\ fPID \in Pids \cup {NoPid}
  /\ reaping \in BOOLEAN
  /\ lastRun \in Nat

(* Messenger::Connect(): the listening socket registers itself.            *)
MessengerInit ==
  /\ fSocketsConnected = {<<ListenFd, MASTER>>}
  /\ fMaster = {ListenFd}
  /\ fReadFds = {}
  /\ pc = "select"
  /\ pos = -1
  /\ toping = -1
  /\ tries = 0
  /\ fPID = NoPid
  /\ reaping = FALSE
  /\ lastRun = 0

-----------------------------------------------------------------------------
(* Helpers                                                                 *)

RegisteredFds == {entry[1] : entry \in fSocketsConnected}

OfType(type) == {fd \in FDs : <<fd, type>> \in fSocketsConnected}

(* Send(): to the connection behind a descriptor, if it is one.            *)
Send(channels, fd, m) ==
  IF fd \in OpenFds THEN SendTo(channels, conn[fd], m) ELSE channels

(* SendAll(): to all the sockets registered with this type.                *)
SendAll(channels, type, m) ==
  [c \in Clients |->
     IF \E fd \in OfType(type) : conn[fd] = c /\ ~hup[c]
     THEN Append(channels[c], m)
     ELSE channels[c]]

Readable(fd) ==
  \/ fd = ListenFd /\ backlog # <<>>
  \/ fd \in OpenFds /\ (up[conn[fd]] # <<>> \/ hup[conn[fd]])

(* The next socket of the loop: the registered ones come in increasing     *)
(* order, those that select() did not report are skipped.                  *)
Remaining == {fd \in RegisteredFds \cap fReadFds : fd > pos}
IsNext(fd) == fd \in Remaining /\ \A other \in Remaining : fd <= other

(* Receive() returns: its iterator is gone, and the descriptors it copied  *)
(* are never looked at again.                                              *)
Return ==
  /\ pc' = "select"
  /\ pos' = -1
  /\ fReadFds' = {}

-----------------------------------------------------------------------------
(* Receive(): select() and the loop                                        *)

(* Mutant of Found: the set given to select() is not narrowed.             *)
Found_All == fMaster

Found == {fd \in fMaster : Readable(fd)}

Select ==
  /\ pc = "select"
  /\ \E fd \in fMaster : Readable(fd)
  /\ fReadFds' = Found
  /\ pc' = "scan"
  /\ UNCHANGED <<sockVars, fSocketsConnected, fMaster, pos, toping, tries, fPID,
                 reaping, lastRun>>

EndOfScan ==
  /\ pc = "scan"
  /\ Remaining = {}
  /\ Return
  /\ UNCHANGED <<sockVars, fSocketsConnected, fMaster, toping, tries, fPID,
                 reaping, lastRun>>

(* AddClient(), first half: AcceptConnections() registers the socket as a  *)
(* plain CLIENT; then the master waits for what the client has to say.     *)
Accept ==
  /\ pc = "scan" /\ IsNext(ListenFd)
  /\ \E fd \in FDs :
       LET c == Head(backlog) IN
       /\ IsLowestFree(fd)
       /\ conn' = [conn EXCEPT ![fd] = c]
       /\ link' = [link EXCEPT ![c] = "open"]
       /\ fSocketsConnected' = fSocketsConnected \cup {<<fd, CLIENT>>}
       /\ fMaster' = fMaster \cup {fd}
       /\ pos' = fd
  /\ backlog' = Tail(backlog)
  /\ pc' = "announce"
  /\ UNCHANGED <<hup, up, down, proc, held, fReadFds, toping, tries, fPID,
                 reaping, lastRun>>

(* No descriptor left: accept() fails and the connection stays queued.     *)
AcceptFails ==
  /\ pc = "scan" /\ IsNext(ListenFd)
  /\ OpenFds = FDs
  /\ Return
  /\ UNCHANGED <<sockVars, fSocketsConnected, fMaster, toping, tries, fPID,
                 reaping, lastRun>>

(* Mutant of SwitchClientType: the old entry is not erased.                *)
SwitchClientType_Insert(fd, type) ==
  fSocketsConnected' = fSocketsConnected \cup {<<fd, type>>}

(* SwitchClientType(): the entry is replaced.                              *)
SwitchClientType(fd, type) ==
  fSocketsConnected' =
    {entry \in fSocketsConnected : entry[1] # fd} \cup {<<fd, type>>}

(* Mutant of GiveId: the descriptor of the listening socket is sent.       *)
GiveId_Master(c, fd) == SendTo(down, c, Message("SET_CLIENT_ID", ListenFd))

GiveId(c, fd) == SendTo(down, c, Message("SET_CLIENT_ID", fd))

(* AddClient(), second half: the identifier is sent whatever the client    *)
(* said, the type is switched only by an ADD_CLIENT.                       *)
Announcement ==
  /\ pc = "announce"
  /\ LET c == conn[pos] IN
     \E r \in Fetch(c) :
       /\ up' = [up EXCEPT ![c] = r.rest]
       /\ IF r.msg.key = "ADD_CLIENT" /\ r.msg.val # CLIENT
          THEN SwitchClientType(pos, r.msg.val)
          ELSE UNCHANGED fSocketsConnected
       /\ down' = GiveId(c, pos)
  /\ Return
  /\ UNCHANGED <<link, hup, conn, backlog, proc, held, fMaster, toping, tries,
                 fPID, reaping, lastRun>>

(* Mutant of AnnouncementLost: recv() is called again when it returns 0.   *)
AnnouncementLost_Retry ==
  /\ pc = "announce"
  /\ Disconnected(conn[pos])
  /\ UNCHANGED <<sockVars, masterVars>>

(* The client left before it said anything: AddClient() gives up, and the  *)
(* socket stays registered until Receive() sees the end of its stream.     *)
AnnouncementLost ==
  /\ pc = "announce"
  /\ Disconnected(conn[pos])
  /\ Return
  /\ UNCHANGED <<sockVars, fSocketsConnected, fMaster, toping, tries, fPID,
                 reaping, lastRun>>

(* Mutant of DisconnectClient: the entry is left behind.                   *)
DisconnectClient_KeepEntry(fd) ==
  IF fd \in RegisteredFds
  THEN /\ conn' = [conn EXCEPT ![fd] = NoClient]
       /\ link' = [link EXCEPT ![conn[fd]] = "shut"]
       /\ fMaster' = fMaster \ {fd}
       /\ UNCHANGED fSocketsConnected
  ELSE UNCHANGED <<conn, link, fSocketsConnected, fMaster>>

(* DisconnectClient(): close, unregister, stop watching; a descriptor that *)
(* is not registered is left alone.                                        *)
DisconnectClient(fd) ==
  IF fd \in RegisteredFds
  THEN /\ conn' = [conn EXCEPT ![fd] = NoClient]
       /\ link' = [link EXCEPT ![conn[fd]] = "shut"]
       /\ fSocketsConnected' = {entry \in fSocketsConnected : entry[1] # fd}
       /\ fMaster' = fMaster \ {fd}
  ELSE UNCHANGED <<conn, link, fSocketsConnected, fMaster>>

(* What the client had sent and was not read is discarded with its socket. *)
Discard(unread, fd) ==
  IF fd \in OpenFds THEN [unread EXCEPT ![conn[fd]] = <<>>] ELSE unread

(* Mutant of ClientGone: the loop goes on and nobody is disconnected.      *)
ClientGone_Skip ==
  /\ pc = "scan"
  /\ \E fd \in FDs :
       /\ IsNext(fd)
       /\ Disconnected(conn[fd])
       /\ pos' = fd
  /\ UNCHANGED <<sockVars, fSocketsConnected, fMaster, fReadFds, pc, toping,
                 tries, fPID, reaping, lastRun>>

(* Receive() reads the end of a stream: the client is disconnected and the *)
(* loop abandoned.                                                         *)
ClientGone ==
  /\ pc = "scan"
  /\ \E fd \in FDs :
       /\ IsNext(fd)
       /\ Disconnected(conn[fd])
       /\ DisconnectClient(fd)
  /\ Return
  /\ UNCHANGED <<hup, backlog, up, down, proc, held, toping, tries, fPID,
                 reaping, lastRun>>

-----------------------------------------------------------------------------
(* ProcessMessage(): one action per kind of request.                       *)

(* What the streams can be once message m has been fetched from fd.        *)
Unread(fd, m) ==
  {[up EXCEPT ![conn[fd]] = r.rest] : r \in {r \in Fetch(conn[fd]) : r.msg = m}}

(* The loop fetches message m from the socket fd it has reached.           *)
Arrives(fd, m) ==
  /\ pc = "scan"
  /\ fd \in FDs /\ IsNext(fd)
  /\ Unread(fd, m) # {}

Receives(fd, m) ==
  /\ Arrives(fd, m)
  /\ up' \in Unread(fd, m)
  /\ pos' = fd
  /\ UNCHANGED fReadFds

(* What can be received from fd.                                           *)
Incoming(fd) == {r.msg : r \in Fetch(conn[fd])}

NextFds == {fd \in FDs : IsNext(fd)}

(* REMOVE_CLIENT: disconnect the client with this identifier, if there is  *)
(* one, and leave the loop; a request to remove the master is refused and  *)
(* the loop goes on.                                                       *)
RemoveClient ==
  /\ \E fd \in NextFds : \E m \in Incoming(fd) :
       /\ m.key = "REMOVE_CLIENT"
       /\ Arrives(fd, m)
       /\ \E unread \in Unread(fd, m) : up' = Discard(unread, m.val)
       /\ IF m.val = ListenFd
          THEN /\ pos' = fd
               /\ UNCHANGED <<conn, link, fSocketsConnected, fMaster, pc,
                              fReadFds>>
          ELSE /\ DisconnectClient(m.val)
               /\ Return
  /\ UNCHANGED <<hup, backlog, down, proc, held, toping, tries, fPID, reaping,
                 lastRun>>

(* PING_CLIENT: the ping goes to the target, then the master reads at most *)
(* two messages of it.  Reading from anything else than a client fails at  *)
(* once, twice, and an empty answer is returned.                           *)
PingClient ==
  /\ \E fd \in NextFds : \E m \in Incoming(fd) :
       /\ m.key = "PING_CLIENT"
       /\ Receives(fd, m)
       /\ IF m.val \in OpenFds
          THEN /\ down' = Send(down, m.val, Message("PING_CLIENT", 0))
               /\ toping' = m.val
               /\ pc' = "ping"
          ELSE /\ down' = Send(down, fd, Message("PING_ANSWER", 0))
               /\ UNCHANGED <<toping, pc>>
  /\ tries' = 0
  /\ UNCHANGED <<link, hup, conn, backlog, proc, held, fSocketsConnected,
                 fMaster, fPID, reaping, lastRun>>

EndOfPing ==
  /\ pc' = "scan"
  /\ toping' = -1
  /\ tries' = 0

(* Mutant of PingRead: the limit on the attempts is checked one too late.  *)
PingRead_OneMore ==
  /\ pc = "ping"
  /\ \E r \in Fetch(conn[toping]) :
       /\ up' = [up EXCEPT ![conn[toping]] = r.rest]
       /\ IF r.msg.key = "PING_ANSWER" \/ tries = 2
          THEN /\ down' = Send(down, pos, Message("PING_ANSWER", 0))
               /\ EndOfPing
          ELSE /\ tries' = tries + 1
               /\ UNCHANGED <<down, pc, toping>>
  /\ UNCHANGED <<link, hup, conn, backlog, proc, held, fSocketsConnected,
                 fMaster, fReadFds, pos, fPID, reaping, lastRun>>

(* The loop of the ping: messages that are not an answer are swallowed.    *)
PingRead ==
  /\ pc = "ping"
  /\ \E r \in Fetch(conn[toping]) :
       /\ up' = [up EXCEPT ![conn[toping]] = r.rest]
       /\ IF r.msg.key = "PING_ANSWER" \/ tries = 1
          THEN /\ down' = Send(down, pos, Message("PING_ANSWER", 0))
               /\ EndOfPing
          ELSE /\ tries' = tries + 1
               /\ UNCHANGED <<down, pc, toping>>
  /\ UNCHANGED <<link, hup, conn, backlog, proc, held, fSocketsConnected,
                 fMaster, fReadFds, pos, fPID, reaping, lastRun>>

(* The target hung up: the exception leaves ProcessMessage(), Receive()    *)
(* drops it and nobody is told.                                            *)
PingTargetGone ==
  /\ pc = "ping"
  /\ Disconnected(conn[toping])
  /\ EndOfPing
  /\ UNCHANGED <<sockVars, fSocketsConnected, fMaster, fReadFds, pos, fPID,
                 reaping, lastRun>>

(* GET_CLIENTS and WEB_GET_CLIENTS: the list of the registry, abstracted   *)
(* to what the GUI looks for in it: is an acquisition process connected?   *)
ListClients ==
  /\ \E fd \in NextFds : \E m \in Incoming(fd) :
       /\ m.key \in {"GET_CLIENTS", "WEB_GET_CLIENTS"}
       /\ Receives(fd, m)
       /\ down' = Send(down, fd, Message("CLIENTS_LIST",
                         IF OfType(DETECTOR) # {} THEN DETECTOR ELSE 0))
  /\ UNCHANGED <<link, hup, conn, backlog, proc, held, fSocketsConnected,
                 fMaster, pc, toping, tries, fPID, reaping, lastRun>>

(* GetLastRun() of the database, -1 when it throws: no run, or the         *)
(* database is locked by the acquisition process.                          *)
LastRunRead == IF lastRun = 0 THEN {-1} ELSE {lastRun, -1}

(* Mutant of TellRun: the number was read before the insertion.            *)
TellRun_Stale(run) ==
  SendAll(SendAll(down, DQM, Message("RUN_NUMBER", run - 1)), DAQ,
          Message("RUN_NUMBER", run - 1))

TellRun(run) ==
  SendAll(SendAll(down, DQM, Message("RUN_NUMBER", run)), DAQ,
          Message("RUN_NUMBER", run))

(* NEW_RUN: insert a run and tell its number to the monitors and to the    *)
(* GUIs; a database error is only printed.                                 *)
NewRun ==
  /\ \E fd \in NextFds : \E m \in Incoming(fd) :
       /\ m.key = "NEW_RUN"
       /\ Receives(fd, m)
       /\ \/ /\ lastRun' = lastRun + 1
             /\ down' = TellRun(lastRun')
          \/ /\ lastRun' \in {lastRun, lastRun + 1}
             /\ UNCHANGED down
  /\ UNCHANGED <<link, hup, conn, backlog, proc, held, fSocketsConnected,
                 fMaster, pc, toping, tries, fPID, reaping>>

(* GET_RUN_NUMBER                                                          *)
GetRunNumber ==
  /\ \E fd \in NextFds : \E m \in Incoming(fd) :
       /\ m.key = "GET_RUN_NUMBER"
       /\ Receives(fd, m)
       /\ \E run \in LastRunRead :
            down' = Send(down, fd, Message("RUN_NUMBER", run))
  /\ UNCHANGED <<link, hup, conn, backlog, proc, held, fSocketsConnected,
                 fMaster, pc, toping, tries, fPID, reaping, lastRun>>

(* SET_NEW_FILENAME goes to the monitors; trigger counts, voltages, plots  *)
(* and exceptions go to the GUIs as they came.                             *)
Forward ==
  /\ \E fd \in NextFds : \E m \in Incoming(fd) :
       /\ Receives(fd, m)
       /\ \/ /\ m.key = "SET_NEW_FILENAME"
             /\ down' = SendAll(down, DQM, Message("NEW_FILENAME", m.val))
          \/ /\ m.key \in {"NUM_TRIGGERS", "HV_STATUS", "NEW_DQM_PLOT",
                           "UPDATED_DQM_PLOT", "EXCEPTION"}
             /\ down' = SendAll(down, DAQ, m)
  /\ UNCHANGED <<link, hup, conn, backlog, proc, held, fSocketsConnected,
                 fMaster, pc, toping, tries, fPID, reaping, lastRun>>

(* Every other key: nothing to do.  A late ADD_CLIENT is one of them.      *)
Ignored ==
  /\ \E fd \in NextFds : \E m \in Incoming(fd) :
       /\ m.key \notin {"REMOVE_CLIENT", "PING_CLIENT", "GET_CLIENTS",
            "WEB_GET_CLIENTS", "NEW_RUN", "GET_RUN_NUMBER",
            "SET_NEW_FILENAME", "NUM_TRIGGERS", "HV_STATUS", "NEW_DQM_PLOT",
            "UPDATED_DQM_PLOT", "EXCEPTION", "START_ACQUISITION",
            "STOP_ACQUISITION"}
       /\ Receives(fd, m)
  /\ UNCHANGED <<link, hup, conn, backlog, down, proc, held, fSocketsConnected,
                 fMaster, pc, toping, tries, fPID, reaping, lastRun>>

-----------------------------------------------------------------------------
(* The acquisition process                                                 *)

(* StartAcquisition(): fork whatever was started before, tell the GUIs and *)
(* send the last run number to the monitors.  The child inherits all the   *)
(* open descriptors; fork() may fail, which is only printed.               *)
StartAcquisition ==
  /\ \E fd \in NextFds : \E m \in Incoming(fd) :
       /\ m.key = "START_ACQUISITION"
       /\ Receives(fd, m)
  /\ \/ \E pid \in Pids, run \in LastRunRead :
          /\ proc[pid] = "none"
          /\ proc' = [proc EXCEPT ![pid] = "running"]
          /\ held' = [held EXCEPT ![pid] = {c \in Clients : link[c] = "open"}]
          /\ fPID' = pid
          /\ down' = SendAll(
                       SendAll(down, DAQ, Message("ACQUISITION_STARTED", 0)),
                       DQM, Message("RUN_NUMBER", run))
     \/ /\ fPID' = NoPid
        /\ UNCHANGED <<proc, held, down>>
  /\ UNCHANGED <<link, hup, conn, backlog, fSocketsConnected, fMaster,
                 pc, toping, tries, reaping, lastRun>>

(* The processes kill(fPID) reaches: with fPID=-1, all of them.            *)
Killed == IF fPID = NoPid THEN Pids ELSE {fPID}

(* StopAcquisition(): an interrupt to the last process started.  Success   *)
(* is told to the monitors and, as an exception, to the GUIs; a failure    *)
(* (the process is no more) to the GUIs only.  fPID is kept.               *)
StopAcquisition ==
  /\ \E fd \in NextFds : \E m \in Incoming(fd) :
       /\ m.key = "STOP_ACQUISITION"
       /\ Receives(fd, m)
  /\ reaping' = TRUE
  /\ proc' = [p \in Pids |-> IF p \in Killed /\ proc[p] = "running"
                             THEN "signalled" ELSE proc[p]]
  /\ LET gone == fPID # NoPid /\ proc[fPID] = "reaped"
         exception == Message("EXCEPTION", 0)
     IN down' = IF gone THEN SendAll(down, DAQ, exception)
                ELSE SendAll(SendAll(down, DQM,
                               Message("ACQUISITION_STOPPED", 0)),
                             DAQ, exception)
  /\ UNCHANGED <<link, hup, conn, backlog, held, fSocketsConnected, fMaster,
                 pc, toping, tries, fPID, lastRun>>

(* An acquisition process ends, on its own or because it was told to.      *)
ProcessExit ==
  /\ \E pid \in LiveProcs :
       proc' = [proc EXCEPT ![pid] = IF reaping THEN "reaped" ELSE "zombie"]
  /\ UNCHANGED <<link, hup, conn, backlog, up, down, held, masterVars>>

-----------------------------------------------------------------------------
(* Broadcast(): to all the registered sockets but the listening one.       *)
Broadcast(channels, m) ==
  [c \in Clients |->
     IF \E fd \in RegisteredFds \cap FDs : conn[fd] = c /\ ~hup[c]
     THEN Append(channels[c], m)
     ELSE channels[c]]

(* Ctrl-C in main.cpp, at any point of the loop: the destructor tells all  *)
(* the clients, and the process exits, which closes all its descriptors.   *)
(* Connections that were still queued are reset, unless a child keeps the  *)
(* listening socket.                                                       *)
Quit ==
  /\ pc # "dead"
  /\ pc' = "dead"
  /\ down' = Broadcast(down, Message("MASTER_DISCONNECT", 0))
  /\ link' = [c \in Clients |->
                IF link[c] \in {"open", "queued"} THEN "shut" ELSE link[c]]
  /\ held' = [p \in Pids |->
                IF p \in LiveProcs
                THEN held[p] \cup {c \in Clients : link[c] = "queued"}
                ELSE held[p]]
  /\ conn' = [fd \in FDs |-> NoClient]
  /\ up' = [c \in Clients |-> IF link[c] = "idle" THEN up[c] ELSE <<>>]
  /\ backlog' = <<>>
  /\ fSocketsConnected' = {}
  /\ fMaster' = {}
  /\ fReadFds' = {}
  /\ pos' = -1
  /\ toping' = -1
  /\ tries' = 0
  /\ fPID' = NoPid
  /\ reaping' = FALSE
  /\ UNCHANGED <<hup, proc, lastRun>>

(* The steps of the loop of the master.                                    *)
Process ==
  \/ RemoveClient \/ PingClient \/ ListClients \/ NewRun \/ GetRunNumber
  \/ Forward \/ Ignored \/ StartAcquisition \/ StopAcquisition

MasterLoop ==
  \/ Select \/ EndOfScan \/ Accept \/ AcceptFails \/ Announcement
  \/ AnnouncementLost \/ ClientGone \/ Process \/ PingRead \/ PingTargetGone
=============================================================================
