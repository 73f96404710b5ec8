---------------------------- MODULE ClientProofs ----------------------------
(***************************************************************************)
(* Proofs about Client, for any number of clients, descriptors and         *)
(* processes, and any requests: type correctness, consistency of the       *)
(* registry, and that the identifier of a client is its own.               *)
(***************************************************************************)
EXTENDS Client, SequenceTheorems, TLAPS

-----------------------------------------------------------------------------
(* Messages and streams                                                    *)

LEMMA MessageFields ==
  ASSUME NEW k, NEW v
  PROVE  Message(k, v).key = k /\ Message(k, v).val = v
BY DEF Message

(* The messages of the master, and those of a client that the model builds *)
(* itself, are messages.                                                   *)
LEMMA MessageType ==
  ASSUME NEW v \in Int
  PROVE  /\ Message("REMOVE_CLIENT", v) \in Messages
         /\ Message("SET_CLIENT_ID", v) \in Messages
         /\ Message("PING_CLIENT", v) \in Messages
         /\ Message("PING_ANSWER", v) \in Messages
         /\ Message("CLIENTS_LIST", v) \in Messages
         /\ Message("RUN_NUMBER", v) \in Messages
         /\ Message("NEW_FILENAME", v) \in Messages
         /\ Message("ACQUISITION_STARTED", v) \in Messages
         /\ Message("ACQUISITION_STOPPED", v) \in Messages
         /\ Message("EXCEPTION", v) \in Messages
         /\ Message("MASTER_DISCONNECT", v) \in Messages
         /\ v \in ClientTypes => Message("ADD_CLIENT", v) \in Messages
         /\ NoMessage \in Messages
BY DEF Message, Messages, MessageKeys, NoMessage

LEMMA MessageParts ==
  ASSUME NEW m \in Messages
  PROVE  /\ m.val \in Int
         /\ m.key = "ADD_CLIENT" => m.val \in ClientTypes
BY DEF Messages

(* One recv() takes something from the head of a stream.                   *)
LEMMA ReadsProperties ==
  ASSUME NEW S, NEW stream \in Seq(S), NEW r \in Reads(stream)
  PROVE  /\ stream # <<>>
         /\ r.msg \in S /\ r.msg = stream[1] /\ Len(stream) > 0
         /\ r.rest \in Seq(S)
         /\ \A i \in 1 .. Len(r.rest) :
              \E j \in 1 .. Len(stream) : r.rest[i] = stream[j]
<1>1. PICK n \in 1 .. Len(stream) :
        r = [msg |-> Head(stream), rest |-> SubSeq(stream, n + 1, Len(stream))]
  BY DEF Reads
<1>2. stream # <<>> /\ Head(stream) = stream[1] /\ stream[1] \in S
  BY <1>1
<1>3. \A i \in n + 1 .. Len(stream) : stream[i] \in S
  BY <1>1
<1>4. /\ r.rest \in Seq(S)
      /\ Len(r.rest) = IF n + 1 <= Len(stream) THEN Len(stream) - n ELSE 0
      /\ \A i \in 1 .. Len(stream) - n : r.rest[i] = stream[n + i]
  BY <1>1, <1>3, SubSeqProperties
<1>5. QED
  BY <1>1, <1>2, <1>4

(* So does the master, which may also find nothing.                        *)
LEMMA FetchProperties ==
  ASSUME TypeOK, NEW c \in Clients, NEW r \in Fetch(c)
  PROVE  /\ r.msg \in Messages
         /\ r.rest \in Seq(Messages)
         /\ r.msg = NoMessage \/ \E j \in 1 .. Len(up[c]) : r.msg = up[c][j]
         /\ \A i \in 1 .. Len(r.rest) :
              \E j \in 1 .. Len(up[c]) : r.rest[i] = up[c][j]
<1>1. up[c] \in Seq(Messages)
  BY DEF TypeOK, SocketTypeOK, Streams
<1>2. CASE r \in Reads(up[c])
  BY <1>1, <1>2, ReadsProperties
<1>3. CASE r \in Expired(c)
  <2>1. r = [msg |-> NoMessage, rest |-> <<>>]
    BY <1>3 DEF Expired
  <2>2. QED
    BY <2>1, MessageType
<1>4. QED
  BY <1>2, <1>3 DEF Fetch

LEMMA UpdateType ==
  ASSUME NEW ch \in Streams, NEW c, NEW s \in Seq(Messages)
  PROVE  [ch EXCEPT ![c] = s] \in Streams
BY DEF Streams

LEMMA ExitType ==
  ASSUME TypeOK, NEW c \in Clients, Exit(c)
  PROVE  /\ down' \in Streams
         /\ hup' \in [Clients -> BOOLEAN]
         /\ cstate' \in [Clients -> ClientStates]
         /\ fClientId' \in [Clients -> Int]
         /\ sent' \in [Clients -> Nat]
<1>1. down' \in Streams
  BY EmptySeq DEF Exit, Streams, TypeOK, SocketTypeOK
<1>2. hup' \in [Clients -> BOOLEAN]
  BY DEF Exit, TypeOK, SocketTypeOK
<1>3. cstate' \in [Clients -> ClientStates] /\ sent' \in [Clients -> Nat]
  BY DEF Exit, TypeOK, ClientStates
<1>4. fClientId' \in [Clients -> Int]
  BY DEF Exit, TypeOK
<1>5. QED
  BY <1>1, <1>2, <1>3, <1>4

LEMMA SendToType ==
  ASSUME NEW ch \in Streams, NEW c, NEW m \in Messages
  PROVE  SendTo(ch, c, m) \in Streams
BY DEF SendTo, Streams

LEMMA SendType ==
  ASSUME NEW ch \in Streams, NEW fd, NEW m \in Messages
  PROVE  Send(ch, fd, m) \in Streams
BY SendToType DEF Send

LEMMA SendAllType ==
  ASSUME NEW ch \in Streams, NEW type, NEW m \in Messages
  PROVE  SendAll(ch, type, m) \in Streams
BY DEF SendAll, Streams

LEMMA SendUpType ==
  ASSUME TypeOK, NEW c \in Clients, NEW m \in Messages, SendUp(c, m)
  PROVE  up' \in Streams
BY DEF SendUp, TypeOK, SocketTypeOK, Streams

LEMMA TypeOfType == \A c \in Clients : TypeOf[c] \in Int /\ TypeOf[c] \in ClientTypes
BY TypeOfAssumption DEF ClientTypes, SocketTypes, MASTER, DAQ

LEMMA UnreadType ==
  ASSUME TypeOK, NEW fd \in FDs, conn[fd] \in Clients, NEW m,
         NEW unread \in Unread(fd, m)
  PROVE  unread \in Streams /\ m \in Messages
<1>1. PICK r \in Fetch(conn[fd]) :
        r.msg = m /\ unread = [up EXCEPT ![conn[fd]] = r.rest]
  BY DEF Unread
<1>2. QED
  BY <1>1, FetchProperties DEF TypeOK, SocketTypeOK, Streams

-----------------------------------------------------------------------------
(* The registry                                                            *)

(* The descriptors that the loop visits are open connections of clients.   *)
LEMMA VisitedIsOpen ==
  ASSUME TableInv, pc # "dead", NEW fd \in FDs, fd \in RegisteredFds
  PROVE  fd \in OpenFds /\ conn[fd] \in Clients /\ link[conn[fd]] = "open"
<1>1. fd # ListenFd /\ ListenFd \notin FDs
  BY FDsAssumption
<1>2. fd \in OpenFds
  BY <1>1 DEF TableInv, RegistryConsistent
<1>3. conn[fd] \in Clients
  BY <1>2 DEF OpenFds, TableInv, TypeOK, SocketTypeOK
<1>4. QED
  BY <1>2, <1>3 DEF TableInv, RegistryConsistent

(* The descriptors of a registry with one more entry.                      *)
LEMMA RegisteredWith ==
  ASSUME NEW S, NEW fd, NEW type
  PROVE  {e[1] : e \in S \cup {<<fd, type>>}} = {e[1] : e \in S} \cup {fd}
<1>1. <<fd, type>>[1] = fd
  OBVIOUS
<1>2. ASSUME NEW x \in {e[1] : e \in S \cup {<<fd, type>>}}
      PROVE  x \in {e[1] : e \in S} \cup {fd}
  BY <1>1, <1>2
<1>3. ASSUME NEW x \in {e[1] : e \in S} \cup {fd}
      PROVE  x \in {e[1] : e \in S \cup {<<fd, type>>}}
  <2>1. CASE x = fd
    <3>1. <<fd, type>> \in S \cup {<<fd, type>>}
      OBVIOUS
    <3>2. QED
      BY <1>1, <2>1, <3>1
  <2>2. CASE x \in {e[1] : e \in S}
    BY <2>2
  <2>3. QED
    BY <1>3, <2>1, <2>2
<1>4. QED
  BY <1>2, <1>3

LEMMA NextIsOpen ==
  ASSUME TableInv, pc = "scan", NEW fd \in FDs, IsNext(fd)
  PROVE  fd \in OpenFds /\ conn[fd] \in Clients /\ link[conn[fd]] = "open"
BY VisitedIsOpen DEF IsNext, Remaining

LEMMA OpenIsClient ==
  ASSUME TypeOK, NEW fd \in OpenFds
  PROVE  fd \in FDs /\ fd \in Int /\ conn[fd] \in Clients
BY FDsAssumption DEF OpenFds, TypeOK, SocketTypeOK

LEMMA InitTable == Init => TableInv
<1> SUFFICES ASSUME Init PROVE TableInv
  OBVIOUS
<1> USE FDsAssumption, NoneAssumption DEF Init, SocketInit, MessengerInit
<1>1. TypeOK
  <2>1. SocketTypeOK
    BY EmptySeq DEF SocketTypeOK, Streams, LinkStates, ProcStates
  <2>2. <<ListenFd, MASTER>> \in AllFds \X SocketTypes
    BY DEF AllFds, SocketTypes, MASTER, DAQ
  <2>3. reaping \in BOOLEAN
    BY Zenon
  <2>4. MessengerTypeOK
    BY <2>2, <2>3 DEF MessengerTypeOK, MasterStates, AllFds
  <2>5. QED
    BY <2>1, <2>4 DEF TypeOK, ClientStates
<1>2. OpenFds = {}
  BY DEF OpenFds
<1>3. RegistryConsistent
  BY <1>2 DEF RegistryConsistent, RegisteredFds, MASTER
<1>4. BacklogInv /\ WaitingInv
  BY <1>2 DEF BacklogInv, WaitingInv
<1>5. QED
  BY <1>1, <1>3, <1>4 DEF TableInv

(* A request is handled: the table of connections does not change, and     *)
(* only the streams of the clients do.                                     *)
LEMMA ReceivesType ==
  ASSUME TableInv, NEW fd \in NextFds, NEW m \in Incoming(fd), Receives(fd, m)
  PROVE  /\ pc = "scan" /\ fd \in FDs
         /\ m \in Messages
         /\ up' \in Streams
         /\ pos' \in FDs
<1>1. pc = "scan" /\ fd \in FDs /\ IsNext(fd)
  BY DEF Receives, Arrives
<1>2. conn[fd] \in Clients
  BY <1>1, NextIsOpen
<1>3. QED
  BY <1>1, <1>2, UnreadType DEF Receives, TableInv

-----------------------------------------------------------------------------
(* Type correctness                                                        *)

LEMMA TypeStep == TableInv /\ [Next]_vars => TypeOK'
<1> SUFFICES ASSUME TableInv, [Next]_vars
             PROVE  TypeOK'
  OBVIOUS
<1> USE DEF TypeOK, SocketTypeOK, MessengerTypeOK, LinkStates, ProcStates,
            MasterStates, ClientStates
<1>0. TypeOK
  BY DEF TableInv
<1>00. up \in Streams /\ down \in Streams
  BY <1>0
<1>1. CASE Select /\ UNCHANGED clientVars
  BY <1>0, <1>1 DEF Select, Found, sockVars, clientVars
<1>2. CASE EndOfScan /\ UNCHANGED clientVars
  BY <1>0, <1>2 DEF EndOfScan, Return, sockVars, clientVars
<1>3. CASE Accept /\ UNCHANGED clientVars
  <2>1. backlog \in Seq(Clients) /\ backlog # <<>>
    BY <1>0, <1>3 DEF TableInv, BacklogInv, Accept, IsNext, Remaining
  <2>2. Head(backlog) \in Clients /\ Tail(backlog) \in Seq(Clients)
    BY <2>1
  <2>3. \A fd \in FDs : <<fd, CLIENT>> \in AllFds \X SocketTypes
    BY DEF AllFds, SocketTypes, CLIENT, MASTER, DAQ
  <2>4. QED
    BY <1>0, <1>3, <2>2, <2>3 DEF Accept, clientVars, AllFds
<1>4. CASE AcceptFails /\ UNCHANGED clientVars
  BY <1>0, <1>4 DEF AcceptFails, Return, sockVars, clientVars
<1>5. CASE Announcement /\ UNCHANGED clientVars
  <2>1. pos \in FDs /\ conn[pos] \in Clients /\ pos \in Int
    <3>1. pos \in OpenFds
      BY <1>5 DEF Announcement, TableInv, WaitingInv
    <3>2. QED
      BY <1>0, <3>1, OpenIsClient
  <2>2. PICK r \in Fetch(conn[pos]) :
          /\ up' = [up EXCEPT ![conn[pos]] = r.rest]
          /\ \/ r.msg.key = "ADD_CLIENT" /\ SwitchClientType(pos, r.msg.val)
             \/ UNCHANGED fSocketsConnected
    BY <1>5 DEF Announcement
  <2>3. r.msg \in Messages /\ r.rest \in Seq(Messages)
    BY <1>0, <2>1, FetchProperties
  <2>4. fSocketsConnected' \subseteq AllFds \X SocketTypes
    <3>1. CASE r.msg.key = "ADD_CLIENT" /\ SwitchClientType(pos, r.msg.val)
      <4>1. <<pos, r.msg.val>> \in AllFds \X SocketTypes
        BY <2>1, <2>3, <3>1, MessageParts DEF AllFds, ClientTypes
      <4>2. QED
        BY <1>0, <3>1, <4>1 DEF SwitchClientType
    <3>2. QED
      BY <1>0, <2>2, <3>1
  <2>5. down' \in Streams
    <3>1. Message("SET_CLIENT_ID", pos) \in Messages
      BY <2>1, MessageType
    <3>2. down' = SendTo(down, conn[pos], Message("SET_CLIENT_ID", pos))
      BY <1>5 DEF Announcement, GiveId
    <3>3. QED
      BY <1>00, <3>1, <3>2, SendToType
  <2>6. QED
    BY <1>0, <1>5, <2>1, <2>2, <2>3, <2>4, <2>5, UpdateType
       DEF Announcement, Return, clientVars
<1>6. CASE AnnouncementLost /\ UNCHANGED clientVars
  BY <1>0, <1>6 DEF AnnouncementLost, Return, sockVars, clientVars
<1>7. CASE ClientGone /\ UNCHANGED clientVars
  BY <1>0, <1>7 DEF ClientGone, DisconnectClient, Return, clientVars
<1>8. CASE Process /\ UNCHANGED clientVars
  <2>1. CASE RemoveClient
    <3>0. PICK fd \in NextFds : \E m \in Incoming(fd) :
            /\ Arrives(fd, m)
            /\ \E unread \in Unread(fd, m) : up' = Discard(unread, m.val)
            /\ \/ /\ pos' = fd
                  /\ UNCHANGED <<conn, link, fSocketsConnected, fMaster, pc,
                                 fReadFds>>
               \/ DisconnectClient(m.val) /\ Return
      BY <2>1 DEF RemoveClient
    <3>1. PICK m \in Incoming(fd) :
            /\ Arrives(fd, m)
            /\ \E unread \in Unread(fd, m) : up' = Discard(unread, m.val)
            /\ \/ /\ pos' = fd
                  /\ UNCHANGED <<conn, link, fSocketsConnected, fMaster, pc,
                                 fReadFds>>
               \/ DisconnectClient(m.val) /\ Return
      BY <3>0
    <3>2. fd \in FDs /\ conn[fd] \in Clients
      BY <3>1, NextIsOpen DEF Arrives
    <3>3. up' \in Streams
      <4>1. PICK unread \in Unread(fd, m) : up' = Discard(unread, m.val)
        BY <3>1
      <4>2. unread \in Streams /\ <<>> \in Seq(Messages)
        BY <1>0, <3>2, UnreadType, EmptySeq
      <4>3. QED
        BY <4>1, <4>2, UpdateType DEF Discard
    <3>4. /\ conn' \in [FDs -> Clients \cup {NoClient}]
          /\ link' \in [Clients -> LinkStates]
          /\ fSocketsConnected' \subseteq AllFds \X SocketTypes
          /\ fMaster' \subseteq AllFds
      BY <1>0, <3>1 DEF DisconnectClient
    <3>5. pc' \in MasterStates /\ pos' \in AllFds \cup {-1} /\ fReadFds' \subseteq AllFds
      BY <1>0, <3>1, <3>2 DEF Return, AllFds
    <3>6. QED
      BY <1>0, <1>8, <2>1, <3>3, <3>4, <3>5 DEF RemoveClient, clientVars
  <2>2. CASE PingClient
    <3>1. PICK fd \in NextFds : \E m \in Incoming(fd) :
            /\ Receives(fd, m)
            /\ \/ /\ down' = Send(down, m.val, Message("PING_CLIENT", 0))
                  /\ m.val \in OpenFds /\ toping' = m.val /\ pc' = "ping"
               \/ /\ down' = Send(down, fd, Message("PING_ANSWER", 0))
                  /\ UNCHANGED <<toping, pc>>
      BY <2>2 DEF PingClient
    <3>2. PICK m \in Incoming(fd) :
            /\ Receives(fd, m)
            /\ \/ /\ down' = Send(down, m.val, Message("PING_CLIENT", 0))
                  /\ m.val \in OpenFds /\ toping' = m.val /\ pc' = "ping"
               \/ /\ down' = Send(down, fd, Message("PING_ANSWER", 0))
                  /\ UNCHANGED <<toping, pc>>
      BY <3>1
    <3>3. down' \in Streams
      BY <1>00, <3>2, MessageType, SendType
    <3>4. toping' \in FDs \cup {-1} /\ pc' \in MasterStates
      BY <1>0, <3>2 DEF OpenFds
    <3>5. QED
      BY <1>0, <1>8, <2>2, <3>2, <3>3, <3>4, ReceivesType
         DEF PingClient, Receives, AllFds, clientVars
  <2>3. CASE ListClients
    <3>1. PICK fd \in NextFds : \E m \in Incoming(fd), v \in {DETECTOR, 0} :
            Receives(fd, m) /\ down' = Send(down, fd, Message("CLIENTS_LIST", v))
      BY <2>3 DEF ListClients
    <3>2. down' \in Streams
      BY <1>00, <3>1, MessageType, SendType DEF DETECTOR
    <3>3. QED
      BY <1>0, <1>8, <2>3, <3>1, <3>2, ReceivesType
         DEF ListClients, Receives, AllFds, clientVars
  <2>4. CASE NewRun
    <3>1. PICK fd \in NextFds : \E m \in Incoming(fd) :
            /\ Receives(fd, m)
            /\ lastRun' \in Nat
            /\ \/ down' = SendAll(SendAll(down, DQM, Message("RUN_NUMBER", lastRun')),
                                  DAQ, Message("RUN_NUMBER", lastRun'))
               \/ down' = down
      <4>1. lastRun' \in Nat
        BY <1>0, <2>4 DEF NewRun
      <4>2. QED
        BY <2>4, <4>1 DEF NewRun, TellRun
    <3>2. down' \in Streams
      BY <1>00, <3>1, MessageType, SendAllType
    <3>3. QED
      BY <1>0, <1>8, <2>4, <3>1, <3>2, ReceivesType
         DEF NewRun, Receives, AllFds, clientVars
  <2>5. CASE GetRunNumber
    <3>1. PICK fd \in NextFds : \E m \in Incoming(fd), run \in Int :
            Receives(fd, m) /\ down' = Send(down, fd, Message("RUN_NUMBER", run))
      BY <1>0, <2>5 DEF GetRunNumber, LastRunRead
    <3>2. down' \in Streams
      BY <1>00, <3>1, MessageType, SendType
    <3>3. QED
      BY <1>0, <1>8, <2>5, <3>1, <3>2, ReceivesType
         DEF GetRunNumber, Receives, AllFds, clientVars
  <2>6. CASE Forward
    <3>1. PICK fd \in NextFds : \E m \in Incoming(fd) :
            /\ Receives(fd, m)
            /\ \/ down' = SendAll(down, DQM, Message("NEW_FILENAME", m.val))
               \/ down' = SendAll(down, DAQ, m)
      BY <2>6 DEF Forward
    <3>2. down' \in Streams
      BY <1>00, <3>1, ReceivesType, MessageParts, MessageType, SendAllType
    <3>3. QED
      BY <1>0, <1>8, <2>6, <3>1, <3>2, ReceivesType
         DEF Forward, Receives, AllFds, clientVars
  <2>7. CASE Ignored
    BY <1>0, <1>8, <2>7, ReceivesType DEF Ignored, Receives, AllFds, clientVars
  <2>8. CASE StartAcquisition
    <3>1. PICK fd \in NextFds : \E m \in Incoming(fd) : Receives(fd, m)
      BY <2>8 DEF StartAcquisition
    <3>2. /\ proc' \in [Pids -> ProcStates] /\ held' \in [Pids -> SUBSET Clients]
          /\ fPID' \in Pids \cup {NoPid}
      BY <1>0, <2>8, ZenonT(60) DEF StartAcquisition
    <3>3. PICK run \in Int :
            \/ down' = SendAll(SendAll(down, DAQ, Message("ACQUISITION_STARTED", 0)),
                               DQM, Message("RUN_NUMBER", run))
            \/ down' = down
      BY <1>0, <2>8 DEF StartAcquisition, LastRunRead
    <3>4. down' \in Streams
      BY <1>00, <3>3, MessageType, SendAllType
    <3>5. QED
      BY <1>0, <1>8, <2>8, <3>1, <3>2, <3>4, ReceivesType
         DEF StartAcquisition, Receives, AllFds, clientVars
  <2>9. CASE StopAcquisition
    <3>1. PICK fd \in NextFds : \E m \in Incoming(fd) : Receives(fd, m)
      BY <2>9 DEF StopAcquisition
    <3>2. proc' \in [Pids -> ProcStates]
      BY <1>0, <2>9 DEF StopAcquisition
    <3>3. \/ down' = SendAll(down, DAQ, Message("EXCEPTION", 0))
          \/ down' = SendAll(SendAll(down, DQM, Message("ACQUISITION_STOPPED", 0)),
                             DAQ, Message("EXCEPTION", 0))
      BY <2>9 DEF StopAcquisition
    <3>4. down' \in Streams
      BY <1>00, <3>3, MessageType, SendAllType
    <3>5. reaping' \in BOOLEAN
      BY <2>9, Zenon DEF StopAcquisition
    <3>6. QED
      BY <1>0, <1>8, <2>9, <3>1, <3>2, <3>4, <3>5, ReceivesType
         DEF StopAcquisition, Receives, AllFds, clientVars
  <2>10. QED
    BY <1>8, <2>1, <2>2, <2>3, <2>4, <2>5, <2>6, <2>7, <2>8, <2>9 DEF Process
<1>9. CASE PingRead /\ UNCHANGED clientVars
  <2>1. conn[toping] \in Clients
    BY <1>0, <1>9 DEF PingRead, TableInv, WaitingInv, OpenFds
  <2>2. up' \in Streams
    <3>1. PICK r \in Fetch(conn[toping]) : up' = [up EXCEPT ![conn[toping]] = r.rest]
      BY <1>9 DEF PingRead
    <3>2. r.rest \in Seq(Messages)
      BY <1>0, <2>1, FetchProperties
    <3>3. QED
      BY <1>00, <3>1, <3>2, UpdateType
  <2>3. down' \in Streams
    <3>1. Message("PING_ANSWER", 0) \in Messages
      BY MessageType
    <3>2. \/ down' = Send(down, pos, Message("PING_ANSWER", 0))
          \/ down' = down
      BY <1>9 DEF PingRead
    <3>3. QED
      BY <1>00, <3>1, <3>2, SendType
  <2>4. QED
    BY <1>0, <1>9, <2>2, <2>3 DEF PingRead, EndOfPing, clientVars
<1>10. CASE PingTargetGone /\ UNCHANGED clientVars
  BY <1>0, <1>10 DEF PingTargetGone, EndOfPing, sockVars, clientVars
<1>11. CASE Quit /\ UNCHANGED clientVars
  <2>1. down' \in Streams
    BY <1>0, <1>11, MessageType DEF Quit, Broadcast, Streams
  <2>2. link' \in [Clients -> LinkStates] /\ held' \in [Pids -> SUBSET Clients]
    BY <1>0, <1>11 DEF Quit, Broadcast
  <2>3. reaping' \in BOOLEAN
    BY <1>11, Zenon DEF Quit, Broadcast
  <2>4. up' \in Streams
    BY <1>0, <1>11, EmptySeq DEF Quit, Broadcast, Streams
  <2>5. QED
    BY <1>0, <1>11, <2>1, <2>2, <2>3, <2>4 DEF Quit, Broadcast, clientVars
<1>12. CASE ProcessExit /\ UNCHANGED clientVars
  BY <1>0, <1>12 DEF ProcessExit, masterVars, clientVars
<1>13. ASSUME NEW c \in Clients, Connect(c) PROVE TypeOK'
  BY <1>0, <1>13 DEF Connect, masterVars
<1>14. ASSUME NEW c \in Clients, Announce(c) PROVE TypeOK'
  BY <1>0, <1>14, TypeOfType, MessageType, SendUpType DEF Announce, masterVars
<1>15. ASSUME NEW c \in Clients, AwaitId(c) PROVE TypeOK'
  <2>1. PICK r \in Reads(down[c]) :
          /\ down' = [down EXCEPT ![c] = r.rest]
          /\ fClientId' = [fClientId EXCEPT ![c] = r.msg.val] \/ fClientId' = fClientId
    BY <1>15 DEF AwaitId
  <2>2. r.msg \in Messages /\ r.rest \in Seq(Messages)
    BY <1>0, <2>1, ReadsProperties DEF Streams
  <2>3. down' \in Streams
    BY <1>0, <2>1, <2>2, UpdateType
  <2>4. fClientId' \in [Clients -> Int]
    BY <1>0, <2>1, <2>2, MessageParts
  <2>5. QED
    BY <1>0, <1>15, <2>3, <2>4 DEF AwaitId, masterVars
<1>16. ASSUME NEW c \in Clients, NoAnswer(c) PROVE TypeOK'
  BY <1>0, <1>16 DEF NoAnswer, sockVars, masterVars
<1>17. ASSUME NEW c \in Clients, Request(c) PROVE TypeOK'
  <2>1. up' \in Streams
    <3>1. PICK m \in Requests[c] : SendUp(c, m)
      BY <1>17 DEF Request
    <3>2. m \in Messages
      BY RequestsAssumption
    <3>3. QED
      BY <1>0, <3>1, <3>2, SendUpType
  <2>2. sent' \in [Clients -> Nat]
    BY <1>0, <1>17 DEF Request
  <2>3. QED
    BY <1>0, <1>17, <2>1, <2>2 DEF Request, masterVars
<1>18. ASSUME NEW c \in Clients, Receive(c) PROVE TypeOK'
  <2>1. CASE Exit(c) /\ UNCHANGED up
    BY <1>0, <2>1, ExitType DEF Exit, masterVars
  <2>2. ASSUME NEW r \in Reads(down[c]), down' = [down EXCEPT ![c] = r.rest],
               SendUp(c, Message("PING_ANSWER", 0)) \/ UNCHANGED up,
               UNCHANGED <<link, hup, conn, backlog, proc, held, masterVars,
                           clientVars>>
        PROVE  TypeOK'
    <3>1. r.rest \in Seq(Messages)
      BY <1>0, <2>2, ReadsProperties DEF Streams
    <3>2. Message("PING_ANSWER", 0) \in Messages
      BY MessageType
    <3>3. up' \in Streams
      BY <1>0, <2>2, <3>2, SendUpType
    <3>4. QED
      BY <1>0, <2>2, <3>1, <3>3, UpdateType DEF masterVars, clientVars
  <2>3. QED
    BY <1>18, <2>1, <2>2 DEF Receive
<1>19. ASSUME NEW c \in Clients, EndOfFile(c) PROVE TypeOK'
  BY <1>0, <1>19, ExitType DEF EndOfFile, Exit, masterVars
<1>20. ASSUME NEW c \in Clients, Leave(c) PROVE TypeOK'
  BY <1>0, <1>20, MessageType, SendUpType DEF Leave, masterVars
<1>21. ASSUME NEW c \in Clients, Close(c) PROVE TypeOK'
  <2>1. Message("REMOVE_CLIENT", fClientId[c]) \in Messages
    BY <1>0, MessageType DEF TypeOK
  <2>2. up' \in Streams
    BY <1>0, <1>21, <2>1, SendUpType DEF Close, TypeOK, SocketTypeOK
  <2>3. QED
    BY <1>0, <1>21, <2>2, ExitType DEF Close, Exit, masterVars
<1>22. ASSUME NEW c \in Clients, Crash(c) PROVE TypeOK'
  BY <1>0, <1>22, ExitType DEF Crash, Exit, masterVars
<1>23. CASE UNCHANGED vars
  BY <1>0, <1>23 DEF vars, sockVars, masterVars, clientVars
<1>24. QED
  BY <1>1, <1>2, <1>3, <1>4, <1>5, <1>6, <1>7, <1>8, <1>9, <1>10, <1>11,
     <1>12, <1>13, <1>14, <1>15, <1>16, <1>17, <1>18, <1>19, <1>20, <1>21,
     <1>22, <1>23
     DEF Next, Master, MasterLoop, ClientStep

-----------------------------------------------------------------------------
(* The registry is consistent                                              *)

(* What the steps that leave the table of connections alone do.            *)
Quiet ==
  /\ UNCHANGED <<link, conn, fSocketsConnected, fMaster, backlog>>
  /\ pc' = "dead" <=> pc = "dead"
  /\ pc' = "announce" => pc = "announce" /\ pos' = pos
  /\ pc' = "ping" => toping' \in OpenFds
  /\ pc' \in {"scan", "ping"} /\ ListenFd \in fReadFds' => backlog # <<>>
  /\ \A c \in Clients : cstate'[c] = "idle" => cstate[c] = "idle" /\ hup'[c] = hup[c]

(* The loop goes on after a request that changes neither the table nor the *)
(* state of the master.                                                    *)
LEMMA HandlerIsQuiet ==
  ASSUME TableInv, pc = "scan", pc' \in {"scan", "ping"}, UNCHANGED fReadFds,
         pc' = "ping" => toping' \in OpenFds,
         UNCHANGED <<link, hup, conn, backlog, fSocketsConnected, fMaster>>,
         UNCHANGED clientVars
  PROVE  Quiet
BY DEF Quiet, TableInv, BacklogInv, clientVars

LEMMA ProcessIsQuiet ==
  ASSUME TableInv, Process, UNCHANGED clientVars
  PROVE  Quiet \/ RemoveClient
<1>1. CASE PingClient
  <2>1. /\ pc = "scan" /\ pc' \in {"scan", "ping"} /\ UNCHANGED fReadFds
        /\ pc' = "ping" => toping' \in OpenFds
    BY <1>1 DEF PingClient, Receives, Arrives
  <2>2. QED
    BY <1>1, <2>1, HandlerIsQuiet DEF PingClient
<1>2. CASE ListClients
  <2>1. pc = "scan" /\ pc' = "scan" /\ UNCHANGED fReadFds
    BY <1>2 DEF ListClients, Receives, Arrives
  <2>2. QED
    BY <1>2, <2>1, HandlerIsQuiet DEF ListClients
<1>3. CASE NewRun
  <2>1. pc = "scan" /\ pc' = "scan" /\ UNCHANGED fReadFds
    BY <1>3 DEF NewRun, Receives, Arrives
  <2>2. QED
    BY <1>3, <2>1, HandlerIsQuiet DEF NewRun
<1>4. CASE GetRunNumber
  <2>1. pc = "scan" /\ pc' = "scan" /\ UNCHANGED fReadFds
    BY <1>4 DEF GetRunNumber, Receives, Arrives
  <2>2. QED
    BY <1>4, <2>1, HandlerIsQuiet DEF GetRunNumber
<1>5. CASE Forward
  <2>1. pc = "scan" /\ pc' = "scan" /\ UNCHANGED fReadFds
    BY <1>5 DEF Forward, Receives, Arrives
  <2>2. QED
    BY <1>5, <2>1, HandlerIsQuiet DEF Forward
<1>6. CASE Ignored
  <2>1. pc = "scan" /\ pc' = "scan" /\ UNCHANGED fReadFds
    BY <1>6 DEF Ignored, Receives, Arrives
  <2>2. QED
    BY <1>6, <2>1, HandlerIsQuiet DEF Ignored
<1>7. CASE StartAcquisition
  <2>1. pc = "scan" /\ pc' = "scan" /\ UNCHANGED fReadFds
    BY <1>7 DEF StartAcquisition, Receives, Arrives
  <2>2. QED
    BY <1>7, <2>1, HandlerIsQuiet DEF StartAcquisition
<1>8. CASE StopAcquisition
  <2>1. pc = "scan" /\ pc' = "scan" /\ UNCHANGED fReadFds
    BY <1>8 DEF StopAcquisition, Receives, Arrives
  <2>2. QED
    BY <1>8, <2>1, HandlerIsQuiet DEF StopAcquisition
<1>9. QED
  BY <1>1, <1>2, <1>3, <1>4, <1>5, <1>6, <1>7, <1>8 DEF Process

(* A step of a client that is not Connect().                               *)
LEMMA ClientIsQuiet ==
  ASSUME TableInv, NEW c \in Clients,
         UNCHANGED <<link, conn, backlog, masterVars>>,
         \A d \in Clients : cstate'[d] = "idle" => cstate[d] = "idle" /\ hup'[d] = hup[d]
  PROVE  Quiet
BY DEF Quiet, TableInv, BacklogInv, WaitingInv, masterVars

LEMMA Kinds ==
  ASSUME TableInv, [Next]_vars
  PROVE  \/ Accept /\ UNCHANGED clientVars
         \/ Announcement /\ UNCHANGED clientVars
         \/ ClientGone /\ UNCHANGED clientVars
         \/ RemoveClient /\ UNCHANGED clientVars
         \/ Quit /\ UNCHANGED clientVars
         \/ \E c \in Clients : Connect(c)
         \/ Quiet
<1>1. CASE Select /\ UNCHANGED clientVars
  <2>1. ListenFd \in fReadFds' => backlog # <<>>
    <3>1. ListenFd \notin OpenFds
      BY FDsAssumption DEF OpenFds
    <3>2. QED
      BY <1>1, <3>1 DEF Select, Found, Readable
  <2>2. QED
    BY <1>1, <2>1 DEF Select, Found, sockVars, clientVars, Quiet
<1>2. CASE (EndOfScan \/ AcceptFails \/ AnnouncementLost) /\ UNCHANGED clientVars
  BY <1>2 DEF EndOfScan, AcceptFails, AnnouncementLost, Return, sockVars,
              clientVars, Quiet
<1>3. CASE Process /\ UNCHANGED clientVars
  BY <1>3, ProcessIsQuiet
<1>4. CASE PingRead /\ UNCHANGED clientVars
  BY <1>4 DEF PingRead, EndOfPing, clientVars, Quiet, TableInv, BacklogInv, WaitingInv
<1>5. CASE PingTargetGone /\ UNCHANGED clientVars
  BY <1>5 DEF PingTargetGone, EndOfPing, sockVars, clientVars, Quiet,
              TableInv, BacklogInv
<1>6. CASE ProcessExit /\ UNCHANGED clientVars
  BY <1>6 DEF ProcessExit, masterVars, clientVars, Quiet, TableInv, BacklogInv,
              WaitingInv
<1>7. ASSUME NEW c \in Clients, ClientStep(c), ~Connect(c)
      PROVE  Quiet
  <2>0. TypeOK
    BY DEF TableInv
  <2>1. UNCHANGED <<link, conn, backlog, masterVars>>
    BY <1>7 DEF ClientStep, Announce, AwaitId, NoAnswer, Request, Receive,
                EndOfFile, Leave, Close, Crash, Exit, sockVars
  <2>2. CASE UNCHANGED <<hup, cstate>>
    BY <2>1, <2>2, ClientIsQuiet
  <2>3. CASE UNCHANGED hup /\ \E v \in ClientStates \ {"idle"} : cstate' = [cstate EXCEPT ![c] = v]
    BY <2>0, <2>1, <2>3, ClientIsQuiet DEF TypeOK
  <2>4. CASE Exit(c)
    BY <2>0, <2>1, <2>4, ClientIsQuiet DEF Exit, TypeOK, SocketTypeOK
  <2>5. QED
    BY <1>7, <2>2, <2>3, <2>4
       DEF ClientStep, Announce, AwaitId, NoAnswer, Request, Receive,
           EndOfFile, Leave, Close, Crash, sockVars, clientVars, ClientStates
<1>8. CASE UNCHANGED vars
  BY <1>8 DEF vars, sockVars, masterVars, clientVars, Quiet, TableInv,
              BacklogInv, WaitingInv
<1>9. QED
  BY <1>1, <1>2, <1>3, <1>4, <1>5, <1>6, <1>7, <1>8
     DEF Next, Master, MasterLoop

(* The table keeps its invariants when a connection is accepted,           *)
LEMMA AcceptTable ==
  ASSUME TableInv, Accept, UNCHANGED clientVars
  PROVE  (RegistryConsistent /\ BacklogInv /\ WaitingInv)'
<1> DEFINE c == Head(backlog)
<1>0. TypeOK /\ pc = "scan" /\ pc' = "announce"
  BY DEF TableInv, Accept
<1>1. PICK fd \in FDs \ OpenFds :
        /\ conn' = [conn EXCEPT ![fd] = c]
        /\ link' = [link EXCEPT ![c] = "open"]
        /\ fSocketsConnected' = fSocketsConnected \cup {<<fd, CLIENT>>}
        /\ fMaster' = fMaster \cup {fd}
        /\ pos' = fd
  BY DEF Accept, IsLowestFree
<1>2. backlog' = Tail(backlog) /\ UNCHANGED <<hup, toping, fReadFds>>
  BY DEF Accept
<1>3. backlog \in Seq(Clients) /\ backlog # <<>>
  BY <1>0 DEF TableInv, BacklogInv, Accept, IsNext, Remaining, TypeOK,
              SocketTypeOK
<1>4. c \in Clients /\ link[c] = "queued" /\ c = backlog[1]
  BY <1>3 DEF TableInv, BacklogInv
<1>5. /\ Tail(backlog) \in Seq(Clients)
      /\ Len(Tail(backlog)) = Len(backlog) - 1
      /\ \A i \in 1 .. Len(Tail(backlog)) : Tail(backlog)[i] = backlog[i + 1]
  BY <1>3, HeadTailProperties
<1>6. OpenFds' = OpenFds \cup {fd}
  BY <1>0, <1>1, <1>4, NoneAssumption DEF OpenFds, TypeOK, SocketTypeOK
<1>7. \A other \in FDs : conn[other] # c
  BY <1>0, <1>4 DEF TableInv, RegistryConsistent
<1>8. RegisteredFds' = RegisteredFds \cup {fd} /\ fd \notin RegisteredFds
      /\ fd # ListenFd
  <2>1. fd # ListenFd
    BY <1>1, FDsAssumption
  <2>2. fd \notin RegisteredFds
    BY <1>0, <1>1, <2>1 DEF TableInv, RegistryConsistent
  <2>3. RegisteredFds' = RegisteredFds \cup {fd}
    BY <1>1, RegisteredWith DEF RegisteredFds
  <2>4. QED
    BY <2>1, <2>2, <2>3
<1>9. RegistryConsistent'
  <2>1. fMaster' = RegisteredFds' /\ RegisteredFds' = OpenFds' \cup {ListenFd}
    BY <1>0, <1>1, <1>6, <1>8 DEF TableInv, RegistryConsistent
  <2>2. \A e1, e2 \in fSocketsConnected' : e1[1] = e2[1] => e1 = e2
    <3>1. \A e \in fSocketsConnected : e[1] # fd
      BY <1>8 DEF RegisteredFds
    <3>2. QED
      BY <1>0, <1>1, <3>1 DEF TableInv, RegistryConsistent
  <2>3. \A e \in fSocketsConnected' : e[2] = MASTER <=> e[1] = ListenFd
    BY <1>0, <1>1, <1>8 DEF TableInv, RegistryConsistent, CLIENT, MASTER
  <2>4. \A fd1, fd2 \in OpenFds' : conn'[fd1] = conn'[fd2] => fd1 = fd2
    BY <1>0, <1>1, <1>6, <1>7
       DEF TableInv, RegistryConsistent, OpenFds, TypeOK, SocketTypeOK
  <2>5. \A d \in Clients : link'[d] = "open" <=> \E f \in FDs : conn'[f] = d
    <3>1. conn[fd] = NoClient
      BY <1>1 DEF OpenFds
    <3>2. QED
      BY <1>0, <1>1, <1>4, <1>7, <3>1, NoneAssumption
         DEF TableInv, RegistryConsistent, TypeOK, SocketTypeOK
  <2>6. QED
    BY <2>1, <2>2, <2>3, <2>4, <2>5 DEF RegistryConsistent
<1>10. BacklogInv'
  <2>1. \A i \in 1 .. Len(backlog') : link'[backlog'[i]] = "queued"
    <3>1. ASSUME NEW i \in 1 .. Len(Tail(backlog))
          PROVE  link'[Tail(backlog)[i]] = "queued"
      <4>1. i + 1 \in 1 .. Len(backlog) /\ 1 \in 1 .. Len(backlog) /\ i + 1 # 1
        BY <1>3, <1>5
      <4>2. Tail(backlog)[i] = backlog[i + 1] /\ backlog[i + 1] \in Clients
        BY <1>3, <1>5, <4>1
      <4>3. backlog[i + 1] # c /\ link[backlog[i + 1]] = "queued"
        BY <1>4, <4>1 DEF TableInv, BacklogInv
      <4>4. QED
        BY <1>0, <1>1, <4>2, <4>3 DEF TypeOK, SocketTypeOK
    <3>2. QED
      BY <1>2, <3>1
  <2>2. \A i, j \in 1 .. Len(backlog') : backlog'[i] = backlog'[j] => i = j
    BY <1>2, <1>3, <1>5 DEF TableInv, BacklogInv
  <2>3. QED
    BY <1>0, <2>1, <2>2 DEF BacklogInv
<1>11. WaitingInv'
  <2>1. pos' \in OpenFds' /\ <<pos', CLIENT>> \in fSocketsConnected'
    BY <1>1, <1>6
  <2>2. \A d \in Clients : cstate[d] = "idle" => d # c
    BY <1>4 DEF TableInv, WaitingInv
  <2>3. \A d \in Clients : cstate'[d] = "idle" => link'[d] = "idle" /\ ~hup'[d]
    BY <1>0, <1>1, <1>2, <2>2
       DEF TableInv, WaitingInv, clientVars, TypeOK, SocketTypeOK
  <2>4. QED
    BY <1>0, <2>1, <2>3 DEF WaitingInv
<1>12. QED
  BY <1>9, <1>10, <1>11

(* when a client is given its type,                                        *)
LEMMA AnnouncementTable ==
  ASSUME TableInv, Announcement, UNCHANGED clientVars
  PROVE  (RegistryConsistent /\ BacklogInv /\ WaitingInv)'
<1>0. /\ TypeOK /\ pc = "announce" /\ pc' = "select"
      /\ UNCHANGED <<link, hup, conn, backlog, fMaster>>
  BY DEF TableInv, Announcement, Return
<1>1. pos \in OpenFds /\ pos \in FDs /\ pos # ListenFd /\ conn[pos] \in Clients
  BY <1>0, OpenIsClient, FDsAssumption DEF TableInv, WaitingInv
<1>2. PICK r \in Fetch(conn[pos]) :
        \/ r.msg.key = "ADD_CLIENT" /\ SwitchClientType(pos, r.msg.val)
        \/ UNCHANGED fSocketsConnected
  BY DEF Announcement
<1>3. CASE UNCHANGED fSocketsConnected
  BY <1>0, <1>3 DEF TableInv, RegistryConsistent, BacklogInv, WaitingInv,
                    RegisteredFds, OpenFds, clientVars
<1>4. CASE r.msg.key = "ADD_CLIENT" /\ SwitchClientType(pos, r.msg.val)
  <2>1. r.msg.val # MASTER
    BY <1>0, <1>1, <1>4, FetchProperties, MessageParts DEF ClientTypes
  <2>2. fSocketsConnected' =
          {e \in fSocketsConnected : e[1] # pos} \cup {<<pos, r.msg.val>>}
    BY <1>4 DEF SwitchClientType
  <2>3. RegisteredFds' = RegisteredFds
    <3>1. pos \in RegisteredFds
      BY <1>0, <1>1 DEF TableInv, RegistryConsistent
    <3>2. QED
      <4>1. {e[1] : e \in {e \in fSocketsConnected : e[1] # pos}} =
              RegisteredFds \ {pos}
        BY DEF RegisteredFds
      <4>2. RegisteredFds' = (RegisteredFds \ {pos}) \cup {pos}
        BY <2>2, <4>1, RegisteredWith DEF RegisteredFds
      <4>3. QED
        BY <3>1, <4>2
  <2>4. OpenFds' = OpenFds
    BY <1>0 DEF OpenFds
  <2>5. RegistryConsistent'
    BY <1>0, <1>1, <2>1, <2>2, <2>3, <2>4 DEF TableInv, RegistryConsistent
  <2>6. QED
    BY <1>0, <2>5 DEF TableInv, BacklogInv, WaitingInv, clientVars
<1>5. QED
  BY <1>2, <1>3, <1>4

(* and when a connection is closed.                                        *)
LEMMA DisconnectTable ==
  ASSUME TableInv, pc = "scan", NEW fd, fd # ListenFd, DisconnectClient(fd),
         Return, UNCHANGED <<hup, backlog, toping>>, UNCHANGED clientVars
  PROVE  (RegistryConsistent /\ BacklogInv /\ WaitingInv)'
<1>0. TypeOK /\ pc' = "select"
  BY DEF TableInv, Return
<1>1. CASE fd \notin RegisteredFds
  BY <1>0, <1>1 DEF DisconnectClient, TableInv, RegistryConsistent, BacklogInv,
                    WaitingInv, RegisteredFds, OpenFds, clientVars
<1>2. CASE fd \in RegisteredFds
  <2>1. fd \in FDs /\ fd \in OpenFds /\ conn[fd] \in Clients
        /\ link[conn[fd]] = "open"
    <3>1. fd \in OpenFds
      BY <1>2 DEF TableInv, RegistryConsistent
    <3>2. QED
      BY <1>0, <1>2, <3>1, OpenIsClient, VisitedIsOpen
  <2>2. /\ conn' = [conn EXCEPT ![fd] = NoClient]
        /\ link' = [link EXCEPT ![conn[fd]] = "shut"]
        /\ fSocketsConnected' = {e \in fSocketsConnected : e[1] # fd}
        /\ fMaster' = fMaster \ {fd}
    BY <1>2 DEF DisconnectClient
  <2>3. OpenFds' = OpenFds \ {fd}
    BY <1>0, <2>1, <2>2 DEF OpenFds, TypeOK, SocketTypeOK
  <2>4. RegisteredFds' = RegisteredFds \ {fd}
    BY <2>2 DEF RegisteredFds
  <2>5. RegistryConsistent'
    <3>1. fMaster' = RegisteredFds' /\ RegisteredFds' = OpenFds' \cup {ListenFd}
      BY <2>2, <2>3, <2>4 DEF TableInv, RegistryConsistent
    <3>2. \A e1, e2 \in fSocketsConnected' : e1[1] = e2[1] => e1 = e2
      BY <2>2 DEF TableInv, RegistryConsistent
    <3>3. \A e \in fSocketsConnected' : e[2] = MASTER <=> e[1] = ListenFd
      BY <2>2 DEF TableInv, RegistryConsistent
    <3>4. \A fd1, fd2 \in OpenFds' : conn'[fd1] = conn'[fd2] => fd1 = fd2
      BY <1>0, <2>2, <2>3
         DEF TableInv, RegistryConsistent, OpenFds, TypeOK, SocketTypeOK
    <3>5. ASSUME NEW d \in Clients
          PROVE  link'[d] = "open" <=> \E f \in FDs : conn'[f] = d
      <4>1. CASE d = conn[fd]
        <5>1. \A f \in FDs : f # fd => conn[f] # d
          BY <1>0, <2>1, <4>1, NoneAssumption
             DEF TableInv, RegistryConsistent, OpenFds
        <5>2. QED
          BY <1>0, <2>1, <2>2, <4>1, <5>1, NoneAssumption
             DEF TypeOK, SocketTypeOK
      <4>2. CASE d # conn[fd]
        BY <1>0, <2>1, <2>2, <4>2, NoneAssumption
           DEF TableInv, RegistryConsistent, TypeOK, SocketTypeOK
      <4>3. QED
        BY <4>1, <4>2
    <3>6. QED
      BY <3>1, <3>2, <3>3, <3>4, <3>5 DEF RegistryConsistent
  <2>6. BacklogInv'
    <3>1. \A i \in 1 .. Len(backlog) : backlog[i] \in Clients
      BY <1>0 DEF TypeOK, SocketTypeOK
    <3>2. \A i \in 1 .. Len(backlog) : link'[backlog[i]] = "queued"
      BY <1>0, <2>1, <2>2, <3>1 DEF TableInv, BacklogInv, TypeOK, SocketTypeOK
    <3>3. QED
      BY <1>0, <3>2 DEF TableInv, BacklogInv
  <2>7. WaitingInv'
    BY <1>0, <2>1, <2>2 DEF TableInv, WaitingInv, clientVars, TypeOK, SocketTypeOK
  <2>8. QED
    BY <2>5, <2>6, <2>7
<1>3. QED
  BY <1>1, <1>2

LEMMA TableStep == TableInv /\ [Next]_vars => TableInv'
<1> SUFFICES ASSUME TableInv, [Next]_vars
             PROVE  (RegistryConsistent /\ BacklogInv /\ WaitingInv)'
  BY TypeStep DEF TableInv
<1>0. TypeOK
  BY DEF TableInv
<1>1. CASE Accept /\ UNCHANGED clientVars
  BY <1>1, AcceptTable
<1>2. CASE Announcement /\ UNCHANGED clientVars
  BY <1>2, AnnouncementTable
<1>3. CASE ClientGone /\ UNCHANGED clientVars
  <2>1. PICK fd \in FDs : DisconnectClient(fd)
    BY <1>3 DEF ClientGone
  <2>2. fd # ListenFd
    BY FDsAssumption
  <2>3. QED
    BY <1>3, <2>1, <2>2, DisconnectTable DEF ClientGone
<1>4. CASE RemoveClient /\ UNCHANGED clientVars
  <2>1. pc = "scan"
    BY <1>4 DEF RemoveClient, Arrives
  <2>2. UNCHANGED <<hup, backlog, toping>>
    BY <1>4 DEF RemoveClient
  <2>3. CASE \E fd : fd # ListenFd /\ DisconnectClient(fd) /\ Return
    BY <1>4, <2>1, <2>2, <2>3, DisconnectTable
  <2>4. CASE UNCHANGED <<conn, link, fSocketsConnected, fMaster, pc, fReadFds>>
    BY <1>4, <2>1, <2>2, <2>4
       DEF TableInv, RegistryConsistent, BacklogInv, WaitingInv,
           RegisteredFds, OpenFds, clientVars
  <2>5. QED
    BY <1>4, <2>3, <2>4 DEF RemoveClient
<1>5. CASE Quit /\ UNCHANGED clientVars
  <2>1. OpenFds' = {}
    BY <1>5 DEF Quit, Broadcast, OpenFds
  <2>2. \A c \in Clients : link'[c] \notin {"open", "queued"}
    BY <1>5 DEF Quit, Broadcast
  <2>3. \A c \in Clients : cstate'[c] = "idle" => link'[c] = "idle" /\ ~hup'[c]
    BY <1>5 DEF Quit, Broadcast, clientVars, TableInv, WaitingInv
  <2>4. QED
    BY <1>5, <2>1, <2>2, <2>3 DEF Quit, Broadcast, RegistryConsistent, BacklogInv, WaitingInv
<1>6. ASSUME NEW c \in Clients, Connect(c)
      PROVE  (RegistryConsistent /\ BacklogInv /\ WaitingInv)'
  <2>1. link[c] = "idle" /\ pc # "dead" /\ ~hup[c]
    BY <1>6 DEF Connect, TableInv, WaitingInv
  <2>2. /\ link' = [link EXCEPT ![c] = "queued"]
        /\ cstate' = [cstate EXCEPT ![c] = "connected"]
        /\ backlog' = Append(backlog, c)
        /\ UNCHANGED <<hup, conn, masterVars>>
    BY <1>6 DEF Connect
  <2>3. RegistryConsistent'
    BY <1>0, <2>1, <2>2
       DEF TableInv, RegistryConsistent, RegisteredFds, OpenFds, masterVars,
           TypeOK, SocketTypeOK
  <2>4. BacklogInv'
    <3>0. backlog \in Seq(Clients)
      BY <1>0 DEF TypeOK, SocketTypeOK
    <3>1. /\ Len(backlog') = Len(backlog) + 1 /\ Len(backlog) \in Nat
          /\ backlog'[Len(backlog) + 1] = c
          /\ \A i \in 1 .. Len(backlog) : backlog'[i] = backlog[i] /\ backlog[i] \in Clients
          /\ backlog' # <<>>
      BY <2>2, <3>0
    <3>2. \A i \in 1 .. Len(backlog) : backlog[i] # c /\ link[backlog[i]] = "queued"
      BY <2>1 DEF TableInv, BacklogInv
    <3>3. \A i \in 1 .. Len(backlog') : link'[backlog'[i]] = "queued"
      BY <1>0, <2>2, <3>1, <3>2 DEF TypeOK, SocketTypeOK
    <3>4. \A i, j \in 1 .. Len(backlog') : backlog'[i] = backlog'[j] => i = j
      BY <3>1, <3>2 DEF TableInv, BacklogInv
    <3>5. QED
      BY <3>1, <3>3, <3>4 DEF BacklogInv
  <2>5. WaitingInv'
    BY <1>0, <2>1, <2>2
       DEF TableInv, WaitingInv, OpenFds, masterVars, TypeOK, SocketTypeOK
  <2>6. QED
    BY <2>3, <2>4, <2>5
<1>7. CASE Quiet
  <2>1. OpenFds' = OpenFds /\ RegisteredFds' = RegisteredFds
    BY <1>7 DEF Quiet, OpenFds, RegisteredFds
  <2>2. RegistryConsistent'
    BY <1>7, <2>1 DEF Quiet, TableInv, RegistryConsistent
  <2>3. BacklogInv'
    BY <1>7 DEF Quiet, TableInv, BacklogInv
  <2>4. WaitingInv'
    BY <1>7, <2>1 DEF Quiet, TableInv, WaitingInv
  <2>5. QED
    BY <2>2, <2>3, <2>4
<1>8. QED
  BY <1>1, <1>2, <1>3, <1>4, <1>5, <1>6, <1>7, Kinds

(* Every variable keeps its type.                                          *)
THEOREM TypeCorrect == Spec => []TypeOK
<1>1. TableInv => TypeOK
  BY DEF TableInv
<1>2. QED
  BY InitTable, TableStep, <1>1, PTL DEF Spec

(* The registry of the master is consistent with its descriptor table.     *)
THEOREM RegistryCorrect == Spec => []RegistryConsistent
<1>1. TableInv => RegistryConsistent
  BY DEF TableInv
<1>2. QED
  BY InitTable, TableStep, <1>1, PTL DEF Spec
=============================================================================
