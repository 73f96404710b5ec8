-------------------------- MODULE MembershipProofs --------------------------
(***************************************************************************)
(* For any number of clients and descriptors and any requests: the         *)
(* identifier of a client is its own and its type is known, the registry   *)
(* of the master implements Membership, run numbers are told in order, and *)
(* the loop of the master finds what select() promised it.                 *)
(***************************************************************************)
EXTENDS ClientProofs

-----------------------------------------------------------------------------
(* What is under way                                                       *)

(* The messages of the second streams were already in the first ones.      *)
NoNew(ch, new) ==
  \A c \in Clients : \A i \in 1 .. Len(new[c]) :
    \E j \in 1 .. Len(ch[c]) : new[c][i] = ch[c][j]

(* The same of the identifiers.                                            *)
NoNewId(ch, new) ==
  \A c \in Clients : \A i \in 1 .. Len(new[c]) :
    new[c][i].key = "SET_CLIENT_ID" =>
      \E j \in 1 .. Len(ch[c]) : new[c][i] = ch[c][j]

LEMMA AppendElements ==
  ASSUME NEW s \in Seq(Messages), NEW m, NEW i \in 1 .. Len(Append(s, m))
  PROVE  Append(s, m)[i] = m \/ \E j \in 1 .. Len(s) : Append(s, m)[i] = s[j]
<1>1. Len(s) \in Nat /\ Len(Append(s, m)) = Len(s) + 1
  OBVIOUS
<1>2. CASE i = Len(s) + 1
  BY <1>2
<1>3. CASE i \in 1 .. Len(s)
  BY <1>3
<1>4. QED
  BY <1>1, <1>2, <1>3

LEMMA NoNewIdTransitive ==
  ASSUME NEW a, NEW b, NEW ch, NoNewId(a, b), NoNewId(b, ch)
  PROVE  NoNewId(a, ch)
<1>1. ASSUME NEW c \in Clients, NEW i \in 1 .. Len(ch[c]),
             ch[c][i].key = "SET_CLIENT_ID"
      PROVE  \E j \in 1 .. Len(a[c]) : ch[c][i] = a[c][j]
  <2>1. PICK k \in 1 .. Len(b[c]) : ch[c][i] = b[c][k]
    BY <1>1 DEF NoNewId
  <2>2. PICK j \in 1 .. Len(a[c]) : b[c][k] = a[c][j]
    BY <1>1, <2>1 DEF NoNewId
  <2>3. QED
    BY <2>1, <2>2
<1>2. QED
  BY <1>1 DEF NoNewId

LEMMA NoNewIdReflexive ==
  ASSUME NEW ch
  PROVE  NoNewId(ch, ch)
BY DEF NoNewId

(* Every message that is sent is either an identifier or not.              *)
LEMMA SendAllNoNewId ==
  ASSUME NEW ch \in Streams, NEW type, NEW m, m.key # "SET_CLIENT_ID"
  PROVE  NoNewId(ch, SendAll(ch, type, m))
<1> DEFINE new == SendAll(ch, type, m)
<1>1. ASSUME NEW c \in Clients, NEW i \in 1 .. Len(new[c]),
             new[c][i].key = "SET_CLIENT_ID"
      PROVE  \E j \in 1 .. Len(ch[c]) : new[c][i] = ch[c][j]
  <2>1. ch[c] \in Seq(Messages)
    BY DEF Streams
  <2>2. new[c] = ch[c] \/ new[c] = Append(ch[c], m)
    BY DEF SendAll
  <2>3. QED
    BY <1>1, <2>1, <2>2, AppendElements, SMTT(40)
<1>2. QED
  BY <1>1 DEF NoNewId

LEMMA SendNoNewId ==
  ASSUME NEW ch \in Streams, NEW fd, NEW m, m.key # "SET_CLIENT_ID"
  PROVE  NoNewId(ch, Send(ch, fd, m))
<1> DEFINE new == Send(ch, fd, m)
<1>1. ASSUME NEW c \in Clients, NEW i \in 1 .. Len(new[c]),
             new[c][i].key = "SET_CLIENT_ID"
      PROVE  \E j \in 1 .. Len(ch[c]) : new[c][i] = ch[c][j]
  <2>1. ch[c] \in Seq(Messages)
    BY DEF Streams
  <2>2. new[c] = ch[c] \/ new[c] = Append(ch[c], m)
    BY DEF Send, SendTo, Streams
  <2>3. QED
    BY <1>1, <2>1, <2>2, AppendElements, SMTT(40)
<1>2. QED
  BY <1>1 DEF NoNewId

LEMMA UnreadNoNew ==
  ASSUME TypeOK, NEW c \in Clients, NEW r \in Fetch(c)
  PROVE  NoNew(up, [up EXCEPT ![c] = r.rest])
<1>1. \A i \in 1 .. Len(r.rest) : \E j \in 1 .. Len(up[c]) : r.rest[i] = up[c][j]
  BY FetchProperties
<1>2. QED
  BY <1>1 DEF NoNew, TypeOK, SocketTypeOK, Streams

(* A handler takes from the streams of the clients and adds nothing.       *)
LEMMA ReceivesNoNew ==
  ASSUME TableInv, NEW fd \in NextFds, NEW m \in Incoming(fd), Receives(fd, m)
  PROVE  NoNew(up, up') /\ m \in Messages
<1>1. pc = "scan" /\ fd \in FDs /\ IsNext(fd)
  BY DEF Receives, Arrives
<1>2. conn[fd] \in Clients /\ TypeOK
  BY <1>1, NextIsOpen DEF TableInv
<1>3. PICK r \in Fetch(conn[fd]) : up' = [up EXCEPT ![conn[fd]] = r.rest]
  BY DEF Receives, Unread
<1>4. QED
  BY <1>2, <1>3, UnreadNoNew, ReceivesType

-----------------------------------------------------------------------------
(* The invariants where the table of connections does not change           *)

LEMMA IdentifiersKept ==
  ASSUME IdentifiersInv, UNCHANGED <<link, conn, fClientId>>,
         NoNewId(down, down')
  PROVE  IdentifiersInv'
<1>1. ASSUME NEW c \in Clients, NEW i \in 1 .. Len(down'[c]),
             down'[c][i].key = "SET_CLIENT_ID"
      PROVE  GivenTo(c, down'[c][i].val)
  <2>1. PICK j \in 1 .. Len(down[c]) : down'[c][i] = down[c][j]
    BY <1>1 DEF NoNewId
  <2>2. QED
    BY <1>1, <2>1 DEF IdentifiersInv
<1>2. QED
  BY <1>1 DEF IdentifiersInv, GivenTo

LEMMA RequestsKept ==
  ASSUME RequestsInv, UNCHANGED <<link, conn, hup, cstate>>, NoNew(up, up')
  PROVE  RequestsInv'
<1>1. ASSUME NEW c \in Clients, NEW i \in 1 .. Len(up'[c])
      PROVE  Legitimate(c, up'[c][i])
  <2>1. PICK j \in 1 .. Len(up[c]) : up'[c][i] = up[c][j]
    BY <1>1 DEF NoNew
  <2>2. QED
    BY <2>1 DEF RequestsInv
<1>2. QED
  BY <1>1 DEF RequestsInv, Legitimate

(* What the handlers that neither open nor close a connection send is no   *)
(* identifier.                                                             *)
LEMMA ProcessNoNewId ==
  ASSUME TableInv, Process, ~RemoveClient
  PROVE  NoNewId(down, down') /\ NoNew(up, up') /\ UNCHANGED <<link, hup, conn>>
<1>0. down \in Streams /\ TypeOK
  BY DEF TableInv, TypeOK, SocketTypeOK
<1>1. CASE PingClient
  <2>1. PICK fd \in NextFds : \E m \in Incoming(fd) :
          /\ Receives(fd, m)
          /\ \/ down' = Send(down, m.val, Message("PING_CLIENT", 0))
             \/ down' = Send(down, fd, Message("PING_ANSWER", 0))
    BY <1>1 DEF PingClient
  <2>2. QED
    BY <1>0, <1>1, <2>1, ReceivesNoNew, SendNoNewId, MessageFields
       DEF PingClient
<1>2. CASE ListClients
  <2>1. PICK fd \in NextFds : \E m \in Incoming(fd), v \in {DETECTOR, 0} :
          Receives(fd, m) /\ down' = Send(down, fd, Message("CLIENTS_LIST", v))
    BY <1>2 DEF ListClients
  <2>2. QED
    BY <1>0, <1>2, <2>1, ReceivesNoNew, SendNoNewId, MessageFields
       DEF ListClients
<1>3. CASE NewRun
  <2>1. PICK fd \in NextFds : \E m \in Incoming(fd) :
          /\ Receives(fd, m)
          /\ down' = TellRun(lastRun') \/ down' = down
    BY <1>3 DEF NewRun
  <2>2. lastRun' \in Int
    BY <1>0, <1>3 DEF NewRun, TypeOK, MessengerTypeOK
  <2>3. NoNewId(down, TellRun(lastRun'))
    <3>1. NoNewId(down, SendAll(down, DQM, Message("RUN_NUMBER", lastRun')))
      BY <1>0, SendAllNoNewId, MessageFields
    <3>2. SendAll(down, DQM, Message("RUN_NUMBER", lastRun')) \in Streams
      BY <1>0, <2>2, SendAllType, MessageType
    <3>3. QED
      BY <3>1, <3>2, SendAllNoNewId, NoNewIdTransitive, MessageFields DEF TellRun
  <2>4. QED
    BY <1>3, <2>1, <2>3, ReceivesNoNew, NoNewIdReflexive DEF NewRun
<1>4. CASE GetRunNumber
  <2>1. PICK fd \in NextFds : \E m \in Incoming(fd), run \in LastRunRead :
          Receives(fd, m) /\ down' = Send(down, fd, Message("RUN_NUMBER", run))
    BY <1>4 DEF GetRunNumber
  <2>2. QED
    BY <1>0, <1>4, <2>1, ReceivesNoNew, SendNoNewId, MessageFields
       DEF GetRunNumber
<1>5. CASE Forward
  <2>1. PICK fd \in NextFds : \E m \in Incoming(fd) :
          /\ Receives(fd, m)
          /\ \/ down' = SendAll(down, DQM, Message("NEW_FILENAME", m.val))
             \/ m.key # "SET_CLIENT_ID" /\ down' = SendAll(down, DAQ, m)
    BY <1>5 DEF Forward
  <2>2. QED
    BY <1>0, <1>5, <2>1, ReceivesNoNew, SendAllNoNewId, MessageFields
       DEF Forward
<1>6. CASE Ignored
  BY <1>6, ReceivesNoNew, NoNewIdReflexive DEF Ignored
<1>7. CASE StartAcquisition
  <2>1. PICK fd \in NextFds : \E m \in Incoming(fd) : Receives(fd, m)
    BY <1>7 DEF StartAcquisition
  <2>2. CASE down' = down
    BY <1>7, <2>1, <2>2, ReceivesNoNew, NoNewIdReflexive DEF StartAcquisition
  <2>3. ASSUME NEW run \in LastRunRead,
               down' = SendAll(
                         SendAll(down, DAQ, Message("ACQUISITION_STARTED", 0)),
                         DQM, Message("RUN_NUMBER", run))
        PROVE  NoNewId(down, down')
    <3>1. /\ NoNewId(down, SendAll(down, DAQ, Message("ACQUISITION_STARTED", 0)))
          /\ SendAll(down, DAQ, Message("ACQUISITION_STARTED", 0)) \in Streams
      BY <1>0, SendAllNoNewId, SendAllType, MessageFields, MessageType
    <3>2. QED
      BY <2>3, <3>1, SendAllNoNewId, NoNewIdTransitive, MessageFields
  <2>4. QED
    BY <1>7, <2>1, <2>2, <2>3, ReceivesNoNew DEF StartAcquisition
<1>8. CASE StopAcquisition
  <2>1. PICK fd \in NextFds : \E m \in Incoming(fd) : Receives(fd, m)
    BY <1>8 DEF StopAcquisition
  <2>2. CASE down' = SendAll(down, DAQ, Message("EXCEPTION", 0))
    BY <1>0, <1>8, <2>1, <2>2, ReceivesNoNew, SendAllNoNewId, MessageFields
       DEF StopAcquisition
  <2>3. CASE down' = SendAll(SendAll(down, DQM, Message("ACQUISITION_STOPPED", 0)),
                             DAQ, Message("EXCEPTION", 0))
    <3>1. /\ NoNewId(down, SendAll(down, DQM, Message("ACQUISITION_STOPPED", 0)))
          /\ SendAll(down, DQM, Message("ACQUISITION_STOPPED", 0)) \in Streams
      BY <1>0, SendAllNoNewId, SendAllType, MessageFields, MessageType
    <3>2. NoNewId(down, down')
      BY <2>3, <3>1, SendAllNoNewId, NoNewIdTransitive, MessageFields
    <3>3. QED
      BY <1>8, <2>1, <3>2, ReceivesNoNew DEF StopAcquisition
  <2>4. QED
    BY <1>8, <2>2, <2>3 DEF StopAcquisition
<1>9. QED
  BY <1>1, <1>2, <1>3, <1>4, <1>5, <1>6, <1>7, <1>8 DEF Process

(* The other steps of the master's thread that neither open nor close a    *)
(* connection.                                                             *)
LEMMA ThreadNoNewId ==
  ASSUME TableInv,
         \/ Select \/ EndOfScan \/ AcceptFails \/ AnnouncementLost
         \/ PingRead \/ PingTargetGone \/ ProcessExit
  PROVE  NoNewId(down, down') /\ NoNew(up, up') /\ UNCHANGED <<link, hup, conn>>
<1>0. down \in Streams /\ TypeOK
  BY DEF TableInv, TypeOK, SocketTypeOK
<1>1. NoNew(up, up) /\ NoNewId(down, down)
  BY DEF NoNew, NoNewId
<1>2. CASE PingRead
  <2>1. conn[toping] \in Clients
    BY <1>0, <1>2 DEF PingRead, TableInv, WaitingInv, OpenFds, TypeOK, SocketTypeOK
  <2>2. PICK r \in Fetch(conn[toping]) :
          /\ up' = [up EXCEPT ![conn[toping]] = r.rest]
          /\ down' = Send(down, pos, Message("PING_ANSWER", 0)) \/ down' = down
    BY <1>2 DEF PingRead
  <2>3. NoNew(up, up')
    BY <1>0, <2>1, <2>2, UnreadNoNew
  <2>4. NoNewId(down, down')
    BY <1>0, <1>1, <2>2, SendNoNewId, MessageFields
  <2>5. QED
    BY <1>2, <2>3, <2>4 DEF PingRead
<1>3. CASE UNCHANGED <<link, hup, conn, up, down>>
  BY <1>1, <1>3
<1>4. QED
  BY <1>2, <1>3 DEF Select, EndOfScan, AcceptFails, AnnouncementLost,
                    PingTargetGone, ProcessExit, sockVars

-----------------------------------------------------------------------------
(* The invariants where connections are opened, closed and identified      *)

LEMMA AcceptKeeps ==
  ASSUME MembershipInv, Accept, UNCHANGED clientVars
  PROVE  IdentifiersInv' /\ RequestsInv'
<1> DEFINE c == Head(backlog)
<1>0. /\ TypeOK /\ TableInv /\ IdentifiersInv /\ RequestsInv
      /\ UNCHANGED <<hup, up, down, cstate, fClientId>>
  BY DEF MembershipInv, TableInv, Accept, clientVars
<1>1. PICK fd \in FDs \ OpenFds :
        conn' = [conn EXCEPT ![fd] = c] /\ link' = [link EXCEPT ![c] = "open"]
  BY DEF Accept, IsLowestFree
<1>2. backlog \in Seq(Clients) /\ backlog # <<>>
  BY <1>0 DEF TableInv, BacklogInv, Accept, IsNext, Remaining, TypeOK,
              SocketTypeOK
<1>3. c \in Clients /\ link[c] = "queued"
  BY <1>0, <1>2 DEF TableInv, BacklogInv
<1>4. conn[fd] = NoClient
  BY <1>1 DEF OpenFds
<1>5. \A d \in Clients : link'[d] = IF d = c THEN "open" ELSE link[d]
  BY <1>0, <1>1, <1>3 DEF TypeOK, SocketTypeOK
<1>6. \A id \in FDs : \A d \in Clients : conn[id] = d => conn'[id] = d
  BY <1>0, <1>1, <1>4, NoneAssumption DEF TypeOK, SocketTypeOK
<1>7. ASSUME NEW d \in Clients, NEW id, GivenTo(d, id)
      PROVE  GivenTo(d, id)'
  BY <1>3, <1>5, <1>6, <1>7 DEF GivenTo
<1>8. IdentifiersInv'
  BY <1>0, <1>7 DEF IdentifiersInv
<1>9. ASSUME NEW d \in Clients, NEW m, Legitimate(d, m)
      PROVE  Legitimate(d, m)'
  BY <1>0, <1>3, <1>5, <1>6, <1>9 DEF Legitimate
<1>10. RequestsInv'
  BY <1>0, <1>5, <1>9 DEF RequestsInv
<1>11. QED
  BY <1>8, <1>10

LEMMA AnnouncementKeeps ==
  ASSUME MembershipInv, Announcement, UNCHANGED clientVars
  PROVE  IdentifiersInv' /\ RequestsInv'
<1> DEFINE c == conn[pos]
<1>0. /\ TypeOK /\ TableInv /\ IdentifiersInv /\ RequestsInv
      /\ UNCHANGED <<hup, link, conn, cstate, fClientId>>
  BY DEF MembershipInv, TableInv, Announcement, clientVars
<1>1. pos \in FDs /\ c \in Clients /\ link[c] = "open"
  <2>1. pos \in OpenFds
    BY <1>0 DEF Announcement, TableInv, WaitingInv
  <2>2. QED
    BY <1>0, <2>1, OpenIsClient DEF TableInv, RegistryConsistent, Announcement
<1>2. PICK r \in Fetch(c) : up' = [up EXCEPT ![c] = r.rest]
  BY DEF Announcement
<1>3. RequestsInv'
  <2>1. NoNew(up, up')
    BY <1>0, <1>1, <1>2, UnreadNoNew
  <2>2. QED
    BY <1>0, <2>1, RequestsKept
<1>4. down' = SendTo(down, c, Message("SET_CLIENT_ID", pos))
  BY DEF Announcement, GiveId
<1>5. ASSUME NEW d \in Clients, NEW i \in 1 .. Len(down'[d]),
             down'[d][i].key = "SET_CLIENT_ID"
      PROVE  GivenTo(d, down'[d][i].val)
  <2>0. down \in Streams /\ down[d] \in Seq(Messages)
    BY <1>0 DEF TypeOK, SocketTypeOK, Streams
  <2>1. CASE down'[d] = down[d]
    BY <1>0, <1>5, <2>1 DEF IdentifiersInv
  <2>2. CASE d = c /\ down'[d] = Append(down[d], Message("SET_CLIENT_ID", pos))
    <3>1. CASE down'[d][i] = Message("SET_CLIENT_ID", pos)
      BY <1>1, <2>2, <3>1, MessageFields DEF GivenTo
    <3>2. CASE \E j \in 1 .. Len(down[d]) : down'[d][i] = down[d][j]
      BY <1>0, <1>5, <3>2 DEF IdentifiersInv
    <3>3. QED
      BY <2>0, <2>2, <3>1, <3>2, AppendElements
  <2>3. QED
    BY <1>4, <2>0, <2>1, <2>2 DEF SendTo, Streams
<1>6. IdentifiersInv'
  BY <1>0, <1>5 DEF IdentifiersInv, GivenTo
<1>7. QED
  BY <1>3, <1>6

LEMMA DisconnectKeeps ==
  ASSUME MembershipInv, pc # "dead", NEW fd \in FDs, fd \in RegisteredFds,
         DisconnectClient(fd), NEW unread \in Streams, NoNew(up, unread),
         up' = Discard(unread, fd), UNCHANGED <<hup, down, clientVars>>
  PROVE  IdentifiersInv' /\ RequestsInv'
<1> DEFINE c == conn[fd]
<1>0. /\ TypeOK /\ TableInv /\ IdentifiersInv /\ RequestsInv
      /\ UNCHANGED <<hup, down, cstate, fClientId>>
  BY DEF MembershipInv, TableInv, clientVars
<1>1. fd \in OpenFds /\ c \in Clients /\ link[c] = "open"
  BY <1>0, VisitedIsOpen
<1>2. conn' = [conn EXCEPT ![fd] = NoClient] /\ link' = [link EXCEPT ![c] = "shut"]
  BY DEF DisconnectClient
<1>3. up' = [unread EXCEPT ![c] = <<>>]
  BY <1>1 DEF Discard
<1>4. \A d \in Clients : link'[d] = IF d = c THEN "shut" ELSE link[d]
  BY <1>0, <1>1, <1>2 DEF TypeOK, SocketTypeOK
<1>5. \A id \in FDs : \A d \in Clients : conn[id] = d /\ d # c => conn'[id] = d
  BY <1>0, <1>1, <1>2 DEF TypeOK, SocketTypeOK
<1>6. ASSUME NEW d \in Clients, NEW id, GivenTo(d, id)
      PROVE  GivenTo(d, id)'
  BY <1>4, <1>5, <1>6 DEF GivenTo
<1>7. IdentifiersInv'
  BY <1>0, <1>6 DEF IdentifiersInv
<1>8. ASSUME NEW d \in Clients, d # c, NEW m, Legitimate(d, m)
      PROVE  Legitimate(d, m)'
  BY <1>0, <1>4, <1>5, <1>8 DEF Legitimate
<1>9. ASSUME NEW d \in Clients, NEW i \in 1 .. Len(up'[d])
      PROVE  d # c /\ Legitimate(d, up'[d][i])
  <2>1. d # c
    <3>1. up'[c] = <<>> /\ Len(<<>>) = 0
      BY <1>1, <1>3 DEF Streams
    <3>2. QED
      BY <1>9, <3>1
  <2>2. up'[d] = unread[d]
    BY <1>3, <2>1 DEF Streams
  <2>3. PICK j \in 1 .. Len(up[d]) : unread[d][i] = up[d][j]
    BY <1>9, <2>2 DEF NoNew
  <2>4. QED
    BY <1>0, <2>1, <2>2, <2>3 DEF RequestsInv
<1>10. RequestsInv'
  <2>1. \A d \in Clients : link'[d] = "idle" => cstate'[d] = "idle"
    BY <1>0, <1>4 DEF RequestsInv
  <2>2. QED
    BY <1>8, <1>9, <2>1 DEF RequestsInv
<1>11. QED
  BY <1>7, <1>10

LEMMA ClientGoneCases ==
  ASSUME MembershipInv, ClientGone
  PROVE  \E fd \in FDs \cap RegisteredFds :
           /\ DisconnectClient(fd) /\ hup[conn[fd]]
           /\ up' = Discard(up, fd)
<1>0. TypeOK /\ TableInv /\ pc = "scan" /\ up' = up
  BY DEF MembershipInv, TableInv, ClientGone
<1>1. PICK fd \in FDs : IsNext(fd) /\ Disconnected(conn[fd]) /\ DisconnectClient(fd)
  BY DEF ClientGone
<1>2. fd \in OpenFds /\ conn[fd] \in Clients /\ fd \in RegisteredFds
  BY <1>0, <1>1, NextIsOpen DEF IsNext, Remaining
<1>3. Discard(up, fd) = up
  BY <1>0, <1>1, <1>2 DEF Discard, Disconnected, TypeOK, SocketTypeOK, Streams
<1>4. QED
  BY <1>0, <1>1, <1>2, <1>3 DEF Disconnected

(* A request to remove a client is refused, or names a descriptor that is  *)
(* not used, or that of the client which sends it and is leaving.          *)
LEMMA RemoveClientCases ==
  ASSUME MembershipInv, RemoveClient
  PROVE  \/ /\ UNCHANGED <<link, conn, fSocketsConnected>>
            /\ NoNew(up, up')
         \/ \E fd \in FDs \cap RegisteredFds : \E unread \in Streams :
              /\ DisconnectClient(fd)
              /\ hup[conn[fd]] \/ cstate[conn[fd]] = "leaving"
              /\ NoNew(up, unread)
              /\ up' = Discard(unread, fd)
<1>0. TypeOK /\ TableInv /\ RequestsInv
  BY DEF MembershipInv, TableInv
<1>1. PICK fd \in NextFds : \E m \in Incoming(fd) :
        /\ m.key = "REMOVE_CLIENT" /\ Arrives(fd, m)
        /\ \E unread \in Unread(fd, m) : up' = Discard(unread, m.val)
        /\ \/ m.val = ListenFd /\ UNCHANGED <<conn, link, fSocketsConnected>>
           \/ m.val # ListenFd /\ DisconnectClient(m.val)
  BY DEF RemoveClient
<1>2. PICK m \in Incoming(fd) :
        /\ m.key = "REMOVE_CLIENT" /\ Arrives(fd, m)
        /\ \E unread \in Unread(fd, m) : up' = Discard(unread, m.val)
        /\ \/ m.val = ListenFd /\ UNCHANGED <<conn, link, fSocketsConnected>>
           \/ m.val # ListenFd /\ DisconnectClient(m.val)
  BY <1>1
<1>3. PICK unread \in Unread(fd, m) : up' = Discard(unread, m.val)
  BY <1>2
<1>4. pc = "scan" /\ fd \in FDs /\ conn[fd] \in Clients
  BY <1>0, <1>2, NextIsOpen DEF Arrives
<1>5. PICK r \in Fetch(conn[fd]) :
        r.msg = m /\ unread = [up EXCEPT ![conn[fd]] = r.rest]
  BY DEF Unread
<1>6. NoNew(up, unread) /\ unread \in Streams
  BY <1>0, <1>4, <1>5, UnreadNoNew, UnreadType
<1>7. CASE m.val \in OpenFds
  <2>1. m.val \in FDs /\ m.val # ListenFd /\ m.val \in RegisteredFds
    BY <1>0, <1>4, <1>7, FDsAssumption DEF TableInv, RegistryConsistent, OpenFds
  <2>2. m # NoMessage
    BY <1>2, MessageFields DEF NoMessage
  <2>3. PICK j \in 1 .. Len(up[conn[fd]]) : m = up[conn[fd]][j]
    BY <1>0, <1>4, <1>5, <2>2, FetchProperties
  <2>4. Legitimate(conn[fd], m)
    BY <1>0, <1>4, <2>3 DEF RequestsInv
  <2>5. conn[m.val] = conn[fd] /\ (hup[conn[fd]] \/ cstate[conn[fd]] = "leaving")
    BY <1>2, <2>1, <2>4 DEF Legitimate
  <2>6. QED
    BY <1>2, <1>3, <1>6, <2>1, <2>5
<1>8. CASE m.val \notin OpenFds
  <2>1. up' = unread
    BY <1>3, <1>8 DEF Discard
  <2>2. m.val \notin RegisteredFds \/ m.val = ListenFd
    BY <1>0, <1>4, <1>8 DEF TableInv, RegistryConsistent
  <2>3. UNCHANGED <<link, conn, fSocketsConnected>>
    BY <1>2, <2>2 DEF DisconnectClient
  <2>4. QED
    BY <1>6, <2>1, <2>3
<1>9. QED
  BY <1>7, <1>8

LEMMA QuitKeeps ==
  ASSUME MembershipInv, Quit, UNCHANGED clientVars
  PROVE  IdentifiersInv' /\ RequestsInv'
<1>0. /\ TypeOK /\ IdentifiersInv /\ RequestsInv
      /\ UNCHANGED <<hup, cstate, fClientId>>
  BY DEF MembershipInv, TableInv, Quit, Broadcast, clientVars
<1>1. \A d \in Clients :
        /\ link[d] = "idle" => link'[d] = "idle"
        /\ link[d] # "idle" => link'[d] = "shut"
  BY <1>0 DEF Quit, Broadcast, TypeOK, SocketTypeOK, LinkStates
<1>2. \A d \in Clients : \A id : GivenTo(d, id) => GivenTo(d, id)'
  BY <1>1 DEF GivenTo
<1>3. NoNewId(down, down')
  <2>1. ASSUME NEW d \in Clients, NEW i \in 1 .. Len(down'[d]),
               down'[d][i].key = "SET_CLIENT_ID"
        PROVE  \E j \in 1 .. Len(down[d]) : down'[d][i] = down[d][j]
    <3>1. down[d] \in Seq(Messages)
      BY <1>0 DEF TypeOK, SocketTypeOK, Streams
    <3>2. \/ down'[d] = down[d]
          \/ down'[d] = Append(down[d], Message("MASTER_DISCONNECT", 0))
      BY DEF Quit, Broadcast
    <3>3. QED
      BY <2>1, <3>1, <3>2, AppendElements, MessageFields, SMTT(40)
  <2>2. QED
    BY <2>1 DEF NoNewId
<1>4. IdentifiersInv'
  <2>1. ASSUME NEW d \in Clients, NEW i \in 1 .. Len(down'[d]),
               down'[d][i].key = "SET_CLIENT_ID"
        PROVE  GivenTo(d, down'[d][i].val)
    <3>1. PICK j \in 1 .. Len(down[d]) : down'[d][i] = down[d][j]
      BY <1>3, <2>1 DEF NoNewId
    <3>2. QED
      BY <1>0, <2>1, <3>1 DEF IdentifiersInv
  <2>2. QED
    BY <1>0, <1>1, <2>1 DEF IdentifiersInv, GivenTo
<1>5. RequestsInv'
  <2>1. \A d \in Clients : up'[d] = <<>> \/ (link[d] = "idle" /\ up'[d] = up[d])
    BY DEF Quit, Broadcast
  <2>2. \A d \in Clients : Len(up'[d]) = 0 \/ (link[d] = "idle" /\ up'[d] = up[d])
    BY <2>1
  <2>3. ASSUME NEW d \in Clients, NEW i \in 1 .. Len(up'[d])
        PROVE  FALSE
    <3>1. link[d] = "idle" /\ Legitimate(d, up[d][i])
      BY <1>0, <2>2, <2>3 DEF RequestsInv
    <3>2. QED
      BY <3>1 DEF Legitimate
  <2>4. \A d \in Clients : link'[d] = "idle" => cstate'[d] = "idle"
    BY <1>0, <1>1 DEF RequestsInv
  <2>5. QED
    BY <2>3, <2>4 DEF RequestsInv
<1>6. QED
  BY <1>4, <1>5

-----------------------------------------------------------------------------
(* The invariants when a client takes a step                               *)

(* A client that withdrew does not come back; one that has a connection is *)
(* not idle.                                                               *)
Onward ==
  \A d \in Clients :
    /\ hup[d] \/ cstate[d] = "leaving" => hup'[d] \/ cstate'[d] = "leaving"
    /\ link[d] = "idle" => cstate'[d] = "idle"

LEMMA RequestsSent ==
  ASSUME TypeOK, RequestsInv, UNCHANGED <<link, conn>>, Onward,
         NEW c \in Clients, NEW m \in Messages, SendUp(c, m),
         link[c] \in {"queued", "open"} => Legitimate(c, m)',
         link[c] # "idle"
  PROVE  RequestsInv'
<1>1. ASSUME NEW d \in Clients, NEW x, Legitimate(d, x)
      PROVE  Legitimate(d, x)'
  BY <1>1 DEF Legitimate, Onward
<1>2. ASSUME NEW d \in Clients, NEW i \in 1 .. Len(up'[d]),
             NEW x, x = up'[d][i]
      PROVE  Legitimate(d, x)'
  <2>1. up[d] \in Seq(Messages)
    BY DEF TypeOK, SocketTypeOK, Streams
  <2>2. CASE \E j \in 1 .. Len(up[d]) : x = up[d][j]
    BY <1>1, <2>2 DEF RequestsInv
  <2>3. CASE d = c /\ link[c] \in {"queued", "open"} /\ x = m
    BY <2>3
  <2>4. CASE up'[d] = up[d]
    BY <1>2, <2>2, <2>4
  <2>5. CASE d = c /\ link[c] # "shut" /\ up'[d] = Append(up[d], m)
    <3>1. link[c] \in {"queued", "open"}
      BY <2>5 DEF TypeOK, SocketTypeOK, LinkStates
    <3>2. QED
      BY <1>2, <2>1, <2>2, <2>3, <2>5, <3>1, AppendElements
  <2>6. QED
    BY <2>4, <2>5 DEF SendUp, TypeOK, SocketTypeOK, Streams
<1>3. \A d \in Clients : link'[d] = "idle" => cstate'[d] = "idle"
  BY DEF Onward
<1>4. QED
  BY <1>2, <1>3 DEF RequestsInv, Legitimate

LEMMA RequestsStay ==
  ASSUME RequestsInv, UNCHANGED <<link, conn, up>>, Onward
  PROVE  RequestsInv'
BY DEF RequestsInv, Legitimate, Onward

LEMMA ExitOnward ==
  ASSUME MembershipInv, NEW c \in Clients, Exit(c), cstate[c] # "idle"
  PROVE  /\ IdentifiersInv' /\ Onward
         /\ UNCHANGED <<link, conn>> /\ link[c] # "idle"
         /\ hup'[c] = TRUE
<1>0. TypeOK /\ IdentifiersInv /\ RequestsInv /\ UNCHANGED <<link, conn>>
  BY DEF MembershipInv, TableInv, Exit
<1>1. NoNewId(down, down')
  <2>1. \A d \in Clients : down'[d] = down[d] \/ down'[d] = <<>>
    BY <1>0 DEF Exit, TypeOK, SocketTypeOK, Streams
  <2>2. \A d \in Clients : down'[d] = down[d] \/ Len(down'[d]) = 0
    BY <2>1
  <2>3. QED
    BY <2>2 DEF NoNewId
<1>2. IdentifiersInv'
  <2>1. \A d \in Clients : fClientId'[d] = -1 \/ fClientId'[d] = fClientId[d]
    BY <1>0 DEF Exit, TypeOK
  <2>2. ASSUME NEW d \in Clients, NEW i \in 1 .. Len(down'[d]),
               down'[d][i].key = "SET_CLIENT_ID"
        PROVE  GivenTo(d, down'[d][i].val)
    <3>1. PICK j \in 1 .. Len(down[d]) : down'[d][i] = down[d][j]
      BY <1>1, <2>2 DEF NoNewId
    <3>2. QED
      BY <1>0, <2>2, <3>1 DEF IdentifiersInv
  <2>3. QED
    BY <1>0, <2>1, <2>2 DEF IdentifiersInv, GivenTo
<1>3. Onward
  <2>1. link[c] # "idle"
    BY <1>0 DEF RequestsInv
  <2>2. \A d \in Clients :
          hup'[d] = (IF d = c THEN TRUE ELSE hup[d])
          /\ cstate'[d] = (IF d = c THEN "gone" ELSE cstate[d])
    BY <1>0 DEF Exit, TypeOK, SocketTypeOK
  <2>3. QED
    BY <1>0, <2>1, <2>2 DEF Onward, RequestsInv
<1>4. link[c] # "idle" /\ hup'[c] = TRUE
  BY <1>0 DEF RequestsInv, Exit, TypeOK, SocketTypeOK
<1>5. QED
  BY <1>0, <1>2, <1>3, <1>4

LEMMA ExitKeeps ==
  ASSUME MembershipInv, NEW c \in Clients, Exit(c), UNCHANGED up,
         cstate[c] # "idle"
  PROVE  IdentifiersInv' /\ RequestsInv'
<1>1. RequestsInv
  BY DEF MembershipInv
<1>2. QED
  BY <1>1, ExitOnward, RequestsStay

LEMMA CloseKeeps ==
  ASSUME MembershipInv, NEW c \in Clients, Close(c)
  PROVE  IdentifiersInv' /\ RequestsInv'
<1>0. TypeOK /\ IdentifiersInv /\ RequestsInv /\ Exit(c) /\ cstate[c] # "idle"
  BY DEF MembershipInv, TableInv, Close
<1>1. CASE UNCHANGED up
  BY <1>0, <1>1, ExitKeeps
<1>2. CASE SendUp(c, Message("REMOVE_CLIENT", fClientId[c]))
  <2>1. /\ IdentifiersInv' /\ Onward /\ hup'[c] = TRUE
        /\ UNCHANGED <<link, conn>> /\ link[c] # "idle"
    BY <1>0, ExitOnward
  <2>2. fClientId[c] \in Int
    BY <1>0 DEF TypeOK
  <2>3. PICK m \in Messages :
          m.key = "REMOVE_CLIENT" /\ m.val = fClientId[c] /\ SendUp(c, m)
    BY <1>2, <2>2, MessageType, MessageFields
  <2>4. link[c] \in {"queued", "open"} => Legitimate(c, m)'
    <3>1. m.val \in FDs => m.val # -1
      BY FDsAssumption
    <3>2. m.val \in FDs /\ link[c] \in {"queued", "open"} =>
            link[c] = "open" /\ conn[m.val] = c
      BY <1>0, <2>3, <3>1 DEF IdentifiersInv, GivenTo
    <3>3. QED
      BY <2>1, <2>3, <3>2 DEF Legitimate
  <2>5. RequestsInv'
    BY <1>0, <2>1, <2>3, <2>4, RequestsSent
  <2>6. QED
    BY <2>1, <2>5
<1>3. QED
  BY <1>1, <1>2 DEF Close

LEMMA ConnectKeeps ==
  ASSUME MembershipInv, NEW c \in Clients, Connect(c)
  PROVE  IdentifiersInv' /\ RequestsInv'
<1>0. /\ TypeOK /\ IdentifiersInv /\ RequestsInv /\ link[c] = "idle"
      /\ UNCHANGED <<conn, hup, up, down, fClientId>>
  BY DEF MembershipInv, TableInv, WaitingInv, Connect
<1>1. \A d \in Clients :
        /\ link'[d] = (IF d = c THEN "queued" ELSE link[d])
        /\ cstate'[d] = (IF d = c THEN "connected" ELSE cstate[d])
  BY <1>0 DEF Connect, TypeOK, SocketTypeOK
<1>2. \A d \in Clients : \A id : GivenTo(d, id) => GivenTo(d, id)'
  BY <1>0, <1>1 DEF GivenTo
<1>3. IdentifiersInv'
  BY <1>0, <1>2 DEF IdentifiersInv
<1>4. \A d \in Clients : \A m : Legitimate(d, m) => Legitimate(d, m)'
  BY <1>0, <1>1 DEF Legitimate
<1>5. RequestsInv'
  BY <1>0, <1>1, <1>4 DEF RequestsInv
<1>6. QED
  BY <1>3, <1>5

LEMMA ClientKeeps ==
  ASSUME MembershipInv, NEW c \in Clients, ClientStep(c)
  PROVE  IdentifiersInv' /\ RequestsInv'
<1>0. TypeOK /\ IdentifiersInv /\ RequestsInv
  BY DEF MembershipInv, TableInv
<1>1. cstate[c] # "idle" => link[c] # "idle"
  BY <1>0 DEF RequestsInv
<1>2. CASE Connect(c)
  BY <1>2, ConnectKeeps
<1>3. CASE Announce(c)
  <2>1. Onward /\ UNCHANGED <<link, conn, fClientId, down>> /\ link[c] # "idle"
    BY <1>0, <1>1, <1>3 DEF Announce, Onward, RequestsInv, TypeOK
  <2>2. SendUp(c, Message("ADD_CLIENT", TypeOf[c]))
        /\ Message("ADD_CLIENT", TypeOf[c]) \in Messages
    BY <1>3, TypeOfType, MessageType DEF Announce
  <2>3. link[c] \in {"queued", "open"} =>
          Legitimate(c, Message("ADD_CLIENT", TypeOf[c]))'
    <3>1. \A m : m = Message("ADD_CLIENT", TypeOf[c]) /\ link[c] \in {"queued", "open"}
                   => Legitimate(c, m)'
      BY <2>1, MessageFields DEF Legitimate
    <3>2. QED
      BY <3>1 DEF Message
  <2>4. QED
    BY <1>0, <2>1, <2>2, <2>3, RequestsSent, IdentifiersKept, NoNewIdReflexive
<1>4. CASE AwaitId(c)
  <2>0. down \in Streams /\ down[c] \in Seq(Messages)
    BY <1>0 DEF TypeOK, SocketTypeOK, Streams
  <2>1. PICK r \in Reads(down[c]) :
          /\ down' = [down EXCEPT ![c] = r.rest]
          /\ \/ /\ r.msg.key = "SET_CLIENT_ID"
                /\ fClientId' = [fClientId EXCEPT ![c] = r.msg.val]
             \/ fClientId' = fClientId
    BY <1>4 DEF AwaitId
  <2>2. Onward /\ UNCHANGED <<link, conn, up>>
    BY <1>0, <1>1, <1>4 DEF AwaitId, Onward, RequestsInv, TypeOK
  <2>3. /\ r.msg = down[c][1] /\ 1 \in 1 .. Len(down[c])
        /\ \A i \in 1 .. Len(r.rest) :
             \E j \in 1 .. Len(down[c]) : r.rest[i] = down[c][j]
    BY <2>0, <2>1, ReadsProperties
  <2>4. \A d \in Clients : fClientId'[d] # -1 => GivenTo(d, fClientId'[d])
    <3>1. r.msg.key = "SET_CLIENT_ID" => GivenTo(c, r.msg.val)
      BY <1>0, <2>3 DEF IdentifiersInv
    <3>2. QED
      BY <1>0, <2>1, <3>1 DEF IdentifiersInv, TypeOK
  <2>5. ASSUME NEW d \in Clients, NEW i \in 1 .. Len(down'[d]),
               down'[d][i].key = "SET_CLIENT_ID"
        PROVE  GivenTo(d, down'[d][i].val)
    <3>1. PICK j \in 1 .. Len(down[d]) : down'[d][i] = down[d][j]
      BY <2>0, <2>1, <2>3, <2>5 DEF Streams
    <3>2. QED
      BY <1>0, <2>5, <3>1 DEF IdentifiersInv
  <2>6. IdentifiersInv'
    BY <2>2, <2>4, <2>5 DEF IdentifiersInv, GivenTo
  <2>7. QED
    BY <1>0, <2>2, <2>6, RequestsStay
<1>5. CASE NoAnswer(c)
  <2>1. Onward /\ UNCHANGED <<link, conn, up, down, fClientId>>
    BY <1>0, <1>1, <1>5 DEF NoAnswer, Onward, RequestsInv, TypeOK, sockVars
  <2>2. QED
    BY <1>0, <2>1, RequestsStay, IdentifiersKept, NoNewIdReflexive
<1>6. CASE Request(c)
  <2>1. Onward /\ UNCHANGED <<link, conn, fClientId, down>> /\ link[c] # "idle"
    BY <1>0, <1>1, <1>6 DEF Request, Onward, RequestsInv
  <2>2. PICK m \in Requests[c] : SendUp(c, m)
    BY <1>6 DEF Request
  <2>3. m \in Messages /\ m.key # "ADD_CLIENT"
        /\ (m.key = "REMOVE_CLIENT" => m.val \notin FDs)
    BY RequestsAssumption, FDsAssumption
  <2>4. link[c] \in {"queued", "open"} => Legitimate(c, m)'
    BY <2>1, <2>3 DEF Legitimate
  <2>5. QED
    BY <1>0, <2>1, <2>2, <2>3, <2>4, RequestsSent, IdentifiersKept,
       NoNewIdReflexive
<1>7. CASE Receive(c)
  <2>1. CASE Exit(c) /\ UNCHANGED up
    BY <1>7, <2>1, ExitKeeps DEF Receive
  <2>2. ASSUME NEW r \in Reads(down[c]), down' = [down EXCEPT ![c] = r.rest],
               SendUp(c, Message("PING_ANSWER", 0)) \/ UNCHANGED up,
               UNCHANGED <<link, hup, conn, cstate, fClientId>>
        PROVE  IdentifiersInv' /\ RequestsInv'
    <3>0. down \in Streams /\ down[c] \in Seq(Messages)
      BY <1>0 DEF TypeOK, SocketTypeOK, Streams
    <3>1. NoNewId(down, down')
      <4>1. \A i \in 1 .. Len(r.rest) :
              \E j \in 1 .. Len(down[c]) : r.rest[i] = down[c][j]
        BY <3>0, ReadsProperties
      <4>2. \A d \in Clients : down'[d] = IF d = c THEN r.rest ELSE down[d]
        BY <2>2, <3>0 DEF Streams
      <4>3. QED
        BY <4>1, <4>2 DEF NoNewId
    <3>2. Onward /\ link[c] # "idle"
      BY <1>0, <1>1, <1>7, <2>2 DEF Receive, Onward, RequestsInv
    <3>3. CASE UNCHANGED up
      BY <1>0, <2>2, <3>1, <3>2, <3>3, IdentifiersKept, RequestsStay
    <3>4. CASE SendUp(c, Message("PING_ANSWER", 0))
      <4>1. PICK m \in Messages : m.key = "PING_ANSWER" /\ SendUp(c, m)
        BY <3>4, MessageType, MessageFields
      <4>2. link[c] \in {"queued", "open"} => Legitimate(c, m)'
        BY <2>2, <4>1 DEF Legitimate
      <4>3. QED
        BY <1>0, <2>2, <3>1, <3>2, <4>1, <4>2, IdentifiersKept, RequestsSent
    <3>5. QED
      BY <2>2, <3>3, <3>4
  <2>3. QED
    BY <1>7, <2>1, <2>2 DEF Receive, clientVars
<1>8. CASE EndOfFile(c)
  BY <1>8, ExitKeeps DEF EndOfFile
<1>9. CASE Leave(c)
  <2>1. Onward /\ UNCHANGED <<link, conn, fClientId, down>> /\ link[c] # "idle"
    BY <1>0, <1>1, <1>9 DEF Leave, Onward, RequestsInv, TypeOK
  <2>2. cstate'[c] = "leaving" /\ fClientId[c] \in Int
    BY <1>0, <1>9 DEF Leave, TypeOK
  <2>3. PICK m \in Messages :
          m.key = "REMOVE_CLIENT" /\ m.val = fClientId[c] /\ SendUp(c, m)
    BY <1>9, <2>2, MessageType, MessageFields DEF Leave
  <2>4. link[c] \in {"queued", "open"} => Legitimate(c, m)'
    <3>1. m.val \in FDs => m.val # -1
      BY FDsAssumption
    <3>2. m.val \in FDs /\ link[c] \in {"queued", "open"} =>
            link[c] = "open" /\ conn[m.val] = c
      BY <1>0, <2>3, <3>1 DEF IdentifiersInv, GivenTo
    <3>3. QED
      BY <2>1, <2>2, <2>3, <3>2 DEF Legitimate
  <2>5. QED
    BY <1>0, <2>1, <2>3, <2>4, RequestsSent, IdentifiersKept, NoNewIdReflexive
<1>10. CASE Close(c)
  BY <1>10, CloseKeeps
<1>11. CASE Crash(c)
  BY <1>11, ExitKeeps DEF Crash
<1>12. QED
  BY <1>2, <1>3, <1>4, <1>5, <1>6, <1>7, <1>8, <1>9, <1>10, <1>11 DEF ClientStep

-----------------------------------------------------------------------------
(* The invariant                                                           *)

(* The steps of the master's process by what they do to the connections.   *)
LEMMA MasterKinds ==
  ASSUME TableInv, Master \/ (ProcessExit /\ UNCHANGED clientVars)
  PROVE  /\ UNCHANGED clientVars
         /\ \/ Accept \/ Announcement \/ ClientGone \/ RemoveClient \/ Quit
            \/ /\ NoNewId(down, down') /\ NoNew(up, up')
               /\ UNCHANGED <<link, hup, conn>>
BY ThreadNoNewId, ProcessNoNewId DEF Master, MasterLoop, Process

LEMMA InitMembership == Init => MembershipInv
<1> SUFFICES ASSUME Init PROVE IdentifiersInv /\ RequestsInv
  BY InitTable DEF MembershipInv
<1>1. \A c \in Clients : /\ Len(up[c]) = 0 /\ Len(down[c]) = 0
                         /\ fClientId[c] = -1 /\ cstate[c] = "idle"
  <2>1. Len(<<>>) = 0
    OBVIOUS
  <2>2. QED
    BY <2>1 DEF Init, SocketInit
<1>2. QED
  BY <1>1 DEF IdentifiersInv, RequestsInv

LEMMA MembershipStep == MembershipInv /\ [Next]_vars => MembershipInv'
<1> SUFFICES ASSUME MembershipInv, [Next]_vars
             PROVE  IdentifiersInv' /\ RequestsInv'
  BY TableStep DEF MembershipInv
<1>0. TypeOK /\ TableInv /\ IdentifiersInv /\ RequestsInv
  BY DEF MembershipInv, TableInv
<1>1. CASE Accept /\ UNCHANGED clientVars
  BY <1>1, AcceptKeeps
<1>2. CASE Announcement /\ UNCHANGED clientVars
  BY <1>2, AnnouncementKeeps
<1>3. CASE ClientGone /\ UNCHANGED clientVars
  <2>1. PICK fd \in FDs \cap RegisteredFds :
          DisconnectClient(fd) /\ up' = Discard(up, fd)
    BY <1>3, ClientGoneCases
  <2>2. NoNew(up, up) /\ up \in Streams /\ pc # "dead" /\ UNCHANGED <<hup, down>>
    BY <1>0, <1>3 DEF NoNew, ClientGone, TypeOK, SocketTypeOK
  <2>3. QED
    BY <1>3, <2>1, <2>2, DisconnectKeeps
<1>4. CASE RemoveClient /\ UNCHANGED clientVars
  <2>1. pc # "dead" /\ UNCHANGED <<hup, down>>
    BY <1>4 DEF RemoveClient, Arrives
  <2>2. CASE UNCHANGED <<link, conn>> /\ NoNew(up, up')
    BY <1>0, <1>4, <2>1, <2>2, IdentifiersKept, RequestsKept, NoNewIdReflexive
       DEF clientVars
  <2>3. CASE \E fd \in FDs \cap RegisteredFds : \E unread \in Streams :
               /\ DisconnectClient(fd) /\ NoNew(up, unread)
               /\ up' = Discard(unread, fd)
    BY <1>4, <2>1, <2>3, DisconnectKeeps
  <2>4. QED
    BY <1>4, <2>2, <2>3, RemoveClientCases
<1>5. CASE Quit /\ UNCHANGED clientVars
  BY <1>5, QuitKeeps
<1>6. CASE /\ NoNewId(down, down') /\ NoNew(up, up')
           /\ UNCHANGED <<link, hup, conn, clientVars>>
  BY <1>0, <1>6, IdentifiersKept, RequestsKept DEF clientVars
<1>7. ASSUME NEW c \in Clients, ClientStep(c)
      PROVE  IdentifiersInv' /\ RequestsInv'
  BY <1>7, ClientKeeps
<1>8. CASE UNCHANGED vars
  BY <1>0, <1>8 DEF vars, sockVars, clientVars, IdentifiersInv, RequestsInv,
                    GivenTo, Legitimate
<1>9. CASE Master \/ (ProcessExit /\ UNCHANGED clientVars)
  <2>1. UNCHANGED clientVars
    BY <1>0, <1>9, MasterKinds
  <2>2. QED
    BY <1>0, <1>1, <1>2, <1>3, <1>4, <1>5, <1>6, <1>9, <2>1, MasterKinds
<1>10. QED
  BY <1>7, <1>8, <1>9 DEF Next

(* A client that has an identifier has that of its own connection.         *)
THEOREM OwnIdentifierCorrect == Spec => []OwnIdentifier
<1>1. MembershipInv => OwnIdentifier
  BY DEF MembershipInv, IdentifiersInv, GivenTo, OwnIdentifier
<1>2. QED
  BY InitMembership, MembershipStep, <1>1, PTL DEF Spec

-----------------------------------------------------------------------------
(* The refinement                                                          *)

(* The entry of a client is that of the descriptor of its connection.      *)
LEMMA EntryOfClient ==
  ASSUME TableInv, pc # "dead", NEW fd \in OpenFds,
         NEW e \in fSocketsConnected, e[1] \in FDs
  PROVE  /\ e[1] \in OpenFds /\ conn[e[1]] \in Clients
         /\ conn[e[1]] = conn[fd] <=> e[1] = fd
<1>1. e[1] \in RegisteredFds
  BY DEF RegisteredFds
<1>2. e[1] \in OpenFds /\ conn[e[1]] \in Clients
  BY <1>1, VisitedIsOpen
<1>3. QED
  BY <1>2 DEF TableInv, RegistryConsistent

LEMMA JoinedIsOpen ==
  ASSUME TableInv, pc # "dead", NEW c \in Members!Joined
  PROVE  c \in Clients /\ link[c] = "open"
<1>1. PICK e \in fSocketsConnected : e[1] \in FDs /\ c = conn[e[1]]
  BY DEF Members!Joined, Registered
<1>2. e[1] \in RegisteredFds
  BY DEF RegisteredFds
<1>3. QED
  BY <1>1, <1>2, VisitedIsOpen

(* Nothing that Membership sees.                                           *)
LEMMA Unseen ==
  ASSUME UNCHANGED <<link, conn, fSocketsConnected, hup, cstate>>,
         pc' = "dead" <=> pc = "dead"
  PROVE  UNCHANGED Members!membershipVars
BY DEF Members!membershipVars, Registered

LEMMA AcceptJoins ==
  ASSUME MembershipInv, Accept, UNCHANGED clientVars
  PROVE  \E c \in Clients : Members!Join(c)
<1> DEFINE c == Head(backlog)
<1>0. /\ TypeOK /\ TableInv /\ pc = "scan" /\ pc' = "announce"
      /\ UNCHANGED <<hup, cstate>>
  BY DEF MembershipInv, TableInv, Accept, clientVars
<1>1. PICK fd \in FDs \ OpenFds :
        /\ conn' = [conn EXCEPT ![fd] = c]
        /\ link' = [link EXCEPT ![c] = "open"]
        /\ fSocketsConnected' = fSocketsConnected \cup {<<fd, CLIENT>>}
  BY DEF Accept, IsLowestFree
<1>2. backlog \in Seq(Clients) /\ backlog # <<>>
  BY <1>0 DEF TableInv, BacklogInv, Accept, IsNext, Remaining, TypeOK,
              SocketTypeOK
<1>3. c \in Clients /\ link[c] = "queued"
  BY <1>0, <1>2 DEF TableInv, BacklogInv
<1>4. c \notin Members!Joined
  BY <1>0, <1>3, JoinedIsOpen
<1>5. Registered' = Registered \cup {<<c, CLIENT>>}
  <2>1. \A e \in fSocketsConnected : e[1] \in FDs => e[1] # fd
    <3>1. ASSUME NEW e \in fSocketsConnected, e[1] = fd PROVE FALSE
      <4>1. fd \in RegisteredFds
        BY <3>1 DEF RegisteredFds
      <4>2. QED
        BY <1>0, <1>1, <4>1, FDsAssumption DEF TableInv, RegistryConsistent
    <3>2. QED
      BY <3>1
  <2>2. \A e \in fSocketsConnected : e[1] \in FDs => conn'[e[1]] = conn[e[1]]
    BY <1>0, <1>1, <2>1 DEF TypeOK, SocketTypeOK
  <2>3. conn'[fd] = c
    BY <1>0, <1>1 DEF TypeOK, SocketTypeOK
  <2>4. ASSUME NEW x \in Registered' PROVE x \in Registered \cup {<<c, CLIENT>>}
    <3>1. PICK e \in fSocketsConnected' :
            e[1] \in FDs /\ x = <<conn'[e[1]], e[2]>>
      BY <2>4 DEF Registered
    <3>2. CASE e = <<fd, CLIENT>>
      BY <2>3, <3>1, <3>2
    <3>3. CASE e \in fSocketsConnected
      BY <2>2, <3>1, <3>3 DEF Registered
    <3>4. QED
      BY <1>1, <3>2, <3>3
  <2>5. ASSUME NEW x \in Registered PROVE x \in Registered'
    <3>1. PICK e \in fSocketsConnected : e[1] \in FDs /\ x = <<conn[e[1]], e[2]>>
      BY <2>5 DEF Registered
    <3>2. e \in fSocketsConnected' /\ x = <<conn'[e[1]], e[2]>>
      BY <1>1, <2>2, <3>1
    <3>3. QED
      BY <3>1, <3>2 DEF Registered
  <2>6. <<c, CLIENT>> \in Registered'
    <3>1. <<fd, CLIENT>> \in fSocketsConnected' /\ <<fd, CLIENT>>[1] = fd
          /\ <<fd, CLIENT>>[2] = CLIENT
      BY <1>1
    <3>2. QED
      BY <1>1, <2>3, <3>1 DEF Registered
  <2>7. QED
    BY <2>4, <2>5, <2>6
<1>6. {d \in Clients : link'[d] = "shut"} = {d \in Clients : link[d] = "shut"}
  BY <1>0, <1>1, <1>3 DEF TypeOK, SocketTypeOK
<1>7. QED
  BY <1>0, <1>3, <1>4, <1>5, <1>6 DEF Members!Join

LEMMA AnnouncementDeclares ==
  ASSUME MembershipInv, Announcement, UNCHANGED clientVars
  PROVE  (\E c \in Clients : Members!Declare(c)) \/ UNCHANGED Members!membershipVars
<1> DEFINE c == conn[pos]
<1>0. /\ TypeOK /\ TableInv /\ RequestsInv /\ pc = "announce" /\ pc' = "select"
      /\ UNCHANGED <<link, conn, hup, cstate>>
  BY DEF MembershipInv, TableInv, Announcement, Return, clientVars
<1>1. PICK r \in Fetch(c) :
        \/ r.msg.key = "ADD_CLIENT" /\ SwitchClientType(pos, r.msg.val)
        \/ UNCHANGED fSocketsConnected
  BY DEF Announcement
<1>2. CASE UNCHANGED fSocketsConnected
  BY <1>0, <1>2, Unseen
<1>3. CASE r.msg.key = "ADD_CLIENT" /\ SwitchClientType(pos, r.msg.val)
  <2>1. pos \in OpenFds /\ pos \in FDs /\ c \in Clients
        /\ <<pos, CLIENT>> \in fSocketsConnected
    BY <1>0, OpenIsClient DEF TableInv, WaitingInv
  <2>2. r.msg.val = TypeOf[c]
    <3>1. r.msg # NoMessage
      BY <1>3, MessageFields DEF NoMessage
    <3>2. PICK j \in 1 .. Len(up[c]) : r.msg = up[c][j]
      BY <1>0, <2>1, <3>1, FetchProperties
    <3>3. QED
      BY <1>0, <1>3, <2>1, <3>2 DEF RequestsInv, Legitimate
  <2>3. fSocketsConnected' =
          {e \in fSocketsConnected : e[1] # pos} \cup {<<pos, TypeOf[c]>>}
    BY <1>3, <2>2 DEF SwitchClientType
  <2>4. /\ <<pos, TypeOf[c]>>[1] = pos /\ <<pos, TypeOf[c]>>[2] = TypeOf[c]
        /\ <<pos, CLIENT>>[1] = pos /\ <<pos, CLIENT>>[2] = CLIENT
    OBVIOUS
  <2>5. <<c, CLIENT>> \in Registered
    BY <2>1, <2>4 DEF Registered
  <2>6. \A e \in fSocketsConnected :
          e[1] \in FDs => (e[1] = pos <=> conn[e[1]] = c)
    BY <1>0, <2>1, EntryOfClient
  <2>7. \A e \in fSocketsConnected : e[1] = pos => e = <<pos, CLIENT>>
    BY <1>0, <2>1, <2>4 DEF TableInv, RegistryConsistent
  <2>8. Registered' = (Registered \ {<<c, CLIENT>>}) \cup {<<c, TypeOf[c]>>}
    <3>1. ASSUME NEW x \in Registered'
          PROVE  x \in (Registered \ {<<c, CLIENT>>}) \cup {<<c, TypeOf[c]>>}
      <4>1. PICK e \in fSocketsConnected' :
              e[1] \in FDs /\ x = <<conn[e[1]], e[2]>>
        BY <1>0, <3>1 DEF Registered
      <4>2. CASE e = <<pos, TypeOf[c]>>
        BY <2>4, <4>1, <4>2
      <4>3. CASE e \in fSocketsConnected /\ e[1] # pos
        BY <2>6, <4>1, <4>3 DEF Registered
      <4>4. QED
        BY <2>3, <4>2, <4>3
    <3>2. ASSUME NEW x \in Registered, x # <<c, CLIENT>>
          PROVE  x \in Registered'
      <4>1. PICK e \in fSocketsConnected : e[1] \in FDs /\ x = <<conn[e[1]], e[2]>>
        BY <3>2 DEF Registered
      <4>2. e[1] # pos
        BY <2>4, <2>7, <3>2, <4>1
      <4>3. QED
        BY <1>0, <2>3, <4>1, <4>2 DEF Registered
    <3>3. <<c, TypeOf[c]>> \in Registered'
      BY <1>0, <2>1, <2>3, <2>4 DEF Registered
    <3>4. QED
      BY <3>1, <3>2, <3>3
  <2>9. QED
    BY <1>0, <2>1, <2>5, <2>8 DEF Members!Declare
<1>4. QED
  BY <1>1, <1>2, <1>3

LEMMA DisconnectDrops ==
  ASSUME MembershipInv, pc = "scan", pc' = "select",
         NEW fd \in FDs \cap RegisteredFds, DisconnectClient(fd),
         hup[conn[fd]] \/ cstate[conn[fd]] = "leaving",
         UNCHANGED <<hup, cstate>>
  PROVE  \E c \in Clients : Members!Drop(c)
<1> DEFINE c == conn[fd]
<1>0. TypeOK /\ TableInv
  BY DEF MembershipInv, TableInv
<1>1. fd \in OpenFds /\ c \in Clients /\ link[c] = "open"
  BY <1>0, VisitedIsOpen
<1>2. /\ conn' = [conn EXCEPT ![fd] = NoClient]
      /\ link' = [link EXCEPT ![c] = "shut"]
      /\ fSocketsConnected' = {e \in fSocketsConnected : e[1] # fd}
  BY DEF DisconnectClient
<1>3. c \in Members!Joined
  <2>1. PICK e \in fSocketsConnected : e[1] = fd
    BY DEF RegisteredFds
  <2>2. <<c, e[2]>> \in Registered /\ <<c, e[2]>>[1] = c
    BY <2>1 DEF Registered
  <2>3. QED
    BY <2>2 DEF Members!Joined
<1>4. \A e \in fSocketsConnected :
        e[1] \in FDs => (e[1] = fd <=> conn[e[1]] = c)
  BY <1>0, <1>1, EntryOfClient
<1>5. \A f \in FDs : f # fd => conn'[f] = conn[f]
  BY <1>0, <1>2 DEF TypeOK, SocketTypeOK
<1>6. Registered' = {member \in Registered : member[1] # c}
  <2>1. ASSUME NEW x \in Registered'
        PROVE  x \in Registered /\ x[1] # c
    <3>1. PICK e \in fSocketsConnected' : e[1] \in FDs /\ x = <<conn'[e[1]], e[2]>>
      BY <2>1 DEF Registered
    <3>2. e \in fSocketsConnected /\ e[1] # fd /\ x = <<conn[e[1]], e[2]>>
      BY <1>2, <1>5, <3>1
    <3>3. QED
      BY <1>4, <3>1, <3>2 DEF Registered
  <2>2. ASSUME NEW x \in Registered, x[1] # c
        PROVE  x \in Registered'
    <3>1. PICK e \in fSocketsConnected : e[1] \in FDs /\ x = <<conn[e[1]], e[2]>>
      BY <2>2 DEF Registered
    <3>2. e[1] # fd /\ e \in fSocketsConnected' /\ x = <<conn'[e[1]], e[2]>>
      BY <1>2, <1>5, <2>2, <3>1
    <3>3. QED
      BY <3>1, <3>2 DEF Registered
  <2>3. QED
    BY <2>1, <2>2
<1>7. {d \in Clients : link'[d] = "shut"} =
        {d \in Clients : link[d] = "shut"} \cup {c}
  BY <1>0, <1>1, <1>2 DEF TypeOK, SocketTypeOK
<1>8. QED
  BY <1>1, <1>3, <1>6, <1>7 DEF Members!Drop

LEMMA QuitShutsDown ==
  ASSUME MembershipInv, Quit, UNCHANGED clientVars
  PROVE  Members!Shutdown
<1>0. TypeOK /\ TableInv /\ pc # "dead" /\ pc' = "dead" /\ UNCHANGED <<hup, cstate>>
  BY DEF MembershipInv, TableInv, Quit, Broadcast, clientVars
<1>1. Registered' = {}
  BY DEF Registered, Quit, Broadcast
<1>2. \A c \in Clients : link[c] \in {"open", "shut"} => link'[c] = "shut"
  BY DEF Quit, Broadcast
<1>3. \A c \in Members!Joined : c \in Clients /\ link[c] = "open"
  BY <1>0, JoinedIsOpen
<1>4. QED
  BY <1>0, <1>1, <1>2, <1>3 DEF Members!Shutdown

LEMMA ClientWithdraws ==
  ASSUME MembershipInv, NEW c \in Clients, ClientStep(c)
  PROVE  Members!Withdraw(c) \/ UNCHANGED Members!membershipVars
<1>0. TypeOK /\ TableInv
  BY DEF MembershipInv, TableInv
<1>1. CASE Connect(c)
  <2>1. /\ UNCHANGED <<conn, hup, masterVars>> /\ cstate[c] = "idle"
        /\ link[c] = "idle" /\ link' = [link EXCEPT ![c] = "queued"]
        /\ cstate' = [cstate EXCEPT ![c] = "connected"]
    BY <1>0, <1>1 DEF Connect, TableInv, WaitingInv
  <2>2. {d \in Clients : link'[d] = "shut"} = {d \in Clients : link[d] = "shut"}
    BY <1>0, <2>1 DEF TypeOK, SocketTypeOK
  <2>3. {d \in Clients : hup'[d] \/ cstate'[d] = "leaving"} =
          {d \in Clients : hup[d] \/ cstate[d] = "leaving"}
    BY <1>0, <2>1 DEF TypeOK
  <2>4. Registered' = Registered
    BY <2>1 DEF Registered, masterVars
  <2>5. QED
    BY <2>1, <2>2, <2>3, <2>4 DEF Members!membershipVars, masterVars
<1>2. ASSUME UNCHANGED <<link, conn, masterVars>>
      PROVE  /\ Registered' = Registered /\ (pc # "dead")' = (pc # "dead")
             /\ {d \in Clients : link[d] = "shut"}' = {d \in Clients : link[d] = "shut"}
  BY <1>2 DEF Registered, masterVars
<1>3. CASE Exit(c)
  <2>1. /\ UNCHANGED <<link, conn, masterVars>>
        /\ hup' = [hup EXCEPT ![c] = TRUE]
        /\ cstate' = [cstate EXCEPT ![c] = "gone"]
    BY <1>3 DEF Exit
  <2>2. {d \in Clients : hup'[d] \/ cstate'[d] = "leaving"} =
          {d \in Clients : hup[d] \/ cstate[d] = "leaving"} \cup {c}
    BY <1>0, <2>1 DEF TypeOK, SocketTypeOK
  <2>3. QED
    BY <1>2, <2>1, <2>2 DEF Members!Withdraw
<1>4. CASE Leave(c)
  <2>1. /\ UNCHANGED <<link, conn, masterVars, hup>>
        /\ cstate' = [cstate EXCEPT ![c] = "leaving"]
    BY <1>4 DEF Leave
  <2>2. {d \in Clients : hup'[d] \/ cstate'[d] = "leaving"} =
          {d \in Clients : hup[d] \/ cstate[d] = "leaving"} \cup {c}
    BY <1>0, <2>1 DEF TypeOK, SocketTypeOK
  <2>3. QED
    BY <1>2, <2>1, <2>2 DEF Members!Withdraw
<1>5. ASSUME UNCHANGED <<link, conn, masterVars, hup>>,
             NEW v, v # "leaving", cstate[c] # "leaving",
             cstate' = [cstate EXCEPT ![c] = v] \/ cstate' = cstate
      PROVE  UNCHANGED Members!membershipVars
  <2>1. {d \in Clients : hup'[d] \/ cstate'[d] = "leaving"} =
          {d \in Clients : hup[d] \/ cstate[d] = "leaving"}
    BY <1>0, <1>5 DEF TypeOK
  <2>2. QED
    BY <1>2, <1>5, <2>1 DEF Members!membershipVars
<1>6. QED
  BY <1>1, <1>3, <1>4, <1>5
     DEF ClientStep, Announce, AwaitId, NoAnswer, Request, Receive, EndOfFile,
         Close, Crash, sockVars, clientVars

LEMMA RefinementInit == Init => Members!Init
<1> SUFFICES ASSUME Init PROVE Members!Init
  OBVIOUS
<1>1. Registered = {}
  BY FDsAssumption DEF Init, MessengerInit, Registered
<1>2. QED
  BY <1>1 DEF Init, SocketInit, MessengerInit, Members!Init

LEMMA RefinementStep ==
  MembershipInv /\ [Next]_vars => [Members!Next]_(Members!membershipVars)
<1> SUFFICES ASSUME MembershipInv, [Next]_vars
             PROVE  Members!Next \/ UNCHANGED Members!membershipVars
  BY DEF Members!membershipVars
<1> USE DEF Members!Next
<1>0. TableInv
  BY DEF MembershipInv
<1>1. CASE Accept /\ UNCHANGED clientVars
  BY <1>1, AcceptJoins
<1>2. CASE Announcement /\ UNCHANGED clientVars
  BY <1>2, AnnouncementDeclares
<1>3. CASE ClientGone /\ UNCHANGED clientVars
  <2>1. PICK fd \in FDs \cap RegisteredFds : DisconnectClient(fd) /\ hup[conn[fd]]
    BY <1>3, ClientGoneCases
  <2>2. pc = "scan" /\ pc' = "select" /\ UNCHANGED <<hup, cstate>>
    BY <1>3 DEF ClientGone, Return, clientVars
  <2>3. QED
    BY <2>1, <2>2, DisconnectDrops
<1>4. CASE RemoveClient /\ UNCHANGED clientVars
  <2>1. pc = "scan" /\ pc' \in {"scan", "select"} /\ UNCHANGED <<hup, cstate>>
    BY <1>4 DEF RemoveClient, Arrives, Return, clientVars
  <2>2. CASE UNCHANGED <<link, conn, fSocketsConnected>>
    BY <2>1, <2>2, Unseen
  <2>3. ASSUME NEW fd \in FDs \cap RegisteredFds, DisconnectClient(fd),
               hup[conn[fd]] \/ cstate[conn[fd]] = "leaving"
        PROVE  Members!Next
    <3>1. pc' = "select"
      <4>1. conn[fd] # NoClient /\ conn' = [conn EXCEPT ![fd] = NoClient]
        BY <1>0, <2>1, <2>3, VisitedIsOpen DEF OpenFds, DisconnectClient
      <4>2. ~UNCHANGED conn
        BY <1>0, <4>1 DEF TableInv, TypeOK, SocketTypeOK
      <4>3. QED
        BY <1>4, <4>2 DEF RemoveClient, Return
    <3>2. QED
      BY <2>1, <2>3, <3>1, DisconnectDrops
  <2>4. QED
    BY <1>4, <2>2, <2>3, RemoveClientCases
<1>5. CASE Quit /\ UNCHANGED clientVars
  BY <1>5, QuitShutsDown
<1>6. ASSUME NEW c \in Clients, ClientStep(c)
      PROVE  Members!Next \/ UNCHANGED Members!membershipVars
  BY <1>6, ClientWithdraws
<1>7. CASE Quiet /\ UNCHANGED hup
           /\ (Master \/ (ProcessExit /\ UNCHANGED clientVars))
  BY <1>0, <1>7, MasterKinds, Unseen DEF Quiet, clientVars
<1>8. CASE UNCHANGED vars
  BY <1>8, Unseen DEF vars, sockVars, masterVars, clientVars
<1>9. CASE Master \/ (ProcessExit /\ UNCHANGED clientVars)
  <2>1. UNCHANGED clientVars
    BY <1>0, <1>9, MasterKinds
  <2>2. CASE UNCHANGED hup
    BY <1>0, <1>1, <1>2, <1>3, <1>4, <1>5, <1>6, <1>7, <1>9, <2>1, <2>2, Kinds
       DEF ClientStep
  <2>3. CASE Accept \/ Announcement \/ ClientGone \/ RemoveClient \/ Quit
    BY <1>1, <1>2, <1>3, <1>4, <1>5, <2>1, <2>3
  <2>4. QED
    BY <1>0, <1>9, <2>2, <2>3, MasterKinds
<1> HIDE DEF Members!Next
<1>10. QED
  BY <1>6, <1>8, <1>9 DEF Next

(* The registry of the master, as its clients see it, implements           *)
(* Membership.                                                             *)
THEOREM MembershipCorrect == Spec => MembershipSpec
<1>1. Spec => []MembershipInv
  BY InitMembership, MembershipStep, PTL DEF Spec
<1>2. QED
  BY <1>1, RefinementInit, RefinementStep, PTL DEF Spec, MembershipSpec, Members!Spec

-----------------------------------------------------------------------------
(* The type of a client.  The master learns it from the first message of   *)
(* the connection, which AddClient() reads before anything else.           *)

(* The master has read nothing from this client yet.                       *)
Untold(c) ==
  link[c] \in {"idle", "queued"} \/ (pc = "announce" /\ conn[pos] = c)

FirstWordInv ==
  \A c \in Clients : Untold(c) =>
    \/ up[c] = <<>> /\ cstate[c] \in {"idle", "connected", "gone"}
    \/ up[c] # <<>> /\ up[c][1] = Message("ADD_CLIENT", TypeOf[c])

(* A request comes from an open connection, and only its stream changes.   *)
LEMMA ReceivesFromOpen ==
  ASSUME TableInv, NEW fd \in NextFds, NEW m \in Incoming(fd), Receives(fd, m)
  PROVE  \A d \in Clients : link[d] # "open" => up'[d] = up[d]
<1>1. pc = "scan" /\ fd \in FDs /\ IsNext(fd)
  BY DEF Receives, Arrives
<1>2. conn[fd] \in Clients /\ link[conn[fd]] = "open"
  BY <1>1, NextIsOpen DEF TableInv
<1>3. PICK r \in Fetch(conn[fd]) : up' = [up EXCEPT ![conn[fd]] = r.rest]
  BY DEF Receives, Unread
<1>4. QED
  BY <1>2, <1>3 DEF TableInv, TypeOK, SocketTypeOK, Streams

LEMMA RemoveClientFromOpen ==
  ASSUME TableInv, RemoveClient
  PROVE  \A d \in Clients : link[d] # "open" => up'[d] = up[d]
<1>0. TypeOK
  BY DEF TableInv
<1>1. PICK fd \in NextFds : \E m \in Incoming(fd) :
        /\ Arrives(fd, m)
        /\ \E unread \in Unread(fd, m) : up' = Discard(unread, m.val)
  BY DEF RemoveClient
<1>2. PICK m \in Incoming(fd) :
        /\ Arrives(fd, m)
        /\ \E unread \in Unread(fd, m) : up' = Discard(unread, m.val)
  BY <1>1
<1>3. PICK unread \in Unread(fd, m) : up' = Discard(unread, m.val)
  BY <1>2
<1>4. /\ pc = "scan" /\ fd \in FDs
      /\ conn[fd] \in Clients /\ link[conn[fd]] = "open"
  BY <1>2, NextIsOpen DEF Arrives
<1>5. PICK r \in Fetch(conn[fd]) : unread = [up EXCEPT ![conn[fd]] = r.rest]
  BY DEF Unread
<1>6. \A d \in Clients : link[d] # "open" => unread[d] = up[d]
  BY <1>0, <1>4, <1>5 DEF TypeOK, SocketTypeOK, Streams
<1>7. CASE m.val \in OpenFds
  <2>1. conn[m.val] \in Clients /\ link[conn[m.val]] = "open"
    BY <1>0, <1>4, <1>7, OpenIsClient DEF TableInv, RegistryConsistent
  <2>2. unread \in Streams
    BY <1>0, <1>4, UnreadType
  <2>3. \A d \in Clients : link[d] # "open" => up'[d] = unread[d]
    BY <1>3, <1>7, <2>1, <2>2 DEF Discard, Streams
  <2>4. QED
    BY <1>6, <2>3
<1>8. CASE m.val \notin OpenFds
  BY <1>3, <1>6, <1>8 DEF Discard
<1>9. QED
  BY <1>7, <1>8

LEMMA ProcessFromOpen ==
  ASSUME TableInv, Process
  PROVE  /\ \A d \in Clients : link[d] # "open" => up'[d] = up[d]
         /\ pc = "scan" /\ pc' # "announce"
<1>1. CASE RemoveClient
  <2>1. pc = "scan" /\ pc' # "announce"
    BY <1>1 DEF RemoveClient, Arrives, Return
  <2>2. QED
    BY <1>1, <2>1, RemoveClientFromOpen
<1>2. CASE ~RemoveClient
  <2>1. PICK fd \in NextFds : \E m \in Incoming(fd) : Receives(fd, m)
    BY <1>2 DEF Process, PingClient, ListClients, NewRun, GetRunNumber,
                Forward, Ignored, StartAcquisition, StopAcquisition
  <2>2. pc = "scan"
    BY <2>1 DEF Receives, Arrives
  <2>3. pc' # "announce"
    BY <1>2, <2>2 DEF Process, PingClient, ListClients, NewRun, GetRunNumber,
                Forward, Ignored, StartAcquisition, StopAcquisition
  <2>4. QED
    BY <2>1, <2>2, <2>3, ReceivesFromOpen
<1>3. QED
  BY <1>1, <1>2

(* Only what was already told is read, or closed.                          *)
LEMMA MasterFirstWord ==
  ASSUME TableInv, Master \/ (ProcessExit /\ UNCHANGED clientVars), ~Quit,
         NEW d \in Clients, Untold(d)'
  PROVE  Untold(d) /\ up'[d] = up[d] /\ cstate'[d] = cstate[d]
<1>0. TypeOK /\ cstate' = cstate
  BY DEF TableInv, Master, clientVars
<1>1. CASE Accept
  <2>1. PICK fd \in FDs \ OpenFds :
          /\ conn' = [conn EXCEPT ![fd] = Head(backlog)]
          /\ link' = [link EXCEPT ![Head(backlog)] = "open"]
          /\ pos' = fd
    BY <1>1 DEF Accept, IsLowestFree
  <2>2. backlog \in Seq(Clients) /\ backlog # <<>> /\ up' = up
    BY <1>0, <1>1 DEF TableInv, BacklogInv, Accept, IsNext, Remaining, TypeOK,
                      SocketTypeOK
  <2>3. Head(backlog) \in Clients /\ link[Head(backlog)] = "queued"
    BY <1>0, <2>2 DEF TableInv, BacklogInv
  <2>4. conn'[pos'] = Head(backlog)
    BY <1>0, <2>1 DEF TypeOK, SocketTypeOK
  <2>5. d # Head(backlog) => link'[d] = link[d]
    BY <1>0, <2>1 DEF TypeOK, SocketTypeOK
  <2>6. QED
    BY <1>0, <2>2, <2>3, <2>4, <2>5 DEF Untold
<1>2. CASE Announcement
  <2>1. /\ pc' = "select" /\ UNCHANGED link
        /\ conn[pos] \in Clients /\ link[conn[pos]] = "open"
    BY <1>0, <1>2, OpenIsClient
       DEF Announcement, Return, TableInv, WaitingInv, RegistryConsistent
  <2>2. PICK r \in Fetch(conn[pos]) : up' = [up EXCEPT ![conn[pos]] = r.rest]
    BY <1>2 DEF Announcement
  <2>3. QED
    BY <1>0, <2>1, <2>2 DEF Untold, TypeOK, SocketTypeOK, Streams
<1>3. CASE ClientGone
  <2>1. pc' = "select" /\ up' = up
    BY <1>3 DEF ClientGone, Return
  <2>2. link'[d] \in {"idle", "queued"} => link'[d] = link[d]
    BY <1>0, <1>3 DEF ClientGone, DisconnectClient, TypeOK, SocketTypeOK
  <2>3. QED
    BY <1>0, <2>1, <2>2 DEF Untold
<1>4. CASE Process
  <2>1. link'[d] \in {"idle", "queued"} => link'[d] = link[d]
    BY <1>0, <1>4
       DEF Process, RemoveClient, DisconnectClient, PingClient, ListClients,
           NewRun, GetRunNumber, Forward, Ignored, StartAcquisition,
           StopAcquisition, TypeOK, SocketTypeOK
  <2>2. QED
    BY <1>0, <1>4, <2>1, ProcessFromOpen DEF Untold
<1>5. CASE PingRead
  <2>1. /\ pc = "ping" /\ pc' # "announce" /\ UNCHANGED link
        /\ conn[toping] \in Clients /\ link[conn[toping]] = "open"
    BY <1>0, <1>5, OpenIsClient
       DEF PingRead, EndOfPing, TableInv, WaitingInv, RegistryConsistent
  <2>2. PICK r \in Fetch(conn[toping]) : up' = [up EXCEPT ![conn[toping]] = r.rest]
    BY <1>5 DEF PingRead
  <2>3. QED
    BY <1>0, <2>1, <2>2 DEF Untold, TypeOK, SocketTypeOK, Streams
<1>6. CASE Select \/ EndOfScan \/ AcceptFails \/ AnnouncementLost \/ PingTargetGone
  BY <1>0, <1>6 DEF Select, EndOfScan, AcceptFails, AnnouncementLost,
                    PingTargetGone, EndOfPing, Return, sockVars, Untold
<1>7. CASE ProcessExit
  BY <1>0, <1>7 DEF ProcessExit, masterVars, Untold
<1>8. QED
  BY <1>1, <1>2, <1>3, <1>4, <1>5, <1>6, <1>7 DEF Master, MasterLoop

LEMMA MasterKeepsFirstWord ==
  ASSUME MembershipInv, FirstWordInv,
         Master \/ (ProcessExit /\ UNCHANGED clientVars)
  PROVE  FirstWordInv'
<1>0. TableInv /\ TypeOK /\ RequestsInv
  BY DEF MembershipInv, TableInv
<1>1. ASSUME NEW d \in Clients, Untold(d)'
      PROVE  \/ up'[d] = <<>> /\ cstate'[d] \in {"idle", "connected", "gone"}
             \/ up'[d] # <<>> /\ up'[d][1] = Message("ADD_CLIENT", TypeOf[d])
  <2>1. CASE ~Quit
    BY <1>0, <1>1, <2>1, MasterFirstWord DEF FirstWordInv
  <2>2. CASE Quit
    <3>1. pc' = "dead" /\ cstate' = cstate
      BY <2>2 DEF Quit, Broadcast, Master, clientVars
    <3>2. link'[d] \in {"idle", "queued"}
      BY <1>1, <3>1 DEF Untold
    <3>3. link[d] = "idle" /\ up'[d] = up[d]
      BY <2>2, <3>2 DEF Quit, Broadcast
    <3>4. QED
      BY <1>1, <3>1, <3>3 DEF FirstWordInv, Untold
  <2>3. QED
    BY <2>1, <2>2
<1>2. QED
  BY <1>1 DEF FirstWordInv

LEMMA ClientKeepsFirstWord ==
  ASSUME MembershipInv, FirstWordInv, NEW c \in Clients, ClientStep(c)
  PROVE  FirstWordInv'
<1>0. TableInv /\ TypeOK /\ RequestsInv
  BY DEF MembershipInv, TableInv
<1>1. /\ UNCHANGED <<conn, masterVars>>
      /\ \A d \in Clients : d # c => link'[d] = link[d] /\ cstate'[d] = cstate[d]
      /\ link' = link \/ (link[c] = "idle" /\ cstate[c] = "idle")
  BY <1>0 DEF ClientStep, Connect, Announce, AwaitId, NoAnswer, Request,
              Receive, EndOfFile, Leave, Close, Crash, Exit, sockVars,
              clientVars, TypeOK, SocketTypeOK, TableInv, WaitingInv
<1>2. PICK m : SendUp(c, m) \/ up' = up
  BY DEF ClientStep, Connect, Announce, AwaitId, NoAnswer, Request,
         Receive, EndOfFile, Leave, Close, Crash, sockVars
<1>3. /\ \A d \in Clients : d # c => up'[d] = up[d]
      /\ up'[c] = up[c] \/ up'[c] = Append(up[c], m)
  BY <1>0, <1>2 DEF SendUp, TypeOK, SocketTypeOK, Streams
<1>4. ASSUME NEW d \in Clients, Untold(d)', d # c
      PROVE  \/ up'[d] = <<>> /\ cstate'[d] \in {"idle", "connected", "gone"}
             \/ up'[d] # <<>> /\ up'[d][1] = Message("ADD_CLIENT", TypeOf[d])
  BY <1>1, <1>3, <1>4 DEF FirstWordInv, Untold, masterVars
<1>5. ASSUME Untold(c)'
      PROVE  \/ up'[c] = <<>> /\ cstate'[c] \in {"idle", "connected", "gone"}
             \/ up'[c] # <<>> /\ up'[c][1] = Message("ADD_CLIENT", TypeOf[c])
  <2>1. Untold(c)
    BY <1>1, <1>5 DEF Untold, masterVars
  <2>2. up[c] \in Seq(Messages)
    BY <1>0 DEF TypeOK, SocketTypeOK, Streams
  <2>3. CASE up[c] # <<>>
    <3>1. up'[c] # <<>> /\ up'[c][1] = up[c][1]
      BY <1>3, <2>2, <2>3
    <3>2. QED
      BY <2>1, <2>3, <3>1 DEF FirstWordInv
  <2>4. CASE up[c] = <<>>
    <3>1. cstate[c] \in {"idle", "connected", "gone"}
      BY <2>1, <2>4 DEF FirstWordInv
    <3>2. CASE Connect(c)
      BY <1>0, <2>4, <3>2 DEF Connect, TypeOK
    <3>3. CASE Announce(c)
      <4>1. link[c] # "shut"
        BY <1>0, <2>1, OpenIsClient
           DEF Untold, TableInv, WaitingInv, RegistryConsistent
      <4>2. up'[c] = Append(<<>>, Message("ADD_CLIENT", TypeOf[c]))
        BY <1>0, <2>4, <3>3, <4>1
           DEF Announce, SendUp, TypeOK, SocketTypeOK, Streams
      <4>3. QED
        BY <4>2
    <3>4. CASE Crash(c)
      BY <1>0, <2>4, <3>4 DEF Crash, Exit, TypeOK
    <3>5. QED
      BY <3>1, <3>2, <3>3, <3>4
         DEF ClientStep, AwaitId, NoAnswer, Request, Receive, EndOfFile,
             Leave, Close
  <2>5. QED
    BY <2>3, <2>4
<1>6. QED
  BY <1>4, <1>5 DEF FirstWordInv

-----------------------------------------------------------------------------
(* Clients that announced themselves in time                               *)

(* What is kept from the moment the announcement of c is there.            *)
Promised(c) == InTime(c) \/ (~Untold(c) /\ Known(c))

AnnouncedInv == MembershipInv /\ FirstWordInv

(* While the master does not read from it, an announcement stays there.    *)
LEMMA StillInTime ==
  ASSUME MembershipInv, NEW c \in Clients, InTime(c), ~Quit,
         Master \/ (ProcessExit /\ UNCHANGED clientVars),
         ~(pc = "announce" /\ conn[pos] = c)
  PROVE  InTime(c)'
<1>0. /\ TableInv /\ TypeOK /\ link[c] = "queued" /\ up[c] # <<>>
  BY DEF MembershipInv, TableInv, InTime
<1>1. CASE Accept
  <2>1. PICK fd \in FDs :
          /\ conn' = [conn EXCEPT ![fd] = Head(backlog)]
          /\ link' = [link EXCEPT ![Head(backlog)] = "open"]
          /\ pos' = fd
    BY <1>1 DEF Accept
  <2>2. pc' = "announce" /\ up' = up
    BY <1>1 DEF Accept
  <2>3. CASE c = Head(backlog)
    BY <1>0, <2>1, <2>2, <2>3 DEF InTime, TypeOK, SocketTypeOK
  <2>4. CASE c # Head(backlog)
    BY <1>0, <2>1, <2>2, <2>4 DEF InTime, TypeOK, SocketTypeOK
  <2>5. QED
    BY <2>3, <2>4
<1>2. CASE ~Accept
  <2>1. link'[c] = "queued"
    <3>1. CASE \E fd \in FDs \cap RegisteredFds :
                 pc # "dead" /\ DisconnectClient(fd)
      <4>1. PICK fd \in FDs \cap RegisteredFds :
              pc # "dead" /\ link' = [link EXCEPT ![conn[fd]] = "shut"]
        BY <3>1 DEF DisconnectClient
      <4>2. conn[fd] # c
        BY <1>0, <4>1, VisitedIsOpen
      <4>3. QED
        BY <1>0, <4>1, <4>2 DEF TypeOK, SocketTypeOK
    <3>2. CASE ClientGone
      <4>1. pc # "dead"
        BY <3>2 DEF ClientGone
      <4>2. QED
        BY <3>1, <3>2, <4>1, ClientGoneCases
    <3>3. CASE RemoveClient
      <4>1. pc # "dead"
        BY <3>3 DEF RemoveClient, Arrives
      <4>2. CASE UNCHANGED link
        BY <1>0, <4>2
      <4>3. QED
        BY <3>1, <3>3, <4>1, <4>2, RemoveClientCases
    <3>4. CASE UNCHANGED link
      BY <1>0, <3>4
    <3>5. CASE Announcement
      BY <3>4, <3>5 DEF Announcement
    <3>6. QED
      BY <1>0, <1>2, <3>2, <3>3, <3>4, <3>5, MasterKinds
  <2>2. up'[c] = up[c]
    BY <1>0, <2>1, MasterFirstWord DEF Untold
  <2>3. QED
    BY <1>0, <2>1, <2>2 DEF InTime
<1>3. QED
  BY <1>1, <1>2

(* AddClient() reads it, and switches the type.                            *)
LEMMA AnnouncementRead ==
  ASSUME AnnouncedInv, NEW c \in Clients, Announcement, conn[pos] = c,
         up[c] # <<>>
  PROVE  ~Untold(c)' /\ Known(c)'
<1>0. /\ TypeOK /\ TableInv /\ FirstWordInv
      /\ pc = "announce" /\ pc' = "select"
      /\ UNCHANGED <<link, conn>>
  BY DEF AnnouncedInv, MembershipInv, TableInv, Announcement, Return
<1>1. /\ pos \in FDs /\ pos \in OpenFds /\ link[c] = "open"
      /\ <<pos, CLIENT>> \in fSocketsConnected
  BY <1>0, OpenIsClient DEF TableInv, WaitingInv, RegistryConsistent
<1>2. PICK r \in Fetch(c) :
        IF r.msg.key = "ADD_CLIENT" /\ r.msg.val # CLIENT
        THEN SwitchClientType(pos, r.msg.val)
        ELSE UNCHANGED fSocketsConnected
  BY DEF Announcement
<1>3. r.msg = up[c][1]
  <2>1. r \in Reads(up[c])
    BY <1>2 DEF Fetch, Expired
  <2>2. QED
    BY <1>0, <2>1, ReadsProperties DEF TypeOK, SocketTypeOK, Streams
<1>4. up[c][1] = Message("ADD_CLIENT", TypeOf[c])
  BY <1>0 DEF FirstWordInv, Untold
<1>5. r.msg.key = "ADD_CLIENT" /\ r.msg.val = TypeOf[c]
  BY <1>3, <1>4, MessageFields
<1>6. <<pos, TypeOf[c]>> \in fSocketsConnected'
  <2>1. CASE TypeOf[c] = CLIENT
    BY <1>1, <1>2, <1>5, <2>1
  <2>2. CASE TypeOf[c] # CLIENT
    BY <1>2, <1>5, <2>2 DEF SwitchClientType
  <2>3. QED
    BY <2>1, <2>2
<1>7. \A fd \in FDs : conn[fd] = c => fd = pos
  BY <1>0, <1>1, NoneAssumption DEF TableInv, RegistryConsistent, OpenFds
<1>8. QED
  BY <1>0, <1>1, <1>6, <1>7 DEF Untold, Known

(* Its entry stays as long as its connection.                              *)
LEMMA StillKnown ==
  ASSUME AnnouncedInv, NEW c \in Clients, ~Untold(c), Known(c),
         Master \/ (ProcessExit /\ UNCHANGED clientVars)
  PROVE  ~Untold(c)' /\ Known(c)'
<1>0. /\ TypeOK /\ TableInv /\ MembershipInv
      /\ link[c] \notin {"idle", "queued"}
  BY DEF AnnouncedInv, MembershipInv, TableInv, Untold
<1>1. \A fd \in FDs : conn[fd] = c => <<fd, TypeOf[c]>> \in fSocketsConnected
  BY DEF Known, Untold
<1>2. CASE Quit
  <2>1. /\ pc' = "dead" /\ link'[c] \notin {"idle", "queued"}
        /\ \A fd \in FDs : conn'[fd] # c
    BY <1>0, <1>2, NoneAssumption DEF Quit, Broadcast
  <2>2. QED
    BY <2>1 DEF Untold, Known
<1>3. CASE ~Quit
  <2>1. ~Untold(c)'
    BY <1>0, <1>3, MasterFirstWord
  <2>2. ASSUME NEW fd \in FDs, conn'[fd] = c
        PROVE  <<fd, TypeOf[c]>> \in fSocketsConnected'
    <3>1. CASE Accept
      <4>1. PICK new \in FDs :
              /\ conn' = [conn EXCEPT ![new] = Head(backlog)]
              /\ fSocketsConnected' = fSocketsConnected \cup {<<new, CLIENT>>}
        BY <3>1 DEF Accept
      <4>2. backlog \in Seq(Clients) /\ backlog # <<>>
        BY <1>0, <3>1 DEF TableInv, BacklogInv, Accept, IsNext, Remaining,
                          TypeOK, SocketTypeOK
      <4>3. c # Head(backlog)
        BY <1>0, <4>2 DEF TableInv, BacklogInv
      <4>4. conn[fd] = c
        BY <1>0, <2>2, <4>1, <4>3 DEF TypeOK, SocketTypeOK
      <4>5. QED
        BY <1>1, <4>1, <4>4
    <3>2. CASE Announcement
      <4>1. pc = "announce" /\ UNCHANGED conn
        BY <3>2 DEF Announcement
      <4>2. fd # pos /\ conn[fd] = c
        BY <2>2, <4>1 DEF Untold
      <4>3. \/ UNCHANGED fSocketsConnected
            \/ \E type : fSocketsConnected' =
                 {e \in fSocketsConnected : e[1] # pos} \cup {<<pos, type>>}
        BY <3>2 DEF Announcement, SwitchClientType
      <4>4. <<fd, TypeOf[c]>> \in fSocketsConnected /\ <<fd, TypeOf[c]>>[1] # pos
        BY <1>1, <4>2
      <4>5. QED
        BY <4>3, <4>4
    <3>3. CASE \E gone \in FDs \cap RegisteredFds : DisconnectClient(gone)
      <4>1. PICK gone \in FDs \cap RegisteredFds :
              /\ conn' = [conn EXCEPT ![gone] = NoClient]
              /\ fSocketsConnected' = {e \in fSocketsConnected : e[1] # gone}
        BY <3>3 DEF DisconnectClient
      <4>2. fd # gone /\ conn[fd] = c
        BY <1>0, <2>2, <4>1, NoneAssumption DEF TypeOK, SocketTypeOK
      <4>3. <<fd, TypeOf[c]>> \in fSocketsConnected /\ <<fd, TypeOf[c]>>[1] # gone
        BY <1>1, <4>2
      <4>4. QED
        BY <4>1, <4>3
    <3>4. CASE UNCHANGED <<conn, fSocketsConnected>>
      BY <1>1, <2>2, <3>4
    <3>5. CASE RemoveClient
      BY <1>0, <3>3, <3>4, <3>5, RemoveClientCases
    <3>6. CASE ClientGone
      BY <1>0, <3>3, <3>6, ClientGoneCases
    <3>7. CASE ~(Accept \/ Announcement \/ ClientGone \/ RemoveClient)
      <4>1. UNCHANGED <<conn, fSocketsConnected>>
        BY <1>3, <3>7
           DEF Master, MasterLoop, Process, Select, EndOfScan, AcceptFails,
               AnnouncementLost, PingRead, PingTargetGone, PingClient,
               ListClients, NewRun, GetRunNumber, Forward, Ignored,
               StartAcquisition, StopAcquisition, ProcessExit, masterVars,
               sockVars
      <4>2. QED
        BY <3>4, <4>1
    <3>8. QED
      BY <3>1, <3>2, <3>5, <3>6, <3>7
  <2>3. QED
    BY <2>1, <2>2 DEF Known
<1>4. QED
  BY <1>2, <1>3

LEMMA ClientKeepsPromise ==
  ASSUME MembershipInv, NEW c \in Clients, Promised(c),
         NEW d \in Clients, ClientStep(d)
  PROVE  Promised(c)'
<1>0. TableInv /\ TypeOK
  BY DEF MembershipInv, TableInv
<1>1. /\ UNCHANGED <<conn, masterVars>>
      /\ link' = link \/ (link[d] = "idle" /\ link' = [link EXCEPT ![d] = "queued"])
  BY <1>0 DEF ClientStep, Connect, Announce, AwaitId, NoAnswer, Request,
              Receive, EndOfFile, Leave, Close, Crash, Exit, sockVars,
              clientVars, TableInv, WaitingInv
<1>2. up[c] # <<>> => up'[c] # <<>>
  <2>1. PICK m : SendUp(d, m) \/ up' = up
    BY DEF ClientStep, Connect, Announce, AwaitId, NoAnswer, Request,
           Receive, EndOfFile, Leave, Close, Crash, sockVars
  <2>2. up[c] \in Seq(Messages) /\ (up'[c] = up[c] \/ up'[c] = Append(up[c], m))
    BY <1>0, <2>1 DEF SendUp, TypeOK, SocketTypeOK, Streams
  <2>3. QED
    BY <2>2
<1>3. link[c] # "idle" => link'[c] = link[c]
  BY <1>0, <1>1 DEF TypeOK, SocketTypeOK
<1>4. CASE InTime(c)
  <2>1. CASE link[c] = "queued"
    BY <1>2, <1>3, <1>4, <2>1 DEF Promised, InTime
  <2>2. CASE pc = "announce" /\ conn[pos] = c
    BY <1>1, <1>2, <1>4, <2>2 DEF Promised, InTime, masterVars
  <2>3. QED
    BY <1>4, <2>1, <2>2 DEF InTime
<1>5. CASE ~Untold(c) /\ Known(c)
  BY <1>1, <1>3, <1>5 DEF Promised, Untold, Known, masterVars
<1>6. QED
  BY <1>4, <1>5 DEF Promised

LEMMA PromiseKept ==
  ASSUME AnnouncedInv, NEW c \in Clients, Promised(c), [Next]_vars
  PROVE  Promised(c)'
<1>0. MembershipInv /\ TableInv /\ TypeOK
  BY DEF AnnouncedInv, MembershipInv, TableInv
<1>1. CASE UNCHANGED vars
  BY <1>1 DEF vars, sockVars, masterVars, Promised, InTime, Untold, Known
<1>2. ASSUME NEW d \in Clients, ClientStep(d) PROVE Promised(c)'
  BY <1>0, <1>2, ClientKeepsPromise
<1>3. CASE Master \/ (ProcessExit /\ UNCHANGED clientVars)
  <2>1. CASE ~Untold(c) /\ Known(c)
    BY <1>3, <2>1, StillKnown DEF Promised
  <2>2. CASE InTime(c) /\ ~(pc = "announce" /\ conn[pos] = c) /\ ~Quit
    BY <1>0, <1>3, <2>2, StillInTime DEF Promised
  <2>3. CASE InTime(c) /\ Quit
    <3>1. /\ pc' = "dead" /\ link'[c] \notin {"idle", "queued"}
          /\ \A fd \in FDs : conn'[fd] # c
      <4>1. link[c] # "idle"
        BY <1>0, <2>3, OpenIsClient
           DEF InTime, TableInv, WaitingInv, RegistryConsistent
      <4>2. QED
        BY <2>3, <4>1, NoneAssumption DEF Quit, Broadcast
    <3>2. QED
      BY <3>1 DEF Promised, Untold, Known
  <2>4. CASE InTime(c) /\ pc = "announce" /\ conn[pos] = c /\ ~Quit
    <3>1. CASE Announcement
      BY <2>4, <3>1, AnnouncementRead DEF InTime, Promised
    <3>2. CASE ProcessExit
      BY <2>4, <3>2 DEF ProcessExit, masterVars, InTime, Promised
    <3>3. ~Announcement => ProcessExit
      <4>1. ~AnnouncementLost
        BY <2>4 DEF InTime, AnnouncementLost, Disconnected
      <4>2. ~Process
        BY <1>0, <2>4, ProcessFromOpen
      <4>3. QED
        BY <1>3, <2>4, <4>1, <4>2
           DEF Master, MasterLoop, Select, EndOfScan, Accept, AcceptFails,
               ClientGone, PingRead, PingTargetGone
    <3>4. QED
      BY <3>1, <3>2, <3>3
  <2>5. QED
    BY <2>1, <2>2, <2>3, <2>4 DEF Promised
<1>4. QED
  BY <1>1, <1>2, <1>3 DEF Next

LEMMA PromisedIsKnown ==
  ASSUME AnnouncedInv, NEW c \in Clients, Promised(c)
  PROVE  Known(c)
<1>1. CASE ~Untold(c) /\ Known(c)
  BY <1>1
<1>2. CASE InTime(c) /\ link[c] = "queued"
  <2>1. \A fd \in FDs : conn[fd] # c
    <3>1. CASE pc = "dead"
      BY <1>2, <3>1 DEF AnnouncedInv, MembershipInv, TableInv, WaitingInv
    <3>2. CASE pc # "dead"
      BY <1>2, <3>2 DEF AnnouncedInv, MembershipInv, TableInv, RegistryConsistent
    <3>3. QED
      BY <3>1, <3>2
  <2>2. QED
    BY <2>1 DEF Known
<1>3. CASE pc = "announce" /\ conn[pos] = c
  <2>1. pos \in FDs /\ \A fd \in FDs : conn[fd] = c => fd = pos
    BY <1>3, NoneAssumption
       DEF AnnouncedInv, MembershipInv, TableInv, WaitingInv,
           RegistryConsistent, OpenFds
  <2>2. QED
    BY <1>3, <2>1 DEF Known
<1>4. QED
  BY <1>1, <1>2, <1>3 DEF Promised, InTime

LEMMA InitAnnounced == Init => AnnouncedInv
<1> SUFFICES ASSUME Init PROVE FirstWordInv
  BY InitMembership DEF AnnouncedInv
<1>1. \A c \in Clients : up[c] = <<>> /\ cstate[c] = "idle"
  BY DEF Init, SocketInit
<1>2. QED
  BY <1>1 DEF FirstWordInv

LEMMA AnnouncedStep == AnnouncedInv /\ [Next]_vars => AnnouncedInv'
<1> SUFFICES ASSUME AnnouncedInv, [Next]_vars
             PROVE  FirstWordInv'
  BY MembershipStep DEF AnnouncedInv
<1>0. MembershipInv /\ FirstWordInv
  BY DEF AnnouncedInv
<1>1. CASE UNCHANGED vars
  BY <1>0, <1>1 DEF vars, sockVars, masterVars, clientVars, FirstWordInv,
                    Untold
<1>2. ASSUME NEW c \in Clients, ClientStep(c) PROVE FirstWordInv'
  BY <1>0, <1>2, ClientKeepsFirstWord
<1>3. CASE Master \/ (ProcessExit /\ UNCHANGED clientVars)
  BY <1>0, <1>3, MasterKeepsFirstWord
<1>4. QED
  BY <1>1, <1>2, <1>3 DEF Next

LEMMA AnnouncedCorrect == Spec => []AnnouncedInv
BY InitAnnounced, AnnouncedStep, PTL DEF Spec

(* A client whose announcement was there when AddClient() read from its    *)
(* connection is known by its type as long as that lives, whatever the     *)
(* timeouts of the others.                                                 *)
THEOREM PromptKnownCorrect == Spec => PromptKnown
<1> SUFFICES ASSUME NEW c \in Clients
             PROVE  Spec => [](InTime(c) => []Known(c))
  BY DEF PromptKnown
<1>1. InTime(c) => Promised(c)
  BY DEF Promised
<1>2. AnnouncedInv /\ Promised(c) /\ [Next]_vars => Promised(c)'
  BY PromiseKept
<1>3. AnnouncedInv /\ Promised(c) => Known(c)
  BY PromisedIsKnown
<1>4. QED
  BY <1>1, <1>2, <1>3, AnnouncedCorrect, PTL DEF Spec

(* A process that was forked is told to c if that is a GUI.                *)
LEMMA StartIsTold ==
  ASSUME AnnouncedInv, NEW c \in Clients, Promised(c), TypeOf[c] = DAQ,
         StartAcquisition, proc' # proc, link[c] = "open", ~hup[c]
  PROVE  Gets(c, Message("ACQUISITION_STARTED", 0))
<1>0. TypeOK /\ TableInv
  BY DEF AnnouncedInv, MembershipInv, TableInv
<1>1. pc = "scan"
  BY DEF StartAcquisition, Receives, Arrives
<1>2. PICK id \in FDs : conn[id] = c
  BY <1>0, <1>1 DEF TableInv, RegistryConsistent
<1>3. <<id, DAQ>> \in fSocketsConnected /\ id \in OfType(DAQ)
  BY <1>1, <1>2, PromisedIsKnown DEF Known, OfType
<1>4. \A fd \in OfType(DQM) : conn[fd] # c
  <2>1. SUFFICES ASSUME NEW fd \in FDs, <<fd, DQM>> \in fSocketsConnected,
                        conn[fd] = c
                 PROVE  FALSE
    BY DEF OfType
  <2>2. fd = id
    BY <1>0, <1>1, <1>2, <2>1, NoneAssumption
       DEF TableInv, RegistryConsistent, OpenFds
  <2>3. <<fd, DQM>>[1] = <<id, DAQ>>[1] /\ <<fd, DQM>> # <<id, DAQ>>
    BY <2>2 DEF DQM, DAQ
  <2>4. QED
    BY <1>0, <1>1, <1>3, <2>1, <2>3 DEF TableInv, RegistryConsistent
<1>5. PICK run : down' = SendAll(
                   SendAll(down, DAQ, Message("ACQUISITION_STARTED", 0)),
                   DQM, Message("RUN_NUMBER", run))
  BY DEF StartAcquisition
<1>6. down'[c] = Append(down[c], Message("ACQUISITION_STARTED", 0))
  BY <1>2, <1>3, <1>4, <1>5 DEF SendAll
<1>7. QED
  BY <1>6 DEF Gets

(* Every acquisition process that is forked is told to a GUI that          *)
(* announced itself in time, the one that asked for it included            *)
(* (START_ACQUISITION, scripts/RunControl.py).                             *)
THEOREM StartToldCorrect ==
  ASSUME NEW c \in Clients, TypeOf[c] = DAQ
  PROVE  Spec => [](InTime(c) => StartTold(c))
<1>1. InTime(c) => Promised(c)
  BY DEF Promised
<1>2. AnnouncedInv /\ Promised(c) /\ [Next]_vars => Promised(c)'
  BY PromiseKept
<1>3. AnnouncedInv /\ Promised(c) /\ [Next]_vars =>
        [StartAcquisition /\ proc' # proc /\ link[c] = "open" /\ ~hup[c] =>
           Gets(c, Message("ACQUISITION_STARTED", 0))]_vars
  BY StartIsTold
<1>4. QED
  BY <1>1, <1>2, <1>3, AnnouncedCorrect, PTL DEF Spec, StartTold

-----------------------------------------------------------------------------
(* Run numbers                                                             *)

(* A stream that tells runs 1 to n in increasing order, and a message that *)
(* may follow when n is the last run.                                      *)
IsRun(m) == m.key = "RUN_NUMBER" /\ m.val # -1

Ordered(s, n) ==
  \A i \in 1 .. Len(s) :
    IsRun(s[i]) =>
      /\ s[i].val \in 1 .. n
      /\ \A j \in i .. Len(s) : IsRun(s[j]) => s[i].val <= s[j].val

InOrder(ch, n) == \A c \in Clients : Ordered(ch[c], n)

Fresh(m, n) == IsRun(m) => m.val = n /\ n > 0

LEMMA OrderedAppend ==
  ASSUME NEW s \in Seq(Messages), NEW n \in Nat, Ordered(s, n),
         NEW m \in Messages, Fresh(m, n)
  PROVE  Ordered(Append(s, m), n)
<1> DEFINE t == Append(s, m)
<1>1. /\ Len(s) \in Nat /\ Len(t) = Len(s) + 1 /\ t[Len(s) + 1] = m
      /\ \A i \in 1 .. Len(s) : t[i] = s[i] /\ s[i].val \in Int
      /\ m.val \in Int
  BY MessageParts
<1> HIDE DEF t
<1>2. ASSUME NEW i \in 1 .. Len(t), IsRun(t[i])
      PROVE  /\ t[i].val \in 1 .. n
             /\ \A j \in i .. Len(t) : IsRun(t[j]) => t[i].val <= t[j].val
  <2>1. CASE i = Len(s) + 1
    BY <1>1, <1>2, <2>1 DEF Fresh
  <2>2. CASE i \in 1 .. Len(s)
    <3>1. t[i] = s[i] /\ s[i].val \in 1 .. n
      BY <1>1, <1>2, <2>2 DEF Ordered
    <3>2. ASSUME NEW j \in i .. Len(t), IsRun(t[j])
          PROVE  t[i].val <= t[j].val
      <4>1. CASE j = Len(s) + 1
        BY <1>1, <3>1, <3>2, <4>1 DEF Fresh
      <4>2. CASE j \in i .. Len(s)
        <5>1. j \in 1 .. Len(s) /\ t[j] = s[j]
          BY <1>1, <2>2, <4>2
        <5>2. QED
          BY <1>2, <2>2, <3>1, <3>2, <4>2, <5>1 DEF Ordered
      <4>3. QED
        BY <1>1, <4>1, <4>2
    <3>3. QED
      BY <3>1, <3>2
  <2>3. i = Len(s) + 1 \/ i \in 1 .. Len(s)
    BY <1>1
  <2>4. QED
    BY <2>1, <2>2, <2>3
<1>3. QED
  BY <1>2 DEF Ordered, t

LEMMA OrderedLater ==
  ASSUME NEW s \in Seq(Messages), NEW n \in Nat, NEW k \in Nat, n <= k,
         Ordered(s, n)
  PROVE  Ordered(s, k)
BY DEF Ordered

(* What is left after a read is a final part of the stream.                *)
LEMMA OrderedRest ==
  ASSUME NEW s \in Seq(Messages), NEW n \in Nat, Ordered(s, n),
         NEW r \in Reads(s)
  PROVE  Ordered(r.rest, n)
<1>1. PICK k \in 1 .. Len(s) : r.rest = SubSeq(s, k + 1, Len(s))
  BY DEF Reads
<1> DEFINE t == r.rest
<1>2. /\ Len(s) \in Nat /\ k \in Nat
      /\ Len(t) = Len(s) - k
      /\ \A i \in 1 .. Len(t) : t[i] = s[k + i]
  <2>1. \A i \in k + 1 .. Len(s) : s[i] \in Messages
    BY <1>1
  <2>2. QED
    BY <1>1, <2>1, SubSeqProperties
<1> HIDE DEF t
<1>3. ASSUME NEW i \in 1 .. Len(t), IsRun(t[i])
      PROVE  /\ t[i].val \in 1 .. n
             /\ \A j \in i .. Len(t) : IsRun(t[j]) => t[i].val <= t[j].val
  <2>1. k + i \in 1 .. Len(s) /\ t[i] = s[k + i]
    BY <1>2
  <2>2. ASSUME NEW j \in i .. Len(t)
        PROVE  k + j \in k + i .. Len(s) /\ t[j] = s[k + j]
    BY <1>2
  <2>3. QED
    BY <1>3, <2>1, <2>2 DEF Ordered
<1>4. QED
  BY <1>3 DEF Ordered, t

LEMMA OrderedEmpty == \A n : Ordered(<<>>, n)
<1>1. Len(<<>>) = 0
  OBVIOUS
<1>2. QED
  BY <1>1 DEF Ordered

(* Whatever the master sends, if it is fresh.                              *)
LEMMA AddedInOrder ==
  ASSUME NEW n \in Nat, NEW ch \in Streams, InOrder(ch, n),
         NEW m \in Messages, Fresh(m, n), NEW new,
         \A c \in Clients : new[c] = ch[c] \/ new[c] = Append(ch[c], m)
  PROVE  InOrder(new, n)
<1>1. ASSUME NEW c \in Clients
      PROVE  Ordered(new[c], n)
  <2>1. ch[c] \in Seq(Messages) /\ Ordered(ch[c], n)
    BY DEF Streams, InOrder
  <2>2. CASE new[c] = ch[c]
    BY <2>1, <2>2
  <2>3. CASE new[c] = Append(ch[c], m)
    BY <2>1, <2>3, OrderedAppend
  <2>4. QED
    BY <2>2, <2>3
<1>2. QED
  BY <1>1 DEF InOrder

LEMMA SendInOrder ==
  ASSUME NEW n \in Nat, NEW ch \in Streams, InOrder(ch, n),
         NEW m \in Messages, Fresh(m, n), NEW fd
  PROVE  InOrder(Send(ch, fd, m), n)
<1>1. \A c \in Clients :
        Send(ch, fd, m)[c] = ch[c] \/ Send(ch, fd, m)[c] = Append(ch[c], m)
  BY DEF Send, SendTo, Streams
<1>2. QED
  BY <1>1, AddedInOrder

LEMMA SendAllInOrder ==
  ASSUME NEW n \in Nat, NEW ch \in Streams, InOrder(ch, n),
         NEW m \in Messages, Fresh(m, n), NEW type
  PROVE  InOrder(SendAll(ch, type, m), n) /\ SendAll(ch, type, m) \in Streams
<1>1. \A c \in Clients :
        SendAll(ch, type, m)[c] = ch[c] \/ SendAll(ch, type, m)[c] = Append(ch[c], m)
  BY DEF SendAll
<1>2. QED
  BY <1>1, AddedInOrder, SendAllType

LEMMA FreshMessages ==
  ASSUME NEW n \in Nat
  PROVE  /\ \A k, v : k # "RUN_NUMBER" => Fresh(Message(k, v), n)
         /\ \A run \in LastRunRead : lastRun = n =>
              run \in Int /\ Fresh(Message("RUN_NUMBER", run), n)
         /\ n > 0 => Fresh(Message("RUN_NUMBER", n), n)
BY MessageFields DEF Fresh, IsRun, LastRunRead

LEMMA Unordered ==
  ASSUME TableInv
  PROVE  RunsInOrder <=> InOrder(down, lastRun)
<1>1. \A c \in Clients : DOMAIN down[c] = 1 .. Len(down[c])
  BY DEF TableInv, TypeOK, SocketTypeOK, Streams
<1>2. QED
  BY <1>1 DEF RunsInOrder, InOrder, Ordered, IsRun

OrderInv == TableInv /\ InOrder(down, lastRun)

LEMMA ProcessInOrder ==
  ASSUME OrderInv, Process
  PROVE  InOrder(down', lastRun')
<1> DEFINE n == lastRun
<1>0. down \in Streams /\ n \in Nat /\ InOrder(down, n) /\ TableInv
  BY DEF OrderInv, TableInv, TypeOK, SocketTypeOK, MessengerTypeOK
<1>1. CASE RemoveClient \/ Ignored
  BY <1>0, <1>1 DEF RemoveClient, Ignored
<1>2. CASE PingClient
  <2>1. PICK fd, id :
          \/ down' = Send(down, id, Message("PING_CLIENT", 0))
          \/ down' = Send(down, fd, Message("PING_ANSWER", 0))
    BY <1>2 DEF PingClient
  <2>2. lastRun' = n
    BY <1>2 DEF PingClient
  <2>3. QED
    BY <1>0, <2>1, <2>2, SendInOrder, FreshMessages, MessageType
<1>3. CASE ListClients
  <2>1. PICK v \in {DETECTOR, 0} :
          \E fd : down' = Send(down, fd, Message("CLIENTS_LIST", v))
    BY <1>3 DEF ListClients
  <2>2. lastRun' = n
    BY <1>3 DEF ListClients
  <2>3. QED
    BY <1>0, <2>1, <2>2, SendInOrder, FreshMessages, MessageType DEF DETECTOR
<1>4. CASE NewRun
  <2>1. lastRun' \in {n, n + 1} /\ (down' = down \/ (lastRun' = n + 1 /\ down' = TellRun(lastRun')))
    BY <1>4 DEF NewRun
  <2>2. PICK k : k = lastRun'
    OBVIOUS
  <2>3. k \in Nat /\ InOrder(down, k)
    BY <1>0, <2>1, <2>2, OrderedLater DEF InOrder, Streams
  <2>4. CASE down' = down
    BY <2>2, <2>3, <2>4
  <2>5. CASE lastRun' = n + 1 /\ down' = TellRun(k)
    <3>1. /\ Fresh(Message("RUN_NUMBER", k), k)
          /\ Message("RUN_NUMBER", k) \in Messages
      BY <1>0, <2>2, <2>3, <2>5, FreshMessages, MessageType
    <3>2. QED
      BY <1>0, <2>2, <2>3, <2>5, <3>1, SendAllInOrder DEF TellRun
  <2>6. QED
    BY <2>1, <2>2, <2>4, <2>5
<1>5. CASE GetRunNumber
  <2>1. PICK run \in LastRunRead :
          \E fd : down' = Send(down, fd, Message("RUN_NUMBER", run))
    BY <1>5 DEF GetRunNumber
  <2>2. lastRun' = n
    BY <1>5 DEF GetRunNumber
  <2>3. QED
    BY <1>0, <2>1, <2>2, SendInOrder, FreshMessages, MessageType
<1>6. CASE Forward
  <2>1. PICK fd \in NextFds : \E m \in Incoming(fd) :
          /\ Receives(fd, m)
          /\ \/ down' = SendAll(down, DQM, Message("NEW_FILENAME", m.val))
             \/ m.key # "RUN_NUMBER" /\ down' = SendAll(down, DAQ, m)
    BY <1>6 DEF Forward
  <2>2. PICK m \in Messages :
          \/ down' = SendAll(down, DQM, Message("NEW_FILENAME", m.val))
          \/ m.key # "RUN_NUMBER" /\ down' = SendAll(down, DAQ, m)
    BY <1>0, <2>1, ReceivesType
  <2>3. lastRun' = n
    BY <1>6 DEF Forward
  <2>4. CASE down' = SendAll(down, DQM, Message("NEW_FILENAME", m.val))
    BY <1>0, <2>3, <2>4, SendAllInOrder, FreshMessages, MessageType, MessageParts
  <2>5. CASE m.key # "RUN_NUMBER" /\ down' = SendAll(down, DAQ, m)
    BY <1>0, <2>3, <2>5, SendAllInOrder DEF Fresh, IsRun
  <2>6. QED
    BY <2>2, <2>4, <2>5
<1>7. CASE StartAcquisition
  <2>1. PICK run \in LastRunRead :
          \/ down' = SendAll(SendAll(down, DAQ, Message("ACQUISITION_STARTED", 0)),
                             DQM, Message("RUN_NUMBER", run))
          \/ down' = down
    BY <1>7 DEF StartAcquisition, LastRunRead
  <2>2. lastRun' = n
    BY <1>7 DEF StartAcquisition
  <2>3. /\ Message("ACQUISITION_STARTED", 0) \in Messages
        /\ Fresh(Message("ACQUISITION_STARTED", 0), n)
        /\ Message("RUN_NUMBER", run) \in Messages
        /\ Fresh(Message("RUN_NUMBER", run), n)
    BY <1>0, FreshMessages, MessageType
  <2>4. QED
    BY <1>0, <2>1, <2>2, <2>3, SendAllInOrder
<1>8. CASE StopAcquisition
  <2>1. \/ down' = SendAll(down, DAQ, Message("EXCEPTION", 0))
        \/ down' = SendAll(SendAll(down, DQM, Message("ACQUISITION_STOPPED", 0)),
                           DAQ, Message("EXCEPTION", 0))
    BY <1>8 DEF StopAcquisition
  <2>2. lastRun' = n
    BY <1>8 DEF StopAcquisition
  <2>3. /\ Message("ACQUISITION_STOPPED", 0) \in Messages
        /\ Fresh(Message("ACQUISITION_STOPPED", 0), n)
        /\ Message("EXCEPTION", 0) \in Messages
        /\ Fresh(Message("EXCEPTION", 0), n)
    BY <1>0, FreshMessages, MessageType
  <2>4. QED
    BY <1>0, <2>1, <2>2, <2>3, SendAllInOrder
<1>9. QED
  BY <1>1, <1>2, <1>3, <1>4, <1>5, <1>6, <1>7, <1>8 DEF Process

(* A client that reads, or ends.                                           *)
LEMMA ClientInOrder ==
  ASSUME OrderInv, NEW c \in Clients, ClientStep(c)
  PROVE  InOrder(down', lastRun')
<1>0. /\ down \in Streams /\ lastRun \in Nat /\ InOrder(down, lastRun)
      /\ lastRun' = lastRun
  BY DEF OrderInv, TableInv, TypeOK, SocketTypeOK, MessengerTypeOK, ClientStep,
         Connect, Announce, AwaitId, NoAnswer, Request, Receive, EndOfFile,
         Leave, Close, Crash, Exit, masterVars
<1>1. CASE down' = down
  BY <1>0, <1>1
<1>2. ASSUME NEW s, Ordered(s, lastRun), down' = [down EXCEPT ![c] = s]
      PROVE  InOrder(down', lastRun')
  BY <1>0, <1>2 DEF InOrder, Streams
<1>3. CASE \E r \in Reads(down[c]) : down' = [down EXCEPT ![c] = r.rest]
  <2>1. PICK r \in Reads(down[c]) : down' = [down EXCEPT ![c] = r.rest]
    BY <1>3
  <2>2. down[c] \in Seq(Messages) /\ Ordered(down[c], lastRun)
    BY <1>0 DEF Streams, InOrder
  <2>3. QED
    BY <1>0, <1>2, <2>1, <2>2, OrderedRest
<1>4. CASE Exit(c)
  BY <1>2, <1>4, OrderedEmpty DEF Exit
<1>5. QED
  BY <1>1, <1>3, <1>4
     DEF ClientStep, Connect, Announce, AwaitId, NoAnswer, Request, Receive,
         EndOfFile, Leave, Close, Crash, sockVars

LEMMA OrderInit == Init => OrderInv
<1> SUFFICES ASSUME Init PROVE InOrder(down, lastRun)
  BY InitTable DEF OrderInv
<1>1. QED
  BY OrderedEmpty DEF Init, SocketInit, InOrder

LEMMA OrderStep == OrderInv /\ [Next]_vars => OrderInv'
<1> SUFFICES ASSUME OrderInv, [Next]_vars PROVE InOrder(down', lastRun')
  BY TableStep DEF OrderInv
<1>0. /\ down \in Streams /\ lastRun \in Nat /\ InOrder(down, lastRun)
      /\ TableInv /\ TypeOK
  BY DEF OrderInv, TableInv, TypeOK, SocketTypeOK, MessengerTypeOK
<1>1. CASE UNCHANGED <<down, lastRun>>
  BY <1>0, <1>1
<1>2. CASE Process
  BY <1>2, ProcessInOrder
<1>3. CASE Announcement
  <2>1. /\ lastRun' = lastRun /\ pos \in Int
        /\ down' = SendTo(down, conn[pos], Message("SET_CLIENT_ID", pos))
    BY <1>0, <1>3, OpenIsClient DEF Announcement, GiveId, TableInv, WaitingInv
  <2>2. \A c \in Clients :
          down'[c] = down[c] \/ down'[c] = Append(down[c], Message("SET_CLIENT_ID", pos))
    BY <1>0, <2>1 DEF SendTo, Streams
  <2>3. Message("SET_CLIENT_ID", pos) \in Messages
        /\ Fresh(Message("SET_CLIENT_ID", pos), lastRun)
    BY <1>0, <2>1, MessageType, FreshMessages
  <2>4. QED
    BY <1>0, <2>1, <2>2, <2>3, AddedInOrder
<1>4. CASE PingRead
  <2>1. down' = down \/ down' = Send(down, pos, Message("PING_ANSWER", 0))
    BY <1>4 DEF PingRead
  <2>2. lastRun' = lastRun
    BY <1>4 DEF PingRead
  <2>3. QED
    BY <1>0, <2>1, <2>2, SendInOrder, FreshMessages, MessageType
<1>5. CASE Quit
  <2>1. \A c \in Clients :
          down'[c] = down[c] \/ down'[c] = Append(down[c], Message("MASTER_DISCONNECT", 0))
    BY <1>5 DEF Quit, Broadcast
  <2>2. lastRun' = lastRun
    BY <1>5 DEF Quit
  <2>3. QED
    BY <1>0, <2>1, <2>2, AddedInOrder, FreshMessages, MessageType, SMTT(40)
<1>6. ASSUME NEW c \in Clients, ClientStep(c) PROVE InOrder(down', lastRun')
  BY <1>6, ClientInOrder
<1>7. CASE Select \/ EndOfScan \/ Accept \/ AcceptFails \/ AnnouncementLost
           \/ ClientGone \/ PingTargetGone \/ ProcessExit \/ UNCHANGED vars
  BY <1>1, <1>7 DEF Select, EndOfScan, Accept, AcceptFails, AnnouncementLost,
                    ClientGone, PingTargetGone, ProcessExit, vars, sockVars,
                    masterVars
<1>8. QED
  BY <1>2, <1>3, <1>4, <1>5, <1>6, <1>7 DEF Next, Master, MasterLoop

(* Run numbers reach every client in increasing order, and none is ahead   *)
(* of the database.                                                        *)
THEOREM RunsToldInOrder == Spec => []RunsInOrder
<1>1. OrderInv => RunsInOrder
  BY Unordered DEF OrderInv
<1>2. QED
  BY OrderInit, OrderStep, <1>1, PTL DEF Spec

-----------------------------------------------------------------------------
(* What select() reported.  Handling a request reads the stream it came    *)
(* from and no other; only a ping reads from somebody else.                *)

(* What may have become of a socket that the loop has yet to visit.        *)
StillToRead(fd) ==
  \/ Readable(fd)'
  \/ pc = "ping" /\ fd = toping
  \/ fd \in Remaining /\ ~Readable(fd)

(* The loop reads one socket, and goes on to the others.                   *)
LEMMA OthersStillReadable ==
  ASSUME TableInv, pc = "scan", NEW fd \in FDs, IsNext(fd),
         NEW r \in Fetch(conn[fd]), up' = [up EXCEPT ![conn[fd]] = r.rest],
         pos' = fd,
         UNCHANGED <<fReadFds, fSocketsConnected, conn, hup, backlog>>
  PROVE  \A other \in Remaining' : StillToRead(other)
<1>0. TypeOK
  BY DEF TableInv
<1>1. fd \in OpenFds /\ conn[fd] \in Clients /\ fd > pos /\ fd \in Int /\ pos \in Int
  <2>1. fd \in OpenFds /\ fd > pos
    BY NextIsOpen DEF IsNext, Remaining
  <2>2. conn[fd] \in Clients
    BY <1>0, <2>1, OpenIsClient
  <2>3. pos \in Int /\ fd \in Int
    BY <1>0, FDsAssumption DEF TypeOK, MessengerTypeOK, AllFds
  <2>4. QED
    BY <2>1, <2>2, <2>3
<1>2. ASSUME NEW other \in Remaining', Readable(other)
      PROVE  Readable(other)'
  <2>1. other \in RegisteredFds \cap fReadFds /\ other > fd
    BY <1>2 DEF Remaining, RegisteredFds
  <2>2. other \in AllFds /\ other \in Int
    <3>1. other \in OpenFds \cup {ListenFd}
      BY <2>1 DEF TableInv, RegistryConsistent
    <3>2. QED
      BY <3>1, FDsAssumption DEF OpenFds, AllFds
  <2>3. other # fd
    BY <1>1, <2>1, <2>2
  <2>4. CASE other = ListenFd /\ backlog # <<>>
    BY <2>4 DEF Readable
  <2>5. CASE other \in OpenFds /\ (up[conn[other]] # <<>> \/ hup[conn[other]])
    <3>1. conn[other] # conn[fd] /\ conn[other] \in Clients
      BY <1>0, <1>1, <2>3, <2>5, OpenIsClient DEF TableInv, RegistryConsistent
    <3>2. up'[conn[other]] = up[conn[other]]
      BY <1>0, <1>1, <3>1 DEF TypeOK, SocketTypeOK, Streams
    <3>3. QED
      BY <2>5, <3>2 DEF Readable, OpenFds
  <2>6. QED
    BY <1>2, <2>4, <2>5 DEF Readable
<1>3. ASSUME NEW other \in Remaining' PROVE other \in Remaining
  <2>1. other \in RegisteredFds \cap fReadFds /\ other > fd
    BY <1>3 DEF Remaining, RegisteredFds
  <2>2. other \in Int
    <3>1. other \in OpenFds \cup {ListenFd}
      BY <2>1 DEF TableInv, RegistryConsistent
    <3>2. QED
      BY <3>1, FDsAssumption DEF OpenFds
  <2>3. QED
    BY <1>1, <2>1, <2>2 DEF Remaining
<1>4. QED
  BY <1>2, <1>3 DEF StillToRead

LEMMA ProcessStillReadable ==
  ASSUME TableInv, Process, pc' \in {"scan", "ping"}
  PROVE  \A other \in Remaining' : StillToRead(other)
<1>1. CASE RemoveClient
  <2>1. PICK fd \in NextFds : \E m \in Incoming(fd) :
          /\ Arrives(fd, m) /\ m.val = ListenFd
          /\ \E unread \in Unread(fd, m) : up' = Discard(unread, m.val)
          /\ pos' = fd /\ UNCHANGED <<conn, fSocketsConnected, fReadFds>>
    BY <1>1 DEF RemoveClient, Return
  <2>2. PICK m \in Incoming(fd) :
          /\ Arrives(fd, m) /\ m.val = ListenFd
          /\ \E unread \in Unread(fd, m) : up' = Discard(unread, m.val)
    BY <2>1
  <2>3. ListenFd \notin OpenFds
    BY FDsAssumption DEF OpenFds
  <2>4. up' \in Unread(fd, m)
    BY <2>2, <2>3 DEF Discard
  <2>5. PICK r \in Fetch(conn[fd]) : up' = [up EXCEPT ![conn[fd]] = r.rest]
    BY <2>4 DEF Unread
  <2>6. UNCHANGED <<hup, backlog>> /\ pc = "scan" /\ fd \in FDs /\ IsNext(fd)
    BY <1>1, <2>2 DEF RemoveClient, Arrives
  <2>7. QED
    BY <2>1, <2>5, <2>6, OthersStillReadable
<1>2. CASE ~RemoveClient
  <2>1. /\ \E fd \in NextFds : \E m \in Incoming(fd) : Receives(fd, m)
        /\ UNCHANGED <<fSocketsConnected, conn, hup, backlog>>
    BY <1>2 DEF Process, PingClient, ListClients, NewRun, GetRunNumber,
                Forward, Ignored, StartAcquisition, StopAcquisition
  <2>2. PICK fd \in NextFds : \E m \in Incoming(fd) : Receives(fd, m)
    BY <2>1
  <2>3. PICK r \in Fetch(conn[fd]) : up' = [up EXCEPT ![conn[fd]] = r.rest]
    BY <2>2 DEF Receives, Unread
  <2>4. /\ pc = "scan" /\ fd \in FDs /\ IsNext(fd) /\ pos' = fd
        /\ UNCHANGED fReadFds
    BY <2>2 DEF Receives, Arrives
  <2>5. QED
    BY <2>1, <2>3, <2>4, OthersStillReadable
<1>3. QED
  BY <1>1, <1>2

(* A ping reads from its target only.                                      *)
LEMMA PingStillReadable ==
  ASSUME TableInv, PingRead, NEW fd \in Remaining'
  PROVE  StillToRead(fd)
<1>0. TypeOK /\ pc = "ping" /\ pc # "dead"
  BY DEF TableInv, PingRead
<1>1. UNCHANGED <<conn, hup, backlog, fSocketsConnected, fReadFds, pos>>
  BY DEF PingRead
<1>2. PICK r \in Fetch(conn[toping]) : up' = [up EXCEPT ![conn[toping]] = r.rest]
  BY DEF PingRead
<1>3. toping \in OpenFds /\ conn[toping] \in Clients
  BY <1>0, OpenIsClient DEF TableInv, WaitingInv
<1>4. fd \in Remaining
  BY <1>1 DEF Remaining, RegisteredFds
<1>5. CASE fd # toping /\ Readable(fd)
  <2>1. CASE fd = ListenFd /\ backlog # <<>>
    BY <1>1, <2>1 DEF Readable, StillToRead
  <2>2. CASE fd \in OpenFds /\ (up[conn[fd]] # <<>> \/ hup[conn[fd]])
    <3>1. conn[fd] # conn[toping] /\ conn[fd] \in Clients
      BY <1>0, <1>3, <1>5, <2>2, OpenIsClient DEF TableInv, RegistryConsistent
    <3>2. up'[conn[fd]] = up[conn[fd]]
      BY <1>0, <1>2, <1>3, <3>1 DEF TypeOK, SocketTypeOK, Streams
    <3>3. QED
      BY <1>1, <2>2, <3>2 DEF Readable, OpenFds, StillToRead
  <2>3. QED
    BY <1>5, <2>1, <2>2 DEF Readable
<1>6. QED
  BY <1>0, <1>4, <1>5 DEF StillToRead

LEMMA ClientStillReadable ==
  ASSUME TableInv, NEW c \in Clients, ClientStep(c), NEW fd \in Remaining'
  PROVE  StillToRead(fd)
<1>0. TypeOK
  BY DEF TableInv
<1>1. UNCHANGED <<conn, masterVars>>
  BY DEF ClientStep, Connect, Announce, AwaitId, NoAnswer, Request,
         Receive, EndOfFile, Leave, Close, Crash, Exit, sockVars
<1>2. \A d \in Clients : hup[d] => hup'[d]
  BY <1>0 DEF ClientStep, Connect, Announce, AwaitId, NoAnswer, Request,
         Receive, EndOfFile, Leave, Close, Crash, Exit, sockVars, TypeOK,
         SocketTypeOK
<1>3. backlog # <<>> => backlog' # <<>>
  <2>1. backlog \in Seq(Clients)
    BY <1>0 DEF TypeOK, SocketTypeOK
  <2>2. backlog' = backlog \/ backlog' = Append(backlog, c)
    BY DEF ClientStep, Connect, Announce, AwaitId, NoAnswer, Request,
         Receive, EndOfFile, Leave, Close, Crash, Exit, sockVars
  <2>3. QED
    BY <2>1, <2>2
<1>4. \A d \in Clients : up[d] # <<>> => up'[d] # <<>>
  <2>1. PICK m : SendUp(c, m) \/ up' = up
    BY DEF ClientStep, Connect, Announce, AwaitId, NoAnswer, Request,
         Receive, EndOfFile, Leave, Close, Crash, sockVars
  <2>2. \A d \in Clients : up[d] \in Seq(Messages) /\
                           (up'[d] = up[d] \/ up'[d] = Append(up[d], m))
    BY <1>0, <2>1 DEF SendUp, TypeOK, SocketTypeOK, Streams
  <2>3. QED
    BY <2>2
<1>5. ASSUME Readable(fd) PROVE Readable(fd)'
  <2>1. fd \in OpenFds => conn[fd] \in Clients
    BY <1>0, OpenIsClient
  <2>2. QED
    BY <1>1, <1>2, <1>3, <1>4, <1>5, <2>1 DEF Readable, OpenFds
<1>6. fd \in Remaining
  BY <1>1 DEF Remaining, RegisteredFds, masterVars
<1>7. QED
  BY <1>5, <1>6 DEF StillToRead

LEMMA ScanStep ==
  ASSUME TableInv, [Next]_vars, pc' \in {"scan", "ping"}, NEW fd \in Remaining'
  PROVE  StillToRead(fd)
<1>1. CASE \/ UNCHANGED vars \/ ProcessExit
           \/ PingTargetGone
  <2>1. UNCHANGED <<pos, fReadFds, fSocketsConnected, conn, up, hup, backlog>>
    BY <1>1 DEF vars, sockVars, masterVars, ProcessExit, PingTargetGone,
                EndOfPing
  <2>2. fd \in Remaining /\ (Readable(fd) => Readable(fd)')
    BY <2>1 DEF Remaining, RegisteredFds, Readable, OpenFds
  <2>3. QED
    BY <2>2 DEF StillToRead
<1>2. ASSUME NEW c \in Clients, ClientStep(c) PROVE StillToRead(fd)
  BY <1>2, ClientStillReadable
<1>3. CASE Process
  BY <1>3, ProcessStillReadable
<1>4. CASE Select
  <2>1. fReadFds' = Found
        /\ UNCHANGED <<fSocketsConnected, conn, up, hup, backlog>>
    BY <1>4 DEF Select, sockVars
  <2>2. Readable(fd)'
    BY <2>1 DEF Remaining, RegisteredFds, Found, Readable, OpenFds
  <2>3. QED
    BY <2>2 DEF StillToRead
<1>5. CASE PingRead
  BY <1>5, PingStillReadable
<1>6. ~(EndOfScan \/ Accept \/ AcceptFails \/ Announcement
           \/ AnnouncementLost \/ ClientGone \/ Quit)
  BY DEF EndOfScan, Accept, AcceptFails, Announcement,
         AnnouncementLost, ClientGone, Quit, Return
<1>7. QED
  BY <1>1, <1>2, <1>3, <1>4, <1>5, <1>6 DEF Next, Master, MasterLoop

(* Whatever is asked for and whoever is pinged, the loop waits only for a  *)
(* client that a ping of the same loop has read from.                      *)
THEOREM DrainedByPingCorrect == Spec => DrainedByPing
<1>1. TableInv /\ [Next]_vars =>
        [\A fd \in AllFds :
           pc' \in {"scan", "ping"} /\ fd \in Remaining' =>
             \/ Readable(fd)'
             \/ pc = "ping" /\ fd = toping
             \/ fd \in Remaining /\ ~Readable(fd)]_vars
  BY ScanStep DEF StillToRead
<1>2. QED
  BY <1>1, InitTable, TableStep, PTL DEF Spec, DrainedByPing
=============================================================================
