------------------------------ MODULE MCClient ------------------------------
(* Instances of Client for TLC.                                            *)
EXTENDS Client, TLC

CONSTANTS
  tty,    \* listener, a plain client
  fetch,  \* ppsFetch, the acquisition process
  dqm,    \* one of the DQM processes
  gui,    \* RunControl.py
  web     \* the web display

MCTypeOf ==
  [c \in Clients |->
     CASE c = tty -> CLIENT [] c = fetch -> DETECTOR [] c = dqm -> DQM
       [] c = gui -> DAQ [] c = web -> WEBSOCKET_CLIENT]

Keys(keys) == {Message(k, 0) : k \in keys}

Pings == {Message("PING_CLIENT", fd) : fd \in FDs}

(* All that the programs send, with the pings and the removal of the       *)
(* master that the protocol has for an operator at a terminal.             *)
AllRequests ==
  [c \in Clients |->
     CASE c = tty -> Keys({"GET_CLIENTS"}) \cup Pings
                       \cup {Message("REMOVE_CLIENT", ListenFd)}
       [] c = fetch -> Keys({"NEW_RUN", "GET_RUN_NUMBER", "EXCEPTION",
                             "SET_NEW_FILENAME", "NUM_TRIGGERS", "HV_STATUS"})
       [] c = dqm -> Keys({"GET_RUN_NUMBER", "NEW_DQM_PLOT", "EXCEPTION"})
       [] c = gui -> Keys({"GET_RUN_NUMBER", "GET_CLIENTS",
                           "START_ACQUISITION", "STOP_ACQUISITION"})
       [] c = web -> Keys({"WEB_GET_CLIENTS"})]

(* An operator at a terminal pings anybody.                                *)
PingRequests == [c \in Clients |-> IF c = tty THEN Pings ELSE {}]

(* ppsFetch opens runs and tells everybody of its files and triggers, the  *)
(* GUI asks for runs and for acquisitions.                                 *)
GuiRequests ==
  [c \in Clients |->
     CASE c = gui -> Keys({"GET_RUN_NUMBER", "START_ACQUISITION",
                           "STOP_ACQUISITION"})
       [] c = fetch -> Keys({"NEW_RUN", "SET_NEW_FILENAME", "NUM_TRIGGERS"})
       [] OTHER -> {}]

AcquisitionRequests ==
  [c \in Clients |->
     IF c = gui THEN Keys({"START_ACQUISITION", "STOP_ACQUISITION"}) ELSE {}]

(* Quotas                                                                  *)
One == [c \in Clients |-> 1]
Two == [c \in Clients |-> 2]
TerminalOnly == [c \in Clients |-> IF c = tty THEN 1 ELSE 0]
=============================================================================
