----------------------------- MODULE Monitoring ------------------------------
(***************************************************************************)
(* A data-quality monitor of one type of detector (include/DQMProcess.h),  *)
(* with what it looks at: the messages of the master about runs and files, *)
(* and the table of conditions that ppsFetch fills while they travel.      *)
(***************************************************************************)
EXTENDS Wire, SequencesExt, FiniteSets

CONSTANTS
  fDetectorType,  \* the detectors that the monitor draws
  Setups,         \* configurations: sequences of boards and their detectors
  MaxRuns,        \* bound on the acquisitions
  MaxBursts,      \* bound on the bursts of one of them
  MaxUnread,      \* bound on the messages that wait for the monitor
  MayFail         \* whether an access to the database may fail (a lock)

Acquisitions == 1 .. MaxRuns
Board(address, detector) == [address |-> address, detector |-> detector]

ASSUME MonitoringAssumption ==
  /\ MaxRuns \in Nat \ {0} /\ MaxBursts \in Nat /\ MaxUnread \in Nat
  /\ MayFail \in BOOLEAN
  /\ \A s \in Setups : s # <<>> /\ \A i \in DOMAIN s : s[i].address \in Nat

VARIABLES
  lastRun,      \* database: the greatest id in the table of runs
  rows,         \* database: the table of TDC conditions
  acquisitions, \* what each acquisition process is at
  up,           \* what it sent, not yet read by the master
  asked,        \* the monitor's GET_RUN_NUMBER, not yet read
  down,         \* what the master sent to the monitor, not yet read
  monitor,      \* where the monitor is, and its variables
  drawn         \* files it drew: the run it knew of, the acquisition, the board

dbVars == <<lastRun, rows>>
monitorVars == <<monitor, drawn>>
vars == <<dbVars, acquisitions, up, asked, down, monitorVars>>

(* The value of a message is a run, or the board whose file is complete.   *)
About(run, address, acq) == [run |-> run, address |-> address, acq |-> acq]
RunNumber(run) == Message("RUN_NUMBER", About(run, 0, 0))
Other(key) == Message(key, About(0, 0, 0))
File(key, acq, address) == Message(key, About(0, address, acq))

(* GetIntValue() is atoi(): of "address:filename", the address.            *)
IntValue(m) ==
  CASE m.key = "RUN_NUMBER" -> m.val.run
    [] m.key = "NEW_FILENAME" -> m.val.address
    [] OTHER -> 0

Tells(m) ==
  IF monitor.state = "off" THEN UNCHANGED down
  ELSE Len(down) < MaxUnread /\ down' = Append(down, m)

(* GetLastRun(), -1 for its exceptions.                                    *)
LastRunRead ==
  (IF lastRun > 0 THEN {lastRun} ELSE {-1}) \cup (IF MayFail THEN {-1} ELSE {})
-----------------------------------------------------------------------------
(* The acquisition process.  It waits for the answer to GET_RUN_NUMBER, so *)
(* the master has read its first messages when it configures its boards.   *)
Ready(n) == \A i \in DOMAIN up[n] : up[n][i].key # "NEW_RUN"
Idle == [step |-> "idle", setup |-> <<>>, ntdc |-> 0, sent |-> 0, bursts |-> 0]
Moves(n, changes) == acquisitions' = [acquisitions EXCEPT ![n] = changes]
Sends(n, messages) == up' = [up EXCEPT ![n] = @ \o messages]

(* START_ACQUISITION: the master forks, and tells the monitors the last    *)
(* run there is, the one before.                                           *)
StartAcquisition(n) ==
  /\ acquisitions[n].step = "idle"
  /\ \A q \in 1 .. n - 1 : acquisitions[q].step = "over"
  /\ \E setup \in Setups : Moves(n, [Idle EXCEPT !.step = "configure", !.setup = setup])
  /\ Sends(n, <<Other("NEW_RUN"), Other("GET_RUN_NUMBER")>>)
  /\ \E run \in LastRunRead : Tells(RunNumber(run))
  /\ UNCHANGED <<dbVars, asked, monitorVars>>

(* ReadXML() records the conditions of a board when it has configured it;  *)
(* when that fails the other boards are left out.                          *)
ConfigureTDC(n) ==
  LET a == acquisitions[n]
      id == a.ntdc + 1
      last == id = Len(a.setup)
  IN /\ a.step = "configure"
     /\ Ready(n)
     /\ \/ /\ lastRun > 0
           /\ rows' = Append(rows, [run |-> lastRun, id |-> id, board |-> a.setup[id]])
           /\ Moves(n, [a EXCEPT !.ntdc = id, !.step = IF last THEN "readout" ELSE @])
        \/ /\ MayFail \/ lastRun = 0
           /\ UNCHANGED rows
           /\ Moves(n, [a EXCEPT !.ntdc = id, !.step = "readout"])
     /\ Sends(n, <<Other("EXCEPTION")>>)
     /\ UNCHANGED <<lastRun, asked, down, monitorVars>>

(* SendOutputFile() of the next board of a burst.                          *)
SendOutputFile(n) ==
  LET a == acquisitions[n]
      last == a.sent + 1 = a.ntdc
  IN /\ a.step = "readout"
     /\ a.bursts < MaxBursts
     /\ Moves(n, [a EXCEPT !.sent = IF last THEN 0 ELSE @ + 1,
                           !.bursts = IF last THEN @ + 1 ELSE @])
     /\ Sends(n, <<File("SET_NEW_FILENAME", n, a.setup[a.sent + 1].address)>>)
     /\ UNCHANGED <<dbVars, asked, down, monitorVars>>

(* STOP_ACQUISITION; or the process ends by itself.                        *)
Stop(n) ==
  /\ acquisitions[n].step \in {"configure", "readout"}
  /\ Moves(n, [acquisitions[n] EXCEPT !.step = "over"])
  /\ \/ Tells(Other("ACQUISITION_STOPPED"))
     \/ UNCHANGED down
  /\ UNCHANGED <<dbVars, up, asked, monitorVars>>
-----------------------------------------------------------------------------
(* The master handles the first of the messages that it reads at once.     *)
Handles(n, key, m) ==
  \E r \in Reads(up[n]) :
    /\ r.msg.key = key
    /\ up' = [up EXCEPT ![n] = r.rest]
    /\ m = r.msg

(* The monitors hear of a run before anything is known of it.              *)
HandleNewRun(n) ==
  /\ up[n] # <<>>
  /\ Handles(n, "NEW_RUN", Head(up[n]))
  /\ \/ lastRun' = lastRun + 1 /\ Tells(RunNumber(lastRun'))
     \/ MayFail /\ lastRun' \in {lastRun, lastRun + 1} /\ UNCHANGED down
  /\ UNCHANGED <<rows, acquisitions, asked, monitorVars>>

HandleFilename(n) ==
  /\ up[n] # <<>>
  /\ Handles(n, "SET_NEW_FILENAME", Head(up[n]))
  /\ Tells([Head(up[n]) EXCEPT !.key = "NEW_FILENAME"])
  /\ UNCHANGED <<dbVars, acquisitions, asked, monitorVars>>

HandleOther(n) ==
  /\ up[n] # <<>>
  /\ \E key \in {"EXCEPTION", "GET_RUN_NUMBER"} : Handles(n, key, Head(up[n]))
  /\ UNCHANGED <<dbVars, acquisitions, asked, down, monitorVars>>

GetRunNumber ==
  /\ asked
  /\ asked' = FALSE
  /\ \E run \in LastRunRead : Tells(RunNumber(run))
  /\ UNCHANGED <<dbVars, acquisitions, up, monitorVars>>
-----------------------------------------------------------------------------
(* GetTDCConditions() throws when there are none, when an identifier has   *)
(* more than one row, and when the database is locked.                     *)
RowsOf(run) == {i \in DOMAIN rows : rows[i].run = run}
HasConditions(run) ==
  /\ RowsOf(run) # {}
  /\ \A i, j \in RowsOf(run) : rows[i].id = rows[j].id => i = j
OfDetector(run) ==
  {rows[i].board.address : i \in {i \in RowsOf(run) : rows[i].board.detector = fDetectorType}}

Conditions(run) == {OfDetector(n) : n \in {n \in {run} : HasConditions(n)}}
OrElse(found, others) == found \cup (IF found = {} \/ MayFail THEN others ELSE {})

(* Mutant: the addresses of the last run are kept.                         *)
IsInRun_Keep(run) ==
  {monitor.addresses \cup found :
     found \in OrElse(Conditions(run), OrElse(Conditions(run - 1), {{}}))}

(* IsInRun(): the addresses to process, from the conditions of the run or  *)
(* else of the run before; none if both fail.                              *)
IsInRun(run) == OrElse(Conditions(run), OrElse(Conditions(run - 1), {{}}))

(* The constructor: it waits for an answer for two reads, and takes what   *)
(* the last of them gives for a run number.                                *)
Connect ==
  /\ monitor.state = "off"
  /\ monitor' = [monitor EXCEPT !.state = "ask"]
  /\ asked' = TRUE
  /\ UNCHANGED <<dbVars, acquisitions, up, down, drawn>>

Fetch ==
  IF down # <<>> THEN Reads(down) ELSE {[msg |-> Other("INVALID_KEY"), rest |-> <<>>]}

NewRunNumber(run) ==
  \E found \in IsInRun(run) :
    monitor' = [monitor EXCEPT !.state = "listen", !.fRunNumber = run, !.addresses = found]

AwaitRunNumber ==
  /\ monitor.state = "ask"
  /\ \E r \in Fetch :
       /\ down' = r.rest
       /\ IF r.msg.key = "RUN_NUMBER" \/ monitor.tries = 1 THEN NewRunNumber(IntValue(r.msg))
          ELSE monitor' = [monitor EXCEPT !.tries = @ + 1]
  /\ UNCHANGED <<dbVars, acquisitions, up, asked, drawn>>

(* Run() and ParseMessage(): a new run, or a file of a board to process,   *)
(* which the monitor draws or fails to; other messages are ignored.        *)
ParseMessage ==
  /\ monitor.state = "listen"
  /\ \E r \in Reads(down) :
       /\ down' = r.rest
       /\ \/ r.msg.key = "RUN_NUMBER" /\ NewRunNumber(IntValue(r.msg)) /\ UNCHANGED drawn
          \/ /\ r.msg.key = "NEW_FILENAME"
             /\ r.msg.val.address \in monitor.addresses
             /\ drawn' = drawn \cup {[run |-> monitor.fRunNumber, acq |-> r.msg.val.acq,
                                    address |-> r.msg.val.address]}
             /\ UNCHANGED monitor
          \/ r.msg.key # "RUN_NUMBER" /\ UNCHANGED monitorVars
  /\ UNCHANGED <<dbVars, acquisitions, up, asked>>
-----------------------------------------------------------------------------
Init ==
  /\ lastRun = 0 /\ rows = <<>>
  /\ acquisitions = [n \in Acquisitions |-> Idle]
  /\ up = [n \in Acquisitions |-> <<>>]
  /\ asked = FALSE
  /\ down = <<>>
  /\ monitor = [state |-> "off", tries |-> 0, fRunNumber |-> 0, addresses |-> {}]
  /\ drawn = {}

Acquisition(n) == StartAcquisition(n) \/ ConfigureTDC(n) \/ SendOutputFile(n) \/ Stop(n)
Master(n) == HandleNewRun(n) \/ HandleFilename(n) \/ HandleOther(n)
Monitor == Connect \/ AwaitRunNumber \/ ParseMessage
Next == (\E n \in Acquisitions : Acquisition(n) \/ Master(n)) \/ GetRunNumber \/ Monitor
Spec == Init /\ [][Next]_vars
-----------------------------------------------------------------------------
(***************************************************************************)
(* The boards that a monitor processes are of one run, the one it was told *)
(* of last or the run before, however its messages were lost or late, runs *)
(* were opened and conditions were recorded meanwhile (IsInRun()).         *)
(***************************************************************************)
AddressesOfOneRun ==
  \E n \in {monitor.fRunNumber, monitor.fRunNumber - 1} : monitor.addresses \subseteq OfDetector(n)

(***************************************************************************)
(* include/DQMProcess.h:133 says of the boards that are kept: "Detectors   *)
(* of type ... are present in the run!"  Then of the files of this run     *)
(* none is drawn whose board has another detector.                         *)
(***************************************************************************)
DrawnAsConfigured ==
  \A d \in drawn :
    d.acq = d.run => Board(d.address, fDetectorType) \in ToSet(acquisitions[d.acq].setup)
=============================================================================
