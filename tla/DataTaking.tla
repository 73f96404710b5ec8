----------------------------- MODULE DataTaking -----------------------------
(***************************************************************************)
(* The acquisition process ppsFetch (fetch_vme.cpp, src/VMEReader.cpp),    *)
(* from its start to its end, with the online database it shares with the  *)
(* master (include/OnlineDBHandler.h).  Of the master there is what it     *)
(* does with the messages of this process; its other clients are not here. *)
(* Several exception lines sent in a row are one message.                  *)
(***************************************************************************)
EXTENDS Wire, FiniteSets

CONSTANTS
  Processes,   \* acquisition processes that are ever started
  NumTDC,      \* number of TDC boards in the configuration file
  MaxBursts,   \* bound on the number of bursts of a process
  MaxSignals,  \* bound on the number of SIGINT a process gets
  Faults,      \* what may go wrong around the processes, see below
  NoFile       \* the value of the messages that are not about a file

(* "slow": the master may find several messages in one read, and answer    *)
(*   after the 10 seconds its client waits for it;                         *)
(* "pings": it pings the process, and reads what that has sent meanwhile;  *)
(* "locked": an access to the database may fail;                           *)
(* "boards": an access to a board may fail in the configuration;           *)
(* "overlap": a process may start while another runs (a second start).     *)
FaultKinds == {"slow", "pings", "locked", "boards", "overlap"}

ASSUME DataTakingAssumption ==
  /\ NumTDC \in Nat \ {0}
  /\ MaxBursts \in Nat \ {0}
  /\ MaxSignals \in Nat
  /\ Faults \subseteq FaultKinds

Boards == 1 .. NumTDC

MAX_SOCKET_ATTEMPTS == 2

VARIABLES
  lastRun,     \* database: the greatest id in the table of runs, 0 if empty
  rows,        \* database: table of bursts, pairs <<run_id, burst_id>>
  conditions,  \* database: pairs <<run_id, tdc_id>> of the TDC conditions
  up,          \* messages sent by each process, not yet read by the master
  down,        \* messages sent to each process, not yet read
  told,        \* files the master has told the monitors of
  files,       \* files created so far
  step,        \* where each process is in main()
  tries,       \* number of reads of its SendAndReceive() so far
  mem,         \* its variables
  out,         \* boards whose out_file is open
  gEnd,        \* number of signals it counted
  aborted      \* boards whose TDCV1x90::abort() was called

dbVars == <<lastRun, rows, conditions>>
masterVars == <<up, down, told>>
signalVars == <<gEnd, aborted>>
vars == <<dbVars, masterVars, files, step, tries, mem, out, signalVars>>

Waiting == {"ask new run", "ask copy", "ask header", "ask burst"}
Steps ==
  {"idle", "configure", "last run", "last burst", "insert", "open", "readout",
   "close", "stop", "done", "dead"} \cup Waiting

(* ntdc: size of fTDCCollection; run, spill: fields of the file header fh; *)
(* current_run, last_burst: locals of NewBurst(); retried: is it the       *)
(* second attempt; fOutputFiles: current file of each board; i: boards     *)
(* done in the loop that closes or announces.  The others are history: row *)
(* is the line of rows inserted last, bursts the number of bursts begun.   *)
Memory0 ==
  [ntdc |-> 0, run |-> 0, spill |-> 0, current_run |-> 0, last_burst |-> 0,
   retried |-> FALSE, fOutputFiles |-> <<>>, i |-> 0, row |-> 0, bursts |-> 0]

(* A file is known by who opened it, when, and for which board; the rest   *)
(* is its header, and the line of rows it belongs to.                      *)
File(p, board) ==
  [proc |-> p, nth |-> mem[p].bursts, board |-> board,
   run |-> mem[p].run, spill |-> mem[p].spill, row |-> mem[p].row]

FileOK(f) ==
  /\ f.proc \in Processes /\ f.nth \in 1 .. MaxBursts /\ f.board \in Boards
  /\ f.run \in Int /\ f.spill \in Int /\ f.row \in Nat

TypeOK ==
  /\ lastRun \in Nat
  /\ rows \in Seq(Nat \X Nat)
  /\ conditions \subseteq Nat \X Boards
  /\ \A p \in Processes : \A i \in 1 .. Len(up[p]) :
       up[p][i].key = "SET_NEW_FILENAME" => up[p][i].val \in files
  /\ \A p \in Processes : \A i \in 1 .. Len(down[p]) : down[p][i].val \in Int
  /\ told \in Seq(files)
  /\ \A f \in files : FileOK(f)
  /\ step \in [Processes -> Steps]
  /\ tries \in [Processes -> 0 .. MAX_SOCKET_ATTEMPTS - 1]
  /\ \A p \in Processes : mem[p].fOutputFiles \in Seq(files)
  /\ out \in [Processes -> SUBSET Boards]
  /\ gEnd \in [Processes -> 0 .. MaxSignals]
  /\ aborted \in [Processes -> SUBSET Boards]

Init ==
  /\ lastRun = 0 /\ rows = <<>> /\ conditions = {}
  /\ up = [p \in Processes |-> <<>>]
  /\ down = [p \in Processes |-> <<>>]
  /\ told = <<>> /\ files = {}
  /\ step = [p \in Processes |-> "idle"]
  /\ tries = [p \in Processes |-> 0]
  /\ mem = [p \in Processes |-> Memory0]
  /\ out = [p \in Processes |-> {}]
  /\ gEnd = [p \in Processes |-> 0]
  /\ aborted = [p \in Processes |-> {}]

-----------------------------------------------------------------------------
(* The database                                                            *)

MayFail == "locked" \in Faults

BurstsOf(run) == {rows[i][2] : i \in {i \in 1 .. Len(rows) : rows[i][1] = run}}

(* Mutant: ORDER BY burst_id, without DESC.                                *)
IsLastBurst_First(run, b) ==
  b \in BurstsOf(run) /\ \A o \in BurstsOf(run) : b <= o

(* ORDER BY burst_id DESC LIMIT 1                                          *)
IsLastBurst(run, b) == b \in BurstsOf(run) /\ \A o \in BurstsOf(run) : o <= b

(* GetLastRun() throws: no run, or a failed access.                        *)
NoLastRun == lastRun = 0 \/ MayFail

-----------------------------------------------------------------------------
(* Communication                                                           *)

GetRun == Message("GET_RUN_NUMBER", NoFile)
ExceptionLine == Message("EXCEPTION", NoFile)

Sends(p, msgs) == up' = [up EXCEPT ![p] = @ \o msgs]

Goes(p, to) == step' = [step EXCEPT ![p] = to]

(* FetchMessage() of a process: data, or nothing within the timeout.       *)
Fetch(p) ==
  IF down[p] # <<>> THEN Reads(down[p])
  ELSE IF "slow" \in Faults \/ \A i \in DOMAIN up[p] : up[p][i] # GetRun
  THEN {[msg |-> NoMessage, rest |-> <<>>]}
  ELSE {}

(* Mutant: one read more.                                                  *)
IsAnswer_OneMore(p, r) ==
  r.msg.key = "RUN_NUMBER" \/ tries[p] = MAX_SOCKET_ATTEMPTS

(* SendAndReceive(GET_RUN_NUMBER, RUN_NUMBER): two reads at most, and the  *)
(* last message read is taken for the answer, whatever it is.              *)
IsAnswer(p, r) ==
  r.msg.key = "RUN_NUMBER" \/ tries[p] + 1 = MAX_SOCKET_ATTEMPTS

Answer(p, r) ==
  /\ IsAnswer(p, r)
  /\ down' = [down EXCEPT ![p] = r.rest]
  /\ tries' = [tries EXCEPT ![p] = 0]

(* Mutant: the reads are not counted.                                      *)
FetchAgain_Uncounted(p) ==
  /\ step[p] \in Waiting
  /\ \E r \in Fetch(p) :
       /\ ~IsAnswer(p, r)
       /\ down' = [down EXCEPT ![p] = r.rest]
  /\ UNCHANGED <<dbVars, up, told, files, step, tries, mem, out, signalVars>>

FetchAgain(p) ==
  /\ step[p] \in Waiting
  /\ \E r \in Fetch(p) :
       /\ ~IsAnswer(p, r)
       /\ down' = [down EXCEPT ![p] = r.rest]
  /\ tries' = [tries EXCEPT ![p] = @ + 1]
  /\ UNCHANGED <<dbVars, up, told, files, step, mem, out, signalVars>>

(* The process ends: its memory is gone, its files and socket closed.      *)
Ends(p, how) ==
  /\ Goes(p, how)
  /\ down' = [down EXCEPT ![p] = <<>>]
  /\ tries' = [tries EXCEPT ![p] = 0]
  /\ mem' = [mem EXCEPT ![p] = Memory0]
  /\ out' = [out EXCEPT ![p] = {}]
  /\ gEnd' = [gEnd EXCEPT ![p] = 0]
  /\ aborted' = [aborted EXCEPT ![p] = {}]

Over(p) == step[p] \in {"done", "dead"}
Alive(p) == step[p] # "idle" /\ ~Over(p)

(* An exception leaves the loop of main(): it is sent, and main() returns. *)
Fails(p) ==
  /\ Ends(p, "dead")
  /\ Sends(p, <<ExceptionLine>>)
  /\ UNCHANGED <<dbVars, told, files>>

-----------------------------------------------------------------------------
(* main(), up to the loop                                                  *)

(* START_ACQUISITION, or a shell; the constructor of VMEReader, and its     *)
(* NewRun().  Without "overlap" the former process is over and the master  *)
(* has read all it said.                                                   *)
Start(p) ==
  /\ step[p] = "idle"
  /\ "overlap" \in Faults \/ \A q \in Processes : ~Alive(q) /\ up[q] = <<>>
  /\ Sends(p, <<Message("NEW_RUN", NoFile), GetRun>>)
  /\ Goes(p, "ask new run")
  /\ UNCHANGED <<dbVars, down, told, files, tries, mem, out, signalVars>>

(* The run is only printed; the high voltages are read and logged.         *)
RunPrinted(p) ==
  /\ step[p] = "ask new run"
  /\ \E r \in Fetch(p) : Answer(p, r)
  /\ Sends(p, <<ExceptionLine>>)
  /\ Goes(p, "configure")
  /\ UNCHANGED <<dbVars, told, files, mem, out, signalVars>>

(* Mutant: tdc_id is incremented before the conditions are recorded.       *)
AddTDC_NextId(p) ==
  LET board == mem[p].ntdc + 1 IN
  /\ step[p] = "configure"
  /\ board \in Boards
  /\ lastRun > 0
  /\ mem' = [mem EXCEPT ![p].ntdc = board]
  /\ conditions' = conditions \cup {<<lastRun, board + 1>>}
  /\ Sends(p, <<ExceptionLine>>)
  /\ UNCHANGED <<lastRun, rows, down, told, files, step, tries, out, signalVars>>

(* ReadXML(): a board is added, and its conditions recorded for the last   *)
(* run; if that fails ReadXML() is left and main() goes on.                *)
AddTDC(p) ==
  LET board == mem[p].ntdc + 1 IN
  /\ step[p] = "configure"
  /\ board \in Boards
  /\ mem' = [mem EXCEPT ![p].ntdc = board]
  /\ \/ /\ lastRun > 0
        /\ conditions' = conditions \cup {<<lastRun, board>>}
        /\ Sends(p, <<ExceptionLine>>)
        /\ UNCHANGED step
     \/ /\ NoLastRun \/ "boards" \in Faults
        /\ Sends(p, <<ExceptionLine, GetRun>>)
        /\ Goes(p, "ask header")
        /\ UNCHANGED conditions
  /\ UNCHANGED <<lastRun, rows, down, told, files, tries, out, signalVars>>

(* The same when a board of another kind fails.                            *)
ConfigurationFails(p) ==
  /\ step[p] = "configure"
  /\ "boards" \in Faults
  /\ Sends(p, <<ExceptionLine, GetRun>>)
  /\ Goes(p, "ask header")
  /\ UNCHANGED <<dbVars, down, told, files, tries, mem, out, signalVars>>

(* The end of ReadXML(): the configuration is copied under the name of the *)
(* run.                                                                    *)
CopyConfiguration(p) ==
  /\ step[p] = "configure"
  /\ mem[p].ntdc = NumTDC
  /\ Sends(p, <<GetRun>>)
  /\ Goes(p, "ask copy")
  /\ UNCHANGED <<dbVars, down, told, files, tries, mem, out, signalVars>>

AskHeader(p) ==
  /\ step[p] = "ask copy"
  /\ \E r \in Fetch(p) : Answer(p, r)
  /\ Sends(p, <<ExceptionLine, GetRun>>)
  /\ Goes(p, "ask header")
  /\ UNCHANGED <<dbVars, told, files, mem, out, signalVars>>

Header(p) ==
  /\ step[p] = "ask header"
  /\ \E r \in Fetch(p) :
       /\ Answer(p, r)
       /\ mem' = [mem EXCEPT ![p].run = r.msg.val]
  /\ Goes(p, "last run")
  /\ UNCHANGED <<dbVars, up, told, files, out, signalVars>>

-----------------------------------------------------------------------------
(* One burst                                                               *)

(* NewBurst() fails: it is tried once more, 2 ms later.                    *)
Retry(p) ==
  IF mem[p].retried
  THEN Fails(p)
  ELSE /\ mem' = [mem EXCEPT ![p].retried = TRUE]
       /\ Goes(p, "last run")
       /\ UNCHANGED <<dbVars, masterVars, files, tries, out, signalVars>>

(* NewBurst() is three transactions: GetLastRun(),                         *)
LastRun(p) ==
  /\ step[p] = "last run"
  /\ \/ /\ lastRun > 0
        /\ mem' = [mem EXCEPT ![p].current_run = lastRun]
        /\ Goes(p, "last burst")
        /\ UNCHANGED <<dbVars, masterVars, files, tries, out, signalVars>>
     \/ NoLastRun /\ Retry(p)

(* Mutant: last_burst is left at 0 in a run without bursts.                *)
LastBurst_Zero(p) ==
  LET run == mem[p].current_run IN
  /\ step[p] = "last burst"
  /\ \E b \in BurstsOf(run) \cup {0} :
       /\ IsLastBurst(run, b) \/ (b = 0 /\ BurstsOf(run) = {})
       /\ mem' = [mem EXCEPT ![p].last_burst = b]
  /\ Goes(p, "insert")
  /\ UNCHANGED <<dbVars, masterVars, files, tries, out, signalVars>>

(* GetLastBurst(), whose failure to prepare the request leaves 0 and whose *)
(* failure to execute it looks like a run without bursts,                  *)
LastBurst(p) ==
  LET run == mem[p].current_run IN
  /\ step[p] = "last burst"
  /\ \E b \in BurstsOf(run) \cup {-1, 0} :
       /\ \/ IsLastBurst(run, b)
          \/ b = -1 /\ (BurstsOf(run) = {} \/ MayFail)
          \/ b = 0 /\ MayFail
       /\ mem' = [mem EXCEPT ![p].last_burst = b]
  /\ Goes(p, "insert")
  /\ UNCHANGED <<dbVars, masterVars, files, tries, out, signalVars>>

(* and the insertion; then the run is asked for again.                     *)
InsertBurst(p) ==
  /\ step[p] = "insert"
  /\ \/ /\ rows' = Append(rows, <<mem[p].current_run, mem[p].last_burst + 1>>)
        /\ mem' = [mem EXCEPT ![p].row = Len(rows) + 1,
                              ![p].retried = FALSE,
                              ![p].bursts = @ + 1]
        /\ Sends(p, <<GetRun>>)
        /\ Goes(p, "ask burst")
        /\ UNCHANGED <<lastRun, conditions, down, told, files, tries, out,
                       signalVars>>
     \/ MayFail /\ Retry(p)

(* GetBurstNumber(): the last burst of the run that the master names now.  *)
BurstNumber(p) ==
  /\ step[p] = "ask burst"
  /\ \E r \in Fetch(p) :
       /\ Answer(p, r)
       /\ \E b \in BurstsOf(r.msg.val) :
            /\ IsLastBurst(r.msg.val, b)
            /\ mem' = [mem EXCEPT ![p].spill = b]
  /\ Goes(p, "open")
  /\ UNCHANGED <<dbVars, up, told, files, out, signalVars>>

(* There is none, or the access fails.                                     *)
NoBurstNumber(p) ==
  /\ step[p] = "ask burst"
  /\ \E r \in Fetch(p) :
       /\ IsAnswer(p, r)
       /\ BurstsOf(r.msg.val) = {} \/ MayFail
  /\ Fails(p)

(* Mutant: SetOutputFile() inserts, and keeps the name that is there.      *)
OpenFiles_Insert(p) ==
  LET names == [b \in 1 .. mem[p].ntdc |-> File(p, b)] IN
  /\ step[p] = "open"
  /\ files' = files \cup {names[b] : b \in DOMAIN names}
  /\ mem' = IF mem[p].fOutputFiles = <<>>
            THEN [mem EXCEPT ![p].fOutputFiles = names] ELSE mem
  /\ out' = [out EXCEPT ![p] = DOMAIN names]
  /\ Goes(p, "readout")
  /\ UNCHANGED <<dbVars, masterVars, tries, signalVars>>

(* A file is opened for each board, SetOutputFile(), with the header fh.   *)
OpenFiles(p) ==
  LET names == [b \in 1 .. mem[p].ntdc |-> File(p, b)] IN
  /\ step[p] = "open"
  /\ files' = files \cup {names[b] : b \in DOMAIN names}
  /\ mem' = [mem EXCEPT ![p].fOutputFiles = names]
  /\ out' = [out EXCEPT ![p] = DOMAIN names]
  /\ Goes(p, "readout")
  /\ UNCHANGED <<dbVars, masterVars, tries, signalVars>>

(* The loop of FetchEvents() over the boards ends with a round in which    *)
(* none was aborted and the scaler of the FPGA unit has passed the limit.  *)
FileChange(p) ==
  /\ step[p] = "readout"
  /\ aborted[p] = {}
  /\ mem[p].bursts < MaxBursts
  /\ mem' = [mem EXCEPT ![p].i = 0]
  /\ Goes(p, "close")
  /\ UNCHANGED <<dbVars, masterVars, files, tries, out, signalVars>>

(* SendOutputFile() of the next board, once its file is closed; a process  *)
(* that stops does not see the streams of its files any more.              *)
SendOutputFile(p) ==
  LET board == mem[p].i + 1 IN
  /\ step[p] \in {"close", "stop"}
  /\ board <= mem[p].ntdc
  /\ out' = IF step[p] = "close" THEN [out EXCEPT ![p] = @ \ {board}] ELSE out
  /\ Sends(p, <<Message("SET_NEW_FILENAME", mem[p].fOutputFiles[board])>>)
  /\ mem' = [mem EXCEPT ![p].i = board]
  /\ UNCHANGED <<dbVars, down, told, files, step, tries, signalVars>>

(* BroadcastNewBurst(), BroadcastTriggerRate() and the next burst.         *)
NextBurst(p) ==
  /\ step[p] = "close"
  /\ mem[p].i = mem[p].ntdc
  /\ Sends(p, <<ExceptionLine, Message("NUM_TRIGGERS", NoFile)>>)
  /\ Goes(p, "last run")
  /\ UNCHANGED <<dbVars, down, told, files, tries, mem, out, signalVars>>

-----------------------------------------------------------------------------
(* The end                                                                 *)

(* Mutants: the streams belong to the outer scope; the index is not reset. *)
Stopped_LeftOpen(p) ==
  /\ step[p] = "readout"
  /\ aborted[p] # {}
  /\ mem' = [mem EXCEPT ![p].i = 0]
  /\ Goes(p, "stop")
  /\ UNCHANGED <<dbVars, masterVars, files, tries, out, signalVars>>

Stopped_KeepsIndex(p) ==
  /\ step[p] = "readout"
  /\ aborted[p] # {}
  /\ out' = [out EXCEPT ![p] = {}]
  /\ Goes(p, "stop")
  /\ UNCHANGED <<dbVars, masterVars, files, tries, mem, signalVars>>

(* FetchEvents() of an aborted board throws TDC_ACQ_STOP: the files of the *)
(* inner out_file are closed when the exception leaves its scope.          *)
Stopped(p) ==
  /\ step[p] = "readout"
  /\ aborted[p] # {}
  /\ out' = [out EXCEPT ![p] = {}]
  /\ mem' = [mem EXCEPT ![p].i = 0]
  /\ Goes(p, "stop")
  /\ UNCHANGED <<dbVars, masterVars, files, tries, signalVars>>

(* The handler announces them, the process says it stops, and returns.     *)
Return(p) ==
  /\ step[p] = "stop"
  /\ mem[p].i = mem[p].ntdc
  /\ Sends(p, <<ExceptionLine>>)
  /\ Ends(p, "done")
  /\ UNCHANGED <<dbVars, told, files>>

(* The process is killed, or loses the master, or meets a fatal exception, *)
(* or gets a signal while vme is a null pointer.  When it stops it may     *)
(* also be that it looks at out_file[i] for the second board: the array of *)
(* that scope has one element.                                             *)
Die(p) ==
  /\ Alive(p)
  /\ Ends(p, "dead")
  /\ UNCHANGED <<dbVars, up, told, files>>

(* CtrlC(): the first signal aborts the boards that are known by then, the *)
(* next ones are counted, and the last one ends the process.               *)
Signal(p) ==
  /\ Alive(p)
  /\ gEnd[p] < MaxSignals
  /\ IF gEnd[p] >= 5
     THEN Ends(p, "dead")
     ELSE /\ gEnd' = [gEnd EXCEPT ![p] = @ + 1]
          /\ aborted' = IF gEnd[p] = 0
                        THEN [aborted EXCEPT ![p] = 1 .. mem[p].ntdc]
                        ELSE aborted
          /\ UNCHANGED <<down, step, tries, mem, out>>
  /\ UNCHANGED <<dbVars, up, told, files>>

-----------------------------------------------------------------------------
(* The master                                                              *)

MasterReads(stream) ==
  {r \in Reads(stream) : "slow" \in Faults \/ Len(r.rest) + 1 = Len(stream)}

Told(p, number) ==
  IF Alive(p) THEN [down EXCEPT ![p] = Append(@, Message("RUN_NUMBER", number))]
  ELSE down

(* NEW_RUN, GET_RUN_NUMBER, SET_NEW_FILENAME and the others.               *)
Handle(p, m) ==
  \/ /\ m.key = "NEW_RUN"
     /\ \/ lastRun' = lastRun + 1
        \/ MayFail /\ UNCHANGED lastRun
     /\ UNCHANGED <<down, told>>
  \/ /\ m.key = "GET_RUN_NUMBER"
     /\ \/ lastRun > 0 /\ down' = Told(p, lastRun)
        \/ NoLastRun /\ down' = Told(p, -1)
     /\ UNCHANGED <<lastRun, told>>
  \/ /\ m.key = "SET_NEW_FILENAME"
     /\ told' = Append(told, m.val)
     /\ UNCHANGED <<lastRun, down>>
  \/ /\ m.key \notin {"NEW_RUN", "GET_RUN_NUMBER", "SET_NEW_FILENAME"}
     /\ UNCHANGED <<lastRun, down, told>>

Serve(p) ==
  /\ \E r \in MasterReads(up[p]) :
       /\ up' = [up EXCEPT ![p] = r.rest]
       /\ Handle(p, r.msg)
  /\ UNCHANGED <<rows, conditions, files, step, tries, mem, out, signalVars>>

(* PING_CLIENT of some terminal: the master then reads from the process,   *)
(* which does not answer, and drops what it finds.                         *)
Ping(p) ==
  /\ "pings" \in Faults
  /\ Alive(p)
  /\ down[p] = <<>>
  /\ down' = [down EXCEPT ![p] = <<Message("PING_CLIENT", 0)>>]
  /\ \E n \in 0 .. Len(up[p]) :
       up' = [up EXCEPT ![p] = SubSeq(@, n + 1, Len(@))]
  /\ UNCHANGED <<dbVars, told, files, step, tries, mem, out, signalVars>>

-----------------------------------------------------------------------------
(* What a process does by itself, short of deciding to change files.       *)
Proceed(p) ==
  \/ RunPrinted(p) \/ AddTDC(p) \/ ConfigurationFails(p)
  \/ CopyConfiguration(p) \/ AskHeader(p) \/ Header(p) \/ FetchAgain(p)
  \/ LastRun(p) \/ LastBurst(p) \/ InsertBurst(p) \/ BurstNumber(p)
  \/ NoBurstNumber(p) \/ OpenFiles(p) \/ SendOutputFile(p) \/ NextBurst(p)
  \/ Stopped(p) \/ Return(p)

Next ==
  \E p \in Processes :
    \/ Start(p) \/ Proceed(p) \/ FileChange(p) \/ Signal(p) \/ Die(p)
    \/ Serve(p) \/ Ping(p)

(* A process runs its code without waiting for anything but a message, and *)
(* recv() returns after its timeout; the master goes on serving everybody. *)
(* Triggers, signals and deaths need not come.                             *)
Fairness ==
  \A p \in Processes : WF_vars(Proceed(p)) /\ WF_vars(Serve(p))

Spec == Init /\ [][Next]_vars
FairSpec == Spec /\ Fairness

-----------------------------------------------------------------------------
(* Properties                                                              *)

HeaderOf(f) == <<f.run, f.spill, f.board>>

(* include/FileConstants.h:14, the header enables "any reader to retrieve  *)
(* the run/spill number": both are those of the burst that was opened for  *)
(* the file.  The run is asked for once, after the configuration, and the  *)
(* burst each time, after the insertion; an answer is a message that may   *)
(* be lost, late or about another run (fetch_vme.cpp:90, 139-140).         *)
HeaderRetrieves == \A f \in files : rows[f.row] = <<f.run, f.spill>>

(* That, and no two files of a board have the same header.                 *)
HeaderIdentifiesBurst ==
  /\ HeaderRetrieves
  /\ \A f, g \in files : HeaderOf(f) = HeaderOf(g) => f = g

(* The database and the files the monitors are told of are the log of runs *)
(* and bursts that RunLog describes (NewBurst(), SendOutputFile()).        *)
Log == INSTANCE RunLog WITH
  runs      <- lastRun,
  log       <- rows,
  published <- [i \in DOMAIN told |-> HeaderOf(told[i])]

RunLogSpec == Log!Spec

(* Whoever reads a file finds the conditions its board had in the run of   *)
(* its header.  When a board failed in the configuration, that is said of  *)
(* all but the last of the boards that are read, which may be that one     *)
(* (ReadXML(), OnlineDBHandler::GetTDCConditions()).                       *)
ConditionsRecorded ==
  \A f \in files :
    \/ <<f.run, f.board>> \in conditions
    \/ /\ "boards" \in Faults
       /\ \A g \in files :
            g.proc = f.proc /\ g.nth = f.nth => g.board <= f.board

Open(f) ==
  /\ f.board \in out[f.proc]
  /\ mem[f.proc].fOutputFiles[f.board] = f

Announced ==
  {told[i] : i \in DOMAIN told} \cup
  UNION {{up[p][i].val : i \in {i \in DOMAIN up[p] :
                                  up[p][i].key = "SET_NEW_FILENAME"}} :
         p \in Processes}

(* A file is announced after its last word is written, in the loop and in  *)
(* the handler of the stop, which does not see the streams it writes to    *)
(* (fetch_vme.cpp:223-225, 237-238).                                       *)
AnnouncedComplete == \A f \in Announced : ~Open(f)

(* No file is announced to the monitors twice, neither by the next change  *)
(* of files nor by the stop (SetOutputFile(), SendOutputFile()).           *)
AnnouncedOnce ==
  \A i, j \in DOMAIN told : told[i] = told[j] => i = j

(* When a process has stopped as it should, the monitors are told of all   *)
(* the files it wrote.                                                     *)
AllTold ==
  \A p \in Processes :
    step[p] = "done" /\ up[p] = <<>> =>
      \A f \in files : f.proc = p => \E i \in DOMAIN told : told[i] = f

(* A signal that aborted a board ends the process, wherever it comes: in   *)
(* the configuration, while it waits for the master or the database, or    *)
(* while it changes files (CtrlC(), FetchEvents()).                        *)
StopEnds == \A p \in Processes : aborted[p] # {} ~> Over(p)

-----------------------------------------------------------------------------
(* What comments say, and the code does not do                             *)

(* include/VMEReader.h:152, Abort(): "Abort data collection for all        *)
(* modules on the bus handled by the bridge": none is read without the     *)
(* flag after the signal.                                                  *)
AbortReachesAll ==
  \A p \in Processes :
    step[p] = "readout" /\ gEnd[p] > 0 => aborted[p] = 1 .. mem[p].ntdc
=============================================================================
