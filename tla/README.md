# Verification of the pps-tbrc run control

`pps-tbrc` is the run control of the CT-PPS test beam of 2015: a *master* process relays
messages between clients over TCP, starts and stops an *acquisition* process that reads TDC
boards on a VME bus and writes files, and tells *monitors* and a *GUI* what happens. This
directory holds TLA+ models of it, the TLC configurations that check them, and proofs for TLAPS.

## 1. Inventory of the system

| Part | Code | State | Operations | Talks to |
|---|---|---|---|---|
| socket layer | `src/Socket.cpp`, `include/Socket.h`, `SocketMessage.h`, `MessageKeys.h` | a descriptor; in the master the registry `fSocketsConnected` and the sets `fMaster`, `fReadFds` | create, bind, listen, accept, select, send, receive | the kernel |
| master (`ppsRun`) | `src/Messenger.cpp`, `main.cpp` | the registry, `fPID` of the acquisition process | `AddClient`, `Receive`, `ProcessMessage` (one branch per key), `StartAcquisition`, `StopAcquisition`, `Disconnect` | every client; the database |
| clients | `src/Client.cpp`, `listener.cpp`, `scripts/SocketHandler.py` | `fClientId`, connected or not | connect and announce, send, receive, disconnect | the master |
| GUI | `scripts/RunControl.py` | bound or not, run, "acquisition started", the reception loop | buttons, the refresh of every second, the reception callback | the master |
| data taking (`ppsFetch`) | `fetch_vme.cpp`, `src/VMEReader.cpp` | boards, run and spill in the file header, one file per TDC, counters, the number of signals | configure, open a run, burst loop, change of files, stop by SIGINT | the master, the database, the boards |
| online database | `include/OnlineDBHandler.h` | tables of runs, bursts, TDC and HV conditions (SQLite) | insert, read the last | opened for each access by the master, the acquisition and the monitors |
| monitors | `include/DQMProcess.h`, `dqm/*.cpp` | run number, addresses they can process | wait for a file name or a run number, plot, announce the plots | the master, the database, the files |
| file reader | `src/FileReader.cpp`, `include/VME_TDCMeasurement.h`, `VME_TDCEvent.h` | position in a file of 32-bit words | next word, next measurement of a channel, pairing of edges | the files |
| TDC driver | `src/VME_TDCV1x90.cpp` | the micro controller of the board, the transfer buffer, the abort flag | opcodes with operands behind a handshake, block transfers, abort | the board; the signal handler |
| FPGA, CAENET, HV | `src/VME_FPGAUnitV1495.cpp`, `VME_CAENETControllerV288.cpp`, `NIM_HVModuleN470.cpp` | registers of the boards, request and answer buffers | read-modify-write of control words, requests | the boards |
| other boards, displays, scripts | `src/VME_CFDV812.cpp`, `VME_IOModuleV262.cpp`, `VME_BridgeVx718.cpp`, `include/*Canvas.h`, `scripts/DQMReader.py` | none of their own | register accesses, drawing | |

What is hard:

* the master is one thread that *blocks inside handlers*: `AddClient` reads the first message of a
  connection, a ping reads from its target;
* one `recv()` may return several messages, and all but the first are lost;
* an expired receive timeout is not recognised as an error;
* identifiers are descriptors, which the kernel uses again;
* clients die, are interrupted, or leave at any time; so does the master, whose descriptors live on in
  the process it forked;
* the database is shared by processes that open it for each access and find it locked;
* the acquisition is stopped by a signal that may come at any point.

What makes each part correct: *master* — the registry, the descriptor table and the watched set agree; no
client is dropped for another; each that announces itself in time is known by its type; what is broadcast reaches all who
are entitled to it; nobody waits for ever. *Data taking* — bursts and files of a run are numbered without
repetition, each file is announced after it is complete, a stop ends the run. *Monitors and GUI* — they
agree with the master on the run and on whether data are taken. *Reader and drivers* — every hit is
recorded once and edges are paired as they were measured; a multi-word command is never cut.

`PROJECT.json` lists all of this as components and hazards, at the lines of the code.

## 2. Plan

1. `Socket`, `Messenger`, `Client`, abstract specification `Membership` — checked and proved (section 3).
2. `DataTaking`: the acquisition process, the database and the stop by SIGINT; abstract specification
   `RunLog` (bursts consecutive, one announcement for each complete file) — checked and proved (section 4).
3. `Reader` and `Readout`: the search of measurements and the pairing of edges as operators on sequences of
   words, applied to all the files that a board, the transfers and the bursts can produce — checked and, but for what
   section 9 names, proved (section 5).
4. `Bus`, `TDCBoard`, `FPGABoard`, `HVModule`, composed by `Boards` with the calls of `ppsFetch` — checked and
   proved (section 6).
5. `Monitoring`: a monitor, composed with the acquisitions, the master and the table of conditions — checked and
   proved (section 7). `Canvas`: where channels are drawn — proved.
6. Left: the callbacks of the GUI; the boards that keep no state.

## 3. The model of the socket, the master and its clients

### Modules

* **`Wire`** — what a message is, and what one `recv()` makes of the messages under way; shared with section 4.
* **`Socket`** — constants (clients, descriptors, process numbers), messages, and the kernel: per connection
  the stream to the master `up` and from it `down`, the state of the master's end `link`, whether the
  client closed its own end `hup`; the descriptor table `conn` of the master, the queue `backlog` of the
  listening socket, the forked processes `proc` and the connections `held` they inherited.
* **`Messenger`** — the master. `pc` says where its only thread is: blocked in `select()`; in the loop over the
  sockets (`pos` is the last one visited); in `AddClient`, waiting for an announcement; in a ping, waiting
  for its target (`toping`, `tries`); or dead. The loop is over a `std::set` ordered by descriptor and
  modified while it runs, hence "the next greater registered one that `select()` reported".
* **`Client`** — any number of client processes, the composition `Next`, fairness and properties.
* **`Membership`** — what the registry promises, without descriptors, streams or handlers.
* **`MCClient`** — the programs of the repository as clients: types, requests, quotas of requests.
* **`ClientProofs`, `MembershipProofs`** — the theorems.

| Action | Code |
|---|---|
| `Select`, `EndOfScan` | `Messenger::Receive`, `Socket::SelectConnections` |
| `Accept`, `AcceptFails` | `AddClient` up to `AcceptConnections` |
| `Announcement`, `AnnouncementLost` | the rest of `AddClient`, `SwitchClientType` |
| `ClientGone` | end of stream in `Receive`, `DisconnectClient` |
| `RemoveClient`, `ListClients`, `NewRun`, `GetRunNumber`, `Forward`, `Ignored` | the branches of `ProcessMessage` |
| `PingClient`, `PingRead`, `PingTargetGone` | `PING_CLIENT`, split where it reads |
| `StartAcquisition`, `StopAcquisition`, `ProcessExit` | the functions of these names; the child's end |
| `Quit` | Ctrl-C in `main.cpp`, `Messenger::Disconnect`, end of the process |
| `Connect`, `Announce`, `AwaitId`, `NoAnswer` | `Client::Connect`, `Announce` |
| `Request`, `Receive`, `EndOfFile`, `Leave`, `Close`, `Crash` | `Client::Send`, `Receive`, `Disconnect`, death |

### Abstractions

* A message is its key and an integer. Texts are abstracted, not what reading does to them: a read returns
  any non-empty prefix of what is under way and keeps its first message (`Reads`), and an expired timeout
  gives a message without a key (`NoMessage`).
* `Socket::Configure()` sets a receive timeout on the listening socket, and the sockets that `accept()` returns inherit it, as
  on Linux, for which the code is written: whenever there is nothing to read, a read may give up (`Expired`). How long that takes is
  left open: an announcement may be there in time or come later.
* `Request` sends any request of the client at any time: the order in which each program sends them is left out.
* A database access of the master may fail at any time, since other processes lock the file.
* A client is one connection; a process that binds again is another client. Clients connect only while
  the master lives. The child that a failed `exec()` leaves in the loop of the master is not modelled; a
  `kill(-1)` interrupts all the acquisition processes, its effect on the user's other processes is that of
  `Crash`. Reuse of process numbers, and resets instead of ends of streams, are left out.

## 4. The model of data taking

### Modules

* **`RunLog`** — what the files promise to those who read them later: runs and bursts numbered in order and
  without repetition, each published header the name of one burst, published once for each board. No
  processes, messages or transactions.
* **`DataTaking`** — the acquisition processes from `main()` to their end, the tables of the database, and what
  the master does with their messages. `step` is where a process is in `main()`, `mem` its variables, `out`
  the boards whose file is open, `tries` the reads of its `SendAndReceive()`, `gEnd` and `aborted` what
  the signal handler sets; `up` and `down` are its two streams. `lastRun`, `rows` and `conditions` are the tables of runs,
  bursts and TDC conditions; `told` lists the files the master announced to the monitors.
* **`MCDataTaking`** — the circumstances of the runs.

| Action | Code |
|---|---|
| `Start`, `RunPrinted` | `START_ACQUISITION` or a shell; the constructor of `VMEReader`, its `NewRun()` |
| `AddTDC`, `ConfigurationFails`, `CopyConfiguration`, `AskHeader` | `ReadXML()` |
| `Header` | `fh.run_id = vme->GetRunNumber()` |
| `FetchAgain` | a read of `SendAndReceive()` that brings something else |
| `LastRun`, `LastBurst`, `InsertBurst` | `NewBurst()`, its three accesses and its second attempt |
| `BurstNumber`, `NoBurstNumber` | `GetBurstNumber()`, an answer of the master and an access |
| `OpenFiles`, `FileChange`, `SendOutputFile`, `NextBurst` | the loop of `main()`, `SetOutputFile()`, the broadcasts |
| `Stopped`, `SendOutputFile`, `Return` | the handler of `TDC_ACQ_STOP`, `~VMEReader` |
| `Signal`, `Die` | `CtrlC()`; a kill, a lost connection, a fatal exception |
| `Serve`, `Ping` | the branches of `ProcessMessage` that concern this client; a ping of some terminal |

### Circumstances

`Faults` says what may go wrong around the processes, so that each property is stated under what it needs:

| Fault | Meaning |
|---|---|
| `slow` | the master may find several messages in one read, and answer later than its client waits |
| `pings` | a terminal pings the process, and the master drops what it reads from it meanwhile |
| `locked` | any access to the database may fail, as its file is locked by another process |
| `boards` | an access to a board may fail during the configuration |
| `overlap` | a process may start while another runs |

`AnnouncedComplete`, `AnnouncedOnce` and `StopEnds` are checked under `pings`, `locked` and `boards` together: requests are lost, answers
come late or never, accesses fail. `HeaderIdentifiesBurst`, `AllTold` and the refinement of `RunLog` are claimed when boards fail and
processes die anywhere, but not with `slow`, `pings` or `locked` (an announcement or an answer is lost, a failed request leaves a
burst number of 1, or the run in the header is 0 or -1; the run `LostRunNumber` is an example), nor with `overlap`: the run is asked for once and the bursts
follow the last run, so that a second process gives its burst numbers to the files of the first. Nothing in the code prevents a second
start, and nothing that is stated here survives it. `ConditionsRecorded` says less with `boards`, where the last board that is read may
be the one that failed.

### Abstractions

* Exception lines sent in a row are one message; what matters of them is that they stand before a request.
* Only the TDC boards are configured one by one; the failure of another board is `ConfigurationFails`. Boards are counted in the order of the configuration file. The contents of files are left out: a file is known by its header,
  the process, the burst and the board, so that two files of one second are two files although the code may give them the same name.
* `FileChange` may come in any round of the readout with no aborted board; the scaler, its limit and the high voltages are left out.
* `Die` may come at any point. It stands for a kill, a lost connection, a fatal exception, a signal while `vme` is null, and for what
  may come of reading beyond `out_file`, which in the handler of the stop is the array of one element of the outer scope.
* A signal is delivered between two steps; what the handler does is one step, as no other signal interrupts it.
* The process that returns a stop sends its last lines and is gone; its REMOVE_CLIENT is in `Client`.

## 5. The model of the readout and the reader

* **`Reader`** — no state: the words of `VMETDCEvent.h`, `FileReader::GetNextMeasurement()`, the pairing and the width of `TDCMeasurement`, and what
  `DQMReader.py` computes of a file.
* **`Readout`** — one board (`setup`): the words it gave (`emitted`), `fBuffer` and where `FetchEvents()` is (`buffer`, `count`, `pending`,
  `phase`), the abort flag `gEnd`, the files of `ppsFetch` and a monitor that goes through them (`job`).
* **`ReadoutProofs`, `HitsProofs`** — the theorems.

| Action | Code |
|---|---|
| `Emit` | the board: edges, errors, headers and trailers (external) |
| `Transfer`, `Collect`, `StopReadout` | `TDCV1x90::FetchEvents()`: the block transfer, the loop over its words, the abort |
| `Abort` | the flag set by `CtrlC()` through `VMEReader::Abort()` |
| `MarkTrigger`, `ChangeFile` | the loop of `fetch_vme.cpp` |
| `OpenFile`, `NextMeasurement`, `SavePlots` | the loops over channels and measurements of `dqm/gastof.cpp`, `dqm/quartic.cpp` |

Abstractions: a word is its type, channel, kind of edge and bits, without the identifiers of events and of the TDC chip. The
board fills a transfer up or ends it early, depending on how it is set up; it goes on when all its words were read, since the size of a
transfer is all that matters. The monitor comes after the stop, when files no longer change: the
master announces them when they are closed (`AnnouncedComplete` of `DataTaking`). `FileReader` with an error word throws, and the
monitor goes on with the next channel from there: `LeftOutForErrors` and `HitsComplete` say what that costs.

Sequences are cut down by `Only(words, S)`, a recursive function, rather than by `SelectSeq`, whose operator argument the provers cannot
take; words are members of the set `TDCEvents` for the same reason.

`Recorded` is weaker in continuous storage because the code is: the loop goes to a number of bytes where it indexes words, so words of an
earlier transfer are recorded again, and a word whose bits are all 0 (channel 0, leading edge, time 0) is skipped.

## 6. The model of the boards

* **`Bus`** — any access fails at will, up to a bound; what has become of the process.
* **`HVModule`**, **`FPGABoard`**, **`TDCBoard`** — a board and the methods of its driver that `ppsFetch` calls, with what failures do to both.
* **`Boards`** — the calls of `main()` and `VMEReader::ReadXML()` in their order: `pc` is the part of the program and the call in it.

| Action | Code |
|---|---|
| `StartHV`, `BroadcastHVStatus` | `fetch_vme.cpp` with `HVModuleN470::ReadRegister()` and the buffers of `CAENETControllerV288` |
| `NewFPGA`, `ConfigureFPGA`, `StartAcquisition`, `Pulse` | the constructor of `FPGAUnitV1495`, `ReadXML()`, `StartScaler()`, `PulseTDCBits()` |
| `NewTDC`, `ConfigureTDC`, `AskModes` | the constructor of `TDCV1x90`, `ReadXML()`, the modes for the header; each call is a method of `TDCBoard` |
| `NewBurst`, `WriteHeader`, `MarkTriggers`, `Probe`, `ChangeFiles` | the loops of `main()` |
| `Trigger` | the scaler counts (external) |

What is assumed of the hardware, whose firmware is not in the repository: the micro controller of the TDC takes one word at a time, ignores
words that are no command, looks only at the high byte of an opcode, and is not ready to be written to while its answer is unread, so
that a method that sends a command then polls for ever ("hung"); a software reset restores its defaults.

What an earlier acquisition left (`LeftMicros`) is any settings in valid modes, in the middle of a command or with an answer that was not read,
since `ppsFetch` may have been killed anywhere. A reset that fails is only reported (`SoftwareReset`), and all of that is still there. `asked` is what
the program may rely on: the settings it found, until a reset succeeds, then the defaults, then what the methods were called for. The
bound of `DamageBounded` is on the settings that differ from `asked`, and its second clause says that nothing of what was left is among
them in the end: once the board is in `fTDCCollection`, every setting was asked for and is that of the configuration file.

The CAENET controller is assumed to empty its buffer of requests when it transmits, to drop an answer that was not read, to give nothing to a request
with left-over words in front, an invalid status beyond the end of an answer, and to answer in the end. The driver does none of this: it discards
nothing after a failure, and its `Reset()` is commented out. `HVRecorded` rests on it: were an old answer kept in front of the
next one, the values of one channel could be taken for those of another, and only the hardware could say whether it is.

A configuration is one TDC, as in `config/config.xml` (the FPGA, or none as in `config_nofpga.xml`), one of
the three modes of `GlobalAcqMode`; the periods and delays that nothing depends on are accesses that may fail.

Failures are the point of this model: almost all methods catch the exception of an access, print it and go on. `header.sound` tells whether an access
failed since the burst began, `askedBits` what the methods of the FPGA were called for. `SetAcquisitionMode()` waits twice for the micro
controller; when the second wait fails the mode was sent, but `fAcquisitionMode` stays as it was, and so it is in the model.

## 7. The model of a monitor

**`Monitoring`** composes a monitor with what it depends on: acquisitions one after the other (`acquisitions`, `up`), the master
between them, the table of runs and that of conditions (`lastRun`, `rows`).

| Action | Code |
|---|---|
| `StartAcquisition`, `ConfigureTDC`, `SendOutputFile`, `Stop` | `ppsFetch` and the start and stop of the master, as far as monitors can see |
| `HandleNewRun`, `HandleFilename`, `HandleOther`, `GetRunNumber` | the branches of `ProcessMessage` |
| `Connect`, `AwaitRunNumber`, `ParseMessage` | the constructor of `DQMProcess`, `Run()`, `ParseMessage()`, with `IsInRun()` and `GetTDCConditions()` |

Abstractions: the master reads a new run within the time for which `ppsFetch` waits before it configures its boards; `IsInRun()` is one step, as
the conditions of one run are read in one query; the plots that a monitor sends back are in `Client`.

## 8. Runs

In the runs of `MCClient` clients are a terminal (`tty`, type CLIENT), `ppsFetch` (DETECTOR), a monitor (DQM), the GUI (DAQ) and the web
display.

| Run | Instance | Checks | Shows |
|---|---|---|---|
| `Registry` | terminal, `ppsFetch` and GUI, **2** descriptors, a ping of any descriptor by the terminal, timeouts | `RegistryConsistent`, `OwnIdentifier`, `MembershipSpec`, `DrainedByPing`, `PromptKnown` | all interleavings of connections, announcements in time and late, pings, departures and deaths; descriptors run out and are used again |
| `Messages` | `ppsFetch` and GUI, two requests each, one process number | `RunsInOrder` | run numbers never go back, with late announcements and database failures; starts and stops, the end of the process, failures of `fork()` |
| `Liveness` | terminal and GUI, one request of the terminal: a ping of any descriptor, the removal of the master, a list | `TypeOK`, `DeathNoticed`, `RequestRead`, `Identified` | handlers read from other sockets, but nothing holds the thread up for ever |
| `MasterGone` | monitor, GUI, one process | `MasterGoneDisconnects` **violated** | inherited descriptors outlive the master |
| `RunLog` | 2 processes one after the other, 2 boards, 2 bursts, 1 signal, `boards` | `HeaderIdentifiesBurst`, `AllTold`, `ConditionsRecorded`, `RunLogSpec` | numbering, headers and conditions over two runs; the refinement of `RunLog` |
| `Acquisition` | 1 process, 2 boards, 2 bursts, 6 signals, `pings`, `locked`, `boards` | `TypeOK`, `AnnouncedComplete`, `AnnouncedOnce`, `StopEnds` | files are announced when complete, once; a signal that aborted a board ends the process |
| `LostRunNumber` | 1 process, `slow` | `HeaderRetrieves` **violated** | GET_RUN_NUMBER behind another message is lost |
| `EarlySignal` | 1 process, 2 boards, 1 signal | `AbortReachesAll` **violated** | boards added after the signal are read |
| `Readout` | one board: continuous storage with 1 or 2 channels, with and without fillers, trigger matching with 2 channels; 3, 4 or 7 words, transfers of 2, 1 change of file or mark of a trigger | `TypeOK`, `Recorded`, `HitsComplete`, `LeftOutForErrors`, `PairsSound`, `WidthsRight`, `ScriptAgrees`, `FilesDone` | what was transferred is in the files, edges are paired as they were measured, widths survive the wraps, the monitor gets through |
| `Boards` | trigger matching and TriggerStart with the FPGA, continuous storage without; 2 failures, 3 triggers, 2 bursts, 4 words left in the FPGA, a TDC left as new, configured for pair mode with another window, in the middle of a command, or with an answer unread | `TypeOK`, `HeaderTrue`, `DamageBounded`, `ControlAsAsked`, `ResetReleased`, `MarksBounded`, `HVRecorded` | what failures of the bus, that of the reset included, do to settings, headers, marks and recorded voltages is bounded as stated |
| `Monitoring` | 2 acquisitions of 1 burst and one board that moves or changes detectors, 2 unread messages, a database that may be locked | `AddressesOfOneRun` | whatever a monitor misses, the boards it processes are of one run |
| `WrongRun` | 2 acquisitions, the board changes detectors, no failure | `DrawnAsConfigured` **violated** | monitors are told of a run before its conditions are recorded |

Why the bounds are enough: three connections are the least with which one is handled while another is queued and a third
dies; two descriptors for three clients force both reuse and exhaustion; a stream of two requests is the least in which
one is lost in a read. `PromptKnown` needs a client that is late beside one that is not (of a late one it claims nothing: it stays a plain client, see
the hazards), `DrainedByPing` a client that pings while another has something to be read in the same loop. For data taking, two boards are the
least with which a signal or a death comes between two announcements, and with which `CtrlC()` finds some of the boards; two bursts the
least with which the files of a former burst can be confused with those of the current one; two runs the least in which a burst number
starts again; six signals reach the forced exit. For the readout, transfers of two words are the least that the
words of an event do not fit in, and that a shorter transfer leaves an old word behind; one cut splits an event between files
or a measurement between triggers; the times are chosen so that an edge falls on 0 after the wrap of the counter (both its 21 bits and
the 19 that are kept). For the boards, with one failure the factor 3 of `DamageBounded` is reached, and two are needed to reach that of
`MarksBounded`; the sizes of words are smaller than in the code (2^8 and 2^16 for 2^16 and 2^32) because TLC computes
on 32 bits, and the proof covers every size. For the monitors, two acquisitions are what it takes to mistake one for the other, and two unread messages
what it takes to lose one. Deadlock is not checked: every
process may have ended, or wait for a message that never comes.

### Fairness

`FairSpec` assumes weak fairness of the loop of the master — it never sleeps outside `select()` and `recv()`, and what it waits
for there is part of the guards — and of a client that is connecting (`Announce`, then `AwaitId` or `NoAnswer`: straight-line
code). Nobody has to connect, ask, read, leave or die; the master may be interrupted at any time. A
`recv()` that finds nothing returns after its timeout, so that `PingRead`, `Announcement` and `AnnouncementLost` do not wait for a message for ever. No liveness is
claimed with more clients than descriptors, where it does not hold: the listening socket is the first of the set, `accept()` fails with an exception and
`Receive()` returns before it looks at a client, for as long as the connection is queued (with one descriptor for two clients TLC finds
this loop for `DeathNoticed` and `RequestRead`).

In `DataTaking`, a process runs its code without waiting for anything but a message, for which `recv()` waits a bounded time
(`Proceed`), and the master goes on serving it (`Serve`). `FileChange`, signals, deaths and pings need not happen. `StopEnds` would not
hold of a board that blocks a handshake: accesses to boards return there, and `Boards` shows when they do not (the state "hung").

In `Readout`, the loop of the readout waits for nothing but the bus (`Fetch`), and a monitor that has a file goes on with it (`Monitor`);
words, triggers and signals need not come.

## 9. Proofs

For every set of clients, types, descriptors, process numbers, requests and quotas that satisfies the assumptions named in
`Socket` and `Client` (`FDsAssumption`, `TypeOfAssumption`, `NoneAssumption`, `RequestsAssumption`), whatever timeouts expire:

| Theorem | Statement |
|---|---|
| `TypeCorrect` | `Spec => []TypeOK` |
| `RegistryCorrect` | `Spec => []RegistryConsistent` |
| `OwnIdentifierCorrect` | `Spec => []OwnIdentifier` |
| `MembershipCorrect` | `Spec => MembershipSpec` (refinement of `Membership`) |
| `RunsToldInOrder` | `Spec => []RunsInOrder` |
| `PromptKnownCorrect` | `Spec => PromptKnown`: for every client `c`, `[](InTime(c) => []Known(c))` |
| `StartToldCorrect` | `Spec => [](InTime(c) => StartTold(c))` for every GUI `c` (`StartTold` is an action property) |
| `DrainedByPingCorrect` | `Spec => DrainedByPing` (an action property) |

`RegistryConsistent` is not inductive: `Accept` takes the head of the queue, so the queue must hold distinct connections that are
queued and not empty when `select()` reported the listening socket (`BacklogInv`); `Announcement` and the pings go on with a descriptor
chosen earlier, so it must still be open, and in `AddClient` still of type CLIENT (`WaitingInv`). `TableInv` is the conjunction, and is
preserved by each action.

The refinement needs more, since `DisconnectClient` acts on a number that came in a message: an identifier under way or held
names the connection it was given to until that closes (`IdentifiersInv`), and every removal request in a stream is that of its own
sender, who is leaving or gone, and every announcement gives the type of its sender (`RequestsInv`). `MembershipInv` is the conjunction with
`TableInv`. Under it `Accept` is `Join`, `Announcement` is `Declare` or a stutter, `ClientGone` and `RemoveClient` are `Drop` or a stutter,
`Exit` and `Leave` are `Withdraw`, `Quit` is `Shutdown`, and the rest stutter.

Four theorems go beyond the registry. `AnnouncedInv` adds to `MembershipInv` what makes types known: of a client from which nothing was
read yet (`Untold`), the first message is its announcement (`FirstWordInv`). With a timeout that is not enough to know a type: `AddClient` may
give up before the announcement comes, and the client stays a plain one. `InTime` is the moment at which the announcement is in the stream and
`AddClient` has not read from it; from there on `Promised` is kept by every step (`PromiseKept`): the announcement stays the first message until
it is read (`StillInTime`), reading it registers the type (`AnnouncementRead`), and nothing but the end of the connection takes the entry away or
changes it (`StillKnown`). `StartToldCorrect` follows, as the broadcast goes by the registered types. `OrderInv` says of every stream, not of its last
message only, that the runs told in it increase up to `lastRun`. For `DrainedByPing`, `ScanStep` says of a socket that the loop of
`Receive()` has yet to visit that it keeps what it had to read, if it had, in every step but a read of `PingRead` from that socket: the other handlers
read from the socket just visited, or from a new one. That a ping may drain it is what the code does; the loop then waits
there until the timeout.

The assumption on requests that matters is that nobody sends a REMOVE_CLIENT of its own making for another client: the programs of the
repository send back only the identifier they hold (and a terminal may name the master, which is refused).

For the boards, `TDCProofs` (the micro controller of the TDC and the methods of its driver) and `BoardsProofs` prove for every configuration, every word left in the FPGA, all that an earlier acquisition may have left in the TDC, every number of failures, triggers and bursts, and
all sizes of words that are multiples of 128 (`FailuresAssumption`, `WordAssumption`, `HVAddressAssumption`, `SetupsAssumption`):

| Theorem | Statement |
|---|---|
| `ControlCorrect` | `Spec => []ControlAsAsked` |
| `ResetCorrect` | `Spec => []ResetReleased` |
| `MarksCorrect` | `Spec => []MarksBounded` |
| `HVCorrect` | `Spec => []HVRecorded` |
| `DamageCorrect` | `Spec => []DamageBounded` |
| `HeaderCorrect` | `Spec => []HeaderTrue` |
| `BoardsTyped` | `Spec => []TypeOK` |

`BoardsInv` is a conjunction of one part for each. `ControlInv` rests on the lemma `SetBitBits`: adding `ShortSize - 1` times a bit, modulo
the size of the word, takes the bit away and leaves the others of the control word as they were, since these sizes are multiples of 128.
`MarksInv` is the part that had to be found: `MarksBounded` alone is not inductive, since a scaler that was read as 0 will be read
as new triggers later; `Paid` says of the triggers, the scaler, its last value and the marks that each failure pays for
two marks, the one at 0 and the one that comes back. It holds only from the first burst on, so the invariant knows where the process
is. `HVInv` says nothing of what the buffer of the controller holds: the answer to whatever is transmitted is that of its last
request, or none.

`DamageBounded` says that at most three settings are wrong for each failed access. It is far from inductive: after a failure in the middle of a
command, the micro controller takes later words for operands and operands for commands, so that the damage is done by accesses that succeed.
`Within` counts with the settings that are wrong (`Bad`) the one that the next words may spoil, and adds what is `Due`: words
that are still taken for operands are paid for in advance, and how much depends on the calls to come, since a command of one word
brings the controller back in step more cheaply than one with operands. `Spent` is what one call may add, with or without a failure (`TDCProofs`
shows it of every command and question: no operand that the driver sends is the opcode of a command that takes operands or of
a question, so out of step a word changes the acquisition mode at most); `Pace` says which calls follow each other in the
program. `Within` is preserved by each call because the two fit (`Calling`; `Resetting` is the reset, `Aside`
all that leaves the TDC alone). The account begins before the reset, with a board left in any state: an operand or an answer that it still waits with is
paid for by the reset that failed. That all settings are asked for in the end is `AskedInv`: `SetAt` is the call that sets each, and
`Known(n)` that those of the calls before the `n`-th are as in the file; every call leaves the others alone (`Right`). The fold by which the controller takes the words of a command is unfolded by hand, as a
command has three words at most.

`HeaderInv` adds to `HeaderTrue` the modes that were read since the burst began and are not written yet (`ModesRead`), `TypeInv` that the scaler is
at most the triggers, one more, and those from before the bursts if a `StartScaler()` failed to reset it. The first attempt to prove the
latter failed, rightly: the type in the model had been `0 .. MaxTriggers + 1`, and no run had left the scaler enabled by an earlier
acquisition. The bound is corrected, and the run `Boards` now starts with such a word too.

`MonitoringProofs` proves `AddressesCorrect`, `Spec => []AddressesOfOneRun`, for any configurations, runs, bursts and bound on unread messages
(`MonitoringAssumption`). The invariant adds that the table of conditions is a sequence: rows are added, so what was of a run
stays of it. It also proves of `Canvas` that no two channels share a cell of a display: `GastofCellsDistinct`, `QuarticCellsDistinct`.

For the readout and the monitor that reads its files, `ReadoutProofs` proves for any boards, numbers of channels, sizes of transfers,
times, changes of file and moment of the stop (`SetupsAssumption`, `BoundsAssumption`, `TimesAssumption` of `Readout`), and `HitsProofs` the last two lines:

| Theorem | Statement |
|---|---|
| `ReadoutInv` | `Spec => [](FetchInv /\ JobInv)`, the inductive invariant |
| `TypeCorrect` | `Spec => []TypeOK` |
| `RecordedCorrect` | `Spec => []Recorded` |
| `PairsCorrect` | `Spec => []PairsSound` |
| `LeftOutCorrect` | `Spec => []LeftOutForErrors` |
| `WidthsCorrect` | `Spec => []WidthsRight` |
| `HitsCorrect` | `Spec => []HitsComplete` |
| `ScriptCorrect` | `Spec => []ScriptAgrees` |

All of this is about sequences that are filtered, folded over and joined, and the induction theorems of the library cannot be used. The module
begins with two that can: a *set* of numbers that has 0 and with `n` also `n + 1` is `Nat` (`NatSets`), and a set of sequences over `W` that has
the empty one and is closed under `Append` is `Seq(W)` (`SeqSets`); both follow from the minimal element of a well-founded relation. From them
come what `Only()`, `FoldLeft()` (through its recursion over sets of indices, `FoldOfSets`) and `FlattenSeq()` return for
the empty sequence and for one word more, and from this in turn the lemmas about the pairing of edges (`PairedHits`) and first
occurrences (`FirstsOfOld`, `FirstsOfNew`).

`Recorded` is not inductive: what `FetchEvents()` stores depends on what it finds in the buffer beyond the words it transferred. `BufferOK` says
that the first `pending` words are the last ones of the board, that up to `count` there are only fillers, and that what lies beyond is
0, a filler or a word that was stored before; since the loop runs over four times as many words as were transferred, this is what makes
the repetitions of continuous storage harmless for the order (`StorageEvents`, `StoreRecorded`), and in trigger matching there are none
(`MatchingEvents`). `TimesAssumption`, that the clock of a board does not come back to a time, is needed only here: two equal words could not be
told apart by what the files hold. `JobInv` adds for the monitor that it stands within a file that does not change any more and that its
hits are pairs of edges of 21 bits; `Measured` says what a search from any position of any file returns. The width of `GetToT()` is then arithmetic:
two times cut to 19 bits, and a difference cut to 16 (`Width`).

`HitsComplete` speaks of the end of a file only; a search may stop in the middle of an event, so the invariant says how far it got. `Found` are the
pulses of the parts that ended before a position, `Rest` the edges of the part that is open there, and `Progress` that the hits so far are
`Found` and the pulses of `Rest`, which has as many trailing edges as leading ones — in trigger matching none at all. This is inductive
for a channel whose predecessor was drawn, since only then does it begin at the beginning of the file (`HitsInv`). A search that stops brings it to
its new position (`ProgressMeasured`): in continuous storage because it stops with the first pair (`Unpaired`), so that nothing of a second one is
cut. `SetEventsCollection()` of edges that alternate gives their pulses (`PairsOfAlternating`, by the state of the fold after an
even and an odd number of edges).

`ScriptAgrees` compares two programs that read a file in different ways: the monitor event by event, `DQMReader.py` word by word, keeping the last
edges of each channel until a header clears them. They agree because of what the board writes: a header comes exactly after a trailer
(`FrameInv`, of what the board gave; `FramedCut` takes it to what was transferred before a stop and to each file, `FilesFramed`). With one pulse of
a channel at most in an event, `Told` says of every beginning of a file that the script has counted the hits of the events that ended and
the trailing edge of the one that is open, that its sum is minus their widths, and that between a header and a trailer it keeps just the edges
of the open event; each kind of word preserves it (`TellHeader`, `TellEdge`, `TellTrailer`, `TellOther`). That the open edges are those of one
pulse is known from the end of the file, where the event is complete, so that lemma goes backwards (`OpenPulses`).

For the acquisition processes, `DataTakingProofs` proves for any number of processes, boards, bursts and signals and any `Faults`
(`DataTakingAssumption`):

| Theorem | Statement |
|---|---|
| `TypeCorrect` | `Spec => []TypeOK` |
| `FilesAnnouncedOnce` | `Spec => []AnnouncedOnce` |
| `FilesAnnouncedComplete` | `Spec => []AnnouncedComplete` |
| `StoppedHasToldAll` | `Spec => [](Lossless => AllTold)`, `Lossless` when `Faults` has neither "slow" nor "pings" |

`TypeInv` needs more than `TypeOK`: a file can be sent only because `fOutputFiles` has one for each board in the steps that send, and
its number is within `MaxBursts` because of where a burst begins. `AnnouncedOnce` speaks of what was told, so `AnnouncedInv` adds
what is under way (`StreamInv`), how far the announcements of a process are, by its step (`SentInv`: in the loop over the boards, those up to
`i`), and which files are its current ones and open (`OutInv`: in the same loop, those beyond `i`); the two together give
`AnnouncedComplete`. Steps that announce nothing share one lemma (`QuietStep`), since pings and reads only take messages
away. `CoveredInv` is the converse, that every file of a process that lives is announced or is still to be; it is the only part that a lost message breaks.

Its second part goes on under `Calm`, that `Faults` has nothing but "boards" (what these properties need is said in section 4, and all of it is needed):

| Theorem | Statement |
|---|---|
| `HeadersTrue` | `Calm /\ Spec => []HeaderIdentifiesBurst` |
| `ConditionsKept` | `Calm /\ Spec => []ConditionsRecorded` |
| `RunLogImplemented` | `Calm /\ Spec => RunLogSpec` (refinement of `RunLog`) |

`LogInv` says that at most one process can still change anything (`SoloInv`); that a request for the run is the last thing in the stream of
a process that waits, or its answer the only message on the way back, and gives the last run (`ProtocolInv`); that what a process remembers of the
database between two of its accesses is still so (`MemoryInv`, `RowInv`); that the row number of a burst exceeds its spill, and a row is
there once (`RowsInv`); that files keep the row they were opened for, and only one burst of one process has it (`FilesInv`, `BurstInv`). The run
in a header is then the one of its row, and two headers differ because their rows do. In the refinement, `Serve` of a new run is a new run
of the log, `InsertBurst` a burst, `Serve` of a file the publication of its header, new by `AnnouncedOnce`; the rest stutters.

Only model-checked: the properties under fairness, `DeathNoticed`, `RequestRead`, `Identified`, `StopEnds` and `FilesDone` (liveness and
ENABLED are out of the reach of the prover). Every safety property of the passing runs is a theorem, some under the hypotheses named in the tables.

## 10. Where comments and code differ

The violated runs show four places. `Disconnect()` is said to disconnect the clients, but a forked acquisition process keeps their
streams open (`MasterGone`). The header of the files is said to give run and spill, but the answer to the request may be lost
(`LostRunNumber`). `Abort()` is said to stop all modules, but reaches those known at the time of the first signal only (`EarlySignal`). A
monitor says that detectors of its type are present in the run, but it is told of the run before any condition of it is recorded and falls back on
the former one (`WrongRun`).

Two more need no run. `DisconnectClient()` documents a key "to transmit for disconnection" (`include/Messenger.h:84`) that
it never uses, so that the confirmation for which `Client::Disconnect()` waits does not come: in the model `Leave` and `Close` do not
get one. The master of the tests answers STOP_ACQUISITION to its sender (`test/servesocket.py:19`), the real one tells the monitors only.

## 11. Not modelled

* The GUI (`RunControl.py`) beyond its exchanges with the master: its callbacks run one at a time in the main loop of GTK, and what
  they show depends on widgets. Reading them showed places that a model would only restate: the message that a start
  succeeded may be lost behind the list of clients, the answer to a stop never comes (see the hazards).
* Methods of the drivers that no program calls: test mode, dead time, RC adjustment and FIFO sizes of the TDC, the
  delays, the threshold voltage and single outputs of the FPGA, setting voltages and currents.
* Discriminators, I/O module, bridge and PCI interface: single accesses through the CAEN library, without state.
* Monitors without a type of detector (`daq.cpp`, `db.cpp`), which take every file or none; drawing with ROOT and GTK but for the
  cell of a channel; the text of messages and exceptions.
* The second master that a failed `exec()` leaves behind, which shares every socket with the first.

`PROJECT.json` gives the reason for each component, and for each hazard without a property why there is none.
