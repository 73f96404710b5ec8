-------------------------- MODULE DataTakingProofs --------------------------
(***************************************************************************)
(* Proofs about DataTaking, for any number of processes, boards, bursts    *)
(* and signals and for any faults: its types, that no file is announced    *)
(* before it is closed, nor twice; and, while the master reads all that    *)
(* is sent, that a process that stopped has announced all its files.  Then *)
(* that an acquisition keeps the log of RunLog, as long as nothing but the *)
(* boards fails.                                                           *)
(***************************************************************************)
EXTENDS DataTaking, SequenceTheorems, TLAPS

FileType ==
  [proc : Processes, nth : 1 .. MaxBursts, board : Boards, run : Int, spill : Int, row : Nat]
MemoryType ==
  [ntdc : 0 .. NumTDC, run : Int, spill : Int, current_run : Nat, last_burst : {-1} \cup Nat,
   retried : BOOLEAN, fOutputFiles : Seq(files), i : Nat, row : Nat, bursts : 0 .. MaxBursts]

(* What is sent to the master, and to a process.                           *)
Plain == [key : {"NEW_RUN", "GET_RUN_NUMBER", "EXCEPTION", "NUM_TRIGGERS"}, val : {NoFile}]
Names == [key : {"SET_NEW_FILENAME"}, val : files]
Answers == [key : {"RUN_NUMBER", "PING_CLIENT", "INVALID_KEY"}, val : Int]

DatabaseType ==
  lastRun \in Nat /\ rows \in Seq(Nat \X Nat) /\ conditions \subseteq Nat \X Boards
StreamsType ==
  /\ up \in [Processes -> Seq(Plain \cup Names)]
  /\ down \in [Processes -> Seq(Answers)]
  /\ told \in Seq(files)
ProcessType ==
  /\ step \in [Processes -> Steps]
  /\ tries \in [Processes -> 0 .. MAX_SOCKET_ATTEMPTS - 1]
  /\ mem \in [Processes -> MemoryType]
  /\ out \in [Processes -> SUBSET Boards]
SignalType ==
  gEnd \in [Processes -> 0 .. MaxSignals] /\ aborted \in [Processes -> SUBSET Boards]

(* When a process may begin a burst, when it is in one, and when it has a  *)
(* file for each board.                                                    *)
BurstsInv ==
  \A p \in Processes :
    /\ step[p] \in {"idle", "configure", "ask new run", "ask copy", "ask header", "last run",
                    "last burst", "insert", "close"} => mem[p].bursts < MaxBursts
    /\ step[p] \in {"ask burst", "open", "readout", "close", "stop"} => mem[p].bursts >= 1
    /\ step[p] \in {"readout", "close", "stop"} => Len(mem[p].fOutputFiles) = mem[p].ntdc

TypeInv ==
  /\ DatabaseType /\ StreamsType /\ ProcessType /\ SignalType /\ BurstsInv
  /\ files \subseteq FileType
-----------------------------------------------------------------------------
(* Messages and streams.                                                   *)

LEMMA PlainMessages ==
  /\ GetRun \in Plain /\ ExceptionLine \in Plain
  /\ Message("NEW_RUN", NoFile) \in Plain /\ Message("NUM_TRIGGERS", NoFile) \in Plain
  /\ \A f \in files : Message("SET_NEW_FILENAME", f) \in Names
  /\ \A n \in Int : Message("RUN_NUMBER", n) \in Answers
  /\ Message("PING_CLIENT", 0) \in Answers /\ NoMessage \in Answers
BY DEF GetRun, ExceptionLine, Message, Plain, Names, Answers, NoMessage

LEMMA ReadsProperties ==
  ASSUME NEW S, NEW stream \in Seq(S), NEW r \in Reads(stream)
  PROVE  /\ r.msg = stream[1] /\ r.msg \in S /\ Len(stream) >= 1
         /\ \E n \in 1 .. Len(stream) : r.rest = SubSeq(stream, n + 1, Len(stream))
         /\ r.rest \in Seq(S)
<1>1. PICK n \in 1 .. Len(stream) :
        r = [msg |-> Head(stream), rest |-> SubSeq(stream, n + 1, Len(stream))]
  BY DEF Reads
<1>2. stream # <<>> /\ Head(stream) = stream[1] /\ stream[1] \in S
  BY <1>1
<1>3. \A i \in n + 1 .. Len(stream) : stream[i] \in S
  BY <1>1
<1>4. r.rest \in Seq(S)
  BY <1>1, <1>3, SubSeqProperties
<1>5. QED
  BY <1>1, <1>2, <1>4

LEMMA FetchProperties ==
  ASSUME StreamsType, NEW p \in Processes, NEW r \in Fetch(p)
  PROVE  r.msg \in Answers /\ r.msg.val \in Int /\ r.rest \in Seq(Answers)
<1>1. down[p] \in Seq(Answers)
  BY DEF StreamsType
<1>2. CASE r \in Reads(down[p])
  <2>1. r.msg \in Answers /\ r.rest \in Seq(Answers)
    BY <1>1, <1>2, ReadsProperties
  <2>2. QED
    BY <2>1 DEF Answers
<1>3. CASE r = [msg |-> NoMessage, rest |-> <<>>]
  BY <1>3, PlainMessages DEF NoMessage, Message
<1>4. QED
  BY <1>2, <1>3 DEF Fetch

(* Sends appends messages that the master can read.                        *)
LEMMA SendsType ==
  ASSUME StreamsType, NEW p \in Processes, NEW msgs \in Seq(Plain \cup Names), Sends(p, msgs)
  PROVE  up' \in [Processes -> Seq(Plain \cup Names)]
<1>1. up[p] \o msgs \in Seq(Plain \cup Names)
  BY ConcatProperties DEF StreamsType
<1>2. QED
  BY <1>1 DEF Sends, StreamsType

LEMMA AnswerType ==
  ASSUME StreamsType, ProcessType, NEW p \in Processes, NEW r \in Fetch(p), Answer(p, r)
  PROVE  /\ down' \in [Processes -> Seq(Answers)]
         /\ tries' \in [Processes -> 0 .. MAX_SOCKET_ATTEMPTS - 1]
         /\ r.msg.val \in Int
BY FetchProperties DEF Answer, StreamsType, ProcessType, MAX_SOCKET_ATTEMPTS

(* Rows of the table of bursts.                                            *)
LEMMA BurstsAreNumbers ==
  ASSUME DatabaseType, NEW run
  PROVE  BurstsOf(run) \subseteq Nat
BY DEF DatabaseType, BurstsOf
(* Types.                                                                  *)

LEMMA Memory0Type == Memory0 \in MemoryType /\ Memory0.bursts = 0
BY DataTakingAssumption DEF Memory0, MemoryType

LEMMA EndsType ==
  ASSUME TypeInv, NEW p \in Processes, NEW how \in {"done", "dead"}, Ends(p, how), files' = files
  PROVE  ProcessType' /\ SignalType' /\ BurstsInv' /\ down' \in [Processes -> Seq(Answers)]
<1> USE DEF TypeInv
<1>1. mem' \in [Processes -> MemoryType] /\ MemoryType' = MemoryType
  BY Memory0Type DEF Ends, ProcessType, MemoryType
<1>2. step' \in [Processes -> Steps]
  BY DEF Ends, Goes, ProcessType, Steps
<1>3. tries' \in [Processes -> 0 .. MAX_SOCKET_ATTEMPTS - 1]
  BY DEF Ends, ProcessType, MAX_SOCKET_ATTEMPTS
<1>4. out' \in [Processes -> SUBSET Boards]
  BY DEF Ends, ProcessType
<1>5. gEnd' \in [Processes -> 0 .. MaxSignals] /\ aborted' \in [Processes -> SUBSET Boards]
  BY DataTakingAssumption DEF Ends, SignalType
<1>6. down' \in [Processes -> Seq(Answers)]
  BY DEF Ends, StreamsType
<1>7. BurstsInv'
  BY DEF Ends, Goes, ProcessType, BurstsInv
<1>8. QED
  BY <1>1, <1>2, <1>3, <1>4, <1>5, <1>6, <1>7 DEF ProcessType, SignalType

(* A step that changes the memory and the place of one process.            *)
LEMMA MovesType ==
  ASSUME TypeInv, NEW p \in Processes, NEW to \in Steps, NEW m \in MemoryType,
         Goes(p, to), mem' = [mem EXCEPT ![p] = m], files' = files,
         to \in {"idle", "configure", "ask new run", "ask copy", "ask header", "last run",
                 "last burst", "insert", "close"} => m.bursts < MaxBursts,
         to \in {"ask burst", "open", "readout", "close", "stop"} => m.bursts >= 1,
         to \in {"readout", "close", "stop"} => Len(m.fOutputFiles) = m.ntdc
  PROVE  /\ step' \in [Processes -> Steps]
         /\ mem' \in [Processes -> MemoryType] /\ MemoryType' = MemoryType
         /\ BurstsInv'
<1>1. step' \in [Processes -> Steps] /\ mem' \in [Processes -> MemoryType]
  BY DEF TypeInv, ProcessType, Goes
<1>2. \A q \in Processes : q # p => step'[q] = step[q] /\ mem'[q] = mem[q]
  BY DEF TypeInv, ProcessType, Goes
<1>3. step'[p] = to /\ mem'[p] = m
  BY DEF TypeInv, ProcessType, Goes
<1>4. BurstsInv'
  BY <1>2, <1>3 DEF TypeInv, BurstsInv
<1>5. QED
  BY <1>1, <1>4 DEF MemoryType

LEMMA StillsType ==
  ASSUME TypeInv, NEW p \in Processes, NEW to \in Steps, Goes(p, to), UNCHANGED <<mem, files>>,
         to \in {"idle", "configure", "ask new run", "ask copy", "ask header", "last run",
                 "last burst", "insert", "close"} => mem[p].bursts < MaxBursts,
         to \in {"ask burst", "open", "readout", "close", "stop"} => mem[p].bursts >= 1,
         to \in {"readout", "close", "stop"} => Len(mem[p].fOutputFiles) = mem[p].ntdc
  PROVE  /\ step' \in [Processes -> Steps]
         /\ mem' \in [Processes -> MemoryType] /\ MemoryType' = MemoryType
         /\ BurstsInv'
<1>1. mem[p] \in MemoryType /\ mem' = [mem EXCEPT ![p] = mem[p]]
  BY DEF TypeInv, ProcessType
<1>2. QED
  BY <1>1, MovesType

(* Messages in a row.                                                      *)
LEMMA MessagesType ==
  /\ <<ExceptionLine>> \in Seq(Plain \cup Names)
  /\ <<GetRun>> \in Seq(Plain \cup Names)
  /\ <<ExceptionLine, GetRun>> \in Seq(Plain \cup Names)
  /\ <<Message("NEW_RUN", NoFile), GetRun>> \in Seq(Plain \cup Names)
  /\ <<ExceptionLine, Message("NUM_TRIGGERS", NoFile)>> \in Seq(Plain \cup Names)
  /\ \A f \in files : <<Message("SET_NEW_FILENAME", f)>> \in Seq(Plain \cup Names)
BY PlainMessages

(* What a step leaves of the types.                                        *)
LEMMA Kept ==
  ASSUME TypeInv
  PROVE  /\ UNCHANGED dbVars => DatabaseType'
         /\ UNCHANGED signalVars => SignalType'
         /\ UNCHANGED up => up' \in [Processes -> Seq(Plain \cup Names)]
         /\ UNCHANGED down => down' \in [Processes -> Seq(Answers)]
         /\ UNCHANGED told => told' \in Seq(files)
         /\ UNCHANGED tries => tries' \in [Processes -> 0 .. MAX_SOCKET_ATTEMPTS - 1]
         /\ UNCHANGED out => out' \in [Processes -> SUBSET Boards]
BY DEF TypeInv, DatabaseType, StreamsType, ProcessType, SignalType, dbVars, signalVars

LEMMA Assembled ==
  ASSUME TypeInv, files' = files, DatabaseType', SignalType', BurstsInv',
         up' \in [Processes -> Seq(Plain \cup Names)], down' \in [Processes -> Seq(Answers)],
         told' \in Seq(files), step' \in [Processes -> Steps],
         tries' \in [Processes -> 0 .. MAX_SOCKET_ATTEMPTS - 1],
         mem' \in [Processes -> MemoryType], MemoryType' = MemoryType,
         out' \in [Processes -> SUBSET Boards]
  PROVE  TypeInv'
<1>1. StreamsType'
  BY DEF StreamsType, Names
<1>2. ProcessType'
  BY DEF ProcessType
<1>3. (files \subseteq FileType)'
  BY DEF TypeInv, FileType
<1>4. QED
  BY <1>1, <1>2, <1>3 DEF TypeInv

LEMMA FailsType ==
  ASSUME TypeInv, NEW p \in Processes, Fails(p)
  PROVE  TypeInv'
<1>1. files' = files /\ Ends(p, "dead") /\ Sends(p, <<ExceptionLine>>)
  BY DEF Fails
<1>2. ProcessType' /\ SignalType' /\ BurstsInv' /\ down' \in [Processes -> Seq(Answers)]
  BY <1>1, EndsType
<1>3. up' \in [Processes -> Seq(Plain \cup Names)]
  BY <1>1, SendsType, MessagesType DEF TypeInv
<1>4. QED
  <2>1. UNCHANGED dbVars /\ told' = told
    BY DEF Fails
  <2>2. QED
    <3>1. MemoryType' = MemoryType
      BY <1>1 DEF MemoryType
    <3>2. /\ step' \in [Processes -> Steps]
          /\ tries' \in [Processes -> 0 .. MAX_SOCKET_ATTEMPTS - 1]
          /\ mem' \in [Processes -> MemoryType]
          /\ out' \in [Processes -> SUBSET Boards]
      BY <1>2, <3>1 DEF ProcessType
    <3>3. QED
      BY <1>1, <1>2, <1>3, <2>1, <3>1, <3>2, Kept, Assembled

(* Up to the loop.                                                         *)
LEMMA ConfigurationType ==
  ASSUME TypeInv, NEW p \in Processes,
         \/ Start(p) \/ RunPrinted(p) \/ AddTDC(p) \/ ConfigurationFails(p)
         \/ CopyConfiguration(p) \/ AskHeader(p) \/ Header(p) \/ FetchAgain(p)
  PROVE  TypeInv'
<1>a. /\ DatabaseType /\ StreamsType /\ ProcessType /\ SignalType /\ BurstsInv
      /\ mem[p] \in MemoryType /\ mem[p].ntdc \in 0 .. NumTDC
  BY DEF TypeInv, ProcessType, MemoryType
<1>1. CASE Start(p)
  <2>1. /\ files' = files /\ Goes(p, "ask new run") /\ mem' = mem
        /\ Sends(p, <<Message("NEW_RUN", NoFile), GetRun>>) /\ step[p] = "idle"
    BY <1>1 DEF Start
  <2>2. up' \in [Processes -> Seq(Plain \cup Names)]
    BY <2>1, <1>a, SendsType, MessagesType
  <2>3. /\ step' \in [Processes -> Steps]
        /\ mem' \in [Processes -> MemoryType] /\ MemoryType' = MemoryType /\ BurstsInv'
    BY <2>1, <1>a, StillsType DEF BurstsInv, Steps, Waiting
  <2>4. QED
    BY <1>1, <2>1, <2>2, <2>3, Kept, Assembled
    DEF Start, dbVars, signalVars
<1>2. CASE RunPrinted(p)
  <2>1. PICK r \in Fetch(p) : Answer(p, r)
    BY <1>2 DEF RunPrinted
  <2>2. /\ files' = files /\ Goes(p, "configure") /\ mem' = mem
        /\ Sends(p, <<ExceptionLine>>) /\ step[p] = "ask new run"
    BY <1>2 DEF RunPrinted
  <2>3. up' \in [Processes -> Seq(Plain \cup Names)]
    BY <2>2, <1>a, SendsType, MessagesType
  <2>4. /\ step' \in [Processes -> Steps]
        /\ mem' \in [Processes -> MemoryType] /\ MemoryType' = MemoryType /\ BurstsInv'
    BY <2>2, <1>a, StillsType DEF BurstsInv, Steps
  <2>5. /\ down' \in [Processes -> Seq(Answers)]
        /\ tries' \in [Processes -> 0 .. MAX_SOCKET_ATTEMPTS - 1]
    BY <2>1, <1>a, AnswerType
  <2>6. QED
    BY <1>2, <2>2, <2>3, <2>4, <2>5, Kept, Assembled
    DEF RunPrinted, dbVars, signalVars
<1>3. CASE AddTDC(p)
  <2> DEFINE m == [mem[p] EXCEPT !.ntdc = mem[p].ntdc + 1]
  <2>1. /\ files' = files /\ step[p] = "configure" /\ mem[p].ntdc + 1 \in Boards
        /\ mem' = [mem EXCEPT ![p] = m]
    BY <1>3 DEF AddTDC
  <2>2. m \in MemoryType /\ m.bursts = mem[p].bursts
    <3>1. mem[p].ntdc + 1 \in 0 .. NumTDC
      BY <2>1, DataTakingAssumption DEF Boards
    <3>2. QED
      BY <3>1, <1>a DEF MemoryType
  <2>3. \/ Sends(p, <<ExceptionLine>>) /\ step' = step
        \/ Sends(p, <<ExceptionLine, GetRun>>) /\ Goes(p, "ask header")
    BY <1>3 DEF AddTDC
  <2>4. up' \in [Processes -> Seq(Plain \cup Names)]
    BY <2>3, <1>a, SendsType, MessagesType
  <2>5. /\ step' \in [Processes -> Steps]
        /\ mem' \in [Processes -> MemoryType] /\ MemoryType' = MemoryType /\ BurstsInv'
    <3> HIDE DEF m
    <3>1. Goes(p, "configure") \/ Goes(p, "ask header")
      BY <2>1, <2>3, <1>a DEF Goes, ProcessType
    <3>2. mem[p].bursts < MaxBursts
      BY <2>1, <1>a DEF BurstsInv
    <3>3. "configure" \in Steps /\ "ask header" \in Steps
      BY DEF Steps, Waiting
    <3>4. CASE Goes(p, "configure")
      BY <3>2, <3>3, <3>4, <2>1, <2>2, MovesType
    <3>5. CASE Goes(p, "ask header")
      BY <3>2, <3>3, <3>5, <2>1, <2>2, MovesType
    <3>6. QED
      BY <3>1, <3>4, <3>5
  <2>6. DatabaseType'
    <3>1. /\ lastRun' = lastRun /\ rows' = rows
          /\ \/ conditions' = conditions
             \/ lastRun > 0 /\ conditions' = conditions \cup {<<lastRun, mem[p].ntdc + 1>>}
      BY <1>3 DEF AddTDC
    <3>2. lastRun \in Nat /\ rows \in Seq(Nat \X Nat) /\ conditions \subseteq Nat \X Boards
      BY <1>a DEF DatabaseType
    <3>3. conditions' \subseteq Nat \X Boards
      BY <3>1, <3>2, <2>1
    <3>4. QED
      BY <3>1, <3>2, <3>3 DEF DatabaseType
  <2>7. QED
    BY <1>3, <2>1, <2>4, <2>5, <2>6, Kept, Assembled DEF AddTDC
<1>4. CASE ConfigurationFails(p) \/ CopyConfiguration(p)
  <2>1. /\ files' = files /\ mem' = mem /\ step[p] = "configure"
        /\ Goes(p, "ask header") \/ Goes(p, "ask copy")
        /\ Sends(p, <<ExceptionLine, GetRun>>) \/ Sends(p, <<GetRun>>)
    BY <1>4 DEF ConfigurationFails, CopyConfiguration
  <2>2. up' \in [Processes -> Seq(Plain \cup Names)]
    BY <2>1, <1>a, SendsType, MessagesType
  <2>3. /\ step' \in [Processes -> Steps]
        /\ mem' \in [Processes -> MemoryType] /\ MemoryType' = MemoryType /\ BurstsInv'
    BY <2>1, <1>a, StillsType DEF BurstsInv, Steps, Waiting
  <2>4. QED
    BY <1>4, <2>1, <2>2, <2>3, Kept, Assembled
    DEF ConfigurationFails, CopyConfiguration, dbVars, signalVars
<1>5. CASE AskHeader(p)
  <2>1. PICK r \in Fetch(p) : Answer(p, r)
    BY <1>5 DEF AskHeader
  <2>2. /\ files' = files /\ Goes(p, "ask header") /\ mem' = mem
        /\ Sends(p, <<ExceptionLine, GetRun>>) /\ step[p] = "ask copy"
    BY <1>5 DEF AskHeader
  <2>3. up' \in [Processes -> Seq(Plain \cup Names)]
    BY <2>2, <1>a, SendsType, MessagesType
  <2>4. /\ step' \in [Processes -> Steps]
        /\ mem' \in [Processes -> MemoryType] /\ MemoryType' = MemoryType /\ BurstsInv'
    BY <2>2, <1>a, StillsType DEF BurstsInv, Steps, Waiting
  <2>5. /\ down' \in [Processes -> Seq(Answers)]
        /\ tries' \in [Processes -> 0 .. MAX_SOCKET_ATTEMPTS - 1]
    BY <2>1, <1>a, AnswerType
  <2>6. QED
    BY <1>5, <2>2, <2>3, <2>4, <2>5, Kept, Assembled
    DEF AskHeader, dbVars, signalVars
<1>6. CASE Header(p)
  <2>1. PICK r \in Fetch(p) : Answer(p, r) /\ mem' = [mem EXCEPT ![p].run = r.msg.val]
    BY <1>6 DEF Header
  <2>2. files' = files /\ Goes(p, "last run") /\ step[p] = "ask header"
    BY <1>6 DEF Header
  <2>3. /\ down' \in [Processes -> Seq(Answers)]
        /\ tries' \in [Processes -> 0 .. MAX_SOCKET_ATTEMPTS - 1]
        /\ r.msg.val \in Int
    BY <2>1, <1>a, AnswerType
  <2> DEFINE m == [mem[p] EXCEPT !.run = r.msg.val]
  <2>4. m \in MemoryType /\ m.bursts = mem[p].bursts
    BY <2>3, <1>a DEF MemoryType
  <2>5. /\ step' \in [Processes -> Steps]
        /\ mem' \in [Processes -> MemoryType] /\ MemoryType' = MemoryType /\ BurstsInv'
    <3>1. mem' = [mem EXCEPT ![p] = m]
      BY <2>1
    <3> HIDE DEF m
    <3>2. "last run" \in Steps /\ mem[p].bursts < MaxBursts
      BY <2>2, <1>a DEF Steps, BurstsInv
    <3>3. QED
      BY <3>1, <3>2, <2>2, <2>4, MovesType
  <2>6. QED
    BY <1>6, <2>2, <2>3, <2>5, Kept, Assembled
    DEF Header, dbVars, signalVars
<1>7. CASE FetchAgain(p)
  <2>1. PICK r \in Fetch(p) : ~IsAnswer(p, r) /\ down' = [down EXCEPT ![p] = r.rest]
    BY <1>7 DEF FetchAgain
  <2>2. r.rest \in Seq(Answers)
    BY <1>a, FetchProperties
  <2>3. tries' \in [Processes -> 0 .. MAX_SOCKET_ATTEMPTS - 1]
    BY <1>7, <2>1, <1>a DEF FetchAgain, IsAnswer, ProcessType, MAX_SOCKET_ATTEMPTS
  <2>4. QED
    <3>1. down' \in [Processes -> Seq(Answers)]
      BY <2>1, <2>2, <1>a DEF StreamsType
    <3>2. UNCHANGED <<dbVars, up, told, files, step, mem, out, signalVars>>
      BY <1>7 DEF FetchAgain
    <3>3. /\ step' \in [Processes -> Steps]
          /\ mem' \in [Processes -> MemoryType] /\ MemoryType' = MemoryType /\ BurstsInv'
      BY <3>2, <1>a DEF ProcessType, MemoryType, BurstsInv
    <3>4. QED
      BY <2>3, <3>1, <3>2, <3>3, Kept, Assembled
<1>8. QED
  BY <1>1, <1>2, <1>3, <1>4, <1>5, <1>6, <1>7

(* One burst.                                                              *)
LEMMA RetryType ==
  ASSUME TypeInv, NEW p \in Processes, Retry(p), step[p] \in {"last run", "insert"}
  PROVE  TypeInv'
<1>1. CASE mem[p].retried
  BY <1>1, FailsType DEF Retry
<1>2. CASE ~mem[p].retried
  <2> DEFINE m == [mem[p] EXCEPT !.retried = TRUE]
  <2>1. /\ mem' = [mem EXCEPT ![p] = m] /\ Goes(p, "last run")
        /\ UNCHANGED <<dbVars, masterVars, files, tries, out, signalVars>>
    BY <1>2 DEF Retry
  <2>2. m \in MemoryType
    BY DEF TypeInv, ProcessType, MemoryType
  <2>3. m.bursts = mem[p].bursts /\ mem[p].bursts < MaxBursts
    BY DEF TypeInv, ProcessType, MemoryType, BurstsInv
  <2>4. "last run" \in Steps
    BY DEF Steps
  <2> HIDE DEF m
  <2>5. /\ step' \in [Processes -> Steps]
        /\ mem' \in [Processes -> MemoryType] /\ MemoryType' = MemoryType /\ BurstsInv'
    BY <2>1, <2>2, <2>3, <2>4, MovesType
  <2>6. QED
    BY <2>1, <2>5, Kept, Assembled DEF masterVars
<1>3. QED
  BY <1>1, <1>2

LEMMA FileInType ==
  ASSUME TypeInv, NEW p \in Processes, NEW b \in 1 .. mem[p].ntdc, mem[p].bursts >= 1
  PROVE  File(p, b) \in FileType
<1>1. /\ mem[p].ntdc \in 0 .. NumTDC /\ mem[p].run \in Int /\ mem[p].spill \in Int
      /\ mem[p].row \in Nat /\ mem[p].bursts \in 0 .. MaxBursts
  BY DEF TypeInv, ProcessType, MemoryType
<1>2. b \in Boards /\ mem[p].bursts \in 1 .. MaxBursts
  BY <1>1, DataTakingAssumption DEF Boards
<1>3. QED
  BY <1>1, <1>2 DEF File, FileType

LEMMA OpenFilesType ==
  ASSUME TypeInv, NEW p \in Processes, OpenFiles(p)
  PROVE  TypeInv'
<1> DEFINE names == [b \in 1 .. mem[p].ntdc |-> File(p, b)]
<1>1. /\ step[p] = "open" /\ Goes(p, "readout")
      /\ files' = files \cup {names[b] : b \in DOMAIN names}
      /\ mem' = [mem EXCEPT ![p].fOutputFiles = names]
      /\ out' = [out EXCEPT ![p] = DOMAIN names]
      /\ UNCHANGED <<dbVars, masterVars, tries, signalVars>>
  BY DEF OpenFiles
<1>2. mem[p] \in MemoryType /\ mem[p].ntdc \in 0 .. NumTDC /\ mem[p].bursts >= 1
  BY <1>1 DEF TypeInv, ProcessType, MemoryType, BurstsInv
<1>3. \A b \in DOMAIN names : names[b] \in FileType
  BY <1>2, FileInType
<1>4. (files \subseteq FileType)'
  BY <1>1, <1>3 DEF TypeInv, FileType
<1>5. /\ names \in Seq(files') /\ Len(names) = mem[p].ntdc
      /\ files \subseteq files' /\ DOMAIN names \subseteq Boards
  <2>1. DOMAIN names = 1 .. mem[p].ntdc /\ mem[p].ntdc \in Nat
    BY <1>2, DataTakingAssumption
  <2>2. \A b \in 1 .. mem[p].ntdc : names[b] \in files'
    BY <1>1
  <2>3. names \in Seq(files')
    BY <2>1, <2>2, SeqDef
  <2>4. QED
    BY <1>1, <1>2, <2>1, <2>3, DataTakingAssumption DEF Boards
<1> HIDE DEF names
<1>6. \A m \in MemoryType : m \in MemoryType'
  BY <1>5, SeqMonotonic DEF MemoryType
<1>7. [mem[p] EXCEPT !.fOutputFiles = names] \in MemoryType'
  <2>1. mem[p] \in MemoryType'
    BY <1>2, <1>6
  <2>2. QED
    BY <2>1, <1>5 DEF MemoryType
<1>8. StreamsType'
  <2>1. Plain \cup Names \subseteq (Plain \cup Names)'
    BY <1>5 DEF Plain, Names
  <2>2. up' = up /\ down' = down /\ told' = told
    BY <1>1 DEF masterVars
  <2>3. /\ up \in [Processes -> Seq(Plain \cup Names)]
        /\ down \in [Processes -> Seq(Answers)] /\ told \in Seq(files)
    BY DEF TypeInv, StreamsType
  <2>4. told' \in Seq(files')
    BY <1>5, <2>2, <2>3, SeqMonotonic
  <2>5. \A q \in Processes : up[q] \in Seq((Plain \cup Names)')
    BY <2>1, <2>3, SeqMonotonic
  <2>6. up' \in [Processes -> Seq((Plain \cup Names)')]
    BY <2>2, <2>3, <2>5
  <2>7. QED
    BY <2>2, <2>3, <2>4, <2>6 DEF StreamsType, Answers
<1>9. ProcessType'
  <2>1. mem' \in [Processes -> MemoryType']
    BY <1>1, <1>6, <1>7 DEF TypeInv, ProcessType
  <2>2. step' \in [Processes -> Steps]
    BY <1>1 DEF TypeInv, ProcessType, Goes, Steps
  <2>3. out' \in [Processes -> SUBSET Boards] /\ tries' = tries
    BY <1>1, <1>5 DEF TypeInv, ProcessType
  <2>4. QED
    BY <2>1, <2>2, <2>3 DEF TypeInv, ProcessType
<1>10. BurstsInv'
  <2>1. /\ mem'[p].bursts = mem[p].bursts /\ mem'[p].ntdc = mem[p].ntdc
        /\ mem'[p].fOutputFiles = names
    BY <1>1, <1>2 DEF TypeInv, ProcessType, MemoryType
  <2>2. \A q \in Processes : q # p => mem'[q] = mem[q] /\ step'[q] = step[q]
    BY <1>1 DEF Goes, TypeInv, ProcessType
  <2>3. step'[p] = "readout"
    BY <1>1 DEF Goes, TypeInv, ProcessType
  <2>4. QED
    BY <1>2, <1>5, <2>1, <2>2, <2>3 DEF TypeInv, BurstsInv
<1>11. QED
  BY <1>1, <1>4, <1>8, <1>9, <1>10, Kept DEF TypeInv

LEMMA BurstType ==
  ASSUME TypeInv, NEW p \in Processes,
         \/ LastRun(p) \/ LastBurst(p) \/ InsertBurst(p) \/ BurstNumber(p) \/ NoBurstNumber(p)
         \/ OpenFiles(p) \/ FileChange(p) \/ SendOutputFile(p) \/ NextBurst(p)
  PROVE  TypeInv'
<1>a. /\ DatabaseType /\ StreamsType /\ ProcessType /\ SignalType /\ BurstsInv
      /\ mem[p] \in MemoryType /\ mem[p].ntdc \in 0 .. NumTDC
  BY DEF TypeInv, ProcessType, MemoryType
<1>1. CASE LastRun(p)
  <2>1. step[p] = "last run"
    BY <1>1 DEF LastRun
  <2>2. CASE Retry(p)
    BY <2>1, <2>2, RetryType
  <2>3. CASE ~Retry(p)
    <3> DEFINE m == [mem[p] EXCEPT !.current_run = lastRun]
    <3>1. /\ mem' = [mem EXCEPT ![p] = m] /\ Goes(p, "last burst")
          /\ UNCHANGED <<dbVars, masterVars, files, tries, out, signalVars>>
      BY <1>1, <2>3 DEF LastRun
    <3>2. m \in MemoryType
      BY <1>a DEF MemoryType, DatabaseType
    <3>3. m.bursts = mem[p].bursts /\ mem[p].bursts < MaxBursts /\ "last burst" \in Steps
      BY <2>1, <1>a DEF MemoryType, BurstsInv, Steps
    <3> HIDE DEF m
    <3>4. /\ step' \in [Processes -> Steps]
          /\ mem' \in [Processes -> MemoryType] /\ MemoryType' = MemoryType /\ BurstsInv'
      BY <3>1, <3>2, <3>3, MovesType
    <3>5. QED
      BY <3>1, <3>4, Kept, Assembled DEF masterVars
  <2>4. QED
    BY <2>2, <2>3
<1>2. CASE LastBurst(p)
  <2>1. PICK b \in BurstsOf(mem[p].current_run) \cup {-1, 0} :
          mem' = [mem EXCEPT ![p].last_burst = b]
    BY <1>2 DEF LastBurst
  <2>2. /\ step[p] = "last burst" /\ Goes(p, "insert")
        /\ UNCHANGED <<dbVars, masterVars, files, tries, out, signalVars>>
    BY <1>2 DEF LastBurst
  <2>3. b \in {-1} \cup Nat
    BY <1>a, BurstsAreNumbers
  <2> DEFINE m == [mem[p] EXCEPT !.last_burst = b]
  <2>4. m \in MemoryType
    BY <2>3, <1>a DEF MemoryType
  <2>5. m.bursts = mem[p].bursts /\ mem[p].bursts < MaxBursts /\ "insert" \in Steps
    BY <2>2, <1>a DEF MemoryType, BurstsInv, Steps
  <2>6. mem' = [mem EXCEPT ![p] = m]
    BY <2>1
  <2> HIDE DEF m
  <2>7. /\ step' \in [Processes -> Steps]
        /\ mem' \in [Processes -> MemoryType] /\ MemoryType' = MemoryType /\ BurstsInv'
    BY <2>2, <2>4, <2>5, <2>6, MovesType
  <2>8. QED
    BY <2>2, <2>7, Kept, Assembled DEF masterVars
<1>3. CASE InsertBurst(p)
  <2>1. step[p] = "insert"
    BY <1>3 DEF InsertBurst
  <2>2. CASE Retry(p)
    BY <2>1, <2>2, RetryType
  <2>3. CASE ~Retry(p)
    <3> DEFINE m == [mem[p] EXCEPT !.row = Len(rows) + 1, !.retried = FALSE,
                                   !.bursts = mem[p].bursts + 1]
    <3>1. /\ mem' = [mem EXCEPT ![p] = m] /\ Goes(p, "ask burst") /\ Sends(p, <<GetRun>>)
          /\ rows' = Append(rows, <<mem[p].current_run, mem[p].last_burst + 1>>)
          /\ UNCHANGED <<lastRun, conditions, down, told, files, tries, out, signalVars>>
      BY <1>3, <2>3 DEF InsertBurst
    <3>2. mem[p].bursts + 1 \in 1 .. MaxBursts
      <4>1. mem[p].bursts \in 0 .. MaxBursts
        BY <1>a DEF MemoryType
      <4>2. mem[p].bursts < MaxBursts
        BY <2>1, <1>a DEF BurstsInv
      <4>3. QED
        BY <4>1, <4>2, DataTakingAssumption
    <3>3. Len(rows) \in Nat /\ mem[p].current_run \in Nat /\ mem[p].last_burst + 1 \in Nat
      BY <1>a, SMTT(40) DEF DatabaseType, MemoryType
    <3>4. m \in MemoryType /\ m.bursts >= 1
      <4>1. mem[p].bursts + 1 \in 0 .. MaxBursts /\ mem[p].bursts + 1 >= 1
        BY <3>2
      <4>2. Len(rows) + 1 \in Nat
        BY <3>3
      <4>3. QED
        BY <4>1, <4>2, <1>a DEF MemoryType
    <3> HIDE DEF m
    <3>5. "ask burst" \in Steps
      BY DEF Steps, Waiting
    <3>6. /\ step' \in [Processes -> Steps]
          /\ mem' \in [Processes -> MemoryType] /\ MemoryType' = MemoryType /\ BurstsInv'
      BY <3>1, <3>4, <3>5, MovesType
    <3>7. up' \in [Processes -> Seq(Plain \cup Names)]
      BY <3>1, <1>a, SendsType, MessagesType
    <3>8. DatabaseType'
      <4>1. <<mem[p].current_run, mem[p].last_burst + 1>> \in Nat \X Nat
        BY <3>3
      <4>2. rows' \in Seq(Nat \X Nat)
        BY <3>1, <4>1, <1>a, AppendProperties DEF DatabaseType
      <4>3. QED
        BY <3>1, <4>2, <1>a DEF DatabaseType
    <3>9. QED
      BY <3>1, <3>6, <3>7, <3>8, Kept, Assembled
  <2>4. QED
    BY <2>2, <2>3
<1>4. CASE BurstNumber(p)
  <2>1. PICK r \in Fetch(p) :
          Answer(p, r) /\ \E b \in BurstsOf(r.msg.val) : mem' = [mem EXCEPT ![p].spill = b]
    BY <1>4 DEF BurstNumber
  <2>2. PICK b \in BurstsOf(r.msg.val) : mem' = [mem EXCEPT ![p].spill = b]
    BY <2>1
  <2>3. b \in Int
    BY <1>a, BurstsAreNumbers
  <2>4. /\ step[p] = "ask burst" /\ Goes(p, "open")
        /\ UNCHANGED <<dbVars, up, told, files, out, signalVars>>
    BY <1>4 DEF BurstNumber
  <2>5. /\ down' \in [Processes -> Seq(Answers)]
        /\ tries' \in [Processes -> 0 .. MAX_SOCKET_ATTEMPTS - 1]
    BY <2>1, <1>a, AnswerType
  <2> DEFINE m == [mem[p] EXCEPT !.spill = b]
  <2>6. m \in MemoryType /\ m.bursts = mem[p].bursts
    BY <2>3, <1>a DEF MemoryType
  <2>7. mem[p].bursts >= 1 /\ "open" \in Steps /\ mem' = [mem EXCEPT ![p] = m]
    BY <2>2, <2>4, <1>a DEF BurstsInv, Steps
  <2> HIDE DEF m
  <2>8. /\ step' \in [Processes -> Steps]
        /\ mem' \in [Processes -> MemoryType] /\ MemoryType' = MemoryType /\ BurstsInv'
    BY <2>4, <2>6, <2>7, MovesType
  <2>9. QED
    BY <2>4, <2>5, <2>8, Kept, Assembled
<1>5. CASE NoBurstNumber(p)
  BY <1>5, FailsType DEF NoBurstNumber
<1>6. CASE OpenFiles(p)
  BY <1>6, OpenFilesType
<1>7. CASE FileChange(p)
  <2> DEFINE m == [mem[p] EXCEPT !.i = 0]
  <2>1. /\ mem' = [mem EXCEPT ![p] = m] /\ Goes(p, "close") /\ step[p] = "readout"
        /\ UNCHANGED <<dbVars, masterVars, files, tries, out, signalVars>>
    BY <1>7 DEF FileChange
  <2>2. m \in MemoryType /\ m.bursts = mem[p].bursts
    BY <1>a DEF MemoryType
  <2>3. /\ mem[p].bursts >= 1 /\ mem[p].bursts < MaxBursts /\ "close" \in Steps
        /\ Len(m.fOutputFiles) = m.ntdc
    BY <1>7, <2>1, <1>a DEF FileChange, BurstsInv, Steps, MemoryType
  <2> HIDE DEF m
  <2>4. /\ step' \in [Processes -> Steps]
        /\ mem' \in [Processes -> MemoryType] /\ MemoryType' = MemoryType /\ BurstsInv'
    BY <2>1, <2>2, <2>3, MovesType
  <2>5. QED
    BY <2>1, <2>4, Kept, Assembled DEF masterVars
<1>8. CASE SendOutputFile(p)
  <2> DEFINE m == [mem[p] EXCEPT !.i = mem[p].i + 1]
  <2>1. /\ mem' = [mem EXCEPT ![p] = m] /\ mem[p].i + 1 <= mem[p].ntdc
        /\ UNCHANGED <<dbVars, down, told, files, step, tries, signalVars>>
        /\ out' = out \/ out' = [out EXCEPT ![p] = @ \ {mem[p].i + 1}]
    BY <1>8 DEF SendOutputFile
  <2>2. /\ m \in MemoryType /\ m.bursts = mem[p].bursts
        /\ m.ntdc = mem[p].ntdc /\ m.fOutputFiles = mem[p].fOutputFiles
    <3>1. mem[p].i + 1 \in Nat
      BY <1>a DEF MemoryType
    <3>2. m \in MemoryType
      BY <3>1, <1>a DEF MemoryType
    <3>3. /\ m.bursts = mem[p].bursts
          /\ m.ntdc = mem[p].ntdc /\ m.fOutputFiles = mem[p].fOutputFiles
      BY <1>a DEF MemoryType
    <3>4. QED
      BY <3>2, <3>3
  <2>3. /\ step' \in [Processes -> Steps]
        /\ mem' \in [Processes -> MemoryType] /\ MemoryType' = MemoryType /\ BurstsInv'
    <3> HIDE DEF m
    <3>1. mem' \in [Processes -> MemoryType] /\ MemoryType' = MemoryType
      BY <2>1, <2>2, <1>a DEF ProcessType, MemoryType
    <3>2. \A q \in Processes :
            /\ mem'[q].bursts = mem[q].bursts /\ mem'[q].ntdc = mem[q].ntdc
            /\ mem'[q].fOutputFiles = mem[q].fOutputFiles
      BY <2>1, <2>2, <1>a DEF ProcessType
    <3>3. BurstsInv'
      BY <2>1, <3>2, <1>a DEF BurstsInv
    <3>4. QED
      BY <2>1, <3>1, <3>3, <1>a DEF ProcessType
  <2>4. up' \in [Processes -> Seq(Plain \cup Names)]
    <3>1. mem[p].i \in Nat /\ mem[p].fOutputFiles \in Seq(files)
      BY <1>a DEF MemoryType
    <3>2. Len(mem[p].fOutputFiles) = mem[p].ntdc
      BY <1>8, <1>a DEF SendOutputFile, BurstsInv
    <3>3. mem[p].fOutputFiles[mem[p].i + 1] \in files
      BY <2>1, <3>1, <3>2
    <3>4. Sends(p, <<Message("SET_NEW_FILENAME", mem[p].fOutputFiles[mem[p].i + 1])>>)
      BY <1>8 DEF SendOutputFile
    <3>5. QED
      BY <3>3, <3>4, <1>a, SendsType, MessagesType
  <2>5. out' \in [Processes -> SUBSET Boards]
    BY <2>1, <1>a DEF ProcessType
  <2>6. QED
    BY <2>1, <2>3, <2>4, <2>5, Kept, Assembled
<1>9. CASE NextBurst(p)
  <2>1. /\ files' = files /\ Goes(p, "last run") /\ mem' = mem /\ step[p] = "close"
        /\ Sends(p, <<ExceptionLine, Message("NUM_TRIGGERS", NoFile)>>)
    BY <1>9 DEF NextBurst
  <2>2. up' \in [Processes -> Seq(Plain \cup Names)]
    BY <2>1, <1>a, SendsType, MessagesType
  <2>3. /\ step' \in [Processes -> Steps]
        /\ mem' \in [Processes -> MemoryType] /\ MemoryType' = MemoryType /\ BurstsInv'
    BY <2>1, <1>a, StillsType DEF BurstsInv, Steps
  <2>4. QED
    BY <1>9, <2>1, <2>2, <2>3, Kept, Assembled
    DEF NextBurst, dbVars, signalVars
<1>10. QED
  BY <1>1, <1>2, <1>3, <1>4, <1>5, <1>6, <1>7, <1>8, <1>9

(* The end.                                                                *)
LEMMA EndType ==
  ASSUME TypeInv, NEW p \in Processes,
         Stopped(p) \/ Return(p) \/ Die(p) \/ Signal(p)
  PROVE  TypeInv'
<1>a. /\ StreamsType /\ ProcessType /\ SignalType /\ BurstsInv
      /\ mem[p] \in MemoryType /\ mem[p].ntdc \in 0 .. NumTDC
  BY DEF TypeInv, ProcessType, MemoryType
<1>e. ASSUME NEW how \in {"done", "dead"}, Ends(p, how), UNCHANGED <<dbVars, told, files>>,
             up' \in [Processes -> Seq(Plain \cup Names)]
      PROVE  TypeInv'
  <2>1. ProcessType' /\ SignalType' /\ BurstsInv' /\ down' \in [Processes -> Seq(Answers)]
    BY <1>e, EndsType
  <2>2. MemoryType' = MemoryType
    BY <1>e DEF MemoryType
  <2>3. /\ step' \in [Processes -> Steps]
        /\ tries' \in [Processes -> 0 .. MAX_SOCKET_ATTEMPTS - 1]
        /\ mem' \in [Processes -> MemoryType]
        /\ out' \in [Processes -> SUBSET Boards]
    BY <2>1, <2>2 DEF ProcessType
  <2>4. QED
    BY <1>e, <2>1, <2>2, <2>3, Kept, Assembled
<1>1. CASE Stopped(p)
  <2> DEFINE m == [mem[p] EXCEPT !.i = 0]
  <2>1. /\ mem' = [mem EXCEPT ![p] = m] /\ Goes(p, "stop") /\ step[p] = "readout"
        /\ out' = [out EXCEPT ![p] = {}]
        /\ UNCHANGED <<dbVars, masterVars, files, tries, signalVars>>
    BY <1>1 DEF Stopped
  <2>2. m \in MemoryType /\ m.bursts = mem[p].bursts
    BY <1>a DEF MemoryType
  <2>3. /\ mem[p].bursts >= 1 /\ "stop" \in Steps
        /\ Len(m.fOutputFiles) = m.ntdc
    BY <2>1, <1>a DEF BurstsInv, Steps, MemoryType
  <2> HIDE DEF m
  <2>4. /\ step' \in [Processes -> Steps]
        /\ mem' \in [Processes -> MemoryType] /\ MemoryType' = MemoryType /\ BurstsInv'
    BY <2>1, <2>2, <2>3, MovesType
  <2>5. out' \in [Processes -> SUBSET Boards]
    BY <2>1, <1>a DEF ProcessType
  <2>6. QED
    BY <2>1, <2>4, <2>5, Kept, Assembled DEF masterVars
<1>2. CASE Return(p)
  <2>1. up' \in [Processes -> Seq(Plain \cup Names)]
    BY <1>2, <1>a, SendsType, MessagesType DEF Return
  <2>2. QED
    BY <1>2, <2>1, <1>e DEF Return
<1>3. CASE Die(p)
  BY <1>3, <1>e, Kept DEF Die
<1>4. CASE Signal(p)
  <2>1. UNCHANGED <<dbVars, up, told, files>> /\ gEnd[p] < MaxSignals
    BY <1>4 DEF Signal
  <2>2. CASE gEnd[p] >= 5
    BY <1>4, <2>1, <2>2, <1>e, Kept DEF Signal
  <2>3. CASE ~(gEnd[p] >= 5)
    <3>1. /\ gEnd' = [gEnd EXCEPT ![p] = @ + 1] /\ UNCHANGED <<down, step, tries, mem, out>>
          /\ aborted' = aborted \/ aborted' = [aborted EXCEPT ![p] = 1 .. mem[p].ntdc]
      BY <1>4, <2>3 DEF Signal
    <3>2. gEnd' \in [Processes -> 0 .. MaxSignals]
      BY <2>1, <3>1, <1>a, DataTakingAssumption DEF SignalType
    <3>3. 1 .. mem[p].ntdc \subseteq Boards
      BY <1>a, DataTakingAssumption DEF Boards
    <3>4. SignalType'
      BY <3>1, <3>2, <3>3, <1>a DEF SignalType
    <3>5. /\ step' \in [Processes -> Steps]
          /\ mem' \in [Processes -> MemoryType] /\ MemoryType' = MemoryType /\ BurstsInv'
      BY <2>1, <3>1, <1>a DEF ProcessType, MemoryType, BurstsInv
    <3>6. QED
      BY <2>1, <3>1, <3>4, <3>5, Kept, Assembled
  <2>4. QED
    BY <2>2, <2>3
<1>5. QED
  BY <1>1, <1>2, <1>3, <1>4

(* The master.                                                             *)
LEMMA MasterType ==
  ASSUME TypeInv, NEW p \in Processes, Serve(p) \/ Ping(p)
  PROVE  TypeInv'
<1>a. /\ StreamsType /\ up[p] \in Seq(Plain \cup Names) /\ lastRun \in Nat
  BY DEF TypeInv, StreamsType, DatabaseType
<1>1. CASE Serve(p)
  <2>1. PICK r \in Reads(up[p]) : up' = [up EXCEPT ![p] = r.rest] /\ Handle(p, r.msg)
    BY <1>1 DEF Serve, MasterReads
  <2>2. UNCHANGED <<rows, conditions, files, step, tries, mem, out, signalVars>>
    BY <1>1 DEF Serve
  <2>3. r.msg \in Plain \cup Names /\ r.rest \in Seq(Plain \cup Names)
    BY <1>a, ReadsProperties
  <2>4. up' \in [Processes -> Seq(Plain \cup Names)]
    BY <2>1, <2>3, <1>a DEF StreamsType
  <2>5. lastRun' \in Nat
    BY <2>1, <1>a DEF Handle
  <2>6. DatabaseType'
    BY <2>2, <2>5 DEF TypeInv, DatabaseType
  <2>7. down' \in [Processes -> Seq(Answers)]
    <3>1. \A n \in Int : Told(p, n) \in [Processes -> Seq(Answers)]
      BY <1>a, PlainMessages, AppendProperties DEF Told, StreamsType
    <3>2. down' = down \/ down' = Told(p, lastRun) \/ down' = Told(p, -1)
      BY <2>1 DEF Handle
    <3>3. QED
      BY <3>1, <3>2, <1>a DEF StreamsType
  <2>8. told' \in Seq(files)
    <3>1. told' = told \/ (r.msg.key = "SET_NEW_FILENAME" /\ told' = Append(told, r.msg.val))
      BY <2>1 DEF Handle
    <3>2. r.msg.key = "SET_NEW_FILENAME" => r.msg.val \in files
      BY <2>3 DEF Plain, Names
    <3>3. told \in Seq(files) /\ \A f \in files : Append(told, f) \in Seq(files)
      BY <1>a, AppendProperties DEF StreamsType
    <3>4. QED
      BY <3>1, <3>2, <3>3
  <2>9. /\ step' \in [Processes -> Steps]
        /\ mem' \in [Processes -> MemoryType] /\ MemoryType' = MemoryType /\ BurstsInv'
    BY <2>2 DEF TypeInv, ProcessType, MemoryType, BurstsInv
  <2>10. QED
    BY <2>2, <2>4, <2>6, <2>7, <2>8, <2>9, Kept, Assembled
<1>2. CASE Ping(p)
  <2>1. PICK n \in 0 .. Len(up[p]) : up' = [up EXCEPT ![p] = SubSeq(@, n + 1, Len(@))]
    BY <1>2 DEF Ping
  <2>2. /\ UNCHANGED <<dbVars, told, files, step, tries, mem, out, signalVars>>
        /\ down' = [down EXCEPT ![p] = <<Message("PING_CLIENT", 0)>>]
    BY <1>2 DEF Ping
  <2>3. SubSeq(up[p], n + 1, Len(up[p])) \in Seq(Plain \cup Names)
    <3>1. \A i \in n + 1 .. Len(up[p]) : up[p][i] \in Plain \cup Names
      BY <1>a
    <3>2. QED
      BY <1>a, <3>1, SubSeqProperties
  <2>4. up' \in [Processes -> Seq(Plain \cup Names)]
    BY <2>1, <2>3, <1>a DEF StreamsType
  <2>5. down' \in [Processes -> Seq(Answers)]
    BY <2>2, <1>a, PlainMessages DEF StreamsType
  <2>6. /\ step' \in [Processes -> Steps]
        /\ mem' \in [Processes -> MemoryType] /\ MemoryType' = MemoryType /\ BurstsInv'
    BY <2>2 DEF TypeInv, ProcessType, MemoryType, BurstsInv
  <2>7. QED
    BY <2>2, <2>4, <2>5, <2>6, Kept, Assembled
<1>3. QED
  BY <1>1, <1>2

LEMMA TypeInitially == Init => TypeInv
<1> SUFFICES ASSUME Init PROVE TypeInv
  OBVIOUS
<1> USE DataTakingAssumption DEF Init
<1>1. DatabaseType /\ StreamsType /\ SignalType /\ files \subseteq FileType
  BY DEF DatabaseType, StreamsType, SignalType
<1>2. mem \in [Processes -> MemoryType] /\ \A p \in Processes : mem[p].bursts = 0
  BY Memory0Type
<1>3. ProcessType
  BY <1>2 DEF ProcessType, Steps, MAX_SOCKET_ATTEMPTS
<1>4. BurstsInv
  BY <1>2 DEF BurstsInv
<1>5. QED
  BY <1>1, <1>3, <1>4 DEF TypeInv

LEMMA TypeStep == TypeInv /\ [Next]_vars => TypeInv'
<1> SUFFICES ASSUME TypeInv, [Next]_vars PROVE TypeInv'
  OBVIOUS
<1>1. CASE UNCHANGED vars
  <2>1. /\ step' \in [Processes -> Steps]
        /\ mem' \in [Processes -> MemoryType] /\ MemoryType' = MemoryType /\ BurstsInv'
    BY <1>1 DEF TypeInv, ProcessType, MemoryType, BurstsInv, vars
  <2>2. QED
    BY <1>1, <2>1, Kept, Assembled DEF vars, masterVars
<1>2. CASE Next
  BY <1>2, ConfigurationType, BurstType, EndType, MasterType DEF Next, Proceed
<1>3. QED
  BY <1>1, <1>2

LEMMA TypeInvImplies == TypeInv => TypeOK
<1> SUFFICES ASSUME TypeInv PROVE TypeOK
  OBVIOUS
<1>1. \A p \in Processes : \A i \in 1 .. Len(up[p]) :
        up[p][i].key = "SET_NEW_FILENAME" => up[p][i].val \in files
  <2>1. \A p \in Processes : \A i \in 1 .. Len(up[p]) : up[p][i] \in Plain \cup Names
    BY ElementOfSeq DEF TypeInv, StreamsType
  <2>2. QED
    BY <2>1 DEF Plain, Names
<1>2. \A p \in Processes : \A i \in 1 .. Len(down[p]) : down[p][i].val \in Int
  <2>1. \A p \in Processes : \A i \in 1 .. Len(down[p]) : down[p][i] \in Answers
    BY ElementOfSeq DEF TypeInv, StreamsType
  <2>2. QED
    BY <2>1 DEF Answers
<1>3. \A f \in files : FileOK(f)
  BY DEF TypeInv, FileType, FileOK
<1>4. \A p \in Processes : mem[p].fOutputFiles \in Seq(files)
  BY DEF TypeInv, ProcessType, MemoryType
<1>5. QED
  BY <1>1, <1>2, <1>3, <1>4
  DEF TypeInv, TypeOK, DatabaseType, StreamsType, ProcessType, SignalType

LEMMA TypeInvariant == Spec => []TypeInv
BY TypeInitially, TypeStep, PTL DEF Spec

(* The memory of a process, the messages under way and the database have   *)
(* their types: a file that is announced was created, a burst that begins  *)
(* is within its bound (fetch_vme.cpp, OnlineDBHandler.h).                 *)
THEOREM TypeCorrect == Spec => []TypeOK
BY TypeInvImplies, TypeInvariant, PTL
-----------------------------------------------------------------------------
(* Announcements.                                                          *)

Announces(s) == {s[i].val : i \in {i \in DOMAIN s : s[i].key = "SET_NEW_FILENAME"}}
Distinct(s) ==
  \A i, j \in DOMAIN s :
    s[i].key = "SET_NEW_FILENAME" /\ s[j].key = "SET_NEW_FILENAME" /\ s[i].val = s[j].val => i = j
ToldFiles == {told[i] : i \in DOMAIN told}

(* What a process has announced is its own, and not told yet.              *)
StreamInv(p) ==
  /\ Distinct(up[p])
  /\ \A f \in Announces(up[p]) : f.proc = p /\ f \notin ToldFiles

(* How far the announcements of a process are, by its step.                *)
SentOK(p, f) ==
  /\ f.nth <= mem[p].bursts
  /\ step[p] \in {"ask burst", "open", "readout"} => f.nth < mem[p].bursts
  /\ step[p] \in {"close", "stop"} /\ f.nth = mem[p].bursts => f.board <= mem[p].i
SentInv(p) == ~Over(p) => \A f \in Announced : f.proc = p => SentOK(p, f)

(* The current files, and those that are open.                             *)
OutInv(p) ==
  /\ step[p] \in {"readout", "close", "stop"} =>
       \A b \in 1 .. mem[p].ntdc :
         /\ mem[p].fOutputFiles[b].proc = p
         /\ mem[p].fOutputFiles[b].nth = mem[p].bursts
         /\ mem[p].fOutputFiles[b].board = b
  /\ out[p] # {} => step[p] \in {"readout", "close"}
  /\ \A b \in out[p] : b <= mem[p].ntdc /\ (step[p] = "close" => b > mem[p].i)

AnnouncedInv ==
  AnnouncedOnce /\ \A p \in Processes : StreamInv(p) /\ SentInv(p) /\ OutInv(p)

LEMMA AnnouncedIs == Announced = ToldFiles \cup UNION {Announces(up[p]) : p \in Processes}
BY DEF Announced, ToldFiles, Announces

LEMMA AnnouncedAreFiles == TypeInv => Announced \subseteq files
<1> SUFFICES ASSUME TypeInv PROVE Announced \subseteq files
  OBVIOUS
<1>1. ToldFiles \subseteq files
  BY ElementOfSeq DEF TypeInv, StreamsType, ToldFiles
<1>2. \A p \in Processes : Announces(up[p]) \subseteq files
  <2>1. \A p \in Processes : \A i \in DOMAIN up[p] : up[p][i] \in Plain \cup Names
    BY ElementOfSeq DEF TypeInv, StreamsType
  <2>2. QED
    BY <2>1 DEF Announces, Plain, Names
<1>3. QED
  BY <1>1, <1>2, AnnouncedIs

LEMMA PlainAppended ==
  ASSUME NEW s \in Seq(Plain \cup Names), NEW t \in Seq(Plain), Distinct(s)
  PROVE  Announces(s \o t) = Announces(s) /\ Distinct(s \o t)
<1>1. /\ \A i \in 1 .. Len(s) : (s \o t)[i] = s[i]
      /\ \A i \in 1 .. Len(s \o t) : i > Len(s) => (s \o t)[i] \in Plain
      /\ Len(s \o t) = Len(s) + Len(t) /\ DOMAIN (s \o t) = 1 .. Len(s \o t)
      /\ DOMAIN s = 1 .. Len(s) /\ Len(s) \in Nat /\ Len(t) \in Nat
  BY ElementOfSeq
<1>2. \A m \in Plain : m.key # "SET_NEW_FILENAME"
  BY DEF Plain
<1>3. \A i \in DOMAIN (s \o t) : (s \o t)[i].key = "SET_NEW_FILENAME" =>
        i \in DOMAIN s /\ (s \o t)[i] = s[i]
  BY <1>1, <1>2
<1>4. DOMAIN s \subseteq DOMAIN (s \o t)
  BY <1>1
<1>5. \A i \in DOMAIN s : (s \o t)[i] = s[i]
  BY <1>1
<1> DEFINE u == s \o t
<1> HIDE DEF u
<1>6. /\ \A i \in DOMAIN u : u[i].key = "SET_NEW_FILENAME" => i \in DOMAIN s /\ u[i] = s[i]
      /\ DOMAIN s \subseteq DOMAIN u /\ \A i \in DOMAIN s : u[i] = s[i]
  BY <1>3, <1>4, <1>5 DEF u
<1>7. Announces(u) = Announces(s) /\ Distinct(u)
  BY <1>6 DEF Announces, Distinct
<1>8. QED
  BY <1>7 DEF u

LEMMA NameAppended ==
  ASSUME NEW s \in Seq(Plain \cup Names), NEW f, Distinct(s), f \notin Announces(s)
  PROVE  /\ Announces(s \o <<Message("SET_NEW_FILENAME", f)>>) = Announces(s) \cup {f}
         /\ Distinct(s \o <<Message("SET_NEW_FILENAME", f)>>)
<1> DEFINE u == s \o <<Message("SET_NEW_FILENAME", f)>>
<1>1. /\ DOMAIN s = 1 .. Len(s) /\ Len(s) \in Nat
      /\ DOMAIN u = 1 .. Len(s) + 1 /\ \A i \in 1 .. Len(s) : u[i] = s[i]
      /\ u[Len(s) + 1] = Message("SET_NEW_FILENAME", f)
  OBVIOUS
<1> HIDE DEF u
<1>2. DOMAIN u = DOMAIN s \cup {Len(s) + 1} /\ \A i \in DOMAIN s : u[i] = s[i]
  BY <1>1
<1>3. u[Len(s) + 1].key = "SET_NEW_FILENAME" /\ u[Len(s) + 1].val = f
  BY <1>1 DEF Message
<1>4. Announces(u) = Announces(s) \cup {f}
  BY <1>2, <1>3 DEF Announces
<1>5. Distinct(u)
  BY <1>2, <1>3 DEF Announces, Distinct
<1>6. QED
  BY <1>4, <1>5 DEF u

LEMMA ReadsAnnounces ==
  ASSUME NEW s \in Seq(Plain \cup Names), NEW n \in 0 .. Len(s), Distinct(s)
  PROVE  LET u == SubSeq(s, n + 1, Len(s)) IN
         /\ Announces(u) \subseteq Announces(s) /\ Distinct(u)
         /\ n >= 1 /\ s[1].key = "SET_NEW_FILENAME" =>
              s[1].val \in Announces(s) /\ s[1].val \notin Announces(u)
         /\ n = 1 =>
              \A f \in Announces(s) :
                f \in Announces(u) \/ (s[1].key = "SET_NEW_FILENAME" /\ f = s[1].val)
<1> DEFINE u == SubSeq(s, n + 1, Len(s))
<1>1. /\ Len(s) \in Nat /\ n \in 0 .. Len(s)
      /\ DOMAIN u = 1 .. Len(s) - n /\ DOMAIN s = 1 .. Len(s)
      /\ \A i \in DOMAIN u : u[i] = s[i + n]
  BY SubSeqProperties
<1> HIDE DEF u
<1>2. \A i \in DOMAIN u : i + n \in DOMAIN s /\ i \in Int
  BY <1>1
<1>3. Announces(u) \subseteq Announces(s)
  BY <1>1, <1>2 DEF Announces
<1>4. Distinct(u)
  BY <1>1, <1>2 DEF Distinct
<1>5. ASSUME n >= 1, s[1].key = "SET_NEW_FILENAME"
      PROVE  s[1].val \in Announces(s) /\ s[1].val \notin Announces(u)
  <2>1. 1 \in DOMAIN s /\ \A i \in DOMAIN u : i + n # 1
    BY <1>1, <1>5
  <2>2. QED
    BY <1>1, <1>2, <1>5, <2>1, SMTT(40) DEF Announces, Distinct
<1>6. ASSUME n = 1, NEW f \in Announces(s)
      PROVE  f \in Announces(u) \/ (s[1].key = "SET_NEW_FILENAME" /\ f = s[1].val)
  <2>1. \A i \in DOMAIN s : i = 1 \/ (i - 1 \in DOMAIN u /\ u[i - 1] = s[i])
    BY <1>1, <1>6
  <2>2. QED
    BY <2>1 DEF Announces
<1>7. QED
  BY <1>3, <1>4, <1>5, <1>6 DEF u

(* Steps that neither announce nor tell: what is under way shrinks.        *)
Quiet ==
  /\ told' = told
  /\ \A p \in Processes : Announces(up'[p]) \subseteq Announces(up[p]) /\ Distinct(up'[p])

LEMMA QuietKeeps ==
  ASSUME AnnouncedInv, Quiet
  PROVE  /\ AnnouncedOnce' /\ Announced' \subseteq Announced
         /\ \A p \in Processes : StreamInv(p)'
<1>1. AnnouncedOnce' /\ ToldFiles' = ToldFiles
  BY DEF AnnouncedInv, AnnouncedOnce, Quiet, ToldFiles
<1>2. \A p \in Processes : StreamInv(p)'
  BY <1>1 DEF AnnouncedInv, StreamInv, Quiet, Announces, Distinct
<1>3. Announced' = ToldFiles' \cup UNION {Announces(up'[p]) : p \in Processes}
  BY DEF Announced, ToldFiles, Announces
<1>4. Announced' \subseteq Announced
  BY <1>1, <1>3, AnnouncedIs DEF Quiet
<1>5. QED
  BY <1>1, <1>2, <1>4

LEMMA PlainQuiet ==
  ASSUME TypeInv, AnnouncedInv, NEW p \in Processes, NEW t \in Seq(Plain), Sends(p, t), told' = told
  PROVE  Quiet
<1>1. Announces(up[p] \o t) = Announces(up[p]) /\ Distinct(up[p] \o t)
  BY PlainAppended DEF TypeInv, StreamsType, AnnouncedInv, StreamInv
<1>2. \A q \in Processes : up'[q] = IF q = p THEN up[p] \o t ELSE up[q]
  BY DEF Sends, TypeInv, StreamsType
<1>3. QED
  BY <1>1, <1>2 DEF Quiet, AnnouncedInv, StreamInv

LEMMA StillQuiet ==
  ASSUME AnnouncedInv, UNCHANGED <<up, told>>
  PROVE  Quiet
BY DEF AnnouncedInv, StreamInv, Quiet

LEMMA PlainInRow ==
  /\ <<ExceptionLine>> \in Seq(Plain) /\ <<GetRun>> \in Seq(Plain)
  /\ <<ExceptionLine, GetRun>> \in Seq(Plain)
  /\ <<Message("NEW_RUN", NoFile), GetRun>> \in Seq(Plain)
  /\ <<ExceptionLine, Message("NUM_TRIGGERS", NoFile)>> \in Seq(Plain)
BY PlainMessages

(* The processes a step does not concern.                                  *)
LEMMA OtherProcesses ==
  ASSUME AnnouncedInv, NEW q \in Processes, \A f \in Announced' : f.proc = q => f \in Announced,
         step'[q] = step[q], mem'[q] = mem[q], out'[q] = out[q]
  PROVE  SentInv(q)' /\ OutInv(q)'
<1>1. SentInv(q)'
  BY DEF AnnouncedInv, SentInv, SentOK, Over
<1>2. OutInv(q)'
  BY DEF AnnouncedInv, OutInv
<1>3. QED
  BY <1>1, <1>2

(* A quiet step of a process, from its two local parts.                    *)
LEMMA QuietStep ==
  ASSUME AnnouncedInv, Quiet, NEW p \in Processes,
         \A q \in Processes \ {p} : step'[q] = step[q] /\ mem'[q] = mem[q] /\ out'[q] = out[q],
         SentInv(p)', OutInv(p)'
  PROVE  AnnouncedInv'
<1>1. AnnouncedOnce' /\ Announced' \subseteq Announced /\ \A q \in Processes : StreamInv(q)'
  BY QuietKeeps
<1>2. \A q \in Processes \ {p} : SentInv(q)' /\ OutInv(q)'
  BY <1>1, OtherProcesses
<1>3. QED
  BY <1>1, <1>2 DEF AnnouncedInv

(* Outside a burst, nothing is open and all that was announced is past.    *)
LEMMA OutsideBurst ==
  ASSUME TypeInv, AnnouncedInv, NEW p \in Processes, Quiet, ~Over(p),
         step[p] \notin {"readout", "close"}, NEW to, Goes(p, to),
         to \notin {"ask burst", "open", "readout", "close", "stop"},
         NEW m, mem' = [mem EXCEPT ![p] = m], m.bursts = mem[p].bursts, out' = out
  PROVE  AnnouncedInv'
<1>1. /\ \A q \in Processes \ {p} : step'[q] = step[q] /\ mem'[q] = mem[q] /\ out'[q] = out[q]
      /\ mem'[p].bursts = mem[p].bursts /\ out'[p] = out[p] /\ step'[p] = to
  BY DEF TypeInv, ProcessType, Goes
<1>2. SentInv(p)'
  BY <1>1, QuietKeeps DEF AnnouncedInv, SentInv, SentOK
<1>3. OutInv(p)'
  BY <1>1 DEF AnnouncedInv, OutInv
<1>4. QED
  BY <1>1, <1>2, <1>3, QuietStep

LEMMA EndsAnnounced ==
  ASSUME TypeInv, AnnouncedInv, NEW p \in Processes, NEW how \in {"done", "dead"}, Ends(p, how),
         Quiet
  PROVE  AnnouncedInv'
<1>1. /\ \A q \in Processes \ {p} : step'[q] = step[q] /\ mem'[q] = mem[q] /\ out'[q] = out[q]
      /\ step'[p] = how /\ out'[p] = {}
  BY DEF TypeInv, ProcessType, Ends, Goes
<1>2. SentInv(p)' /\ OutInv(p)'
  BY <1>1 DEF SentInv, OutInv, Over
<1>3. QED
  BY <1>1, <1>2, QuietStep

LEMMA FailsAnnounced ==
  ASSUME TypeInv, AnnouncedInv, NEW p \in Processes, Fails(p)
  PROVE  AnnouncedInv'
BY EndsAnnounced, PlainQuiet, PlainInRow DEF Fails

LEMMA RetryAnnounced ==
  ASSUME TypeInv, AnnouncedInv, NEW p \in Processes, Retry(p), step[p] \in {"last run", "insert"}
  PROVE  AnnouncedInv'
<1>1. CASE mem[p].retried
  BY <1>1, FailsAnnounced DEF Retry
<1>2. CASE ~mem[p].retried
  <2> DEFINE m == [mem[p] EXCEPT !.retried = TRUE]
  <2>1. mem' = [mem EXCEPT ![p] = m] /\ Goes(p, "last run") /\ UNCHANGED <<up, told, out>>
    BY <1>2 DEF Retry, masterVars
  <2>2. m.bursts = mem[p].bursts
    BY DEF TypeInv, ProcessType, MemoryType
  <2> HIDE DEF m
  <2>3. QED
    BY <2>1, <2>2, StillQuiet, OutsideBurst DEF Over
<1>3. QED
  BY <1>1, <1>2

LEMMA ConfigurationAnnounced ==
  ASSUME TypeInv, AnnouncedInv, NEW p \in Processes,
         \/ Start(p) \/ RunPrinted(p) \/ AddTDC(p) \/ ConfigurationFails(p)
         \/ CopyConfiguration(p) \/ AskHeader(p) \/ Header(p) \/ FetchAgain(p)
  PROVE  AnnouncedInv'
<1>a. mem \in [Processes -> MemoryType] /\ mem = [mem EXCEPT ![p] = mem[p]]
  BY DEF TypeInv, ProcessType
<1>1. CASE Start(p)
  <2>1. /\ Sends(p, <<Message("NEW_RUN", NoFile), GetRun>>) /\ Goes(p, "ask new run")
        /\ step[p] = "idle" /\ UNCHANGED <<told, mem, out>>
    BY <1>1 DEF Start
  <2>2. Quiet
    BY <2>1, PlainInRow, PlainQuiet
  <2>3. QED
    BY <2>1, <2>2, <1>a, OutsideBurst DEF Over
<1>2. CASE RunPrinted(p)
  <2>1. /\ Sends(p, <<ExceptionLine>>) /\ Goes(p, "configure")
        /\ step[p] = "ask new run" /\ UNCHANGED <<told, mem, out>>
    BY <1>2 DEF RunPrinted
  <2>2. Quiet
    BY <2>1, PlainInRow, PlainQuiet
  <2>3. QED
    BY <2>1, <2>2, <1>a, OutsideBurst DEF Over
<1>3. CASE AddTDC(p)
  <2> DEFINE m == [mem[p] EXCEPT !.ntdc = mem[p].ntdc + 1]
  <2>1. /\ step[p] = "configure" /\ UNCHANGED <<told, out>> /\ mem' = [mem EXCEPT ![p] = m]
        /\ \/ Sends(p, <<ExceptionLine>>) /\ step' = step
           \/ Sends(p, <<ExceptionLine, GetRun>>) /\ Goes(p, "ask header")
    BY <1>3 DEF AddTDC
  <2>2. m.bursts = mem[p].bursts
    BY <1>a DEF MemoryType
  <2>3. Quiet
    BY <2>1, PlainInRow, PlainQuiet
  <2>4. Goes(p, "configure") \/ Goes(p, "ask header")
    BY <2>1 DEF Goes, TypeInv, ProcessType
  <2> HIDE DEF m
  <2>5. QED
    BY <2>1, <2>2, <2>3, <2>4, OutsideBurst DEF Over
<1>4. CASE ConfigurationFails(p) \/ CopyConfiguration(p)
  <2>1. /\ Sends(p, <<ExceptionLine, GetRun>>) \/ Sends(p, <<GetRun>>)
        /\ Goes(p, "ask header") \/ Goes(p, "ask copy")
        /\ step[p] = "configure" /\ UNCHANGED <<told, mem, out>>
    BY <1>4 DEF ConfigurationFails, CopyConfiguration
  <2>2. Quiet
    BY <2>1, PlainInRow, PlainQuiet
  <2>3. QED
    BY <2>1, <2>2, <1>a, OutsideBurst DEF Over
<1>5. CASE AskHeader(p)
  <2>1. /\ Sends(p, <<ExceptionLine, GetRun>>) /\ Goes(p, "ask header")
        /\ step[p] = "ask copy" /\ UNCHANGED <<told, mem, out>>
    BY <1>5 DEF AskHeader
  <2>2. Quiet
    BY <2>1, PlainInRow, PlainQuiet
  <2>3. QED
    BY <2>1, <2>2, <1>a, OutsideBurst DEF Over
<1>6. CASE Header(p)
  <2>1. /\ Goes(p, "last run") /\ step[p] = "ask header" /\ UNCHANGED <<up, told, out>>
    BY <1>6 DEF Header
  <2>2. PICK n : mem' = [mem EXCEPT ![p].run = n]
    BY <1>6 DEF Header
  <2>3. [mem[p] EXCEPT !.run = n].bursts = mem[p].bursts
    BY <1>a DEF MemoryType
  <2>4. QED
    BY <2>1, <2>2, <2>3, StillQuiet, OutsideBurst DEF Over
<1>7. CASE FetchAgain(p)
  <2>1. UNCHANGED <<up, told, step, mem, out>>
    BY <1>7 DEF FetchAgain
  <2>2. Quiet
    BY <2>1, StillQuiet
  <2>3. \A q \in Processes : SentInv(q)' /\ OutInv(q)'
    BY <2>1, <2>2, QuietKeeps, OtherProcesses
  <2>4. QED
    BY <2>1, <2>2, <2>3, QuietStep
<1>8. QED
  BY <1>1, <1>2, <1>3, <1>4, <1>5, <1>6, <1>7

LEMMA OpenFilesAnnounced ==
  ASSUME TypeInv, AnnouncedInv, NEW p \in Processes, OpenFiles(p)
  PROVE  AnnouncedInv'
<1> DEFINE names == [b \in 1 .. mem[p].ntdc |-> File(p, b)]
<1>1. /\ step[p] = "open" /\ Goes(p, "readout") /\ UNCHANGED <<up, told>>
      /\ mem' = [mem EXCEPT ![p].fOutputFiles = names]
      /\ out' = [out EXCEPT ![p] = 1 .. mem[p].ntdc]
  BY DEF OpenFiles, masterVars
<1>2. Quiet
  BY <1>1, StillQuiet
<1>3. \A b \in 1 .. mem[p].ntdc :
        names[b].proc = p /\ names[b].nth = mem[p].bursts /\ names[b].board = b
  BY DEF File
<1> HIDE DEF names
<1>4. /\ \A q \in Processes \ {p} : step'[q] = step[q] /\ mem'[q] = mem[q] /\ out'[q] = out[q]
      /\ step'[p] = "readout" /\ out'[p] = 1 .. mem[p].ntdc
  BY <1>1 DEF TypeInv, ProcessType, Goes
<1>5. /\ mem'[p].bursts = mem[p].bursts /\ mem'[p].ntdc = mem[p].ntdc
      /\ mem'[p].fOutputFiles = names /\ mem[p].ntdc \in Int
  BY <1>1, DataTakingAssumption DEF TypeInv, ProcessType, MemoryType
<1>6. SentInv(p)'
  BY <1>1, <1>2, <1>4, <1>5, QuietKeeps DEF AnnouncedInv, SentInv, SentOK, Over
<1>7. OutInv(p)'
  BY <1>3, <1>4, <1>5 DEF OutInv
<1>8. QED
  BY <1>2, <1>4, <1>6, <1>7, QuietStep

(* The file of the next board is announced for the first time.             *)
LEMMA SendOutputFileAnnounced ==
  ASSUME TypeInv, AnnouncedInv, NEW p \in Processes, SendOutputFile(p)
  PROVE  AnnouncedInv'
<1> DEFINE board == mem[p].i + 1
           f == mem[p].fOutputFiles[board]
           m == [mem[p] EXCEPT !.i = board]
<1>1. /\ step[p] \in {"close", "stop"} /\ board <= mem[p].ntdc
      /\ out' = IF step[p] = "close" THEN [out EXCEPT ![p] = @ \ {board}] ELSE out
      /\ up' = [up EXCEPT ![p] = @ \o <<Message("SET_NEW_FILENAME", f)>>]
      /\ mem' = [mem EXCEPT ![p] = m] /\ UNCHANGED <<step, told>>
  BY DEF SendOutputFile, Sends
<1>2. /\ mem[p].i \in Nat /\ mem[p].bursts \in Int /\ mem[p].ntdc \in Int
      /\ m.bursts = mem[p].bursts /\ m.ntdc = mem[p].ntdc /\ m.i = board
      /\ m.fOutputFiles = mem[p].fOutputFiles
  BY DataTakingAssumption DEF TypeInv, ProcessType, MemoryType
<1>3. board \in 1 .. mem[p].ntdc /\ mem[p].i < board
  BY <1>1, <1>2
<1>4. f.proc = p /\ f.nth = mem[p].bursts /\ f.board = board
  BY <1>1, <1>3 DEF AnnouncedInv, OutInv
<1>5. f \notin Announced
  <2>1. ASSUME f \in Announced PROVE FALSE
    <3>1. SentOK(p, f)
      BY <1>1, <1>4, <2>1 DEF AnnouncedInv, SentInv, Over
    <3>2. f.board <= mem[p].i
      BY <1>1, <1>4, <3>1 DEF SentOK
    <3>3. QED
      BY <1>2, <1>4, <3>2
  <2>2. QED
    BY <2>1
<1> HIDE DEF f, m
<1>6. f \notin ToldFiles /\ f \notin Announces(up[p])
  BY <1>5, AnnouncedIs
<1>7. /\ Announces(up'[p]) = Announces(up[p]) \cup {f} /\ Distinct(up'[p])
      /\ \A q \in Processes \ {p} : up'[q] = up[q]
  BY <1>1, <1>6, NameAppended DEF TypeInv, StreamsType, AnnouncedInv, StreamInv
<1>8. AnnouncedOnce' /\ ToldFiles' = ToldFiles
  BY <1>1 DEF AnnouncedInv, AnnouncedOnce, ToldFiles
<1>9. \A q \in Processes : StreamInv(q)'
  <2>1. \A q \in Processes \ {p} : StreamInv(q)'
    BY <1>7, <1>8 DEF AnnouncedInv, StreamInv, Announces, Distinct
  <2>2. Announces(up[p])' = Announces(up'[p]) /\ Distinct(up[p])' = Distinct(up'[p])
    BY DEF Announces, Distinct
  <2>3. StreamInv(p)'
    BY <1>4, <1>6, <1>7, <1>8, <2>2 DEF AnnouncedInv, StreamInv
  <2>4. QED
    BY <2>1, <2>3
<1>10. \A g \in Announced' : g \in Announced \/ g = f
  <2>1. Announced' = ToldFiles' \cup UNION {Announces(up'[q]) : q \in Processes}
    BY DEF Announced, ToldFiles, Announces
  <2>2. QED
    BY <1>7, <1>8, <2>1, AnnouncedIs
<1>11. \A q \in Processes \ {p} : step'[q] = step[q] /\ mem'[q] = mem[q] /\ out'[q] = out[q]
  BY <1>1 DEF TypeInv, ProcessType
<1>12. \A q \in Processes \ {p} : SentInv(q)' /\ OutInv(q)'
  BY <1>4, <1>10, <1>11, OtherProcesses
<1>13. step'[p] = step[p] /\ mem'[p] = m
  BY <1>1 DEF TypeInv, ProcessType
<1>14. SentInv(p)'
  <2>1. ASSUME NEW g \in Announced', g.proc = p PROVE SentOK(p, g)'
    <3>1. mem'[p].bursts = mem[p].bursts /\ mem'[p].i = board /\ step'[p] = step[p]
      BY <1>2, <1>13
    <3>2. CASE g = f
      <4>1. g.nth = mem'[p].bursts /\ g.board = mem'[p].i
        BY <1>4, <3>1, <3>2
      <4>2. mem'[p].bursts \in Int /\ mem'[p].i \in Int
        BY <1>2, <1>3, <3>1
      <4>3. step'[p] \in {"close", "stop"}
        BY <1>1
      <4>4. g.nth <= mem'[p].bursts /\ g.board <= mem'[p].i
        BY <4>1, <4>2
      <4>5. QED
        BY <4>3, <4>4 DEF SentOK
    <3>3. CASE g \in Announced
      <4>1. SentOK(p, g)
        BY <1>1, <2>1, <3>3 DEF AnnouncedInv, SentInv, Over
      <4>2. g.board \in Int
        BY <3>3, AnnouncedAreFiles DEF TypeInv, FileType, Boards
      <4>3. g.board <= mem[p].i => g.board <= board
        BY <1>2, <4>2
      <4> HIDE DEF board
      <4>4. QED
        BY <3>1, <4>1, <4>3 DEF SentOK
    <3>4. QED
      BY <1>10, <3>2, <3>3
  <2>2. QED
    BY <2>1 DEF SentInv
<1>15. OutInv(p)'
  <2>1. out'[p] = IF step[p] = "close" THEN out[p] \ {board} ELSE out[p]
    BY <1>1 DEF TypeInv, ProcessType
  <2>2. out[p] \subseteq Int
    BY DEF TypeInv, ProcessType, Boards
  <2>3. QED
    BY <1>1, <1>2, <1>13, <2>1, <2>2 DEF AnnouncedInv, OutInv
<1>16. QED
  BY <1>8, <1>9, <1>12, <1>14, <1>15 DEF AnnouncedInv

LEMMA BurstAnnounced ==
  ASSUME TypeInv, AnnouncedInv, NEW p \in Processes,
         \/ LastRun(p) \/ LastBurst(p) \/ InsertBurst(p) \/ BurstNumber(p) \/ NoBurstNumber(p)
         \/ OpenFiles(p) \/ FileChange(p) \/ SendOutputFile(p) \/ NextBurst(p)
  PROVE  AnnouncedInv'
<1>a. /\ mem \in [Processes -> MemoryType] /\ mem = [mem EXCEPT ![p] = mem[p]]
      /\ mem[p].bursts \in Int /\ mem[p].i \in Int /\ mem[p].ntdc \in Int
  BY DataTakingAssumption, SMTT(40) DEF TypeInv, ProcessType, MemoryType
<1>b. \A q \in Processes : out[q] \subseteq Int
  BY DEF TypeInv, ProcessType, Boards
<1>c. \A f \in Announced : f.nth \in Int /\ f.board \in Boards
  BY AnnouncedAreFiles DEF TypeInv, FileType
<1>1. CASE LastRun(p)
  <2>1. step[p] = "last run"
    BY <1>1 DEF LastRun
  <2>2. CASE Retry(p)
    BY <2>1, <2>2, RetryAnnounced
  <2>3. CASE ~Retry(p)
    <3> DEFINE m == [mem[p] EXCEPT !.current_run = lastRun]
    <3>1. mem' = [mem EXCEPT ![p] = m] /\ Goes(p, "last burst") /\ UNCHANGED <<up, told, out>>
      BY <1>1, <2>3 DEF LastRun, masterVars
    <3>2. m.bursts = mem[p].bursts
      BY <1>a DEF MemoryType
    <3> HIDE DEF m
    <3>3. QED
      BY <2>1, <3>1, <3>2, StillQuiet, OutsideBurst DEF Over
  <2>4. QED
    BY <2>2, <2>3
<1>2. CASE LastBurst(p)
  <2>1. step[p] = "last burst" /\ Goes(p, "insert") /\ UNCHANGED <<up, told, out>>
    BY <1>2 DEF LastBurst, masterVars
  <2>2. PICK b : mem' = [mem EXCEPT ![p].last_burst = b]
    BY <1>2 DEF LastBurst
  <2>3. [mem[p] EXCEPT !.last_burst = b].bursts = mem[p].bursts
    BY <1>a DEF MemoryType
  <2>4. QED
    BY <2>1, <2>2, <2>3, StillQuiet, OutsideBurst DEF Over
<1>3. CASE InsertBurst(p)
  <2>1. step[p] = "insert"
    BY <1>3 DEF InsertBurst
  <2>2. CASE Retry(p)
    BY <2>1, <2>2, RetryAnnounced
  <2>3. CASE ~Retry(p)
    <3> DEFINE m == [mem[p] EXCEPT !.row = Len(rows) + 1, !.retried = FALSE,
                                   !.bursts = mem[p].bursts + 1]
    <3>1. /\ mem' = [mem EXCEPT ![p] = m] /\ Goes(p, "ask burst") /\ Sends(p, <<GetRun>>)
          /\ UNCHANGED <<told, out>>
      BY <1>3, <2>3 DEF InsertBurst
    <3>2. m.bursts = mem[p].bursts + 1
      BY <1>a DEF MemoryType
    <3>3. Quiet
      BY <3>1, PlainInRow, PlainQuiet
    <3> HIDE DEF m
    <3>4. /\ \A q \in Processes \ {p} : step'[q] = step[q] /\ mem'[q] = mem[q]
          /\ step'[p] = "ask burst" /\ mem'[p] = m /\ out' = out
      BY <3>1 DEF TypeInv, ProcessType, Goes
    <3>5. SentInv(p)'
      <4>1. ASSUME NEW f \in Announced', f.proc = p PROVE SentOK(p, f)'
        <5>1. f \in Announced
          BY <3>3, QuietKeeps
        <5>2. f.nth <= mem[p].bursts
          BY <2>1, <4>1, <5>1 DEF AnnouncedInv, SentInv, SentOK, Over
        <5>3. f.nth \in Int /\ mem'[p].bursts = mem[p].bursts + 1
          BY <1>c, <3>2, <3>4, <5>1
        <5>4. f.nth < mem'[p].bursts /\ f.nth <= mem'[p].bursts
          BY <1>a, <5>2, <5>3
        <5>5. QED
          BY <3>4, <5>4 DEF SentOK
      <4>2. QED
        BY <4>1 DEF SentInv
    <3>6. OutInv(p)'
      BY <2>1, <3>4 DEF AnnouncedInv, OutInv
    <3>7. QED
      BY <3>3, <3>4, <3>5, <3>6, QuietStep
  <2>4. QED
    BY <2>2, <2>3
<1>4. CASE BurstNumber(p)
  <2>1. /\ step[p] = "ask burst" /\ Goes(p, "open") /\ UNCHANGED <<up, told, out>>
    BY <1>4 DEF BurstNumber
  <2>2. PICK b : mem' = [mem EXCEPT ![p].spill = b]
    BY <1>4 DEF BurstNumber
  <2>3. Quiet
    BY <2>1, StillQuiet
  <2>4. /\ \A q \in Processes \ {p} : step'[q] = step[q] /\ mem'[q] = mem[q]
        /\ step'[p] = "open" /\ mem'[p].bursts = mem[p].bursts /\ out' = out
    BY <2>1, <2>2, <1>a, ZenonT(60) DEF TypeInv, ProcessType, Goes, MemoryType
  <2>5. SentInv(p)'
    BY <2>1, <2>3, <2>4, QuietKeeps DEF AnnouncedInv, SentInv, SentOK, Over
  <2>6. OutInv(p)'
    BY <2>1, <2>4 DEF AnnouncedInv, OutInv
  <2>7. QED
    BY <2>3, <2>4, <2>5, <2>6, QuietStep
<1>5. CASE NoBurstNumber(p)
  BY <1>5, FailsAnnounced DEF NoBurstNumber
<1>6. CASE OpenFiles(p)
  BY <1>6, OpenFilesAnnounced
<1>7. CASE FileChange(p)
  <2>1. /\ step[p] = "readout" /\ Goes(p, "close") /\ UNCHANGED <<up, told, out>>
        /\ mem' = [mem EXCEPT ![p].i = 0]
    BY <1>7 DEF FileChange, masterVars
  <2>2. Quiet
    BY <2>1, StillQuiet
  <2>3. /\ \A q \in Processes \ {p} : step'[q] = step[q] /\ mem'[q] = mem[q]
        /\ step'[p] = "close" /\ mem'[p].bursts = mem[p].bursts /\ mem'[p].ntdc = mem[p].ntdc
        /\ mem'[p].fOutputFiles = mem[p].fOutputFiles /\ mem'[p].i = 0 /\ out' = out
    BY <2>1, <1>a DEF TypeInv, ProcessType, Goes, MemoryType
  <2>4. SentInv(p)'
    <3>1. \A f \in Announced' : f.proc = p => f.nth < mem[p].bursts /\ f.nth <= mem[p].bursts
      BY <2>1, <2>2, QuietKeeps DEF AnnouncedInv, SentInv, SentOK, Over
    <3>2. \A f \in Announced' : f.nth \in Int
      BY <1>c, <2>2, QuietKeeps
    <3>3. QED
      BY <1>a, <2>3, <3>1, <3>2 DEF SentInv, SentOK
  <2>5. OutInv(p)'
    <3>1. \A b \in out[p] : b > 0
      BY DEF TypeInv, ProcessType, Boards
    <3>2. QED
      BY <2>1, <2>3, <3>1 DEF AnnouncedInv, OutInv
  <2>6. QED
    BY <2>2, <2>3, <2>4, <2>5, QuietStep
<1>8. CASE SendOutputFile(p)
  BY <1>8, SendOutputFileAnnounced
<1>9. CASE NextBurst(p)
  <2>1. /\ step[p] = "close" /\ mem[p].i = mem[p].ntdc /\ Goes(p, "last run")
        /\ Sends(p, <<ExceptionLine, Message("NUM_TRIGGERS", NoFile)>>)
        /\ UNCHANGED <<told, mem, out>>
    BY <1>9 DEF NextBurst
  <2>2. Quiet
    BY <2>1, PlainInRow, PlainQuiet
  <2>3. /\ \A q \in Processes \ {p} : step'[q] = step[q] /\ mem'[q] = mem[q]
        /\ step'[p] = "last run" /\ mem' = mem /\ out' = out
    BY <2>1 DEF TypeInv, ProcessType, Goes
  <2>4. SentInv(p)'
    BY <2>1, <2>2, <2>3, QuietKeeps DEF AnnouncedInv, SentInv, SentOK, Over
  <2>5. out[p] = {}
    <3>1. \A b \in out[p] : b <= mem[p].ntdc /\ b > mem[p].ntdc /\ b \in Int
      BY <2>1, <1>b DEF AnnouncedInv, OutInv
    <3>2. QED
      BY <1>a, <3>1
  <2>6. OutInv(p)'
    BY <2>3, <2>5 DEF OutInv
  <2>7. QED
    BY <2>2, <2>3, <2>4, <2>6, QuietStep
<1>10. QED
  BY <1>1, <1>2, <1>3, <1>4, <1>5, <1>6, <1>7, <1>8, <1>9

LEMMA EndAnnounced ==
  ASSUME TypeInv, AnnouncedInv, NEW p \in Processes,
         Stopped(p) \/ Return(p) \/ Die(p) \/ Signal(p)
  PROVE  AnnouncedInv'
<1>a. mem \in [Processes -> MemoryType] /\ mem[p].bursts \in Int
  BY DataTakingAssumption DEF TypeInv, ProcessType, MemoryType
<1>1. CASE Stopped(p)
  <2>1. /\ step[p] = "readout" /\ Goes(p, "stop") /\ UNCHANGED <<up, told>>
        /\ mem' = [mem EXCEPT ![p].i = 0] /\ out' = [out EXCEPT ![p] = {}]
    BY <1>1 DEF Stopped, masterVars
  <2>2. Quiet
    BY <2>1, StillQuiet
  <2>3. /\ \A q \in Processes \ {p} : step'[q] = step[q] /\ mem'[q] = mem[q] /\ out'[q] = out[q]
        /\ step'[p] = "stop" /\ out'[p] = {}
    BY <2>1 DEF TypeInv, ProcessType, Goes
  <2>4. /\ mem'[p].bursts = mem[p].bursts /\ mem'[p].ntdc = mem[p].ntdc
        /\ mem'[p].fOutputFiles = mem[p].fOutputFiles
    BY <2>1, <1>a DEF MemoryType
  <2>5. SentInv(p)'
    <3>1. \A f \in Announced' : f.proc = p => f.nth < mem[p].bursts /\ f.nth <= mem[p].bursts
      BY <2>1, <2>2, QuietKeeps DEF AnnouncedInv, SentInv, SentOK, Over
    <3>2. \A f \in Announced' : f.nth \in Int
      BY <2>2, QuietKeeps, AnnouncedAreFiles DEF TypeInv, FileType
    <3>3. QED
      BY <1>a, <2>3, <2>4, <3>1, <3>2 DEF SentInv, SentOK
  <2>6. OutInv(p)'
    BY <2>1, <2>3, <2>4 DEF AnnouncedInv, OutInv
  <2>7. QED
    BY <2>2, <2>3, <2>5, <2>6, QuietStep
<1>2. CASE Return(p)
  BY <1>2, PlainInRow, PlainQuiet, EndsAnnounced DEF Return
<1>3. CASE Die(p)
  BY <1>3, StillQuiet, EndsAnnounced DEF Die
<1>4. CASE Signal(p)
  <2>1. UNCHANGED <<up, told>>
    BY <1>4 DEF Signal
  <2>2. CASE gEnd[p] >= 5
    BY <1>4, <2>1, <2>2, StillQuiet, EndsAnnounced DEF Signal
  <2>3. CASE ~(gEnd[p] >= 5)
    <3>1. UNCHANGED <<step, mem, out>>
      BY <1>4, <2>3 DEF Signal
    <3>2. \A q \in Processes : SentInv(q)' /\ OutInv(q)'
      BY <2>1, <3>1, StillQuiet, QuietKeeps, OtherProcesses
    <3>3. QED
      BY <2>1, <3>1, <3>2, StillQuiet, QuietStep
  <2>4. QED
    BY <2>2, <2>3
<1>5. QED
  BY <1>1, <1>2, <1>3, <1>4

(* The master tells what it reads first, which was not told before.        *)
LEMMA MasterAnnounced ==
  ASSUME TypeInv, AnnouncedInv, NEW p \in Processes, Serve(p) \/ Ping(p)
  PROVE  AnnouncedInv'
<1>a. up \in [Processes -> Seq(Plain \cup Names)] /\ Distinct(up[p]) /\ told \in Seq(files)
  BY DEF TypeInv, StreamsType, AnnouncedInv, StreamInv
<1>b. UNCHANGED <<step, mem, out>>
  BY DEF Serve, Ping
<1>1. CASE Ping(p)
  <2>1. PICK n \in 0 .. Len(up[p]) : up' = [up EXCEPT ![p] = SubSeq(@, n + 1, Len(@))]
    BY <1>1 DEF Ping
  <2>2. Announces(up'[p]) \subseteq Announces(up[p]) /\ Distinct(up'[p])
    BY <2>1, <1>a, ReadsAnnounces
  <2>3. Quiet
    BY <1>1, <2>1, <2>2, <1>a DEF Ping, Quiet, AnnouncedInv, StreamInv
  <2>4. \A q \in Processes : SentInv(q)' /\ OutInv(q)'
    BY <1>b, <2>3, QuietKeeps, OtherProcesses
  <2>5. QED
    BY <1>b, <2>3, <2>4, QuietStep
<1>2. CASE Serve(p)
  <2>1. PICK r \in Reads(up[p]) : up' = [up EXCEPT ![p] = r.rest] /\ Handle(p, r.msg)
    BY <1>2 DEF Serve, MasterReads
  <2>2. r.msg = up[p][1] /\ Len(up[p]) >= 1
    BY <1>a, ReadsProperties
  <2>3. PICK n \in 1 .. Len(up[p]) : r.rest = SubSeq(up[p], n + 1, Len(up[p]))
    BY <1>a, ReadsProperties
  <2>4. /\ Announces(up'[p]) \subseteq Announces(up[p]) /\ Distinct(up'[p])
        /\ up[p][1].key = "SET_NEW_FILENAME" =>
             up[p][1].val \in Announces(up[p]) /\ up[p][1].val \notin Announces(up'[p])
    BY <2>1, <2>3, <1>a, ReadsAnnounces
  <2>5. \A q \in Processes \ {p} : up'[q] = up[q]
    BY <2>1, <1>a
  <2>6. CASE r.msg.key = "SET_NEW_FILENAME"
    <3> DEFINE f == up[p][1].val
    <3>1. /\ told' = Append(told, f)
          /\ f \in Announces(up[p]) /\ f \notin Announces(up'[p])
      BY <2>1, <2>2, <2>4, <2>6 DEF Handle
    <3>2. f.proc = p /\ f \notin ToldFiles
      BY <3>1 DEF AnnouncedInv, StreamInv
    <3> HIDE DEF f
    <3>3. /\ Len(told) \in Nat /\ DOMAIN told = 1 .. Len(told)
          /\ DOMAIN told' = 1 .. Len(told) + 1 /\ told'[Len(told) + 1] = f
          /\ \A i \in 1 .. Len(told) : told'[i] = told[i]
      BY <3>1, <1>a
    <3>4. /\ DOMAIN told' = DOMAIN told \cup {Len(told) + 1} /\ told'[Len(told) + 1] = f
          /\ \A i \in DOMAIN told : told'[i] = told[i]
      BY <3>3
    <3>5. AnnouncedOnce'
      BY <3>2, <3>4 DEF AnnouncedInv, AnnouncedOnce, ToldFiles
    <3>6. ToldFiles' = ToldFiles \cup {f}
      BY <3>4 DEF ToldFiles
    <3>7. \A q \in Processes \ {p} : StreamInv(q)'
      BY <2>5, <3>2, <3>6 DEF AnnouncedInv, StreamInv, Announces, Distinct
    <3>8. StreamInv(p)'
      <4>1. Announces(up[p])' = Announces(up'[p]) /\ Distinct(up[p])' = Distinct(up'[p])
        BY DEF Announces, Distinct
      <4>2. QED
        BY <2>4, <3>1, <3>6, <4>1 DEF AnnouncedInv, StreamInv
    <3>9. Announced' \subseteq Announced
      <4>1. Announced' = ToldFiles' \cup UNION {Announces(up'[q]) : q \in Processes}
        BY DEF Announced, ToldFiles, Announces
      <4>2. QED
        BY <2>4, <2>5, <3>1, <3>6, <4>1, AnnouncedIs
    <3>10. \A q \in Processes : SentInv(q)' /\ OutInv(q)'
      BY <1>b, <3>9, OtherProcesses
    <3>11. QED
      BY <3>5, <3>7, <3>8, <3>10 DEF AnnouncedInv
  <2>7. CASE r.msg.key # "SET_NEW_FILENAME"
    <3>1. told' = told
      BY <2>1, <2>7 DEF Handle
    <3>2. Quiet
      BY <2>4, <2>5, <3>1 DEF Quiet, AnnouncedInv, StreamInv
    <3>3. \A q \in Processes : SentInv(q)' /\ OutInv(q)'
      BY <1>b, <3>2, QuietKeeps, OtherProcesses
    <3>4. QED
      BY <1>b, <3>2, <3>3, QuietStep
  <2>8. QED
    BY <2>6, <2>7
<1>3. QED
  BY <1>1, <1>2

LEMMA AnnouncedInitially == Init => AnnouncedInv
<1> SUFFICES ASSUME Init PROVE AnnouncedInv
  OBVIOUS
<1>1. ToldFiles = {} /\ \A p \in Processes : up[p] = <<>> /\ Announces(up[p]) = {}
  BY DEF Init, ToldFiles, Announces
<1>2. Announced = {}
  BY <1>1, AnnouncedIs
<1>3. \A p \in Processes : StreamInv(p) /\ SentInv(p) /\ OutInv(p)
  BY <1>1, <1>2 DEF Init, StreamInv, Distinct, SentInv, OutInv
<1>4. AnnouncedOnce
  BY DEF Init, AnnouncedOnce
<1>5. QED
  BY <1>3, <1>4 DEF AnnouncedInv

LEMMA AnnouncedStep == TypeInv /\ AnnouncedInv /\ [Next]_vars => AnnouncedInv'
<1> SUFFICES ASSUME TypeInv, AnnouncedInv, [Next]_vars PROVE AnnouncedInv'
  OBVIOUS
<1>1. CASE UNCHANGED vars
  <2>1. UNCHANGED <<up, told, step, mem, out>>
    BY <1>1 DEF vars, masterVars
  <2>2. AnnouncedOnce' /\ \A q \in Processes : StreamInv(q)' /\ SentInv(q)' /\ OutInv(q)'
    BY <2>1, StillQuiet, QuietKeeps, OtherProcesses
  <2>3. QED
    BY <2>2 DEF AnnouncedInv
<1>2. CASE Next
  BY <1>2, ConfigurationAnnounced, BurstAnnounced, EndAnnounced, MasterAnnounced DEF Next, Proceed
<1>3. QED
  BY <1>1, <1>2

LEMMA AnnouncedInvariant == Spec => []AnnouncedInv
<1>1. Init => TypeInv /\ AnnouncedInv
  BY TypeInitially, AnnouncedInitially
<1>2. TypeInv /\ AnnouncedInv /\ [Next]_vars => (TypeInv /\ AnnouncedInv)'
  BY TypeStep, AnnouncedStep
<1>3. QED
  BY <1>1, <1>2, PTL DEF Spec

(* No file is announced to the monitors twice (SendOutputFile(), the       *)
(* handler of SET_NEW_FILENAME), whatever the master loses.                *)
THEOREM FilesAnnouncedOnce == Spec => []AnnouncedOnce
<1>1. AnnouncedInv => AnnouncedOnce
  BY DEF AnnouncedInv
<1>2. QED
  BY <1>1, AnnouncedInvariant, PTL

(* No file is announced while it is being written, neither when the files  *)
(* change nor when the process stops (fetch_vme.cpp:223-225, 237-238).     *)
THEOREM FilesAnnouncedComplete == Spec => []AnnouncedComplete
<1>1. TypeInv /\ AnnouncedInv => AnnouncedComplete
  <2> SUFFICES ASSUME TypeInv, AnnouncedInv, NEW f \in Announced, Open(f) PROVE FALSE
    BY DEF AnnouncedComplete
  <2>1. f \in files /\ f.proc \in Processes /\ f.nth \in Int /\ f.board \in Boards
    BY AnnouncedAreFiles DEF TypeInv, FileType
  <2>2. PICK p \in Processes : p = f.proc
    BY <2>1
  <2>3. f.board \in out[p] /\ mem[p].fOutputFiles[f.board] = f
    BY <2>2 DEF Open
  <2>4. step[p] \in {"readout", "close"} /\ f.board \in 1 .. mem[p].ntdc
    BY <2>1, <2>3, DataTakingAssumption DEF AnnouncedInv, OutInv, Boards
  <2>5. f.nth = mem[p].bursts /\ (step[p] = "close" => f.board > mem[p].i)
    BY <2>3, <2>4 DEF AnnouncedInv, OutInv
  <2>6. SentOK(p, f)
    BY <2>2, <2>4 DEF AnnouncedInv, SentInv, Over
  <2>7. mem[p].i \in Int /\ f.board \in Int
    BY <2>1 DEF TypeInv, ProcessType, MemoryType, Boards
  <2>8. CASE step[p] = "readout"
    BY <2>1, <2>5, <2>6, <2>8 DEF SentOK
  <2>9. CASE step[p] = "close"
    <3>1. f.board <= mem[p].i
      BY <2>5, <2>6, <2>9 DEF SentOK
    <3>2. QED
      BY <2>5, <2>7, <2>9, <3>1
  <2>10. QED
    BY <2>4, <2>8, <2>9
<1>2. QED
  BY <1>1, TypeInvariant, AnnouncedInvariant, PTL
-----------------------------------------------------------------------------
(* All is told, as long as the master loses no message.                    *)

Lossless == "slow" \notin Faults /\ "pings" \notin Faults

(* A file is announced, or will be; a process that dies announces no more. *)
Covered(p, f) ==
  \/ f \in Announced
  \/ step[p] = "dead"
  \/ /\ step[p] \in {"readout", "close", "stop"}
     /\ f.board <= mem[p].ntdc
     /\ step[p] \in {"close", "stop"} => f.board > mem[p].i
     /\ mem[p].fOutputFiles[f.board] = f
CoveredInv == \A f \in files : Covered(f.proc, f)

LEMMA AnnouncedGrows ==
  ASSUME TypeInv, AnnouncedInv, NEW p \in Processes, told' = told,
         \/ up' = up
         \/ Sends(p, <<ExceptionLine>>) \/ Sends(p, <<GetRun>>)
         \/ Sends(p, <<ExceptionLine, GetRun>>)
         \/ Sends(p, <<Message("NEW_RUN", NoFile), GetRun>>)
         \/ Sends(p, <<ExceptionLine, Message("NUM_TRIGGERS", NoFile)>>)
  PROVE  Announced \subseteq Announced'
<1>1. \A t \in Seq(Plain) : Announces(up[p] \o t) = Announces(up[p])
  BY PlainAppended DEF TypeInv, StreamsType, AnnouncedInv, StreamInv
<1>2. \A t \in Seq(Plain) : Sends(p, t) => \A q \in Processes : Announces(up'[q]) = Announces(up[q])
  BY <1>1 DEF Sends, TypeInv, StreamsType
<1>3. \A q \in Processes : Announces(up'[q]) = Announces(up[q])
  BY <1>2, PlainInRow
<1>4. ToldFiles' = ToldFiles
  BY DEF ToldFiles
<1>5. Announced' = ToldFiles' \cup UNION {Announces(up'[q]) : q \in Processes}
  BY DEF Announced, ToldFiles, Announces
<1>6. QED
  BY <1>3, <1>4, <1>5, AnnouncedIs

(* A step of one process, from what it does to its own files.              *)
LEMMA CoveredStep ==
  ASSUME TypeInv, CoveredInv, NEW p \in Processes, Announced \subseteq Announced', files' = files,
         \A q \in Processes \ {p} : step'[q] = step[q] /\ mem'[q] = mem[q],
         \A f \in files : f.proc = p => Covered(p, f)'
  PROVE  CoveredInv'
<1> SUFFICES ASSUME NEW f \in files PROVE Covered(f.proc, f)'
  BY DEF CoveredInv
<1>1. f.proc \in Processes
  BY DEF TypeInv, FileType
<1>2. CASE f.proc = p
  BY <1>2
<1>3. CASE f.proc # p
  BY <1>1, <1>3 DEF CoveredInv, Covered
<1>4. QED
  BY <1>2, <1>3

(* Outside a burst all files are announced.                                *)
LEMMA OutsideCovered ==
  ASSUME TypeInv, AnnouncedInv, CoveredInv, NEW p \in Processes,
         \/ Start(p) \/ RunPrinted(p) \/ AddTDC(p) \/ ConfigurationFails(p)
         \/ CopyConfiguration(p) \/ AskHeader(p) \/ Header(p) \/ FetchAgain(p)
         \/ LastRun(p) \/ LastBurst(p) \/ InsertBurst(p) \/ BurstNumber(p) \/ NoBurstNumber(p)
  PROVE  CoveredInv'
<1>1. /\ step[p] \in {"idle", "configure", "last run", "last burst", "insert"} \cup Waiting
      /\ told' = told /\ files' = files
  BY DEF Start, RunPrinted, AddTDC, ConfigurationFails, CopyConfiguration, AskHeader, Header,
         FetchAgain, LastRun, LastBurst, InsertBurst, BurstNumber, NoBurstNumber, Retry, Fails,
         masterVars, Waiting
<1>2. \/ up' = up
      \/ Sends(p, <<ExceptionLine>>) \/ Sends(p, <<GetRun>>)
      \/ Sends(p, <<ExceptionLine, GetRun>>)
      \/ Sends(p, <<Message("NEW_RUN", NoFile), GetRun>>)
  BY DEF Start, RunPrinted, AddTDC, ConfigurationFails, CopyConfiguration, AskHeader, Header,
         FetchAgain, LastRun, LastBurst, InsertBurst, BurstNumber, NoBurstNumber, Retry, Fails,
         masterVars
<1>3. \A q \in Processes \ {p} : step'[q] = step[q]
  BY DEF Start, RunPrinted, AddTDC, ConfigurationFails, CopyConfiguration, AskHeader, Header,
         FetchAgain, LastRun, LastBurst, InsertBurst, BurstNumber, NoBurstNumber, Retry, Fails,
         Ends, Goes, TypeInv, ProcessType
<1>4. \A q \in Processes \ {p} : mem'[q] = mem[q]
  BY DEF Start, RunPrinted, AddTDC, ConfigurationFails, CopyConfiguration, AskHeader, Header,
         FetchAgain, LastRun, LastBurst, InsertBurst, BurstNumber, NoBurstNumber, Retry, Fails,
         Ends, TypeInv, ProcessType
<1>5. Announced \subseteq Announced'
  BY <1>1, <1>2, AnnouncedGrows
<1>6. \A f \in files : f.proc = p => f \in Announced
  BY <1>1 DEF CoveredInv, Covered, Waiting
<1>7. QED
  BY <1>1, <1>3, <1>4, <1>5, <1>6, CoveredStep, ZenonT(60) DEF Covered

LEMMA InsideCovered ==
  ASSUME TypeInv, AnnouncedInv, CoveredInv, NEW p \in Processes,
         FileChange(p) \/ Stopped(p) \/ NextBurst(p) \/ Return(p)
  PROVE  CoveredInv'
<1>a. /\ mem \in [Processes -> MemoryType] /\ mem[p].ntdc \in Int
      /\ \A f \in files : f.board \in Int /\ f.board > 0
  <2>1. mem \in [Processes -> MemoryType] /\ mem[p].ntdc \in Int
    BY DataTakingAssumption DEF TypeInv, ProcessType, MemoryType
  <2>2. \A f \in files : f.board \in 1 .. NumTDC
    BY DEF TypeInv, FileType, Boards
  <2>3. QED
    BY <2>1, <2>2, DataTakingAssumption
<1>1. \A q \in Processes \ {p} : step'[q] = step[q] /\ mem'[q] = mem[q]
  BY DEF FileChange, Stopped, NextBurst, Return, Ends, Goes, TypeInv, ProcessType
<1>2. files' = files /\ Announced \subseteq Announced'
  BY AnnouncedGrows DEF FileChange, Stopped, NextBurst, Return, masterVars
<1>3. CASE FileChange(p) \/ Stopped(p)
  <2>1. /\ step[p] = "readout" /\ step'[p] \in {"close", "stop"} /\ mem'[p].i = 0
        /\ mem'[p].ntdc = mem[p].ntdc /\ mem'[p].fOutputFiles = mem[p].fOutputFiles
    BY <1>3, <1>a DEF FileChange, Stopped, Goes, TypeInv, ProcessType, MemoryType
  <2>2. \A f \in files : f.proc = p => Covered(p, f)'
    BY <1>2, <1>a, <2>1 DEF CoveredInv, Covered
  <2>3. QED
    BY <1>1, <1>2, <2>2, CoveredStep
<1>4. CASE NextBurst(p) \/ Return(p)
  <2>1. step[p] \in {"close", "stop"} /\ mem[p].i = mem[p].ntdc
    BY <1>4 DEF NextBurst, Return
  <2>2. \A f \in files : f.proc = p => f \in Announced
    <3>1. \A f \in files : ~(f.board <= mem[p].ntdc /\ f.board > mem[p].i)
      BY <1>a, <2>1
    <3>2. QED
      BY <2>1, <3>1 DEF CoveredInv, Covered
  <2>3. QED
    BY <1>1, <1>2, <2>2, CoveredStep DEF Covered
<1>5. QED
  BY <1>3, <1>4

(* The new files are to be announced; the earlier ones are.                *)
LEMMA OpenFilesCovered ==
  ASSUME TypeInv, AnnouncedInv, CoveredInv, NEW p \in Processes, OpenFiles(p)
  PROVE  CoveredInv'
<1> DEFINE names == [b \in 1 .. mem[p].ntdc |-> File(p, b)]
<1>1. /\ step[p] = "open" /\ Goes(p, "readout") /\ UNCHANGED <<up, told>>
      /\ files' = files \cup {names[b] : b \in DOMAIN names}
      /\ mem' = [mem EXCEPT ![p].fOutputFiles = names]
  BY DEF OpenFiles, masterVars
<1>2. \A b \in 1 .. mem[p].ntdc : names[b].proc = p /\ names[b].board = b
  BY DEF File
<1>3. DOMAIN names = 1 .. mem[p].ntdc /\ mem[p].ntdc \in Nat
  BY DataTakingAssumption DEF TypeInv, ProcessType, MemoryType
<1> HIDE DEF names
<1>4. /\ \A q \in Processes \ {p} : step'[q] = step[q] /\ mem'[q] = mem[q]
      /\ step'[p] = "readout" /\ mem'[p].ntdc = mem[p].ntdc /\ mem'[p].fOutputFiles = names
  BY <1>1 DEF TypeInv, ProcessType, Goes, MemoryType
<1>5. Announced \subseteq Announced'
  BY <1>1, AnnouncedGrows
<1>6. ASSUME NEW f \in files PROVE Covered(f.proc, f)'
  <2>1. f.proc \in Processes
    BY DEF TypeInv, FileType
  <2>2. CASE f.proc = p
    BY <1>1, <1>5, <2>2 DEF CoveredInv, Covered
  <2>3. CASE f.proc # p
    BY <1>4, <1>5, <2>1, <2>3 DEF CoveredInv, Covered
  <2>4. QED
    BY <2>2, <2>3
<1>7. ASSUME NEW g \in {names[b] : b \in DOMAIN names} PROVE Covered(g.proc, g)'
  <2>1. PICK b \in 1 .. mem[p].ntdc : g = names[b]
    BY <1>3
  <2>2. /\ step'[p] = "readout" /\ g.board <= mem'[p].ntdc /\ g.proc = p
        /\ mem'[p].fOutputFiles[g.board] = g
    BY <1>2, <1>3, <1>4, <2>1
  <2>3. QED
    BY <2>2 DEF Covered
<1>8. QED
  BY <1>1, <1>6, <1>7 DEF CoveredInv

LEMMA SendOutputFileCovered ==
  ASSUME TypeInv, AnnouncedInv, CoveredInv, NEW p \in Processes, SendOutputFile(p)
  PROVE  CoveredInv'
<1> DEFINE board == mem[p].i + 1
           f == mem[p].fOutputFiles[board]
           m == [mem[p] EXCEPT !.i = board]
<1>1. /\ step[p] \in {"close", "stop"}
      /\ up' = [up EXCEPT ![p] = @ \o <<Message("SET_NEW_FILENAME", f)>>]
      /\ mem' = [mem EXCEPT ![p] = m] /\ UNCHANGED <<step, told, files>>
  BY DEF SendOutputFile, Sends
<1>2. /\ m.ntdc = mem[p].ntdc /\ m.i = board /\ m.fOutputFiles = mem[p].fOutputFiles
      /\ mem[p].i \in Int
  BY DEF TypeInv, ProcessType, MemoryType
<1> HIDE DEF f, m
<1>3. Announces(up[p]) \subseteq Announces(up'[p]) /\ f \in Announces(up'[p])
  <2>1. up[p] \in Seq(Plain \cup Names) /\ up'[p] = up[p] \o <<Message("SET_NEW_FILENAME", f)>>
    BY <1>1 DEF TypeInv, StreamsType
  <2>2. /\ DOMAIN up'[p] = DOMAIN up[p] \cup {Len(up[p]) + 1}
        /\ \A i \in DOMAIN up[p] : up'[p][i] = up[p][i]
        /\ up'[p][Len(up[p]) + 1] = Message("SET_NEW_FILENAME", f)
    BY <2>1
  <2>3. QED
    BY <2>2 DEF Announces, Message
<1>4. Announced \subseteq Announced' /\ f \in Announced'
  <2>1. ToldFiles' = ToldFiles /\ \A q \in Processes \ {p} : up'[q] = up[q]
    BY <1>1 DEF ToldFiles, TypeInv, StreamsType
  <2>2. Announced' = ToldFiles' \cup UNION {Announces(up'[q]) : q \in Processes}
    BY DEF Announced, ToldFiles, Announces
  <2>3. QED
    BY <1>3, <2>1, <2>2, AnnouncedIs
<1>5. /\ \A q \in Processes \ {p} : step'[q] = step[q] /\ mem'[q] = mem[q]
      /\ step'[p] = step[p] /\ mem'[p] = m
  BY <1>1 DEF TypeInv, ProcessType
<1>6. ASSUME NEW g \in files, g.proc = p PROVE Covered(p, g)'
  <2>1. CASE g \in Announced
    BY <1>4, <2>1 DEF Covered
  <2>2. CASE g \notin Announced
    <3>1. g.board <= mem[p].ntdc /\ g.board > mem[p].i /\ mem[p].fOutputFiles[g.board] = g
      BY <1>1, <1>6, <2>2 DEF CoveredInv, Covered
    <3>2. g.board \in Int
      BY DEF TypeInv, FileType, Boards
    <3>3. g.board = board \/ g.board > board
      BY <1>2, <3>1, <3>2
    <3>4. CASE g.board = board
      BY <1>4, <3>1, <3>4 DEF Covered, f
    <3>5. CASE g.board > board
      BY <1>1, <1>2, <1>5, <3>1, <3>5 DEF Covered
    <3>6. QED
      BY <3>3, <3>4, <3>5
  <2>3. QED
    BY <2>1, <2>2
<1>7. QED
  BY <1>1, <1>4, <1>5, <1>6, CoveredStep

LEMMA EndCovered ==
  ASSUME TypeInv, AnnouncedInv, CoveredInv, NEW p \in Processes, Die(p) \/ Signal(p)
  PROVE  CoveredInv'
<1>1. files' = files /\ Announced \subseteq Announced'
  BY AnnouncedGrows DEF Die, Signal
<1>2. CASE Ends(p, "dead")
  <2>1. /\ \A q \in Processes \ {p} : step'[q] = step[q] /\ mem'[q] = mem[q]
        /\ step'[p] = "dead"
    BY <1>2 DEF Ends, Goes, TypeInv, ProcessType
  <2>2. QED
    BY <1>1, <2>1, CoveredStep DEF Covered
<1>3. CASE UNCHANGED <<step, mem>>
  BY <1>1, <1>3 DEF CoveredInv, Covered
<1>4. QED
  BY <1>2, <1>3 DEF Die, Signal

LEMMA MasterCovered ==
  ASSUME TypeInv, AnnouncedInv, CoveredInv, Lossless, NEW p \in Processes, Serve(p) \/ Ping(p)
  PROVE  CoveredInv'
<1>a. up \in [Processes -> Seq(Plain \cup Names)] /\ Distinct(up[p]) /\ told \in Seq(files)
  BY DEF TypeInv, StreamsType, AnnouncedInv, StreamInv
<1>1. Serve(p) /\ UNCHANGED <<step, mem, files>>
  BY DEF Lossless, Ping, Serve
<1>2. PICK r \in MasterReads(up[p]) : up' = [up EXCEPT ![p] = r.rest] /\ Handle(p, r.msg)
  BY <1>1 DEF Serve
<1>3. /\ r \in Reads(up[p]) /\ Len(r.rest) + 1 = Len(up[p])
  BY <1>2 DEF MasterReads, Lossless
<1>4. r.msg = up[p][1] /\ Len(up[p]) >= 1
  BY <1>a, <1>3, ReadsProperties
<1>5. PICK n \in 1 .. Len(up[p]) : r.rest = SubSeq(up[p], n + 1, Len(up[p]))
  BY <1>a, <1>3, ReadsProperties
<1>6. n = 1
  <2>1. Len(r.rest) = Len(up[p]) - n
    BY <1>a, <1>5, SubSeqProperties
  <2>2. Len(up[p]) \in Nat
    BY <1>a
  <2>3. QED
    BY <1>3, <1>5, <2>1, <2>2
<1>7. \A f \in Announces(up[p]) :
        f \in Announces(up'[p]) \/ (r.msg.key = "SET_NEW_FILENAME" /\ f = r.msg.val)
  <2>1. n \in 0 .. Len(up[p]) /\ up[p] \in Seq(Plain \cup Names) /\ up'[p] = r.rest
    BY <1>2, <1>a
  <2>2. \A f \in Announces(up[p]) :
          f \in Announces(SubSeq(up[p], n + 1, Len(up[p])))
            \/ (up[p][1].key = "SET_NEW_FILENAME" /\ f = up[p][1].val)
    BY <1>6, <1>a, <2>1, ReadsAnnounces
  <2>3. QED
    BY <1>4, <1>5, <2>1, <2>2
<1>8. \A q \in Processes \ {p} : up'[q] = up[q]
  BY <1>2, <1>a
<1>9. ToldFiles \subseteq ToldFiles' /\ (r.msg.key = "SET_NEW_FILENAME" => r.msg.val \in ToldFiles')
  <2>1. CASE told' = told /\ r.msg.key # "SET_NEW_FILENAME"
    BY <2>1 DEF ToldFiles
  <2>2. CASE told' = Append(told, r.msg.val)
    <3>1. /\ DOMAIN told' = DOMAIN told \cup {Len(told) + 1}
          /\ \A i \in DOMAIN told : told'[i] = told[i]
          /\ told'[Len(told) + 1] = r.msg.val
      BY <2>2, <1>a
    <3>2. QED
      BY <3>1 DEF ToldFiles
  <2>3. QED
    BY <1>2, <2>1, <2>2 DEF Handle
<1>10. Announced \subseteq Announced'
  <2>1. Announced' = ToldFiles' \cup UNION {Announces(up'[q]) : q \in Processes}
    BY DEF Announced, ToldFiles, Announces
  <2>2. QED
    BY <1>7, <1>8, <1>9, <2>1, AnnouncedIs
<1>11. QED
  BY <1>1, <1>10 DEF CoveredInv, Covered

LEMMA CoveredNextStep ==
  TypeInv /\ AnnouncedInv /\ (Lossless => CoveredInv) /\ [Next]_vars => (Lossless => CoveredInv')
<1> SUFFICES ASSUME TypeInv, AnnouncedInv, Lossless, CoveredInv, [Next]_vars PROVE CoveredInv'
  OBVIOUS
<1>1. CASE UNCHANGED vars
  BY <1>1 DEF vars, masterVars, CoveredInv, Covered, Announced
<1>2. CASE Next
  BY <1>2, OutsideCovered, InsideCovered, OpenFilesCovered, SendOutputFileCovered, EndCovered,
     MasterCovered DEF Next, Proceed
<1>3. QED
  BY <1>1, <1>2

(* As long as the master reads its messages one by one, and before it      *)
(* answers too late, a process that has stopped as it should has told of   *)
(* all the files it wrote (fetch_vme.cpp:231-244).                         *)
THEOREM StoppedHasToldAll == Spec => [](Lossless => AllTold)
<1>1. Init => TypeInv /\ AnnouncedInv /\ (Lossless => CoveredInv)
  BY TypeInitially, AnnouncedInitially DEF Init, CoveredInv
<1>2. /\ TypeInv /\ AnnouncedInv /\ (Lossless => CoveredInv)
      /\ [Next]_vars
      => (TypeInv /\ AnnouncedInv /\ (Lossless => CoveredInv))'
  BY TypeStep, AnnouncedStep, CoveredNextStep DEF Lossless
<1>3. TypeInv /\ AnnouncedInv /\ (Lossless => CoveredInv) => (Lossless => AllTold)
  <2> SUFFICES ASSUME AnnouncedInv, TypeInv, CoveredInv, NEW p \in Processes,
                      step[p] = "done", up[p] = <<>>, NEW f \in files, f.proc = p
               PROVE  \E i \in DOMAIN told : told[i] = f
    BY DEF AllTold
  <2>1. f \in Announced
    BY DEF CoveredInv, Covered
  <2>2. \A q \in Processes : f \in Announces(up[q]) => q = p
    BY DEF AnnouncedInv, StreamInv
  <2>3. f \notin Announces(up[p])
    BY DEF Announces
  <2>4. f \in ToldFiles
    BY <2>1, <2>2, <2>3, AnnouncedIs
  <2>5. QED
    BY <2>4 DEF ToldFiles
<1>4. QED
  BY <1>1, <1>2, <1>3, PTL DEF Spec
-----------------------------------------------------------------------------
(***************************************************************************)
(* What an acquisition promises to whoever reads its files, as long as     *)
(* nothing but the boards fails: the header of a file is that of its burst *)
(* and of no other file, its conditions are recorded, and the database and *)
(* the files announced are the log that RunLog describes.                  *)
(***************************************************************************)
(* The master answers in time and reads all it is sent, the database can   *)
(* be accessed, and a process is started when the former one is over.      *)
Calm == Faults \subseteq {"boards"}

(* A process that may still change something for the others.               *)
Busy(p) == Alive(p) \/ up[p] # <<>>

SoloInv == \A p, q \in Processes : Busy(p) /\ Busy(q) => p = q

(* The request for the run is the last thing a process says before it      *)
(* waits, and the answer is the only thing the master ever says.           *)
NoKey(s, k) == \A i \in DOMAIN s : s[i].key # k
AskedLast(s) ==
  /\ s # <<>> /\ s[Len(s)] = GetRun
  /\ \A i \in DOMAIN s : i # Len(s) => s[i].key # "GET_RUN_NUMBER"
Silent(p) == NoKey(up[p], "GET_RUN_NUMBER")
Pending(p) ==
  \/ AskedLast(up[p]) /\ down[p] = <<>>
  \/ Silent(p) /\ down[p] = <<Message("RUN_NUMBER", lastRun)>>
Opening(p) ==
  /\ step[p] = "ask new run" /\ down[p] = <<>>
  /\ up[p] = <<Message("NEW_RUN", NoFile), GetRun>>
InRun(p) ==
  /\ lastRun > 0 /\ NoKey(up[p], "NEW_RUN")
  /\ IF step[p] \in Waiting THEN Pending(p) ELSE Silent(p) /\ down[p] = <<>>
ProtocolInv(p) ==
  IF Alive(p) THEN Opening(p) \/ InRun(p) ELSE down[p] = <<>>

(* What the variables of a process say of the database, by its step: the   *)
(* run, the last burst, the row that was inserted and what it holds.       *)
RowInv(p) ==
  LET m == mem[p] IN
  /\ m.row \in 1 .. Len(rows)
  /\ step[p] = "ask burst" =>
       rows[m.row][1] = lastRun /\ IsLastBurst(lastRun, rows[m.row][2])
  /\ step[p] = "open" => rows[m.row] = <<m.run, m.spill>>
  /\ step[p] \in {"ask burst", "open"} => \A f \in files : f.row < m.row
MemoryInv(p) ==
  /\ step[p] \in {"last run", "last burst", "insert", "ask burst", "open", "readout", "close"} =>
       mem[p].run = lastRun
  /\ step[p] \in {"last burst", "insert"} => mem[p].current_run = lastRun
  /\ step[p] = "insert" =>
       \/ IsLastBurst(lastRun, mem[p].last_burst)
       \/ BurstsOf(lastRun) = {} /\ mem[p].last_burst = -1
  /\ step[p] \in {"ask burst", "open"} => RowInv(p)

(* The boards of a process have their conditions, but the last one if it   *)
(* failed.                                                                 *)
BoardsInv(p) ==
  /\ ~Alive(p) \/ step[p] = "ask new run" => mem[p].ntdc = 0
  /\ \A b \in 1 .. mem[p].ntdc :
       \/ <<lastRun, b>> \in conditions
       \/ "boards" \in Faults /\ b = mem[p].ntdc /\ step[p] # "configure"

(* The files of a process belong to the bursts it has had.                 *)
BurstInv(p) ==
  ~Over(p) => \A f \in files : f.proc = p =>
    /\ f.nth <= mem[p].bursts
    /\ step[p] \in {"ask burst", "open"} => f.nth < mem[p].bursts

RowsInv ==
  /\ \A i \in DOMAIN rows : rows[i][2] < i
  /\ \A i, j \in DOMAIN rows : rows[i] = rows[j] => i = j
FilesInv ==
  /\ \A f \in files : f.row \in DOMAIN rows /\ rows[f.row] = <<f.run, f.spill>>
  /\ \A f, g \in files : f.row = g.row => f.proc = g.proc /\ f.nth = g.nth

ProcessInv(p) ==
  ProtocolInv(p) /\ (Alive(p) => MemoryInv(p)) /\ BoardsInv(p) /\ BurstInv(p)
LogInv ==
  /\ SoloInv /\ RowsInv /\ FilesInv /\ ConditionsRecorded
  /\ \A p \in Processes : ProcessInv(p)
-----------------------------------------------------------------------------
(* Messages in a row.                                                      *)

LEMMA Single ==
  ASSUME NEW x, NEW t, t = <<x>>
  PROVE  Len(t) = 1 /\ DOMAIN t = {1} /\ t[1] = x
OBVIOUS

LEMMA Pair ==
  ASSUME NEW x, NEW y, NEW t, t = <<x, y>>
  PROVE  Len(t) = 2 /\ DOMAIN t = {1, 2} /\ t[1] = x /\ t[2] = y
OBVIOUS

LEMMA PairAppended ==
  ASSUME NEW S, NEW s \in Seq(S), NEW x \in S, NEW y \in S
  PROVE  s \o <<x, y>> = (s \o <<x>>) \o <<y>>
<1>1. s \o <<x>> = Append(s, x) /\ Append(s, x) \in Seq(S)
  OBVIOUS
<1>2. Append(s, x) \o <<y>> = Append(Append(s, x), y)
  BY <1>1
<1>3. s \o <<x, y>> = Append(Append(s, x), y)
  OBVIOUS
<1>4. QED
  BY <1>1, <1>2, <1>3

LEMMA AppendIs ==
  ASSUME NEW S, NEW s \in Seq(S), NEW e \in S
  PROVE  Append(s, e) = [j \in 1 .. Len(s) + 1 |-> IF j = Len(s) + 1 THEN e ELSE s[j]]
<1>1. /\ Append(s, e) \in Seq(S) /\ Len(Append(s, e)) = Len(s) + 1 /\ Len(s) \in Nat
      /\ \A j \in 1 .. Len(s) : Append(s, e)[j] = s[j]
      /\ Append(s, e)[Len(s) + 1] = e
  BY AppendProperties
<1>2. PICK a : a = Append(s, e)
  OBVIOUS
<1>3. a \in [1 .. Len(s) + 1 -> S]
  BY <1>1, <1>2, LenProperties
<1>4. \A j \in 1 .. Len(s) + 1 : a[j] = IF j = Len(s) + 1 THEN e ELSE s[j]
  BY <1>1, <1>2
<1>5. QED
  BY <1>2, <1>3, <1>4

LEMMA NoneLeft ==
  ASSUME NEW S, NEW s \in Seq(S)
  PROVE  s = <<>> <=> Len(s) = 0
OBVIOUS

LEMMA Appending ==
  ASSUME NEW s \in Seq(Plain \cup Names), NEW m \in Plain \cup Names,
         NoKey(s, "GET_RUN_NUMBER")
  PROVE  /\ s \o <<m>> \in Seq(Plain \cup Names)
         /\ m.key # "GET_RUN_NUMBER" => NoKey(s \o <<m>>, "GET_RUN_NUMBER")
         /\ NoKey(s, "NEW_RUN") /\ m.key # "NEW_RUN" => NoKey(s \o <<m>>, "NEW_RUN")
         /\ m = GetRun => AskedLast(s \o <<m>>)
<1>1. /\ s \o <<m>> \in Seq(Plain \cup Names) /\ Len(s \o <<m>>) = Len(s) + 1
      /\ DOMAIN (s \o <<m>>) = DOMAIN s \cup {Len(s) + 1}
      /\ \A i \in DOMAIN s : (s \o <<m>>)[i] = s[i]
      /\ (s \o <<m>>)[Len(s) + 1] = m
      /\ s \o <<m>> # <<>>
  OBVIOUS
<1>2. QED
  BY <1>1 DEF NoKey, AskedLast

(* What a process says at its start, and after that.                       *)
LEMMA Saying ==
  ASSUME NEW s \in Seq(Plain \cup Names), NoKey(s, "GET_RUN_NUMBER"), NoKey(s, "NEW_RUN")
  PROVE  /\ \A t \in {<<ExceptionLine>>, <<ExceptionLine, Message("NUM_TRIGGERS", NoFile)>>} :
              NoKey(s \o t, "GET_RUN_NUMBER") /\ NoKey(s \o t, "NEW_RUN")
         /\ \A f \in files :
              LET t == <<Message("SET_NEW_FILENAME", f)>> IN
              NoKey(s \o t, "GET_RUN_NUMBER") /\ NoKey(s \o t, "NEW_RUN")
         /\ \A t \in {<<GetRun>>, <<ExceptionLine, GetRun>>} :
              AskedLast(s \o t) /\ NoKey(s \o t, "NEW_RUN")
<1>1. /\ ExceptionLine.key = "EXCEPTION" /\ GetRun.key = "GET_RUN_NUMBER"
      /\ Message("NUM_TRIGGERS", NoFile).key = "NUM_TRIGGERS"
      /\ \A f \in files : Message("SET_NEW_FILENAME", f).key = "SET_NEW_FILENAME"
  BY DEF ExceptionLine, GetRun, Message
<1>2. ASSUME NEW n \in Plain \cup Names, n.key # "NEW_RUN"
      PROVE  LET t == <<ExceptionLine, n>> IN
             /\ NoKey(s \o t, "NEW_RUN")
             /\ n.key # "GET_RUN_NUMBER" => NoKey(s \o t, "GET_RUN_NUMBER")
             /\ n = GetRun => AskedLast(s \o t)
  <2>1. ExceptionLine \in Plain \cup Names
    BY PlainMessages
  <2>2. s \o <<ExceptionLine, n>> = (s \o <<ExceptionLine>>) \o <<n>>
    BY <2>1, PairAppended, SMTT(40)
  <2>3. QED
    BY <1>1, <1>2, <2>1, <2>2, Appending
<1>3. QED
  BY <1>1, <1>2, Appending, PlainMessages

(* What is left when the master has read one message.                      *)
LEMMA Taken ==
  ASSUME NEW s \in Seq(Plain \cup Names), Len(s) >= 1
  PROVE  LET t == SubSeq(s, 2, Len(s)) IN
         /\ \A k : NoKey(s, k) => s[1].key # k /\ NoKey(t, k)
         /\ AskedLast(s) =>
              \/ s[1] = GetRun /\ NoKey(t, "GET_RUN_NUMBER")
              \/ s[1].key # "GET_RUN_NUMBER" /\ AskedLast(t)
         /\ s = <<Message("NEW_RUN", NoFile), GetRun>> =>
              s[1].key = "NEW_RUN" /\ AskedLast(t) /\ NoKey(t, "NEW_RUN")
<1> DEFINE t == SubSeq(s, 2, Len(s))
<1>1. /\ t \in Seq(Plain \cup Names)
      /\ Len(t) = Len(s) - 1 /\ DOMAIN t = 1 .. Len(s) - 1 /\ DOMAIN s = 1 .. Len(s)
      /\ Len(s) \in Nat /\ \A i \in 1 .. Len(s) - 1 : t[i] = s[i + 1]
  <2>1. Len(s) \in Nat /\ DOMAIN s = 1 .. Len(s) /\ \A i \in 2 .. Len(s) : s[i] \in Plain \cup Names
    OBVIOUS
  <2>2. /\ t \in Seq(Plain \cup Names)
        /\ Len(t) = IF 2 <= Len(s) THEN Len(s) - 2 + 1 ELSE 0
        /\ \A i \in 1 .. Len(s) - 2 + 1 : t[i] = s[2 + i - 1]
    BY <2>1, SubSeqProperties
  <2>3. Len(t) = Len(s) - 1 /\ DOMAIN t = 1 .. Len(t)
    BY <2>1, <2>2
  <2>4. QED
    BY <2>1, <2>2, <2>3
<1>2. t = <<>> <=> Len(s) = 1
  <2> HIDE DEF t
  <2>1. t = <<>> <=> Len(t) = 0
    BY <1>1, NoneLeft
  <2>2. QED
    BY <1>1, <2>1
<1> HIDE DEF t
<1>3. ASSUME NEW k, NoKey(s, k) PROVE s[1].key # k /\ NoKey(t, k)
  BY <1>1, <1>3 DEF NoKey
<1>4. ASSUME AskedLast(s)
      PROVE  \/ s[1] = GetRun /\ NoKey(t, "GET_RUN_NUMBER")
             \/ s[1].key # "GET_RUN_NUMBER" /\ AskedLast(t)
  <2>1. CASE Len(s) = 1
    BY <1>1, <1>4, <2>1 DEF AskedLast, NoKey
  <2>2. CASE Len(s) > 1
    BY <1>1, <1>2, <1>4, <2>2, SMTT(40) DEF AskedLast
  <2>3. QED
    BY <1>1, <2>1, <2>2
<1>5. ASSUME s = <<Message("NEW_RUN", NoFile), GetRun>>
      PROVE  s[1].key = "NEW_RUN" /\ AskedLast(t) /\ NoKey(t, "NEW_RUN")
  <2>1. Len(s) = 2 /\ s[1].key = "NEW_RUN" /\ s[2] = GetRun
    BY <1>5 DEF Message
  <2>2. t # <<>> /\ Len(t) = 1 /\ DOMAIN t = {1} /\ t[1] = GetRun
    BY <1>1, <1>2, <2>1
  <2>3. QED
    BY <2>1, <2>2 DEF AskedLast, NoKey, GetRun, Message
<1>6. QED
  BY <1>3, <1>4, <1>5 DEF t
-----------------------------------------------------------------------------
(* What a step of one process does not touch.                              *)

OnlyOf(p) ==
  \A q \in Processes \ {p} :
    /\ step'[q] = step[q] /\ up'[q] = up[q] /\ down'[q] = down[q] /\ mem'[q] = mem[q]
    /\ \A f \in files' : f.proc = q => f \in files

(* The other processes are not busy when the database or the files change. *)
LEMMA OthersKeep ==
  ASSUME TypeInv, LogInv, NEW p \in Processes, OnlyOf(p),
         Busy(p) \/ UNCHANGED <<dbVars, files>>,
         NEW q \in Processes \ {p}
  PROVE  ProcessInv(q)'
<1>1. /\ step'[q] = step[q] /\ up'[q] = up[q] /\ down'[q] = down[q] /\ mem'[q] = mem[q]
      /\ \A f \in files' : f.proc = q => f \in files
  BY DEF OnlyOf
<1>2. ProcessInv(q)
  BY DEF LogInv
<1>3. (Alive(q) <=> Alive(q)') /\ (Over(q) <=> Over(q)')
  BY <1>1 DEF Alive, Over
<1>4. BurstInv(q)'
  BY <1>1, <1>2, <1>3 DEF ProcessInv, BurstInv
<1>5. CASE Busy(p)
  <2>1. ~Alive(q)
    BY <1>5 DEF LogInv, SoloInv, Busy
  <2>2. mem[q].ntdc = 0
    BY <1>2, <2>1 DEF ProcessInv, BoardsInv
  <2>3. BoardsInv(q)'
    BY <1>1, <2>2 DEF BoardsInv
  <2>4. ProtocolInv(q)'
    BY <1>1, <1>2, <1>3, <2>1 DEF ProcessInv, ProtocolInv
  <2>5. QED
    BY <1>3, <1>4, <2>1, <2>3, <2>4 DEF ProcessInv
<1>6. CASE UNCHANGED <<dbVars, files>>
  <2>1. lastRun' = lastRun /\ rows' = rows /\ conditions' = conditions /\ files' = files
    BY <1>6 DEF dbVars
  <2>2. BoardsInv(q)'
    BY <1>1, <1>2, <1>3, <2>1 DEF ProcessInv, BoardsInv
  <2>3. ProtocolInv(q)'
    BY <1>1, <1>2, <1>3, <2>1 DEF ProcessInv, ProtocolInv, Opening, InRun, Pending, Silent
  <2>4. (Alive(q) => MemoryInv(q))'
    BY <1>1, <1>2, <1>3, <2>1 DEF ProcessInv, MemoryInv, RowInv, IsLastBurst, BurstsOf
  <2>5. QED
    BY <1>4, <2>2, <2>3, <2>4 DEF ProcessInv
<1>7. QED
  BY <1>5, <1>6

(* A step of a busy process, from what it does to the log and to itself.   *)
LEMMA BusyStep ==
  ASSUME TypeInv, LogInv, NEW p \in Processes, OnlyOf(p), Busy(p),
         RowsInv', FilesInv', ConditionsRecorded', ProcessInv(p)'
  PROVE  LogInv'
<1>1. \A q \in Processes \ {p} : ~Busy(q) /\ (Busy(q)' <=> Busy(q))
  BY DEF LogInv, SoloInv, OnlyOf, Busy, Alive, Over
<1>2. SoloInv'
  BY <1>1 DEF SoloInv
<1>3. \A q \in Processes : ProcessInv(q)'
  BY OthersKeep
<1>4. QED
  BY <1>2, <1>3 DEF LogInv

(* Nearly all steps leave the log as it is.                                *)
LEMMA LogKept ==
  ASSUME LogInv, UNCHANGED <<rows, conditions, files>>
  PROVE  RowsInv' /\ FilesInv' /\ ConditionsRecorded'
BY DEF LogInv, RowsInv, FilesInv, ConditionsRecorded

(* What a process is told, and by then its request is served.              *)
LEMMA Heard ==
  ASSUME TypeInv, Calm, LogInv, NEW p \in Processes, step[p] \in Waiting, NEW r \in Fetch(p)
  PROVE  /\ InRun(p) /\ Silent(p) /\ IsAnswer(p, r)
         /\ r.msg.val = lastRun /\ r.rest = <<>>
<1>1. Alive(p) /\ (Opening(p) \/ InRun(p))
  BY DEF LogInv, ProcessInv, ProtocolInv, Alive, Over, Waiting
<1>2. up[p] \in Seq(Plain \cup Names)
  BY DEF TypeInv, StreamsType
<1>3. "slow" \notin Faults
  BY DEF Calm
<1>4. CASE down[p] = <<>>
  <2>1. \E i \in DOMAIN up[p] : up[p][i] = GetRun
    <3>1. CASE Opening(p)
      <4>1. up[p] = <<Message("NEW_RUN", NoFile), GetRun>>
        BY <3>1 DEF Opening
      <4>2. up[p][2] = GetRun /\ DOMAIN up[p] = {1, 2}
        BY <4>1, Pair
      <4>3. QED
        BY <4>2
    <3>2. CASE InRun(p)
      <4>1. AskedLast(up[p])
        BY <1>4, <3>2 DEF InRun, Pending
      <4>2. Len(up[p]) \in DOMAIN up[p]
        BY <1>2, <4>1 DEF AskedLast
      <4>3. QED
        BY <4>1, <4>2 DEF AskedLast
    <3>3. QED
      BY <1>1, <3>1, <3>2
  <2>2. FALSE
    BY <1>3, <1>4, <2>1 DEF Fetch
  <2>3. QED
    BY <2>2
<1>5. CASE down[p] # <<>>
  <2>1. InRun(p) /\ Silent(p) /\ down[p] = <<Message("RUN_NUMBER", lastRun)>>
    BY <1>1, <1>5 DEF Opening, InRun, Pending
  <2>2. /\ Len(down[p]) = 1 /\ down[p][1] = Message("RUN_NUMBER", lastRun)
        /\ down[p] \in Seq(Answers)
    BY <2>1, Single DEF TypeInv, StreamsType
  <2>3. r \in Reads(down[p])
    BY <1>5 DEF Fetch
  <2>4. r.msg = Message("RUN_NUMBER", lastRun) /\ r.rest = SubSeq(down[p], 2, 1)
    BY <2>2, <2>3, ReadsProperties
  <2>5. r.rest = <<>>
    BY <2>4, SubSeqEmpty
  <2>6. QED
    BY <2>1, <2>4, <2>5 DEF IsAnswer, Message
<1>6. QED
  BY <1>4, <1>5
(* A process that has its answer says something more.                      *)
LEMMA Talks ==
  ASSUME TypeInv, NEW p \in Processes, InRun(p), Silent(p), lastRun' = lastRun, down'[p] = <<>>,
         \/ /\ step'[p] \notin Waiting
            /\ \/ up' = up \/ Sends(p, <<ExceptionLine>>)
               \/ Sends(p, <<ExceptionLine, Message("NUM_TRIGGERS", NoFile)>>)
               \/ \E f \in files : Sends(p, <<Message("SET_NEW_FILENAME", f)>>)
         \/ /\ step'[p] \in Waiting
            /\ Sends(p, <<GetRun>>) \/ Sends(p, <<ExceptionLine, GetRun>>)
  PROVE  InRun(p)'
<1>1. /\ up[p] \in Seq(Plain \cup Names) /\ NoKey(up[p], "GET_RUN_NUMBER")
      /\ NoKey(up[p], "NEW_RUN") /\ lastRun > 0
  BY DEF TypeInv, StreamsType, InRun, Silent
<1>2. \A t : Sends(p, t) => up'[p] = up[p] \o t
  BY DEF Sends, TypeInv, StreamsType
<1>3. CASE step'[p] \notin Waiting
  <2>1. NoKey(up'[p], "GET_RUN_NUMBER") /\ NoKey(up'[p], "NEW_RUN")
    <3>1. CASE up' = up
      BY <1>1, <3>1
    <3>2. CASE Sends(p, <<ExceptionLine>>)
      BY <1>1, <1>2, <3>2, Saying
    <3>3. CASE Sends(p, <<ExceptionLine, Message("NUM_TRIGGERS", NoFile)>>)
      BY <1>1, <1>2, <3>3, Saying
    <3>4. ASSUME NEW f \in files, Sends(p, <<Message("SET_NEW_FILENAME", f)>>)
          PROVE  NoKey(up'[p], "GET_RUN_NUMBER") /\ NoKey(up'[p], "NEW_RUN")
      BY <1>1, <1>2, <3>4, Saying
    <3>5. QED
      BY <1>3, <3>1, <3>2, <3>3, <3>4
  <2>2. QED
    BY <1>1, <1>3, <2>1 DEF InRun, Silent
<1>4. CASE step'[p] \in Waiting
  <2>1. AskedLast(up'[p]) /\ NoKey(up'[p], "NEW_RUN")
    <3>1. CASE Sends(p, <<GetRun>>)
      BY <1>1, <1>2, <3>1, Saying
    <3>2. CASE Sends(p, <<ExceptionLine, GetRun>>)
      BY <1>1, <1>2, <3>2, Saying
    <3>3. QED
      BY <1>4, <3>1, <3>2
  <2>2. QED
    BY <1>1, <1>4, <2>1 DEF InRun, Pending
<1>5. QED
  BY <1>3, <1>4

(* A process that does not wait has no request under way.                  *)
LEMMA Talking ==
  ASSUME LogInv, NEW p \in Processes, Alive(p), step[p] \notin Waiting
  PROVE  InRun(p) /\ Silent(p) /\ down[p] = <<>>
BY DEF LogInv, ProcessInv, ProtocolInv, Opening, InRun, Waiting

LEMMA Working ==
  ASSUME TypeInv, LogInv, NEW p \in Processes, Alive(p)
  PROVE  /\ Busy(p) /\ MemoryInv(p) /\ BoardsInv(p) /\ BurstInv(p)
         /\ mem[p] \in MemoryType /\ lastRun \in Nat
BY DEF LogInv, ProcessInv, Busy, TypeInv, ProcessType, DatabaseType

LEMMA EndsLogged ==
  ASSUME TypeInv, LogInv, NEW p \in Processes, Alive(p), NEW how \in {"done", "dead"},
         Ends(p, how), UNCHANGED <<dbVars, files>>, up' = up \/ Sends(p, <<ExceptionLine>>)
  PROVE  LogInv'
<1>1. /\ step'[p] = how /\ down'[p] = <<>> /\ mem'[p].ntdc = 0
      /\ \A q \in Processes \ {p} :
           step'[q] = step[q] /\ down'[q] = down[q] /\ mem'[q] = mem[q]
  BY DEF Ends, Goes, TypeInv, StreamsType, ProcessType, Memory0
<1>2. \A q \in Processes \ {p} : up'[q] = up[q]
  BY DEF Sends, TypeInv, StreamsType
<1>3. OnlyOf(p) /\ ~Alive(p)' /\ Over(p)'
  BY <1>1, <1>2 DEF OnlyOf, Alive, Over
<1>4. ProcessInv(p)'
  BY <1>1, <1>3 DEF ProcessInv, ProtocolInv, BoardsInv, BurstInv
<1>5. RowsInv' /\ FilesInv' /\ ConditionsRecorded' /\ Busy(p)
  BY LogKept, Working DEF dbVars
<1>6. QED
  BY <1>3, <1>4, <1>5, BusyStep

LEMMA FailsLogged ==
  ASSUME TypeInv, LogInv, NEW p \in Processes, Alive(p), Fails(p)
  PROVE  LogInv'
BY EndsLogged DEF Fails

(* A process begins when no other is busy.                                 *)
LEMMA StartLogged ==
  ASSUME TypeInv, Calm, LogInv, NEW p \in Processes, Start(p)
  PROVE  LogInv'
<1>1. /\ step[p] = "idle" /\ Goes(p, "ask new run") /\ UNCHANGED <<dbVars, down, files, mem>>
      /\ Sends(p, <<Message("NEW_RUN", NoFile), GetRun>>)
      /\ \A q \in Processes : ~Alive(q) /\ up[q] = <<>>
  BY DEF Start, Calm
<1>2. /\ step'[p] = "ask new run" /\ up'[p] = <<>> \o <<Message("NEW_RUN", NoFile), GetRun>>
      /\ \A q \in Processes \ {p} : step'[q] = step[q] /\ up'[q] = up[q]
  BY <1>1 DEF Goes, Sends, TypeInv, ProcessType, StreamsType
<1>3. up'[p] = <<Message("NEW_RUN", NoFile), GetRun>>
  BY <1>2, MessagesType, ConcatEmptySeq
<1>4. OnlyOf(p)
  BY <1>1, <1>2 DEF OnlyOf
<1>5. SoloInv'
  <2>1. \A q \in Processes \ {p} : ~Busy(q)'
    BY <1>1, <1>2 DEF Busy, Alive, Over
  <2>2. QED
    BY <2>1 DEF SoloInv
<1>6. ProcessInv(p)'
  <2>1. ProcessInv(p) /\ ~Alive(p) /\ ~Over(p) /\ Alive(p)' /\ ~Over(p)'
    BY <1>1, <1>2 DEF LogInv, Alive, Over
  <2>2. ProtocolInv(p)'
    BY <1>1, <1>2, <1>3, <2>1 DEF ProcessInv, ProtocolInv, Opening
  <2>3. MemoryInv(p)'
    BY <1>2 DEF MemoryInv
  <2>4. BoardsInv(p)' /\ BurstInv(p)'
    <3>1. mem[p].ntdc = 0 /\ mem'[p].ntdc = 0
      BY <1>1, <2>1 DEF ProcessInv, BoardsInv
    <3>2. BoardsInv(p)'
      BY <3>1 DEF BoardsInv
    <3>3. QED
      BY <1>1, <1>2, <2>1, <3>2 DEF ProcessInv, BurstInv
  <2>5. QED
    BY <2>2, <2>3, <2>4 DEF ProcessInv
<1>7. QED
  BY <1>1, <1>4, <1>5, <1>6, OthersKeep, LogKept DEF LogInv, dbVars
-----------------------------------------------------------------------------
(* One process at work.                                                    *)

(* A step of a busy process that leaves the log, from its new variables.   *)
LEMMA WorkStep ==
  ASSUME TypeInv, LogInv, NEW p \in Processes, OnlyOf(p), Alive(p),
         UNCHANGED <<rows, conditions, files>>, Alive(p)',
         InRun(p)', MemoryInv(p)', BoardsInv(p)', BurstInv(p)'
  PROVE  LogInv'
<1>1. ProcessInv(p)'
  BY DEF ProcessInv, ProtocolInv
<1>2. QED
  BY <1>1, LogKept, BusyStep, Working

(* Up to the loop: the process waits, hears of its run, and goes on.       *)
LEMMA AskedLogged ==
  ASSUME TypeInv, Calm, LogInv, NEW p \in Processes, RunPrinted(p) \/ AskHeader(p)
  PROVE  LogInv'
<1>1. PICK r \in Fetch(p) : Answer(p, r)
  BY DEF RunPrinted, AskHeader
<1>2. /\ UNCHANGED <<dbVars, files, mem>>
      /\ \/ /\ step[p] = "ask new run" /\ Goes(p, "configure")
            /\ Sends(p, <<ExceptionLine>>)
         \/ /\ step[p] = "ask copy" /\ Goes(p, "ask header")
            /\ Sends(p, <<ExceptionLine, GetRun>>)
  BY DEF RunPrinted, AskHeader
<1>3. /\ step[p] \in Waiting /\ Alive(p) /\ Alive(p)' /\ ~Over(p)'
      /\ step'[p] = (IF step[p] = "ask new run" THEN "configure" ELSE "ask header")
      /\ step[p] \in {"ask new run", "ask copy"}
  BY <1>2 DEF Waiting, Alive, Over, Goes, TypeInv, ProcessType
<1>4. InRun(p) /\ Silent(p) /\ down'[p] = <<>>
  BY <1>1, <1>3, Heard DEF Answer, TypeInv, StreamsType
<1>5. lastRun' = lastRun /\ rows' = rows /\ conditions' = conditions
  BY <1>2 DEF dbVars
<1>6. InRun(p)'
  BY <1>2, <1>3, <1>4, <1>5, Talks DEF Waiting
<1>7. OnlyOf(p)
  BY <1>1, <1>2 DEF OnlyOf, Answer, Goes, Sends, TypeInv, ProcessType, StreamsType
<1>8. BoardsInv(p) /\ BurstInv(p)
  BY <1>3, Working
<1>9. BoardsInv(p)'
  <2>1. mem'[p].ntdc = mem[p].ntdc
    BY <1>2
  <2>2. CASE step[p] = "ask new run"
    <3>1. mem[p].ntdc = 0
      BY <1>8, <2>2 DEF BoardsInv
    <3>2. QED
      BY <2>1, <3>1 DEF BoardsInv
  <2>3. CASE step[p] = "ask copy"
    BY <1>3, <1>5, <1>8, <2>1, <2>3 DEF BoardsInv
  <2>4. QED
    BY <1>3, <2>2, <2>3
<1>10. BurstInv(p)' /\ MemoryInv(p)'
  BY <1>2, <1>3, <1>8 DEF BurstInv, MemoryInv, Alive, Over
<1>11. QED
  BY <1>2, <1>3, <1>5, <1>6, <1>7, <1>9, <1>10, WorkStep

LEMMA CopyLogged ==
  ASSUME TypeInv, Calm, LogInv, NEW p \in Processes, ConfigurationFails(p) \/ CopyConfiguration(p)
  PROVE  LogInv'
<1>1. /\ UNCHANGED <<dbVars, down, files, mem>> /\ step[p] = "configure"
      /\ \/ "boards" \in Faults /\ Goes(p, "ask header") /\ Sends(p, <<ExceptionLine, GetRun>>)
         \/ Goes(p, "ask copy") /\ Sends(p, <<GetRun>>)
  BY DEF ConfigurationFails, CopyConfiguration
<1>2. /\ Alive(p) /\ Alive(p)' /\ ~Over(p) /\ step[p] \notin Waiting
      /\ step'[p] \in {"ask header", "ask copy"}
  BY <1>1 DEF Waiting, Alive, Over, Goes, TypeInv, ProcessType
<1>3. lastRun' = lastRun /\ rows' = rows /\ conditions' = conditions
  BY <1>1 DEF dbVars
<1>4. InRun(p)'
  BY <1>1, <1>2, <1>3, Talking, Talks DEF Waiting
<1>5. OnlyOf(p)
  BY <1>1 DEF OnlyOf, Goes, Sends, TypeInv, ProcessType, StreamsType
<1>6. BoardsInv(p)' /\ BurstInv(p)' /\ MemoryInv(p)'
  BY <1>1, <1>2, <1>3, Working DEF BoardsInv, BurstInv, MemoryInv, Alive, Over
<1>7. QED
  BY <1>1, <1>2, <1>3, <1>4, <1>5, <1>6, WorkStep

LEMMA ConditionsGrow ==
  ASSUME LogInv, UNCHANGED <<rows, files>>, conditions \subseteq conditions'
  PROVE  RowsInv' /\ FilesInv' /\ ConditionsRecorded'
BY DEF LogInv, RowsInv, FilesInv, ConditionsRecorded

LEMMA AddTDCLogged ==
  ASSUME TypeInv, Calm, LogInv, NEW p \in Processes, AddTDC(p)
  PROVE  LogInv'
<1> DEFINE board == mem[p].ntdc + 1
<1>1. /\ UNCHANGED <<lastRun, rows, down, files>> /\ step[p] = "configure"
      /\ mem' = [mem EXCEPT ![p].ntdc = board]
  BY DEF AddTDC
<1>2. /\ Alive(p) /\ ~Over(p) /\ step[p] \notin Waiting
  BY <1>1 DEF Waiting, Alive, Over
<1>3. InRun(p) /\ Silent(p) /\ down[p] = <<>> /\ lastRun > 0
  BY <1>2, Talking DEF InRun
<1>4. \/ /\ conditions' = conditions \cup {<<lastRun, board>>}
         /\ Sends(p, <<ExceptionLine>>) /\ step'[p] = "configure" /\ step' = step
      \/ /\ "boards" \in Faults /\ conditions' = conditions
         /\ Sends(p, <<ExceptionLine, GetRun>>) /\ step'[p] = "ask header"
         /\ Goes(p, "ask header")
  <2>1. ~NoLastRun
    <3>1. lastRun # 0 /\ "locked" \notin Faults
      BY <1>2, <1>3, Working DEF Calm
    <3>2. QED
      BY <3>1 DEF NoLastRun, MayFail
  <2>2. step \in [Processes -> Steps]
    BY DEF TypeInv, ProcessType
  <2>3. QED
    BY <1>1, <2>1, <2>2 DEF AddTDC, Goes
<1>5. /\ mem'[p].ntdc = board /\ mem'[p].bursts = mem[p].bursts /\ mem[p].ntdc \in Int
      /\ \A q \in Processes \ {p} : mem'[q] = mem[q]
  BY <1>1, DataTakingAssumption DEF TypeInv, ProcessType, MemoryType
<1> HIDE DEF board
<1>6. Alive(p)' /\ ~Over(p)'
  BY <1>4 DEF Alive, Over
<1>7. InRun(p)'
  BY <1>1, <1>3, <1>4, Talks DEF Waiting
<1>8. OnlyOf(p)
  BY <1>1, <1>4, <1>5 DEF OnlyOf, Goes, Sends, TypeInv, ProcessType, StreamsType
<1>9. BoardsInv(p)'
  <2>1. \A b \in 1 .. mem[p].ntdc : <<lastRun, b>> \in conditions
    BY <1>1, <1>2, Working DEF BoardsInv
  <2>2. \A b \in 1 .. board : b = board \/ b \in 1 .. mem[p].ntdc
    BY <1>5 DEF board
  <2>3. \A b \in 1 .. board : b = board \/ <<lastRun, b>> \in conditions'
    BY <1>4, <2>1, <2>2
  <2>4. step'[p] # "ask new run"
    BY <1>4
  <2>5. CASE conditions' = conditions \cup {<<lastRun, board>>}
    <3>1. \A b \in 1 .. board : <<lastRun, b>> \in conditions'
      BY <2>3, <2>5
    <3>2. QED
      BY <1>1, <1>5, <1>6, <2>4, <3>1 DEF BoardsInv
  <2>6. CASE step'[p] = "ask header" /\ "boards" \in Faults
    BY <1>1, <1>5, <1>6, <2>3, <2>6 DEF BoardsInv
  <2>7. QED
    BY <1>4, <2>5, <2>6
<1>10. BurstInv(p)' /\ MemoryInv(p)'
  BY <1>1, <1>2, <1>4, <1>5, Working DEF BurstInv, MemoryInv
<1>11. RowsInv' /\ FilesInv' /\ ConditionsRecorded' /\ Busy(p)
  BY <1>1, <1>2, <1>4, ConditionsGrow, Working
<1>12. ProcessInv(p)'
  BY <1>6, <1>7, <1>9, <1>10 DEF ProcessInv, ProtocolInv
<1>13. QED
  BY <1>8, <1>11, <1>12, BusyStep

LEMMA HeaderLogged ==
  ASSUME TypeInv, Calm, LogInv, NEW p \in Processes, Header(p)
  PROVE  LogInv'
<1>1. PICK r \in Fetch(p) : Answer(p, r) /\ mem' = [mem EXCEPT ![p].run = r.msg.val]
  BY DEF Header
<1>2. /\ UNCHANGED <<dbVars, files, up>> /\ step[p] = "ask header" /\ Goes(p, "last run")
  BY DEF Header
<1>3. /\ step[p] \in Waiting /\ Alive(p) /\ Alive(p)' /\ ~Over(p) /\ step'[p] = "last run"
  BY <1>2 DEF Waiting, Alive, Over, Goes, TypeInv, ProcessType
<1>4. InRun(p) /\ Silent(p) /\ down'[p] = <<>> /\ r.msg.val = lastRun
  BY <1>1, <1>3, Heard DEF Answer, TypeInv, StreamsType
<1>5. lastRun' = lastRun /\ rows' = rows /\ conditions' = conditions
  BY <1>2 DEF dbVars
<1>6. InRun(p)'
  BY <1>2, <1>3, <1>4, <1>5, Talks DEF Waiting
<1>7. OnlyOf(p)
  BY <1>1, <1>2 DEF OnlyOf, Answer, Goes, TypeInv, ProcessType, StreamsType
<1>8. mem'[p].ntdc = mem[p].ntdc /\ mem'[p].bursts = mem[p].bursts /\ mem'[p].run = lastRun
  BY <1>1, <1>4 DEF TypeInv, ProcessType, MemoryType
<1>9. BoardsInv(p)' /\ BurstInv(p)' /\ MemoryInv(p)'
  BY <1>2, <1>3, <1>5, <1>8, Working DEF BoardsInv, BurstInv, MemoryInv, Alive, Over
<1>10. QED
  BY <1>2, <1>3, <1>5, <1>6, <1>7, <1>9, WorkStep
-----------------------------------------------------------------------------
(* One burst.                                                              *)

LEMMA BurstBegun ==
  ASSUME TypeInv, Calm, LogInv, NEW p \in Processes, LastRun(p) \/ LastBurst(p)
  PROVE  LogInv'
<1>1. step[p] \in {"last run", "last burst"}
  BY DEF LastRun, LastBurst
<1>2. Alive(p) /\ ~Over(p) /\ step[p] \notin Waiting
  BY <1>1 DEF Alive, Over, Waiting
<1>3. InRun(p) /\ Silent(p) /\ down[p] = <<>> /\ lastRun > 0 /\ lastRun # 0
  BY <1>2, Talking, Working DEF InRun
<1>4. ~NoLastRun /\ "locked" \notin Faults
  BY <1>3 DEF Calm, NoLastRun, MayFail
<1>5. /\ UNCHANGED <<dbVars, masterVars, files>>
      /\ \/ /\ step[p] = "last run" /\ Goes(p, "last burst")
            /\ mem' = [mem EXCEPT ![p].current_run = lastRun]
         \/ /\ step[p] = "last burst" /\ Goes(p, "insert")
            /\ \E b \in BurstsOf(mem[p].current_run) \cup {-1, 0} :
                 /\ \/ IsLastBurst(mem[p].current_run, b)
                    \/ b = -1 /\ BurstsOf(mem[p].current_run) = {}
                 /\ mem' = [mem EXCEPT ![p].last_burst = b]
  BY <1>4 DEF LastRun, LastBurst, MayFail
<1>6. /\ lastRun' = lastRun /\ rows' = rows /\ conditions' = conditions /\ up' = up
      /\ down' = down
  BY <1>5 DEF dbVars, masterVars
<1>7. /\ step'[p] \in {"last burst", "insert"} /\ Alive(p)' /\ ~Over(p)'
  BY <1>5 DEF Goes, Alive, Over, TypeInv, ProcessType
<1>8. InRun(p)'
  BY <1>3, <1>6, <1>7, Talks DEF Waiting
<1>9. OnlyOf(p)
  BY <1>5, <1>6 DEF OnlyOf, Goes, TypeInv, ProcessType
<1>10. /\ mem'[p].ntdc = mem[p].ntdc /\ mem'[p].bursts = mem[p].bursts
       /\ mem'[p].run = mem[p].run
  <2>1. mem \in [Processes -> MemoryType] /\ mem[p] \in MemoryType
    BY DEF TypeInv, ProcessType
  <2>3. CASE mem' = [mem EXCEPT ![p].current_run = lastRun]
    BY <2>1, <2>3 DEF MemoryType
  <2>4. ASSUME NEW b, mem' = [mem EXCEPT ![p].last_burst = b]
        PROVE  /\ mem'[p].ntdc = mem[p].ntdc /\ mem'[p].bursts = mem[p].bursts
               /\ mem'[p].run = mem[p].run
    BY <2>1, <2>4 DEF MemoryType
  <2>5. QED
    BY <1>5, <2>3, <2>4
<1>11. BoardsInv(p)' /\ BurstInv(p)'
  BY <1>2, <1>5, <1>6, <1>7, <1>10, Working DEF BoardsInv, BurstInv
<1>12. MemoryInv(p)'
  <2>1. mem[p] \in MemoryType /\ mem[p].run = lastRun
    BY <1>1, <1>2, Working DEF MemoryInv
  <2>2. CASE step[p] = "last run"
    <3>1. step'[p] = "last burst" /\ mem'[p].current_run = lastRun
      <4>1. mem' = [mem EXCEPT ![p].current_run = lastRun]
        BY <1>5, <2>2
      <4>2. mem'[p].current_run = lastRun
        BY <4>1, <2>1 DEF TypeInv, ProcessType, MemoryType
      <4>3. QED
        BY <1>5, <2>2, <4>2 DEF Goes, TypeInv, ProcessType
    <3>2. QED
      BY <1>6, <1>10, <2>1, <3>1 DEF MemoryInv
  <2>3. CASE step[p] = "last burst"
    <3>1. mem[p].current_run = lastRun
      BY <1>2, <2>3, Working DEF MemoryInv
    <3>2. PICK b : /\ IsLastBurst(lastRun, b) \/ (b = -1 /\ BurstsOf(lastRun) = {})
                   /\ mem' = [mem EXCEPT ![p].last_burst = b]
      BY <1>5, <2>3, <3>1
    <3>3. step'[p] = "insert" /\ mem'[p].last_burst = b /\ mem'[p].current_run = lastRun
      <4>1. mem'[p].last_burst = b /\ mem'[p].current_run = mem[p].current_run
        BY <3>2, <2>1 DEF TypeInv, ProcessType, MemoryType
      <4>2. QED
        BY <1>5, <2>3, <3>1, <4>1 DEF Goes, TypeInv, ProcessType
    <3>4. /\ BurstsOf(lastRun)' = BurstsOf(lastRun)
          /\ IsLastBurst(lastRun, b)' <=> IsLastBurst(lastRun, b)
      BY <1>6 DEF BurstsOf, IsLastBurst
    <3>5. QED
      BY <1>6, <1>10, <2>1, <3>2, <3>3, <3>4 DEF MemoryInv, IsLastBurst, BurstsOf
  <2>4. QED
    BY <1>1, <2>2, <2>3
<1>13. QED
  BY <1>2, <1>5, <1>6, <1>7, <1>8, <1>9, <1>11, <1>12, WorkStep

(* A row for the burst: it comes after those of its run, and all the       *)
(* others are older.                                                       *)
LEMMA RowAppended ==
  ASSUME DatabaseType, RowsInv, NEW run \in Nat, NEW b \in {-1} \cup Nat,
         IsLastBurst(run, b) \/ (BurstsOf(run) = {} /\ b = -1),
         rows' = Append(rows, <<run, b + 1>>)
  PROVE  /\ RowsInv'
         /\ DOMAIN rows' = DOMAIN rows \cup {Len(rows) + 1} /\ Len(rows') = Len(rows) + 1
         /\ \A i \in DOMAIN rows : rows'[i] = rows[i]
         /\ rows'[Len(rows) + 1] = <<run, b + 1>>
         /\ IsLastBurst(run, b + 1)'
<1>1. /\ rows \in Seq(Nat \X Nat) /\ Len(rows) \in Nat /\ DOMAIN rows = 1 .. Len(rows)
      /\ \A i \in DOMAIN rows : rows[i] \in Nat \X Nat
  BY DEF DatabaseType
<1>2. /\ DOMAIN rows' = DOMAIN rows \cup {Len(rows) + 1} /\ Len(rows') = Len(rows) + 1
      /\ \A i \in DOMAIN rows : rows'[i] = rows[i]
      /\ rows'[Len(rows) + 1] = <<run, b + 1>>
  BY <1>1
<1>3. \A i \in DOMAIN rows : rows[i][1] = run => rows[i][2] < b + 1
  <2> SUFFICES ASSUME NEW i \in DOMAIN rows, rows[i][1] = run PROVE rows[i][2] < b + 1
    OBVIOUS
  <2>1. rows[i][2] \in BurstsOf(run) /\ rows[i][2] \in Nat
    BY <1>1 DEF BurstsOf
  <2>2. rows[i][2] <= b
    BY <2>1 DEF IsLastBurst
  <2>3. QED
    BY <2>1, <2>2
<1>4. b + 1 < Len(rows) + 1
  <2>1. CASE b = -1
    BY <1>1, <2>1
  <2>2. CASE IsLastBurst(run, b)
    <3>1. PICK i \in DOMAIN rows : rows[i][2] = b
      BY <1>1, <2>2 DEF IsLastBurst, BurstsOf
    <3>2. b < i /\ i <= Len(rows) /\ i \in Nat
      BY <1>1, <3>1 DEF RowsInv
    <3>3. QED
      BY <1>1, <3>2
  <2>3. QED
    BY <2>1, <2>2
<1>5. RowsInv'
  <2>1. \A i \in DOMAIN rows' : rows'[i][2] < i
    BY <1>2, <1>4 DEF RowsInv
  <2>2. \A i \in DOMAIN rows : rows[i] # <<run, b + 1>>
    <3> SUFFICES ASSUME NEW i \in DOMAIN rows, rows[i] = <<run, b + 1>> PROVE FALSE
      OBVIOUS
    <3>1. rows[i][1] = run /\ rows[i][2] = b + 1
      OBVIOUS
    <3>2. b + 1 < b + 1
      BY <1>3, <3>1
    <3>3. QED
      BY <3>2
  <2>3. \A i, j \in DOMAIN rows' : rows'[i] = rows'[j] => i = j
    BY <1>2, <2>2 DEF RowsInv
  <2>4. QED
    BY <2>1, <2>3 DEF RowsInv
<1>6. IsLastBurst(run, b + 1)'
  <2>1. Len(rows) + 1 \in DOMAIN rows' /\ rows'[Len(rows) + 1][1] = run
        /\ rows'[Len(rows) + 1][2] = b + 1
    BY <1>2
  <2>2. DOMAIN rows' = 1 .. Len(rows')
    BY <1>1, <1>2
  <2>3. b + 1 \in BurstsOf(run)'
    BY <2>1, <2>2 DEF BurstsOf
  <2>4. \A i \in DOMAIN rows' : rows'[i][1] = run => rows'[i][2] <= b + 1
    <3> SUFFICES ASSUME NEW i \in DOMAIN rows', rows'[i][1] = run PROVE rows'[i][2] <= b + 1
      OBVIOUS
    <3>1. CASE i = Len(rows) + 1
      BY <2>1, <3>1
    <3>2. CASE i \in DOMAIN rows
      <4>1. rows[i][1] = run /\ rows[i][2] \in Nat /\ rows'[i] = rows[i]
        BY <1>1, <1>2, <3>2
      <4>2. rows[i][2] < b + 1
        BY <1>3, <3>2, <4>1
      <4>3. QED
        BY <4>1, <4>2
    <3>3. QED
      BY <1>2, <3>1, <3>2
  <2>5. QED
    BY <2>2, <2>3, <2>4, SMTT(40) DEF IsLastBurst, BurstsOf
<1>7. QED
  BY <1>2, <1>5, <1>6

LEMMA InsertLogged ==
  ASSUME TypeInv, Calm, LogInv, NEW p \in Processes, InsertBurst(p)
  PROVE  LogInv'
<1>1. /\ step[p] = "insert"
      /\ rows' = Append(rows, <<mem[p].current_run, mem[p].last_burst + 1>>)
      /\ mem' = [mem EXCEPT ![p].row = Len(rows) + 1, ![p].retried = FALSE, ![p].bursts = @ + 1]
      /\ Sends(p, <<GetRun>>) /\ Goes(p, "ask burst")
      /\ UNCHANGED <<lastRun, conditions, down, files>>
  BY DEF InsertBurst, Calm, MayFail
<1>2. /\ Alive(p) /\ ~Over(p) /\ step[p] \notin Waiting /\ step'[p] = "ask burst"
      /\ Alive(p)' /\ ~Over(p)'
  BY <1>1 DEF Alive, Over, Waiting, Goes, TypeInv, ProcessType
<1>3. PICK run, b : run = mem[p].current_run /\ b = mem[p].last_burst
  OBVIOUS
<1>4. /\ mem[p] \in MemoryType /\ run = lastRun /\ mem[p].run = lastRun /\ DatabaseType
      /\ IsLastBurst(run, b) \/ (BurstsOf(run) = {} /\ b = -1)
      /\ RowsInv /\ run \in Nat /\ b \in {-1} \cup Nat
  <2>1. mem[p] \in MemoryType /\ DatabaseType /\ RowsInv /\ lastRun \in Nat
    BY <1>2, Working DEF TypeInv, LogInv
  <2>2. /\ mem[p].current_run = lastRun /\ mem[p].run = lastRun
        /\ \/ IsLastBurst(lastRun, mem[p].last_burst)
           \/ BurstsOf(lastRun) = {} /\ mem[p].last_burst = -1
    BY <1>1, <1>2, Working DEF MemoryInv
  <2>3. mem[p].last_burst \in {-1} \cup Nat
    BY <2>1 DEF MemoryType
  <2>4. QED
    BY <1>3, <2>1, <2>2, <2>3
<1>5. /\ mem'[p].row = Len(rows) + 1 /\ mem'[p].bursts = mem[p].bursts + 1
      /\ mem'[p].run = mem[p].run /\ mem'[p].ntdc = mem[p].ntdc
      /\ \A q \in Processes \ {p} : mem'[q] = mem[q]
  BY <1>1 DEF TypeInv, ProcessType, MemoryType
<1>6. /\ RowsInv' /\ \A i \in DOMAIN rows : rows'[i] = rows[i]
      /\ DOMAIN rows' = DOMAIN rows \cup {Len(rows) + 1} /\ Len(rows') = Len(rows) + 1
      /\ rows'[Len(rows) + 1] = <<run, b + 1>> /\ IsLastBurst(run, b + 1)'
  BY <1>1, <1>3, <1>4, RowAppended
<1>7. InRun(p)'
  BY <1>1, <1>2, Talking, Talks DEF Waiting
<1>8. OnlyOf(p)
  BY <1>1, <1>5 DEF OnlyOf, Goes, Sends, TypeInv, ProcessType, StreamsType
<1>9. FilesInv' /\ ConditionsRecorded'
  BY <1>1, <1>6 DEF LogInv, FilesInv, ConditionsRecorded
<1>10. BoardsInv(p)'
  BY <1>1, <1>2, <1>5, Working DEF BoardsInv
<1>11. BurstInv(p)'
  <2>1. mem[p].bursts \in 0 .. MaxBursts /\ \A f \in files : f.nth \in 1 .. MaxBursts
    BY <1>4 DEF MemoryType, TypeInv, FileType
  <2>2. \A f \in files : f.proc = p => f.nth <= mem[p].bursts
    BY <1>2, Working DEF BurstInv
  <2>4. \A f \in files : f.proc = p => f.nth <= mem'[p].bursts /\ f.nth < mem'[p].bursts
    <3>1. mem[p].bursts \in Int /\ \A f \in files : f.nth \in Int
      BY <2>1, DataTakingAssumption
    <3>2. mem'[p].bursts = mem[p].bursts + 1
      BY <1>5
    <3>3. QED
      BY <2>2, <3>1, <3>2
  <2>5. QED
    BY <1>1, <2>4 DEF BurstInv
<1>12. MemoryInv(p)'
  <2>1. \A f \in files : f.row < Len(rows) + 1
    BY DEF LogInv, FilesInv, TypeInv, DatabaseType
  <2>2. Len(rows) \in Nat
    BY <1>4 DEF DatabaseType
  <2>3. /\ mem'[p].row \in 1 .. Len(rows') /\ \A f \in files' : f.row < mem'[p].row
        /\ rows'[mem'[p].row] = <<run, b + 1>>
    <3>1. mem'[p].row \in 1 .. Len(rows')
      BY <1>5, <1>6, <2>2
    <3>2. \A f \in files' : f.row < mem'[p].row
      BY <1>1, <1>5, <2>1
    <3>3. rows'[mem'[p].row] = <<run, b + 1>>
      BY <1>5, <1>6
    <3>4. QED
      BY <3>1, <3>2, <3>3
  <2>4. PICK n : n = b + 1 /\ IsLastBurst(run, n)'
    BY <1>6
  <2>5. rows'[mem'[p].row][1] = run /\ rows'[mem'[p].row][2] = n
    BY <2>3, <2>4
  <2>6. run = lastRun'
    BY <1>1, <1>4
  <2>7. IsLastBurst(lastRun, rows[mem[p].row][2])'
    BY <2>4, <2>5, <2>6 DEF IsLastBurst, BurstsOf
  <2>8. RowInv(p)'
    BY <1>2, <2>3, <2>5, <2>6, <2>7 DEF RowInv
  <2>9. QED
    BY <1>1, <1>2, <1>4, <1>5, <2>8 DEF MemoryInv
<1>13. ProcessInv(p)'
  BY <1>2, <1>7, <1>10, <1>11, <1>12 DEF ProcessInv, ProtocolInv
<1>14. QED
  BY <1>2, <1>6, <1>8, <1>9, <1>13, BusyStep, Working

LEMMA NumberLogged ==
  ASSUME TypeInv, Calm, LogInv, NEW p \in Processes, BurstNumber(p)
  PROVE  LogInv'
<1>1. PICK r \in Fetch(p) :
        /\ Answer(p, r)
        /\ \E b \in BurstsOf(r.msg.val) :
             IsLastBurst(r.msg.val, b) /\ mem' = [mem EXCEPT ![p].spill = b]
  BY DEF BurstNumber
<1>2. /\ UNCHANGED <<dbVars, files, up>> /\ step[p] = "ask burst" /\ Goes(p, "open")
  BY DEF BurstNumber
<1>3. /\ step[p] \in Waiting /\ Alive(p) /\ Alive(p)' /\ ~Over(p) /\ step'[p] = "open"
  BY <1>2 DEF Waiting, Alive, Over, Goes, TypeInv, ProcessType
<1>4. InRun(p) /\ Silent(p) /\ down'[p] = <<>> /\ r.msg.val = lastRun
  BY <1>1, <1>3, Heard DEF Answer, TypeInv, StreamsType
<1>5. lastRun' = lastRun /\ rows' = rows /\ conditions' = conditions
  BY <1>2 DEF dbVars
<1>6. InRun(p)'
  BY <1>2, <1>3, <1>4, <1>5, Talks DEF Waiting
<1>7. PICK b : /\ b \in BurstsOf(lastRun) /\ IsLastBurst(lastRun, b)
               /\ mem' = [mem EXCEPT ![p].spill = b]
  BY <1>1, <1>4
<1>8. /\ mem'[p].ntdc = mem[p].ntdc /\ mem'[p].bursts = mem[p].bursts
      /\ mem'[p].run = mem[p].run /\ mem'[p].spill = b /\ mem'[p].row = mem[p].row
      /\ \A q \in Processes \ {p} : mem'[q] = mem[q]
  BY <1>7 DEF TypeInv, ProcessType, MemoryType
<1>9. OnlyOf(p)
  BY <1>1, <1>2, <1>8 DEF OnlyOf, Answer, Goes, TypeInv, ProcessType, StreamsType
<1>10. BoardsInv(p)' /\ BurstInv(p)'
  BY <1>2, <1>3, <1>5, <1>8, Working DEF BoardsInv, BurstInv, Alive, Over
<1>11. MemoryInv(p)'
  <2>1. /\ mem[p].run = lastRun /\ mem[p].row \in 1 .. Len(rows)
        /\ rows[mem[p].row][1] = lastRun /\ IsLastBurst(lastRun, rows[mem[p].row][2])
        /\ \A f \in files : f.row < mem[p].row
    BY <1>2, <1>3, Working DEF MemoryInv, RowInv
  <2>2. rows[mem[p].row] \in Nat \X Nat
    BY <2>1 DEF TypeInv, DatabaseType
  <2>3. rows[mem[p].row][2] = b
    <3>1. b \in Nat
      BY <1>7, BurstsAreNumbers DEF TypeInv
    <3>2. rows[mem[p].row][2] \in Nat
      BY <2>2
    <3>3. rows[mem[p].row][2] <= b /\ b <= rows[mem[p].row][2]
      BY <1>7, <2>1 DEF IsLastBurst
    <3>4. QED
      BY <3>1, <3>2, <3>3
  <2>4. rows[mem[p].row] = <<lastRun, b>>
    BY <2>1, <2>2, <2>3
  <2>5. QED
    BY <1>2, <1>3, <1>5, <1>8, <2>1, <2>4 DEF MemoryInv, RowInv
<1>12. QED
  BY <1>2, <1>3, <1>5, <1>6, <1>9, <1>10, <1>11, WorkStep

(* The files of a burst have its row, and their boards their conditions.   *)
LEMMA OpenFilesLogged ==
  ASSUME TypeInv, Calm, LogInv, NEW p \in Processes, OpenFiles(p)
  PROVE  LogInv'
<1> DEFINE names == [b \in 1 .. mem[p].ntdc |-> File(p, b)]
<1>1. /\ step[p] = "open" /\ Goes(p, "readout") /\ UNCHANGED <<dbVars, up, down>>
      /\ files' = files \cup {names[b] : b \in DOMAIN names}
      /\ mem' = [mem EXCEPT ![p].fOutputFiles = names]
  BY DEF OpenFiles, masterVars
<1>2. \A b \in 1 .. mem[p].ntdc : names[b] = File(p, b)
  OBVIOUS
<1>3. DOMAIN names = 1 .. mem[p].ntdc /\ mem[p] \in MemoryType
  BY DEF TypeInv, ProcessType
<1> HIDE DEF names
<1>4. /\ Alive(p) /\ ~Over(p) /\ step[p] \notin Waiting /\ step'[p] = "readout"
      /\ Alive(p)' /\ ~Over(p)'
  BY <1>1 DEF Alive, Over, Waiting, Goes, TypeInv, ProcessType
<1>5. /\ mem'[p].ntdc = mem[p].ntdc /\ mem'[p].bursts = mem[p].bursts
      /\ mem'[p].run = mem[p].run
      /\ \A q \in Processes \ {p} : mem'[q] = mem[q]
  BY <1>1, <1>3 DEF TypeInv, ProcessType, MemoryType
<1>6. lastRun' = lastRun /\ rows' = rows /\ conditions' = conditions
  BY <1>1 DEF dbVars
<1>7. /\ \A f \in files' \ files :
           \E b \in 1 .. mem[p].ntdc : f = File(p, b)
      /\ files \subseteq files'
  BY <1>1, <1>2, <1>3
<1>8. \A f \in files' \ files :
        /\ f.proc = p /\ f.nth = mem[p].bursts /\ f.board \in 1 .. mem[p].ntdc
        /\ f.run = lastRun /\ f.row = mem[p].row /\ f.spill = mem[p].spill
  <2>1. mem[p].run = lastRun
    BY <1>1, <1>4, Working DEF MemoryInv
  <2>2. QED
    BY <1>7, <2>1 DEF File
<1>9. /\ mem[p].row \in DOMAIN rows /\ rows[mem[p].row] = <<lastRun, mem[p].spill>>
      /\ \A f \in files : f.row < mem[p].row
      /\ \A f \in files : f.proc = p => f.nth < mem[p].bursts
  <2>1. RowInv(p) /\ mem[p].run = lastRun /\ BurstInv(p)
    BY <1>1, <1>4, Working DEF MemoryInv
  <2>2. QED
    BY <1>1, <1>4, <2>1 DEF RowInv, BurstInv, TypeInv, DatabaseType
<1>10. /\ mem[p].bursts \in Int /\ mem[p].row \in Int /\ mem[p].ntdc \in Int
       /\ \A f \in files : f.row \in Int /\ f.nth \in Int
  <2>1. mem[p].bursts \in Int /\ mem[p].row \in Int /\ mem[p].ntdc \in Int
    BY <1>3, DataTakingAssumption DEF MemoryType
  <2>2. \A f \in files : f.row \in Nat /\ f.nth \in 1 .. MaxBursts
    BY DEF TypeInv, FileType
  <2>3. QED
    BY <2>1, <2>2, DataTakingAssumption
<1>11. FilesInv'
  <2>1. \A f \in files' : f.row \in DOMAIN rows /\ rows[f.row] = <<f.run, f.spill>>
    BY <1>8, <1>9 DEF LogInv, FilesInv
  <2>2. \A f, g \in files' : f.row = g.row => f.proc = g.proc /\ f.nth = g.nth
    <3> SUFFICES ASSUME NEW f \in files', NEW g \in files', f.row = g.row
                 PROVE  f.proc = g.proc /\ f.nth = g.nth
      OBVIOUS
    <3>1. f \in files <=> g \in files
      BY <1>8, <1>9, <1>10
    <3>2. CASE f \in files
      BY <3>1, <3>2 DEF LogInv, FilesInv
    <3>3. CASE f \notin files
      BY <1>8, <3>1, <3>3
    <3>4. QED
      BY <3>2, <3>3
  <2>3. QED
    BY <1>6, <2>1, <2>2 DEF FilesInv
<1>12. ConditionsRecorded'
  <2> SUFFICES ASSUME NEW f \in files', <<f.run, f.board>> \notin conditions
               PROVE  /\ "boards" \in Faults
                      /\ \A g \in files' : g.proc = f.proc /\ g.nth = f.nth => g.board <= f.board
    BY <1>6 DEF ConditionsRecorded
  <2>1. CASE f \in files
    <3>1. /\ "boards" \in Faults
          /\ \A g \in files : g.proc = f.proc /\ g.nth = f.nth => g.board <= f.board
      BY <2>1 DEF LogInv, ConditionsRecorded
    <3>2. \A g \in files' \ files : ~(g.proc = f.proc /\ g.nth = f.nth)
      BY <1>8, <1>9, <1>10, <2>1
    <3>3. QED
      BY <3>1, <3>2
  <2>2. CASE f \notin files
    <3>1. "boards" \in Faults /\ f.board = mem[p].ntdc
      BY <1>4, <1>8, <2>2, Working DEF BoardsInv
    <3>2. \A g \in files : ~(g.proc = f.proc /\ g.nth = f.nth)
      BY <1>8, <1>9, <1>10, <2>2
    <3>3. QED
      BY <1>8, <1>10, <3>1, <3>2
  <2>3. QED
    BY <2>1, <2>2
<1>13. InRun(p)'
  BY <1>1, <1>4, <1>6, Talking, Talks DEF Waiting
<1>14. OnlyOf(p)
  BY <1>1, <1>5, <1>8 DEF OnlyOf, Goes, TypeInv, ProcessType, StreamsType
<1>15. BoardsInv(p)'
  BY <1>4, <1>5, <1>6, Working DEF BoardsInv
<1>16. BurstInv(p)'
  BY <1>4, <1>5, <1>8, <1>9, <1>10 DEF BurstInv
<1>17. MemoryInv(p)'
  BY <1>1, <1>4, <1>5, <1>6, Working DEF MemoryInv
<1>18. RowsInv' /\ Busy(p)
  BY <1>4, <1>6, Working DEF LogInv, RowsInv
<1>19. ProcessInv(p)'
  BY <1>4, <1>13, <1>15, <1>16, <1>17 DEF ProcessInv, ProtocolInv
<1>20. QED
  BY <1>11, <1>12, <1>14, <1>18, <1>19, BusyStep

(* Changing files, and stopping.                                           *)
LEMMA RoundLogged ==
  ASSUME TypeInv, Calm, LogInv, NEW p \in Processes,
         FileChange(p) \/ SendOutputFile(p) \/ NextBurst(p) \/ Stopped(p)
  PROVE  LogInv'
<1>1. /\ UNCHANGED <<dbVars, files, down>>
      /\ mem' = mem \/ \E i : mem' = [mem EXCEPT ![p].i = i]
      /\ \/ /\ step[p] = "readout" /\ up' = up
            /\ Goes(p, "close") \/ Goes(p, "stop")
         \/ /\ step[p] = "close" /\ Goes(p, "last run")
            /\ Sends(p, <<ExceptionLine, Message("NUM_TRIGGERS", NoFile)>>)
         \/ /\ step[p] \in {"close", "stop"} /\ step' = step
            /\ Sends(p, <<Message("SET_NEW_FILENAME", mem[p].fOutputFiles[mem[p].i + 1])>>)
            /\ mem[p].i + 1 <= mem[p].ntdc
  BY DEF FileChange, SendOutputFile, NextBurst, Stopped, masterVars
<1>2. /\ Alive(p) /\ ~Over(p) /\ step[p] \notin Waiting
      /\ step'[p] \in {"close", "stop", "last run"} /\ Alive(p)' /\ ~Over(p)'
      /\ step'[p] \in {"close", "last run"} => step[p] \in {"readout", "close"}
      /\ step[p] \in {"readout", "close", "stop"}
  BY <1>1 DEF Alive, Over, Waiting, Goes, TypeInv, ProcessType
<1>3. mem[p] \in MemoryType /\ mem[p].ntdc \in Int
  <2>1. mem[p] \in MemoryType
    BY <1>2, Working
  <2>2. QED
    BY <2>1, DataTakingAssumption DEF MemoryType
<1>4. /\ mem'[p].ntdc = mem[p].ntdc /\ mem'[p].bursts = mem[p].bursts
      /\ mem'[p].run = mem[p].run
      /\ \A q \in Processes \ {p} : mem'[q] = mem[q]
  <2>1. mem \in [Processes -> MemoryType]
    BY DEF TypeInv, ProcessType
  <2>2. ASSUME NEW i, mem' = [mem EXCEPT ![p].i = i]
        PROVE  /\ mem'[p].ntdc = mem[p].ntdc /\ mem'[p].bursts = mem[p].bursts
               /\ mem'[p].run = mem[p].run
               /\ \A q \in Processes \ {p} : mem'[q] = mem[q]
    BY <1>3, <2>1, <2>2 DEF MemoryType
  <2>3. QED
    BY <1>1, <2>2
<1>5. lastRun' = lastRun /\ rows' = rows /\ conditions' = conditions
  BY <1>1 DEF dbVars
<1>6. ASSUME mem[p].i + 1 <= mem[p].ntdc, step[p] \in {"close", "stop"}
      PROVE  mem[p].fOutputFiles[mem[p].i + 1] \in files
  <2>1. /\ mem[p].fOutputFiles \in Seq(files) /\ mem[p].i \in Nat
        /\ Len(mem[p].fOutputFiles) = mem[p].ntdc
    BY <1>3, <1>6 DEF MemoryType, TypeInv, BurstsInv
  <2>2. QED
    BY <1>3, <1>6, <2>1, ElementOfSeq
<1>7. \/ up' = up \/ Sends(p, <<ExceptionLine, Message("NUM_TRIGGERS", NoFile)>>)
      \/ \E f \in files : Sends(p, <<Message("SET_NEW_FILENAME", f)>>)
  BY <1>1, <1>6
<1>8. InRun(p)'
  <2>1. InRun(p) /\ Silent(p) /\ down'[p] = <<>> /\ step'[p] \notin Waiting
    BY <1>1, <1>2, Talking DEF Waiting
  <2>2. QED
    BY <1>5, <1>7, <2>1, Talks
<1>9. OnlyOf(p)
  <2>1. \A q \in Processes \ {p} : up'[q] = up[q]
    BY <1>7 DEF Sends, TypeInv, StreamsType
  <2>2. \A q \in Processes \ {p} : step'[q] = step[q]
    BY <1>1 DEF Goes, TypeInv, ProcessType
  <2>3. QED
    BY <1>1, <1>4, <2>1, <2>2 DEF OnlyOf
<1>10. BoardsInv(p)' /\ BurstInv(p)'
  BY <1>1, <1>2, <1>4, <1>5, Working DEF BoardsInv, BurstInv
<1>11. MemoryInv(p)'
  BY <1>2, <1>4, <1>5, Working DEF MemoryInv
<1>12. QED
  BY <1>1, <1>2, <1>5, <1>8, <1>9, <1>10, <1>11, WorkStep

LEMMA EndLogged ==
  ASSUME TypeInv, LogInv, NEW p \in Processes,
         Return(p) \/ Die(p) \/ Signal(p) \/ NoBurstNumber(p)
  PROVE  LogInv'
<1>1. CASE Return(p)
  BY <1>1, EndsLogged DEF Return, Alive, Over
<1>2. CASE Die(p)
  BY <1>2, EndsLogged DEF Die
<1>3. CASE NoBurstNumber(p)
  BY <1>3, FailsLogged DEF NoBurstNumber, Alive, Over
<1>4. CASE Signal(p)
  <2>1. CASE Ends(p, "dead")
    BY <1>4, <2>1, EndsLogged DEF Signal
  <2>2. CASE UNCHANGED <<down, step, tries, mem, out>>
    <3>1. UNCHANGED <<dbVars, files, step, up, down, mem>>
      BY <1>4, <2>2 DEF Signal
    <3>2. OnlyOf(p) /\ Alive(p)' /\ Busy(p) /\ MemoryInv(p) /\ BoardsInv(p) /\ BurstInv(p)
      BY <1>4, <3>1, Working DEF Signal, OnlyOf, Alive, Over
    <3>3. lastRun' = lastRun /\ rows' = rows /\ conditions' = conditions
      BY <3>1 DEF dbVars
    <3>4. RowsInv' /\ FilesInv' /\ ConditionsRecorded'
      BY <3>1, <3>3, LogKept
    <3>5. ProtocolInv(p)'
      BY <3>1, <3>3 DEF LogInv, ProcessInv, ProtocolInv, Opening, InRun, Pending, Silent, Alive, Over
    <3>6. BoardsInv(p)' /\ BurstInv(p)'
      BY <3>1, <3>2, <3>3 DEF BoardsInv, BurstInv, Alive, Over
    <3>7. MemoryInv(p)'
      BY <3>1, <3>2, <3>3 DEF MemoryInv, RowInv, IsLastBurst, BurstsOf
    <3>8. QED
      BY <3>2, <3>4, <3>5, <3>6, <3>7, BusyStep DEF ProcessInv
  <2>3. QED
    BY <1>4, <2>1, <2>2 DEF Signal
<1>5. QED
  BY <1>1, <1>2, <1>3, <1>4

(* The master takes one message; only the first of a process opens a run.  *)
LEMMA Served ==
  ASSUME TypeInv, Calm, LogInv, NEW p \in Processes, Serve(p)
  PROVE  /\ Busy(p) /\ up[p] \in Seq(Plain \cup Names) /\ Len(up[p]) >= 1
         /\ up' = [up EXCEPT ![p] = SubSeq(up[p], 2, Len(up[p]))] /\ Handle(p, up[p][1])
         /\ UNCHANGED <<rows, conditions, files, step, mem>>
<1>1. PICK r \in MasterReads(up[p]) : up' = [up EXCEPT ![p] = r.rest] /\ Handle(p, r.msg)
  BY DEF Serve
<1>2. r \in Reads(up[p]) /\ Len(r.rest) + 1 = Len(up[p]) /\ up[p] \in Seq(Plain \cup Names)
  BY <1>1 DEF MasterReads, Calm, TypeInv, StreamsType
<1>3. r.msg = up[p][1] /\ Len(up[p]) >= 1
  BY <1>2, ReadsProperties
<1>4. PICK n \in 1 .. Len(up[p]) : r.rest = SubSeq(up[p], n + 1, Len(up[p]))
  BY <1>2, ReadsProperties
<1>5. n = 1
  <2>1. Len(up[p]) \in Nat /\ \A i \in n + 1 .. Len(up[p]) : up[p][i] \in Plain \cup Names
    BY <1>2
  <2>2. Len(r.rest) = Len(up[p]) - n
    BY <1>4, <2>1, SubSeqProperties
  <2>3. QED
    BY <1>2, <1>4, <2>1, <2>2
<1>6. up[p] # <<>>
  BY <1>3
<1>7. r.rest = SubSeq(up[p], 2, Len(up[p]))
  BY <1>4, <1>5
<1>8. UNCHANGED <<rows, conditions, files, step, mem>>
  BY DEF Serve
<1>9. QED
  BY <1>1, <1>2, <1>3, <1>6, <1>7, <1>8 DEF Busy

LEMMA ServeLogged ==
  ASSUME TypeInv, Calm, LogInv, NEW p \in Processes, Serve(p)
  PROVE  LogInv'
<1> DEFINE s == up[p]
           t == SubSeq(up[p], 2, Len(up[p]))
<1>1. /\ Busy(p) /\ s \in Seq(Plain \cup Names) /\ Len(s) >= 1
      /\ up' = [up EXCEPT ![p] = t] /\ Handle(p, s[1])
      /\ UNCHANGED <<rows, conditions, files, step, mem>>
  BY Served
<1>2. /\ \A k : NoKey(s, k) => s[1].key # k /\ NoKey(t, k)
      /\ AskedLast(s) =>
           \/ s[1] = GetRun /\ NoKey(t, "GET_RUN_NUMBER")
           \/ s[1].key # "GET_RUN_NUMBER" /\ AskedLast(t)
      /\ s = <<Message("NEW_RUN", NoFile), GetRun>> =>
           s[1].key = "NEW_RUN" /\ AskedLast(t) /\ NoKey(t, "NEW_RUN")
  BY <1>1, Taken
<1>3. up'[p] = t /\ \A q \in Processes \ {p} : up'[q] = up[q]
  BY <1>1 DEF TypeInv, StreamsType
<1> HIDE DEF t
<1>4. /\ Alive(p)' <=> Alive(p)
      /\ Over(p)' <=> Over(p)
  BY <1>1 DEF Alive, Over
<1>5. \A q \in Processes \ {p} : down'[q] = down[q]
  BY <1>1 DEF Handle, Told, TypeInv, StreamsType
<1>6. OnlyOf(p)
  BY <1>1, <1>3, <1>5 DEF OnlyOf
<1>7. RowsInv' /\ FilesInv' /\ ConditionsRecorded'
  BY <1>1, LogKept
<1>8. ProcessInv(p) /\ BurstInv(p)'
  BY <1>1, <1>4 DEF LogInv, ProcessInv, BurstInv
<1>9. ASSUME ~Alive(p) PROVE ProcessInv(p)'
  <2>1. down' = down
    BY <1>1, <1>9 DEF Handle, Told
  <2>2. ProtocolInv(p)'
    BY <1>4, <1>8, <1>9, <2>1 DEF ProcessInv, ProtocolInv
  <2>3. mem'[p].ntdc = 0
    BY <1>1, <1>8, <1>9 DEF ProcessInv, BoardsInv
  <2>4. BoardsInv(p)'
    BY <2>3 DEF BoardsInv
  <2>5. QED
    BY <1>4, <1>8, <1>9, <2>2, <2>4 DEF ProcessInv
<1>10. ASSUME Alive(p), Opening(p) PROVE ProcessInv(p)'
  <2>1. s[1].key = "NEW_RUN" /\ AskedLast(t) /\ NoKey(t, "NEW_RUN")
    BY <1>2, <1>10 DEF Opening
  <2>2. lastRun' = lastRun + 1 /\ down' = down
    BY <1>1, <2>1 DEF Handle, Calm, MayFail
  <2>3. step'[p] = "ask new run" /\ step'[p] \in Waiting /\ down'[p] = <<>> /\ lastRun' > 0
    <3>1. lastRun \in Nat
      BY DEF TypeInv, DatabaseType
    <3>2. lastRun' > 0
      BY <2>2, <3>1
    <3>3. QED
      BY <1>1, <1>10, <2>2, <3>2 DEF Opening, Waiting
  <2>4. InRun(p)'
    BY <1>3, <2>1, <2>3 DEF InRun, Pending
  <2>5. mem'[p].ntdc = 0
    BY <1>1, <1>8, <1>10 DEF ProcessInv, BoardsInv, Opening
  <2>6. BoardsInv(p)'
    BY <2>5 DEF BoardsInv
  <2>7. MemoryInv(p)'
    BY <2>3 DEF MemoryInv
  <2>8. QED
    BY <1>4, <1>8, <1>10, <2>4, <2>6, <2>7 DEF ProcessInv, ProtocolInv
<1>11. ASSUME Alive(p), InRun(p) PROVE ProcessInv(p)'
  <2>1. lastRun > 0 /\ NoKey(s, "NEW_RUN")
    BY <1>11 DEF InRun
  <2>2. s[1].key # "NEW_RUN" /\ NoKey(t, "NEW_RUN")
    BY <1>2, <2>1
  <2>3. lastRun' = lastRun
    BY <1>1, <2>2 DEF Handle
  <2>4. ~NoLastRun
    <3>1. lastRun # 0 /\ "locked" \notin Faults
      BY <2>1 DEF Calm, TypeInv, DatabaseType
    <3>2. QED
      BY <3>1 DEF NoLastRun, MayFail
  <2>5. ASSUME s[1].key = "GET_RUN_NUMBER"
        PROVE  down'[p] = Append(down[p], Message("RUN_NUMBER", lastRun))
    BY <1>1, <1>11, <2>4, <2>5 DEF Handle, Told, TypeInv, StreamsType
  <2>6. ASSUME s[1].key # "GET_RUN_NUMBER" PROVE down'[p] = down[p]
    BY <1>1, <2>2, <2>6 DEF Handle
  <2>7. InRun(p)'
    <3>1. CASE Silent(p)
      <4>1. s[1].key # "GET_RUN_NUMBER" /\ NoKey(t, "GET_RUN_NUMBER")
        BY <1>2, <3>1 DEF Silent
      <4>2. ~AskedLast(up[p])
        <5>1. Len(up[p]) \in DOMAIN up[p] /\ GetRun.key = "GET_RUN_NUMBER"
          BY <1>1 DEF GetRun, Message
        <5>2. QED
          BY <3>1, <5>1 DEF Silent, NoKey, AskedLast
      <4>3. QED
        BY <1>1, <1>3, <1>11, <2>1, <2>2, <2>3, <2>6, <4>1, <4>2 DEF InRun, Pending, Silent
    <3>2. CASE AskedLast(s) /\ down[p] = <<>> /\ step[p] \in Waiting
      <4>1. CASE s[1] = GetRun /\ NoKey(t, "GET_RUN_NUMBER")
        <5>1. down'[p] = <<Message("RUN_NUMBER", lastRun)>>
          BY <2>5, <3>2, <4>1 DEF GetRun, Message
        <5>2. Pending(p)'
          BY <1>3, <2>3, <4>1, <5>1 DEF Pending, Silent
        <5>3. QED
          BY <1>1, <1>3, <2>1, <2>2, <2>3, <3>2, <5>2 DEF InRun
      <4>2. CASE s[1].key # "GET_RUN_NUMBER" /\ AskedLast(t)
        <5>1. Pending(p)'
          BY <1>3, <2>6, <3>2, <4>2 DEF Pending
        <5>2. QED
          BY <1>1, <1>3, <2>1, <2>2, <2>3, <3>2, <5>1 DEF InRun
      <4>3. QED
        BY <1>2, <3>2, <4>1, <4>2
    <3>3. QED
      BY <1>11, <3>1, <3>2 DEF InRun, Pending
  <2>8. BoardsInv(p)' /\ MemoryInv(p)'
    BY <1>1, <1>4, <1>8, <1>11, <2>3
    DEF ProcessInv, BoardsInv, MemoryInv, RowInv, IsLastBurst, BurstsOf
  <2>9. QED
    BY <1>4, <1>8, <1>11, <2>7, <2>8 DEF ProcessInv, ProtocolInv
<1>12. ProcessInv(p)'
  BY <1>8, <1>9, <1>10, <1>11 DEF ProcessInv, ProtocolInv
<1>13. QED
  BY <1>1, <1>6, <1>7, <1>12, BusyStep

LEMMA LogStep == Calm /\ TypeInv /\ LogInv /\ [Next]_vars => LogInv'
<1> SUFFICES ASSUME Calm, TypeInv, LogInv, [Next]_vars PROVE LogInv'
  OBVIOUS
<1>1. CASE UNCHANGED vars
  <2>1. UNCHANGED <<lastRun, rows, conditions, up, down, files, step, mem>>
    BY <1>1 DEF vars, dbVars, masterVars
  <2>2. SoloInv' /\ RowsInv' /\ FilesInv' /\ ConditionsRecorded'
    BY <2>1 DEF LogInv, SoloInv, Busy, Alive, Over, RowsInv, FilesInv, ConditionsRecorded
  <2>3. \A p \in Processes : ProtocolInv(p)' /\ BoardsInv(p)' /\ BurstInv(p)'
    BY <2>1 DEF LogInv, ProcessInv, ProtocolInv, Opening, InRun, Pending, Silent, BoardsInv,
                BurstInv, Alive, Over
  <2>4. \A p \in Processes : (Alive(p) => MemoryInv(p))'
    <3> SUFFICES ASSUME NEW p \in Processes, Alive(p) PROVE MemoryInv(p)'
      BY <2>1 DEF Alive, Over
    <3>1. MemoryInv(p)
      BY DEF LogInv, ProcessInv
    <3>2. QED
      BY <2>1, <3>1 DEF MemoryInv, RowInv, IsLastBurst, BurstsOf
  <2>5. QED
    BY <2>2, <2>3, <2>4 DEF LogInv, ProcessInv
<1>2. ASSUME NEW p \in Processes, FetchAgain(p) \/ Ping(p) PROVE LogInv'
  BY <1>2, Heard DEF FetchAgain, Ping, Calm
<1>3. ASSUME NEW p \in Processes, LastRun(p) \/ LastBurst(p) PROVE LogInv'
  BY <1>3, BurstBegun
<1>4. CASE Next
  BY <1>2, <1>3, <1>4, StartLogged, AskedLogged, CopyLogged, AddTDCLogged, HeaderLogged,
     InsertLogged, NumberLogged, OpenFilesLogged, RoundLogged, EndLogged, ServeLogged
  DEF Next, Proceed
<1>5. QED
  BY <1>1, <1>4

LEMMA LogInitially == Init => LogInv
<1> SUFFICES ASSUME Init PROVE LogInv
  OBVIOUS
<1>1. \A p \in Processes : ~Alive(p) /\ ~Busy(p) /\ mem[p].ntdc = 0 /\ down[p] = <<>>
  BY DEF Init, Alive, Over, Busy, Memory0
<1>2. files = {} /\ DOMAIN rows = {}
  BY DEF Init
<1>3. \A p \in Processes : ProcessInv(p)
  <2> SUFFICES ASSUME NEW p \in Processes PROVE ProcessInv(p)
    OBVIOUS
  <2>1. mem[p].ntdc = 0
    BY <1>1
  <2>2. BoardsInv(p)
    BY <2>1 DEF BoardsInv
  <2>3. QED
    BY <1>1, <1>2, <2>2 DEF ProcessInv, ProtocolInv, BurstInv
<1>4. QED
  BY <1>1, <1>2, <1>3 DEF LogInv, SoloInv, RowsInv, FilesInv, ConditionsRecorded

LEMMA LogInvariant == Calm /\ Spec => [](Calm /\ TypeInv /\ AnnouncedInv /\ LogInv)
<1>1. Calm /\ Init => Calm /\ TypeInv /\ AnnouncedInv /\ LogInv
  BY TypeInitially, AnnouncedInitially, LogInitially
<1>2. Calm /\ TypeInv /\ AnnouncedInv /\ LogInv /\ [Next]_vars
      => (Calm /\ TypeInv /\ AnnouncedInv /\ LogInv)'
  BY TypeStep, AnnouncedStep, LogStep DEF Calm
<1>3. QED
  BY <1>1, <1>2, PTL DEF Spec
-----------------------------------------------------------------------------
(* The header tells the files of a board apart.                            *)
LEMMA HeadersDiffer == TypeInv /\ LogInv => HeaderIdentifiesBurst
<1> SUFFICES ASSUME TypeInv, LogInv PROVE HeaderIdentifiesBurst
  OBVIOUS
<1>1. /\ \A f \in files : f.row \in DOMAIN rows /\ rows[f.row] = <<f.run, f.spill>>
      /\ \A f, g \in files : f.row = g.row => f.proc = g.proc /\ f.nth = g.nth
      /\ \A i, j \in DOMAIN rows : rows[i] = rows[j] => i = j
  BY DEF LogInv, FilesInv, RowsInv
<1>2. ASSUME NEW f \in files, NEW g \in files, HeaderOf(f) = HeaderOf(g) PROVE f = g
  <2>1. f.run = g.run /\ f.spill = g.spill /\ f.board = g.board
    BY <1>2 DEF HeaderOf
  <2>2. f.row = g.row
    BY <1>1, <2>1
  <2>3. f.proc = g.proc /\ f.nth = g.nth
    BY <1>1, <2>2
  <2>4. f \in FileType /\ g \in FileType
    BY DEF TypeInv
  <2>5. QED
    BY <2>1, <2>2, <2>3, <2>4 DEF FileType
<1>3. QED
  BY <1>1, <1>2 DEF HeaderIdentifiesBurst, HeaderRetrieves

(* When nothing but boards fails, the run and the burst in the header of a *)
(* file are those of the burst it was opened for, and no other file of its *)
(* board has the same (fetch_vme.cpp:90, 139-140).                         *)
THEOREM HeadersTrue == Calm /\ Spec => []HeaderIdentifiesBurst
BY LogInvariant, HeadersDiffer, PTL

(* Then the conditions of each file are recorded under the run of its      *)
(* header, but for the board that failed (ReadXML()).                      *)
THEOREM ConditionsKept == Calm /\ Spec => []ConditionsRecorded
<1>1. LogInv => ConditionsRecorded
  BY DEF LogInv
<1>2. QED
  BY <1>1, LogInvariant, PTL

(* The refinement: what each step is for the log.                          *)
Published == [i \in DOMAIN told |-> HeaderOf(told[i])]

LEMMA NewRunStep ==
  ASSUME TypeInv, Calm, LogInv, NEW p \in Processes, Serve(p), told' = told
  PROVE  [Log!Next]_(Log!logVars)
<1>1. Handle(p, up[p][1]) /\ UNCHANGED rows
  BY Served
<1>2. lastRun' = lastRun \/ lastRun' = lastRun + 1
  BY <1>1 DEF Handle
<1>3. QED
  BY <1>1, <1>2 DEF Log!Next, Log!NewRun, Log!logVars

LEMMA PublishStep ==
  ASSUME TypeInv, AnnouncedInv, Calm, LogInv, NEW p \in Processes, Serve(p), told' # told
  PROVE  Log!Publish
<1> DEFINE f == up[p][1].val
<1>1. /\ up[p] \in Seq(Plain \cup Names) /\ Len(up[p]) >= 1
      /\ Handle(p, up[p][1]) /\ UNCHANGED rows
  BY Served
<1>2. /\ up[p][1].key = "SET_NEW_FILENAME" /\ told' = Append(told, f)
      /\ UNCHANGED <<lastRun, rows>>
  BY <1>1 DEF Handle
<1>3. f \in Announces(up[p]) /\ up[p][1] \in Names
  <2>1. 1 \in DOMAIN up[p] /\ up[p][1] \in Plain \cup Names
    BY <1>1
  <2>2. QED
    BY <1>2, <2>1 DEF Announces, Plain
<1>4. f \in files /\ f \notin ToldFiles
  BY <1>3 DEF Names, AnnouncedInv, StreamInv
<1> HIDE DEF f
<1>5. told \in Seq(files) /\ DOMAIN told = 1 .. Len(told) /\ Len(told) \in Nat
  BY DEF TypeInv, StreamsType
<1>6. \A i \in DOMAIN told : HeaderOf(told[i]) # HeaderOf(f)
  <2>1. \A i \in DOMAIN told : told[i] \in files /\ told[i] # f
    BY <1>4, <1>5 DEF ToldFiles
  <2>2. QED
    BY <1>4, <2>1, HeadersDiffer DEF HeaderIdentifiesBurst
<1>7. f.row \in 1 .. Len(rows) /\ rows[f.row] = <<f.run, f.spill>> /\ f.board \in Boards
  <2>1. f \in FileType /\ rows \in Seq(Nat \X Nat)
    BY <1>4 DEF TypeInv, DatabaseType
  <2>2. QED
    BY <1>4, <2>1 DEF LogInv, FilesInv, FileType
<1>8. HeaderOf(f) = <<rows[f.row][1], rows[f.row][2], f.board>>
  BY <1>7 DEF HeaderOf
<1>9. /\ DOMAIN Published = 1 .. Len(told) /\ Len(Published) = Len(told)
      /\ \A j \in 1 .. Len(told) : Published[j] # HeaderOf(f)
  BY <1>5, <1>6 DEF Published
<1>10. Published' = Append(Published, HeaderOf(f))
  <2>1. /\ DOMAIN told' = 1 .. Len(told) + 1 /\ told'[Len(told) + 1] = f
        /\ \A j \in 1 .. Len(told) : told'[j] = told[j]
    <3>1. told' = [j \in 1 .. Len(told) + 1 |-> IF j = Len(told) + 1 THEN f ELSE told[j]]
      <4>1. told \in Seq(files) /\ f \in files
        BY <1>4, <1>5
      <4>2. Append(told, f) =
              [j \in 1 .. Len(told) + 1 |-> IF j = Len(told) + 1 THEN f ELSE told[j]]
        BY <4>1, AppendIs
      <4>3. QED
        BY <1>2, <4>2
    <3>2. /\ Len(told) + 1 \in 1 .. Len(told) + 1
          /\ \A j \in 1 .. Len(told) : j # Len(told) + 1 /\ j \in 1 .. Len(told) + 1
      BY <1>5
    <3>3. QED
      BY <3>1, <3>2
  <2>2. Published' = [j \in 1 .. Len(told) + 1 |-> HeaderOf(told'[j])]
    BY <2>1 DEF Published, HeaderOf
  <2>3. Append(Published, HeaderOf(f)) =
          [j \in 1 .. Len(told) + 1 |-> IF j = Len(told) + 1 THEN HeaderOf(f) ELSE Published[j]]
    <3>1. PICK S : Published \in Seq(S) /\ HeaderOf(f) \in S
      <4> DEFINE S == {HeaderOf(told[j]) : j \in DOMAIN told} \cup {HeaderOf(f)}
      <4>1. \A j \in 1 .. Len(told) : Published[j] \in S
        BY <1>5 DEF Published
      <4>2. Published \in [1 .. Len(told) -> S] /\ HeaderOf(f) \in S
        BY <1>5, <4>1 DEF Published
      <4> HIDE DEF S
      <4>3. Published \in Seq(S)
        BY <1>5, <4>2
      <4>4. QED
        BY <4>2, <4>3
    <3>2. QED
      BY <1>9, <3>1, AppendIs
  <2>4. QED
    BY <1>5, <2>1, <2>2, <2>3 DEF Published
<1>11. QED
  <2>1. \E i \in 1 .. Len(rows) : \E board \in Boards :
          LET header == <<rows[i][1], rows[i][2], board>> IN
          /\ \A j \in 1 .. Len(Published) : Published[j] # header
          /\ Published' = Append(Published, header)
    BY <1>7, <1>8, <1>9, <1>10
  <2>2. QED
    BY <1>2, <2>1 DEF Log!Publish, Published

LEMMA NewBurstStep ==
  ASSUME TypeInv, Calm, LogInv, NEW p \in Processes, InsertBurst(p)
  PROVE  Log!NewBurst
<1>1. /\ step[p] = "insert" /\ told' = told /\ lastRun' = lastRun
      /\ rows' = Append(rows, <<mem[p].current_run, mem[p].last_burst + 1>>)
  BY DEF InsertBurst, Calm, MayFail
<1>2. Alive(p) /\ step[p] \notin Waiting
  BY <1>1 DEF Alive, Over, Waiting
<1>3. lastRun > 0 /\ MemoryInv(p)
  BY <1>2, Talking, Working DEF InRun
<1>4. PICK b : b = mem[p].last_burst
  OBVIOUS
<1>5. /\ rows' = Append(rows, <<lastRun, b + 1>>) /\ b \in {-1} \cup Nat
      /\ IsLastBurst(lastRun, b) \/ (BurstsOf(lastRun) = {} /\ b = -1)
  <2>1. mem[p].current_run = lastRun /\ mem[p] \in MemoryType
    BY <1>1, <1>2, <1>3, Working DEF MemoryInv
  <2>2. IsLastBurst(lastRun, b) \/ (BurstsOf(lastRun) = {} /\ b = -1)
    BY <1>1, <1>3, <1>4 DEF MemoryInv
  <2>3. QED
    BY <1>1, <1>4, <2>1, <2>2 DEF MemoryType
<1>6. /\ rows \in Seq(Nat \X Nat) /\ Len(rows) \in Nat /\ DOMAIN rows = 1 .. Len(rows)
      /\ \A i \in DOMAIN rows : rows[i][2] \in Nat /\ rows[i][2] < i
  BY DEF TypeInv, DatabaseType, LogInv, RowsInv
<1>7. \A i \in 1 .. Len(rows) : rows[i][1] = lastRun => rows[i][2] < b + 1
  <2> SUFFICES ASSUME NEW i \in 1 .. Len(rows), rows[i][1] = lastRun PROVE rows[i][2] < b + 1
    OBVIOUS
  <2>1. rows[i][2] \in BurstsOf(lastRun) /\ rows[i][2] \in Nat
    BY <1>6 DEF BurstsOf
  <2>2. rows[i][2] <= b
    BY <1>5, <2>1 DEF IsLastBurst
  <2>3. QED
    BY <1>5, <2>1, <2>2
<1>8. /\ b + 1 \in 0 .. Len(rows)
      /\ \/ b + 1 = 0
         \/ \E i \in 1 .. Len(rows) : rows[i][1] = lastRun /\ rows[i][2] = b
  <2>1. CASE b = -1
    BY <1>6, <2>1
  <2>2. CASE IsLastBurst(lastRun, b)
    <3>1. PICK i \in 1 .. Len(rows) : rows[i][1] = lastRun /\ rows[i][2] = b
      BY <2>2 DEF IsLastBurst, BurstsOf
    <3>2. b \in Nat /\ b < i /\ i <= Len(rows) /\ i \in Nat
      BY <1>6, <3>1, SMTT(40)
    <3>3. b + 1 \in 0 .. Len(rows)
      BY <1>6, <3>2
    <3>4. QED
      BY <3>1, <3>3
  <2>3. QED
    BY <1>5, <2>1, <2>2
<1>9. PICK n : n = b + 1
  OBVIOUS
<1>10. n \in 0 .. Len(rows) /\ rows' = Append(rows, <<lastRun, n>>)
  BY <1>5, <1>8, <1>9
<1>11. \A i \in Log!BurstsOf(lastRun) : rows[i][2] < n
  BY <1>7, <1>9 DEF Log!BurstsOf
<1>12. n = 0 \/ \E i \in Log!BurstsOf(lastRun) : rows[i][2] = n - 1
  <2>1. CASE b + 1 = 0
    BY <1>9, <2>1
  <2>2. CASE b + 1 # 0
    <3>1. PICK i \in 1 .. Len(rows) : rows[i][1] = lastRun /\ rows[i][2] = b
      BY <1>8, <2>2
    <3>2. i \in Log!BurstsOf(lastRun)
      BY <3>1 DEF Log!BurstsOf
    <3>3. rows[i][2] = n - 1
      BY <1>5, <1>9, <3>1
    <3>4. QED
      BY <3>2, <3>3
  <2>3. QED
    BY <2>1, <2>2
<1>13. QED
  BY <1>1, <1>3, <1>10, <1>11, <1>12 DEF Log!NewBurst

LEMMA LogNextStep ==
  Calm /\ TypeInv /\ AnnouncedInv /\ LogInv /\ [Next]_vars => [Log!Next]_(Log!logVars)
<1> SUFFICES ASSUME Calm, TypeInv, AnnouncedInv, LogInv, [Next]_vars
             PROVE  [Log!Next]_(Log!logVars)
  OBVIOUS
<1>1. UNCHANGED <<lastRun, rows, told>> => UNCHANGED Log!logVars
  BY DEF Log!logVars
<1>2. CASE UNCHANGED vars
  BY <1>1, <1>2 DEF vars, dbVars, masterVars
<1>3. ASSUME NEW p \in Processes, Serve(p) PROVE [Log!Next]_(Log!logVars)
  BY <1>3, NewRunStep, PublishStep DEF Log!Next
<1>4. ASSUME NEW p \in Processes, InsertBurst(p) PROVE [Log!Next]_(Log!logVars)
  BY <1>4, NewBurstStep DEF Log!Next
<1>5. ASSUME NEW p \in Processes,
             \/ Start(p) \/ RunPrinted(p) \/ AddTDC(p) \/ ConfigurationFails(p)
             \/ CopyConfiguration(p) \/ AskHeader(p) \/ Header(p) \/ FetchAgain(p)
             \/ LastRun(p) \/ LastBurst(p) \/ BurstNumber(p) \/ NoBurstNumber(p)
             \/ OpenFiles(p) \/ FileChange(p) \/ SendOutputFile(p) \/ NextBurst(p)
             \/ Stopped(p) \/ Return(p) \/ Die(p) \/ Signal(p) \/ Ping(p)
      PROVE  UNCHANGED <<lastRun, rows, told>>
  BY <1>5
  DEF Start, RunPrinted, AddTDC, ConfigurationFails, CopyConfiguration, AskHeader, Header,
      FetchAgain, LastRun, LastBurst, BurstNumber, NoBurstNumber, OpenFiles, FileChange,
      SendOutputFile, NextBurst, Stopped, Return, Die, Signal, Ping, Retry, Fails, dbVars,
      masterVars
<1>6. CASE Next
  BY <1>1, <1>3, <1>4, <1>5, <1>6 DEF Next, Proceed
<1>7. QED
  BY <1>2, <1>6

(* When nothing but boards fails, the database and the files the monitors  *)
(* are told of are the log that RunLog describes: runs and bursts numbered *)
(* in order, and the header of a file never published before.              *)
THEOREM RunLogImplemented == Calm /\ Spec => RunLogSpec
<1>1. Init => Log!Init
  <2> SUFFICES ASSUME Init PROVE Log!Init
    OBVIOUS
  <2>1. lastRun = 0 /\ rows = <<>> /\ told = <<>>
    BY DEF Init
  <2>2. DOMAIN told = {}
    BY <2>1
  <2>3. [i \in DOMAIN told |-> HeaderOf(told[i])] = <<>>
    BY <2>2
  <2>4. QED
    BY <2>1, <2>3 DEF Log!Init
<1>2. QED
  BY <1>1, LogInvariant, LogNextStep, PTL DEF Spec, RunLogSpec, Log!Spec
=============================================================================
