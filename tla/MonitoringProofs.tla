-------------------------- MODULE MonitoringProofs ---------------------------
(***************************************************************************)
(* Proof about Monitoring, for any configurations, acquisitions, bursts    *)
(* and failures of the database: the boards that a monitor processes are   *)
(* always those of one run.  And about the canvases on which a monitor     *)
(* draws: no cell of a display stands for two channels.                    *)
(***************************************************************************)
EXTENDS Monitoring, Canvas, SequenceTheorems, TLAPS

(* The variables of the monitor, and the table of conditions.              *)
MonitorFields ==
  \E s, t, r, a : monitor = [state |-> s, tries |-> t, fRunNumber |-> r, addresses |-> a]
RowsInv == \E S : rows \in Seq(S)

MonitoringInv == MonitorFields /\ RowsInv /\ AddressesOfOneRun

(* Whichever accesses fail, the addresses that are found are those of the  *)
(* conditions of the run or of the run before, or none at all.             *)
LEMMA FoundInOneRun ==
  ASSUME NEW run, NEW found \in IsInRun(run)
  PROVE  \E n \in {run, run - 1} : found \subseteq OfDetector(n)
<1>1. \A n : \A s \in Conditions(n) : s = OfDetector(n)
  BY DEF Conditions
<1>2. found \in Conditions(run) \/ found \in Conditions(run - 1) \/ found = {}
  BY DEF IsInRun, OrElse
<1>3. QED
  BY <1>1, <1>2

(* Conditions are added, never taken away.                                 *)
LEMMA RowsGrow ==
  ASSUME RowsInv, NEW row, rows' = Append(rows, row)
  PROVE  RowsInv' /\ \A n : OfDetector(n) \subseteq OfDetector(n)'
<1>1. PICK S : rows \in Seq(S)
  BY DEF RowsInv
<1>2. rows \in Seq(S \cup {row})
  BY <1>1
<1>3. /\ rows' \in Seq(S \cup {row})
      /\ Len(rows') = Len(rows) + 1
      /\ \A i \in 1 .. Len(rows) : rows'[i] = rows[i]
  BY <1>2, AppendProperties
<1>4. /\ DOMAIN rows = 1 .. Len(rows) /\ DOMAIN rows' = 1 .. Len(rows')
      /\ Len(rows) \in Nat
  BY <1>2, <1>3
<1>5. \A i \in DOMAIN rows : i \in DOMAIN rows' /\ rows'[i] = rows[i]
  BY <1>3, <1>4
<1>6. ASSUME NEW n PROVE OfDetector(n) \subseteq OfDetector(n)'
  BY <1>5 DEF OfDetector, RowsOf
<1>7. QED
  BY <1>3, <1>6 DEF RowsInv

LEMMA MonitoringInit == Init => MonitoringInv
<1> SUFFICES ASSUME Init PROVE MonitoringInv
  OBVIOUS
<1>1. rows \in Seq({})
  BY DEF Init
<1>2. MonitorFields
  BY Zenon DEF Init, MonitorFields
<1>3. AddressesOfOneRun
  BY DEF Init, AddressesOfOneRun
<1>4. QED
  BY <1>1, <1>2, <1>3 DEF MonitoringInv, RowsInv

(* The monitor hears of a run and looks for its boards.                    *)
LEMMA NewRunNumberStep ==
  ASSUME MonitoringInv, NEW run, NewRunNumber(run), UNCHANGED rows
  PROVE  MonitoringInv'
<1>1. PICK found \in IsInRun(run) :
        monitor' = [monitor EXCEPT !.state = "listen", !.fRunNumber = run, !.addresses = found]
  BY DEF NewRunNumber
<1>2. PICK s, t, r, a : monitor = [state |-> s, tries |-> t, fRunNumber |-> r, addresses |-> a]
  BY DEF MonitoringInv, MonitorFields
<1>3. monitor' = [state |-> "listen", tries |-> t, fRunNumber |-> run, addresses |-> found]
  BY <1>1, <1>2
<1>4. \E n \in {run, run - 1} : found \subseteq OfDetector(n)
  BY FoundInOneRun
<1>5. \A n : OfDetector(n)' = OfDetector(n)
  BY DEF OfDetector, RowsOf
<1>6. QED
  BY <1>3, <1>4, <1>5 DEF MonitoringInv, MonitorFields, RowsInv, AddressesOfOneRun

(* Its other steps keep what it knows, and so do those of the others.      *)
LEMMA KeptStep ==
  ASSUME MonitoringInv, UNCHANGED rows,
         \/ UNCHANGED monitor
         \/ monitor' = [monitor EXCEPT !.state = "ask"]
         \/ monitor' = [monitor EXCEPT !.tries = @ + 1]
  PROVE  MonitoringInv'
<1>1. PICK s, t, r, a : monitor = [state |-> s, tries |-> t, fRunNumber |-> r, addresses |-> a]
  BY DEF MonitoringInv, MonitorFields
<1>2. \E s1, t1 : monitor' = [state |-> s1, tries |-> t1, fRunNumber |-> r, addresses |-> a]
  BY <1>1
<1>3. monitor'.fRunNumber = monitor.fRunNumber /\ monitor'.addresses = monitor.addresses
  BY <1>1, <1>2
<1>4. \A n : OfDetector(n)' = OfDetector(n)
  BY DEF OfDetector, RowsOf
<1>5. QED
  BY <1>2, <1>3, <1>4 DEF MonitoringInv, MonitorFields, RowsInv, AddressesOfOneRun

LEMMA MonitoringNext == MonitoringInv /\ [Next]_vars => MonitoringInv'
<1> SUFFICES ASSUME MonitoringInv, [Next]_vars PROVE MonitoringInv'
  OBVIOUS
<1>1. ASSUME NEW n \in Acquisitions, ConfigureTDC(n) PROVE MonitoringInv'
  <2>1. UNCHANGED monitor
    BY <1>1 DEF ConfigureTDC, monitorVars
  <2>2. CASE UNCHANGED rows
    BY <2>1, <2>2, KeptStep
  <2>3. CASE \E row : rows' = Append(rows, row)
    <3>1. RowsInv' /\ \A r : OfDetector(r) \subseteq OfDetector(r)'
      BY <2>3, RowsGrow DEF MonitoringInv
    <3>2. QED
      BY <2>1, <3>1 DEF MonitoringInv, MonitorFields, AddressesOfOneRun
  <2>4. QED
    BY <1>1, <2>2, <2>3 DEF ConfigureTDC
<1>2. ASSUME NEW n \in Acquisitions, StartAcquisition(n) \/ SendOutputFile(n) \/ Stop(n) \/ Master(n)
      PROVE  MonitoringInv'
  <2>1. UNCHANGED <<rows, monitor>>
    BY <1>2 DEF StartAcquisition, SendOutputFile, Stop, Master, HandleNewRun, HandleFilename,
                HandleOther, dbVars, monitorVars
  <2>2. QED
    BY <2>1, KeptStep
<1>3. CASE GetRunNumber \/ UNCHANGED vars
  <2>1. UNCHANGED <<rows, monitor>>
    BY <1>3 DEF GetRunNumber, vars, dbVars, monitorVars
  <2>2. QED
    BY <2>1, KeptStep
<1>4. CASE Connect
  BY <1>4, KeptStep DEF Connect, dbVars
<1>5. CASE AwaitRunNumber
  BY <1>5, KeptStep, NewRunNumberStep DEF AwaitRunNumber, dbVars
<1>6. CASE ParseMessage
  BY <1>6, KeptStep, NewRunNumberStep DEF ParseMessage, dbVars, monitorVars
<1>7. QED
  BY <1>1, <1>2, <1>3, <1>4, <1>5, <1>6 DEF Next, Acquisition, Monitor

(* The boards that a monitor processes are of one run, the one it was told *)
(* of last or the run before (IsInRun(), include/DQMProcess.h:120-146).    *)
THEOREM AddressesCorrect == Spec => []AddressesOfOneRun
<1>1. MonitoringInv => AddressesOfOneRun
  BY DEF MonitoringInv
<1>2. QED
  BY <1>1, MonitoringInit, MonitoringNext, PTL DEF Spec

-----------------------------------------------------------------------------
(***************************************************************************)
(* The displays, for the two geometries of Canvas: no cell of a display    *)
(* stands for two channels.                                                *)
(***************************************************************************)
Grid(n, m) == (1 .. n) \X (1 .. m)

(* The cells of an 8 x 8 grid that are inside of the rim of NINO board 0.  *)
Inner == {c \in Grid(8, 8) :
            \/ c[2] \in {2, 7} /\ c[1] \in 3 .. 6
            \/ c[2] \in 3 .. 6 /\ c[1] \in 2 .. 7}

(***************************************************************************)
(* The channels of a 5 x 4 Quartic grid that are connected.                *)
(***************************************************************************)
QuarticChannels == {ch \in Channels32 : ch >= 24 \/ (ch % 4) \in {0, 1}}
-----------------------------------------------------------------------------
(***************************************************************************)
(* NINO board 0 reads the cells outside of Inner, board 1 those inside.    *)
(***************************************************************************)
LEMMA RimInGrid ==
  ASSUME NEW ch \in Channels32
  PROVE  RimCoordinates(ch) \in Grid(8, 8) \ Inner
BY SMTT(30) DEF RimCoordinates, Channels32, Grid, Inner

LEMMA InnerInGrid ==
  ASSUME NEW ch \in Channels32
  PROVE  InnerCoordinates(ch) \in Inner
<1>1. CASE ch \in 0 .. 3 \/ ch \in 28 .. 31
  BY <1>1 DEF InnerCoordinates, Grid, Inner
<1>2. CASE ch \in 4 .. 27
  <2>1. InnerCoordinates(ch) = <<2 + ((ch - 4) % 6), 3 + (ch - 4) \div 6>>
    BY <1>2 DEF InnerCoordinates
  <2>2. (ch - 4) % 6 \in 0 .. 5 /\ (ch - 4) \div 6 \in 0 .. 3
    BY <1>2
  <2>3. \A q \in 0 .. 5, r \in 0 .. 3 : <<2 + q, 3 + r>> \in Inner
    BY DEF Grid, Inner
  <2>4. QED
    <3> DEFINE q == (ch - 4) % 6
               r == (ch - 4) \div 6
    <3>1. InnerCoordinates(ch) = <<2 + q, 3 + r>> /\ q \in 0 .. 5 /\ r \in 0 .. 3
      BY <2>1, <2>2
    <3> HIDE DEF q, r
    <3>2. QED
      BY <2>3, <3>1
<1>3. QED
  BY <1>1, <1>2 DEF Channels32

(* Two channels of a NINO board have different cells.                      *)
LEMMA RimInjective ==
  ASSUME NEW a \in Channels32, NEW b \in Channels32, RimCoordinates(a) = RimCoordinates(b)
  PROVE  a = b
BY SMTT(60) DEF RimCoordinates, Channels32

LEMMA InnerInjective ==
  ASSUME NEW a \in Channels32, NEW b \in Channels32, InnerCoordinates(a) = InnerCoordinates(b)
  PROVE  a = b
BY SMTT(60) DEF InnerCoordinates, Channels32

-----------------------------------------------------------------------------
(***************************************************************************)
(* Grid of the Gastof: the 64 channels of the two NINO boards have cells   *)
(* of their own in the 8 x 8 grid, so what is filled for one of them is    *)
(* never added to another (GastofCanvas::FillChannel()).                   *)
(***************************************************************************)
THEOREM GastofCellsDistinct ==
  ASSUME NEW n1 \in {0, 1}, NEW n2 \in {0, 1}, NEW a \in Channels32, NEW b \in Channels32
  PROVE  /\ GastofCoordinates(n1, a) \in Grid(8, 8)
         /\ GastofCoordinates(n1, a) = GastofCoordinates(n2, b) => n1 = n2 /\ a = b
<1>1. GastofCoordinates(n1, a) \in Grid(8, 8)
  BY RimInGrid, InnerInGrid DEF GastofCoordinates, Inner
<1>2. ASSUME GastofCoordinates(n1, a) = GastofCoordinates(n2, b)
      PROVE  n1 = n2 /\ a = b
  <2>1. CASE n1 = 0 /\ n2 = 0
    <3>1. RimCoordinates(a) = RimCoordinates(b)
      BY <1>2, <2>1 DEF GastofCoordinates
    <3>2. QED
      BY <2>1, <3>1, RimInjective
  <2>2. CASE n1 = 1 /\ n2 = 1
    <3>1. InnerCoordinates(a) = InnerCoordinates(b)
      BY <1>2, <2>2 DEF GastofCoordinates
    <3>2. QED
      BY <2>2, <3>1, InnerInjective
  <2>3. CASE n1 # n2
    <3>1. RimCoordinates(a) # InnerCoordinates(b) /\ RimCoordinates(b) # InnerCoordinates(a)
      BY RimInGrid, InnerInGrid
    <3>2. QED
      BY <1>2, <2>3, <3>1 DEF GastofCoordinates
  <2>4. QED
    BY <2>1, <2>2, <2>3
<1>3. QED
  BY <1>1, <1>2

(***************************************************************************)
(* Grid of the Quartic: a channel is drawn in the 5 x 4 grid if and only   *)
(* if it is connected, and two connected channels never share a cell       *)
(* (QuarticCanvas::FillChannel(), whose histogram starts at 0.5: the       *)
(* others fill the underflow).                                             *)
(***************************************************************************)
THEOREM QuarticCellsDistinct ==
  ASSUME NEW a \in Channels32, NEW b \in Channels32
  PROVE  /\ QuarticCoordinates(a) \in Grid(5, 4) <=> a \in QuarticChannels
         /\ /\ QuarticCoordinates(a) = QuarticCoordinates(b)
            /\ QuarticCoordinates(a) \in Grid(5, 4)
            => a = b
<1>1. \A c \in Channels32 : QuarticCoordinates(c) \in Grid(5, 4) <=> c \in QuarticChannels
  BY SMTT(60) DEF QuarticCoordinates, QuarticRow, QuarticChannels, Channels32, Grid
<1>2. ASSUME a \in QuarticChannels, b \in QuarticChannels,
             QuarticCoordinates(a) = QuarticCoordinates(b)
      PROVE  a = b
  BY <1>2, SMTT(60) DEF QuarticCoordinates, QuarticRow, QuarticChannels, Channels32
<1>3. QED
  BY <1>1, <1>2
=============================================================================
