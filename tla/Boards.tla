------------------------------- MODULE Boards -------------------------------
(***************************************************************************)
(* What ppsFetch does with its boards, from its start to its bursts: the   *)
(* calls of main() and VMEReader::ReadXML() to the drivers of the supply,  *)
(* the FPGA and a TDC, in their order, while any access may fail.          *)
(***************************************************************************)
EXTENDS TDCBoard, FPGABoard, HVModule

CONSTANTS
  Setups,         \* configurations: the global mode, with an FPGA or not
  Controls,       \* control words that an earlier acquisition may have left
  LeftMicros,     \* and micro controllers
  FileTriggers,   \* NUM_TRIG_BEFORE_FILE_CHANGE
  MaxBursts       \* bound on the bursts

VARIABLES
  setup,          \* the configuration
  pc,             \* where the process is: a part of the program, a call there
  tdcs,           \* whether the TDC is in fTDCCollection
  header,         \* the modes in the header of the file, and those of the board
  numTriggers, numAllTriggers,
  marks,          \* marks of a trigger in the files
  bursts

mainVars == <<setup, tdcs, header, numTriggers, numAllTriggers, marks, bursts>>
vars == <<busVars, tdcVars, fpgaVars, hvVars, mainVars, pc>>

GlobalModes == {"ContinuousStorage", "TriggerStart", "TriggerMatching"}
ASSUME SetupsAssumption ==
  /\ Setups \subseteq [mode : GlobalModes, fpga : BOOLEAN]
  /\ FileTriggers \in Nat \ {0} /\ MaxBursts \in Nat
  /\ Controls \subseteq 0 .. WordSize - 1
  /\ \A m \in LeftMicros : Left(m)

(* Acquisition mode of the boards, and bits of the FPGA, for each mode.    *)
AcquisitionMode == IF setup.mode = "TriggerMatching" THEN TRIG_MATCH ELSE CONT_STORAGE
ControlOf ==
  [bit \in {ClockSource, TriggerSource, SignalSource0, SignalSource1, TriggeringMode} |->
     IF bit = TriggerSource \/ (bit = TriggeringMode /\ setup.mode = "TriggerMatching") THEN 1 ELSE 0]

Doing(part, i) == process = "running" /\ pc = <<part, i>>
Goto(part, i) == pc' = <<part, i>>
Next1(part, i) == Doing(part, i) /\ Goto(part, i + 1)

(* A call to one driver, that leaves the rest alone.                       *)
OnTDC(call) == call /\ UNCHANGED <<fpgaVars, hvVars, mainVars>>
OnFPGA(call) == call /\ UNCHANGED <<tdcVars, hvVars>>
OnHV(call) == call /\ UNCHANGED <<tdcVars, fpgaVars, mainVars>>
OnNone == Works /\ Runs /\ UNCHANGED <<tdcVars, fpgaVars, hvVars>>
-----------------------------------------------------------------------------
(* The supply is read first; its values go to the database.                *)
StartHV ==
  \/ Next1("hv", 1) /\ OnHV(ReadInfo(kN470GeneralInfo))
  \/ Next1("hv", 2) /\ OnHV(ReadInfo(kN470MonStatus))
  \/ Next1("hv", 3) /\ OnHV(ReadChannel(0))
  \/ /\ Doing("hv", 4)
     /\ Goto(IF setup.fpga THEN "fpga" ELSE "tdc", 1)
     /\ OnHV(ReadChannel(3))

(* The constructor of the FPGA: when it throws fFPGA stays null, and       *)
(* ReadXML() uses it all the same.                                         *)
NewFPGA ==
  /\ UNCHANGED mainVars
  /\ \/ \E i \in {1, 2, 4} :
          /\ Next1("fpga", i)     \* CheckBoardVersion(), ClearOutputPulser(),
          /\ OnFPGA(Accessed \/ (Throws /\ Goes("crashed")))     \* GetControl()
     \/ Next1("fpga", 3) /\ OnFPGA(StopScaler)

(* Its configuration: an exception ends ReadXML(), and main() goes on.     *)
ConfigureFPGA ==
  /\ UNCHANGED mainVars
  /\ \/ Next1("fpga", 5) /\ OnFPGA(Accessed)    \* GetControl(), the periods
     \/ Doing("fpga", 6) /\ Goto("tdc", 1) /\ OnFPGA(SetControl(ControlOf))
     \/ \E i \in {5, 6} : Doing("fpga", i) /\ Goto("start", 1) /\ OnFPGA(Throws /\ Runs)

(* The constructor of the TDC.                                             *)
NewTDC ==
  \/ Next1("tdc", 1) /\ OnTDC(CheckConfiguration)
  \/ Next1("tdc", 2) /\ OnTDC(SoftwareReset)
  \/ Next1("tdc", 3) /\ OnTDC(EnableAllChannels)
  \/ Next1("tdc", 4) /\ OnTDC(SetAcquisitionMode(fAcquisitionMode))
  \/ Next1("tdc", 5) /\ OnTDC(SetDetectionMode(fDetectionMode))
  \/ Next1("tdc", 6) /\ OnTDC(SetLSBTraileadEdge(r25ps))
  \/ Next1("tdc", 7) /\ OnTDC(SetTriggerTimeSubtraction)
  \/ Next1("tdc", 8) /\ OnTDC(SetGlobalOffset(0, 0))
  \/ Next1("tdc", 9) /\ OnTDC(SetTDCEncapsulation)
  \/ Next1("tdc", 10) /\ OnTDC(SetErrorMarks)
  \/ Next1("tdc", 11) /\ OnTDC(SetETTT)
  \/ Next1("tdc", 12) /\ OnTDC(SetPoI(AllChannels, AllChannels))
  \/ Doing("tdc", 13) /\ Goto("xml", 1) /\ OnTDC(GetTriggerConfiguration)

(* Its configuration, as in config/config.xml, and the modes that go to    *)
(* the table of conditions.                                                *)
ConfigureTDC ==
  \/ Next1("xml", 1) /\ OnTDC(SetAcquisitionMode(AcquisitionMode))
  \/ Next1("xml", 2) /\ OnTDC(SetDetectionMode(TRAILEAD))
  \/ Next1("xml", 3) /\ OnTDC(SetDLLClock(3))
  \/ Next1("xml", 4) /\ OnTDC(SetPoI(3, 0))
  \/ Next1("xml", 5) /\ OnTDC(SetETTT)
  \/ Next1("xml", 6) /\ OnTDC(SetWindowWidth(400))
  \/ Next1("xml", 7) /\ OnTDC(SetWindowOffset(65136))
  \/ Next1("xml", 8) /\ OnTDC(GetAcquisitionMode)
  \/ Next1("xml", 9) /\ OnTDC(GetDetectionMode)
  \/ /\ Doing("xml", 10) /\ Goto("start", 1)
     /\ OnNone
     /\ tdcs' = TRUE
     /\ UNCHANGED <<setup, header, numTriggers, numAllTriggers, marks, bursts>>
-----------------------------------------------------------------------------
(* Main asks the boards for their modes before the first burst, and at the *)
(* beginning of each for the header of its file.                           *)
AskModes(part) ==
  /\ UNCHANGED mainVars
  /\ \/ tdcs /\ Next1(part, 1) /\ OnTDC(GetAcquisitionMode)
     \/ tdcs /\ Next1(part, 2) /\ OnTDC(GetDetectionMode)
     \/ ~tdcs /\ Doing(part, 1) /\ Goto(part, 3) /\ OnNone

StartAcquisition ==
  \/ AskModes("start")
  \/ /\ Doing("start", 3)
     /\ Goto("burst", 0)
     /\ IF setup.fpga THEN OnFPGA(StartScaler) ELSE OnNone
     /\ UNCHANGED mainVars

BoardModes == <<micro.setting["acquisition"][1], micro.setting["detection"][1] % 4>>

(* `sound` tells whether the accesses since the beginning of the burst     *)
(* worked, `board` what the TDC holds when the header is written.          *)
NewBurst ==
  /\ Next1("burst", 0)
  /\ bursts < MaxBursts
  /\ bursts' = bursts + 1
  /\ header' = [header EXCEPT !.failures = failures]
  /\ OnNone
  /\ UNCHANGED <<setup, tdcs, numTriggers, numAllTriggers, marks>>

WriteHeader ==
  /\ Next1("burst", 3)
  /\ header' = [acquisition |-> fAcquisitionMode, detection |-> fDetectionMode,
                board |-> BoardModes, sound |-> failures = header.failures,
                failures |-> failures]
  /\ OnNone
  /\ UNCHANGED <<setup, tdcs, numTriggers, numAllTriggers, marks, bursts>>

Pulse ==
  /\ Doing("burst", 4)
  /\ Goto("loop", 1)
  /\ IF setup.fpga THEN OnFPGA(PulseTDCBits(kReset + kClear)) ELSE OnNone
  /\ UNCHANGED mainVars
-----------------------------------------------------------------------------
(* Mutant: the last value is not kept.                                     *)
MarkTriggers_Stale ==
  /\ Doing("loop", 1) /\ UNCHANGED pc
  /\ setup.fpga /\ setup.mode = "TriggerStart"
  /\ \E value \in {scaler, 0} :
       /\ OnFPGA(GetScalerValue(value)) /\ Runs
       /\ marks' = IF value # numTriggers THEN marks + 1 ELSE marks
  /\ UNCHANGED <<setup, tdcs, header, numTriggers, numAllTriggers, bursts>>

(* In the mode TriggerStart each turn of the loop reads the scaler, and    *)
(* marks a trigger in the files when it has moved.                         *)
MarkTriggers ==
  /\ Doing("loop", 1) /\ UNCHANGED pc
  /\ setup.fpga /\ setup.mode = "TriggerStart"
  /\ \E value \in {scaler, 0} :
       /\ OnFPGA(GetScalerValue(value)) /\ Runs
       /\ numTriggers' = value
       /\ marks' = IF value # numTriggers THEN marks + 1 ELSE marks
  /\ UNCHANGED <<setup, tdcs, header, numAllTriggers, bursts>>

(* Every 5000 turns the scaler (in the other modes) and the supply are     *)
(* read, and the files are changed after enough triggers.                  *)
Probe ==
  /\ Doing("loop", 1) /\ Goto("probe", 1)
  /\ setup.fpga
  /\ IF setup.mode = "TriggerStart" THEN OnNone /\ UNCHANGED numTriggers
     ELSE \E value \in {scaler, 0} :
            OnFPGA(GetScalerValue(value)) /\ Runs /\ numTriggers' = value
  /\ UNCHANGED <<setup, tdcs, header, numAllTriggers, marks, bursts>>

BroadcastHVStatus ==
  \/ Next1("probe", 1) /\ OnHV(ReadChannel(0))
  \/ Next1("probe", 2) /\ OnHV(ReadChannel(3))

ChangeFiles ==
  /\ Doing("probe", 3)
  /\ IF numTriggers - numAllTriggers >= FileTriggers
     THEN Goto("burst", 0) /\ numAllTriggers' = numTriggers
     ELSE Goto("loop", 1) /\ UNCHANGED numAllTriggers
  /\ OnNone
  /\ UNCHANGED <<setup, tdcs, header, numTriggers, marks, bursts>>
-----------------------------------------------------------------------------
Init ==
  /\ setup \in Setups
  /\ BusInit /\ TDCInit(LeftMicros) /\ FPGAInit(Controls) /\ HVInit
  /\ pc = <<"hv", 1>>
  /\ tdcs = FALSE
  /\ header = [acquisition |-> TRIG_MATCH, detection |-> TRAILEAD,
               board |-> BoardModes, sound |-> FALSE, failures |-> 0]
  /\ numTriggers = 0 /\ numAllTriggers = 0 /\ marks = 0
  /\ bursts = 0

Configure == StartHV \/ NewFPGA \/ ConfigureFPGA \/ NewTDC \/ ConfigureTDC
Acquire ==
  \/ StartAcquisition \/ NewBurst \/ AskModes("burst") \/ WriteHeader \/ Pulse
  \/ MarkTriggers \/ Probe \/ BroadcastHVStatus \/ ChangeFiles
Next ==
  \/ Configure
  \/ Acquire
  \/ process = "running" /\ Trigger /\ UNCHANGED <<tdcVars, hvVars, mainVars, pc>>

Spec == Init /\ [][Next]_vars
-----------------------------------------------------------------------------
TypeOK ==
  /\ BusTypeOK /\ TDCTypeOK /\ FPGATypeOK
  /\ request \in Seq(Nat)
  /\ tdcs \in BOOLEAN
  /\ {numTriggers, numAllTriggers, marks, bursts} \subseteq Nat

(***************************************************************************)
(* The header of a file gives the modes that its board is in, whatever     *)
(* words it missed or took for others since the program set them, unless   *)
(* an access failed while they were read.                                  *)
(***************************************************************************)
HeaderTrue ==
  header.sound /\ tdcs =>
    <<header.acquisition, header.detection>> = header.board

(* The settings of the TDC that the configuration file asks for.           *)
Configuration ==
  [acquisition |-> <<AcquisitionMode>>, detection |-> <<TRAILEAD>>,
   resolution |-> <<r25ps>>, subtraction |-> <<1>>, offset |-> <<0, 0>>,
   headers |-> <<1>>, marks |-> <<1>>, clock |-> <<3>>,
   channels |-> <<3, 0>>, width |-> <<400>>, window |-> <<65136>>]

(***************************************************************************)
(* An access that fails in the middle of a command puts the micro          *)
(* controller out of step, and it takes operands for commands: but it is   *)
(* back in step soon, and few settings are wrong for each failure.  Those  *)
(* that an earlier acquisition left, when the reset failed, do not count   *)
(* until they are set; but all are by the time the board is configured.    *)
(***************************************************************************)
DamageBounded ==
  process = "running" =>
    /\ Cardinality(Spoiled) <= 3 * failures
    /\ tdcs => asked = Configuration

(***************************************************************************)
(* The control word of the FPGA has the bits that were asked for, though   *)
(* SetBit() computes with a sign of 16 bits: all of them, but for those of *)
(* the scaler after a failure that StopScaler() or StartScaler() hid.      *)
(***************************************************************************)
ControlAsAsked ==
  \A bit \in ControlBits :
    GetBit(reg, bit) # askedBits[bit] => bit \in {ScalerStatus, ScalerReset} /\ failures > 0

(***************************************************************************)
(* While the TDCs are read their reset is released, whatever the lines     *)
(* were before, unless an access of the last pulse failed.                 *)
(***************************************************************************)
ResetReleased ==
  process = "running" /\ setup.fpga /\ pc[1] \in {"loop", "probe"} /\ lines # 0 => pulseFailed

(***************************************************************************)
(* The files have no more marks than there were triggers, but for two for  *)
(* each access that failed: a scaler that cannot be read seems to be 0.    *)
(***************************************************************************)
MarksBounded == marks <= triggers + 2 * failures
=============================================================================
