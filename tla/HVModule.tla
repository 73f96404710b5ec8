----------------------------- MODULE HVModule -------------------------------
(***************************************************************************)
(* The N470 high-voltage supply behind the V288 CAENET controller.  A      *)
(* request is written word by word to the buffer of the controller, then   *)
(* transmitted; the answer is a code and the data.                         *)
(***************************************************************************)
EXTENDS Bus, Sequences

CONSTANT
  HVAddress     \* address of the supply on the CAENET line

ASSUME HVAddressAssumption == HVAddress \in Nat

VARIABLES
  request,      \* words in the buffer of the controller
  hvLog         \* <<channel, the channel that its values came from>>: rows
                \* of the table of HV conditions and HV_STATUS messages

hvVars == <<request, hvLog>>

MSTIDENT == 1
kN470GeneralInfo == 0
kN470MonStatus == 1
kN470OperationalParams == 2
Opcode(ch) == kN470OperationalParams + 256 * ch
Words(opcode) == <<MSTIDENT, HVAddress, opcode>>

(* The supply gives data for what it was asked, and none with the error    *)
(* code for a request it does not understand.  Data are known by the       *)
(* opcode they answer.  The driver discards nothing after a failure (its   *)
(* Reset() is commented out), so the rest is assumed of the controller:    *)
(* that a transmission empties the buffer, that it drops what was not read *)
(* of the answer before, and that a request with words of another in front *)
(* is not understood.                                                      *)
Answer(words) ==
  IF Len(words) = 3 /\ SubSeq(words, 1, 2) = <<MSTIDENT, HVAddress>> THEN <<words[3]>> ELSE <<>>
cnNoData == 65533

(* Mutant: operator>> does not look at the status of the controller.       *)
Fetched_NoStatus(data) == IF data = <<>> THEN <<cnNoData>> ELSE data

(* WaitForResponse() accepts any code that is not "busy", errors included; *)
(* FetchBuffer() then finds the status invalid, and there is no data.      *)
Fetched(data) == data

(* ReadRegister(): the data that it can give, and how it does.  When an    *)
(* access fails, the words that were written stay in the buffer unless it  *)
(* was transmitted.                                                        *)
Replies(opcode) == {<<>>, Fetched(Answer(request \o Words(opcode)))}
ReadRegister(opcode, data) ==
  \/ /\ Works
     /\ request' = <<>>
     /\ data = Fetched(Answer(request \o Words(opcode)))
  \/ /\ Fails
     /\ \/ \E k \in 0 .. 3 : request' = request \o SubSeq(Words(opcode), 1, k)
        \/ request' = <<>>
     /\ data = <<>>

(* GetModuleId(), ReadMonitoringValues(): failures are reported, no more.  *)
ReadInfo(opcode) ==
  /\ \E data \in Replies(opcode) : ReadRegister(opcode, data)
  /\ Runs
  /\ UNCHANGED hvLog

(* ReadChannelValues() returns an empty vector when it fails, and at() of  *)
(* its reader throws std::out_of_range, which nobody catches.              *)
ReadChannel(ch) ==
  \E data \in Replies(Opcode(ch)) :
    /\ ReadRegister(Opcode(ch), data)
    /\ IF data = <<>> THEN Goes("crashed") /\ UNCHANGED hvLog
       ELSE Runs /\ hvLog' = hvLog \cup {<<Opcode(ch), data[1]>>}

HVInit == request = <<>> /\ hvLog = {}

(***************************************************************************)
(* Values that are recorded or shown for a channel were read from that     *)
(* channel, though a failed request is left in front of the next one.      *)
(***************************************************************************)
HVRecorded == \A entry \in hvLog : entry[1] = entry[2]
=============================================================================
