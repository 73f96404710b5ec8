----------------------------- MODULE FPGABoard ------------------------------
(***************************************************************************)
(* The V1495 board: the control word, the scaler that counts triggers and  *)
(* the lines that reset and clear the TDCs, with the methods of            *)
(* FPGAUnitV1495 that ppsFetch calls.                                      *)
(***************************************************************************)
EXTENDS Bus

CONSTANTS
  ShortSize,    \* values of an unsigned short
  WordSize,     \* values of the control word
  MaxTriggers   \* bound on the triggers

ASSUME WordAssumption ==
  /\ ShortSize \in Nat \ {0} /\ ShortSize % 128 = 0
  /\ WordSize \in Nat \ {0} /\ WordSize % 128 = 0
  /\ MaxTriggers \in Nat

VARIABLES
  reg,          \* the control register of the board
  askedBits,    \* the bits of it that the program asked for
  scaler,       \* the counter of triggers
  triggers,     \* those it counted since the program started it
  lines,        \* the bits that go to the TDCs
  pulseFailed   \* an access of the latest pulse on them failed

fpgaVars == <<reg, askedBits, scaler, triggers, lines, pulseFailed>>

(* Bits of the control word, by their weights.                             *)
ClockSource == 1
TriggerSource == 2
ScalerStatus == 4
ScalerReset == 8
SignalSource0 == 16
SignalSource1 == 32
TriggeringMode == 64
ControlBits == {1, 2, 4, 8, 16, 32, 64}
GetBit(word, bit) == (word \div bit) % 2
BitsOf(word) == [bit \in ControlBits |-> GetBit(word, bit)]

kReset == 1
kClear == 4

(* Mutant: the sign is applied whatever the bit is.                        *)
SetBit_Always(word, bit, value) ==
  (word + (IF value = 0 THEN ShortSize - 1 ELSE 1) * bit) % WordSize

(* The sign is an unsigned short: clearing a bit adds 2^16 - 1 times it.   *)
SetBit(word, bit, value) ==
  IF value = GetBit(word, bit) THEN word
  ELSE (word + (IF value = 0 THEN ShortSize - 1 ELSE 1) * bit) % WordSize

Stopped(word) == SetBit(word, ScalerStatus, 0)
Cleared(word) == SetBit(Stopped(word), ScalerReset, 1)
Started(word) == SetBit(SetBit(word, ScalerStatus, 1), ScalerReset, 0)
-----------------------------------------------------------------------------
(* The scaler counts while it is on and not reset.                         *)
Trigger ==
  /\ GetBit(reg, ScalerStatus) = 1
  /\ GetBit(reg, ScalerReset) = 0
  /\ triggers < MaxTriggers
  /\ scaler' = scaler + 1
  /\ triggers' = triggers + 1
  /\ UNCHANGED <<busVars, reg, askedBits, lines, pulseFailed>>
-----------------------------------------------------------------------------
(* Reads, and writes of registers that nothing depends on (output pulser,  *)
(* periods of the clock and of the trigger): all work, or one throws.      *)
Accessed == Works /\ Runs /\ UNCHANGED fpgaVars
Throws == Fails /\ UNCHANGED fpgaVars

(* StopScaler() says nothing of a failure.                                 *)
StopScaler ==
  /\ Runs
  /\ askedBits' = [askedBits EXCEPT ![ScalerStatus] = 0]
  /\ (Works /\ reg' = Stopped(reg)) \/ (Fails /\ UNCHANGED reg)
  /\ UNCHANGED <<scaler, triggers, lines, pulseFailed>>

(* Nor does StartScaler(), which writes twice.                             *)
StartScaler ==
  /\ Runs
  /\ askedBits' = [askedBits EXCEPT ![ScalerStatus] = 1, ![ScalerReset] = 0]
  /\ \/ Works /\ reg' = Started(Cleared(reg)) /\ scaler' = 0
     \/ Fails /\ reg' = Cleared(reg) /\ scaler' = 0
     \/ Fails /\ UNCHANGED <<reg, scaler>>
  /\ triggers' = 0
  /\ UNCHANGED <<lines, pulseFailed>>

(* ReadXML() reads the word, sets the bits of its configuration and writes *)
(* it back.                                                                *)
SetAll(word, bits) ==
  LET set(w, bit) == IF bit \in DOMAIN bits THEN SetBit(w, bit, bits[bit]) ELSE w
  IN set(set(set(set(set(word, ClockSource), TriggerSource),
             SignalSource0), SignalSource1), TriggeringMode)
SetControl(bits) ==
  /\ Works /\ Runs
  /\ askedBits' = [bit \in ControlBits |-> IF bit \in DOMAIN bits THEN bits[bit] ELSE askedBits[bit]]
  /\ reg' = SetAll(reg, bits)
  /\ UNCHANGED <<scaler, triggers, lines, pulseFailed>>

(* What GetScalerValue() gives: 0 when the access fails.                   *)
GetScalerValue(value) ==
  /\ (Works /\ value = scaler) \/ (Fails /\ value = 0)
  /\ UNCHANGED fpgaVars
-----------------------------------------------------------------------------
(* GetTDCBits() gives 0 when it fails, and SetTDCBits() writes nothing     *)
(* when it reads what it is asked for.  Its outcomes from lines l:         *)
SetTDCBits(l, bits) ==
  LET sets(n) == {[lines |-> bits, failed |-> n, thrown |-> FALSE],
                  [lines |-> l, failed |-> n + 1, thrown |-> TRUE]}
      returns(n) == {[lines |-> l, failed |-> n, thrown |-> FALSE]}
  IN (IF l = bits THEN returns(0) ELSE sets(0))
       \cup (IF 0 = bits THEN returns(1) ELSE sets(1))

(* Mutant: a pulse that is there already is not sent again.                *)
PulseTDCBits_Once(bits) ==
  \E up \in SetTDCBits(lines, bits) :
    \E down \in IF up.thrown \/ lines = bits THEN {[up EXCEPT !.failed = 0]} ELSE SetTDCBits(up.lines, 0) :
      /\ Accesses(up.failed + down.failed)
      /\ lines' = down.lines
      /\ pulseFailed' = (up.failed + down.failed > 0)
      /\ Goes(IF down.thrown THEN "ended" ELSE "running")
      /\ UNCHANGED <<reg, askedBits, scaler, triggers>>

(* Main ends on the exception of a pulse.                                  *)
PulseTDCBits(bits) ==
  \E up \in SetTDCBits(lines, bits) :
    \E down \in IF up.thrown THEN {[up EXCEPT !.failed = 0]} ELSE SetTDCBits(up.lines, 0) :
      /\ Accesses(up.failed + down.failed)
      /\ lines' = down.lines
      /\ pulseFailed' = (up.failed + down.failed > 0)
      /\ Goes(IF down.thrown THEN "ended" ELSE "running")
      /\ UNCHANGED <<reg, askedBits, scaler, triggers>>
-----------------------------------------------------------------------------
(* The board keeps what an earlier acquisition left in it.                 *)
FPGAInit(words) ==
  /\ reg \in words
  /\ askedBits = BitsOf(reg)
  /\ scaler \in {0, 1}
  /\ triggers = 0
  /\ lines \in {0, kReset + kClear}
  /\ pulseFailed = FALSE

FPGATypeOK ==
  /\ reg \in 0 .. WordSize - 1
  /\ askedBits \in [ControlBits -> {0, 1}]
  /\ scaler \in 0 .. 2 * MaxTriggers + 1
  /\ triggers \in 0 .. MaxTriggers
  /\ lines \in {0, kReset + kClear}
  /\ pulseFailed \in BOOLEAN
=============================================================================
