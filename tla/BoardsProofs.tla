---------------------------- MODULE BoardsProofs -----------------------------
(***************************************************************************)
(* Proofs about Boards, for any configurations, left-over control words,   *)
(* sizes of words, numbers of triggers and of failures of the bus: types,  *)
(* the control word of the FPGA, the reset of the TDCs, the marks of       *)
(* triggers, the values of the high voltages, the settings of the TDC and  *)
(* the headers of the files.                                               *)
(***************************************************************************)
EXTENDS Boards, TDCProofs

-----------------------------------------------------------------------------
(* Control words.  Bits beyond the seventh play no part: a word counts     *)
(* modulo 128, and a number below 128 is the sum of its bits.              *)

WordOf(x) == x[1] + 2 * x[2] + 4 * x[4] + 8 * x[8] + 16 * x[16] + 32 * x[32] + 64 * x[64]
Bits == [ControlBits -> {0, 1}]

(* The bits of a sum of distinct powers of two are its terms.              *)
LEMMA SumBits ==
  ASSUME NEW x0 \in {0, 1}, NEW x1 \in {0, 1}, NEW x2 \in {0, 1}, NEW x3 \in {0, 1},
         NEW x4 \in {0, 1}, NEW x5 \in {0, 1}, NEW x6 \in {0, 1}, NEW s,
         s = x0 + 2 * x1 + 4 * x2 + 8 * x3 + 16 * x4 + 32 * x5 + 64 * x6
  PROVE  /\ GetBit(s, 1) = x0 /\ GetBit(s, 2) = x1 /\ GetBit(s, 4) = x2 /\ GetBit(s, 8) = x3
         /\ GetBit(s, 16) = x4 /\ GetBit(s, 32) = x5 /\ GetBit(s, 64) = x6
BY DEF GetBit

LEMMA BitsOfWord ==
  ASSUME NEW x \in Bits
  PROVE  WordOf(x) \in 0 .. 127 /\ \A b \in ControlBits : GetBit(WordOf(x), b) = x[b]
<1>1. \A b \in ControlBits : x[b] \in {0, 1}
  BY DEF Bits
<1>2. {1, 2, 4, 8, 16, 32, 64} \subseteq ControlBits
  BY DEF ControlBits
<1>3. WordOf(x) \in 0 .. 127
  BY <1>1, <1>2 DEF WordOf
<1>4. \A b \in {1, 2, 4, 8, 16, 32, 64} : GetBit(WordOf(x), b) = x[b]
  BY <1>1, <1>2, SumBits DEF WordOf
<1>5. QED
  BY <1>3, <1>4 DEF ControlBits

LEMMA WordOfBits ==
  ASSUME NEW w \in 0 .. 127
  PROVE  BitsOf(w) \in Bits /\ WordOf(BitsOf(w)) = w
<1>1. \A b \in ControlBits : GetBit(w, b) \in {0, 1}
  BY DEF ControlBits, GetBit
<1>2. BitsOf(w) \in Bits
  BY <1>1 DEF BitsOf, Bits
<1>3. w = (w % 2) + 2 * ((w \div 2) % 2) + 4 * ((w \div 4) % 2) + 8 * ((w \div 8) % 2)
          + 16 * ((w \div 16) % 2) + 32 * ((w \div 32) % 2) + 64 * ((w \div 64) % 2)
  OBVIOUS
<1>4. /\ BitsOf(w)[1] = w % 2 /\ BitsOf(w)[2] = (w \div 2) % 2 /\ BitsOf(w)[4] = (w \div 4) % 2
      /\ BitsOf(w)[8] = (w \div 8) % 2 /\ BitsOf(w)[16] = (w \div 16) % 2
      /\ BitsOf(w)[32] = (w \div 32) % 2 /\ BitsOf(w)[64] = (w \div 64) % 2
  BY DEF BitsOf, GetBit, ControlBits
<1>. QED
  BY <1>2, <1>3, <1>4 DEF WordOf

LEMMA LowBits ==
  ASSUME NEW w \in Nat, NEW q \in Nat, NEW r \in 0 .. 127, w = 128 * q + r
  PROVE  \A b \in ControlBits : GetBit(w, b) = GetBit(r, b)
BY DEF GetBit, ControlBits

(* Setting or clearing one bit adds or subtracts its weight.               *)
LEMMA FlipBit ==
  ASSUME NEW x \in Bits, NEW b \in ControlBits
  PROVE  /\ x[b] = 0 => WordOf([x EXCEPT ![b] = 1]) = WordOf(x) + b
         /\ x[b] = 1 => WordOf([x EXCEPT ![b] = 0]) = WordOf(x) - b
<1>1. \A c \in ControlBits : x[c] \in {0, 1}
  BY DEF Bits
<1>. QED
  BY <1>1 DEF Bits, WordOf, ControlBits

LEMMA Remainder ==
  ASSUME NEW w \in Nat
  PROVE  \E q \in Nat, r \in 0 .. 127 : w = 128 * q + r
<1>1. w = 128 * (w \div 128) + (w % 128) /\ w \div 128 \in Nat /\ w % 128 \in 0 .. 127
  OBVIOUS
<1>2. QED
  BY <1>1

(* Words and signs are multiples of 128: their overflow keeps the bits.    *)
LEMMA OverflowKeepsBits ==
  ASSUME NEW x \in Nat, NEW size \in Nat \ {0}, size % 128 = 0
  PROVE  x % size \in 0 .. size - 1 /\ \A b \in ControlBits : GetBit(x % size, b) = GetBit(x, b)
<1>1. PICK m \in Nat : size = 128 * m
  OBVIOUS
<1>2. PICK d \in Nat, e \in 0 .. size - 1 : x = size * d + e /\ x % size = e
  OBVIOUS
<1>3. PICK p \in Nat : size * d = 128 * p
  <2>1. size * d = (128 * m) * d
    BY <1>1
  <2>2. (128 * m) * d = 128 * (d * m)
    OBVIOUS
  <2>3. d * m \in Nat
    OBVIOUS
  <2>. QED
    BY <2>1, <2>2, <2>3
<1>4. PICK q \in Nat, r \in 0 .. 127 : e = 128 * q + r
  BY <1>2, Remainder
<1>5. PICK n \in Nat : n = p + q
  OBVIOUS
<1>6. x = 128 * n + r
  BY <1>2, <1>3, <1>4, <1>5
<1>7. \A b \in ControlBits : GetBit(x, b) = GetBit(r, b)
  BY <1>6, LowBits
<1>8. \A b \in ControlBits : GetBit(e, b) = GetBit(r, b)
  BY <1>2, <1>4, LowBits, SMTT(40)
<1>. QED
  BY <1>2, <1>7, <1>8

(* SetBit() sets the bit it is given and no other, although it clears one  *)
(* by adding 2^16 - 1 times its weight (include/VME_FPGAUnitV1495.h:101).  *)
LEMMA SetBitBits ==
  ASSUME NEW w \in 0 .. WordSize - 1, NEW b \in ControlBits, NEW v \in {0, 1}
  PROVE  /\ SetBit(w, b, v) \in 0 .. WordSize - 1
         /\ \A c \in ControlBits :
              GetBit(SetBit(w, b, v), c) = IF c = b THEN v ELSE GetBit(w, c)
<1>1. PICK q \in Nat, r \in 0 .. 127 : w = 128 * q + r
  BY Remainder, WordAssumption
<1>2. \A c \in ControlBits : GetBit(w, c) = GetBit(r, c) /\ GetBit(w, c) = BitsOf(r)[c]
  BY <1>1, LowBits, WordAssumption, SMTT(40) DEF BitsOf
<1>3. BitsOf(r) \in Bits /\ WordOf(BitsOf(r)) = r
  BY WordOfBits
<1>4. BitsOf(r)[b] \in {0, 1}
  BY <1>3 DEF Bits
<1> DEFINE x == [BitsOf(r) EXCEPT ![b] = v]
<1>5. x \in Bits /\ WordOf(x) \in 0 .. 127
      /\ \A c \in ControlBits : GetBit(WordOf(x), c) = IF c = b THEN v ELSE GetBit(w, c)
  <2>1. x \in Bits
    BY <1>3 DEF Bits
  <2>2. \A c \in ControlBits : x[c] = IF c = b THEN v ELSE BitsOf(r)[c]
    BY <1>3 DEF Bits
  <2>3. WordOf(x) \in 0 .. 127 /\ \A c \in ControlBits : GetBit(WordOf(x), c) = x[c]
    <3> HIDE DEF x
    <3>. QED
      BY <2>1, BitsOfWord
  <2> HIDE DEF x
  <2>. QED
    BY <2>1, <2>2, <2>3, <1>2
<1>6. CASE v = GetBit(w, b)
  BY <1>6 DEF SetBit
<1>7. CASE v = 1 /\ GetBit(w, b) = 0
  <2>1. WordOf(x) = r + b
    BY <1>7, <1>2, <1>3, FlipBit
  <2> HIDE DEF x
  <2>2. w + b \in Nat /\ w + b = 128 * q + WordOf(x)
    BY <1>1, <2>1, WordAssumption DEF ControlBits
  <2>3. SetBit(w, b, v) = (w + b) % WordSize
    <3>1. SetBit(w, b, v) = (w + 1 * b) % WordSize
      BY <1>7 DEF SetBit
    <3>. QED
      BY <3>1, WordAssumption DEF ControlBits
  <2>4. \A c \in ControlBits : GetBit(w + b, c) = GetBit(WordOf(x), c)
    BY <2>2, <1>5, LowBits, ZenonT(60)
  <2>5. /\ (w + b) % WordSize \in 0 .. WordSize - 1
        /\ \A c \in ControlBits : GetBit((w + b) % WordSize, c) = GetBit(w + b, c)
    BY <2>2, OverflowKeepsBits, WordAssumption
  <2>. QED
    BY <2>3, <2>4, <2>5, <1>5
<1>8. CASE v = 0 /\ GetBit(w, b) = 1
  <2>1. WordOf(x) = r - b
    BY <1>8, <1>2, <1>3, FlipBit
  <2> HIDE DEF x
  <2>2. PICK k \in Nat : ShortSize = 128 * k
    BY WordAssumption
  <2>3. (ShortSize - 1) * b = 128 * (k * b) - b /\ k * b \in Nat
    BY <2>2 DEF ControlBits
  <2>4. PICK n \in Nat : n = q + k * b
    BY <2>3
  <2>5. w + (ShortSize - 1) * b \in Nat /\ w + (ShortSize - 1) * b = 128 * n + WordOf(x)
     BY <1>1, <1>5, <2>1, <2>3, <2>4, WordAssumption DEF ControlBits
  <2>6. SetBit(w, b, v) = (w + (ShortSize - 1) * b) % WordSize
    BY <1>8 DEF SetBit
  <2>7. \A c \in ControlBits : GetBit(w + (ShortSize - 1) * b, c) = GetBit(WordOf(x), c)
    BY <2>5, <1>5, LowBits, SMTT(40)
  <2>8. PICK y \in Nat : y = w + (ShortSize - 1) * b
    BY <2>5
  <2>9. /\ y % WordSize \in 0 .. WordSize - 1
        /\ \A c \in ControlBits : GetBit(y % WordSize, c) = GetBit(y, c)
    BY <2>8, OverflowKeepsBits, WordAssumption
  <2>. QED
    BY <2>6, <2>7, <2>8, <2>9, <1>5
<1>. QED
  BY <1>2, <1>4, <1>6, <1>7, <1>8
-----------------------------------------------------------------------------
(* The inductive invariant.                                                *)

InBursts == pc[1] \in {"burst", "loop", "probe"}

CountersInv ==
  /\ failures \in Nat /\ scaler \in Nat /\ triggers \in Nat
  /\ numTriggers \in Nat /\ marks \in Nat

ControlInv ==
  /\ reg \in 0 .. WordSize - 1
  /\ askedBits \in Bits
  /\ ControlAsAsked

(* Only a failed access leaves a reset on the lines after a pulse.         *)
LinesInv ==
  setup.fpga /\ pc[1] \in {"loop", "probe"} /\ lines # 0 => pulseFailed

(* Of t triggers the scaler shows s, more than t only if a start failed to *)
(* reset it, and v was read of it last.  While v is not 0 the m marks are  *)
(* at most the triggers seen in v; a read of 0, and the one that follows,  *)
(* are paid for by the failure in between, of f.                           *)
Paid(t, s, v, m, f) ==
  /\ t <= s /\ v <= s
  /\ t < s => f > 0
  /\ v # 0 => s <= v + t /\ m + s <= v + t + 2 * f
  /\ v = 0 => m = 0 \/ m + 1 <= t + 2 * f

MarksInv ==
  /\ ~InBursts => numTriggers = 0 /\ marks = 0
  /\ InBursts /\ ~setup.fpga => marks = 0
  /\ InBursts /\ setup.fpga => Paid(triggers, scaler, numTriggers, marks, failures)

(* What is left of a failed request is never taken for a request.          *)
HVInv == (\E S : request \in Seq(S)) /\ HVRecorded

BoardsInv == CountersInv /\ ControlInv /\ LinesInv /\ MarksInv /\ HVInv
-----------------------------------------------------------------------------
(* Failures, triggers and reads of the scaler.                             *)
LEMMA PaidSteps ==
  ASSUME NEW t \in Nat, NEW s \in Nat, NEW v \in Nat, NEW m \in Nat, NEW f \in Nat,
         NEW g \in Nat, f <= g, Paid(t, s, v, m, f)
  PROVE  /\ Paid(t, s, v, m, g)
         /\ Paid(t + 1, s + 1, v, m, g)
         /\ Paid(t, s, s, m, g) /\ Paid(t, s, s, IF s # v THEN m + 1 ELSE m, g)
         /\ f < g => Paid(t, s, 0, m, g) /\ Paid(t, s, 0, IF 0 # v THEN m + 1 ELSE m, g)
         /\ m <= t + 2 * f
BY DEF Paid

-----------------------------------------------------------------------------
(* Steps that leave the FPGA and the counters of main() alone.             *)

Grows == failures' \in Nat /\ failures' >= failures

Quiet ==
  /\ Grows
  /\ UNCHANGED <<fpgaVars, setup, numTriggers, marks>>

LEMMA QuietStep ==
  ASSUME CountersInv, ControlInv, MarksInv, Quiet,
         \/ pc[1] = pc'[1]
         \/ ~InBursts /\ ~InBursts'
         \/ InBursts /\ InBursts'
  PROVE  CountersInv' /\ ControlInv' /\ MarksInv'
<1>1. CountersInv'
  BY DEF CountersInv, Quiet, Grows, fpgaVars
<1>2. ControlInv'
  BY DEF CountersInv, ControlInv, ControlAsAsked, Quiet, Grows, fpgaVars, Bits
<1>3. MarksInv'
  <2>1. InBursts' <=> InBursts
    BY DEF InBursts
  <2>2. /\ scaler' = scaler /\ triggers' = triggers /\ numTriggers' = numTriggers
        /\ marks' = marks /\ setup' = setup
    BY DEF Quiet, Grows, fpgaVars
  <2>3. Paid(triggers, scaler, numTriggers, marks, failures)
          => Paid(triggers, scaler, numTriggers, marks, failures')
    BY PaidSteps, ZenonT(60) DEF CountersInv, Quiet, Grows
  <2>4. QED
    BY <2>1, <2>2, <2>3 DEF MarksInv
<1>4. QED
  BY <1>1, <1>2, <1>3

LEMMA FailuresGrow ==
  ASSUME failures \in Nat, NEW n \in Nat, Accesses(n)
  PROVE  Grows
BY DEF Accesses, Grows

LEMMA WorksFails ==
  ASSUME failures \in Nat
  PROVE  /\ Works => failures' = failures
         /\ Fails => failures' = failures + 1
BY DEF Works, Fails, Accesses

LEMMA EndsGrow ==
  ASSUME failures \in Nat, NEW o, o.failed \in {0, 1}, NEW state, Ends(o, state)
  PROVE  Grows
BY FailuresGrow DEF Ends

LEMMA SendsGrow ==
  ASSUME failures \in Nat, NEW words, Sends(words)
  PROVE  Grows
<1>1. PICK o \in Sending(micro, words) : Ends(o, "running")
  BY DEF Sends, Proceeds
<1>2. QED
  BY <1>1, OutcomesOfTDC, EndsGrow

TDCCall ==
  \/ CheckConfiguration \/ SoftwareReset \/ EnableAllChannels
  \/ \E m : SetAcquisitionMode(m) \/ SetDetectionMode(m) \/ SetLSBTraileadEdge(m)
            \/ SetDLLClock(m) \/ SetWindowWidth(m) \/ SetWindowOffset(m)
  \/ \E m, n : SetGlobalOffset(m, n) \/ SetPoI(m, n)
  \/ SetTriggerTimeSubtraction \/ SetTDCEncapsulation \/ SetErrorMarks \/ SetETTT
  \/ GetTriggerConfiguration \/ GetAcquisitionMode \/ GetDetectionMode

LEMMA TDCCallsGrow ==
  ASSUME failures \in Nat, TDCCall
  PROVE  Grows
<1>1. CASE CheckConfiguration \/ SoftwareReset \/ SetETTT
  <2>1. Works \/ Fails
    BY <1>1 DEF CheckConfiguration, ReadROM, SoftwareReset, SetETTT
  <2>2. QED
    BY <2>1, WorksFails DEF Grows
<1>2. CASE \/ EnableAllChannels
           \/ \E m : SetDetectionMode(m) \/ SetLSBTraileadEdge(m)
                     \/ SetDLLClock(m) \/ SetWindowWidth(m) \/ SetWindowOffset(m)
           \/ \E m, n : SetGlobalOffset(m, n) \/ SetPoI(m, n)
           \/ SetTriggerTimeSubtraction \/ SetTDCEncapsulation \/ SetErrorMarks
  <2>1. \E words : Sends(words)
    BY <1>2 DEF EnableAllChannels, SetDetectionMode, SetLSBTraileadEdge, SetDLLClock,
                SetWindowWidth, SetWindowOffset, SetGlobalOffset, SetPoI,
                SetTriggerTimeSubtraction, SetTDCEncapsulation, SetErrorMarks
  <2>2. QED
    BY <2>1, SendsGrow
<1>3. CASE GetTriggerConfiguration \/ GetDetectionMode
  <2>1. \E command, n : \E o \in Asking(micro, command, n) : Ends(o, "running")
    BY <1>3 DEF GetTriggerConfiguration, GetDetectionMode, Proceeds
  <2>2. QED
    BY <2>1, OutcomesOfTDC, EndsGrow
<1>4. CASE GetAcquisitionMode
  <2>1. PICK o \in Asking(micro, READ_ACQ_MOD, 1) : ReadsAcquisitionMode(o)
    BY <1>4 DEF GetAcquisitionMode
  <2>2. \E state : Ends(o, state)
    BY <2>1 DEF ReadsAcquisitionMode, Proceeds
  <2>3. QED
    BY <2>2, OutcomesOfTDC, EndsGrow
<1>5. ASSUME NEW m, SetAcquisitionMode(m) PROVE Grows
  <2>1. PICK words : \E o \in Sending(micro, words) :
          \/ \E state : Ends(o, state) \/ Ends(Outcome(o.micro, 1, FALSE, <<>>), state)
          \/ \E c \in Asking(o.micro, READ_ACQ_MOD, 1) : \E state : Ends(c, state)
    BY <1>5 DEF SetAcquisitionMode, Proceeds
  <2>2. QED
    BY <2>1, OutcomesOfTDC, EndsGrow DEF Outcome
<1>6. QED
  BY <1>1, <1>2, <1>3, <1>4, <1>5 DEF TDCCall

(* A request that follows what a failed one left is not understood.        *)
LEMMA AnswerToRequest ==
  ASSUME NEW S, NEW r \in Seq(S), NEW opcode \in Nat, Answer(r \o Words(opcode)) # <<>>
  PROVE  Answer(r \o Words(opcode))[1] = opcode
<1> DEFINE w == Words(opcode)
<1>1. w \in Seq(Nat) /\ Len(w) = 3 /\ w[3] = opcode
  BY HVAddressAssumption DEF Words, MSTIDENT
<1>2. /\ r \o w \in Seq(S \cup Nat) /\ Len(r \o w) = Len(r) + Len(w)
      /\ \A i \in 1 .. Len(r) + Len(w) :
           (r \o w)[i] = IF i <= Len(r) THEN r[i] ELSE w[i - Len(r)]
  <2> HIDE DEF w
  <2>1. r \in Seq(S \cup Nat) /\ w \in Seq(S \cup Nat)
    BY <1>1
  <2>2. QED
    BY <2>1, ConcatProperties
<1> HIDE DEF w
<1>3. Len(r \o w) = 3 /\ Answer(r \o w) = <<(r \o w)[3]>>
  BY DEF Answer, w
<1>4. (r \o w)[3] = opcode
  BY <1>1, <1>2, <1>3
<1>5. QED
  BY <1>3, <1>4 DEF w

HVCall == \E opcode \in Nat : ReadInfo(opcode) \/ \E ch \in Nat : ReadChannel(ch)

LEMMA HVCalls ==
  ASSUME failures \in Nat, HVInv, HVCall
  PROVE  Grows /\ HVInv'
<1>1. PICK S : request \in Seq(S)
  BY DEF HVInv
<1>2. ASSUME NEW opcode \in Nat,
             \/ request' = <<>>
             \/ \E k \in 0 .. 3 : request' = request \o SubSeq(Words(opcode), 1, k)
      PROVE  \E T : request' \in Seq(T)
  <2>1. ASSUME NEW k \in 0 .. 3 PROVE SubSeq(Words(opcode), 1, k) \in Seq(Nat)
    <3>1. Words(opcode) \in Seq(Nat) /\ Len(Words(opcode)) = 3
      BY HVAddressAssumption DEF Words, MSTIDENT
    <3>2. k \in 0 .. Len(Words(opcode))
      BY <3>1
    <3>3. QED
      BY <3>1, <3>2, PrefixType
  <2>2. \A k \in 0 .. 3 : request \o SubSeq(Words(opcode), 1, k) \in Seq(S \cup Nat)
    BY <1>1, <2>1
  <2>3. <<>> \in Seq(S)
    OBVIOUS
  <2>4. QED
    BY <1>2, <2>2, <2>3
<1>3. ASSUME NEW opcode \in Nat, ReadInfo(opcode) PROVE Grows /\ HVInv'
  <2>1. /\ Works \/ Fails
        /\ request' = <<>> \/ \E k \in 0 .. 3 : request' = request \o SubSeq(Words(opcode), 1, k)
        /\ UNCHANGED hvLog
    BY <1>3 DEF ReadInfo, ReadRegister
  <2>2. Grows
    BY <2>1, WorksFails DEF Grows
  <2>3. \E T : request' \in Seq(T)
    BY <2>1, <1>2
  <2>4. HVRecorded'
    BY <2>1 DEF HVInv, HVRecorded
  <2>5. QED
    BY <2>2, <2>3, <2>4 DEF HVInv
<1>4. ASSUME NEW ch \in Nat, ReadChannel(ch) PROVE Grows /\ HVInv'
  <2> DEFINE opcode == Opcode(ch)
             data == Answer(request \o Words(opcode))
  <2>1. opcode \in Nat
    BY DEF Opcode, kN470OperationalParams
  <2>2. /\ Works \/ Fails
        /\ request' = <<>> \/ \E k \in 0 .. 3 : request' = request \o SubSeq(Words(opcode), 1, k)
        /\ UNCHANGED hvLog \/ (data # <<>> /\ hvLog' = hvLog \cup {<<opcode, data[1]>>})
    BY <1>4 DEF ReadChannel, ReadRegister, Fetched
  <2>3. data # <<>> => data[1] = opcode
    BY <1>1, <2>1, AnswerToRequest
  <2> HIDE DEF opcode, data
  <2>4. Grows
    BY <2>2, WorksFails DEF Grows
  <2>5. \E T : request' \in Seq(T)
    BY <2>1, <2>2, <1>2
  <2>6. HVRecorded'
    BY <2>2, <2>3 DEF HVInv, HVRecorded
  <2>7. QED
    BY <2>4, <2>5, <2>6 DEF HVInv
<1>5. QED
  BY <1>3, <1>4 DEF HVCall
-----------------------------------------------------------------------------
(* Steps of main() that are quiet.                                         *)
LEMMA HVUnchanged ==
  ASSUME HVInv, UNCHANGED hvVars
  PROVE  HVInv'
BY DEF HVInv, HVRecorded, hvVars

LEMMA QuietSteps ==
  ASSUME BoardsInv, Quiet, HVInv',
         \/ ~InBursts /\ ~InBursts'
         \/ InBursts /\ InBursts' /\ (pc'[1] \in {"loop", "probe"} => pc[1] \in {"loop", "probe"})
  PROVE  BoardsInv'
<1>1. CountersInv' /\ ControlInv' /\ MarksInv'
  BY QuietStep DEF BoardsInv
<1>2. LinesInv'
  BY DEF BoardsInv, LinesInv, Quiet, fpgaVars, InBursts
<1>3. QED
  BY <1>1, <1>2 DEF BoardsInv

LEMMA StepOfHV ==
  ASSUME BoardsInv, StartHV \/ BroadcastHVStatus
  PROVE  BoardsInv'
<1>1. HVCall /\ UNCHANGED <<fpgaVars, mainVars>>
  <2>1. kN470GeneralInfo \in Nat /\ kN470MonStatus \in Nat /\ 0 \in Nat /\ 3 \in Nat
    BY DEF kN470GeneralInfo, kN470MonStatus
  <2>2. QED
    BY <2>1 DEF StartHV, BroadcastHVStatus, OnHV, HVCall
<1>2. /\ StartHV => pc[1] = "hv" /\ pc'[1] \in {"hv", "fpga", "tdc"}
      /\ BroadcastHVStatus => pc[1] = "probe" /\ pc'[1] = "probe"
  BY DEF StartHV, BroadcastHVStatus, Next1, Doing, Goto
<1>3. Grows /\ HVInv'
  BY <1>1, HVCalls DEF BoardsInv, CountersInv
<1>4. Quiet
  BY <1>1, <1>3 DEF Quiet, mainVars
<1>5. QED
  BY <1>2, <1>3, <1>4, QuietSteps DEF InBursts

LEMMA StepOfTDC ==
  ASSUME BoardsInv, NewTDC \/ ConfigureTDC \/ AskModes("start") \/ AskModes("burst")
  PROVE  BoardsInv'
<1>1. UNCHANGED <<fpgaVars, hvVars, setup, numTriggers, marks>> /\ (TDCCall \/ Works)
  <2>1. CASE NewTDC
    BY <2>1 DEF NewTDC, OnTDC, TDCCall, mainVars
  <2>2. CASE ConfigureTDC
    BY <2>2 DEF ConfigureTDC, OnTDC, OnNone, TDCCall, mainVars
  <2>3. CASE AskModes("start") \/ AskModes("burst")
    BY <2>3 DEF AskModes, OnTDC, OnNone, TDCCall, mainVars
  <2>4. QED
    BY <2>1, <2>2, <2>3
<1>2. \/ pc[1] \in {"tdc", "xml", "start"} /\ pc'[1] \in {"tdc", "xml", "start"}
      \/ pc[1] = "burst" /\ pc'[1] = "burst"
  BY DEF NewTDC, ConfigureTDC, AskModes, Next1, Doing, Goto
<1>3. Grows
  BY <1>1, TDCCallsGrow, WorksFails DEF BoardsInv, CountersInv, Grows
<1>4. Quiet /\ HVInv'
  BY <1>1, <1>3, HVUnchanged DEF Quiet, BoardsInv
<1>5. QED
  BY <1>2, <1>4, QuietSteps DEF InBursts

LEMMA StepOfMain ==
  ASSUME BoardsInv, NewBurst \/ WriteHeader \/ ChangeFiles \/ UNCHANGED vars
  PROVE  BoardsInv'
<1>1. UNCHANGED <<fpgaVars, hvVars, setup, numTriggers, marks>> /\ failures' = failures
  BY WorksFails DEF NewBurst, WriteHeader, ChangeFiles, OnNone, vars, mainVars, busVars,
                    BoardsInv, CountersInv
<1>2. \/ pc' = pc
      \/ pc[1] = "burst" /\ pc'[1] = "burst"
      \/ pc[1] = "probe" /\ pc'[1] \in {"burst", "loop"}
  BY DEF NewBurst, WriteHeader, ChangeFiles, Next1, Doing, Goto, vars
<1>3. Quiet /\ HVInv'
  BY <1>1, HVUnchanged DEF Quiet, Grows, BoardsInv, CountersInv
<1>4. QED
  BY <1>2, <1>3, QuietSteps DEF InBursts
-----------------------------------------------------------------------------
(* Steps on the FPGA.                                                      *)

(* What the program asks of the control word, and what it writes.          *)
LEMMA ConfigurationBits ==
  /\ DOMAIN ControlOf = {ClockSource, TriggerSource, SignalSource0, SignalSource1, TriggeringMode}
  /\ \A b \in DOMAIN ControlOf : ControlOf[b] \in {0, 1}
BY DEF ControlOf

LEMMA SetControlStep ==
  ASSUME BoardsInv, SetControl(ControlOf)
  PROVE  ControlInv'
<1> DEFINE c == ControlOf
           w1 == SetBit(reg, ClockSource, c[ClockSource])
           w2 == SetBit(w1, TriggerSource, c[TriggerSource])
           w3 == SetBit(w2, SignalSource0, c[SignalSource0])
           w4 == SetBit(w3, SignalSource1, c[SignalSource1])
           w5 == SetBit(w4, TriggeringMode, c[TriggeringMode])
<1>1. reg' = w5
  BY ConfigurationBits DEF SetControl, SetAll
<1>2. /\ {ClockSource, TriggerSource, SignalSource0, SignalSource1, TriggeringMode} \subseteq ControlBits
      /\ \A b \in ControlBits \ DOMAIN c : b \in {ScalerStatus, ScalerReset}
  BY ConfigurationBits DEF ControlBits, ClockSource, TriggerSource, SignalSource0, SignalSource1,
       TriggeringMode, ScalerStatus, ScalerReset
<1>3. \A b \in DOMAIN c : c[b] \in {0, 1}
  BY ConfigurationBits
<1>4. DOMAIN c = {ClockSource, TriggerSource, SignalSource0, SignalSource1, TriggeringMode}
  BY ConfigurationBits
<1>5. askedBits' = [b \in ControlBits |-> IF b \in DOMAIN c THEN c[b] ELSE askedBits[b]]
      /\ failures' = failures
  BY WorksFails DEF SetControl, BoardsInv, CountersInv
<1> HIDE DEF c
<1>r. reg \in 0 .. WordSize - 1
  BY DEF BoardsInv, ControlInv
<1>a. ClockSource \in ControlBits /\ c[ClockSource] \in {0, 1}
  BY <1>2, <1>3, <1>4
<1>b. TriggerSource \in ControlBits /\ c[TriggerSource] \in {0, 1}
  BY <1>2, <1>3, <1>4
<1>c. SignalSource0 \in ControlBits /\ c[SignalSource0] \in {0, 1}
  BY <1>2, <1>3, <1>4
<1>d. SignalSource1 \in ControlBits /\ c[SignalSource1] \in {0, 1}
  BY <1>2, <1>3, <1>4
<1>e. TriggeringMode \in ControlBits /\ c[TriggeringMode] \in {0, 1}
  BY <1>2, <1>3, <1>4
<1>6. w1 \in 0 .. WordSize - 1 /\ \A b \in ControlBits :
        GetBit(w1, b) = IF b = ClockSource THEN c[b] ELSE GetBit(reg, b)
  BY <1>r, <1>a, SetBitBits
<1> HIDE DEF w1
<1>7. w2 \in 0 .. WordSize - 1 /\ \A b \in ControlBits :
        GetBit(w2, b) = IF b = TriggerSource THEN c[b] ELSE GetBit(w1, b)
  BY <1>b, <1>6, SetBitBits
<1> HIDE DEF w2
<1>8. w3 \in 0 .. WordSize - 1 /\ \A b \in ControlBits :
        GetBit(w3, b) = IF b = SignalSource0 THEN c[b] ELSE GetBit(w2, b)
  BY <1>c, <1>7, SetBitBits
<1> HIDE DEF w3
<1>9. w4 \in 0 .. WordSize - 1 /\ \A b \in ControlBits :
        GetBit(w4, b) = IF b = SignalSource1 THEN c[b] ELSE GetBit(w3, b)
  BY <1>d, <1>8, SetBitBits
<1> HIDE DEF w4
<1>10. w5 \in 0 .. WordSize - 1 /\ \A b \in ControlBits :
        GetBit(w5, b) = IF b = TriggeringMode THEN c[b] ELSE GetBit(w4, b)
  BY <1>e, <1>9, SetBitBits
<1> HIDE DEF w5
<1>11. \A b \in ControlBits : GetBit(w5, b) = IF b \in DOMAIN c THEN c[b] ELSE GetBit(reg, b)
  BY <1>4, <1>6, <1>7, <1>8, <1>9, <1>10
<1>12. askedBits' \in Bits
  BY <1>3, <1>5 DEF BoardsInv, ControlInv, Bits
<1>13. ControlAsAsked'
  BY <1>1, <1>2, <1>5, <1>11 DEF BoardsInv, ControlInv, ControlAsAsked
<1>14. QED
  BY <1>1, <1>10, <1>12, <1>13 DEF ControlInv

LEMMA ScalerBits ==
  ScalerStatus \in ControlBits /\ ScalerReset \in ControlBits /\ ScalerStatus # ScalerReset
BY DEF ScalerStatus, ScalerReset, ControlBits

LEMMA StopScalerStep ==
  ASSUME BoardsInv, StopScaler
  PROVE  ControlInv' /\ Grows
<1>1. /\ askedBits' = [askedBits EXCEPT ![ScalerStatus] = 0]
      /\ askedBits \in Bits /\ failures \in Nat /\ reg \in 0 .. WordSize - 1
  BY DEF StopScaler, BoardsInv, ControlInv, CountersInv
<1>2. askedBits' \in Bits
      /\ \A b \in ControlBits : askedBits'[b] = IF b = ScalerStatus THEN 0 ELSE askedBits[b]
  BY <1>1, ScalerBits DEF Bits
<1>3. CASE Works /\ reg' = Stopped(reg)
  <2>1. reg' \in 0 .. WordSize - 1 /\ \A b \in ControlBits :
          GetBit(reg', b) = IF b = ScalerStatus THEN 0 ELSE GetBit(reg, b)
    BY <1>1, <1>3, SetBitBits, ScalerBits DEF Stopped
  <2>2. failures' = failures
    BY <1>1, <1>3, WorksFails
  <2>3. QED
    BY <1>1, <1>2, <2>1, <2>2 DEF BoardsInv, ControlInv, ControlAsAsked, Grows
<1>4. CASE Fails /\ UNCHANGED reg
  <2>1. failures' = failures + 1
    BY <1>1, <1>4, WorksFails
  <2>2. QED
    BY <1>1, <1>2, <1>4, <2>1 DEF BoardsInv, ControlInv, ControlAsAsked, Grows
<1>5. QED
  BY <1>3, <1>4 DEF StopScaler

LEMMA StartScalerStep ==
  ASSUME BoardsInv, StartScaler
  PROVE  /\ ControlInv' /\ Grows
         /\ scaler' \in Nat /\ triggers' = 0
         /\ scaler' # 0 => failures' > 0
<1> DEFINE asked1 == [askedBits EXCEPT ![ScalerStatus] = 1, ![ScalerReset] = 0]
           c1 == Stopped(reg)
           c2 == Cleared(reg)
           s1 == SetBit(c2, ScalerStatus, 1)
<1>1. /\ askedBits' = asked1
      /\ askedBits \in Bits /\ failures \in Nat /\ reg \in 0 .. WordSize - 1 /\ scaler \in Nat
  BY DEF StartScaler, BoardsInv, ControlInv, CountersInv
<1>2. asked1 \in Bits
      /\ \A b \in ControlBits : asked1[b] =
           IF b = ScalerStatus THEN 1 ELSE IF b = ScalerReset THEN 0 ELSE askedBits[b]
  BY <1>1, ScalerBits DEF Bits
<1> HIDE DEF asked1
<1>3. c1 \in 0 .. WordSize - 1 /\ \A b \in ControlBits :
        GetBit(c1, b) = IF b = ScalerStatus THEN 0 ELSE GetBit(reg, b)
  BY <1>1, SetBitBits, ScalerBits DEF Stopped
<1>4. c2 \in 0 .. WordSize - 1 /\ \A b \in ControlBits :
        GetBit(c2, b) = IF b = ScalerReset THEN 1 ELSE GetBit(c1, b)
  BY <1>3, SetBitBits, ScalerBits DEF Cleared
<1> HIDE DEF c1, c2
<1>5. s1 \in 0 .. WordSize - 1 /\ \A b \in ControlBits :
        GetBit(s1, b) = IF b = ScalerStatus THEN 1 ELSE GetBit(c2, b)
  BY <1>4, SetBitBits, ScalerBits
<1>6. Started(c2) = SetBit(s1, ScalerReset, 0)
  BY DEF Started
<1> HIDE DEF s1
<1>7. Started(c2) \in 0 .. WordSize - 1 /\ \A b \in ControlBits :
        GetBit(Started(c2), b) = IF b = ScalerReset THEN 0 ELSE GetBit(s1, b)
  BY <1>5, <1>6, SetBitBits, ScalerBits
<1>8. CASE Works /\ reg' = Started(c2) /\ scaler' = 0
  <2>1. \A b \in ControlBits : GetBit(reg', b) # asked1[b] => GetBit(reg, b) # askedBits[b]
    BY <1>2, <1>3, <1>4, <1>5, <1>7, <1>8, ScalerBits
  <2>2. failures' = failures
    BY <1>1, <1>8, WorksFails
  <2>3. ControlAsAsked'
    BY <1>1, <2>1, <2>2 DEF BoardsInv, ControlInv, ControlAsAsked
  <2>4. ControlInv'
    BY <1>1, <1>2, <1>7, <1>8, <2>3 DEF ControlInv
  <2>5. QED
    BY <1>1, <1>8, <2>2, <2>4 DEF Grows, StartScaler
<1>9. CASE Fails /\ \/ reg' = c2 /\ scaler' = 0
                    \/ UNCHANGED <<reg, scaler>>
  <2>1. \A b \in ControlBits \ {ScalerStatus, ScalerReset} :
          GetBit(reg', b) # asked1[b] => GetBit(reg, b) # askedBits[b]
    BY <1>2, <1>3, <1>4, <1>9
  <2>2. failures' = failures + 1
    BY <1>1, <1>9, WorksFails
  <2>3. reg' \in 0 .. WordSize - 1
    BY <1>1, <1>4, <1>9
  <2>4. ControlAsAsked'
    BY <1>1, <2>1, <2>2 DEF BoardsInv, ControlInv, ControlAsAsked
  <2>5. ControlInv'
    BY <1>1, <1>2, <2>3, <2>4 DEF ControlInv
  <2>6. QED
    BY <1>1, <1>9, <2>2, <2>5 DEF Grows, StartScaler
<1>10. QED
  BY <1>8, <1>9 DEF StartScaler, c2

(* A write of the lines that failed nowhere leaves what was asked.         *)
LEMMA LinesOutcomes ==
  ASSUME NEW l, NEW bits, NEW o \in SetTDCBits(l, bits)
  PROVE  /\ o.failed \in {0, 1, 2}
         /\ o.failed = 0 => o.lines = bits /\ ~o.thrown
<1> DEFINE outcome(x, n, t) == [lines |-> x, failed |-> n, thrown |-> t]
<1>1. \/ o \in {outcome(bits, 0, FALSE), outcome(bits, 1, FALSE),
                outcome(l, 1, TRUE), outcome(l, 2, TRUE), outcome(l, 1, FALSE)}
      \/ l = bits /\ o = outcome(bits, 0, FALSE)
  <2>1. 0 + 1 = 1 /\ 1 + 1 = 2
    OBVIOUS
  <2>2. CASE l = bits
    BY <2>1, <2>2 DEF SetTDCBits
  <2>3. CASE l # bits
    BY <2>1, <2>3 DEF SetTDCBits
  <2>4. QED
    BY <2>2, <2>3
<1>2. QED
  BY <1>1

LEMMA PulseStep ==
  ASSUME failures \in Nat, NEW bits, PulseTDCBits(bits)
  PROVE  Grows /\ (lines' # 0 => pulseFailed') /\ UNCHANGED <<reg, askedBits, scaler, triggers>>
<1>1. PICK up \in SetTDCBits(lines, bits) :
        \E down \in IF up.thrown THEN {[up EXCEPT !.failed = 0]} ELSE SetTDCBits(up.lines, 0) :
          /\ Accesses(up.failed + down.failed)
          /\ lines' = down.lines
          /\ pulseFailed' = (up.failed + down.failed > 0)
          /\ UNCHANGED <<reg, askedBits, scaler, triggers>>
  BY DEF PulseTDCBits
<1>2. PICK down \in IF up.thrown THEN {[up EXCEPT !.failed = 0]} ELSE SetTDCBits(up.lines, 0) :
          /\ Accesses(up.failed + down.failed)
          /\ lines' = down.lines
          /\ pulseFailed' = (up.failed + down.failed > 0)
          /\ UNCHANGED <<reg, askedBits, scaler, triggers>>
  BY <1>1
<1>3. up.failed \in {0, 1, 2} /\ (up.failed = 0 => ~up.thrown)
  BY LinesOutcomes
<1>4. CASE up.thrown
  <2>1. up.failed > 0 /\ down = [up EXCEPT !.failed = 0]
    BY <1>2, <1>3, <1>4
  <2>2. down.failed = 0
    BY <2>1, <1>4, <1>1 DEF SetTDCBits
  <2>3. up.failed + down.failed \in Nat /\ up.failed + down.failed > 0
    BY <1>3, <2>1, <2>2
  <2>4. pulseFailed'
    BY <1>2, <2>3
  <2>5. QED
    BY <1>2, <2>3, <2>4, FailuresGrow
<1>5. CASE ~up.thrown
  <2>1. down \in SetTDCBits(up.lines, 0)
    BY <1>2, <1>5
  <2>2. down.failed \in {0, 1, 2} /\ (down.failed = 0 => down.lines = 0)
    BY <2>1, LinesOutcomes
  <2>3. up.failed + down.failed \in Nat
    BY <1>3, <2>2
  <2>4. lines' # 0 => up.failed + down.failed > 0
    BY <1>2, <1>3, <2>2
  <2>5. lines' # 0 => pulseFailed'
    BY <1>2, <2>4
  <2>6. QED
    BY <1>2, <2>3, <2>5, FailuresGrow
<1>6. QED
  BY <1>4, <1>5

LEMMA StepBeforeBursts ==
  ASSUME BoardsInv, NewFPGA \/ ConfigureFPGA
  PROVE  BoardsInv'
<1>1. /\ pc[1] = "fpga" /\ pc'[1] \in {"fpga", "tdc", "start"}
      /\ UNCHANGED <<hvVars, mainVars>>
  BY DEF NewFPGA, ConfigureFPGA, OnFPGA, Next1, Doing, Goto
<1>2. /\ ~InBursts /\ ~InBursts' /\ HVInv'
      /\ numTriggers' = 0 /\ marks' = 0
  BY <1>1, HVUnchanged DEF InBursts, BoardsInv, MarksInv, mainVars
<1>3. MarksInv' /\ LinesInv'
  BY <1>1, <1>2 DEF MarksInv, LinesInv, InBursts
<1>4. ControlInv' /\ Grows /\ UNCHANGED <<scaler, triggers>>
  <2>1. CASE StopScaler
    BY <2>1, StopScalerStep DEF StopScaler
  <2>2. CASE SetControl(ControlOf)
    BY <2>2, SetControlStep, WorksFails DEF SetControl, BoardsInv, CountersInv, Grows
  <2>3. CASE Accessed \/ Throws
    <3>1. (Works \/ Fails) /\ UNCHANGED fpgaVars
      BY <2>3 DEF Accessed, Throws
    <3>2. Grows
      BY <3>1, WorksFails DEF BoardsInv, CountersInv, Grows
    <3>3. ControlInv'
      BY <3>1, <3>2 DEF BoardsInv, CountersInv, ControlInv, ControlAsAsked, Grows, fpgaVars, Bits
    <3>4. QED
      BY <3>1, <3>2, <3>3 DEF fpgaVars
  <2>4. QED
    BY <2>1, <2>2, <2>3 DEF NewFPGA, ConfigureFPGA, OnFPGA
<1>5. QED
  BY <1>2, <1>3, <1>4 DEF BoardsInv, CountersInv, Grows

LEMMA StepOfStart ==
  ASSUME BoardsInv, StartAcquisition, ~AskModes("start")
  PROVE  BoardsInv'
<1>1. /\ pc[1] = "start" /\ pc'[1] = "burst"
      /\ UNCHANGED <<hvVars, mainVars>>
      /\ IF setup.fpga THEN StartScaler ELSE Works /\ UNCHANGED fpgaVars
  BY DEF StartAcquisition, OnFPGA, OnNone, Next1, Doing, Goto
<1>2. /\ ~InBursts /\ InBursts' /\ HVInv' /\ UNCHANGED setup
      /\ numTriggers' = 0 /\ marks' = 0
  BY <1>1, HVUnchanged DEF InBursts, BoardsInv, MarksInv, mainVars
<1>3. LinesInv'
  BY <1>1 DEF LinesInv
<1>4. CASE setup.fpga
  <2>1. StartScaler
    BY <1>1, <1>4
  <2>2. ControlInv' /\ Grows /\ scaler' \in Nat /\ triggers' = 0 /\ (scaler' # 0 => failures' > 0)
    BY <2>1, StartScalerStep
  <2>3. Paid(triggers', scaler', numTriggers', marks', failures')
    BY <1>2, <2>2 DEF Paid
  <2>4. QED
    BY <1>2, <1>3, <2>2, <2>3 DEF BoardsInv, CountersInv, MarksInv, Grows
<1>5. CASE ~setup.fpga
  <2>1. failures' = failures /\ UNCHANGED fpgaVars
    BY <1>1, <1>5, WorksFails DEF BoardsInv, CountersInv
  <2>2. ControlInv'
    BY <2>1 DEF BoardsInv, ControlInv, ControlAsAsked, fpgaVars, Bits
  <2>3. QED
    BY <1>2, <1>3, <1>5, <2>1, <2>2 DEF BoardsInv, CountersInv, MarksInv, fpgaVars
<1>6. QED
  BY <1>4, <1>5

LEMMA StepOfPulse ==
  ASSUME BoardsInv, Pulse
  PROVE  BoardsInv'
<1>1. /\ pc[1] = "burst" /\ pc'[1] = "loop"
      /\ UNCHANGED <<hvVars, mainVars>>
      /\ IF setup.fpga THEN PulseTDCBits(kReset + kClear) ELSE Works /\ UNCHANGED fpgaVars
  BY DEF Pulse, OnFPGA, OnNone, Doing, Goto
<1>2. HVInv' /\ InBursts /\ InBursts' /\ UNCHANGED <<setup, numTriggers, marks>>
  BY <1>1, HVUnchanged DEF BoardsInv, InBursts, mainVars
<1>3. /\ Grows /\ UNCHANGED <<reg, askedBits, scaler, triggers>>
      /\ setup.fpga => (lines' # 0 => pulseFailed')
  <2>1. CASE setup.fpga
    BY <1>1, <2>1, PulseStep DEF BoardsInv, CountersInv
  <2>2. CASE ~setup.fpga
    BY <1>1, <2>2, WorksFails DEF BoardsInv, CountersInv, Grows, fpgaVars
  <2>3. QED
    BY <2>1, <2>2
<1>4. LinesInv'
  BY <1>2, <1>3 DEF LinesInv
<1>5. ControlInv'
  BY <1>3 DEF BoardsInv, CountersInv, ControlInv, ControlAsAsked, Grows, Bits
<1>6. MarksInv'
  <2>1. Paid(triggers, scaler, numTriggers, marks, failures)
          => Paid(triggers, scaler, numTriggers, marks, failures')
    BY <1>3, PaidSteps, SMTT(40) DEF BoardsInv, CountersInv, Grows
  <2>2. QED
    BY <1>2, <1>3, <2>1 DEF BoardsInv, MarksInv
<1>7. QED
  BY <1>2, <1>3, <1>4, <1>5, <1>6 DEF BoardsInv, CountersInv, Grows

(* Both reads of the scaler, with or without a mark.                       *)
LEMMA StepOfScaler ==
  ASSUME BoardsInv, MarkTriggers \/ Probe
  PROVE  BoardsInv'
<1>1. /\ pc[1] = "loop" /\ pc'[1] \in {"loop", "probe"} /\ setup.fpga
      /\ UNCHANGED <<hvVars, fpgaVars, setup>>
  BY DEF MarkTriggers, Probe, OnFPGA, OnNone, GetScalerValue, Doing, Goto
<1>2. HVInv' /\ InBursts /\ InBursts'
  BY <1>1, HVUnchanged DEF BoardsInv, InBursts
<1>3. CASE UNCHANGED <<numTriggers, marks>> /\ failures' = failures
  <2>1. Quiet
    BY <1>1, <1>3 DEF Quiet, Grows, BoardsInv, CountersInv
  <2>2. QED
    BY <1>1, <1>2, <2>1, QuietSteps
<1>4. CASE \E value \in {scaler, 0} :
             /\ GetScalerValue(value)
             /\ numTriggers' = value
             /\ marks' = marks \/ marks' = IF value # numTriggers THEN marks + 1 ELSE marks
  <2>1. PICK value \in {scaler, 0} :
             /\ GetScalerValue(value)
             /\ numTriggers' = value
             /\ marks' = marks \/ marks' = IF value # numTriggers THEN marks + 1 ELSE marks
    BY <1>4
  <2>2. /\ failures' \in Nat
        /\ (failures' = failures /\ value = scaler) \/ (failures' = failures + 1 /\ value = 0)
    BY <2>1, WorksFails DEF GetScalerValue, BoardsInv, CountersInv
  <2>3. Grows
    BY <2>2 DEF Grows, BoardsInv, CountersInv
  <2>4. Paid(triggers, scaler, numTriggers, marks, failures)
    BY <1>1, <1>2 DEF BoardsInv, MarksInv
  <2>5. Paid(triggers, scaler, value, marks', failures')
    <3>1. CASE failures' = failures /\ value = scaler
      BY <2>1, <2>4, <3>1, PaidSteps, SMTT(40) DEF BoardsInv, CountersInv
    <3>2. CASE failures' = failures + 1 /\ value = 0
      <4>1. failures <= failures' /\ failures < failures' /\ failures' \in Nat
        BY <3>2 DEF BoardsInv, CountersInv
      <4>2. /\ Paid(triggers, scaler, 0, marks, failures')
            /\ Paid(triggers, scaler, 0, IF 0 # numTriggers THEN marks + 1 ELSE marks, failures')
        BY <2>4, <4>1, PaidSteps, SMTT(40) DEF BoardsInv, CountersInv
      <4>3. QED
        BY <2>1, <3>2, <4>2
    <3>3. QED
      BY <2>2, <3>1, <3>2
  <2>6. ControlInv' /\ LinesInv'
    BY <1>1, <2>3 DEF BoardsInv, CountersInv, ControlInv, ControlAsAsked, LinesInv, Grows, Bits, fpgaVars
  <2>7. CountersInv'
    BY <1>1, <2>1, <2>3 DEF BoardsInv, CountersInv, Grows, fpgaVars
  <2>8. MarksInv'
    BY <1>1, <1>2, <2>1, <2>5 DEF MarksInv, fpgaVars
  <2>9. QED
    BY <1>2, <2>6, <2>7, <2>8 DEF BoardsInv
<1>5. QED
  BY <1>3, <1>4, WorksFails DEF MarkTriggers, Probe, OnFPGA, OnNone, BoardsInv, CountersInv

LEMMA StepOfTrigger ==
  ASSUME BoardsInv, Trigger, UNCHANGED <<hvVars, mainVars, pc>>
  PROVE  BoardsInv'
<1>1. /\ scaler' = scaler + 1 /\ triggers' = triggers + 1
      /\ UNCHANGED <<failures, reg, askedBits, lines, pulseFailed, setup, numTriggers, marks, pc>>
  BY DEF Trigger, busVars, mainVars
<1>2. CountersInv' /\ ControlInv' /\ LinesInv' /\ HVInv'
  BY <1>1, HVUnchanged DEF BoardsInv, CountersInv, ControlInv, ControlAsAsked, LinesInv, Bits
<1>3. Paid(triggers, scaler, numTriggers, marks, failures)
        => Paid(triggers + 1, scaler + 1, numTriggers, marks, failures)
  BY PaidSteps, SMTT(40) DEF BoardsInv, CountersInv
<1>4. MarksInv'
  BY <1>1, <1>3 DEF BoardsInv, MarksInv, InBursts
<1>5. QED
  BY <1>2, <1>4 DEF BoardsInv
-----------------------------------------------------------------------------
LEMMA BoardsInit == Init => BoardsInv
<1> SUFFICES ASSUME Init PROVE BoardsInv
  OBVIOUS
<1>1. CountersInv
  BY DEF Init, BusInit, FPGAInit, CountersInv
<1>2. reg \in 0 .. WordSize - 1 /\ askedBits = BitsOf(reg)
  BY SetupsAssumption DEF Init, FPGAInit
<1>3. askedBits \in Bits
  <2>1. \A b \in ControlBits : GetBit(reg, b) \in {0, 1}
    BY <1>2, WordAssumption DEF GetBit, ControlBits
  <2>2. QED
    BY <1>2, <2>1 DEF BitsOf, Bits
<1>4. ControlInv
  BY <1>2, <1>3 DEF ControlInv, ControlAsAsked, BitsOf
<1>5. LinesInv /\ MarksInv
  BY DEF Init, LinesInv, MarksInv, InBursts
<1>6. HVInv
  <2>1. <<>> \in Seq({})
    OBVIOUS
  <2>2. QED
    BY <2>1 DEF Init, HVInit, HVInv, HVRecorded
<1>7. QED
  BY <1>1, <1>4, <1>5, <1>6 DEF BoardsInv

LEMMA BoardsNext == BoardsInv /\ [Next]_vars => BoardsInv'
<1> SUFFICES ASSUME BoardsInv, [Next]_vars PROVE BoardsInv'
  OBVIOUS
<1>1. CASE Configure
  BY <1>1, StepOfHV, StepBeforeBursts, StepOfTDC DEF Configure
<1>2. CASE Acquire
  BY <1>2, StepOfHV, StepOfTDC, StepOfMain, StepOfStart, StepOfPulse, StepOfScaler DEF Acquire
<1>3. CASE process = "running" /\ Trigger /\ UNCHANGED <<tdcVars, hvVars, mainVars, pc>>
  BY <1>3, StepOfTrigger
<1>4. CASE UNCHANGED vars
  BY <1>4, StepOfMain
<1>5. QED
  BY <1>1, <1>2, <1>3, <1>4 DEF Next

LEMMA BoardsInvariant == Spec => []BoardsInv
BY BoardsInit, BoardsNext, PTL DEF Spec
-----------------------------------------------------------------------------
(* The control word of the FPGA has the bits that were asked for, whatever *)
(* word was left in it and whatever the width of words and signs, but for  *)
(* those of the scaler after a failure (FPGAUnitV1495Control::SetBit(),    *)
(* StopScaler(), StartScaler()).                                           *)
THEOREM ControlCorrect == Spec => []ControlAsAsked
<1>1. BoardsInv => ControlAsAsked
  BY DEF BoardsInv, ControlInv
<1>2. QED
  BY <1>1, BoardsInvariant, PTL

(* While the TDCs are read their reset is released, whatever the lines     *)
(* were before, unless an access of the last pulse failed                  *)
(* (FPGAUnitV1495::PulseTDCBits()).                                        *)
THEOREM ResetCorrect == Spec => []ResetReleased
<1>1. BoardsInv => ResetReleased
  BY DEF BoardsInv, LinesInv, ResetReleased
<1>2. QED
  BY <1>1, BoardsInvariant, PTL

(* There are at most as many marks in the files as triggers, and two more  *)
(* for each access that failed, for any number of failures and triggers    *)
(* (the readout loop of fetch_vme.cpp and GetScalerValue()).               *)
THEOREM MarksCorrect == Spec => []MarksBounded
<1>1. BoardsInv => MarksBounded
  <2> SUFFICES ASSUME BoardsInv PROVE MarksBounded
    OBVIOUS
  <2>1. CASE InBursts /\ setup.fpga
    BY <2>1, PaidSteps DEF BoardsInv, CountersInv, MarksInv, MarksBounded
  <2>2. CASE ~(InBursts /\ setup.fpga)
    BY <2>2 DEF BoardsInv, CountersInv, MarksInv, MarksBounded
  <2>3. QED
    BY <2>1, <2>2
<1>2. QED
  BY <1>1, BoardsInvariant, PTL

(* Values recorded for a channel of the high voltages were read from it,   *)
(* whatever failed requests left in the buffer of the controller           *)
(* (HVModuleN470::ReadRegister(), CAENETControllerV288).                   *)
THEOREM HVCorrect == Spec => []HVRecorded
<1>1. BoardsInv => HVRecorded
  BY DEF BoardsInv, HVInv
<1>2. QED
  BY <1>1, BoardsInvariant, PTL
-----------------------------------------------------------------------------
(* The TDC is known to hold what it was asked for, but for Due and 3 for   *)
(* each failure, from its reset on.                                        *)
BeforeReset(p) == p[1] \in {"hv", "fpga"} \/ (p[1] = "tdc" /\ p[2] \in {1, 2})

DamageInv ==
  process = "running" =>
    IF BeforeReset(pc) THEN asked = micro.setting
    ELSE Within(micro, asked, pc, failures)

Calling ==
  /\ ~BeforeReset(pc) /\ ~BeforeReset(pc')
  /\ \E n \in {0, 1, 2} : TDCStep(n) /\ Pace(n, pc, pc')
Resetting == SoftwareReset /\ pc = <<"tdc", 2>> /\ pc' = <<"tdc", 3>>
Aside ==
  /\ BusStep /\ TDCInv' /\ UNCHANGED <<micro, asked>>
  /\ \/ BeforeReset(pc) /\ BeforeReset(pc')
     \/ pc' = pc
     \/ ~BeforeReset(pc) /\ ~BeforeReset(pc') /\ ~OneWord(pc) /\ ~OneWord(pc')
     \/ BeforeReset(pc) /\ pc' = <<"start", 1>> /\ failures' > failures

LEMMA DamageSteps ==
  ASSUME BusInv, TDCInv, process = "running", DamageInv, Calling \/ Resetting \/ Aside
  PROVE  BusStep /\ TDCInv' /\ DamageInv'
<1>0. failures \in Nat /\ MicroInv(micro)
  BY FailuresAssumption DEF BusInv, TDCInv
<1>1. CASE Calling
  <2>1. PICK n \in {0, 1, 2} : TDCStep(n) /\ Pace(n, pc, pc')
    BY <1>1 DEF Calling
  <2>2. BusStep /\ TDCInv' /\ MicroInv(micro')
    BY <2>1 DEF TDCStep, TDCInv
  <2>3. Within(micro, asked, pc, failures)
    BY <1>1 DEF Calling, DamageInv
  <2>4. process' = "running" => Within(micro', asked', pc', failures')
    <3> SUFFICES ASSUME process' = "running" PROVE Within(micro', asked', pc', failures')
      OBVIOUS
    <3>1. PICK failed \in {0, 1} : failures' = failures + failed /\ Spent(n, failed, micro, asked, micro', asked')
      BY <2>1 DEF TDCStep, SpentBy
    <3>2. Within(micro', asked', pc', failures + failed)
      BY <1>0, <2>1, <2>2, <2>3, <3>1, WithinStep
    <3>. QED
      BY <3>1, <3>2
  <2>. QED
    BY <1>1, <2>2, <2>4 DEF Calling, DamageInv
<1>2. CASE Resetting
  <2>1. BeforeReset(pc) /\ ~BeforeReset(pc') /\ TwoInARow(pc')
    BY <1>2 DEF Resetting, BeforeReset, TwoInARow
  <2>2. SoftwareReset /\ asked = micro.setting
    BY <1>2, <2>1 DEF Resetting, DamageInv
  <2>3. /\ BusStep /\ TDCInv'
        /\ \/ micro' = Fresh /\ asked' = Defaults
           \/ UNCHANGED <<micro, asked>> /\ failures' > 0
    BY <2>2, SoftwareResetStep
  <2>4. failures' \in Nat
    BY <2>3, FailuresAssumption DEF BusStep
  <2>5. Within(micro', asked', pc', failures')
    <3>1. CASE micro' = Fresh /\ asked' = Defaults
      BY <2>4, <3>1, WithinFresh
    <3>2. CASE UNCHANGED <<micro, asked>> /\ failures' > 0
      <4>1. Within(micro, micro.setting, pc', failures')
        BY <1>0, <2>1, <2>4, <3>2, WithinFirst
      <4>. QED
        BY <2>2, <3>2, <4>1
    <3>. QED
      BY <2>3, <3>1, <3>2
  <2>. QED
    BY <2>1, <2>3, <2>5 DEF DamageInv
<1>3. CASE Aside
  <2>1. BusStep /\ TDCInv' /\ UNCHANGED <<micro, asked>> /\ failures' \in Nat /\ failures <= failures'
    BY <1>0, <1>3, FailuresAssumption DEF Aside, BusStep
  <2>2. CASE pc' = pc \/ (~BeforeReset(pc) /\ ~BeforeReset(pc') /\ ~OneWord(pc) /\ ~OneWord(pc'))
    <3>1. CASE ~BeforeReset(pc)
      <4>1. Within(micro, asked, pc, failures)
        BY <3>1 DEF DamageInv
      <4>2. Within(micro, asked, pc', failures')
        BY <1>0, <2>1, <2>2, <4>1, WithinKept
      <4>3. ~BeforeReset(pc')
        BY <2>2, <3>1
      <4>. QED
        BY <2>1, <4>2, <4>3 DEF DamageInv
    <3>2. CASE BeforeReset(pc)
      BY <2>1, <2>2, <3>2 DEF DamageInv
    <3>. QED
      BY <3>1, <3>2
  <2>3. CASE BeforeReset(pc) /\ BeforeReset(pc')
    BY <2>1, <2>3 DEF DamageInv
  <2>4. CASE BeforeReset(pc) /\ pc' = <<"start", 1>> /\ failures' > failures
    <3>1. asked = micro.setting
      BY <2>4 DEF DamageInv
    <3>2. ~BeforeReset(pc') /\ ~OneWord(pc')
      BY <2>4 DEF BeforeReset, OneWord
    <3>3. failures' > 0
      BY <1>0, <2>1, <2>4
    <3>4. Within(micro, micro.setting, pc', failures')
      BY <1>0, <2>1, <3>2, <3>3, WithinFirst
    <3>. QED
      BY <2>1, <3>1, <3>2, <3>4 DEF DamageInv
  <2>. QED
    BY <1>3, <2>2, <2>3, <2>4 DEF Aside
<1>. QED
  BY <1>1, <1>2, <1>3
-----------------------------------------------------------------------------
(* Where the calls are.                                                    *)
LEMMA Paces ==
  /\ \A i \in {3, 4, 7, 9, 10} : Pace(0, <<"tdc", i>>, <<"tdc", i + 1>>)
  /\ \A i \in {5, 6} : Pace(1, <<"tdc", i>>, <<"tdc", i + 1>>)
  /\ \A i \in {8, 12} : Pace(2, <<"tdc", i>>, <<"tdc", i + 1>>)
  /\ Pace(1, <<"tdc", 13>>, <<"xml", 1>>)
  /\ Pace(0, <<"xml", 1>>, <<"xml", 2>>)
  /\ \A i \in {2, 3, 6, 7, 8, 9} : Pace(1, <<"xml", i>>, <<"xml", i + 1>>)
  /\ Pace(2, <<"xml", 4>>, <<"xml", 5>>)
  /\ \A part \in {"start", "burst"}, i \in {1, 2} : Pace(1, <<part, i>>, <<part, i + 1>>)
BY DEF Pace, OneWord, TwoInARow

LEMMA AfterReset ==
  /\ \A i \in 3 .. 14 : ~BeforeReset(<<"tdc", i>>)
  /\ \A part \in {"xml", "start", "burst", "loop", "probe"} : \A i : ~BeforeReset(<<part, i>>)
  /\ \A part \in {"hv", "fpga"} : \A i : BeforeReset(<<part, i>>)
  /\ BeforeReset(<<"tdc", 1>>) /\ BeforeReset(<<"tdc", 2>>)
BY DEF BeforeReset

LEMMA NoWord ==
  /\ ~OneWord(<<"tdc", 11>>) /\ ~OneWord(<<"tdc", 12>>)
  /\ ~OneWord(<<"xml", 5>>) /\ ~OneWord(<<"xml", 6>>) /\ ~OneWord(<<"xml", 10>>)
  /\ \A part \in {"start", "burst", "loop", "probe"} : \A i : ~OneWord(<<part, i>>)
BY DEF OneWord

LEMMA NewTDCKind ==
  ASSUME BusInv, TDCInv, NewTDC
  PROVE  Calling \/ Resetting \/ Aside
<1>1. CASE Next1("tdc", 1) /\ CheckConfiguration
  <2>1. pc = <<"tdc", 1>> /\ pc' = <<"tdc", 2>>
    BY <1>1 DEF Next1, Doing, Goto
  <2>2. BusStep /\ TDCInv' /\ UNCHANGED <<micro, asked>>
    BY <1>1, CheckConfigurationStep DEF tdcVars
  <2>. QED
    BY <2>1, <2>2, AfterReset DEF Aside
<1>2. CASE Next1("tdc", 2) /\ SoftwareReset
  BY <1>2 DEF Next1, Doing, Goto, Resetting
<1>3. CASE Next1("tdc", 11) /\ SetETTT
  <2>1. pc = <<"tdc", 11>> /\ pc' = <<"tdc", 12>>
    BY <1>3 DEF Next1, Doing, Goto
  <2>2. BusStep /\ TDCInv' /\ UNCHANGED <<micro, asked>>
    BY <1>3, SetETTTStep
  <2>. QED
    BY <2>1, <2>2, AfterReset, NoWord DEF Aside
<1>4. ASSUME NEW i \in {3, 4, 7, 9, 10}, Next1("tdc", i), TDCStep(0) PROVE Calling
  <2>1. pc = <<"tdc", i>> /\ pc' = <<"tdc", i + 1>>
    BY <1>4 DEF Next1, Doing, Goto
  <2>. QED
    BY <1>4, <2>1, AfterReset, Paces, SMTT(40) DEF Calling
<1>5. ASSUME NEW i \in {5, 6}, Next1("tdc", i), TDCStep(1) PROVE Calling
  <2>1. pc = <<"tdc", i>> /\ pc' = <<"tdc", i + 1>>
    BY <1>5 DEF Next1, Doing, Goto
  <2>. QED
    BY <1>5, <2>1, AfterReset, Paces, SMTT(40) DEF Calling
<1>6. ASSUME NEW i \in {8, 12}, Next1("tdc", i), TDCStep(2) PROVE Calling
  <2>1. pc = <<"tdc", i>> /\ pc' = <<"tdc", i + 1>>
    BY <1>6 DEF Next1, Doing, Goto
  <2>. QED
    BY <1>6, <2>1, AfterReset, Paces, SMTT(40) DEF Calling
<1>7. ASSUME Doing("tdc", 13), Goto("xml", 1), TDCStep(1) PROVE Calling
  BY <1>7, AfterReset, Paces DEF Calling, Doing, Goto
<1>8. Plain(r25ps) /\ Plain(0) /\ Plain(AllChannels)
  BY PlainWords DEF r25ps
<1>9. fAcquisitionMode \in {CONT_STORAGE, TRIG_MATCH} /\ fDetectionMode \in 0 .. 3
  BY DEF TDCInv, ModesInv
<1>10. \/ Next1("tdc", 1) /\ CheckConfiguration
       \/ Next1("tdc", 2) /\ SoftwareReset
       \/ Next1("tdc", 3) /\ EnableAllChannels
       \/ Next1("tdc", 4) /\ SetAcquisitionMode(fAcquisitionMode)
       \/ Next1("tdc", 5) /\ SetDetectionMode(fDetectionMode)
       \/ Next1("tdc", 6) /\ SetLSBTraileadEdge(r25ps)
       \/ Next1("tdc", 7) /\ SetTriggerTimeSubtraction
       \/ Next1("tdc", 8) /\ SetGlobalOffset(0, 0)
       \/ Next1("tdc", 9) /\ SetTDCEncapsulation
       \/ Next1("tdc", 10) /\ SetErrorMarks
       \/ Next1("tdc", 11) /\ SetETTT
       \/ Next1("tdc", 12) /\ SetPoI(AllChannels, AllChannels)
       \/ Doing("tdc", 13) /\ Goto("xml", 1) /\ GetTriggerConfiguration
  BY DEF NewTDC, OnTDC
<1>11. /\ EnableAllChannels \/ SetTriggerTimeSubtraction \/ SetTDCEncapsulation \/ SetErrorMarks => TDCStep(0)
       /\ SetAcquisitionMode(fAcquisitionMode) => TDCStep(0)
       /\ SetDetectionMode(fDetectionMode) => TDCStep(1)
       /\ SetLSBTraileadEdge(r25ps) => TDCStep(1)
       /\ SetGlobalOffset(0, 0) \/ SetPoI(AllChannels, AllChannels) => TDCStep(2)
       /\ GetTriggerConfiguration => TDCStep(1)
  BY <1>8, <1>9, PlainCalls, SetAcquisitionModeStep, SetDetectionModeStep, GetTriggerConfigurationStep
<1>. QED
  BY <1>1, <1>2, <1>3, <1>4, <1>5, <1>6, <1>7, <1>10, <1>11

LEMMA ConfigureTDCKind ==
  ASSUME BusInv, TDCInv, ConfigureTDC
  PROVE  Calling \/ Aside
<1>1. CASE Next1("xml", 5) /\ SetETTT
  <2>1. pc = <<"xml", 5>> /\ pc' = <<"xml", 6>>
    BY <1>1 DEF Next1, Doing, Goto
  <2>2. BusStep /\ TDCInv' /\ UNCHANGED <<micro, asked>>
    BY <1>1, SetETTTStep
  <2>. QED
    BY <2>1, <2>2, AfterReset, NoWord DEF Aside
<1>2. CASE Doing("xml", 10) /\ Goto("start", 1) /\ OnNone
  <2>1. pc = <<"xml", 10>> /\ pc' = <<"start", 1>>
    BY <1>2 DEF Doing, Goto
  <2>2. UNCHANGED tdcVars /\ BusStep
    BY <1>2, WorksOrFails DEF OnNone
  <2>3. TDCInv' /\ UNCHANGED <<micro, asked>>
    BY <2>2 DEF TDCInv, ModesInv, tdcVars
  <2>. QED
    BY <2>1, <2>2, <2>3, AfterReset, NoWord DEF Aside
<1>3. ASSUME Next1("xml", 1), TDCStep(0) PROVE Calling
  <2>1. pc = <<"xml", 1>> /\ pc' = <<"xml", 2>>
    BY <1>3 DEF Next1, Doing, Goto
  <2>. QED
    BY <1>3, <2>1, AfterReset, Paces DEF Calling
<1>4. ASSUME NEW i \in {2, 3, 6, 7, 8, 9}, Next1("xml", i), TDCStep(1) PROVE Calling
  <2>1. pc = <<"xml", i>> /\ pc' = <<"xml", i + 1>>
    BY <1>4 DEF Next1, Doing, Goto
  <2>. QED
    BY <1>4, <2>1, AfterReset, Paces DEF Calling
<1>5. ASSUME Next1("xml", 4), TDCStep(2) PROVE Calling
  <2>1. pc = <<"xml", 4>> /\ pc' = <<"xml", 5>>
    BY <1>5 DEF Next1, Doing, Goto
  <2>. QED
    BY <1>5, <2>1, AfterReset, Paces DEF Calling
<1>6. Plain(0) /\ Plain(3) /\ Plain(400) /\ Plain(65136)
  BY PlainWords
<1>7. AcquisitionMode \in {CONT_STORAGE, TRIG_MATCH} /\ TRAILEAD \in 0 .. 3
  BY DEF AcquisitionMode, TRAILEAD
<1>8. \/ Next1("xml", 1) /\ SetAcquisitionMode(AcquisitionMode)
      \/ Next1("xml", 2) /\ SetDetectionMode(TRAILEAD)
      \/ Next1("xml", 3) /\ SetDLLClock(3)
      \/ Next1("xml", 4) /\ SetPoI(3, 0)
      \/ Next1("xml", 5) /\ SetETTT
      \/ Next1("xml", 6) /\ SetWindowWidth(400)
      \/ Next1("xml", 7) /\ SetWindowOffset(65136)
      \/ Next1("xml", 8) /\ GetAcquisitionMode
      \/ Next1("xml", 9) /\ GetDetectionMode
      \/ Doing("xml", 10) /\ Goto("start", 1) /\ OnNone
  BY DEF ConfigureTDC, OnTDC
<1>9. /\ SetAcquisitionMode(AcquisitionMode) => TDCStep(0)
      /\ SetDetectionMode(TRAILEAD) => TDCStep(1)
      /\ SetDLLClock(3) \/ SetWindowWidth(400) \/ SetWindowOffset(65136) => TDCStep(1)
      /\ SetPoI(3, 0) => TDCStep(2)
      /\ GetAcquisitionMode \/ GetDetectionMode => TDCStep(1)
  BY <1>6, <1>7, PlainCalls, SetAcquisitionModeStep, SetDetectionModeStep, GetAcquisitionModeStep,
     GetDetectionModeStep
<1>. QED
  BY <1>1, <1>2, <1>3, <1>4, <1>5, <1>8, <1>9

LEMMA AskModesKind ==
  ASSUME BusInv, TDCInv, NEW part \in {"start", "burst"}, AskModes(part)
  PROVE  Calling \/ Aside
<1>1. ASSUME NEW i \in {1, 2}, Next1(part, i), TDCStep(1) PROVE Calling
  <2>1. pc = <<part, i>> /\ pc' = <<part, i + 1>>
    BY <1>1 DEF Next1, Doing, Goto
  <2>. QED
    BY <1>1, <2>1, AfterReset, Paces DEF Calling
<1>2. CASE Doing(part, 1) /\ Goto(part, 3) /\ OnNone
  <2>1. pc = <<part, 1>> /\ pc' = <<part, 3>>
    BY <1>2 DEF Doing, Goto
  <2>2. UNCHANGED tdcVars /\ BusStep
    BY <1>2, WorksOrFails DEF OnNone
  <2>3. TDCInv' /\ UNCHANGED <<micro, asked>>
    BY <2>2 DEF TDCInv, ModesInv, tdcVars
  <2>. QED
    BY <2>1, <2>2, <2>3, AfterReset, NoWord DEF Aside
<1>3. GetAcquisitionMode \/ GetDetectionMode => TDCStep(1)
  BY GetAcquisitionModeStep, GetDetectionModeStep
<1>. QED
  BY <1>1, <1>2, <1>3 DEF AskModes, OnTDC
-----------------------------------------------------------------------------
LEMMA Failing ==
  ASSUME BusInv, NEW state \in ProcessStates, Goes(state), Works \/ Fails
  PROVE  BusStep /\ (Fails => failures' > failures)
<1>1. 0 \in Nat /\ 1 \in Nat /\ failures \in Nat
  BY FailuresAssumption DEF BusInv
<1>2. CASE Accesses(0)
  <2>1. BusStep /\ failures' = failures + 0
    BY <1>1, <1>2, BusSteps
  <2>2. ~Fails
    BY <1>1, <2>1 DEF Fails, Accesses
  <2>. QED
    BY <2>1, <2>2
<1>3. CASE Accesses(1)
  <2>1. BusStep /\ failures' = failures + 1
    BY <1>1, <1>3, BusSteps
  <2>. QED
    BY <1>1, <2>1
<1>. QED
  BY <1>2, <1>3 DEF Works, Fails

LEMMA TDCAlone ==
  ASSUME TDCInv, UNCHANGED tdcVars
  PROVE  TDCInv' /\ UNCHANGED <<micro, asked>>
BY DEF TDCInv, ModesInv, tdcVars

LEMMA HVBus ==
  ASSUME BusInv
  PROVE  /\ \A opcode : ReadInfo(opcode) => BusStep
         /\ \A ch : ReadChannel(ch) => BusStep
<1>1. {"running", "crashed"} \subseteq ProcessStates
  BY DEF ProcessStates
<1>2. ASSUME NEW opcode, ReadInfo(opcode) PROVE BusStep
  <2>1. (Works \/ Fails) /\ Goes("running")
    BY <1>2 DEF ReadInfo, ReadRegister, Runs
  <2>. QED
    BY <1>1, <2>1, Failing
<1>3. ASSUME NEW ch, ReadChannel(ch) PROVE BusStep
  <2>1. (Works \/ Fails) /\ (Goes("running") \/ Goes("crashed"))
    BY <1>3 DEF ReadChannel, ReadRegister, Runs
  <2>. QED
    BY <1>1, <2>1, Failing
<1>. QED
  BY <1>2, <1>3

LEMMA PulseBus ==
  ASSUME BusInv, NEW bits, PulseTDCBits(bits)
  PROVE  BusStep
<1>1. PICK up \in SetTDCBits(lines, bits) :
        \E down \in IF up.thrown THEN {[up EXCEPT !.failed = 0]} ELSE SetTDCBits(up.lines, 0) :
          /\ Accesses(up.failed + down.failed)
          /\ Goes(IF down.thrown THEN "ended" ELSE "running")
  BY DEF PulseTDCBits
<1>2. PICK down \in IF up.thrown THEN {[up EXCEPT !.failed = 0]} ELSE SetTDCBits(up.lines, 0) :
          /\ Accesses(up.failed + down.failed)
          /\ Goes(IF down.thrown THEN "ended" ELSE "running")
  BY <1>1
<1>3. up.failed \in {0, 1, 2}
  BY LinesOutcomes
<1>4. down.failed \in {0, 1, 2}
  <2>1. CASE up.thrown
    <3>1. down = [up EXCEPT !.failed = 0]
      BY <1>2, <2>1
    <3>. QED
      BY <1>1, <3>1 DEF SetTDCBits
  <2>2. CASE ~up.thrown
    <3>1. down \in SetTDCBits(up.lines, 0)
      BY <1>2, <2>2
    <3>. QED
      BY <3>1, LinesOutcomes
  <2>. QED
    BY <2>1, <2>2
<1>5. PICK n \in Nat : Accesses(n)
  BY <1>2, <1>3, <1>4
<1>6. PICK state \in {"ended", "running"} : Goes(state)
  BY <1>2
<1>7. state \in ProcessStates
  BY DEF ProcessStates
<1>. QED
  BY <1>5, <1>6, <1>7, BusSteps

(* Steps of the other boards and of main().                                *)
LEMMA StartKind ==
  ASSUME BusInv, TDCInv, StartHV \/ NewFPGA \/ ConfigureFPGA
  PROVE  Aside
<1>1. CASE StartHV
  <2>1. UNCHANGED tdcVars /\ BusStep
    BY <1>1, HVBus DEF StartHV, OnHV
  <2>2. \/ \E i : pc = <<"hv", i>> /\ pc' = <<"hv", i + 1>>
        \/ pc = <<"hv", 4>> /\ pc' = <<"fpga", 1>>
        \/ pc = <<"hv", 4>> /\ pc' = <<"tdc", 1>>
    BY <1>1 DEF StartHV, Next1, Doing, Goto
  <2>3. BeforeReset(pc) /\ BeforeReset(pc')
    BY <2>2, AfterReset
  <2>. QED
    BY <2>1, <2>3, TDCAlone DEF Aside
<1>2. CASE NewFPGA
  <2>1. UNCHANGED tdcVars /\ \E i : pc = <<"fpga", i>> /\ pc' = <<"fpga", i + 1>>
    BY <1>2 DEF NewFPGA, OnFPGA, Next1, Doing, Goto
  <2>2. (Works \/ Fails) /\ (Goes("running") \/ Goes("crashed"))
    BY <1>2 DEF NewFPGA, OnFPGA, Accessed, Throws, StopScaler, Runs
  <2>3. BusStep
    <3>1. {"running", "crashed"} \subseteq ProcessStates
      BY DEF ProcessStates
    <3>. QED
      BY <2>2, <3>1, Failing
  <2>4. BeforeReset(pc) /\ BeforeReset(pc')
    BY <2>1, AfterReset
  <2>. QED
    BY <2>1, <2>3, <2>4, TDCAlone DEF Aside
<1>3. CASE ConfigureFPGA
  <2>1. UNCHANGED tdcVars
    BY <1>3 DEF ConfigureFPGA, OnFPGA
  <2>2. /\ (Works \/ Fails) /\ Goes("running")
        /\ \/ pc = <<"fpga", 5>> /\ pc' = <<"fpga", 6>>
           \/ pc = <<"fpga", 6>> /\ pc' = <<"tdc", 1>>
           \/ Fails /\ pc' = <<"start", 1>> /\ \E i : pc = <<"fpga", i>>
    BY <1>3 DEF ConfigureFPGA, OnFPGA, Next1, Doing, Goto, Accessed, Throws, SetControl, Runs
  <2>3. BusStep /\ (Fails => failures' > failures)
    <3>1. "running" \in ProcessStates
      BY DEF ProcessStates
    <3>. QED
      BY <2>2, <3>1, Failing
  <2>4. BeforeReset(pc) /\ (BeforeReset(pc') \/ (pc' = <<"start", 1>> /\ failures' > failures))
    BY <2>2, <2>3, AfterReset
  <2>. QED
    BY <2>1, <2>3, <2>4, TDCAlone DEF Aside
<1>. QED
  BY <1>1, <1>2, <1>3

LEMMA AcquireKind ==
  ASSUME BusInv, TDCInv,
         \/ StartAcquisition /\ ~AskModes("start")
         \/ NewBurst \/ WriteHeader \/ Pulse
         \/ MarkTriggers \/ Probe \/ BroadcastHVStatus \/ ChangeFiles
  PROVE  Aside
<1>1. UNCHANGED tdcVars
  BY DEF StartAcquisition, NewBurst, WriteHeader, Pulse, MarkTriggers, Probe, BroadcastHVStatus, ChangeFiles,
         OnNone, OnFPGA, OnHV
<1>2. pc[1] \in {"start", "burst", "loop", "probe"} /\ pc'[1] \in {"start", "burst", "loop", "probe"}
  BY DEF StartAcquisition, NewBurst, WriteHeader, Pulse, MarkTriggers, Probe, BroadcastHVStatus, ChangeFiles,
         Next1, Doing, Goto
<1>3. ~BeforeReset(pc) /\ ~BeforeReset(pc') /\ ~OneWord(pc) /\ ~OneWord(pc')
  BY <1>2 DEF BeforeReset, OneWord
<1>4. BusStep
  <2>1. CASE BroadcastHVStatus
    BY <2>1, HVBus DEF BroadcastHVStatus, OnHV
  <2>2. CASE Pulse /\ setup.fpga
    BY <2>2, PulseBus DEF Pulse, OnFPGA
  <2>3. CASE (StartAcquisition /\ ~AskModes("start")) \/ NewBurst \/ WriteHeader \/ ChangeFiles
             \/ (Pulse /\ ~setup.fpga) \/ MarkTriggers \/ Probe
    <3>1. (Works \/ Fails) /\ Goes("running")
      <4>1. StartAcquisition /\ ~AskModes("start") => (StartScaler \/ OnNone)
        BY DEF StartAcquisition, OnFPGA
      <4>2. NewBurst \/ WriteHeader \/ ChangeFiles \/ (Pulse /\ ~setup.fpga) => OnNone
        BY DEF NewBurst, WriteHeader, ChangeFiles, Pulse
      <4>3. MarkTriggers \/ Probe => OnNone \/ \E value : GetScalerValue(value) /\ Runs
        BY DEF MarkTriggers, Probe, OnFPGA
      <4>. QED
        BY <2>3, <4>1, <4>2, <4>3 DEF StartScaler, OnNone, GetScalerValue, Runs
    <3>2. "running" \in ProcessStates
      BY DEF ProcessStates
    <3>. QED
      BY <3>1, <3>2, Failing
  <2>. QED
    BY <2>1, <2>2, <2>3
<1>. QED
  BY <1>1, <1>3, <1>4, TDCAlone DEF Aside

(* Every step is of one of these kinds.                                    *)
LEMMA Kinds ==
  ASSUME BusInv, TDCInv, Next
  PROVE  process = "running" /\ (Calling \/ Resetting \/ Aside)
<1>1. process = "running"
  <2>1. CASE Configure
    BY <2>1 DEF Configure, StartHV, NewFPGA, ConfigureFPGA, NewTDC, ConfigureTDC, Next1, Doing
  <2>2. CASE Acquire
    BY <2>2 DEF Acquire, StartAcquisition, AskModes, NewBurst, WriteHeader, Pulse, MarkTriggers, Probe,
                BroadcastHVStatus, ChangeFiles, Next1, Doing
  <2>. QED
    BY <2>1, <2>2 DEF Next
<1>2. CASE Trigger /\ UNCHANGED <<tdcVars, hvVars, mainVars, pc>>
  <2>1. UNCHANGED busVars
    BY <1>2 DEF Trigger
  <2>2. BusStep
    BY <2>1, FailuresAssumption DEF BusStep, BusInv, busVars
  <2>. QED
    BY <1>1, <1>2, <2>2, TDCAlone DEF Aside
<1>3. CASE Configure
  BY <1>1, <1>3, StartKind, NewTDCKind, ConfigureTDCKind DEF Configure
<1>4. CASE Acquire
  BY <1>1, <1>4, AcquireKind, AskModesKind DEF Acquire, StartAcquisition
<1>. QED
  BY <1>2, <1>3, <1>4 DEF Next

BoardsTDCInv == BusInv /\ TDCInv /\ DamageInv

LEMMA TDCInvInit == Init => BoardsTDCInv
<1> SUFFICES ASSUME Init PROVE BoardsTDCInv
  OBVIOUS
<1>1. BusInv
  BY FailuresAssumption DEF Init, BusInit, BusInv, ProcessStates
<1>2. Left(micro) /\ asked = micro.setting
  BY SetupsAssumption DEF Init, TDCInit
<1>3. control \in Registers /\ ModesInv
  <2>1. control \in Registers /\ fAcquisitionMode = TRIG_MATCH /\ fDetectionMode = TRAILEAD
    BY DEF Init, TDCInit, Registers
  <2>. QED
    BY <2>1 DEF ModesInv, TRAILEAD
<1>4. TDCInv
  BY <1>2, <1>3, LeftOK DEF TDCInv, MicroInv
<1>5. BeforeReset(pc)
  BY AfterReset DEF Init
<1>. QED
  BY <1>1, <1>2, <1>4, <1>5 DEF BoardsTDCInv, DamageInv

LEMMA TDCInvNext == BoardsTDCInv /\ [Next]_vars => BoardsTDCInv'
<1> SUFFICES ASSUME BoardsTDCInv, [Next]_vars PROVE BoardsTDCInv'
  OBVIOUS
<1>1. CASE Next
  <2>1. BusStep /\ TDCInv' /\ DamageInv'
    BY <1>1, Kinds, DamageSteps DEF BoardsTDCInv
  <2>. QED
    BY <2>1 DEF BoardsTDCInv, BusStep, BusInv
<1>2. CASE UNCHANGED vars
  <2>1. UNCHANGED <<failures, process, pc>> /\ UNCHANGED tdcVars
    BY <1>2 DEF vars, busVars
  <2>2. TDCInv' /\ UNCHANGED <<micro, asked>>
    BY <2>1, TDCAlone DEF BoardsTDCInv
  <2>. QED
    BY <2>1, <2>2 DEF BoardsTDCInv, BusInv, DamageInv
<1>. QED
  BY <1>1, <1>2

LEMMA TDCInvariant == Spec => []BoardsTDCInv
BY TDCInvInit, TDCInvNext, PTL DEF Spec

(* When the settings are asked for, as the calls are numbered from the     *)
(* constructor of the TDC to the end of its configuration.                 *)
SetAt ==
  [resolution |-> 6, subtraction |-> 7, offset |-> 8, headers |-> 9, marks |-> 10,
   acquisition |-> 14, detection |-> 15, clock |-> 16, channels |-> 17, width |-> 19, window |-> 20]

Known(n) == \A s \in Settings : SetAt[s] < n => asked[s] = Configuration[s]
AskedInv ==
  /\ tdcs => asked = Configuration /\ pc[1] \in {"start", "burst", "loop", "probe"}
  /\ pc[1] = "tdc" => Known(pc[2])
  /\ pc[1] = "xml" => Known(13 + pc[2])

(* The call of that number asks for its setting and for none before it.    *)
Right(n) ==
  \A s \in Settings : /\ SetAt[s] < n => asked'[s] = asked[s]
                      /\ SetAt[s] = n => asked'[s] = Configuration[s]

LEMMA SettingNames ==
  Settings = {"resolution", "subtraction", "offset", "headers", "marks", "acquisition", "detection",
              "clock", "channels", "width", "window"}
<1>1. \A c \in DOMAIN Setters :
        Setters[c].setting \in {"resolution", "subtraction", "offset", "headers", "marks", "acquisition",
                               "detection", "clock", "channels", "width", "window"}
  BY Commands DEF Sets
<1>2. /\ Setters[0].setting = "acquisition" /\ Setters[34].setting = "detection"
      /\ Setters[36].setting = "resolution" /\ Setters[20].setting = "subtraction"
      /\ Setters[16].setting = "width" /\ Setters[17].setting = "window" /\ Setters[80].setting = "offset"
      /\ Setters[48].setting = "headers" /\ Setters[53].setting = "marks"
      /\ Setters[66].setting = "channels" /\ Setters[200].setting = "clock"
      /\ {0, 16, 17, 20, 34, 36, 48, 53, 66, 80, 200} \subseteq DOMAIN Setters
  BY Commands DEF Sets
<1>. QED
  BY <1>1, <1>2 DEF Settings

LEMMA SetAtOf ==
  ASSUME NEW s \in Settings
  PROVE  /\ SetAt[s] \in {6, 7, 8, 9, 10, 14, 15, 16, 17, 19, 20}
         /\ s = "resolution" <=> SetAt[s] = 6
         /\ s = "subtraction" <=> SetAt[s] = 7
         /\ s = "offset" <=> SetAt[s] = 8
         /\ s = "headers" <=> SetAt[s] = 9
         /\ s = "marks" <=> SetAt[s] = 10
         /\ s = "acquisition" <=> SetAt[s] = 14
         /\ s = "detection" <=> SetAt[s] = 15
         /\ s = "clock" <=> SetAt[s] = 16
         /\ s = "channels" <=> SetAt[s] = 17
         /\ s = "width" <=> SetAt[s] = 19
         /\ s = "window" <=> SetAt[s] = 20
BY SettingNames DEF SetAt

LEMMA ConfigurationOf ==
  /\ Configuration["resolution"] = <<r25ps>> /\ Configuration["subtraction"] = <<1>>
  /\ Configuration["offset"] = <<0, 0>> /\ Configuration["headers"] = <<1>>
  /\ Configuration["marks"] = <<1>> /\ Configuration["acquisition"] = <<AcquisitionMode>>
  /\ Configuration["detection"] = <<TRAILEAD>> /\ Configuration["clock"] = <<3>>
  /\ Configuration["channels"] = <<3, 0>> /\ Configuration["width"] = <<400>>
  /\ Configuration["window"] = <<65136>>
  /\ Configuration = [s \in Settings |-> Configuration[s]]
BY SettingNames DEF Configuration

(* A call that sets what it should, or that sets what is set again later.  *)
LEMMA RightCalls ==
  /\ SetsTo("resolution", <<r25ps>>) => Right(6)
  /\ SetsTo("subtraction", <<1>>) => Right(7)
  /\ SetsTo("offset", <<0, 0>>) => Right(8)
  /\ SetsTo("headers", <<1>>) => Right(9)
  /\ SetsTo("marks", <<1>>) => Right(10)
  /\ SetsTo("acquisition", <<AcquisitionMode>>) => Right(14)
  /\ SetsTo("detection", <<TRAILEAD>>) => Right(15)
  /\ SetsTo("clock", <<3>>) => Right(16)
  /\ SetsTo("channels", <<3, 0>>) => Right(17)
  /\ SetsTo("width", <<400>>) => Right(19)
  /\ SetsTo("window", <<65136>>) => Right(20)
  /\ \A v : SetsTo("channels", v) => Right(3) /\ Right(12)
  /\ \A v : SetsTo("acquisition", v) => Right(4)
  /\ \A v : SetsTo("detection", v) => Right(5)
  /\ UNCHANGED asked => \A n \in {1, 11, 13, 18, 21, 22} : Right(n)
  /\ Right(2)
<1>1. ASSUME NEW k, NEW v, NEW n \in Nat, SetsTo(k, v),
             \A s \in Settings : /\ SetAt[s] = n => s = k /\ v = Configuration[k]
                                 /\ s = k => SetAt[s] >= n
      PROVE  Right(n)
  <2>1. \A s \in Settings : SetAt[s] \in Nat
    BY SetAtOf
  <2> SUFFICES ASSUME NEW s \in Settings
               PROVE  /\ SetAt[s] < n => asked'[s] = asked[s]
                      /\ SetAt[s] = n => asked'[s] = Configuration[s]
    BY DEF Right
  <2>2. asked'[s] = IF s = k THEN v ELSE asked[s]
    BY <1>1 DEF SetsTo
  <2>3. CASE s = k
    <3>1. ~(SetAt[s] < n)
      BY <1>1, <2>1, <2>3
    <3>2. SetAt[s] = n => v = Configuration[s]
      BY <1>1, <2>3
    <3>. QED
      BY <2>2, <2>3, <3>1, <3>2
  <2>4. CASE s # k
    BY <1>1, <2>2, <2>4
  <2>. QED
    BY <2>3, <2>4
<1>2. SetsTo("resolution", <<r25ps>>) => Right(6)
  <2>1. \A s \in Settings : SetAt[s] = 6 <=> s = "resolution"
    BY SetAtOf
  <2>2. Configuration["resolution"] = <<r25ps>>
    BY ConfigurationOf
  <2>. QED
    BY <1>1, <2>1, <2>2
<1>3. SetsTo("subtraction", <<1>>) => Right(7)
  <2>1. \A s \in Settings : SetAt[s] = 7 <=> s = "subtraction"
    BY SetAtOf
  <2>2. Configuration["subtraction"] = <<1>>
    BY ConfigurationOf
  <2>. QED
    BY <1>1, <2>1, <2>2
<1>4. SetsTo("offset", <<0, 0>>) => Right(8)
  <2>1. \A s \in Settings : SetAt[s] = 8 <=> s = "offset"
    BY SetAtOf
  <2>2. Configuration["offset"] = <<0, 0>>
    BY ConfigurationOf
  <2>. QED
    BY <1>1, <2>1, <2>2
<1>5. SetsTo("headers", <<1>>) => Right(9)
  <2>1. \A s \in Settings : SetAt[s] = 9 <=> s = "headers"
    BY SetAtOf
  <2>2. Configuration["headers"] = <<1>>
    BY ConfigurationOf
  <2>. QED
    BY <1>1, <2>1, <2>2
<1>6. SetsTo("marks", <<1>>) => Right(10)
  <2>1. \A s \in Settings : SetAt[s] = 10 <=> s = "marks"
    BY SetAtOf
  <2>2. Configuration["marks"] = <<1>>
    BY ConfigurationOf
  <2>. QED
    BY <1>1, <2>1, <2>2
<1>7. SetsTo("acquisition", <<AcquisitionMode>>) => Right(14)
  <2>1. \A s \in Settings : SetAt[s] = 14 <=> s = "acquisition"
    BY SetAtOf
  <2>2. Configuration["acquisition"] = <<AcquisitionMode>>
    BY ConfigurationOf
  <2>. QED
    BY <1>1, <2>1, <2>2
<1>8. SetsTo("detection", <<TRAILEAD>>) => Right(15)
  <2>1. \A s \in Settings : SetAt[s] = 15 <=> s = "detection"
    BY SetAtOf
  <2>2. Configuration["detection"] = <<TRAILEAD>>
    BY ConfigurationOf
  <2>. QED
    BY <1>1, <2>1, <2>2
<1>9. SetsTo("clock", <<3>>) => Right(16)
  <2>1. \A s \in Settings : SetAt[s] = 16 <=> s = "clock"
    BY SetAtOf
  <2>2. Configuration["clock"] = <<3>>
    BY ConfigurationOf
  <2>. QED
    BY <1>1, <2>1, <2>2
<1>10. SetsTo("channels", <<3, 0>>) => Right(17)
  <2>1. \A s \in Settings : SetAt[s] = 17 <=> s = "channels"
    BY SetAtOf
  <2>2. Configuration["channels"] = <<3, 0>>
    BY ConfigurationOf
  <2>. QED
    BY <1>1, <2>1, <2>2
<1>11. SetsTo("width", <<400>>) => Right(19)
  <2>1. \A s \in Settings : SetAt[s] = 19 <=> s = "width"
    BY SetAtOf
  <2>2. Configuration["width"] = <<400>>
    BY ConfigurationOf
  <2>. QED
    BY <1>1, <2>1, <2>2
<1>12. SetsTo("window", <<65136>>) => Right(20)
  <2>1. \A s \in Settings : SetAt[s] = 20 <=> s = "window"
    BY SetAtOf
  <2>2. Configuration["window"] = <<65136>>
    BY ConfigurationOf
  <2>. QED
    BY <1>1, <2>1, <2>2
<1>13. \A v : SetsTo("channels", v) => Right(3) /\ Right(12)
  BY <1>1, SetAtOf
<1>14. \A v : SetsTo("acquisition", v) => Right(4)
  BY <1>1, SetAtOf
<1>15. \A v : SetsTo("detection", v) => Right(5)
  BY <1>1, SetAtOf
<1>16. UNCHANGED asked => \A n \in {1, 11, 13, 18, 21, 22} : Right(n)
  BY SetAtOf DEF Right
<1>17. Right(2)
  <2>1. \A s \in Settings : ~(SetAt[s] < 2) /\ SetAt[s] # 2
    BY SetAtOf
  <2>. QED
    BY <2>1 DEF Right
<1>. QED
  BY <1>2, <1>3, <1>4, <1>5, <1>6, <1>7, <1>8, <1>9, <1>10, <1>11, <1>12, <1>13, <1>14, <1>15, <1>16, <1>17

LEMMA KnownNext ==
  ASSUME NEW n \in Nat, Known(n), Right(n), UNCHANGED setup
  PROVE  Known(n + 1)'
<1>1. Configuration' = Configuration
  BY DEF Configuration, AcquisitionMode
<1>2. \A s \in Settings : SetAt[s] \in Nat
  BY SetAtOf
<1>3. ASSUME NEW s \in Settings, SetAt[s] < n + 1 PROVE asked'[s] = Configuration[s]
  BY <1>2, <1>3 DEF Known, Right
<1>. QED
  BY <1>1, <1>3 DEF Known

LEMMA NewTDCAsks ==
  ASSUME TDCInv, AskedInv, NewTDC
  PROVE  AskedInv'
<1>1. SettingsInv(asked) /\ fAcquisitionMode \in {CONT_STORAGE, TRIG_MATCH} /\ fDetectionMode \in 0 .. 3
  BY DEF TDCInv, ModesInv
<1>2. Plain(r25ps) /\ Plain(0) /\ Plain(AllChannels) /\ Plain(fDetectionMode)
  BY <1>1, PlainWords DEF r25ps
<1>3. UNCHANGED <<setup, tdcs>>
  BY DEF NewTDC, OnTDC, mainVars
<1>4. /\ CheckConfiguration => Right(1)
      /\ SetETTT => Right(11)
      /\ GetTriggerConfiguration => Right(13)
  BY QuestionsAskNothing, RightCalls
<1>5. /\ EnableAllChannels => Right(3)
      /\ SetAcquisitionMode(fAcquisitionMode) => Right(4)
      /\ SetDetectionMode(fDetectionMode) => Right(5)
      /\ SetPoI(AllChannels, AllChannels) => Right(12)
  <2>1. EnableAllChannels => \E v : SetsTo("channels", v)
    BY <1>1, CallsAsk
  <2>2. SetAcquisitionMode(fAcquisitionMode) => \E v : SetsTo("acquisition", v)
    BY <1>1, CallsAsk
  <2>3. SetDetectionMode(fDetectionMode) => \E v : SetsTo("detection", v)
    BY <1>1, <1>2, CallsAsk
  <2>4. SetPoI(AllChannels, AllChannels) => \E v : SetsTo("channels", v)
    BY <1>1, <1>2, CallsAsk
  <2>. QED
    BY <2>1, <2>2, <2>3, <2>4, RightCalls
<1>6. /\ SetLSBTraileadEdge(r25ps) => Right(6)
      /\ SetTriggerTimeSubtraction => Right(7)
      /\ SetGlobalOffset(0, 0) => Right(8)
      /\ SetTDCEncapsulation => Right(9)
      /\ SetErrorMarks => Right(10)
  <2>1. SetLSBTraileadEdge(r25ps) => SetsTo("resolution", <<r25ps>>)
    BY <1>1, <1>2, CallsAsk
  <2>2. SetGlobalOffset(0, 0) => SetsTo("offset", <<0, 0>>)
    BY <1>1, <1>2, CallsAsk
  <2>3. /\ SetTriggerTimeSubtraction => SetsTo("subtraction", <<1>>)
        /\ SetTDCEncapsulation => SetsTo("headers", <<1>>)
        /\ SetErrorMarks => SetsTo("marks", <<1>>)
    BY <1>1, CallsAsk
  <2>. QED
    BY <2>1, <2>2, <2>3, RightCalls
<1>7. PICK i \in 1 .. 13 : /\ pc = <<"tdc", i>> /\ Right(i)
                          /\ pc' = IF i = 13 THEN <<"xml", 1>> ELSE <<"tdc", i + 1>>
  BY <1>4, <1>5, <1>6, RightCalls DEF NewTDC, OnTDC, Next1, Doing, Goto
<1>8. Known(i) /\ ~tdcs
  BY <1>7 DEF AskedInv
<1>9. Known(i + 1)'
  BY <1>3, <1>7, <1>8, KnownNext
<1>10. CASE i = 13
  <2>1. pc'[1] = "xml" /\ 13 + pc'[2] = i + 1
    BY <1>7, <1>10
  <2>. QED
    BY <1>3, <1>8, <1>9, <2>1 DEF AskedInv
<1>11. CASE i # 13
  <2>1. pc'[1] = "tdc" /\ pc'[2] = i + 1
    BY <1>7, <1>11
  <2>. QED
    BY <1>3, <1>8, <1>9, <2>1 DEF AskedInv
<1>. QED
  BY <1>10, <1>11

LEMMA ConfigureTDCAsks ==
  ASSUME TDCInv, AskedInv, ConfigureTDC
  PROVE  AskedInv'
<1>1. SettingsInv(asked) /\ UNCHANGED setup
  BY DEF TDCInv, ConfigureTDC, OnTDC, mainVars
<1>2. Plain(3) /\ Plain(0) /\ Plain(400) /\ Plain(65136) /\ Plain(TRAILEAD)
  BY PlainWords DEF TRAILEAD
<1>3. AcquisitionMode \in {CONT_STORAGE, TRIG_MATCH}
  BY DEF AcquisitionMode
<1>4. /\ SetAcquisitionMode(AcquisitionMode) => Right(14)
      /\ SetDetectionMode(TRAILEAD) => Right(15)
      /\ SetDLLClock(3) => Right(16)
      /\ SetPoI(3, 0) => Right(17)
      /\ SetETTT => Right(18)
      /\ SetWindowWidth(400) => Right(19)
      /\ SetWindowOffset(65136) => Right(20)
      /\ GetAcquisitionMode => Right(21)
      /\ GetDetectionMode => Right(22)
  BY <1>1, <1>2, <1>3, CallsAsk, QuestionsAskNothing, RightCalls
<1>5. \/ \E i \in 1 .. 9 : pc = <<"xml", i>> /\ Right(13 + i) /\ pc' = <<"xml", i + 1>> /\ UNCHANGED tdcs
      \/ pc = <<"xml", 10>> /\ pc' = <<"start", 1>> /\ UNCHANGED asked
  BY <1>4 DEF ConfigureTDC, OnTDC, OnNone, tdcVars, mainVars, Next1, Doing, Goto
<1>6. ASSUME NEW i \in 1 .. 9, pc = <<"xml", i>>, Right(13 + i), pc' = <<"xml", i + 1>>, UNCHANGED tdcs
      PROVE  AskedInv'
  <2>1. Known(13 + i) /\ ~tdcs
    BY <1>6 DEF AskedInv
  <2>2. Known((13 + i) + 1)'
    BY <1>1, <1>6, <2>1, KnownNext
  <2>3. pc'[1] = "xml" /\ 13 + pc'[2] = (13 + i) + 1
    BY <1>6
  <2>. QED
    BY <1>6, <2>1, <2>2, <2>3 DEF AskedInv
<1>7. CASE pc = <<"xml", 10>> /\ pc' = <<"start", 1>> /\ UNCHANGED asked
  <2>1. Known(23)
    BY <1>7 DEF AskedInv
  <2>2. \A s \in Settings : asked[s] = Configuration[s]
    BY <2>1, SetAtOf DEF Known
  <2>3. asked = Configuration
    BY <1>1, <2>2, ConfigurationOf DEF SettingsInv
  <2>4. Configuration' = Configuration
    BY <1>1 DEF Configuration, AcquisitionMode
  <2>. QED
    BY <1>7, <2>3, <2>4 DEF AskedInv
<1>. QED
  BY <1>5, <1>6, <1>7

LEMMA OthersAskNothing ==
  ASSUME AskedInv, UNCHANGED <<setup, asked, tdcs>>,
         \/ pc' = pc
         \/ pc[1] \in {"hv", "fpga"} /\ (pc'[1] \in {"hv", "fpga", "start"} \/ pc' = <<"tdc", 1>>)
         \/ {pc[1], pc'[1]} \subseteq {"start", "burst", "loop", "probe"}
  PROVE  AskedInv'
<1>1. Configuration' = Configuration
  BY DEF Configuration, AcquisitionMode
<1>2. \A n : Known(n)' <=> Known(n)
  BY <1>1 DEF Known
<1>3. pc' = <<"tdc", 1>> => pc'[1] = "tdc" /\ pc'[2] = 1
  OBVIOUS
<1>4. Known(1)
  BY SetAtOf DEF Known
<1>. QED
  BY <1>1, <1>2, <1>3, <1>4 DEF AskedInv

LEMMA AskedInit == Init => AskedInv
BY DEF Init, AskedInv

LEMMA AskedNext == BoardsTDCInv /\ AskedInv /\ [Next]_vars => AskedInv'
<1> SUFFICES ASSUME BoardsTDCInv, AskedInv, [Next]_vars PROVE AskedInv'
  OBVIOUS
<1>1. CASE NewTDC \/ ConfigureTDC
  BY <1>1, NewTDCAsks, ConfigureTDCAsks DEF BoardsTDCInv
<1>2. CASE StartHV \/ NewFPGA \/ ConfigureFPGA
  <2>1. UNCHANGED <<setup, asked, tdcs>>
    BY <1>2 DEF StartHV, NewFPGA, ConfigureFPGA, OnHV, OnFPGA, tdcVars, mainVars
  <2>2. pc[1] \in {"hv", "fpga"} /\ (pc'[1] \in {"hv", "fpga", "start"} \/ pc' = <<"tdc", 1>>)
    BY <1>2 DEF StartHV, NewFPGA, ConfigureFPGA, Next1, Doing, Goto
  <2>. QED
    BY <2>1, <2>2, OthersAskNothing
<1>3. CASE Acquire
  <2>1. UNCHANGED <<setup, asked, tdcs>>
    <3>1. \A part : AskModes(part) => UNCHANGED <<setup, asked, tdcs>>
      BY QuestionsAskNothing DEF AskModes, OnTDC, OnNone, tdcVars, mainVars
    <3>2. StartAcquisition \/ Pulse \/ BroadcastHVStatus => UNCHANGED <<setup, asked, tdcs>>
      BY <3>1 DEF StartAcquisition, Pulse, BroadcastHVStatus, OnFPGA, OnHV, OnNone, tdcVars, mainVars
    <3>3. NewBurst \/ WriteHeader \/ MarkTriggers \/ Probe \/ ChangeFiles => UNCHANGED <<setup, asked, tdcs>>
      BY DEF NewBurst, WriteHeader, MarkTriggers, Probe, ChangeFiles, OnFPGA, OnNone, tdcVars
    <3>. QED
      BY <1>3, <3>1, <3>2, <3>3 DEF Acquire
  <2>2. {pc[1], pc'[1]} \subseteq {"start", "burst", "loop", "probe"}
    BY <1>3 DEF Acquire, StartAcquisition, AskModes, NewBurst, WriteHeader, Pulse, MarkTriggers, Probe,
                BroadcastHVStatus, ChangeFiles, Next1, Doing, Goto
  <2>. QED
    BY <2>1, <2>2, OthersAskNothing
<1>4. CASE UNCHANGED vars \/ (Trigger /\ UNCHANGED <<tdcVars, hvVars, mainVars, pc>>)
  <2>1. UNCHANGED <<setup, asked, tdcs, pc>>
    BY <1>4 DEF vars, tdcVars, mainVars
  <2>. QED
    BY <2>1, OthersAskNothing
<1>. QED
  BY <1>1, <1>2, <1>3, <1>4 DEF Next, Configure

LEMMA AskedInvariant == Spec => []AskedInv
BY AskedInit, AskedNext, TDCInvariant, PTL DEF Spec

(* While the process runs at most three settings of the TDC are wrong for  *)
(* each access that failed, though the micro controller may take operands  *)
(* for commands and commands for operands (the methods of VME_TDCV1x90     *)
(* that only report a failed WriteRegister()); and when ReadXML() is done  *)
(* with it, those it should have are the ones of the configuration file,   *)
(* whatever an earlier acquisition left and the reset did not clear.       *)
THEOREM DamageCorrect == Spec => []DamageBounded
<1>1. BoardsTDCInv /\ AskedInv => DamageBounded
  <2> SUFFICES ASSUME BoardsTDCInv, AskedInv, process = "running"
               PROVE  Cardinality(Spoiled) <= 3 * failures
    BY DEF DamageBounded, AskedInv
  <2>1. MicroInv(micro) /\ failures \in Nat
    BY FailuresAssumption DEF BoardsTDCInv, BusInv, TDCInv
  <2>2. Spoiled \subseteq Bad(micro, asked)
    BY DEF Spoiled, Bad
  <2>3. IsFiniteSet(Bad(micro, asked)) /\ Cardinality(Bad(micro, asked)) \in Nat
    BY <2>1, SettingsFinite
  <2>4. Cardinality(Spoiled) <= Cardinality(Bad(micro, asked)) /\ Cardinality(Spoiled) \in Nat
    BY <2>2, <2>3, FS_Subset, FS_CardinalityType
  <2>5. CASE BeforeReset(pc)
    <3>1. asked = micro.setting
      BY <2>5 DEF BoardsTDCInv, DamageInv
    <3>2. Spoiled = {}
      BY <3>1 DEF Spoiled
    <3>. QED
      BY <2>1, <3>2, FS_EmptySet
  <2>6. CASE ~BeforeReset(pc)
    <3>1. Within(micro, asked, pc, failures)
      BY <2>6 DEF BoardsTDCInv, DamageInv
    <3>2. Missing(micro) \in {0, 1, 2}
      BY <2>1, MissingOf
    <3>3. Due(Missing(micro), pc) \in 0 .. 3
      BY <3>2 DEF Due
    <3>. QED
      BY <2>1, <2>3, <2>4, <3>1, <3>3 DEF Within
  <2>. QED
    BY <2>5, <2>6
<1>2. QED
  BY <1>1, TDCInvariant, AskedInvariant, PTL
-----------------------------------------------------------------------------
(* The modes that were read since the beginning of a burst are those of    *)
(* the board as long as no access failed since.                            *)
ModesRead ==
  process = "running" /\ tdcs /\ failures = header.failures /\ pc[1] = "burst" =>
    /\ pc[2] \in {2, 3} => fAcquisitionMode = BoardModes[1]
    /\ pc[2] = 3 => fDetectionMode = BoardModes[2]

HeaderInv ==
  /\ header = [acquisition |-> header.acquisition, detection |-> header.detection,
               board |-> header.board, sound |-> header.sound, failures |-> header.failures]
  /\ header.failures \in Nat /\ header.failures <= failures
  /\ ~InBursts => ~header.sound
  /\ HeaderTrue
  /\ ModesRead

LEMMA HeaderKept ==
  ASSUME HeaderInv, UNCHANGED header, failures \in Nat, failures' \in Nat, failures <= failures',
         tdcs' = tdcs \/ ~header.sound, InBursts => InBursts', ModesRead'
  PROVE  HeaderInv'
<1>1. HeaderTrue'
  BY DEF HeaderInv, HeaderTrue
<1>2. header.failures <= failures'
  BY DEF HeaderInv
<1>. QED
  BY <1>1, <1>2 DEF HeaderInv

LEMMA HeaderOfTDC ==
  ASSUME BoardsTDCInv, HeaderInv, BusStep, NewTDC \/ ConfigureTDC
  PROVE  HeaderInv'
<1>1. /\ UNCHANGED header /\ (tdcs' = tdcs \/ TRUE)
      /\ pc[1] \in {"tdc", "xml"} /\ pc'[1] \in {"tdc", "xml", "start"}
  BY DEF NewTDC, ConfigureTDC, OnTDC, OnNone, mainVars, Next1, Doing, Goto
<1>2. ~InBursts /\ pc'[1] # "burst"
  BY <1>1 DEF InBursts
<1>3. ~header.sound /\ ModesRead'
  BY <1>2 DEF HeaderInv, ModesRead
<1>4. failures \in Nat /\ failures' \in Nat /\ failures <= failures'
  BY FailuresAssumption DEF BoardsTDCInv, BusInv, BusStep
<1>. QED
  BY <1>1, <1>2, <1>3, <1>4, HeaderKept

LEMMA HeaderOfAsking ==
  ASSUME BoardsTDCInv, HeaderInv, BusStep, NEW part \in {"start", "burst"}, AskModes(part)
  PROVE  HeaderInv'
<1>1. UNCHANGED <<header, tdcs>> /\ pc[1] = part /\ pc'[1] = part
  BY DEF AskModes, mainVars, Next1, Doing, Goto
<1>2. InBursts => InBursts'
  BY <1>1 DEF InBursts
<1>3. failures' \in Nat /\ failures <= failures' /\ failures \in Nat /\ header.failures <= failures /\ header.failures \in Nat
  BY FailuresAssumption DEF BoardsTDCInv, BusInv, BusStep, HeaderInv
<1>4. ASSUME process' = "running", tdcs', failures' = header'.failures, pc'[1] = "burst"
      PROVE  /\ pc'[2] \in {2, 3} => fAcquisitionMode' = BoardModes'[1]
             /\ pc'[2] = 3 => fDetectionMode' = BoardModes'[2]
  <2>1. failures' = failures /\ failures = header.failures /\ Exact
    BY <1>1, <1>3, <1>4 DEF Exact
  <2>2. BoardModes'[1] = micro'.setting["acquisition"][1] /\ BoardModes'[2] = micro'.setting["detection"][1] % 4
    BY DEF BoardModes
  <2>3. CASE Next1(part, 1) /\ GetAcquisitionMode
    <3>1. pc'[2] = 2
      BY <2>3 DEF Next1, Goto
    <3>2. fAcquisitionMode' = micro'.setting["acquisition"][1]
      BY <2>1, <2>3, GetAcquisitionModeStep DEF BoardsTDCInv
    <3>. QED
      BY <2>2, <3>1, <3>2
  <2>4. CASE Next1(part, 2) /\ GetDetectionMode
    <3>1. pc[2] = 2 /\ pc[1] = "burst" /\ process = "running"
      BY <1>1, <1>4, <2>4 DEF Next1, Doing
    <3>2. fAcquisitionMode = BoardModes[1]
      BY <1>1, <1>4, <2>1, <3>1 DEF HeaderInv, ModesRead
    <3>3. /\ SettingsKept /\ fAcquisitionMode' = fAcquisitionMode
          /\ fDetectionMode' = micro'.setting["detection"][1] % 4
      BY <2>1, <2>4, GetDetectionModeStep DEF BoardsTDCInv
    <3>4. fAcquisitionMode = micro.setting["acquisition"][1]
      BY <3>2 DEF BoardModes
    <3>. QED
      BY <2>2, <3>3, <3>4 DEF SettingsKept
  <2>5. CASE ~tdcs
    BY <1>1, <1>4, <2>5
  <2>. QED
    BY <2>3, <2>4, <2>5 DEF AskModes, OnTDC
<1>5. ModesRead'
  BY <1>4 DEF ModesRead
<1>. QED
  BY <1>1, <1>2, <1>3, <1>5, HeaderKept

LEMMA HeaderOfBurst ==
  ASSUME BoardsTDCInv, HeaderInv, BusStep, NewBurst
  PROVE  HeaderInv'
<1>1. /\ header' = [header EXCEPT !.failures = failures] /\ tdcs' = tdcs
      /\ pc' = <<"burst", 1>> /\ failures' = failures
  <2>1. failures \in Nat
    BY FailuresAssumption DEF BoardsTDCInv, BusInv
  <2>. QED
    BY <2>1, WorksFails DEF NewBurst, OnNone, Next1, Goto
<1>2. /\ header' = [acquisition |-> header'.acquisition, detection |-> header'.detection,
                    board |-> header'.board, sound |-> header'.sound, failures |-> header'.failures]
      /\ header'.failures = failures /\ header'.sound = header.sound /\ header'.board = header.board
      /\ header'.acquisition = header.acquisition /\ header'.detection = header.detection
  BY <1>1 DEF HeaderInv
<1>3. InBursts' /\ ModesRead'
  BY <1>1 DEF InBursts, ModesRead
<1>4. HeaderTrue'
  BY <1>1, <1>2 DEF HeaderInv, HeaderTrue
<1>5. failures' \in Nat
  BY FailuresAssumption DEF BusStep
<1>. QED
  BY <1>1, <1>2, <1>3, <1>4, <1>5 DEF HeaderInv

LEMMA HeaderOfHeader ==
  ASSUME BoardsTDCInv, HeaderInv, BusStep, WriteHeader
  PROVE  HeaderInv'
<1>0. failures \in Nat
  BY FailuresAssumption DEF BoardsTDCInv, BusInv
<1>1. /\ header' = [acquisition |-> fAcquisitionMode, detection |-> fDetectionMode,
                    board |-> BoardModes, sound |-> failures = header.failures,
                    failures |-> failures]
      /\ tdcs' = tdcs /\ process = "running" /\ pc = <<"burst", 3>> /\ pc' = <<"burst", 4>>
      /\ failures' = failures
  BY <1>0, WorksFails DEF WriteHeader, OnNone, Next1, Doing, Goto
<1>2. /\ header' = [acquisition |-> header'.acquisition, detection |-> header'.detection,
                    board |-> header'.board, sound |-> header'.sound, failures |-> header'.failures]
      /\ header'.acquisition = fAcquisitionMode /\ header'.detection = fDetectionMode
      /\ header'.board = BoardModes /\ header'.failures = failures
  BY <1>1
<1>3. header'.sound => failures = header.failures
  BY <1>1, Zenon
<1>4. header'.sound /\ tdcs => fAcquisitionMode = BoardModes[1] /\ fDetectionMode = BoardModes[2]
  BY <1>1, <1>3 DEF HeaderInv, ModesRead
<1>5. BoardModes = <<BoardModes[1], BoardModes[2]>>
  BY DEF BoardModes
<1>6. HeaderTrue'
  BY <1>1, <1>2, <1>4, <1>5 DEF HeaderTrue
<1>7. InBursts' /\ ModesRead'
  BY <1>1 DEF InBursts, ModesRead
<1>8. failures' \in Nat
  BY FailuresAssumption DEF BusStep
<1>. QED
  BY <1>1, <1>2, <1>6, <1>7, <1>8 DEF HeaderInv

LEMMA HeaderOfOthers ==
  ASSUME BoardsTDCInv, HeaderInv, BusStep,
         \/ StartHV \/ NewFPGA \/ ConfigureFPGA \/ (StartAcquisition /\ ~AskModes("start"))
         \/ Pulse \/ MarkTriggers \/ Probe \/ BroadcastHVStatus \/ ChangeFiles
  PROVE  HeaderInv'
<1>1. UNCHANGED <<header, tdcs>>
  BY DEF StartHV, NewFPGA, ConfigureFPGA, StartAcquisition, Pulse, MarkTriggers, Probe,
         BroadcastHVStatus, ChangeFiles, OnHV, OnNone, OnFPGA, mainVars
<1>2. /\ pc'[1] = "burst" => pc'[2] = 0
      /\ \/ pc[1] \in {"hv", "fpga", "start"}
         \/ pc'[1] \in {"burst", "loop", "probe"}
  BY DEF StartHV, NewFPGA, ConfigureFPGA, StartAcquisition, Pulse, MarkTriggers, Probe,
         BroadcastHVStatus, ChangeFiles, Next1, Doing, Goto
<1>3. (InBursts => InBursts') /\ ModesRead'
  BY <1>2 DEF InBursts, ModesRead
<1>4. failures \in Nat /\ failures' \in Nat /\ failures <= failures'
  BY FailuresAssumption DEF BoardsTDCInv, BusInv, BusStep
<1>. QED
  BY <1>1, <1>3, <1>4, HeaderKept

LEMMA HeaderSame ==
  ASSUME BoardsTDCInv, HeaderInv,
         UNCHANGED <<header, tdcs, failures, process, pc>>, UNCHANGED tdcVars
  PROVE  HeaderInv'
<1>1. failures \in Nat /\ failures' \in Nat /\ failures <= failures'
  BY FailuresAssumption DEF BoardsTDCInv, BusInv
<1>2. ModesRead' /\ InBursts' = InBursts
  BY DEF HeaderInv, ModesRead, BoardModes, InBursts, tdcVars
<1>. QED
  BY <1>1, <1>2, HeaderKept

LEMMA HeaderNext == BoardsTDCInv /\ HeaderInv /\ [Next]_vars => HeaderInv'
<1> SUFFICES ASSUME BoardsTDCInv, HeaderInv, [Next]_vars PROVE HeaderInv'
  OBVIOUS
<1>1. CASE UNCHANGED vars
  BY <1>1, HeaderSame DEF vars, mainVars, busVars
<1>2. CASE Next
  <2>1. BusStep
    BY <1>2, Kinds, DamageSteps DEF BoardsTDCInv
  <2>2. CASE Trigger /\ UNCHANGED <<tdcVars, hvVars, mainVars, pc>>
    BY <2>2, HeaderSame DEF Trigger, busVars, mainVars
  <2>3. CASE Configure
    BY <2>1, <2>3, HeaderOfTDC, HeaderOfOthers DEF Configure
  <2>4. CASE Acquire
    BY <2>1, <2>4, HeaderOfAsking, HeaderOfBurst, HeaderOfHeader, HeaderOfOthers DEF Acquire, StartAcquisition
  <2>. QED
    BY <1>2, <2>2, <2>3, <2>4 DEF Next
<1>. QED
  BY <1>1, <1>2

LEMMA HeaderInit == Init => HeaderInv
<1> SUFFICES ASSUME Init PROVE HeaderInv
  OBVIOUS
<1>1. /\ header = [acquisition |-> TRIG_MATCH, detection |-> TRAILEAD,
                   board |-> BoardModes, sound |-> FALSE, failures |-> 0]
      /\ failures = 0 /\ pc = <<"hv", 1>>
  BY DEF Init, BusInit
<1>2. ~header.sound
  BY <1>1, Zenon
<1>3. header.failures = 0
  BY <1>1
<1>. QED
  BY <1>1, <1>2, <1>3 DEF HeaderInv, HeaderTrue, ModesRead

(* The header of a file has the modes that the TDC is in when it is        *)
(* written, unless an access failed since the burst began, whatever went   *)
(* wrong before (GetAcquisitionMode(), GetDetectionMode(), the beginning   *)
(* of a burst in fetch_vme.cpp).                                           *)
THEOREM HeaderCorrect == Spec => []HeaderTrue
<1>1. HeaderInv => HeaderTrue
  BY DEF HeaderInv
<1>2. QED
  BY <1>1, HeaderInit, HeaderNext, TDCInvariant, PTL DEF Spec
-----------------------------------------------------------------------------
(* Triggers that the scaler counted before a start that failed to reset it *)
(* come on top of the later ones.                                          *)
ScalerInv ==
  /\ triggers \in 0 .. MaxTriggers
  /\ scaler \in Nat
  /\ scaler <= triggers + 1 + (IF InBursts THEN MaxTriggers ELSE 0)

PulseInv == lines \in {0, kReset + kClear} /\ pulseFailed \in BOOLEAN

MainInv == tdcs \in BOOLEAN /\ numAllTriggers \in Nat /\ bursts \in Nat

TypeInv == ScalerInv /\ PulseInv /\ MainInv /\ request \in Seq(Nat)

LEMMA ScalerKept ==
  ASSUME ScalerInv, UNCHANGED <<scaler, triggers>>, InBursts => InBursts'
  PROVE  ScalerInv'
<1>1. MaxTriggers \in Nat
  BY WordAssumption
<1>. QED
  BY <1>1 DEF ScalerInv

LEMMA LinesOf ==
  ASSUME NEW l, NEW bits, NEW o \in SetTDCBits(l, bits)
  PROVE  o.lines \in {l, bits}
<1>1. \A x, n, t : [lines |-> x, failed |-> n, thrown |-> t].lines = x
  OBVIOUS
<1>2. \E n, t : \/ o = [lines |-> bits, failed |-> n, thrown |-> t]
                \/ o = [lines |-> l, failed |-> n, thrown |-> t]
  <2>1. CASE l = bits
    BY <2>1 DEF SetTDCBits
  <2>2. CASE l # bits
    BY <2>2 DEF SetTDCBits
  <2>. QED
    BY <2>1, <2>2
<1>. QED
  BY <1>1, <1>2

LEMMA PulseKept ==
  ASSUME PulseInv, PulseTDCBits(kReset + kClear)
  PROVE  PulseInv' /\ UNCHANGED <<scaler, triggers>>
<1>1. PICK up \in SetTDCBits(lines, kReset + kClear) :
        \E down \in IF up.thrown THEN {[up EXCEPT !.failed = 0]} ELSE SetTDCBits(up.lines, 0) :
          /\ lines' = down.lines
          /\ pulseFailed' = (up.failed + down.failed > 0)
          /\ UNCHANGED <<scaler, triggers>>
  BY DEF PulseTDCBits
<1>2. PICK down \in IF up.thrown THEN {[up EXCEPT !.failed = 0]} ELSE SetTDCBits(up.lines, 0) :
          /\ lines' = down.lines
          /\ pulseFailed' = (up.failed + down.failed > 0)
          /\ UNCHANGED <<scaler, triggers>>
  BY <1>1
<1>3. up.lines \in {0, kReset + kClear}
  BY LinesOf DEF PulseInv
<1>4. down.lines \in {0, kReset + kClear}
  <2>1. CASE up.thrown
    <3>1. down = [up EXCEPT !.failed = 0]
      BY <1>2, <2>1
    <3>2. down.lines = up.lines
      BY <1>1, <3>1 DEF SetTDCBits
    <3>. QED
      BY <1>3, <3>2
  <2>2. CASE ~up.thrown
    <3>1. down \in SetTDCBits(up.lines, 0)
      BY <1>2, <2>2
    <3>. QED
      BY <1>3, <3>1, LinesOf
  <2>. QED
    BY <2>1, <2>2
<1>5. pulseFailed' \in BOOLEAN
  BY <1>2
<1>. QED
  BY <1>2, <1>4, <1>5 DEF PulseInv

LEMMA RequestKept ==
  ASSUME request \in Seq(Nat), NEW opcode \in Nat,
         \/ request' = <<>>
         \/ \E k \in 0 .. 3 : request' = request \o SubSeq(Words(opcode), 1, k)
  PROVE  request' \in Seq(Nat)
<1>1. ASSUME NEW k \in 0 .. 3 PROVE SubSeq(Words(opcode), 1, k) \in Seq(Nat)
  <2>1. Words(opcode) \in Seq(Nat) /\ Len(Words(opcode)) = 3
    BY HVAddressAssumption DEF Words, MSTIDENT
  <2>2. k \in 0 .. Len(Words(opcode))
    BY <2>1
  <2>3. QED
    BY <2>1, <2>2, PrefixType
<1>2. ASSUME NEW k \in 0 .. 3 PROVE request \o SubSeq(Words(opcode), 1, k) \in Seq(Nat)
  <2> DEFINE sent == SubSeq(Words(opcode), 1, k)
  <2>1. sent \in Seq(Nat)
    BY <1>1
  <2> HIDE DEF sent
  <2>2. request \o sent \in Seq(Nat)
    BY <2>1, ConcatProperties
  <2>3. QED
    BY <2>2 DEF sent
<1>3. <<>> \in Seq(Nat)
  OBVIOUS
<1>. QED
  BY <1>2, <1>3

LEMMA TypeOfHV ==
  ASSUME TypeInv, StartHV \/ BroadcastHVStatus
  PROVE  TypeInv'
<1>1. /\ UNCHANGED <<fpgaVars, mainVars>>
      /\ \E opcode \in Nat : ReadInfo(opcode) \/ \E ch \in Nat : ReadChannel(ch)
  <2>1. kN470GeneralInfo \in Nat /\ kN470MonStatus \in Nat /\ 0 \in Nat /\ 3 \in Nat
    BY DEF kN470GeneralInfo, kN470MonStatus
  <2>2. QED
    BY <2>1 DEF StartHV, BroadcastHVStatus, OnHV
<1>2. \E opcode \in Nat : request' = <<>> \/ \E k \in 0 .. 3 : request' = request \o SubSeq(Words(opcode), 1, k)
  <2>1. ASSUME NEW opcode \in Nat, ReadInfo(opcode)
        PROVE  request' = <<>> \/ \E k \in 0 .. 3 : request' = request \o SubSeq(Words(opcode), 1, k)
    BY <2>1 DEF ReadInfo, ReadRegister
  <2>2. ASSUME NEW ch \in Nat, ReadChannel(ch)
        PROVE  \E opcode \in Nat : request' = <<>> \/ \E k \in 0 .. 3 : request' = request \o SubSeq(Words(opcode), 1, k)
    <3>1. Opcode(ch) \in Nat
      BY DEF Opcode, kN470OperationalParams
    <3>2. request' = <<>> \/ \E k \in 0 .. 3 : request' = request \o SubSeq(Words(Opcode(ch)), 1, k)
      BY <2>2 DEF ReadChannel, ReadRegister
    <3>. QED
      BY <3>1, <3>2
  <2>. QED
    BY <1>1, <2>1, <2>2
<1>3. request' \in Seq(Nat)
  BY <1>2, RequestKept DEF TypeInv
<1>4. pc[1] = "hv" \/ (pc[1] = "probe" /\ pc'[1] = "probe")
  BY DEF StartHV, BroadcastHVStatus, Next1, Doing, Goto
<1>5. InBursts => InBursts'
  BY <1>4 DEF InBursts
<1>. QED
  BY <1>1, <1>3, <1>5, ScalerKept DEF TypeInv, PulseInv, MainInv, fpgaVars, mainVars

LEMMA TypeOfFPGA ==
  ASSUME TypeInv, NewFPGA \/ ConfigureFPGA
  PROVE  TypeInv'
<1>1. UNCHANGED <<hvVars, mainVars>> /\ pc[1] = "fpga"
  BY DEF NewFPGA, ConfigureFPGA, OnFPGA, Next1, Doing
<1>2. UNCHANGED <<scaler, triggers, lines, pulseFailed>>
  BY DEF NewFPGA, ConfigureFPGA, OnFPGA, Accessed, Throws, StopScaler, SetControl, fpgaVars
<1>3. ~InBursts
  BY <1>1 DEF InBursts
<1>. QED
  BY <1>1, <1>2, <1>3, ScalerKept DEF TypeInv, PulseInv, MainInv, hvVars, mainVars

LEMMA TypeOfStart ==
  ASSUME TypeInv, StartAcquisition, ~AskModes("start")
  PROVE  TypeInv'
<1>1. /\ UNCHANGED <<hvVars, mainVars, lines, pulseFailed>> /\ pc[1] = "start" /\ pc'[1] = "burst"
      /\ UNCHANGED <<scaler, triggers>> \/ (triggers' = 0 /\ scaler' \in {0, scaler})
  BY DEF StartAcquisition, OnFPGA, OnNone, StartScaler, fpgaVars, Doing, Goto
<1>2. ~InBursts /\ InBursts'
  BY <1>1 DEF InBursts
<1>3. ScalerInv'
  <2>1. MaxTriggers \in Nat
    BY WordAssumption
  <2>. QED
    BY <1>1, <1>2, <2>1 DEF TypeInv, ScalerInv
<1>. QED
  BY <1>1, <1>3 DEF TypeInv, PulseInv, MainInv, hvVars, mainVars

LEMMA TypeOfPulse ==
  ASSUME TypeInv, Pulse
  PROVE  TypeInv'
<1>1. /\ UNCHANGED <<hvVars, mainVars>> /\ pc'[1] = "loop"
      /\ PulseTDCBits(kReset + kClear) \/ UNCHANGED fpgaVars
  BY DEF Pulse, OnFPGA, OnNone, Goto
<1>2. PulseInv' /\ UNCHANGED <<scaler, triggers>>
  BY <1>1, PulseKept DEF TypeInv, PulseInv, fpgaVars
<1>3. InBursts'
  BY <1>1 DEF InBursts
<1>. QED
  BY <1>1, <1>2, <1>3, ScalerKept DEF TypeInv, MainInv, hvVars, mainVars

LEMMA TypeOfTrigger ==
  ASSUME TypeInv, Trigger, UNCHANGED <<hvVars, mainVars, pc>>
  PROVE  TypeInv'
<1>1. /\ scaler' = scaler + 1 /\ triggers' = triggers + 1 /\ triggers < MaxTriggers
      /\ UNCHANGED <<lines, pulseFailed>>
  BY DEF Trigger
<1>2. ScalerInv'
  <2>1. MaxTriggers \in Nat
    BY WordAssumption
  <2>2. InBursts' <=> InBursts
    BY DEF InBursts
  <2>. QED
    BY <1>1, <2>1, <2>2 DEF TypeInv, ScalerInv
<1>. QED
  BY <1>1, <1>2 DEF TypeInv, PulseInv, MainInv, hvVars, mainVars

LEMMA TypeOfMain ==
  ASSUME TypeInv, numTriggers \in Nat,
         \/ NewTDC \/ ConfigureTDC \/ AskModes("start") \/ AskModes("burst")
         \/ NewBurst \/ WriteHeader \/ MarkTriggers \/ Probe \/ ChangeFiles \/ UNCHANGED vars
  PROVE  TypeInv'
<1>1. UNCHANGED <<hvVars, fpgaVars>>
  BY DEF NewTDC, ConfigureTDC, AskModes, NewBurst, WriteHeader, MarkTriggers, Probe, ChangeFiles, vars,
         OnTDC, OnNone, OnFPGA, GetScalerValue
<1>2. /\ tdcs' = tdcs \/ tdcs' = TRUE
      /\ numAllTriggers' \in {numAllTriggers, numTriggers}
      /\ bursts' \in {bursts, bursts + 1}
  BY DEF NewTDC, ConfigureTDC, AskModes, NewBurst, WriteHeader, MarkTriggers, Probe, ChangeFiles, vars,
         OnTDC, OnNone, OnFPGA, mainVars
<1>3. \/ pc' = pc
      \/ pc[1] \in {"tdc", "xml", "start"}
      \/ pc'[1] \in {"burst", "loop", "probe"}
  BY DEF NewTDC, ConfigureTDC, AskModes, NewBurst, WriteHeader, MarkTriggers, Probe, ChangeFiles, vars,
         Next1, Doing, Goto
<1>4. InBursts => InBursts'
  BY <1>3 DEF InBursts
<1>5. MainInv'
  <2>1. tdcs' \in BOOLEAN
    BY <1>2, Zenon DEF TypeInv, MainInv
  <2>2. numAllTriggers' \in Nat /\ bursts' \in Nat
    BY <1>2 DEF TypeInv, MainInv
  <2>. QED
    BY <2>1, <2>2 DEF MainInv
<1>. QED
  BY <1>1, <1>4, <1>5, ScalerKept DEF TypeInv, PulseInv, hvVars, fpgaVars

LEMMA TypeNext == BoardsInv /\ TypeInv /\ [Next]_vars => TypeInv'
<1> SUFFICES ASSUME BoardsInv, TypeInv, [Next]_vars PROVE TypeInv'
  OBVIOUS
<1>1. numTriggers \in Nat
  BY DEF BoardsInv, CountersInv
<1>2. CASE UNCHANGED vars
  BY <1>1, <1>2, TypeOfMain
<1>3. CASE Trigger /\ UNCHANGED <<tdcVars, hvVars, mainVars, pc>>
  BY <1>3, TypeOfTrigger
<1>4. CASE Configure
  BY <1>1, <1>4, TypeOfHV, TypeOfFPGA, TypeOfMain DEF Configure
<1>5. CASE Acquire
  BY <1>1, <1>5, TypeOfHV, TypeOfStart, TypeOfPulse, TypeOfMain DEF Acquire, StartAcquisition
<1>. QED
  BY <1>2, <1>3, <1>4, <1>5 DEF Next

LEMMA TypeInit == Init => TypeInv
<1> SUFFICES ASSUME Init PROVE TypeInv
  OBVIOUS
<1>1. /\ scaler \in {0, 1} /\ triggers = 0 /\ lines \in {0, kReset + kClear} /\ pulseFailed = FALSE
      /\ request = <<>> /\ tdcs = FALSE /\ numAllTriggers = 0 /\ bursts = 0 /\ pc = <<"hv", 1>>
  BY DEF Init, FPGAInit, HVInit
<1>2. ScalerInv
  BY <1>1, WordAssumption DEF ScalerInv, InBursts
<1>3. PulseInv /\ MainInv
  BY <1>1 DEF PulseInv, MainInv
<1>4. request \in Seq(Nat)
  <2>1. <<>> \in Seq(Nat)
    OBVIOUS
  <2>. QED
    BY <1>1, <2>1
<1>. QED
  BY <1>2, <1>3, <1>4 DEF TypeInv

LEMMA Typed == BoardsInv /\ BoardsTDCInv /\ TypeInv => TypeOK
<1> SUFFICES ASSUME BoardsInv, BoardsTDCInv, TypeInv PROVE TypeOK
  OBVIOUS
<1>1. BusTypeOK
  BY DEF BoardsTDCInv, BusInv, BusTypeOK
<1>2. TDCTypeOK
  <2>1. MicroInv(micro) /\ SettingsInv(asked) /\ control \in Registers /\ ModesInv
    BY DEF BoardsTDCInv, TDCInv
  <2>2. DOMAIN micro.setting = Settings /\ DOMAIN asked = Settings
    BY <2>1 DEF MicroInv, SettingsInv
  <2>3. micro.waiting # <<>> => Len(micro.waiting) <= Setters[micro.waiting[1] \div 256].operands
    <3> SUFFICES ASSUME micro.waiting # <<>>
                 PROVE  Len(micro.waiting) <= Pending(micro).operands
      BY DEF Pending
    <3>1. Missing(micro) \in {1, 2}
      BY <2>1, MissingOf
    <3>2. \/ Len(micro.waiting) = 1 /\ Pending(micro).operands = 1
          \/ Len(micro.waiting) = 2 /\ Pending(micro).operands = 2
          \/ Len(micro.waiting) = 1 /\ Pending(micro).operands = 2
      BY <2>1, <3>1, MissingOf
    <3>3. 1 <= 1 /\ 2 <= 2 /\ 1 <= 2
      OBVIOUS
    <3>. QED
      BY <3>2, <3>3, Zenon
  <2>4. micro.waiting = <<>> \/ micro.answer = <<>>
    BY <2>1 DEF MicroInv
  <2>5. control.ettt \in BOOLEAN
    BY <2>1 DEF Registers
  <2>. QED
    BY <2>1, <2>2, <2>3, <2>4, <2>5 DEF TDCTypeOK, ModesInv
<1>3. FPGATypeOK
  <2>1. reg \in 0 .. WordSize - 1 /\ askedBits \in [ControlBits -> {0, 1}]
    BY DEF BoardsInv, ControlInv, Bits
  <2>2. scaler \in 0 .. 2 * MaxTriggers + 1 /\ triggers \in 0 .. MaxTriggers
    BY WordAssumption DEF TypeInv, ScalerInv
  <2>. QED
    BY <2>1, <2>2 DEF FPGATypeOK, TypeInv, PulseInv
<1>4. {numTriggers, numAllTriggers, marks, bursts} \subseteq Nat
  BY DEF BoardsInv, CountersInv, TypeInv, MainInv
<1>. QED
  BY <1>1, <1>2, <1>3, <1>4 DEF TypeOK, TypeInv, MainInv

(* Types of the state of the bus, of the boards and of main().             *)
THEOREM BoardsTyped == Spec => []TypeOK
BY Typed, TypeInit, TypeNext, BoardsInvariant, TDCInvariant, PTL DEF Spec
=============================================================================
