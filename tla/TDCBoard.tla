------------------------------ MODULE TDCBoard ------------------------------
(***************************************************************************)
(* The V1190/V1290 board behind TDCV1x90: a micro controller that takes    *)
(* commands, one word at a time, from the register where it also gives its *)
(* answers.  An opcode and its operands are separate accesses, and most of *)
(* the methods only report the access that fails between them.             *)
(***************************************************************************)
EXTENDS Bus, SequencesExt

VARIABLES
  micro,            \* the micro controller: its settings, the words of the
                    \* command under way, the answer that is not read yet
  asked,            \* the settings it should have: those it was found with
                    \* until it is reset, and what the methods ask for
  control,          \* the control register: ETTT, and the state of the rest
  fAcquisitionMode, fDetectionMode

tdcVars == <<micro, asked, control, fAcquisitionMode, fDetectionMode>>

(* The commands that ppsFetch sends are the high bytes of their opcodes.   *)
Op(command) == 256 * command
TRG_MATCH == 0
CONT_STOR == 1
READ_ACQ_MOD == 2
SET_WIN_WIDTH == 16
SET_WIN_OFFS == 17
EN_SUB_TRG == 20
READ_TRG_CONF == 22
SET_DETECTION == 34
READ_DETECTION == 35
SET_TR_LEAD_LSB == 36
EN_HEAD_TRAILER == 48
EN_ERROR_MARK == 53
EN_ALL_CHANNEL == 66
WRITE_EN_PATTERN == 68
SET_GLOB_OFFS == 80
SET_DLL_CLOCK == 200

(* Modes as the board codes them.                                          *)
CONT_STORAGE == 0
TRIG_MATCH == 1
OLEADING == 2
TRAILEAD == 3
AllChannels == 65535
r25ps == 3

(* Which setting a command sets, to which words followed by how many       *)
(* operands.                                                               *)
Sets(setting, words, operands) == [setting |-> setting, words |-> words, operands |-> operands]
Setters ==
  [command \in {TRG_MATCH, CONT_STOR, SET_DETECTION, SET_TR_LEAD_LSB, EN_SUB_TRG, SET_WIN_WIDTH,
                SET_WIN_OFFS, SET_GLOB_OFFS, EN_HEAD_TRAILER, EN_ERROR_MARK, EN_ALL_CHANNEL,
                WRITE_EN_PATTERN, SET_DLL_CLOCK} |->
     CASE command = TRG_MATCH        -> Sets("acquisition", <<TRIG_MATCH>>, 0)
       [] command = CONT_STOR        -> Sets("acquisition", <<CONT_STORAGE>>, 0)
       [] command = SET_DETECTION    -> Sets("detection", <<>>, 1)
       [] command = SET_TR_LEAD_LSB  -> Sets("resolution", <<>>, 1)
       [] command = EN_SUB_TRG       -> Sets("subtraction", <<1>>, 0)
       [] command = SET_WIN_WIDTH    -> Sets("width", <<>>, 1)
       [] command = SET_WIN_OFFS     -> Sets("window", <<>>, 1)
       [] command = SET_GLOB_OFFS    -> Sets("offset", <<>>, 2)
       [] command = EN_HEAD_TRAILER  -> Sets("headers", <<1>>, 0)
       [] command = EN_ERROR_MARK    -> Sets("marks", <<1>>, 0)
       [] command = EN_ALL_CHANNEL   -> Sets("channels", <<AllChannels, AllChannels>>, 0)
       [] command = WRITE_EN_PATTERN -> Sets("channels", <<>>, 2)
       [] command = SET_DLL_CLOCK    -> Sets("clock", <<>>, 1)]
Settings == {Setters[c].setting : c \in DOMAIN Setters}
Defaults ==
  [s \in Settings |-> CASE s = "acquisition" -> <<CONT_STORAGE>>
                        [] s = "detection" -> <<OLEADING>>
                        [] OTHER -> <<>>]

(* What it answers to the others; it ignores what is no command.           *)
AnswerTo(setting, command) ==
  CASE command = READ_ACQ_MOD -> setting["acquisition"]
    [] command = READ_DETECTION -> setting["detection"]
    [] command = READ_TRG_CONF -> <<0, 0, 0, 0, 0>>
    [] OTHER -> <<>>

Micro(setting, waiting, answer) == [setting |-> setting, waiting |-> waiting, answer |-> answer]
Fresh == Micro(Defaults, <<>>, <<>>)

(* One more word: an operand if a command waits for one, else a command.   *)
Take(m, word) ==
  LET words == Append(m.waiting, word)
      command == words[1] \div 256
  IN IF command \notin DOMAIN Setters THEN Micro(m.setting, <<>>, AnswerTo(m.setting, command))
     ELSE LET s == Setters[command]
          IN IF Len(words) <= s.operands THEN Micro(m.setting, words, m.answer)
             ELSE Micro([m.setting EXCEPT ![s.setting] = s.words \o Tail(words)], <<>>, m.answer)
TakeAll(m, words) == FoldLeft(Take, m, words)
-----------------------------------------------------------------------------
(***************************************************************************)
(* WaitMicro(WRITE_OK) polls until the answer has been read, if there is   *)
(* one, and WaitMicro(READ_OK) until there is one; each access may fail.   *)
(***************************************************************************)
Outcome(m, failed, hung, data) == [micro |-> m, failed |-> failed, hung |-> hung, data |-> data]

Sending(m, words) ==
  LET after(k) == TakeAll(m, SubSeq(words, 1, k))
      sent == {k \in 0 .. Len(words) : \A i \in 0 .. k - 1 : after(i).answer = <<>>}
      all == Len(words) \in sent
  IN {Outcome(after(k), 1, FALSE, <<>>) : k \in sent \ {Len(words)}}
       \cup (IF all THEN {Outcome(after(Len(words)), 0, FALSE, <<>>)}
             ELSE {Outcome(m, 0, TRUE, <<>>)})

(* An opcode, then n words to read.                                        *)
Asking(m, command, n) ==
  LET a == Take(m, Op(command))
      left(i) == [a EXCEPT !.answer = SubSeq(@, i + 1, Len(@))]
      whole == Len(a.answer) = n
  IN IF m.answer # <<>> THEN {Outcome(m, 0, TRUE, <<>>), Outcome(m, 1, FALSE, <<>>)}
     ELSE {Outcome(left(Len(a.answer)), 0, ~whole, a.answer), Outcome(m, 1, FALSE, <<>>)}
            \cup {Outcome(left(i), 1, FALSE, <<>>) : i \in 0 .. (IF whole THEN n - 1 ELSE 0)}

Ends(o, state) ==
  /\ Accesses(o.failed)
  /\ micro' = o.micro
  /\ Goes(IF o.hung THEN "hung" ELSE state)
Proceeds(o) == Ends(o, "running")

Asks(words) == asked' = TakeAll(Micro(asked, <<>>, <<>>), words).setting
Modes == <<fAcquisitionMode, fDetectionMode>>
-----------------------------------------------------------------------------
(* Methods that send a command and report its failure.                     *)
Sends(words) ==
  /\ \E o \in Sending(micro, words) : Proceeds(o)
  /\ Asks(words)
EnableAllChannels == Sends(<<Op(EN_ALL_CHANNEL)>>) /\ UNCHANGED <<control, Modes>>
SetLSBTraileadEdge(conf) == Sends(<<Op(SET_TR_LEAD_LSB), conf>>) /\ UNCHANGED <<control, Modes>>
SetTriggerTimeSubtraction == Sends(<<Op(EN_SUB_TRG)>>) /\ UNCHANGED <<control, Modes>>
SetGlobalOffset(coarse, fine) ==
  Sends(<<Op(SET_GLOB_OFFS), coarse, fine>>) /\ UNCHANGED <<control, Modes>>
SetTDCEncapsulation == Sends(<<Op(EN_HEAD_TRAILER)>>) /\ UNCHANGED <<control, Modes>>
SetErrorMarks == Sends(<<Op(EN_ERROR_MARK)>>) /\ UNCHANGED <<control, Modes>>
SetPoI(word1, word2) ==
  Sends(<<Op(WRITE_EN_PATTERN), word1, word2>>) /\ UNCHANGED <<control, Modes>>
SetDLLClock(dll) == Sends(<<Op(SET_DLL_CLOCK), dll>>) /\ UNCHANGED <<control, Modes>>
SetWindowWidth(width) == Sends(<<Op(SET_WIN_WIDTH), width>>) /\ UNCHANGED <<control, Modes>>
SetWindowOffset(offset) == Sends(<<Op(SET_WIN_OFFS), offset>>) /\ UNCHANGED <<control, Modes>>

(* The mode is remembered even if it was not sent.                         *)
SetDetectionMode(mode) ==
  /\ Sends(<<Op(SET_DETECTION), mode>>)
  /\ fDetectionMode' = mode
  /\ UNCHANGED <<control, fAcquisitionMode>>

(* The words that ReadAcquisitionMode() and ReadDetectionMode() look at:   *)
(* anything when an access failed, since the variable has no other value.  *)
Read(o, anything) == IF o.failed = 0 THEN {o.data[1]} ELSE anything
Invalid == 2

(* An invalid mode is a fatal exception.                                   *)
ReadsAcquisitionMode(o) ==
  IF o.hung THEN Proceeds(o) /\ UNCHANGED fAcquisitionMode
  ELSE \E word \in Read(o, {CONT_STORAGE, TRIG_MATCH, Invalid}) :
         /\ Ends(o, IF word = Invalid THEN "ended" ELSE "running")
         /\ fAcquisitionMode' = IF word = Invalid THEN fAcquisitionMode ELSE word
GetAcquisitionMode ==
  /\ \E o \in Asking(micro, READ_ACQ_MOD, 1) : ReadsAcquisitionMode(o)
  /\ UNCHANGED <<asked, control, fDetectionMode>>

(* Mutant: the mode that was set is given back.                            *)
GetDetectionMode_Cached ==
  /\ \E o \in Asking(micro, READ_DETECTION, 1) : Proceeds(o)
  /\ UNCHANGED <<asked, control, Modes>>

(* Mutant: all the bits of the answer are kept.                            *)
GetDetectionMode_AllBits ==
  /\ \E o \in Asking(micro, READ_DETECTION, 1) :
       /\ Proceeds(o)
       /\ IF o.hung THEN UNCHANGED fDetectionMode ELSE fDetectionMode' \in Read(o, 0 .. 3)
  /\ UNCHANGED <<asked, control, fAcquisitionMode>>

GetDetectionMode ==
  /\ \E o \in Asking(micro, READ_DETECTION, 1) :
       /\ Proceeds(o)
       /\ IF o.hung THEN UNCHANGED fDetectionMode
          ELSE fDetectionMode' \in {word % 4 : word \in Read(o, 0 .. 3)}
  /\ UNCHANGED <<asked, control, fAcquisitionMode>>

(* SetTriggerMatching(), SetContinuousStorage(): the mode is read back     *)
(* after the command, unless the wait between them fails, and another one  *)
(* is a fatal exception.                                                   *)
SetAcquisitionMode(mode) ==
  LET words == <<Op(IF mode = TRIG_MATCH THEN TRG_MATCH ELSE CONT_STOR)>>
      sent(o) == o.failed = 0 /\ ~o.hung
  IN /\ \E o \in Sending(micro, words) :
          \/ ~sent(o) /\ Proceeds(o) /\ UNCHANGED fAcquisitionMode
          \/ sent(o) /\ Proceeds(Outcome(o.micro, 1, FALSE, <<>>)) /\ UNCHANGED fAcquisitionMode
          \/ /\ sent(o)
             /\ \E c \in Asking(o.micro, READ_ACQ_MOD, 1) :
                  IF c.hung THEN Proceeds(c) /\ UNCHANGED fAcquisitionMode
                  ELSE \E word \in Read(c, {CONT_STORAGE, TRIG_MATCH, Invalid}) :
                         /\ Ends(c, IF word = mode THEN "running" ELSE "ended")
                         /\ fAcquisitionMode' = IF word = Invalid THEN fAcquisitionMode ELSE word
     /\ Asks(words)
     /\ UNCHANGED <<control, fDetectionMode>>

GetTriggerConfiguration ==
  /\ \E o \in Asking(micro, READ_TRG_CONF, 5) : Proceeds(o)
  /\ UNCHANGED <<asked, control, Modes>>
-----------------------------------------------------------------------------
(* GetOUI() and GetModel() report a failure and give 0, which is not what  *)
(* CheckConfiguration() expects: a fatal exception ends the process.       *)
ReadROM == (Works /\ Runs) \/ (Fails /\ Goes("ended"))
CheckConfiguration == ReadROM /\ UNCHANGED tdcVars

(* Mutant: only the data are cleared.                                      *)
SoftwareReset_Clear ==
  /\ Runs
  /\ Works \/ Fails
  /\ asked' = Defaults
  /\ UNCHANGED <<micro, control, Modes>>

(* A reset that fails is only reported, and what was in the board stays.   *)
SoftwareReset ==
  /\ Runs
  /\ \/ /\ Works
        /\ micro' = Fresh /\ asked' = Defaults
        /\ control' = [ettt |-> FALSE, rest |-> "default"]
     \/ Fails /\ UNCHANGED <<micro, asked, control>>
  /\ UNCHANGED Modes

(* GetControl() gives anything when it fails, and it is written back.      *)
SetETTT ==
  /\ Runs
  /\ \/ Works /\ control' = [control EXCEPT !.ettt = TRUE]
     \/ Fails /\ control' \in {control, [ettt |-> TRUE, rest |-> "any"]}
  /\ UNCHANGED <<micro, asked, Modes>>
-----------------------------------------------------------------------------
(* A micro controller as an earlier acquisition may have left it: with any *)
(* settings and, if it was killed, in the middle of a command or with an   *)
(* answer to give.                                                         *)
Left(m) ==
  /\ m = Micro(m.setting, m.waiting, m.answer)
  /\ m.setting = [s \in Settings |-> m.setting[s]]
  /\ m.setting["acquisition"] \in {<<CONT_STORAGE>>, <<TRIG_MATCH>>}
  /\ m.setting["detection"] \in {<<mode>> : mode \in 0 .. 3}
  /\ m.waiting \in Seq(Nat)
  /\ m.waiting # <<>> =>
       /\ m.waiting[1] \div 256 \in DOMAIN Setters
       /\ Len(m.waiting) <= Setters[m.waiting[1] \div 256].operands
       /\ m.answer = <<>>

TDCInit(micros) ==
  /\ micro \in micros
  /\ asked = micro.setting
  /\ control \in [ettt : BOOLEAN, rest : {"default", "any"}]
  /\ fAcquisitionMode = TRIG_MATCH
  /\ fDetectionMode = TRAILEAD

TDCTypeOK ==
  /\ DOMAIN micro.setting = Settings /\ DOMAIN asked = Settings
  /\ micro.waiting # <<>> => Len(micro.waiting) <= Setters[micro.waiting[1] \div 256].operands
  /\ micro.waiting = <<>> \/ micro.answer = <<>>
  /\ control.ettt \in BOOLEAN
  /\ fAcquisitionMode \in {CONT_STORAGE, TRIG_MATCH}
  /\ fDetectionMode \in 0 .. 3

(* Settings of the board that are not what they should be.                 *)
Spoiled == {s \in Settings : micro.setting[s] # asked[s]}
=============================================================================
