------------------------------ MODULE MCBoards ------------------------------
(***************************************************************************)
(* Boards for TLC, whose integers have 32 bits: the control word is        *)
(* narrower, and so is the sign that SetBit() uses.                        *)
(***************************************************************************)
EXTENDS Boards

Setup(m, fpga) == [mode |-> m, fpga |-> fpga]
AllSetups == {Setup("TriggerMatching", TRUE), Setup("TriggerStart", TRUE),
              Setup("ContinuousStorage", FALSE)}
LeftWords == {0, 4, 127, 2 ^ 16 - 1}

(* An acquisition in pair mode with another window, that was killed before *)
(* it gave the offsets or before it read its mode.                         *)
Old == TakeAll(Fresh, <<Op(TRG_MATCH), Op(SET_DETECTION), 0, Op(SET_TR_LEAD_LSB), 1,
                        Op(EN_SUB_TRG), Op(SET_GLOB_OFFS), 1, 1, Op(EN_HEAD_TRAILER),
                        Op(EN_ERROR_MARK), Op(EN_ALL_CHANNEL), Op(SET_DLL_CLOCK), 0,
                        Op(SET_WIN_WIDTH), 200, Op(SET_WIN_OFFS), 100>>).setting
OldMicros ==
  {Fresh, Micro(Old, <<>>, <<>>), Micro(Old, <<Op(SET_GLOB_OFFS)>>, <<>>),
   Micro(Old, <<>>, <<TRIG_MATCH>>)}
=============================================================================
