----------------------------- MODULE MCReadout ------------------------------
(***************************************************************************)
(* Readout for TLC: the times of the edges wrap, on 19 and on 21 bits, at  *)
(* the second word, which falls on time 0.                                 *)
(***************************************************************************)
EXTENDS Readout

Board(m, channels, fills, words) ==
  [mode |-> m, channels |-> channels, fills |-> fills, words |-> words]
TwoModes == {Board("CONT_STORAGE", 1, TRUE, 4), Board("CONT_STORAGE", 2, FALSE, 3),
             Board("TRIG_MATCH", 2, TRUE, 7)}
Step == 2 ^ 14
BeforeWrap == 2 ^ 21 - 2 * Step
=============================================================================
