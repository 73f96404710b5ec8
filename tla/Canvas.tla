------------------------------- MODULE Canvas -------------------------------
(***************************************************************************)
(* The cell in which GastofCanvas.h and QuarticCanvas.h draw a channel, as *)
(* <<x, y>>; <<0, 0>> lies outside of both grids.                          *)
(***************************************************************************)
EXTENDS Integers

Channels32 == 0 .. 31

(* NINO board 0 reads the rim of the 8 x 8 grid, row by row.               *)
RimCoordinates(ch) ==
  CASE ch \in 0 .. 7 -> <<ch + 1, 1>>
    [] ch \in 8 .. 9 -> <<ch - 7, 2>>
    [] ch \in 10 .. 11 -> <<ch - 3, 2>>
    [] ch \in 12 .. 19 -> <<1 + 7 * (ch % 2), 3 + (ch - 12) \div 2>>
    [] ch \in 20 .. 21 -> <<ch - 19, 7>>
    [] ch \in 22 .. 23 -> <<ch - 15, 7>>
    [] ch \in 24 .. 31 -> <<ch - 23, 8>>

(* NINO board 1 reads the cells inside.                                    *)
InnerCoordinates(ch) ==
  CASE ch \in 0 .. 3 -> <<ch + 3, 2>>
    [] ch \in 4 .. 27 -> <<2 + ((ch - 4) % 6), 3 + (ch - 4) \div 6>>
    [] ch \in 28 .. 31 -> <<ch - 25, 7>>

(* Only boards 0 and 1 exist: any other raises an exception instead.       *)
GastofCoordinates(nino, ch) ==
  IF nino = 0 THEN RimCoordinates(ch) ELSE InnerCoordinates(ch)

(***************************************************************************)
(* Columns 5, 4 and 3 are read by the first two of every four channels,    *)
(* columns 2 and 1 by channels 24 to 27 and 28 to 31.                      *)
(***************************************************************************)
QuarticRow(k) == CASE k = 0 -> 2 [] k = 1 -> 4 [] k = 2 -> 1 [] k = 3 -> 3
QuarticCoordinates(ch) ==
  CASE ch < 24 /\ (ch % 8) \in {0, 1} -> <<5 - ch \div 8, QuarticRow(ch % 4)>>
    [] ch < 24 /\ (ch % 8) \in {4, 5} -> <<5 - ch \div 8, QuarticRow(2 + (ch % 4))>>
    [] ch >= 24 -> <<2 - (ch - 24) \div 4, QuarticRow(ch % 4)>>
    [] OTHER -> <<0, 0>>
=============================================================================
