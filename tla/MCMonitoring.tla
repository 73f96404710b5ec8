---------------------------- MODULE MCMonitoring -----------------------------
(***************************************************************************)
(* Monitoring for TLC: a board whose address or detector changes between   *)
(* acquisitions.  Addresses are no number of a run.                        *)
(***************************************************************************)
EXTENDS Monitoring

Alone(address, detector) == <<Board(address, detector)>>
MovingBoard == {Alone(100, "gastof"), Alone(200, "gastof"), Alone(100, "quartic")}
ChangingDetector == {Alone(100, "gastof"), Alone(100, "quartic")}
=============================================================================
