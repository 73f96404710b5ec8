---------------------------- MODULE MCDataTaking ----------------------------
(***************************************************************************)
(* DataTaking for TLC: the circumstances of the runs.                      *)
(***************************************************************************)
EXTENDS DataTaking

Undisturbed == {}
BoardsFail == {"boards"}
SlowMaster == {"slow"}
Unlucky == {"pings", "locked", "boards"}
=============================================================================
