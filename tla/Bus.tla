-------------------------------- MODULE Bus ---------------------------------
(***************************************************************************)
(* The VME bus as the drivers of the boards see it: any access may fail    *)
(* (GenericBoard::ReadRegister and WriteRegister throw), and what a driver *)
(* makes of it decides whether the acquisition process goes on.            *)
(***************************************************************************)
EXTENDS Naturals

CONSTANT MaxFailures    \* bound on the accesses that fail

ASSUME FailuresAssumption == MaxFailures \in Nat

VARIABLES
  failures,     \* accesses that failed so far
  process       \* what has become of ppsFetch

busVars == <<failures, process>>

(* "hung": it polls a register for ever; "ended": by an exception that     *)
(* main() reports, or by exit(); "crashed": by what no handler catches.    *)
ProcessStates == {"running", "hung", "ended", "crashed"}

Accesses(n) == failures + n <= MaxFailures /\ failures' = failures + n
Works == Accesses(0)
Fails == Accesses(1)
Goes(state) == process' = state
Runs == Goes("running")

BusInit == failures = 0 /\ process = "running"
BusTypeOK == failures \in 0 .. MaxFailures /\ process \in ProcessStates
=============================================================================
