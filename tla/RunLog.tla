------------------------------- MODULE RunLog -------------------------------
(***************************************************************************)
(* What an acquisition promises to whoever reads its files later: runs     *)
(* and bursts are numbered in order and without repetition, and the header *)
(* of each file that is published names one burst of the log, once.  There *)
(* are no processes, messages or transactions here.                        *)
(***************************************************************************)
EXTENDS Integers, Sequences

CONSTANT Boards

VARIABLES
  runs,       \* number of runs opened so far; they are numbered from 1
  log,        \* the bursts opened so far, as pairs <<run, burst>>
  published   \* headers of the files published so far: <<run, burst, board>>

logVars == <<runs, log, published>>

Init == runs = 0 /\ log = <<>> /\ published = <<>>

(* Bursts of run r opened so far.                                          *)
BurstsOf(r) == {i \in 1 .. Len(log) : log[i][1] = r}

NewRun ==
  /\ runs' = runs + 1
  /\ UNCHANGED <<log, published>>

(* The next burst of the last run: its number is one more than that of the *)
(* last one, and 0 for the first.                                          *)
NewBurst ==
  /\ runs > 0
  /\ \E b \in 0 .. Len(log) :
       /\ \A i \in BurstsOf(runs) : log[i][2] < b
       /\ b = 0 \/ \E i \in BurstsOf(runs) : log[i][2] = b - 1
       /\ log' = Append(log, <<runs, b>>)
  /\ UNCHANGED <<runs, published>>

(* A file is published: its header names a burst that was opened, and no   *)
(* file of the same board published before has the same.                   *)
Publish ==
  /\ \E i \in 1 .. Len(log) : \E board \in Boards :
       LET header == <<log[i][1], log[i][2], board>> IN
       /\ \A j \in 1 .. Len(published) : published[j] # header
       /\ published' = Append(published, header)
  /\ UNCHANGED <<runs, log>>

Next == NewRun \/ NewBurst \/ Publish

Spec == Init /\ [][Next]_logVars
=============================================================================
