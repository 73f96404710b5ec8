----------------------------- MODULE Membership -----------------------------
(***************************************************************************)
(* What the registry of the master promises (the sets fSocketsConnected    *)
(* and fMaster of include/Socket.h, whatever descriptors stand for them):  *)
(* a client joins once, as a plain client; it is given the type it         *)
(* declared, once, and no other; it is dropped only after it withdrew, by  *)
(* its own request or by ending, or when the master closes for good.       *)
(***************************************************************************)
CONSTANTS
  Clients,
  TypeOf,   \* the type each client declares
  Plain     \* the type every client has until then

VARIABLES
  members,    \* pairs <<client, type>>
  left,       \* clients that are members no more, or were never let in
  withdrawn,  \* clients that asked to be removed, or ended
  open        \* is there a master?

membershipVars == <<members, left, withdrawn, open>>

Joined == {member[1] : member \in members}

Init ==
  /\ members = {}
  /\ left = {}
  /\ withdrawn = {}
  /\ open = TRUE

Join(c) ==
  /\ open
  /\ c \notin Joined \cup left
  /\ members' = members \cup {<<c, Plain>>}
  /\ UNCHANGED <<left, withdrawn, open>>

Declare(c) ==
  /\ <<c, Plain>> \in members
  /\ members' = (members \ {<<c, Plain>>}) \cup {<<c, TypeOf[c]>>}
  /\ UNCHANGED <<left, withdrawn, open>>

Withdraw(c) ==
  /\ withdrawn' = withdrawn \cup {c}
  /\ UNCHANGED <<members, left, open>>

Drop(c) ==
  /\ c \in withdrawn \cap Joined
  /\ members' = {member \in members : member[1] # c}
  /\ left' = left \cup {c}
  /\ UNCHANGED <<withdrawn, open>>

(* The clients that were waiting to be let in are turned away too.         *)
Shutdown ==
  /\ open
  /\ open' = FALSE
  /\ members' = {}
  /\ left \cup Joined \subseteq left'
  /\ left' \subseteq Clients
  /\ UNCHANGED withdrawn

Next ==
  \/ \E c \in Clients : Join(c) \/ Declare(c) \/ Withdraw(c) \/ Drop(c)
  \/ Shutdown

Spec == Init /\ [][Next]_membershipVars
=============================================================================
