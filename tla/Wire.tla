-------------------------------- MODULE Wire --------------------------------
(***************************************************************************)
(* Messages on a stream, as Socket::FetchMessage() of src/Socket.cpp reads *)
(* them.  A message is its key and a value; texts are abstracted.          *)
(***************************************************************************)
EXTENDS Integers, Sequences

Message(k, v) == [key |-> k, val |-> v]

(* What FetchMessage() returns when recv() fails: its result is stored in  *)
(* an unsigned variable, so the error test never holds and the zeroed      *)
(* buffer becomes a message with no key.                                   *)
NoMessage == Message("INVALID_KEY", 0)

(***************************************************************************)
(* One recv() returns all that has arrived, i.e. any non-empty prefix of   *)
(* the bytes under way, and FetchMessage() keeps what comes before the     *)
(* first terminator: the first message.  Whatever was read with it is      *)
(* gone.                                                                   *)
(***************************************************************************)
Reads(stream) ==
  {[msg |-> Head(stream), rest |-> SubSeq(stream, n + 1, Len(stream))] :
     n \in 1 .. Len(stream)}
=============================================================================
