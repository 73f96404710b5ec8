------------------------------- MODULE Reader -------------------------------
(***************************************************************************)
(* The words of a TDC board as VME::TDCEvent decodes them, what            *)
(* FileReader::GetNextMeasurement() makes of a file of them,               *)
(* VME::TDCMeasurement of a measurement and scripts/DQMReader.py of a      *)
(* file, and where the displays draw a channel.  No state.                 *)
(***************************************************************************)
EXTENDS Integers, Sequences, SequencesExt

EventTypes == {"TDCMeasurement", "TDCHeader", "TDCTrailer", "TDCError",
  "GlobalHeader", "GlobalTrailer", "ETTT", "Filler", "Trigger"}
AcquisitionModes == {"CONT_STORAGE", "TRIG_MATCH"}

(***************************************************************************)
(* A word: its type, and the bits of the fields of a measurement.  Boards  *)
(* count on 21 bits.  Words are told apart by their bits only.             *)
(***************************************************************************)
TDCEvents == [type : EventTypes, ch : Nat, trailing : BOOLEAN, bits : Nat]
Word(type, ch, trailing, bits) ==
  [type |-> type, ch |-> ch, trailing |-> trailing, bits |-> bits]
Edge(ch, trailing, bits) == Word("TDCMeasurement", ch, trailing, bits % 2 ^ 21)
Mark(type) == Word(type, 0, FALSE, 0)

(* The word whose bits are all 0 is a leading edge of channel 0 at time 0. *)
ZeroWord == Edge(0, FALSE, 0)

IsEdge(w) == w.type = "TDCMeasurement"
GetChannelId(w) == IF IsEdge(w) THEN w.ch ELSE 0
IsTrailing(w) == IsEdge(w) /\ w.trailing
IsLeading(w) == IsEdge(w) /\ ~w.trailing
GetTime(w) == IF IsEdge(w) THEN w.bits % 2 ^ 19 ELSE 0

(* The words of a sequence that are in S, in their order.                  *)
Only(words, S) ==
  LET only[n \in 0 .. Len(words)] ==
        IF n = 0 THEN <<>>
        ELSE IF words[n] \in S THEN Append(only[n - 1], words[n]) ELSE only[n - 1]
  IN only[Len(words)]
-----------------------------------------------------------------------------
(***************************************************************************)
(* Mutant: the first leading edge is kept.                                 *)
(***************************************************************************)
SetEventsCollection_First(words) ==
  LET step(acc, w) ==
        IF acc.over \/ ~IsEdge(w) THEN acc
        ELSE IF ~w.trailing
        THEN [acc EXCEPT !.leading = IF @ = <<>> THEN <<w>> ELSE @]
        ELSE IF acc.leading = <<>> THEN [acc EXCEPT !.over = TRUE]
        ELSE [acc EXCEPT !.hits = Append(@, <<acc.leading[1], w>>)]
  IN FoldLeft(step, [leading |-> <<>>, over |-> FALSE, hits |-> <<>>], words).hits

(***************************************************************************)
(* A hit is a pair of edges.  SetEventsCollection() goes through the words *)
(* and returns at once at a trailing edge with no leading edge before it;  *)
(* a leading edge stays in use until the next one.                         *)
(***************************************************************************)
SetEventsCollection(words) ==
  LET step(acc, w) ==
        IF acc.over \/ ~IsEdge(w) THEN acc
        ELSE IF ~w.trailing THEN [acc EXCEPT !.leading = <<w>>]
        ELSE IF acc.leading = <<>> THEN [acc EXCEPT !.over = TRUE]
        ELSE [acc EXCEPT !.hits = Append(@, <<acc.leading[1], w>>)]
  IN FoldLeft(step, [leading |-> <<>>, over |-> FALSE, hits |-> <<>>], words).hits

(* Mutant: the result is kept on 32 bits.                                  *)
GetToT_32(lt, tt) ==
  LET wraps == tt - lt < 0 \/ tt - lt > 2 ^ 21
  IN (IF wraps THEN tt + 2 ^ 21 ELSE tt) - lt

(* The difference is unsigned, on 32 bits: a negative one is above 2^21    *)
(* too.  The result is kept on 16 bits.                                    *)
GetToT(lt, tt) ==
  LET wraps == tt - lt < 0 \/ tt - lt > 2 ^ 21
  IN ((IF wraps THEN tt + 2 ^ 21 ELSE tt) - lt) % 2 ^ 16
-----------------------------------------------------------------------------
(* Mutant: words that are no measurement count for all channels.           *)
Collects_All(m, w, c) == IsEdge(w) => w.ch = c

(***************************************************************************)
(* GetNextMeasurement(): which words of the file are collected for channel *)
(* c after position pos, and at which of them the search may stop.  In     *)
(* continuous storage only words whose channel is c are, and all words     *)
(* that are no measurement count as channel 0.                             *)
(***************************************************************************)
Collects(m, w, c) ==
  IF m = "CONT_STORAGE" THEN GetChannelId(w) = c ELSE IsEdge(w) => w.ch = c

Collected(m, file, pos, n, c) ==
  Only(SubSeq(file, pos + 1, n), {w \in TDCEvents : Collects(m, w, c)})

Has(words, Test(_)) == \E i \in DOMAIN words : Test(words[i])
IsError(w) == w.type = "TDCError"

(* Mutant: any edge ends a measurement.                                    *)
StopsAt_Edge(m, file, pos, n, c) ==
  /\ Collects(m, file[n], c)
  /\ IF m = "CONT_STORAGE" THEN IsEdge(file[n]) \/ file[n].type = "Trigger"
     ELSE file[n].type = "GlobalTrailer"

StopsAt(m, file, pos, n, c) ==
  LET words == Collected(m, file, pos, n, c) IN
  /\ Collects(m, file[n], c)
  /\ IF m = "CONT_STORAGE"
     THEN \/ Has(words, IsLeading) /\ Has(words, IsTrailing)
          \/ file[n].type = "Trigger"
     ELSE file[n].type = "GlobalTrailer"

(* The three ways in which it returns, and where it leaves the file.       *)
GetNextMeasurement(m, file, pos, c) ==
  LET stops == {n \in pos + 1 .. Len(file) : StopsAt(m, file, pos, n, c)} IN
  IF stops = {} THEN [result |-> "eof", pos |-> Len(file), hits |-> <<>>]
  ELSE LET n == CHOOSE i \in stops : \A k \in stops : i <= k
           words == Collected(m, file, pos, n, c)
       IN IF Has(words, IsError)
          THEN [result |-> "error", pos |-> n, hits |-> <<>>]
          ELSE [result |-> "measurement", pos |-> n,
                hits |-> SetEventsCollection(words)]
-----------------------------------------------------------------------------
(***************************************************************************)
(* Mutant: the edges of the last event are not forgotten.                  *)
(***************************************************************************)
ReadFile_NoReset(file, channels) ==
  LET none == [c \in channels |-> 0]
      sum(acc) == [c \in channels |-> acc.toverthreshold[c] + acc.lead[c] - acc.trail[c]]
      step(acc, w) ==
        CASE w.type = "GlobalTrailer" -> [acc EXCEPT !.toverthreshold = sum(acc)]
          [] IsLeading(w) -> [acc EXCEPT !.lead[w.ch] = GetTime(w)]
          [] IsTrailing(w) -> [acc EXCEPT !.trail[w.ch] = GetTime(w),
                                          !.occupancy[w.ch] = @ + 1]
          [] OTHER -> acc
  IN FoldLeft(step, [lead |-> none, trail |-> none, toverthreshold |-> none,
                     occupancy |-> none, nerrors |-> 0, ntriggers |-> 0], file)

(***************************************************************************)
(* scripts/DQMReader.py: the last edges of each channel in an event, the   *)
(* sum over events of their difference, and the number of trailing edges.  *)
(***************************************************************************)
ReadFile(file, channels) ==
  LET none == [c \in channels |-> 0]
      sum(acc) == [c \in channels |-> acc.toverthreshold[c] + acc.lead[c] - acc.trail[c]]
      step(acc, w) ==
        CASE w.type = "GlobalHeader" -> [acc EXCEPT !.lead = none, !.trail = none]
          [] w.type = "GlobalTrailer" -> [acc EXCEPT !.toverthreshold = sum(acc)]
          [] IsLeading(w) -> [acc EXCEPT !.lead[w.ch] = GetTime(w)]
          [] IsTrailing(w) -> [acc EXCEPT !.trail[w.ch] = GetTime(w),
                                          !.occupancy[w.ch] = @ + 1]
          [] IsError(w) -> [acc EXCEPT !.nerrors = @ + 1]
          [] w.type = "ETTT" -> [acc EXCEPT !.ntriggers = @ + 1]
          [] OTHER -> acc
  IN FoldLeft(step, [lead |-> none, trail |-> none, toverthreshold |-> none,
                     occupancy |-> none, nerrors |-> 0, ntriggers |-> 0], file)
=============================================================================
