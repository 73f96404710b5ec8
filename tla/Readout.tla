------------------------------ MODULE Readout -------------------------------
(***************************************************************************)
(* The way of the words of one TDC board: its output buffer, the block     *)
(* transfers of TDCV1x90::FetchEvents(), the files that ppsFetch writes,   *)
(* and the loop of a monitor (dqm/gastof.cpp, quartic.cpp) that reads each *)
(* of them once for every channel.                                         *)
(***************************************************************************)
EXTENDS Reader, FiniteSets

CONSTANTS
  Setups,         \* boards to look at: acquisition mode, number of channels,
                  \* whether it fills up a transfer or ends it early, and a
                  \* bound on its words
  BLTWords,       \* most words of a block transfer (blts / sizeof(uint32_t))
  StartTime,      \* time of the first edge
  TimeStep,       \* between one word and the next
  MaxBurst,       \* bound on the edges of an event, or between two transfers
  MaxCuts         \* bound on the changes of file and marks of a trigger

ASSUME SetupsAssumption ==
  Setups \subseteq [mode : AcquisitionModes, channels : Nat, fills : BOOLEAN, words : Nat]

ASSUME BoundsAssumption ==
  /\ {BLTWords, TimeStep} \subseteq Nat \ {0}
  /\ {StartTime, MaxBurst, MaxCuts} \subseteq Nat

(* A bound on the words of a board: its clock, which may wrap, does not    *)
(* come back to the same time, so that Recorded tells its words apart.     *)
ASSUME TimesAssumption == \A s \in Setups : s.words * TimeStep < 2 ^ 21

VARIABLES
  setup,      \* the board
  emitted,    \* the words the board put in its output buffer so far
  taken,      \* how many of them were transferred
  buffer,     \* fBuffer
  count,      \* words of the transfer under way, fillers included
  pending,    \* how many of them are not stored yet
  phase,      \* where FetchEvents() is
  gEnd,       \* the abort flag of the board
  files,      \* the files; the last one is open until the end
  job         \* the monitor

fetchVars == <<taken, buffer, count, pending, phase>>
vars == <<setup, emitted, fetchVars, gEnd, files, job>>

mode == setup.mode      \* fAcquisitionMode, acq_mode of the file headers
Channels == 0 .. setup.channels - 1
WordSize == 4
Buffer == 1 .. WordSize * BLTWords
NoWords == [i \in Buffer |-> ZeroWord]
Phases == {"idle", "transferred", "stopped"}

Phase(p) == phase = p /\ UNCHANGED setup
ToFile(words) == files' = [files EXCEPT ![Len(files)] = @ \o words]
Cuts ==
  LET all == FlattenSeq(files)
  IN Len(files) - 1 + Cardinality({i \in DOMAIN all : all[i].type = "Trigger"})
Min2(a, b) == IF a < b THEN a ELSE b
-----------------------------------------------------------------------------
(***************************************************************************)
(* The board.  In continuous storage it gives edges as they come, and      *)
(* errors; in trigger matching the edges of a window between a header and  *)
(* a trailer.  No two words of it are the same.                            *)
(***************************************************************************)
Time(i) == StartTime + i * TimeStep
RawWord(type, i) == Word(type, 0, FALSE, i)

(* What a channel or an error gives as the i-th word of the board.         *)
Kinds == (Channels \X BOOLEAN) \cup {<<setup.channels, FALSE>>}
WordOf(kind, i) ==
  IF kind[1] \in Channels THEN Edge(kind[1], kind[2], Time(i))
  ELSE RawWord("TDCError", i)

(* It goes on when it was read out: what counts for a transfer is only how *)
(* many words there are.                                                   *)
Emitted(contents) ==
  LET next == Len(emitted) + 1
      n == Len(contents)
      words(first) == [i \in 1 .. n |-> WordOf(contents[i], first + i - 1)]
  IN IF mode = "CONT_STORAGE" THEN words(next)
     ELSE <<RawWord("GlobalHeader", next)>> \o words(next + 1)
          \o <<RawWord("GlobalTrailer", next + n + 1)>>

Emit ==
  /\ Phase("idle")
  /\ ~gEnd
  /\ taken = Len(emitted)
  /\ \E n \in 0 .. MaxBurst : \E contents \in [1 .. n -> Kinds] :
       /\ emitted' = emitted \o Emitted(contents)
       /\ Len(emitted') <= setup.words
  /\ UNCHANGED <<fetchVars, gEnd, files, job>>
-----------------------------------------------------------------------------
(***************************************************************************)
(* FetchEvents().  The transfer brings what is there, up to its size; the  *)
(* board fills it up, or ends it with a bus error.  The rest of the buffer *)
(* keeps what former transfers left, but for its first word, cleared.      *)
(***************************************************************************)
Transfer ==
  /\ Phase("idle")
  /\ ~gEnd
  /\ LET n == Min2(Len(emitted) - taken, BLTWords)
         total == IF setup.fills THEN BLTWords ELSE n
     IN /\ buffer' = [i \in Buffer |->
             CASE i <= n -> emitted[taken + i]
               [] i \in n + 1 .. total -> Mark("Filler")
               [] OTHER -> IF i = 1 THEN ZeroWord ELSE buffer[i]]
        /\ taken' = taken + n
        /\ pending' = n
        /\ count' = total
  /\ phase' = "transferred"
  /\ UNCHANGED <<emitted, gEnd, files, job>>

NotZero == {w \in TDCEvents : w # ZeroWord}

(* Mutant: the number of bytes in both modes.                              *)
Words_Bytes == Only(SubSeq(buffer, 1, WordSize * count), NotZero)

(* The loop over the words goes to count / 4 in trigger matching, and to   *)
(* count, the number of bytes, in continuous storage.                      *)
Words ==
  IF mode = "TRIG_MATCH" THEN SubSeq(buffer, 1, count)
  ELSE Only(SubSeq(buffer, 1, WordSize * count), NotZero)

(* Mutant: fillers are kept.                                               *)
Events_Fillers == Words

Events == Only(Words, {w \in TDCEvents : w.type # "Filler"})

(* The handler of the stop deletes the reader and its boards: what was not *)
(* stored is lost.                                                         *)
Stop ==
  /\ phase' = "stopped"
  /\ emitted' = SubSeq(emitted, 1, taken - pending)
  /\ taken' = taken - pending
  /\ buffer' = NoWords
  /\ count' = 0
  /\ pending' = 0

(* The end of the call.  A signal that came during the transfer stops it,  *)
(* unless the transfer failed with a code that `finished` does not list.   *)
Collect ==
  /\ Phase("transferred")
  /\ \/ /\ gEnd
        /\ Stop
        /\ UNCHANGED files
     \/ /\ phase' = "idle"
        /\ pending' = 0
        /\ count' = 0
        /\ ToFile(Events)
        /\ UNCHANGED <<emitted, taken, buffer>>
  /\ UNCHANGED <<gEnd, job>>

(* A call that finds the flag raised throws TDC_ACQ_STOP at once.          *)
StopReadout ==
  /\ Phase("idle")
  /\ gEnd
  /\ Stop
  /\ UNCHANGED <<gEnd, files, job>>

Abort ==
  /\ ~gEnd
  /\ gEnd' = TRUE
  /\ UNCHANGED <<setup, emitted, fetchVars, files, job>>

(* ppsFetch: the scaler has moved; a new burst begins.                     *)
MarkTrigger ==
  /\ Phase("idle")
  /\ Cuts < MaxCuts
  /\ ToFile(<<Mark("Trigger")>>)
  /\ UNCHANGED <<emitted, fetchVars, gEnd, job>>

ChangeFile ==
  /\ Phase("idle")
  /\ Cuts < MaxCuts
  /\ files' = Append(files, <<>>)
  /\ UNCHANGED <<emitted, fetchVars, gEnd, job>>
-----------------------------------------------------------------------------
(***************************************************************************)
(* A monitor: the file it works on, its position there and the channel it  *)
(* looks for, and for each channel the hits found so far, the number of    *)
(* measurements with a hit, and whether the channel was drawn.             *)
(***************************************************************************)
Idle(n) == [file |-> n, busy |-> FALSE, pos |-> 0, ch |-> 0,
            hits |-> [c \in Channels |-> <<>>], num |-> [c \in Channels |-> 0], drawn |-> {}]

(* Files that are closed do not change: the monitor comes after the stop.  *)
Closed(n) == phase = "stopped" /\ n \in DOMAIN files

(* FileReader::Open(), which may fail: the file is then left out.          *)
OpenFile ==
  /\ ~job.busy
  /\ Closed(job.file + 1)
  /\ \/ job' = [Idle(job.file + 1) EXCEPT !.busy = TRUE]
     \/ job' = Idle(job.file + 1)
  /\ UNCHANGED <<setup, emitted, fetchVars, gEnd, files>>

(* Mutant: the channel is tried again after an error word.                 *)
After_Retry(m) ==
  CASE m.result = "measurement" -> [job EXCEPT !.pos = m.pos]
    [] m.result = "eof" -> [job EXCEPT !.pos = 0, !.ch = @ + 1]
    [] m.result = "error" -> [job EXCEPT !.pos = 0]

(* After the last measurement of the channel its means are drawn, and the  *)
(* file is rewound; after an error word the next channel goes on from      *)
(* where the file is.                                                      *)
After(m) ==
  CASE m.result = "measurement" ->
         [job EXCEPT !.pos = m.pos,
                     !.hits[job.ch] = @ \o m.hits,
                     !.num[job.ch] = IF m.hits = <<>> THEN @ ELSE @ + 1]
    [] m.result = "eof" ->
         [job EXCEPT !.pos = 0, !.ch = @ + 1, !.drawn = @ \cup {job.ch}]
    [] m.result = "error" ->
         [job EXCEPT !.pos = m.pos, !.ch = @ + 1]

NextMeasurement ==
  /\ job.busy
  /\ job.ch < setup.channels
  /\ \E m \in {GetNextMeasurement(mode, files[job.file], job.pos, job.ch)} : job' = After(m)
  /\ UNCHANGED <<setup, emitted, fetchVars, gEnd, files>>

SavePlots ==
  /\ job.busy
  /\ job.ch = setup.channels
  /\ job' = [job EXCEPT !.busy = FALSE]
  /\ UNCHANGED <<setup, emitted, fetchVars, gEnd, files>>
-----------------------------------------------------------------------------
Init ==
  /\ setup \in Setups
  /\ emitted = <<>> /\ taken = 0
  /\ buffer = NoWords
  /\ count = 0 /\ pending = 0
  /\ phase = "idle"
  /\ gEnd = FALSE
  /\ files = << <<>> >>
  /\ job = Idle(0)

Fetch == Transfer \/ Collect \/ StopReadout
Monitor == OpenFile \/ NextMeasurement \/ SavePlots
Next == Emit \/ Fetch \/ Abort \/ MarkTrigger \/ ChangeFile \/ Monitor

(* The readout is a loop that waits for nothing, and so is the monitor     *)
(* once it has a file; signals and triggers need not come.                 *)
Spec == Init /\ [][Next]_vars /\ WF_vars(Fetch) /\ WF_vars(Monitor)
-----------------------------------------------------------------------------
TypeOK ==
  /\ setup \in Setups
  /\ taken \in 0 .. Len(emitted)
  /\ {count, pending} \subseteq 0 .. BLTWords
  /\ phase \in Phases
  /\ gEnd \in BOOLEAN
  /\ Len(files) \in 1 .. MaxCuts + 1
  /\ \A n \in DOMAIN files : \A i \in DOMAIN files[n] :
        files[n][i].type \in EventTypes \ {"Filler"}
  /\ job.file \in 0 .. Len(files)
  /\ job.busy => Closed(job.file) /\ job.pos \in 0 .. Len(files[job.file])
  /\ job.ch \in 0 .. setup.channels

(* The words of the files, without the marks of triggers.                  *)
Stored == Only(FlattenSeq(files), {w \in TDCEvents : w.type # "Trigger"})

(* What was transferred, but for the transfer that waits to be stored or   *)
(* that a stop threw away: no more than that is ever missing.              *)
Fetched == SubSeq(emitted, 1, taken - pending)

FirstOccurrences(s) ==
  LET step(acc, w) == IF Contains(acc, w) THEN acc ELSE Append(acc, w)
  IN FoldLeft(step, <<>>, s)

(***************************************************************************)
(* Whatever the sizes of the transfers, the changes of file and the moment *)
(* of the stop, the files hold every word that was transferred, in order;  *)
(* in trigger matching once.  In continuous storage words of a longer      *)
(* transfer may come again, and the word whose bits are all 0 is lost.     *)
(***************************************************************************)
Recorded ==
  IF mode = "TRIG_MATCH" THEN Stored = Fetched
  ELSE FirstOccurrences(Stored) = Only(Fetched, NotZero)

-----------------------------------------------------------------------------
File == files[job.file]
EdgesOf(words, c) == Only(words, {w \in TDCEvents : IsEdge(w) /\ w.ch = c})

(* The parts of a file within which edges of a channel can be paired: the  *)
(* events of trigger matching that are complete; in continuous storage the *)
(* parts between two triggers for channel 0, and the whole for the others. *)
Ends(c) ==
  IF mode = "TRIG_MATCH" THEN {i \in DOMAIN File : File[i].type = "GlobalTrailer"}
  ELSE {i \in DOMAIN File : c = 0 /\ File[i].type = "Trigger"} \cup {Len(File)}
Parts(c) ==
  LET ends == Only([i \in DOMAIN File |-> i], Ends(c))
  IN [k \in DOMAIN ends |->
        EdgesOf(SubSeq(File, IF k = 1 THEN 1 ELSE ends[k - 1] + 1, ends[k]), c)]

Alternate(edges) == \A i \in DOMAIN edges : edges[i].trailing = (i % 2 = 0)
Pulses(edges) == [k \in 1 .. Len(edges) \div 2 |-> <<edges[2 * k - 1], edges[2 * k]>>]
FlatMap(f(_), seqs) == FlattenSeq([k \in DOMAIN seqs |-> f(seqs[k])])

(* Channels that the monitor has read from the beginning of the file.      *)
ReadWhole == {c \in job.drawn : c = 0 \/ c - 1 \in job.drawn}

(***************************************************************************)
(* GetNextMeasurement() and SetEventsCollection() together: when the edges *)
(* of a channel alternate in each part, each pulse gives one hit, in       *)
(* order, for a channel that is drawn, unless the channel before it met an *)
(* error word and left the file where it was.                              *)
(***************************************************************************)
HitsComplete ==
  \A c \in ReadWhole :
    (\A k \in DOMAIN Parts(c) : Alternate(Parts(c)[k]))
      => job.hits[c] = FlatMap(Pulses, Parts(c))

(***************************************************************************)
(* A channel is left out only because of an error word in the file, and in *)
(* continuous storage that is channel 0, whoever caused the error.         *)
(***************************************************************************)
LeftOutForErrors ==
  \A c \in 0 .. job.ch - 1 :
    c \notin job.drawn => Has(File, IsError) /\ (mode = "CONT_STORAGE" => c = 0)

(***************************************************************************)
(* Whatever the file holds (edges that are missing, cut by a window or     *)
(* recorded twice, errors, an event cut by a change of file), each hit is  *)
(* a leading edge and a later trailing one of its channel, with no leading *)
(* edge nor end of event of it between them.                               *)
(***************************************************************************)
PairsSound ==
  job.busy => \A c \in Channels : \A k \in DOMAIN job.hits[c] :
    \E i, j \in DOMAIN File :
      /\ i < j
      /\ job.hits[c][k] = <<File[i], File[j]>>
      /\ IsLeading(File[i]) /\ File[i].ch = c
      /\ IsTrailing(File[j]) /\ File[j].ch = c
      /\ \A m \in i + 1 .. j - 1 : ~(IsLeading(File[m]) /\ File[m].ch = c)
      /\ Ends(c) \cap (i .. j - 1) = {}

(***************************************************************************)
(* GetToT() gives the width of every pulse of less than 2^16 units, though *)
(* it keeps 19 bits of the time and corrects for a wrap of 21.             *)
(***************************************************************************)
WidthsRight ==
  \A c \in Channels : \A k \in DOMAIN job.hits[c] :
    LET lead == job.hits[c][k][1]
        trail == job.hits[c][k][2]
        width == (trail.bits - lead.bits) % 2 ^ 21
    IN width < 2 ^ 16 => GetToT(GetTime(lead), GetTime(trail)) = width

(***************************************************************************)
(* In trigger matching, with one pulse at most for a channel in an event,  *)
(* scripts/DQMReader.py counts the hits that the monitors find, and its    *)
(* sum of differences is minus that of their widths when no time wraps.    *)
(***************************************************************************)
SumWidths(hits) == FoldLeft(LAMBDA acc, h : acc + GetTime(h[2]) - GetTime(h[1]), 0, hits)
ScriptAgrees ==
  mode = "TRIG_MATCH" /\ job.busy /\ job.ch = setup.channels =>
    \A c \in ReadWhole :
      LET script == ReadFile(File, Channels)
          whole == FlattenSeq(Parts(c)) = EdgesOf(File, c)
          onePulse == \A k \in DOMAIN Parts(c) :
                        Alternate(Parts(c)[k]) /\ Len(Parts(c)[k]) \in {0, 2}
      IN whole /\ onePulse =>
           /\ script.occupancy[c] = Len(job.hits[c])
           /\ script.toverthreshold[c] = -SumWidths(job.hits[c])

(***************************************************************************)
(* After a signal the readout ends, and the monitor gets through every     *)
(* file, whatever it holds.                                                *)
(***************************************************************************)
FilesDone ==
  gEnd ~> (phase = "stopped" /\ job.file = Len(files) /\ ~job.busy)
=============================================================================
