------------------------------ MODULE TDCProofs ------------------------------
(***************************************************************************)
(* Lemmas about TDCBoard: what the micro controller makes of each command  *)
(* and of each question, in step or out of step, which settings it may     *)
(* spoil, and what a call of the driver changes.                           *)
(***************************************************************************)
EXTENDS TDCBoard, SequenceTheorems, FiniteSetTheorems, TLAPS

(* Whatever a command to the micro controller comes to, at most one access *)
(* failed.                                                                 *)
LEMMA OutcomesOfTDC ==
  /\ \A m, words : \A o \in Sending(m, words) : o.failed \in {0, 1}
  /\ \A m, command, n : \A o \in Asking(m, command, n) : o.failed \in {0, 1}
<1>1. \A m, failed, hung, data : Outcome(m, failed, hung, data).failed = failed
  BY DEF Outcome
<1>2. ASSUME NEW m, NEW words, NEW o \in Sending(m, words) PROVE o.failed \in {0, 1}
  <2> DEFINE after(k) == TakeAll(m, SubSeq(words, 1, k))
             sent == {k \in 0 .. Len(words) : \A i \in 0 .. k - 1 : after(i).answer = <<>>}
             all == Len(words) \in sent
  <2>1. o \in {Outcome(after(k), 1, FALSE, <<>>) : k \in sent \ {Len(words)}}
               \cup (IF all THEN {Outcome(after(Len(words)), 0, FALSE, <<>>)}
                     ELSE {Outcome(m, 0, TRUE, <<>>)})
    BY <1>2 DEF Sending
  <2> HIDE DEF after, sent, all
  <2>2. QED
    BY <2>1 DEF Outcome
<1>3. ASSUME NEW m, NEW command, NEW n, NEW o \in Asking(m, command, n) PROVE o.failed \in {0, 1}
  <2> DEFINE a == Take(m, Op(command))
             left(i) == [a EXCEPT !.answer = SubSeq(@, i + 1, Len(@))]
             whole == Len(a.answer) = n
  <2>1. CASE m.answer # <<>>
    <3>1. o \in {Outcome(m, 0, TRUE, <<>>), Outcome(m, 1, FALSE, <<>>)}
      BY <1>3, <2>1, Zenon DEF Asking
    <3>2. QED
      BY <3>1 DEF Outcome
  <2>2. CASE m.answer = <<>>
    <3>1. o \in {Outcome(left(Len(a.answer)), 0, ~whole, a.answer), Outcome(m, 1, FALSE, <<>>)}
                \cup {Outcome(left(i), 1, FALSE, <<>>) : i \in 0 .. (IF whole THEN n - 1 ELSE 0)}
      BY <1>3, <2>2, Zenon DEF Asking
    <3> HIDE DEF left, whole
    <3>2. QED
      BY <3>1 DEF Outcome
  <2>3. QED
    BY <2>1, <2>2
<1>4. QED
  BY <1>2, <1>3

LEMMA PrefixType ==
  ASSUME NEW S, NEW w \in Seq(S), NEW k \in 0 .. Len(w)
  PROVE  SubSeq(w, 1, k) \in Seq(S)
<1>1. \A i \in 1 .. k : w[i] \in S
  OBVIOUS
<1>2. QED
  BY <1>1, SubSeqProperties

-----------------------------------------------------------------------------
(* The commands.                                                           *)
LEMMA Commands ==
  /\ DOMAIN Setters = {0, 1, 16, 17, 20, 34, 36, 48, 53, 66, 68, 80, 200}
  /\ Setters[0] = Sets("acquisition", <<TRIG_MATCH>>, 0)
  /\ Setters[1] = Sets("acquisition", <<CONT_STORAGE>>, 0)
  /\ Setters[34] = Sets("detection", <<>>, 1)
  /\ Setters[36] = Sets("resolution", <<>>, 1)
  /\ Setters[20] = Sets("subtraction", <<1>>, 0)
  /\ Setters[16] = Sets("width", <<>>, 1)
  /\ Setters[17] = Sets("window", <<>>, 1)
  /\ Setters[80] = Sets("offset", <<>>, 2)
  /\ Setters[48] = Sets("headers", <<1>>, 0)
  /\ Setters[53] = Sets("marks", <<1>>, 0)
  /\ Setters[66] = Sets("channels", <<AllChannels, AllChannels>>, 0)
  /\ Setters[68] = Sets("channels", <<>>, 2)
  /\ Setters[200] = Sets("clock", <<>>, 1)
BY DEF Setters, TRG_MATCH, CONT_STOR, SET_DETECTION, SET_TR_LEAD_LSB, EN_SUB_TRG, SET_WIN_WIDTH,
       SET_WIN_OFFS, SET_GLOB_OFFS, EN_HEAD_TRAILER, EN_ERROR_MARK, EN_ALL_CHANNEL,
       WRITE_EN_PATTERN, SET_DLL_CLOCK

LEMMA CommandShapes ==
  ASSUME NEW c \in DOMAIN Setters
  PROVE  /\ c \in Nat /\ Setters[c].operands \in {0, 1, 2} /\ Setters[c].setting \in Settings
         /\ Setters[c].operands > 0 => Setters[c].words = <<>> /\ Setters[c].setting # "acquisition"
         /\ Setters[c].operands # 1 => Setters[c].setting # "detection"
         /\ Setters[c].setting = "acquisition" => Setters[c].words \in {<<TRIG_MATCH>>, <<CONT_STORAGE>>}
         /\ c \notin {READ_ACQ_MOD, READ_DETECTION, READ_TRG_CONF}
<1>1. c \in {0, 1, 16, 17, 20, 34, 36, 48, 53, 66, 68, 80, 200}
  BY Commands
<1>2. Setters[c].setting \in Settings
  BY DEF Settings
<1>3. c \in Nat /\ c \notin {READ_ACQ_MOD, READ_DETECTION, READ_TRG_CONF}
  BY <1>1 DEF READ_ACQ_MOD, READ_DETECTION, READ_TRG_CONF
<1>4. CASE c \in {0, 1}
  BY <1>2, <1>3, <1>4, Commands DEF Sets
<1>5. CASE c \in {16, 17, 34, 36, 200}
  BY <1>2, <1>3, <1>5, Commands DEF Sets
<1>6. CASE c \in {68, 80}
  BY <1>2, <1>3, <1>6, Commands DEF Sets
<1>7. CASE c \in {20, 48, 53, 66}
  BY <1>2, <1>3, <1>7, Commands DEF Sets
<1>. QED
  BY <1>1, <1>4, <1>5, <1>6, <1>7

-----------------------------------------------------------------------------
(* A command is one word and at most two operands: the folds over its      *)
(* words unfold.                                                           *)
Rest(x) == x \ {Max(x)}
Fold(m, s, g) ==
  [x \in SUBSET DOMAIN s |-> IF x = {} THEN m ELSE Take(g[Rest(x)], s[Max(x)])]

LEMMA FoldOfTakes ==
  ASSUME NEW m, NEW s
  PROVE  TakeAll(m, s) = (CHOOSE g : g = Fold(m, s, g))[DOMAIN s]
<1> HIDE DEF Take
<1>. QED
  BY Zenon DEF TakeAll, FoldLeft, MapThenFoldSet, Rest, Fold

LEMMA MaxOf ==
  /\ Max({1}) = 1 /\ Max({2}) = 2 /\ Max({3}) = 3 /\ Max({1, 2}) = 2 /\ Max({1, 3}) = 3
  /\ Max({2, 3}) = 3 /\ Max({1, 2, 3}) = 3
BY DEF Max

LEMMA Subsets3 ==
  ASSUME NEW x \in SUBSET {1, 2, 3}
  PROVE  x \in {{}, {1}, {2}, {3}, {1, 2}, {1, 3}, {2, 3}, {1, 2, 3}}
OBVIOUS

LEMMA RestOf ==
  /\ Rest({1}) = {} /\ Rest({2}) = {} /\ Rest({3}) = {} /\ Rest({1, 2}) = {1}
  /\ Rest({1, 3}) = {1} /\ Rest({2, 3}) = {2} /\ Rest({1, 2, 3}) = {1, 2}
BY MaxOf DEF Rest

LEMMA FoldExists ==
  ASSUME NEW m, NEW s, DOMAIN s \subseteq {1, 2, 3}
  PROVE  \E g : g = Fold(m, s, g)
<1> DEFINE g1(x) == IF x = {} THEN m ELSE Take(m, s[Max(x)])
           g2(x) == IF x = {} THEN m ELSE Take(g1(Rest(x)), s[Max(x)])
           g3(x) == IF x = {} THEN m ELSE Take(g2(Rest(x)), s[Max(x)])
           g == [x \in SUBSET DOMAIN s |-> g3(x)]
<1> HIDE DEF Take
<1>1. ASSUME NEW x \in SUBSET DOMAIN s, x # {}
      PROVE  Rest(x) \in SUBSET DOMAIN s /\ g3(Rest(x)) = g2(Rest(x))
  <2>1. x \in {{1}, {2}, {3}, {1, 2}, {1, 3}, {2, 3}, {1, 2, 3}}
    BY <1>1, Subsets3
  <2>2. Rest(x) \subseteq x /\ Rest(x) \in {{}, {1}, {2}, {1, 2}}
    BY <2>1, RestOf DEF Rest
  <2>3. g3({}) = g2({}) /\ g2({}) = g1({}) /\ g1({}) = m
    OBVIOUS
  <2>4. g3({1}) = g2({1}) /\ g3({2}) = g2({2}) /\ g2({1}) = g1({1})
    BY <2>3, RestOf, Zenon
  <2>5. g3({1, 2}) = g2({1, 2})
    BY <2>4, RestOf, Zenon
  <2>. QED
    BY <2>2, <2>3, <2>4, <2>5
<1> HIDE DEF g1, g2
<1>2. g = Fold(m, s, g)
  <2>1. \A x \in SUBSET DOMAIN s : g[x] = IF x = {} THEN m ELSE Take(g[Rest(x)], s[Max(x)])
    <3>1. \A x \in SUBSET DOMAIN s : g[x] = g3(x)
      OBVIOUS
    <3> HIDE DEF g
    <3>. QED
      BY <1>1, <3>1
  <2>2. g = [x \in SUBSET DOMAIN s |-> g[x]]
    OBVIOUS
  <2> HIDE DEF g
  <2>3. g = [x \in SUBSET DOMAIN s |-> IF x = {} THEN m ELSE Take(g[Rest(x)], s[Max(x)])]
    BY <2>1, <2>2
  <2>. QED
    BY <2>3 DEF Fold
<1>. QED
  BY <1>2

Unfolds(g, m, s) ==
  /\ TakeAll(m, s) = g[DOMAIN s]
  /\ \A x \in SUBSET DOMAIN s : g[x] = IF x = {} THEN m ELSE Take(g[Rest(x)], s[Max(x)])

LEMMA Unfolded ==
  ASSUME NEW m, NEW s, DOMAIN s \subseteq {1, 2, 3}
  PROVE  \E g : Unfolds(g, m, s)
<1> HIDE DEF Take
<1> DEFINE g == CHOOSE h : h = Fold(m, s, h)
<1>1. g = Fold(m, s, g)
  BY FoldExists
<1>2. TakeAll(m, s) = g[DOMAIN s]
  BY FoldOfTakes
<1> HIDE DEF g
<1>3. \A x \in SUBSET DOMAIN s : Fold(m, s, g)[x] = IF x = {} THEN m ELSE Take(g[Rest(x)], s[Max(x)])
  BY DEF Fold
<1>. QED
  BY <1>1, <1>2, <1>3 DEF Unfolds

LEMMA TakeNone ==
  ASSUME NEW m
  PROVE  TakeAll(m, <<>>) = m
<1> HIDE DEF Take
<1>1. DOMAIN <<>> = {}
  OBVIOUS
<1>. QED
  BY <1>1, Unfolded DEF Unfolds

LEMMA TakeOne ==
  ASSUME NEW m, NEW a
  PROVE  TakeAll(m, <<a>>) = Take(m, a)
<1> HIDE DEF Take
<1> DEFINE s == <<a>>
<1>1. DOMAIN s = {1} /\ s[1] = a
  OBVIOUS
<1> HIDE DEF s
<1>2. PICK g : Unfolds(g, m, s)
  BY <1>1, Unfolded
<1>3. g[{}] = m /\ g[{1}] = Take(g[{}], s[1])
  BY <1>1, <1>2, MaxOf, RestOf DEF Unfolds
<1>. QED
  BY <1>1, <1>2, <1>3 DEF Unfolds, s

LEMMA TakeTwo ==
  ASSUME NEW m, NEW a, NEW b
  PROVE  TakeAll(m, <<a, b>>) = Take(Take(m, a), b)
<1> HIDE DEF Take
<1> DEFINE s == <<a, b>>
<1>1. DOMAIN s = {1, 2} /\ s[1] = a /\ s[2] = b
  OBVIOUS
<1> HIDE DEF s
<1>2. PICK g : Unfolds(g, m, s)
  BY <1>1, Unfolded
<1>3. g[{}] = m /\ g[{1}] = Take(g[{}], s[1]) /\ g[{1, 2}] = Take(g[{1}], s[2])
  BY <1>1, <1>2, MaxOf, RestOf DEF Unfolds
<1>. QED
  BY <1>1, <1>2, <1>3 DEF Unfolds, s

LEMMA TakeThree ==
  ASSUME NEW m, NEW a, NEW b, NEW c
  PROVE  TakeAll(m, <<a, b, c>>) = Take(Take(Take(m, a), b), c)
<1> HIDE DEF Take
<1> DEFINE s == <<a, b, c>>
<1>1. DOMAIN s = {1, 2, 3} /\ s[1] = a /\ s[2] = b /\ s[3] = c
  OBVIOUS
<1> HIDE DEF s
<1>2. PICK g : Unfolds(g, m, s)
  BY <1>1, Unfolded
<1>3. /\ g[{}] = m /\ g[{1}] = Take(g[{}], s[1]) /\ g[{1, 2}] = Take(g[{1}], s[2])
      /\ g[{1, 2, 3}] = Take(g[{1, 2}], s[3])
  BY <1>1, <1>2, MaxOf, RestOf DEF Unfolds
<1>. QED
  BY <1>1, <1>2, <1>3 DEF Unfolds, s

-----------------------------------------------------------------------------
(* Sequences of one, two or three words.                                   *)
LEMMA AppendTo ==
  ASSUME NEW S, NEW s \in Seq(S), NEW w \in S, NEW t \in Seq(S), Len(t) = Len(s) + 1,
         \A i \in 1 .. Len(s) : t[i] = s[i], t[Len(s) + 1] = w
  PROVE  Append(s, w) = t
<1>1. /\ Append(s, w) \in Seq(S) /\ Len(Append(s, w)) = Len(s) + 1
      /\ \A i \in 1 .. Len(s) : Append(s, w)[i] = s[i]
      /\ Append(s, w)[Len(s) + 1] = w
  BY AppendProperties
<1>2. \A i \in 1 .. Len(s) + 1 : i \in 1 .. Len(s) \/ i = Len(s) + 1
  BY LenProperties
<1>3. \A i \in 1 .. Len(s) + 1 : Append(s, w)[i] = t[i]
  BY <1>1, <1>2
<1>4. Len(Append(s, w)) = Len(t)
  BY <1>1
<1>. QED
  BY <1>1, <1>3, <1>4, SeqEqual, Zenon

LEMMA AppendTuples ==
  /\ \A w : Append(<<>>, w) = <<w>>
  /\ \A a, w : Append(<<a>>, w) = <<a, w>>
  /\ \A a, b, w : Append(<<a, b>>, w) = <<a, b, w>>
<1>1. ASSUME NEW a, NEW w PROVE Append(<<a>>, w) = <<a, w>>
  <2> DEFINE S == {a, w}
             s == <<a>>
             t == <<a, w>>
  <2>1. s \in Seq(S) /\ t \in Seq(S) /\ Len(s) = 1 /\ Len(t) = 2 /\ w \in S
    OBVIOUS
  <2>2. s[1] = a /\ t[1] = a /\ t[2] = w
    OBVIOUS
  <2> HIDE DEF s, t, S
  <2>3. Len(t) = Len(s) + 1 /\ t[Len(s) + 1] = w /\ \A i \in 1 .. Len(s) : t[i] = s[i]
    BY <2>1, <2>2
  <2>4. Append(s, w) = t
    BY <2>1, <2>3, AppendTo
  <2>. QED
    BY <2>4 DEF s, t
<1>2. ASSUME NEW a, NEW b, NEW w PROVE Append(<<a, b>>, w) = <<a, b, w>>
  <2> DEFINE S == {a, b, w}
             s == <<a, b>>
             t == <<a, b, w>>
  <2>1. s \in Seq(S) /\ t \in Seq(S) /\ Len(s) = 2 /\ Len(t) = 3 /\ w \in S
    OBVIOUS
  <2>2. s[1] = a /\ s[2] = b /\ t[1] = a /\ t[2] = b /\ t[3] = w
    OBVIOUS
  <2> HIDE DEF s, t, S
  <2>3. Len(t) = Len(s) + 1 /\ t[Len(s) + 1] = w /\ \A i \in 1 .. Len(s) : t[i] = s[i]
    BY <2>1, <2>2
  <2>4. Append(s, w) = t
    BY <2>1, <2>3, AppendTo
  <2>. QED
    BY <2>4 DEF s, t
<1>3. ASSUME NEW w PROVE Append(<<>>, w) = <<w>>
  OBVIOUS
<1>. QED
  BY <1>1, <1>2, <1>3

LEMMA PrefixIs ==
  ASSUME NEW S, NEW s \in Seq(S), NEW t \in Seq(S), Len(t) <= Len(s),
         \A i \in 1 .. Len(t) : t[i] = s[i]
  PROVE  SubSeq(s, 1, Len(t)) = t
<1> DEFINE u == SubSeq(s, 1, Len(t))
<1>1. Len(t) \in 0 .. Len(s)
  BY LenProperties
<1>2. u \in Seq(S) /\ Len(u) = Len(t) /\ \A i \in 1 .. Len(t) : u[i] = s[i]
  BY <1>1, SubSeqProperties, PrefixType
<1>. QED
  BY <1>2, SeqEqual

LEMMA PrefixTuples ==
  /\ \A a : SubSeq(<<a>>, 1, 0) = <<>> /\ SubSeq(<<a>>, 1, 1) = <<a>>
  /\ \A a, b : /\ SubSeq(<<a, b>>, 1, 0) = <<>> /\ SubSeq(<<a, b>>, 1, 1) = <<a>>
               /\ SubSeq(<<a, b>>, 1, 2) = <<a, b>>
  /\ \A a, b, c : /\ SubSeq(<<a, b, c>>, 1, 0) = <<>> /\ SubSeq(<<a, b, c>>, 1, 1) = <<a>>
                  /\ SubSeq(<<a, b, c>>, 1, 2) = <<a, b>>
                  /\ SubSeq(<<a, b, c>>, 1, 3) = <<a, b, c>>
<1>1. ASSUME NEW S, NEW s \in Seq(S), NEW t \in Seq(S), NEW k \in Nat, Len(t) = k, k <= Len(s),
             \A i \in 1 .. k : t[i] = s[i]
      PROVE  SubSeq(s, 1, k) = t
  BY <1>1, PrefixIs
<1>2. /\ \A a, b : \A i \in 1 .. 1 : <<a>>[i] = <<a, b>>[i]
      /\ \A a, b, c : \A i \in 1 .. 1 : <<a>>[i] = <<a, b, c>>[i]
      /\ \A a, b, c : \A i \in 1 .. 2 : <<a, b>>[i] = <<a, b, c>>[i]
  OBVIOUS
<1>3. /\ \A a : SubSeq(<<a>>, 1, 0) = <<>>
      /\ \A a, b : SubSeq(<<a, b>>, 1, 0) = <<>>
      /\ \A a, b, c : SubSeq(<<a, b, c>>, 1, 0) = <<>>
  OBVIOUS
<1>4. ASSUME NEW a PROVE SubSeq(<<a>>, 1, 1) = <<a>>
  <2> DEFINE s == <<a>>
  <2>1. s \in Seq({a}) /\ Len(s) = 1
    OBVIOUS
  <2> HIDE DEF s
  <2>2. SubSeq(s, 1, 1) = s
    BY <2>1, <1>1
  <2>. QED
    BY <2>2 DEF s
<1>5. ASSUME NEW a, NEW b PROVE SubSeq(<<a, b>>, 1, 1) = <<a>> /\ SubSeq(<<a, b>>, 1, 2) = <<a, b>>
  <2> DEFINE s == <<a, b>>
             t == <<a>>
  <2>1. s \in Seq({a, b}) /\ Len(s) = 2 /\ t \in Seq({a, b}) /\ Len(t) = 1
    OBVIOUS
  <2>2. \A i \in 1 .. 1 : t[i] = s[i]
    BY <1>2
  <2> HIDE DEF s, t
  <2>3. SubSeq(s, 1, 1) = t
    BY <2>1, <2>2, <1>1
  <2>4. SubSeq(s, 1, 2) = s
    BY <2>1, <1>1
  <2>. QED
    BY <2>3, <2>4 DEF s, t
<1>6. ASSUME NEW a, NEW b, NEW c
      PROVE  /\ SubSeq(<<a, b, c>>, 1, 1) = <<a>> /\ SubSeq(<<a, b, c>>, 1, 2) = <<a, b>>
             /\ SubSeq(<<a, b, c>>, 1, 3) = <<a, b, c>>
  <2> DEFINE S == {a, b, c}
             s == <<a, b, c>>
             t == <<a>>
             u == <<a, b>>
  <2>1. /\ s \in Seq(S) /\ Len(s) = 3 /\ t \in Seq(S) /\ Len(t) = 1
        /\ u \in Seq(S) /\ Len(u) = 2
    OBVIOUS
  <2>2. (\A i \in 1 .. 1 : t[i] = s[i]) /\ (\A i \in 1 .. 2 : u[i] = s[i])
    BY <1>2
  <2> HIDE DEF s, t, u, S
  <2>3. SubSeq(s, 1, 1) = t
    BY <2>1, <2>2, <1>1
  <2>4. SubSeq(s, 1, 2) = u
    BY <2>1, <2>2, <1>1
  <2>5. SubSeq(s, 1, 3) = s
    BY <2>1, <1>1
  <2>. QED
    BY <2>3, <2>4, <2>5 DEF s, t, u
<1>. QED
  BY <1>3, <1>4, <1>5, <1>6

LEMMA TailTuples ==
  /\ \A a : Tail(<<a>>) = <<>>
  /\ \A a, b : Tail(<<a, b>>) = <<b>>
  /\ \A a, b, c : Tail(<<a, b, c>>) = <<b, c>>
OBVIOUS

LEMMA AfterEmpty ==
  /\ \A a : <<>> \o <<a>> = <<a>>
  /\ \A a, b : <<>> \o <<a, b>> = <<a, b>>
<1>1. ASSUME NEW a PROVE <<>> \o <<a>> = <<a>>
  <2>1. <<a>> \in Seq({a})
    OBVIOUS
  <2>. QED
    BY <2>1, ConcatEmptySeq
<1>2. ASSUME NEW a, NEW b PROVE <<>> \o <<a, b>> = <<a, b>>
  <2>1. <<a, b>> \in Seq({a, b})
    OBVIOUS
  <2>. QED
    BY <2>1, ConcatEmptySeq
<1>. QED
  BY <1>1, <1>2
-----------------------------------------------------------------------------
(* The micro controller: what it holds, how many operands it waits for,    *)
(* and the setting that they go to.                                        *)
SettingsInv(f) ==
  /\ f = [s \in Settings |-> f[s]]
  /\ f["acquisition"] \in {<<TRIG_MATCH>>, <<CONT_STORAGE>>}
  /\ \E x \in Nat : f["detection"] = <<x>>

Opcodes(n) == {op \in Nat : op \div 256 \in DOMAIN Setters /\ Setters[op \div 256].operands \geq n}
MicroInv(m) ==
  /\ m = Micro(m.setting, m.waiting, m.answer)
  /\ SettingsInv(m.setting)
  /\ \/ m.waiting = <<>>
     \/ \E op \in Opcodes(1) : m.waiting = <<op>>
     \/ \E op \in Opcodes(2), x \in Nat : m.waiting = <<op, x>>
  /\ m.waiting = <<>> \/ m.answer = <<>>

Pending(m) == Setters[m.waiting[1] \div 256]
Missing(m) == IF m.waiting = <<>> THEN 0 ELSE Pending(m).operands - Len(m.waiting) + 1

LEMMA Strings == {"acquisition", "detection"} \subseteq Settings
<1>1. Setters[0].setting = "acquisition" /\ Setters[34].setting = "detection" /\ {0, 34} \subseteq DOMAIN Setters
  BY Commands DEF Sets
<1>. QED
  BY <1>1 DEF Settings

Changed(f, k, v) == [f EXCEPT ![k] = v]

LEMMA SettingKept ==
  ASSUME NEW f, SettingsInv(f), NEW k \in Settings, NEW v,
         k = "acquisition" => v \in {<<TRIG_MATCH>>, <<CONT_STORAGE>>},
         k = "detection" => \E x \in Nat : v = <<x>>
  PROVE  SettingsInv(Changed(f, k, v))
<1> DEFINE g == Changed(f, k, v)
<1>1. DOMAIN f = Settings
  BY DEF SettingsInv
<1>2. g = [s \in Settings |-> g[s]] /\ \A s \in Settings : g[s] = IF s = k THEN v ELSE f[s]
  BY <1>1 DEF Changed
<1> HIDE DEF g
<1>3. QED
  BY <1>2, Strings DEF SettingsInv, g

LEMMA ChangedAt ==
  ASSUME NEW f, SettingsInv(f), NEW k \in Settings, NEW v
  PROVE  \A s \in Settings : Changed(f, k, v)[s] = IF s = k THEN v ELSE f[s]
<1>1. DOMAIN f = Settings
  BY DEF SettingsInv
<1>. QED
  BY <1>1 DEF Changed

LEMMA MicroFields ==
  ASSUME NEW f, NEW w, NEW a
  PROVE  /\ Micro(f, w, a).setting = f /\ Micro(f, w, a).waiting = w /\ Micro(f, w, a).answer = a
         /\ \A x : [Micro(f, w, a) EXCEPT !.answer = x] = Micro(f, w, x)
BY DEF Micro

LEMMA OpcodesOf ==
  /\ \A op \in Opcodes(1) : /\ op \in Nat /\ op \div 256 \in DOMAIN Setters
                            /\ Setters[op \div 256].operands \in {1, 2}
  /\ \A op \in Opcodes(2) : op \in Opcodes(1) /\ Setters[op \div 256].operands = 2
BY CommandShapes DEF Opcodes

(* The words of a command that is not complete.                            *)
LEMMA WaitingOf ==
  ASSUME NEW m, MicroInv(m), m.waiting # <<>>
  PROVE  \E op \in Opcodes(1) : \/ m.waiting = <<op>>
                                \/ op \in Opcodes(2) /\ \E x \in Nat : m.waiting = <<op, x>>
<1>1. CASE \E op \in Opcodes(1) : m.waiting = <<op>>
  <2>1. PICK op \in Opcodes(1) : m.waiting = <<op>>
    BY <1>1
  <2>. QED
    BY <2>1
<1>2. CASE \E op \in Opcodes(2), x \in Nat : m.waiting = <<op, x>>
  BY <1>2, OpcodesOf
<1>. QED
  BY <1>1, <1>2 DEF MicroInv

LEMMA MissingOf ==
  ASSUME NEW m, MicroInv(m)
  PROVE  /\ Missing(m) \in {0, 1, 2}
         /\ Missing(m) = 0 <=> m.waiting = <<>>
         /\ Missing(m) # 0 => /\ m.waiting[1] \div 256 \in DOMAIN Setters
                              /\ m.answer = <<>>
                              /\ Pending(m).operands >= Missing(m)
                              /\ Missing(m) = 1 => \/ Len(m.waiting) = 1 /\ Pending(m).operands = 1
                                                   \/ Len(m.waiting) = 2 /\ Pending(m).operands = 2
                              /\ Missing(m) = 2 => Len(m.waiting) = 1 /\ Pending(m).operands = 2
<1>1. CASE m.waiting = <<>>
  BY <1>1 DEF Missing
<1>2. CASE m.waiting # <<>>
  <2>1. PICK op \in Opcodes(1) : \/ m.waiting = <<op>>
                                 \/ op \in Opcodes(2) /\ \E x \in Nat : m.waiting = <<op, x>>
    BY <1>2, WaitingOf
  <2>2. /\ m.waiting[1] = op /\ Len(m.waiting) \in {1, 2}
        /\ Len(m.waiting) = 2 => op \in Opcodes(2)
    BY <2>1
  <2>3. op \div 256 \in DOMAIN Setters /\ Pending(m) = Setters[op \div 256]
    BY <2>1, <2>2 DEF Opcodes, Pending
  <2>4. Pending(m).operands \in {1, 2} /\ (Len(m.waiting) = 2 => Pending(m).operands = 2)
    BY <2>1, <2>2, <2>3, CommandShapes DEF Opcodes
  <2>5. m.answer = <<>>
    BY <1>2 DEF MicroInv
  <2>6. Missing(m) = Pending(m).operands - Len(m.waiting) + 1
    BY <1>2 DEF Missing
  <2> DEFINE q == Missing(m)
             n == Pending(m).operands
             l == Len(m.waiting)
  <2>a. n \in {1, 2} /\ l \in {1, 2} /\ (l = 2 => n = 2) /\ q = n - l + 1
    BY <2>2, <2>4, <2>6
  <2> HIDE DEF q, n, l
  <2>7. q \in {1, 2} /\ n >= q
    BY <2>a
  <2>8. /\ q = 1 => (l = 1 /\ n = 1) \/ (l = 2 /\ n = 2)
        /\ q = 2 => l = 1 /\ n = 2
    BY <2>a
  <2>. QED
    BY <1>2, <2>2, <2>3, <2>5, <2>7, <2>8 DEF q, n, l
<1>. QED
  BY <1>1, <1>2

(* An operand that it waits for.                                           *)
LEMMA TakeOperand ==
  ASSUME NEW m, MicroInv(m), Missing(m) # 0, NEW word \in Nat
  PROVE  /\ MicroInv(Take(m, word)) /\ Take(m, word).answer = <<>>
         /\ Missing(Take(m, word)) = Missing(m) - 1
         /\ Missing(m) = 2 => /\ Take(m, word).setting = m.setting /\ Pending(Take(m, word)) = Pending(m)
                              /\ Take(m, word).waiting = Append(m.waiting, word)
         /\ Missing(m) = 1 =>
              Take(m, word).setting = Changed(m.setting, Pending(m).setting,
                                              Pending(m).words \o Tail(Append(m.waiting, word)))
<1> DEFINE c == m.waiting[1] \div 256
           words == Append(m.waiting, word)
           n == Setters[c].operands
           k == Setters[c].setting
           v == Setters[c].words \o Tail(words)
           t == Take(m, word)
<1>1. /\ c \in DOMAIN Setters /\ Pending(m) = Setters[c] /\ m.waiting # <<>> /\ m.answer = <<>>
      /\ Missing(m) \in {1, 2}
  BY MissingOf DEF Pending
<1>2. PICK op \in Opcodes(1) : \/ m.waiting = <<op>>
                               \/ op \in Opcodes(2) /\ \E x \in Nat : m.waiting = <<op, x>>
  BY <1>1, WaitingOf
<1>3. words = <<op, word>> \/ \E x \in Nat : words = <<op, x, word>>
  BY <1>2, AppendTuples
<1>4. words[1] = op /\ words[1] \div 256 = c /\ Len(words) = Len(m.waiting) + 1
  BY <1>2, <1>3
<1>5. t = IF Len(words) <= n THEN Micro(m.setting, words, m.answer)
          ELSE Micro(Changed(m.setting, k, v), <<>>, m.answer)
  BY <1>1, <1>4, ZenonT(60) DEF Take, Changed
<1>6. /\ m = Micro(m.setting, m.waiting, m.answer) /\ SettingsInv(m.setting)
  BY DEF MicroInv
<1>8. /\ Missing(m) = 1 => Len(words) > n
      /\ Missing(m) = 2 => Len(words) = 2 /\ n = 2 /\ Len(m.waiting) = 1
      /\ n = 1 => m.waiting = <<op>> /\ words = <<op, word>>
  <2> DEFINE l == Len(m.waiting)
  <2>1. l \in {1, 2} /\ n \in {1, 2} /\ (l = 2 => n = 2) /\ (l = 1 => m.waiting = <<op>>)
    <3>1. Setters[op \div 256].operands \in {1, 2} /\ (op \in Opcodes(2) => Setters[op \div 256].operands = 2)
      BY OpcodesOf
    <3>2. m.waiting[1] = op
      BY <1>2
    <3>3. n \in {1, 2} /\ (op \in Opcodes(2) => n = 2)
      BY <3>1, <3>2
    <3>4. CASE m.waiting = <<op>>
      BY <3>3, <3>4
    <3>5. CASE op \in Opcodes(2) /\ \E x \in Nat : m.waiting = <<op, x>>
      BY <3>3, <3>5
    <3>. QED
      BY <1>2, <3>4, <3>5
  <2>2. /\ Missing(m) = 1 => (l = 1 /\ n = 1) \/ (l = 2 /\ n = 2)
        /\ Missing(m) = 2 => l = 1 /\ n = 2
    BY <1>1, MissingOf
  <2>3. l = 1 => words = <<op, word>>
    BY <2>1, AppendTuples
  <2>4. Len(words) = l + 1
    BY <1>4
  <2> HIDE DEF l, n, words
  <2>5. Missing(m) = 1 => Len(words) > n
    BY <2>1, <2>2, <2>4
  <2>6. Missing(m) = 2 => Len(words) = 2 /\ n = 2 /\ l = 1
    BY <2>1, <2>2, <2>4
  <2>7. n = 1 => m.waiting = <<op>> /\ words = <<op, word>>
    BY <2>1, <2>3
  <2>. QED
    BY <2>5, <2>6, <2>7 DEF l
<1>9. CASE Missing(m) = 2
  <2>1. Len(words) <= n
    <3>1. Len(words) = 2 /\ n = 2
      BY <1>8, <1>9
    <3> HIDE DEF words, n
    <3>. QED
      BY <3>1
  <2>2. t = Micro(m.setting, words, m.answer)
    BY <1>5, <2>1, Zenon
  <2>3. m.waiting = <<op>> /\ words = <<op, word>> /\ op \in Opcodes(2)
    <3>1. m.waiting = <<op>>
      <4>1. Len(m.waiting) = 1
        BY <1>8, <1>9
      <4>. QED
        BY <1>2, <4>1
    <3>2. op \in Opcodes(2)
      <4>1. m.waiting[1] = op /\ op \in Opcodes(1)
        BY <3>1
      <4>. QED
        BY <4>1, <1>8, <1>9, <1>1 DEF Opcodes
    <3>. QED
      BY <3>1, <3>2, AppendTuples
  <2>4. /\ t.setting = m.setting /\ t.waiting = <<op, word>> /\ t.answer = <<>>
        /\ t = Micro(t.setting, t.waiting, t.answer)
    <3> HIDE DEF t, words
    <3>. QED
      BY <1>1, <2>2, <2>3, MicroFields
  <2> HIDE DEF t, words
  <2>5. MicroInv(t)
    BY <1>6, <2>3, <2>4 DEF MicroInv
  <2>6. Pending(t) = Pending(m) /\ Len(t.waiting) = 2 /\ t.waiting # <<>>
    BY <2>3, <2>4 DEF Pending
  <2>7. Missing(t) = 1
    BY <1>1, <1>8, <1>9, <2>6 DEF Missing
  <2>. QED
    BY <1>9, <2>3, <2>4, <2>5, <2>6, <2>7 DEF t, words
<1>10. CASE Missing(m) = 1
  <2>1. ~(Len(words) <= n)
    <3>1. n \in Nat /\ Len(words) \in Nat
      BY <1>1, <1>2, <1>4, CommandShapes
    <3> HIDE DEF words, n
    <3>. QED
      BY <1>8, <1>10, <3>1
  <2>2. t = Micro(Changed(m.setting, k, v), <<>>, m.answer)
    BY <1>5, <2>1, Zenon
  <2>3. /\ t.setting = Changed(m.setting, k, v) /\ t.waiting = <<>> /\ t.answer = <<>>
        /\ t = Micro(t.setting, t.waiting, t.answer)
    <3> HIDE DEF t, k, v
    <3>. QED
      BY <1>1, <2>2, MicroFields
  <2>4. n \in {1, 2}
    <3>1. m.waiting[1] = op
      BY <1>2
    <3>. QED
      BY <3>1, OpcodesOf
  <2>5. k \in Settings /\ k # "acquisition" /\ Setters[c].words = <<>>
    BY <1>1, <2>4, CommandShapes
  <2>6. k = "detection" => v = <<word>>
    <3>1. SUFFICES ASSUME k = "detection" PROVE v = <<word>>
      OBVIOUS
    <3>2. n = 1
      BY <1>1, <3>1, CommandShapes
    <3>3. words = <<op, word>>
      BY <1>8, <3>2
    <3>. QED
      BY <2>5, <3>3, TailTuples, AfterEmpty
  <2> HIDE DEF k, v, t
  <2>7. SettingsInv(Changed(m.setting, k, v))
    BY <1>6, <2>5, <2>6, SettingKept
  <2>8. MicroInv(t)
    BY <2>3, <2>7 DEF MicroInv
  <2>9. Missing(t) = 0
    BY <1>1, <2>3 DEF Missing
  <2>10. t.setting = Changed(m.setting, Pending(m).setting, Pending(m).words \o Tail(Append(m.waiting, word)))
    BY <1>1, <2>3 DEF k, v
  <2>12. Missing(t) = Missing(m) - 1 /\ ~(Missing(m) = 2)
    BY <1>10, <2>9
  <2>. QED
    BY <2>3, <2>8, <2>10, <2>12, Zenon DEF t
<1>. QED
  BY <1>1, <1>9, <1>10

LEMMA CommandWords ==
  ASSUME NEW c \in DOMAIN Setters
  PROVE  Setters[c].words \in Seq(Nat)
<1>1. c \in {0, 1, 16, 17, 20, 34, 36, 48, 53, 66, 68, 80, 200}
  BY Commands
<1>2. /\ <<>> \in Seq(Nat) /\ <<0>> \in Seq(Nat) /\ <<1>> \in Seq(Nat)
      /\ <<65535, 65535>> \in Seq(Nat)
  OBVIOUS
<1>3. Setters[c].words \in {<<>>, <<0>>, <<1>>, <<65535, 65535>>}
  <2>1. CASE c \in {0, 1}
    BY <2>1, Commands DEF Sets, TRIG_MATCH, CONT_STORAGE
  <2>2. CASE c \in {20, 48, 53}
    BY <2>2, Commands DEF Sets
  <2>3. CASE c = 66
    BY <2>3, Commands DEF Sets, AllChannels
  <2>4. CASE c \in {16, 17, 34, 36, 68, 80, 200}
    BY <2>4, Commands DEF Sets
  <2>. QED
    BY <1>1, <2>1, <2>2, <2>3, <2>4
<1>4. Setters[c].words = <<>> \/ Setters[c].words = <<0>> \/ Setters[c].words = <<1>>
      \/ Setters[c].words = <<65535, 65535>>
  BY <1>3
<1>. QED
  <2> DEFINE w == Setters[c].words
  <2> HIDE DEF w
  <2>1. w = <<>> \/ w = <<0>> \/ w = <<1>> \/ w = <<65535, 65535>>
    BY <1>4 DEF w
  <2>2. w = <<>> => w \in Seq(Nat)
    OBVIOUS
  <2>3. w = <<0>> => w \in Seq(Nat)
    BY <1>2
  <2>4. w = <<1>> => w \in Seq(Nat)
    BY <1>2
  <2>5. w = <<65535, 65535>> => w \in Seq(Nat)
    BY <1>2
  <2>6. w \in Seq(Nat)
    BY <2>1, <2>2, <2>3, <2>4, <2>5
  <2>. QED
    BY <2>6 DEF w

(* Words when it waits for none: no command, a whole one, the first of one *)
(* that takes operands.                                                    *)
LEMMA TakeAlone ==
  ASSUME NEW m, m.waiting = <<>>, NEW word
  PROVE  LET words == Append(m.waiting, word)
         IN words = <<word>> /\ words[1] = word /\ Len(words) = 1 /\ Tail(words) = <<>>
BY AppendTuples

LEMMA TakeIgnored ==
  ASSUME NEW m, m.waiting = <<>>, NEW word, word \div 256 \notin DOMAIN Setters
  PROVE  Take(m, word) = Micro(m.setting, <<>>, AnswerTo(m.setting, word \div 256))
<1>1. Append(m.waiting, word)[1] = word
  BY TakeAlone
<1>. QED
  BY <1>1, Zenon DEF Take

LEMMA TakeWhole ==
  ASSUME NEW m, m.waiting = <<>>, NEW word, word \div 256 \in DOMAIN Setters,
         Setters[word \div 256].operands = 0
  PROVE  Take(m, word) = Micro(Changed(m.setting, Setters[word \div 256].setting, Setters[word \div 256].words),
                               <<>>, m.answer)
<1> DEFINE words == Append(m.waiting, word)
           c == word \div 256
<1>1. words[1] = word /\ Len(words) = 1 /\ Tail(words) = <<>>
  BY TakeAlone
<1>2. Setters[c].words \o Tail(words) = Setters[c].words
  BY <1>1, CommandWords, ConcatEmptySeq
<1>3. ~(Len(words) <= Setters[c].operands)
  BY <1>1
<1>4. c \in DOMAIN Setters
  OBVIOUS
<1> HIDE DEF words
<1>5. Take(m, word) = Micro(Changed(m.setting, Setters[c].setting, Setters[c].words \o Tail(words)), <<>>, m.answer)
  <2> DEFINE d == words[1] \div 256
  <2>1. Take(m, word) =
          IF d \notin DOMAIN Setters THEN Micro(m.setting, <<>>, AnswerTo(m.setting, d))
          ELSE IF Len(words) <= Setters[d].operands THEN Micro(m.setting, words, m.answer)
          ELSE Micro(Changed(m.setting, Setters[d].setting, Setters[d].words \o Tail(words)), <<>>, m.answer)
    BY Zenon DEF Take, Changed, words
  <2>2. d = c
    BY <1>1
  <2> HIDE DEF c, d
  <2>. QED
    BY <1>3, <1>4, <2>1, <2>2, Zenon
<1>. QED
  BY <1>2, <1>5, Zenon

LEMMA TakeFirst ==
  ASSUME NEW m, m.waiting = <<>>, NEW word, word \div 256 \in DOMAIN Setters,
         Setters[word \div 256].operands # 0
  PROVE  Take(m, word) = Micro(m.setting, <<word>>, m.answer)
<1>1. Append(m.waiting, word) = <<word>> /\ Append(m.waiting, word)[1] = word /\ Len(<<word>>) = 1
  BY TakeAlone
<1>2. Len(Append(m.waiting, word)) <= Setters[word \div 256].operands
  BY <1>1, CommandShapes
<1>. QED
  BY <1>1, <1>2, Zenon DEF Take

-----------------------------------------------------------------------------
(* Operands are never taken for a command that waits for operands, or for  *)
(* one that has an answer: out of step, they may only change the mode.     *)
Plain(word) ==
  /\ word \in Nat
  /\ \/ word \div 256 \in {TRG_MATCH, CONT_STOR}
     \/ word \div 256 \notin DOMAIN Setters \cup {READ_ACQ_MOD, READ_DETECTION, READ_TRG_CONF}

Command(c, words) ==
  /\ c \in DOMAIN Setters
  /\ \/ Setters[c].operands = 0 /\ words = <<Op(c)>>
     \/ Setters[c].operands = 1 /\ \E x : Plain(x) /\ words = <<Op(c), x>>
     \/ Setters[c].operands = 2 /\ \E x, y : Plain(x) /\ Plain(y) /\ words = <<Op(c), x, y>>

Value(c, words) == Setters[c].words \o Tail(words)

LEMMA LenTuples ==
  (\A a : Len(<<a>>) = 1) /\ (\A a, b : Len(<<a, b>>) = 2) /\ (\A a, b, c : Len(<<a, b, c>>) = 3)
OBVIOUS

LEMMA OpOf ==
  ASSUME NEW c \in Nat
  PROVE  Op(c) \in Nat /\ Op(c) \div 256 = c
BY DEF Op

LEMMA TakePlain ==
  ASSUME NEW m, MicroInv(m), m.waiting = <<>>, m.answer = <<>>, NEW word, Plain(word)
  PROVE  LET t == Take(m, word)
         IN /\ MicroInv(t) /\ t.waiting = <<>> /\ t.answer = <<>>
            /\ \A s \in Settings \ {"acquisition"} : t.setting[s] = m.setting[s]
<1> DEFINE c == word \div 256
           t == Take(m, word)
<1>1. word \in Nat /\ SettingsInv(m.setting)
  BY DEF Plain, MicroInv
<1>2. CASE c \in {TRG_MATCH, CONT_STOR}
  <2>1. /\ c \in DOMAIN Setters /\ Setters[c].operands = 0 /\ Setters[c].setting = "acquisition"
        /\ Setters[c].words \in {<<TRIG_MATCH>>, <<CONT_STORAGE>>}
    BY <1>2, Commands DEF Sets, TRG_MATCH, CONT_STOR
  <2> DEFINE f == Changed(m.setting, "acquisition", Setters[c].words)
  <2>2. t = Micro(f, <<>>, <<>>)
    <3>1. t = Micro(Changed(m.setting, Setters[c].setting, Setters[c].words), <<>>, m.answer)
      <4>1. c \in DOMAIN Setters /\ Setters[c].operands = 0
        BY <2>1
      <4>. QED
        BY <4>1, TakeWhole
    <3>. QED
      BY <3>1, <2>1, Zenon
  <2>3. SettingsInv(f) /\ \A s \in Settings \ {"acquisition"} : f[s] = m.setting[s]
    BY <1>1, <2>1, Strings, SettingKept, ChangedAt
  <2> HIDE DEF f, t
  <2>4. /\ t.setting = f /\ t.waiting = <<>> /\ t.answer = <<>>
        /\ t = Micro(t.setting, t.waiting, t.answer)
    BY <2>2, MicroFields
  <2>. QED
    BY <2>3, <2>4 DEF MicroInv, t
<1>3. CASE c \notin DOMAIN Setters \cup {READ_ACQ_MOD, READ_DETECTION, READ_TRG_CONF}
  <2>1. t = Micro(m.setting, <<>>, AnswerTo(m.setting, c))
    <3>1. c \notin DOMAIN Setters
      BY <1>3, Zenon
    <3>. QED
      BY <3>1, TakeIgnored
  <2>2. AnswerTo(m.setting, c) = <<>>
    BY <1>3 DEF AnswerTo
  <2> HIDE DEF t
  <2>4. /\ t.setting = m.setting /\ t.waiting = <<>> /\ t.answer = <<>>
        /\ t = Micro(t.setting, t.waiting, t.answer)
    BY <2>1, <2>2, MicroFields
  <2>. QED
    BY <1>1, <2>4 DEF MicroInv, t
<1>. QED
  BY <1>2, <1>3 DEF Plain

(* In step, an opcode without operands is done, another waits for them.    *)
LEMMA TakeOpcode ==
  ASSUME NEW m, MicroInv(m), m.waiting = <<>>, m.answer = <<>>, NEW c \in DOMAIN Setters
  PROVE  LET t == Take(m, Op(c))
         IN /\ MicroInv(t) /\ t.answer = <<>>
            /\ Missing(t) = Setters[c].operands
            /\ Setters[c].operands = 0 => t.setting = Changed(m.setting, Setters[c].setting, Setters[c].words)
            /\ Setters[c].operands # 0 => /\ t.setting = m.setting /\ t.waiting = <<Op(c)>>
                                          /\ Pending(t) = Setters[c]
<1> DEFINE n == Setters[c].operands
           own == Setters[c].setting
           f == Changed(m.setting, own, Setters[c].words)
           t == Take(m, Op(c))
<1>1. /\ c \in Nat /\ own \in Settings /\ n \in {0, 1, 2} /\ Op(c) \in Nat /\ Op(c) \div 256 = c
      /\ SettingsInv(m.setting)
  BY CommandShapes, OpOf DEF MicroInv
<1>2. CASE n = 0
  <2>1. t = Micro(f, <<>>, <<>>)
    <3>1. t = Micro(f, <<>>, m.answer)
      <4>1. Take(m, Op(c)) = Micro(Changed(m.setting, Setters[Op(c) \div 256].setting, Setters[Op(c) \div 256].words),
                                   <<>>, m.answer)
        BY <1>1, <1>2, TakeWhole
      <4>. QED
        BY <1>1, <4>1, Zenon
    <3>. QED
      BY <3>1, Zenon
  <2>2. SettingsInv(f)
    BY <1>1, <1>2, CommandShapes, SettingKept
  <2> HIDE DEF t, f
  <2>3. t.setting = f /\ t.waiting = <<>> /\ t.answer = <<>> /\ t = Micro(t.setting, t.waiting, t.answer)
    BY <2>1, MicroFields
  <2>4. MicroInv(t) /\ Missing(t) = 0
    BY <2>2, <2>3 DEF MicroInv, Missing
  <2>. QED
    BY <1>2, <2>3, <2>4 DEF t, f
<1>3. CASE n # 0
  <2>1. t = Micro(m.setting, <<Op(c)>>, <<>>)
    <3>1. Op(c) \div 256 \in DOMAIN Setters /\ Setters[Op(c) \div 256].operands # 0
      BY <1>1, <1>3
    <3>2. t = Micro(m.setting, <<Op(c)>>, m.answer)
      BY <3>1, TakeFirst
    <3>. QED
      BY <3>2, Zenon
  <2> HIDE DEF t
  <2>2. t.setting = m.setting /\ t.waiting = <<Op(c)>> /\ t.answer = <<>>
        /\ t = Micro(t.setting, t.waiting, t.answer)
    BY <2>1, MicroFields
  <2>3. Op(c) \in Opcodes(1)
    BY <1>1, <1>3 DEF Opcodes
  <2>4. MicroInv(t)
    BY <1>1, <2>2, <2>3 DEF MicroInv
  <2>5. t.waiting # <<>> /\ Len(t.waiting) = 1 /\ t.waiting[1] = Op(c)
    BY <2>2
  <2>6. Pending(t) = Setters[c]
    BY <1>1, <2>5 DEF Pending
  <2>7. Missing(t) = n
    BY <1>1, <2>5, <2>6 DEF Missing
  <2>. QED
    BY <1>3, <2>2, <2>4, <2>6, <2>7 DEF t
<1>. QED
  BY <1>2, <1>3

(* What a command in step comes to when all its words are taken, and what  *)
(* it waits for until then.                                                *)
Waits(t, m, c) ==
  /\ MicroInv(t) /\ t.answer = <<>>
  /\ t.setting = m.setting
  /\ Missing(t) \in 1 .. Setters[c].operands /\ Pending(t) = Setters[c]
Done(t, m, c, words) ==
  /\ MicroInv(t) /\ t.answer = <<>> /\ Missing(t) = 0
  /\ t.setting = Changed(m.setting, Setters[c].setting, Value(c, words))

LEMMA InStep ==
  ASSUME NEW m, MicroInv(m), m.waiting = <<>>, m.answer = <<>>, NEW c, NEW words, Command(c, words)
  PROVE  /\ Len(words) \in {1, 2, 3}
         /\ TakeAll(m, SubSeq(words, 1, 0)) = m
         /\ \A k \in 1 .. Len(words) - 1 : Waits(TakeAll(m, SubSeq(words, 1, k)), m, c)
         /\ TakeAll(m, SubSeq(words, 1, Len(words))) = TakeAll(m, words)
         /\ Done(TakeAll(m, words), m, c, words)
<1> DEFINE n == Setters[c].operands
           own == Setters[c].setting
           t1 == Take(m, Op(c))
<1>1. /\ c \in DOMAIN Setters /\ c \in Nat /\ own \in Settings /\ n \in {0, 1, 2}
      /\ Op(c) \in Nat /\ Op(c) \div 256 = c
  BY CommandShapes, OpOf DEF Command
<1>2. /\ MicroInv(t1) /\ t1.answer = <<>> /\ Missing(t1) = n
      /\ n = 0 => t1.setting = Changed(m.setting, own, Setters[c].words)
      /\ n # 0 => t1.setting = m.setting /\ t1.waiting = <<Op(c)>> /\ Pending(t1) = Setters[c]
  BY <1>1, TakeOpcode
<1>3. n # 0 => Setters[c].words = <<>>
  BY <1>1, CommandShapes
<1>4. n # 0 => Waits(t1, m, c)
  <2> HIDE DEF t1
  <2>. QED
    BY <1>1, <1>2 DEF Waits
<1> HIDE DEF t1
<1>5. CASE n = 0
  <2>1. words = <<Op(c)>> /\ Len(words) = 1 /\ Tail(words) = <<>>
    <3>1. words = <<Op(c)>>
      BY <1>5 DEF Command
    <3>. QED
      BY <3>1, TailTuples, LenTuples, Zenon
  <2>2. Value(c, words) = Setters[c].words
    BY <1>1, <2>1, CommandWords, ConcatEmptySeq DEF Value
  <2>3. SubSeq(words, 1, 0) = <<>> /\ SubSeq(words, 1, 1) = words
    BY <2>1, PrefixTuples
  <2>4. TakeAll(m, <<>>) = m /\ TakeAll(m, words) = t1
    BY <2>1, TakeNone, TakeOne DEF t1
  <2>5. Done(t1, m, c, words)
    BY <1>2, <1>5, <2>2 DEF Done
  <2>. QED
    <3>1. 1 .. Len(words) - 1 = {}
      BY <2>1
    <3>. QED
      BY <3>1, <2>1, <2>3, <2>4, <2>5
<1>6. CASE n = 1
  <2>1. PICK x : Plain(x) /\ words = <<Op(c), x>>
    BY <1>6 DEF Command
  <2> DEFINE t2 == Take(t1, x)
  <2>2. x \in Nat /\ Len(words) = 2 /\ Tail(words) = <<x>> /\ Append(t1.waiting, x) = words
    <3>1. x \in Nat
      BY <2>1 DEF Plain
    <3>2. t1.waiting = <<Op(c)>>
      BY <1>2, <1>6
    <3>. QED
      BY <3>1, <3>2, <2>1, TailTuples, LenTuples, AppendTuples, Zenon
  <2>3. SubSeq(words, 1, 0) = <<>> /\ SubSeq(words, 1, 1) = <<Op(c)>> /\ SubSeq(words, 1, 2) = words
    BY <2>1, PrefixTuples, Zenon
  <2>4. TakeAll(m, <<>>) = m /\ TakeAll(m, <<Op(c)>>) = t1 /\ TakeAll(m, words) = t2
    <3>1. TakeAll(m, <<>>) = m /\ TakeAll(m, <<Op(c)>>) = t1
      BY TakeNone, TakeOne DEF t1
    <3>2. TakeAll(m, <<Op(c), x>>) = Take(Take(m, Op(c)), x)
      BY TakeTwo
    <3>. QED
      BY <3>1, <3>2, <2>1, Zenon DEF t1
  <2>5. /\ MicroInv(t2) /\ t2.answer = <<>> /\ Missing(t2) = 0
        /\ t2.setting = Changed(t1.setting, own, Setters[c].words \o Tail(words))
    <3>1. /\ MicroInv(t1) /\ Missing(t1) = 1 /\ Pending(t1) = Setters[c]
      BY <1>2, <1>6
    <3>2. Missing(t1) # 0
      BY <3>1
    <3>3. /\ MicroInv(t2) /\ t2.answer = <<>> /\ Missing(t2) = Missing(t1) - 1
          /\ t2.setting = Changed(t1.setting, Pending(t1).setting,
                                  Pending(t1).words \o Tail(Append(t1.waiting, x)))
      BY <2>2, <3>1, <3>2, TakeOperand
    <3>4. Missing(t2) = 0
      BY <3>1, <3>3
    <3>. QED
      BY <2>2, <3>1, <3>3, <3>4, Zenon
  <2> HIDE DEF t2
  <2>6. Done(t2, m, c, words)
    BY <1>2, <1>6, <2>5 DEF Done, Value
  <2>. QED
    <3>1. \A k \in 1 .. Len(words) - 1 : k = 1
      BY <2>2
    <3>2. Waits(TakeAll(m, SubSeq(words, 1, 1)), m, c)
      <4>1. Waits(t1, m, c)
        BY <1>4, <1>6
      <4>. QED
        BY <4>1, <2>3, <2>4, Zenon
    <3>. QED
      BY <3>1, <3>2, <2>2, <2>3, <2>4, <2>6
<1>7. CASE n = 2
  <2>1. PICK x, y : Plain(x) /\ Plain(y) /\ words = <<Op(c), x, y>>
    BY <1>7 DEF Command
  <2> DEFINE t2 == Take(t1, x)
             t3 == Take(t2, y)
  <2>2. /\ x \in Nat /\ y \in Nat /\ Len(words) = 3 /\ Tail(words) = <<x, y>>
        /\ Append(t1.waiting, x) = <<Op(c), x>> /\ Append(<<Op(c), x>>, y) = words
    <3>1. x \in Nat /\ y \in Nat
      BY <2>1 DEF Plain
    <3>2. t1.waiting = <<Op(c)>>
      BY <1>2, <1>7
    <3>3. Tail(<<Op(c), x, y>>) = <<x, y>> /\ Len(<<Op(c), x, y>>) = 3
      BY TailTuples, LenTuples
    <3>4. Append(<<Op(c)>>, x) = <<Op(c), x>> /\ Append(<<Op(c), x>>, y) = <<Op(c), x, y>>
      BY AppendTuples
    <3>. QED
      BY <3>1, <3>2, <3>3, <3>4, <2>1, Zenon
  <2>3. /\ SubSeq(words, 1, 0) = <<>> /\ SubSeq(words, 1, 1) = <<Op(c)>>
        /\ SubSeq(words, 1, 2) = <<Op(c), x>> /\ SubSeq(words, 1, 3) = words
    <3>1. LET w == <<Op(c), x, y>>
          IN /\ SubSeq(w, 1, 0) = <<>> /\ SubSeq(w, 1, 1) = <<Op(c)>>
             /\ SubSeq(w, 1, 2) = <<Op(c), x>> /\ SubSeq(w, 1, 3) = w
      BY PrefixTuples
    <3>. QED
      BY <2>1, <3>1
  <2>4. /\ TakeAll(m, <<>>) = m /\ TakeAll(m, <<Op(c)>>) = t1
        /\ TakeAll(m, <<Op(c), x>>) = t2 /\ TakeAll(m, words) = t3
    <3>1. TakeAll(m, <<>>) = m /\ TakeAll(m, <<Op(c)>>) = t1
      BY TakeNone, TakeOne DEF t1
    <3>2. TakeAll(m, <<Op(c), x>>) = Take(Take(m, Op(c)), x)
      BY TakeTwo
    <3>3. TakeAll(m, <<Op(c), x, y>>) = Take(Take(Take(m, Op(c)), x), y)
      BY TakeThree
    <3>. QED
      BY <3>1, <3>2, <3>3, <2>1, Zenon DEF t1
  <2>5. /\ MicroInv(t2) /\ t2.answer = <<>> /\ Missing(t2) = 1 /\ t2.waiting = <<Op(c), x>>
        /\ t2.setting = t1.setting /\ Pending(t2) = Setters[c]
    <3>1. /\ MicroInv(t1) /\ Missing(t1) = 2 /\ Pending(t1) = Setters[c]
      BY <1>2, <1>7
    <3>2. Missing(t1) # 0
      BY <3>1
    <3>3. /\ MicroInv(t2) /\ t2.answer = <<>> /\ Missing(t2) = Missing(t1) - 1
          /\ t2.setting = t1.setting /\ Pending(t2) = Pending(t1)
          /\ t2.waiting = Append(t1.waiting, x)
      BY <2>2, <3>1, <3>2, TakeOperand
    <3>4. Missing(t2) = 1
      BY <3>1, <3>3
    <3>. QED
      BY <2>2, <3>1, <3>3, <3>4, Zenon
  <2> HIDE DEF t2
  <2>6. /\ MicroInv(t3) /\ t3.answer = <<>> /\ Missing(t3) = 0
        /\ t3.setting = Changed(t2.setting, own, Setters[c].words \o Tail(words))
    <3>2. Missing(t2) # 0
      BY <2>5
    <3>3. /\ MicroInv(t3) /\ t3.answer = <<>> /\ Missing(t3) = Missing(t2) - 1
          /\ t3.setting = Changed(t2.setting, Pending(t2).setting,
                                  Pending(t2).words \o Tail(Append(t2.waiting, y)))
      BY <2>2, <2>5, <3>2, TakeOperand
    <3>4. Missing(t3) = 0
      BY <2>5, <3>3
    <3>. QED
      BY <2>2, <2>5, <3>3, <3>4, Zenon
  <2> HIDE DEF t3
  <2>7. Done(t3, m, c, words)
    BY <1>2, <1>7, <2>5, <2>6 DEF Done, Value
  <2>8. Waits(t2, m, c)
    BY <1>2, <1>7, <2>5 DEF Waits
  <2>. QED
    <3>1. \A k \in 1 .. Len(words) - 1 : k = 1 \/ k = 2
      BY <2>2
    <3>2. Waits(TakeAll(m, SubSeq(words, 1, 1)), m, c)
      <4>1. Waits(t1, m, c)
        BY <1>4, <1>7
      <4>. QED
        BY <4>1, <2>3, <2>4, Zenon
    <3>3. Waits(TakeAll(m, SubSeq(words, 1, 2)), m, c)
      BY <2>8, <2>3, <2>4
    <3>. QED
      BY <3>1, <3>2, <3>3, <2>2, <2>3, <2>4, <2>7
<1>. QED
  BY <1>1, <1>5, <1>6, <1>7

-----------------------------------------------------------------------------
(* Out of step, words go to the operands of the command that waits for     *)
(* them, then to commands that they are not: only settings of S change.    *)
Astray(t, m, S) ==
  /\ MicroInv(t) /\ t.answer = <<>>
  /\ Missing(t) <= Missing(m)
  /\ Missing(t) # 0 => Pending(t) = Pending(m)
  /\ \A s \in Settings \ S : t.setting[s] = m.setting[s]

LEMMA AstrayTake ==
  ASSUME NEW m, MicroInv(m), NEW S, Pending(m).setting \in S, NEW t, Astray(t, m, S),
         NEW word \in Nat, Missing(t) = 0 => Plain(word) /\ "acquisition" \in S
  PROVE  /\ Astray(Take(t, word), m, S)
         /\ Missing(Take(t, word)) = IF Missing(t) = 0 THEN 0 ELSE Missing(t) - 1
<1> DEFINE u == Take(t, word)
<1>1. MicroInv(t) /\ t.answer = <<>> /\ \A s \in Settings \ S : t.setting[s] = m.setting[s]
  BY DEF Astray
<1>2. Missing(t) \in {0, 1, 2} /\ Missing(m) \in {0, 1, 2} /\ Missing(t) <= Missing(m)
  BY <1>1, MissingOf DEF Astray
<1>3. CASE Missing(t) = 0
  <2>1. t.waiting = <<>>
    BY <1>1, <1>3, MissingOf
  <2>2. /\ MicroInv(u) /\ u.waiting = <<>> /\ u.answer = <<>>
        /\ \A s \in Settings \ {"acquisition"} : u.setting[s] = t.setting[s]
    BY <1>1, <1>3, <2>1, TakePlain
  <2>3. Missing(u) = 0
    BY <2>2 DEF Missing
  <2> HIDE DEF u
  <2>4. Astray(u, m, S)
    BY <1>1, <1>2, <1>3, <2>2, <2>3 DEF Astray
  <2>. QED
    BY <1>3, <2>3, <2>4 DEF u
<1>4. CASE Missing(t) # 0
  <2> DEFINE k == Pending(m).setting
  <2>1. Pending(t) = Pending(m)
    BY <1>4 DEF Astray
  <2>2. /\ MicroInv(u) /\ u.answer = <<>> /\ Missing(u) = Missing(t) - 1
        /\ Missing(t) = 2 => u.setting = t.setting /\ Pending(u) = Pending(m)
    BY <1>1, <1>4, <2>1, TakeOperand
  <2>3. Missing(t) = 1 => \E v : u.setting = Changed(t.setting, k, v)
    BY <1>1, <1>4, <2>1, TakeOperand
  <2>4. k \in Settings
    <3>1. t.waiting[1] \div 256 \in DOMAIN Setters
      BY <1>1, <1>4, MissingOf
    <3>. QED
      BY <2>1, <3>1, CommandShapes DEF Pending
  <2>5. SettingsInv(t.setting)
    BY <1>1 DEF MicroInv
  <2> HIDE DEF u, k
  <2>6. ASSUME Missing(t) = 1 PROVE \A s \in Settings \ S : u.setting[s] = t.setting[s]
    <3>1. PICK v : u.setting = Changed(t.setting, k, v)
      BY <2>3, <2>6
    <3>2. \A s \in Settings : u.setting[s] = IF s = k THEN v ELSE t.setting[s]
      BY <2>4, <2>5, <3>1, ChangedAt
    <3>. QED
      BY <3>2 DEF k
  <2>7. \A s \in Settings \ S : u.setting[s] = m.setting[s]
    BY <1>1, <1>2, <1>4, <2>2, <2>6
  <2>8. Missing(u) <= Missing(m) /\ (Missing(u) # 0 => Pending(u) = Pending(m))
    BY <1>2, <1>4, <2>2
  <2>9. Astray(u, m, S)
    BY <2>2, <2>7, <2>8 DEF Astray
  <2>. QED
    BY <1>4, <2>2, <2>9 DEF u
<1>. QED
  BY <1>3, <1>4

Hit(m, words) == {Pending(m).setting} \cup (IF Len(words) = 1 THEN {} ELSE {"acquisition"})

LEMMA OutOfStep ==
  ASSUME NEW m, MicroInv(m), Missing(m) # 0, NEW c, NEW words, Command(c, words)
  PROVE  /\ Len(words) \in {1, 2, 3}
         /\ \A k \in 0 .. Len(words) : Astray(TakeAll(m, SubSeq(words, 1, k)), m, Hit(m, words))
         /\ TakeAll(m, SubSeq(words, 1, 0)) = m
         /\ TakeAll(m, SubSeq(words, 1, Len(words))) = TakeAll(m, words)
         /\ Missing(TakeAll(m, words)) = IF Missing(m) = 2 /\ Len(words) = 1 THEN 1 ELSE 0
<1> DEFINE S == Hit(m, words)
           n == Setters[c].operands
           t1 == Take(m, Op(c))
<1>1. /\ c \in DOMAIN Setters /\ c \in Nat /\ n \in {0, 1, 2} /\ Op(c) \in Nat
  BY CommandShapes, OpOf DEF Command
<1>2. Missing(m) \in {1, 2} /\ m.answer = <<>>
  BY MissingOf
<1>3. Pending(m).setting \in S /\ (Len(words) # 1 => "acquisition" \in S)
  BY DEF Hit
<1>4. Astray(m, m, S)
  BY <1>2 DEF Astray
<1>5. Astray(t1, m, S) /\ Missing(t1) = Missing(m) - 1
  <2> HIDE DEF S
  <2>. QED
    BY <1>1, <1>2, <1>3, <1>4, AstrayTake
<1> HIDE DEF S, t1
<1>6. CASE n = 0
  <2>1. words = <<Op(c)>>
    BY <1>6 DEF Command
  <2>2. Len(words) = 1
    BY <2>1, LenTuples
  <2>3. SubSeq(words, 1, 0) = <<>> /\ SubSeq(words, 1, 1) = words
    BY <2>1, PrefixTuples
  <2>4. TakeAll(m, <<>>) = m /\ TakeAll(m, words) = t1
    BY <2>1, TakeNone, TakeOne DEF t1
  <2>5. \A k \in 0 .. Len(words) : k = 0 \/ k = 1
    BY <2>2
  <2>6. \A k \in 0 .. Len(words) : Astray(TakeAll(m, SubSeq(words, 1, k)), m, S)
    BY <1>4, <1>5, <2>3, <2>4, <2>5, Zenon
  <2>7. Missing(t1) = IF Missing(m) = 2 /\ Len(words) = 1 THEN 1 ELSE 0
    BY <1>2, <1>5, <2>2
  <2>. QED
    BY <2>2, <2>3, <2>4, <2>6, <2>7 DEF S
<1>7. CASE n = 1
  <2>1. PICK x : Plain(x) /\ words = <<Op(c), x>>
    BY <1>7 DEF Command
  <2>2. Len(words) = 2 /\ x \in Nat
    BY <2>1, LenTuples DEF Plain
  <2> DEFINE t2 == Take(t1, x)
  <2>3. SubSeq(words, 1, 0) = <<>> /\ SubSeq(words, 1, 1) = <<Op(c)>> /\ SubSeq(words, 1, 2) = words
    BY <2>1, PrefixTuples, Zenon
  <2>4. TakeAll(m, <<>>) = m /\ TakeAll(m, <<Op(c)>>) = t1 /\ TakeAll(m, words) = t2
    <3>1. TakeAll(m, <<>>) = m /\ TakeAll(m, <<Op(c)>>) = t1
      BY TakeNone, TakeOne DEF t1
    <3>2. TakeAll(m, <<Op(c), x>>) = Take(Take(m, Op(c)), x)
      BY TakeTwo
    <3>. QED
      BY <3>1, <3>2, <2>1, Zenon DEF t1
  <2>5. Astray(t2, m, S) /\ Missing(t2) = 0
    <3>1. "acquisition" \in S
      BY <1>3, <2>2
    <3>2. Astray(t2, m, S) /\ Missing(t2) = IF Missing(t1) = 0 THEN 0 ELSE Missing(t1) - 1
      <4>1. Plain(x) /\ x \in Nat
        BY <2>1, <2>2
      <4>. QED
        <5>1. Missing(t1) = 0 => Plain(x) /\ "acquisition" \in S
          BY <3>1, <4>1
        <5>. QED
          BY <1>3, <1>5, <4>1, <5>1, AstrayTake
    <3>. QED
      BY <1>2, <1>5, <3>2
  <2> HIDE DEF t2
  <2>6. \A k \in 0 .. Len(words) : k = 0 \/ k = 1 \/ k = 2
    BY <2>2
  <2>7. \A k \in 0 .. Len(words) : Astray(TakeAll(m, SubSeq(words, 1, k)), m, S)
    BY <1>4, <1>5, <2>3, <2>4, <2>5, <2>6, Zenon
  <2>8. Missing(t2) = IF Missing(m) = 2 /\ Len(words) = 1 THEN 1 ELSE 0
    BY <2>2, <2>5
  <2>. QED
    BY <2>2, <2>3, <2>4, <2>7, <2>8 DEF S
<1>8. CASE n = 2
  <2>1. PICK x, y : Plain(x) /\ Plain(y) /\ words = <<Op(c), x, y>>
    BY <1>8 DEF Command
  <2>2. Len(words) = 3 /\ x \in Nat /\ y \in Nat
    BY <2>1, LenTuples DEF Plain
  <2> DEFINE t2 == Take(t1, x)
             t3 == Take(t2, y)
  <2>3. /\ SubSeq(words, 1, 0) = <<>> /\ SubSeq(words, 1, 1) = <<Op(c)>>
        /\ SubSeq(words, 1, 2) = <<Op(c), x>> /\ SubSeq(words, 1, 3) = words
    <3>1. LET w == <<Op(c), x, y>>
          IN /\ SubSeq(w, 1, 0) = <<>> /\ SubSeq(w, 1, 1) = <<Op(c)>>
             /\ SubSeq(w, 1, 2) = <<Op(c), x>> /\ SubSeq(w, 1, 3) = w
      BY PrefixTuples
    <3>. QED
      BY <2>1, <3>1
  <2>4. /\ TakeAll(m, <<>>) = m /\ TakeAll(m, <<Op(c)>>) = t1
        /\ TakeAll(m, <<Op(c), x>>) = t2 /\ TakeAll(m, words) = t3
    <3>1. TakeAll(m, <<>>) = m /\ TakeAll(m, <<Op(c)>>) = t1
      BY TakeNone, TakeOne DEF t1
    <3>2. TakeAll(m, <<Op(c), x>>) = Take(Take(m, Op(c)), x)
      BY TakeTwo
    <3>3. TakeAll(m, <<Op(c), x, y>>) = Take(Take(Take(m, Op(c)), x), y)
      BY TakeThree
    <3>. QED
      BY <3>1, <3>2, <3>3, <2>1, Zenon DEF t1
  <2>5. Astray(t2, m, S) /\ Missing(t2) = 0
    <3>1. "acquisition" \in S
      BY <1>3, <2>2
    <3>2. Astray(t2, m, S) /\ Missing(t2) = IF Missing(t1) = 0 THEN 0 ELSE Missing(t1) - 1
      <4>1. Plain(x) /\ x \in Nat
        BY <2>1, <2>2
      <4>. QED
        <5>1. Missing(t1) = 0 => Plain(x) /\ "acquisition" \in S
          BY <3>1, <4>1
        <5>. QED
          BY <1>3, <1>5, <4>1, <5>1, AstrayTake
    <3>. QED
      BY <1>2, <1>5, <3>2
  <2> HIDE DEF t2
  <2>6. Astray(t3, m, S) /\ Missing(t3) = 0
    <3>1. "acquisition" \in S
      BY <1>3, <2>2
    <3>2. Astray(t3, m, S) /\ Missing(t3) = IF Missing(t2) = 0 THEN 0 ELSE Missing(t2) - 1
      BY <1>3, <2>1, <2>2, <2>5, <3>1, AstrayTake
    <3>. QED
      BY <2>5, <3>2
  <2> HIDE DEF t3
  <2>7. \A k \in 0 .. Len(words) : k = 0 \/ k = 1 \/ k = 2 \/ k = 3
    BY <2>2
  <2>8. \A k \in 0 .. Len(words) : Astray(TakeAll(m, SubSeq(words, 1, k)), m, S)
    BY <1>4, <1>5, <2>3, <2>4, <2>5, <2>6, <2>7, Zenon
  <2>9. Missing(t3) = IF Missing(m) = 2 /\ Len(words) = 1 THEN 1 ELSE 0
    BY <2>2, <2>6
  <2>. QED
    BY <2>2, <2>3, <2>4, <2>8, <2>9 DEF S
<1>. QED
  BY <1>1, <1>6, <1>7, <1>8

-----------------------------------------------------------------------------
(* What a command does to the settings that are wrong, and to the one that *)
(* the next words may make wrong.                                          *)
Bad(m, a) ==
  {s \in Settings : m.setting[s] # a[s]} \cup (IF m.waiting = <<>> THEN {} ELSE {Pending(m).setting})

LEMMA BadBound ==
  ASSUME NEW m, NEW a, NEW t, MicroInv(t), NEW b, NEW S,
         \A s \in Settings \ S : t.setting[s] = m.setting[s] /\ b[s] = a[s],
         Missing(t) # 0 => Pending(t).setting \in S
  PROVE  Bad(t, b) \subseteq Bad(m, a) \cup S
<1>1. t.waiting # <<>> => Missing(t) # 0
  BY MissingOf
<1>. QED
  BY <1>1 DEF Bad

LEMMA SendingOutcome ==
  ASSUME NEW m, NEW words, NEW o \in Sending(m, words)
  PROVE  /\ o.failed \in {0, 1} /\ o.hung \in BOOLEAN
         /\ o.hung => o.micro = m
         /\ ~o.hung => \E k \in 0 .. Len(words) :
                         /\ o.micro = TakeAll(m, SubSeq(words, 1, k))
                         /\ o.failed = 0 <=> k = Len(words)
                         /\ k > 0 => TakeAll(m, SubSeq(words, 1, 0)).answer = <<>>
<1> DEFINE after(k) == TakeAll(m, SubSeq(words, 1, k))
           sent == {k \in 0 .. Len(words) : \A i \in 0 .. k - 1 : after(i).answer = <<>>}
           all == Len(words) \in sent
<1>1. o \in {Outcome(after(k), 1, FALSE, <<>>) : k \in sent \ {Len(words)}}
             \cup (IF all THEN {Outcome(after(Len(words)), 0, FALSE, <<>>)}
                   ELSE {Outcome(m, 0, TRUE, <<>>)})
  BY DEF Sending
<1>2. \A k \in sent : k \in 0 .. Len(words) /\ (k > 0 => after(0).answer = <<>>)
  <2> SUFFICES ASSUME NEW k \in sent PROVE k \in 0 .. Len(words) /\ (k > 0 => after(0).answer = <<>>)
    OBVIOUS
  <2> HIDE DEF after
  <2>1. k > 0 => 0 \in 0 .. k - 1
    OBVIOUS
  <2>. QED
    BY <2>1
<1> HIDE DEF sent, after
<1>4. ASSUME NEW k \in sent \ {Len(words)}, o = Outcome(after(k), 1, FALSE, <<>>)
      PROVE  /\ o.failed = 1 /\ o.hung = FALSE /\ o.micro = after(k)
             /\ k \in 0 .. Len(words) /\ k # Len(words) /\ (k > 0 => after(0).answer = <<>>)
  <2>1. o.failed = 1 /\ o.hung = FALSE /\ o.micro = after(k)
    BY <1>4 DEF Outcome
  <2>. QED
    BY <2>1, <1>2, Zenon
<1>5. ASSUME Len(words) \in sent, o = Outcome(after(Len(words)), 0, FALSE, <<>>)
      PROVE  /\ o.failed = 0 /\ o.hung = FALSE /\ o.micro = after(Len(words))
             /\ Len(words) \in 0 .. Len(words) /\ (Len(words) > 0 => after(0).answer = <<>>)
  <2>1. o.failed = 0 /\ o.hung = FALSE /\ o.micro = after(Len(words))
    BY <1>5 DEF Outcome
  <2>. QED
    BY <2>1, <1>2, <1>5, Zenon
<1>6. ASSUME o = Outcome(m, 0, TRUE, <<>>)
      PROVE  o.failed = 0 /\ o.hung = TRUE /\ o.micro = m
  BY <1>6 DEF Outcome
<1>7. \/ \E k \in sent \ {Len(words)} : o = Outcome(after(k), 1, FALSE, <<>>)
      \/ Len(words) \in sent /\ o = Outcome(after(Len(words)), 0, FALSE, <<>>)
      \/ o = Outcome(m, 0, TRUE, <<>>)
  BY <1>1, Zenon
<1>8. CASE \E k \in sent \ {Len(words)} : o = Outcome(after(k), 1, FALSE, <<>>)
  <2>1. PICK k \in sent \ {Len(words)} : o = Outcome(after(k), 1, FALSE, <<>>)
    BY <1>8
  <2>2. /\ o.failed = 1 /\ o.hung = FALSE /\ o.micro = after(k)
        /\ k \in 0 .. Len(words) /\ k # Len(words) /\ (k > 0 => after(0).answer = <<>>)
    BY <2>1, <1>4
  <2>3. /\ o.micro = TakeAll(m, SubSeq(words, 1, k))
        /\ k > 0 => TakeAll(m, SubSeq(words, 1, 0)).answer = <<>>
    BY <2>2 DEF after
  <2>4. o.failed = 0 <=> k = Len(words)
    BY <2>2
  <2>. QED
    BY <2>2, <2>3, <2>4
<1>9. CASE Len(words) \in sent /\ o = Outcome(after(Len(words)), 0, FALSE, <<>>)
  BY <1>5, <1>9 DEF after
<1>10. CASE o = Outcome(m, 0, TRUE, <<>>)
  BY <1>6, <1>10
<1>. QED
  BY <1>7, <1>8, <1>9, <1>10

(* What the methods were called for.                                       *)
LEMMA AskedFor ==
  ASSUME NEW a, SettingsInv(a), NEW c, NEW words, Command(c, words)
  PROVE  LET b == TakeAll(Micro(a, <<>>, <<>>), words).setting
         IN /\ SettingsInv(b)
            /\ b = Changed(a, Setters[c].setting, Value(c, words))
            /\ \A s \in Settings : b[s] = IF s = Setters[c].setting THEN Value(c, words) ELSE a[s]
<1> DEFINE m == Micro(a, <<>>, <<>>)
           t == TakeAll(m, words)
<1>1. m.setting = a /\ m.waiting = <<>> /\ m.answer = <<>>
  BY MicroFields
<1> HIDE DEF m
<1>2. m = Micro(m.setting, m.waiting, m.answer)
  BY <1>1 DEF m
<1>3. MicroInv(m)
  BY <1>1, <1>2 DEF MicroInv
<1>4. Done(t, m, c, words)
  BY <1>1, <1>3, InStep
<1> HIDE DEF t
<1>5. SettingsInv(t.setting) /\ t.setting = Changed(a, Setters[c].setting, Value(c, words))
  BY <1>1, <1>4 DEF Done, MicroInv
<1>6. Setters[c].setting \in Settings
  BY CommandShapes DEF Command
<1>7. \A s \in Settings : t.setting[s] = IF s = Setters[c].setting THEN Value(c, words) ELSE a[s]
  BY <1>5, <1>6, ChangedAt
<1>. QED
  BY <1>5, <1>7 DEF t, m

(* One or two settings more, and none when the command is in step.         *)
Costs(c, q, words) ==
  {Setters[c].setting} \cup (IF q = 0 \/ Len(words) = 1 THEN {} ELSE {"acquisition"})

LEMMA SendingDamage ==
  ASSUME NEW m, MicroInv(m), NEW a, SettingsInv(a), NEW c, NEW words, Command(c, words),
         NEW o \in Sending(m, words), NEW b, b = TakeAll(Micro(a, <<>>, <<>>), words).setting
  PROVE  /\ MicroInv(o.micro)
         /\ ~o.hung =>
              /\ Bad(o.micro, b) \subseteq Bad(m, a) \cup Costs(c, Missing(m), words)
              /\ o.failed = 0 /\ Missing(m) = 0 =>
                   /\ Bad(o.micro, b) \subseteq Bad(m, a)
                   /\ Missing(o.micro) = 0 /\ o.micro.answer = <<>>
                   /\ o.micro.setting[Setters[c].setting] = Value(c, words)
              /\ o.failed = 0 /\ Missing(m) # 0 =>
                   /\ Missing(o.micro) = IF Missing(m) = 2 /\ Len(words) = 1 THEN 1 ELSE 0
                   /\ o.micro.answer = <<>>
              /\ o.failed = 1 =>
                   Missing(o.micro) <= IF Missing(m) = 0 THEN Setters[c].operands ELSE Missing(m)
<1> DEFINE own == Setters[c].setting
           q == Missing(m)
           C == Costs(c, q, words)
           t == o.micro
<1>1. CASE o.hung
  <2>1. t = m
    BY <1>1, SendingOutcome
  <2>. QED
    BY <1>1, <2>1
<1>2. CASE ~o.hung
  <2>1. PICK k \in 0 .. Len(words) :
          /\ t = TakeAll(m, SubSeq(words, 1, k))
          /\ o.failed = 0 <=> k = Len(words)
          /\ k > 0 => TakeAll(m, SubSeq(words, 1, 0)).answer = <<>>
    BY <1>2, SendingOutcome
  <2>2. SubSeq(words, 1, 0) = <<>> /\ TakeAll(m, SubSeq(words, 1, 0)) = m
    <3>1. SubSeq(words, 1, 0) = <<>>
      BY SubSeqEmpty
    <3>. QED
      BY <3>1, TakeNone
  <2>3. /\ \A s \in Settings : b[s] = IF s = own THEN Value(c, words) ELSE a[s]
        /\ own \in Settings /\ Setters[c].operands \in Nat
    BY AskedFor, CommandShapes DEF Command
  <2>4. o.failed \in {0, 1} /\ Len(words) \in {1, 2, 3} /\ q \in {0, 1, 2}
    <3>1. Len(words) \in {1, 2, 3}
      BY LenTuples DEF Command
    <3>. QED
      BY <3>1, SendingOutcome, MissingOf
  <2>5. own \in C
    BY DEF Costs
  <2>6. CASE k = 0
    <3>1. t = m /\ o.failed = 1
      BY <2>1, <2>2, <2>4, <2>6, SMTT(40)
    <3>2. \A s \in Settings : s \notin C => b[s] = a[s]
      BY <2>3, <2>5
    <3>3. Bad(m, b) \subseteq Bad(m, a) \cup C
      BY <3>2 DEF Bad
    <3>4. Missing(t) <= IF q = 0 THEN Setters[c].operands ELSE q
      BY <3>1, <2>3, <2>4
    <3> HIDE DEF C
    <3>. QED
      BY <1>2, <3>1, <3>3, <3>4 DEF C
  <2>7. CASE k > 0 /\ q = 0
    <3>1. m.answer = <<>> /\ m.waiting = <<>>
      BY <2>1, <2>2, <2>7, MissingOf
    <3>2. /\ \A i \in 1 .. Len(words) - 1 : Waits(TakeAll(m, SubSeq(words, 1, i)), m, c)
          /\ TakeAll(m, SubSeq(words, 1, Len(words))) = TakeAll(m, words)
          /\ Done(TakeAll(m, words), m, c, words)
      BY <3>1, InStep
    <3>3. CASE k = Len(words)
      <4>1. Done(t, m, c, words) /\ o.failed = 0
        BY <3>2, <3>3, <2>1
      <4>2. /\ MicroInv(t) /\ t.answer = <<>> /\ Missing(t) = 0
            /\ t.setting = Changed(m.setting, own, Value(c, words))
        BY <4>1 DEF Done
      <4>3. SettingsInv(m.setting)
        BY DEF MicroInv
      <4>4. \A s \in Settings : t.setting[s] = IF s = own THEN Value(c, words) ELSE m.setting[s]
        BY <4>2, <4>3, <2>3, ChangedAt
      <4>5. t.waiting = <<>>
        BY <4>2, MissingOf
      <4>6. Bad(t, b) \subseteq Bad(m, a)
        <5> HIDE DEF t
        <5>. QED
          BY <4>4, <4>5, <2>3 DEF Bad
      <4> HIDE DEF t, C
      <4>. QED
        BY <4>1, <4>2, <4>4, <4>6, <2>3, <2>7 DEF t, C
    <3>4. CASE k # Len(words)
      <4>1. Waits(t, m, c) /\ o.failed = 1
        BY <3>2, <3>4, <2>1, <2>4, <2>7
      <4>2. /\ MicroInv(t) /\ t.setting = m.setting
            /\ Missing(t) \in 1 .. Setters[c].operands /\ Pending(t) = Setters[c]
        BY <4>1 DEF Waits
      <4>3. Bad(t, b) \subseteq Bad(m, a) \cup C
        <5>1. \A s \in Settings \ C : t.setting[s] = m.setting[s] /\ b[s] = a[s]
          BY <4>2, <2>3, <2>5
        <5>2. Pending(t).setting \in C
          BY <4>2, <2>5
        <5> HIDE DEF t, C
        <5>. QED
          BY <4>2, <5>1, <5>2, BadBound
      <4>4. Missing(t) <= IF q = 0 THEN Setters[c].operands ELSE q
        BY <4>2, <2>3, <2>7
      <4> HIDE DEF t, C
      <4>. QED
        BY <4>1, <4>2, <4>3, <4>4 DEF t, C
    <3>. QED
      BY <3>3, <3>4
  <2>8. CASE k > 0 /\ q # 0
    <3>1. /\ Astray(t, m, Hit(m, words))
          /\ TakeAll(m, SubSeq(words, 1, Len(words))) = TakeAll(m, words)
          /\ Missing(TakeAll(m, words)) = IF q = 2 /\ Len(words) = 1 THEN 1 ELSE 0
      BY <2>1, <2>8, OutOfStep
    <3>2. o.failed = 0 => Missing(t) = IF q = 2 /\ Len(words) = 1 THEN 1 ELSE 0
      BY <2>1, <3>1
    <3>3. /\ MicroInv(t) /\ t.answer = <<>> /\ Missing(t) <= q
          /\ Missing(t) # 0 => Pending(t) = Pending(m)
          /\ \A s \in Settings \ Hit(m, words) : t.setting[s] = m.setting[s]
      BY <3>1 DEF Astray
    <3>4. Pending(m).setting \in Bad(m, a)
      <4>1. m.waiting # <<>>
        BY <2>8, MissingOf
      <4>. QED
        BY <4>1 DEF Bad
    <3>5. Hit(m, words) \subseteq {Pending(m).setting} \cup C
      BY <2>8 DEF Hit, Costs
    <3>6. Bad(t, b) \subseteq Bad(m, a) \cup ({Pending(m).setting} \cup C)
      <4> DEFINE S == {Pending(m).setting} \cup C
      <4>1. \A s \in Settings \ S : t.setting[s] = m.setting[s] /\ b[s] = a[s]
        BY <3>3, <3>5, <2>3, <2>5
      <4>2. Missing(t) # 0 => Pending(t).setting \in S
        BY <3>3
      <4>3. MicroInv(t)
        BY <3>3
      <4> HIDE DEF t, S
      <4>4. Bad(t, b) \subseteq Bad(m, a) \cup S
        <5>1. t.waiting # <<>> => Pending(t).setting \in S
          BY <4>2, <4>3, MissingOf
        <5>. QED
          BY <4>1, <5>1 DEF Bad
      <4>. QED
        BY <4>4 DEF S
    <3>7. Bad(t, b) \subseteq Bad(m, a) \cup C
      BY <3>4, <3>6
    <3> HIDE DEF t, C
    <3>. QED
      BY <2>8, <3>2, <3>3, <3>7 DEF t, C
  <2>. QED
    BY <2>4, <2>6, <2>7, <2>8
<1>. QED
  BY <1>1, <1>2

-----------------------------------------------------------------------------
(* A question is answered when it is in step, and hangs or fails out of    *)
(* step; it makes no other setting wrong.                                  *)
Questions == {READ_ACQ_MOD, READ_DETECTION, READ_TRG_CONF}

Asked(o, m, command) ==
  /\ MicroInv(o.micro)
  /\ Missing(o.micro) <= Missing(m)
  /\ \A b : Bad(o.micro, b) \subseteq Bad(m, b)
  /\ ~o.hung /\ o.failed = 0 =>
       /\ Missing(m) = 0 /\ Missing(o.micro) = 0 /\ o.micro.setting = m.setting
       /\ o.data = AnswerTo(m.setting, command)

LEMMA BadKept ==
  ASSUME NEW m, MicroInv(m), NEW t, MicroInv(t),
         Missing(t) = 0 \/ (Pending(t) = Pending(m) /\ Missing(m) # 0),
         \A s \in Settings : t.setting[s] # m.setting[s] => Missing(m) # 0 /\ s = Pending(m).setting
  PROVE  \A b : Bad(t, b) \subseteq Bad(m, b)
<1>1. /\ t.waiting # <<>> => Missing(m) # 0 /\ Pending(t) = Pending(m)
      /\ Missing(m) # 0 => m.waiting # <<>>
  BY MissingOf
<1>. QED
  BY <1>1 DEF Bad

LEMMA AskedSame ==
  ASSUME NEW m, MicroInv(m), NEW o, o.micro = m, o.hung \/ o.failed = 1, NEW command
  PROVE  Asked(o, m, command)
<1>1. Missing(m) \in {0, 1, 2}
  BY MissingOf
<1>. QED
  BY <1>1 DEF Asked

LEMMA AskingOutcome ==
  ASSUME NEW m, MicroInv(m), NEW command \in Questions, NEW n \in {1, 5},
         NEW o \in Asking(m, command, n)
  PROVE  Asked(o, m, command)
<1> DEFINE a == Take(m, Op(command))
           left(i) == [a EXCEPT !.answer = SubSeq(@, i + 1, Len(@))]
           whole == Len(a.answer) = n
<1>1. /\ command \in Nat /\ Op(command) \in Nat /\ Op(command) \div 256 = command
      /\ command \notin DOMAIN Setters
  <2>1. command \in {2, 35, 22}
    BY DEF Questions, READ_ACQ_MOD, READ_DETECTION, READ_TRG_CONF
  <2>2. command \notin {0, 1, 16, 17, 20, 34, 36, 48, 53, 66, 68, 80, 200}
    BY <2>1
  <2>3. command \notin DOMAIN Setters
    BY <2>2, Commands
  <2>4. command \in Nat
    BY <2>1
  <2>. QED
    BY <2>3, <2>4, OpOf
<1>2. CASE m.answer # <<>>
  <2>1. o = Outcome(m, 0, TRUE, <<>>) \/ o = Outcome(m, 1, FALSE, <<>>)
    BY <1>2, Zenon DEF Asking
  <2>2. o.micro = m /\ (o.hung \/ o.failed = 1)
    BY <2>1 DEF Outcome
  <2>. QED
    BY <2>2, AskedSame
<1>3. CASE m.answer = <<>>
  <2>1. o \in {Outcome(left(Len(a.answer)), 0, ~whole, a.answer), Outcome(m, 1, FALSE, <<>>)}
             \cup {Outcome(left(i), 1, FALSE, <<>>) : i \in 0 .. (IF whole THEN n - 1 ELSE 0)}
    BY <1>3, Zenon DEF Asking
  <2>2. ASSUME NEW i, a = Micro(a.setting, a.waiting, a.answer)
        PROVE  left(i) = Micro(a.setting, a.waiting, SubSeq(a.answer, i + 1, Len(a.answer)))
    <3> DEFINE x == SubSeq(a.answer, i + 1, Len(a.answer))
    <3>1. left(i) = [a EXCEPT !.answer = x]
      OBVIOUS
    <3> HIDE DEF a, x
    <3>2. [a EXCEPT !.answer = x] = Micro(a.setting, a.waiting, x)
      BY <2>2, MicroFields
    <3>. QED
      BY <3>1, <3>2 DEF x
  <2>3. \/ o = Outcome(left(Len(a.answer)), 0, ~whole, a.answer)
        \/ o = Outcome(m, 1, FALSE, <<>>)
        \/ \E i \in 0 .. (IF whole THEN n - 1 ELSE 0) : o = Outcome(left(i), 1, FALSE, <<>>)
    BY <2>1, Zenon
  <2>4. CASE o = Outcome(m, 1, FALSE, <<>>)
    <3>1. o.micro = m /\ o.failed = 1
      BY <2>4 DEF Outcome
    <3>. QED
      BY <3>1, AskedSame
  <2>5. CASE m.waiting = <<>>
    <3>1. a = Micro(m.setting, <<>>, AnswerTo(m.setting, command))
      <4>1. Take(m, Op(command)) = Micro(m.setting, <<>>, AnswerTo(m.setting, Op(command) \div 256))
        BY <1>1, <2>5, TakeIgnored
      <4>. QED
        BY <1>1, <4>1, Zenon
    <3>2. a.setting = m.setting /\ a.waiting = <<>> /\ a.answer = AnswerTo(m.setting, command)
      <4> HIDE DEF a
      <4>. QED
        BY <3>1, MicroFields
    <3>3. a = Micro(a.setting, a.waiting, a.answer)
      <4> HIDE DEF a
      <4>. QED
        BY <3>1, <3>2, Zenon
    <3>4. Missing(m) = 0
      BY <2>5 DEF Missing
    <3>5. ASSUME NEW i PROVE /\ MicroInv(left(i)) /\ left(i).setting = m.setting
                             /\ Missing(left(i)) = 0 /\ \A b : Bad(left(i), b) \subseteq Bad(m, b)
      <4> DEFINE x == SubSeq(a.answer, i + 1, Len(a.answer))
                 t == left(i)
      <4>1. t = Micro(a.setting, a.waiting, x)
        BY <2>2, <3>3
      <4> HIDE DEF t, x
      <4>2. t = Micro(m.setting, <<>>, x)
        BY <4>1, <3>2, Zenon
      <4>3. t.setting = m.setting /\ t.waiting = <<>> /\ t.answer = x
        BY <4>2, MicroFields
      <4>4. MicroInv(t) /\ Missing(t) = 0
        BY <4>2, <4>3 DEF MicroInv, Missing
      <4>5. \A b : Bad(t, b) \subseteq Bad(m, b)
        BY <4>3, <4>4, BadKept
      <4>. QED
        BY <4>3, <4>4, <4>5 DEF t
    <3>6. CASE o = Outcome(left(Len(a.answer)), 0, ~whole, a.answer)
      <4> DEFINE t == left(Len(a.answer))
      <4>1. o.micro = t /\ o.data = a.answer
        BY <3>6 DEF Outcome
      <4>2. /\ MicroInv(t) /\ t.setting = m.setting /\ Missing(t) = 0
            /\ \A b : Bad(t, b) \subseteq Bad(m, b)
        BY <3>5
      <4> HIDE DEF t
      <4>3. o.data = AnswerTo(m.setting, command)
        BY <3>2, <4>1
      <4>. QED
        BY <3>4, <4>1, <4>2, <4>3 DEF Asked
    <3>7. ASSUME NEW i \in 0 .. (IF whole THEN n - 1 ELSE 0), o = Outcome(left(i), 1, FALSE, <<>>)
          PROVE  Asked(o, m, command)
      <4> DEFINE t == left(i)
      <4>1. o.micro = t /\ o.failed = 1
        BY <3>7 DEF Outcome
      <4>2. MicroInv(t) /\ Missing(t) = 0 /\ \A b : Bad(t, b) \subseteq Bad(m, b)
        BY <3>5
      <4> HIDE DEF t
      <4>. QED
        BY <3>4, <4>1, <4>2 DEF Asked
    <3>. QED
      BY <2>3, <2>4, <3>6, <3>7
  <2>6. CASE m.waiting # <<>>
    <3> DEFINE S == {Pending(m).setting}
    <3>1. Missing(m) \in {1, 2}
      BY <2>6, MissingOf
    <3>2. Astray(m, m, S)
      BY <1>3, <3>1 DEF Astray
    <3>3. Astray(a, m, S)
      <4>1. Pending(m).setting \in S
        OBVIOUS
      <4> HIDE DEF S
      <4>. QED
        BY <1>1, <3>1, <3>2, <4>1, AstrayTake
    <3>4. /\ MicroInv(a) /\ a.answer = <<>> /\ Missing(a) <= Missing(m)
          /\ Missing(a) # 0 => Pending(a) = Pending(m)
          /\ \A s \in Settings \ S : a.setting[s] = m.setting[s]
      BY <3>3 DEF Astray
    <3> HIDE DEF a
    <3>5. \A b : Bad(a, b) \subseteq Bad(m, b)
      BY <3>1, <3>4, BadKept
    <3>6. ~whole
      BY <3>4
    <3>7. left(0) = a
      <4>1. a = Micro(a.setting, a.waiting, a.answer)
        BY <3>4 DEF MicroInv
      <4>2. SubSeq(a.answer, 0 + 1, Len(a.answer)) = <<>>
        BY <3>4
      <4>3. left(0) = Micro(a.setting, a.waiting, SubSeq(a.answer, 0 + 1, Len(a.answer)))
        BY <4>1, <2>2
      <4>. QED
        BY <4>1, <4>2, <4>3, <3>4, Zenon
    <3>8. (o.micro = a /\ (o.hung \/ o.failed = 1)) \/ o = Outcome(m, 1, FALSE, <<>>)
      <4>1. \A i \in 0 .. (IF whole THEN n - 1 ELSE 0) : i = 0
        BY <3>6
      <4>2. Len(a.answer) = 0
        BY <3>4
      <4>3. \/ o = Outcome(left(0), 0, ~whole, a.answer)
            \/ o = Outcome(m, 1, FALSE, <<>>)
            \/ o = Outcome(left(0), 1, FALSE, <<>>)
        BY <2>3, <4>1, <4>2, Zenon
      <4>4. \/ o = Outcome(a, 0, ~whole, a.answer)
            \/ o = Outcome(m, 1, FALSE, <<>>)
            \/ o = Outcome(a, 1, FALSE, <<>>)
        BY <3>7, <4>3, Zenon
      <4> HIDE DEF left, whole
      <4>5. o = Outcome(a, 0, ~whole, a.answer) => o.micro = a /\ o.hung
        <5> SUFFICES ASSUME o = Outcome(a, 0, ~whole, a.answer) PROVE o.micro = a /\ o.hung
          OBVIOUS
        <5>1. ~whole = TRUE
          BY <3>6
        <5>2. o = Outcome(a, 0, TRUE, a.answer)
          BY <5>1
        <5>. QED
          BY <5>2 DEF Outcome
      <4>6. o = Outcome(a, 1, FALSE, <<>>) => o.micro = a /\ o.failed = 1
        BY DEF Outcome
      <4>. QED
        BY <4>4, <4>5, <4>6
    <3> HIDE DEF left, whole
    <3>9. CASE o.micro = a /\ (o.hung \/ o.failed = 1)
      BY <3>4, <3>5, <3>9 DEF Asked
    <3>. QED
      BY <2>4, <3>8, <3>9
  <2>. QED
    BY <2>5, <2>6
<1>. QED
  BY <1>2, <1>3

-----------------------------------------------------------------------------
(* Words that the micro controller still takes for operands are paid for   *)
(* in advance: each may spoil a setting before it is in step again.        *)
OneWord(p) == (p[1] = "tdc" /\ p[2] \in {3, 4, 7, 9, 10}) \/ (p[1] = "xml" /\ p[2] = 1)
TwoInARow(p) == p[1] = "tdc" /\ p[2] \in {3, 9}
Due(q, p) ==
  IF q = 0 THEN 0 ELSE IF ~OneWord(p) THEN 2 ELSE IF q = 1 THEN 1 ELSE IF TwoInARow(p) THEN 2 ELSE 3

Within(m, a, p, f) == Cardinality(Bad(m, a)) + Due(Missing(m), p) <= 3 * f

(* From one call to the next, n being the operands of the command.         *)
Pace(n, p, p1) ==
  /\ n = 0 <=> OneWord(p)
  /\ n = 2 => ~OneWord(p1) \/ TwoInARow(p1)
  /\ TwoInARow(p) => OneWord(p1)

Spent(n, failed, m, a, m1, a1) ==
  /\ Cardinality(Bad(m1, a1)) <= Cardinality(Bad(m, a)) +
       (IF failed = 0 /\ Missing(m) = 0 THEN 0 ELSE IF Missing(m) = 0 \/ n = 0 THEN 1 ELSE 2)
  /\ failed = 0 => Missing(m1) <= IF Missing(m) = 2 /\ n = 0 THEN 1 ELSE 0
  /\ failed = 1 => Missing(m1) <= IF Missing(m) = 0 THEN n ELSE Missing(m)

LEMMA DueStep ==
  ASSUME NEW n \in {0, 1, 2}, NEW failed \in {0, 1}, NEW f \in Nat, NEW p, NEW p1, Pace(n, p, p1),
         NEW q \in {0, 1, 2}, NEW q1 \in {0, 1, 2}, NEW x \in Nat, NEW x1 \in Nat,
         x + Due(q, p) <= 3 * f,
         x1 <= x + (IF failed = 0 /\ q = 0 THEN 0 ELSE IF q = 0 \/ n = 0 THEN 1 ELSE 2),
         failed = 0 => q1 <= IF q = 2 /\ n = 0 THEN 1 ELSE 0,
         failed = 1 => q1 <= IF q = 0 THEN n ELSE q
  PROVE  x1 + Due(q1, p1) <= 3 * (f + failed)
<1> DEFINE d == Due(q, p)
           d1 == Due(q1, p1)
<1>1. /\ d \in {0, 1, 2, 3} /\ d1 \in {0, 1, 2, 3}
      /\ q = 0 => d = 0
      /\ q # 0 /\ n # 0 => d = 2
      /\ q = 1 /\ n = 0 => d = 1
      /\ q = 2 /\ n = 0 => d = 3 \/ (d = 2 /\ (q1 = 1 => d1 = 1))
      /\ q1 = 0 => d1 = 0
      /\ q1 = 1 => d1 <= 2
      /\ q1 = 2 /\ n = 2 => d1 = 2
  BY DEF Due, Pace
<1> HIDE DEF d, d1
<1>2. CASE failed = 0
  BY <1>1, <1>2 DEF d, d1
<1>3. CASE failed = 1
  BY <1>1, <1>3 DEF d, d1
<1>. QED
  BY <1>2, <1>3

LEMMA SettingsFinite ==
  /\ IsFiniteSet(Settings)
  /\ \A m, a : MicroInv(m) => IsFiniteSet(Bad(m, a)) /\ Cardinality(Bad(m, a)) \in Nat
<1>1. IsFiniteSet(Settings)
  <2> DEFINE f == [c \in DOMAIN Setters |-> Setters[c].setting]
  <2>1. IsFiniteSet(0 .. 200) /\ DOMAIN Setters \subseteq 0 .. 200
    <3>1. IsFiniteSet(0 .. 200)
      <4>1. 0 \in Int /\ 200 \in Int
        OBVIOUS
      <4>. QED
        BY <4>1, FS_Interval, Zenon
    <3>2. DOMAIN Setters = {0, 1, 16, 17, 20, 34, 36, 48, 53, 66, 68, 80, 200}
      BY Commands
    <3>. QED
      BY <3>1, <3>2
  <2>2. IsFiniteSet(DOMAIN Setters)
    BY <2>1, FS_Subset
  <2>3. f \in Surjection(DOMAIN Setters, Settings)
    BY DEF Surjection, Settings
  <2>. QED
    BY <2>2, <2>3, FS_Surjection
<1>2. ASSUME NEW m, NEW a, MicroInv(m) PROVE IsFiniteSet(Bad(m, a)) /\ Cardinality(Bad(m, a)) \in Nat
  <2>1. Bad(m, a) \subseteq Settings
    <3>1. m.waiting # <<>> => Pending(m).setting \in Settings
      BY <1>2, MissingOf, CommandShapes DEF Pending
    <3>. QED
      BY <3>1 DEF Bad
  <2>. QED
    BY <1>1, <2>1, FS_Subset, FS_CardinalityType
<1>. QED
  BY <1>1, <1>2

LEMMA OneMore ==
  ASSUME NEW X, NEW Y, NEW a, NEW b, IsFiniteSet(X), IsFiniteSet(Y)
  PROVE  /\ Y \subseteq X => Cardinality(Y) <= Cardinality(X)
         /\ Y \subseteq X \cup {a} => Cardinality(Y) <= Cardinality(X) + 1
         /\ Y \subseteq X \cup {a, b} => Cardinality(Y) <= Cardinality(X) + 2
<1>a. ASSUME NEW S, IsFiniteSet(S), NEW e
      PROVE  /\ IsFiniteSet(S \cup {e}) /\ Cardinality(S) \in Nat /\ Cardinality(S \cup {e}) \in Nat
             /\ Cardinality(S \cup {e}) <= Cardinality(S) + 1
  <2>1. IsFiniteSet(S \cup {e}) /\ Cardinality(S \cup {e}) = IF e \in S THEN Cardinality(S) ELSE Cardinality(S) + 1
    BY <1>a, FS_AddElement, Zenon
  <2>2. Cardinality(S) \in Nat
    BY <1>a, FS_CardinalityType
  <2>. QED
    BY <2>1, <2>2
<1>1. /\ IsFiniteSet(X \cup {a}) /\ Cardinality(X) \in Nat /\ Cardinality(Y) \in Nat
      /\ Cardinality(X \cup {a}) <= Cardinality(X) + 1
  BY <1>a, FS_CardinalityType
<1>2. /\ IsFiniteSet((X \cup {a}) \cup {b}) /\ Cardinality((X \cup {a}) \cup {b}) <= Cardinality(X \cup {a}) + 1
      /\ Cardinality(X \cup {a}) \in Nat /\ Cardinality((X \cup {a}) \cup {b}) \in Nat
  <2> DEFINE Z == X \cup {a}
  <2> HIDE DEF Z
  <2>1. IsFiniteSet(Z)
    BY <1>1 DEF Z
  <2>2. /\ IsFiniteSet(Z \cup {b}) /\ Cardinality(Z \cup {b}) <= Cardinality(Z) + 1
        /\ Cardinality(Z) \in Nat /\ Cardinality(Z \cup {b}) \in Nat
    BY <2>1, <1>a
  <2>. QED
    BY <2>2 DEF Z
<1>3. X \cup {a, b} = (X \cup {a}) \cup {b}
  OBVIOUS
<1>4. Y \subseteq X => Cardinality(Y) <= Cardinality(X)
  BY FS_Subset
<1>5. Y \subseteq X \cup {a} => Cardinality(Y) <= Cardinality(X \cup {a})
  BY <1>1, FS_Subset
<1>6. Y \subseteq (X \cup {a}) \cup {b} => Cardinality(Y) <= Cardinality((X \cup {a}) \cup {b})
  BY <1>2, FS_Subset
<1>7. Y \subseteq X \cup {a} => Cardinality(Y) <= Cardinality(X) + 1
  BY <1>1, <1>2, <1>5
<1>8. Y \subseteq (X \cup {a}) \cup {b} => Cardinality(Y) <= Cardinality(X) + 2
  BY <1>1, <1>2, <1>6
<1>. QED
  BY <1>3, <1>4, <1>7, <1>8

-----------------------------------------------------------------------------
LEMMA SpentSending ==
  ASSUME NEW m, MicroInv(m), NEW a, SettingsInv(a), NEW c, NEW words, Command(c, words),
         NEW o \in Sending(m, words), ~o.hung, NEW b, b = TakeAll(Micro(a, <<>>, <<>>), words).setting
  PROVE  Spent(Setters[c].operands, o.failed, m, a, o.micro, b)
<1> DEFINE n == Setters[c].operands
           q == Missing(m)
           X == Bad(m, a)
           Y == Bad(o.micro, b)
<1>1. /\ MicroInv(o.micro)
      /\ Y \subseteq X \cup Costs(c, q, words)
      /\ o.failed = 0 /\ q = 0 => Y \subseteq X /\ Missing(o.micro) = 0
      /\ o.failed = 0 /\ q # 0 => Missing(o.micro) = IF q = 2 /\ Len(words) = 1 THEN 1 ELSE 0
      /\ o.failed = 1 => Missing(o.micro) <= IF q = 0 THEN n ELSE q
  BY SendingDamage
<1>2. IsFiniteSet(X) /\ IsFiniteSet(Y) /\ Cardinality(X) \in Nat /\ Cardinality(Y) \in Nat
  BY <1>1, SettingsFinite
<1>3. Len(words) = 1 <=> n = 0
  BY LenTuples DEF Command
<1>4. q \in {0, 1, 2} /\ Missing(o.micro) \in {0, 1, 2}
  BY <1>1, MissingOf
<1> DEFINE own == Setters[c].setting
<1>5. (q = 0 \/ n = 0) => Y \subseteq X \cup {own}
  BY <1>1, <1>3 DEF Costs
<1>6. Y \subseteq X \cup {own, "acquisition"}
  BY <1>1 DEF Costs
<1> HIDE DEF X, Y, own
<1>7. /\ Y \subseteq X => Cardinality(Y) <= Cardinality(X)
      /\ Y \subseteq X \cup {own} => Cardinality(Y) <= Cardinality(X) + 1
      /\ Y \subseteq X \cup {own, "acquisition"} => Cardinality(Y) <= Cardinality(X) + 2
  BY <1>2, OneMore
<1>8. Cardinality(Y) <= Cardinality(X) +
         (IF o.failed = 0 /\ q = 0 THEN 0 ELSE IF q = 0 \/ n = 0 THEN 1 ELSE 2)
  BY <1>1, <1>2, <1>5, <1>6, <1>7
<1>9. o.failed = 0 => Missing(o.micro) <= IF q = 2 /\ n = 0 THEN 1 ELSE 0
  BY <1>1, <1>3, <1>4
<1>. QED
  BY <1>1, <1>8, <1>9 DEF Spent, X, Y

LEMMA SpentAsking ==
  ASSUME NEW n \in {0, 1, 2}, NEW m, MicroInv(m), NEW a, NEW m1, MicroInv(m1), NEW a1, Spent(n, 0, m, a, m1, a1),
         NEW o, NEW command, Asked(o, m1, command), o.failed \in {0, 1}, ~o.hung
  PROVE  Spent(n, o.failed, m, a, o.micro, a1)
<1>1. /\ MicroInv(o.micro) /\ Missing(o.micro) <= Missing(m1)
      /\ Bad(o.micro, a1) \subseteq Bad(m1, a1)
      /\ o.failed = 0 => Missing(o.micro) = 0
  BY DEF Asked
<1>2. /\ Cardinality(Bad(o.micro, a1)) \in Nat /\ Cardinality(Bad(m1, a1)) \in Nat
      /\ Cardinality(Bad(m, a)) \in Nat
      /\ Cardinality(Bad(o.micro, a1)) <= Cardinality(Bad(m1, a1))
  BY <1>1, SettingsFinite, OneMore
<1>3. Missing(m) \in {0, 1, 2} /\ Missing(m1) \in {0, 1, 2} /\ Missing(o.micro) \in {0, 1, 2}
  BY <1>1, MissingOf
<1>. QED
  BY <1>1, <1>2, <1>3 DEF Spent

(* A command that was sent, and a failure after it.                        *)
LEMMA SpentAndLost ==
  ASSUME NEW m, MicroInv(m), NEW a, NEW m1, MicroInv(m1), NEW a1, Spent(0, 0, m, a, m1, a1)
  PROVE  Spent(0, 1, m, a, m1, a1)
<1>1. Missing(m) \in {0, 1, 2} /\ Missing(m1) \in {0, 1, 2}
  BY MissingOf
<1>2. Cardinality(Bad(m, a)) \in Nat /\ Cardinality(Bad(m1, a1)) \in Nat
  BY SettingsFinite
<1>. QED
  BY <1>1, <1>2 DEF Spent

(* A question alone costs nothing.                                         *)
LEMMA SpentOnlyAsking ==
  ASSUME NEW m, MicroInv(m), NEW a, NEW o, NEW command, Asked(o, m, command), o.failed \in {0, 1}, ~o.hung
  PROVE  Spent(1, o.failed, m, a, o.micro, a)
<1>1. /\ MicroInv(o.micro) /\ Missing(o.micro) <= Missing(m)
      /\ Bad(o.micro, a) \subseteq Bad(m, a)
      /\ o.failed = 0 => Missing(o.micro) = 0
  BY DEF Asked
<1>2. /\ Cardinality(Bad(o.micro, a)) \in Nat /\ Cardinality(Bad(m, a)) \in Nat
      /\ Cardinality(Bad(o.micro, a)) <= Cardinality(Bad(m, a))
  BY <1>1, SettingsFinite, OneMore
<1>3. Missing(m) \in {0, 1, 2} /\ Missing(o.micro) \in {0, 1, 2}
  BY <1>1, MissingOf
<1>. QED
  BY <1>1, <1>2, <1>3 DEF Spent
-----------------------------------------------------------------------------
(* The calls, as steps.                                                    *)
BusInv == failures \in 0 .. MaxFailures /\ process \in ProcessStates
BusStep == failures' \in 0 .. MaxFailures /\ failures' >= failures /\ process' \in ProcessStates

ModesInv == fAcquisitionMode \in {CONT_STORAGE, TRIG_MATCH} /\ fDetectionMode \in 0 .. 3
Registers == [ettt : BOOLEAN, rest : {"default", "any"}]
TDCInv == MicroInv(micro) /\ SettingsInv(asked) /\ control \in Registers /\ ModesInv

SpentBy(n) ==
  process' = "running" =>
    \E failed \in {0, 1} : failures' = failures + failed /\ Spent(n, failed, micro, asked, micro', asked')

LEMMA BusSteps ==
  ASSUME BusInv, NEW n \in Nat, Accesses(n), NEW state \in ProcessStates, Goes(state)
  PROVE  BusStep /\ failures' = failures + n /\ process' = state
BY FailuresAssumption DEF BusInv, BusStep, Accesses, Goes

LEMMA EndsStep ==
  ASSUME BusInv, NEW o, o.failed \in {0, 1}, o.hung \in BOOLEAN, NEW state \in ProcessStates, Ends(o, state)
  PROVE  /\ BusStep /\ micro' = o.micro /\ failures' = failures + o.failed
         /\ process' = "running" => ~o.hung /\ state = "running"
         /\ o.hung => process' = "hung"
<1>1. (IF o.hung THEN "hung" ELSE state) \in ProcessStates
  BY DEF ProcessStates
<1>2. Accesses(o.failed) /\ Goes(IF o.hung THEN "hung" ELSE state) /\ micro' = o.micro
  BY DEF Ends
<1>3. BusStep /\ failures' = failures + o.failed /\ process' = (IF o.hung THEN "hung" ELSE state)
  BY <1>1, <1>2, BusSteps
<1>. QED
  BY <1>2, <1>3

LEMMA SendsStep ==
  ASSUME BusInv, TDCInv, NEW c, NEW words, Command(c, words), Sends(words)
  PROVE  BusStep /\ MicroInv(micro') /\ SettingsInv(asked') /\ SpentBy(Setters[c].operands)
<1>1. PICK o \in Sending(micro, words) : Ends(o, "running")
  BY DEF Sends, Proceeds
<1>2. o.failed \in {0, 1} /\ o.hung \in BOOLEAN
  BY SendingOutcome
<1>3. "running" \in ProcessStates
  BY DEF ProcessStates
<1>4. /\ BusStep /\ micro' = o.micro /\ failures' = failures + o.failed
      /\ process' = "running" => ~o.hung
  BY <1>1, <1>2, <1>3, EndsStep
<1>5. asked' = TakeAll(Micro(asked, <<>>, <<>>), words).setting
  BY DEF Sends, Asks
<1>6. MicroInv(micro) /\ SettingsInv(asked)
  BY DEF TDCInv
<1>7. SettingsInv(asked')
  BY <1>5, <1>6, AskedFor
<1>8. MicroInv(micro')
  BY <1>4, <1>5, <1>6, SendingDamage
<1>9. ~o.hung => Spent(Setters[c].operands, o.failed, micro, asked, micro', asked')
  BY <1>4, <1>5, <1>6, SpentSending
<1>. QED
  BY <1>2, <1>4, <1>7, <1>8, <1>9 DEF SpentBy

-----------------------------------------------------------------------------
(* The words that the methods send.                                        *)
LEMMA PlainWords ==
  /\ \A x \in 0 .. 511 : Plain(x)
  /\ Plain(AllChannels) /\ Plain(65136)
<1>1. ASSUME NEW x \in 0 .. 511 PROVE Plain(x)
  <2>1. x \div 256 \in {0, 1}
    OBVIOUS
  <2>. QED
    BY <2>1 DEF Plain, TRG_MATCH, CONT_STOR
<1>2. AllChannels \div 256 = 255 /\ 65136 \div 256 = 254
  BY DEF AllChannels
<1>3. {254, 255} \cap (DOMAIN Setters \cup {READ_ACQ_MOD, READ_DETECTION, READ_TRG_CONF}) = {}
  BY Commands DEF READ_ACQ_MOD, READ_DETECTION, READ_TRG_CONF
<1>4. AllChannels \in Nat
  BY DEF AllChannels
<1>. QED
  BY <1>1, <1>2, <1>3, <1>4 DEF Plain

Sent(c) == \E words : Command(c, words) /\ Sends(words)

LEMMA CommandsOf ==
  /\ \A c \in {0, 1, 20, 48, 53, 66} : Setters[c].operands = 0 /\ Command(c, <<Op(c)>>)
  /\ \A c \in {16, 17, 34, 36, 200} :
       Setters[c].operands = 1 /\ \A x : Plain(x) => Command(c, <<Op(c), x>>)
  /\ \A c \in {68, 80} :
       Setters[c].operands = 2 /\ \A x, y : Plain(x) /\ Plain(y) => Command(c, <<Op(c), x, y>>)
<1>1. /\ \A c \in {0, 1, 20, 48, 53, 66} : c \in DOMAIN Setters /\ Setters[c].operands = 0
      /\ \A c \in {16, 17, 34, 36, 200} : c \in DOMAIN Setters /\ Setters[c].operands = 1
      /\ \A c \in {68, 80} : c \in DOMAIN Setters /\ Setters[c].operands = 2
  BY Commands DEF Sets
<1>. QED
  BY <1>1 DEF Command

LEMMA CallsSend ==
  /\ EnableAllChannels => Sent(EN_ALL_CHANNEL)
  /\ SetTriggerTimeSubtraction => Sent(EN_SUB_TRG)
  /\ SetTDCEncapsulation => Sent(EN_HEAD_TRAILER)
  /\ SetErrorMarks => Sent(EN_ERROR_MARK)
  /\ \A x : Plain(x) => /\ SetLSBTraileadEdge(x) => Sent(SET_TR_LEAD_LSB)
                        /\ SetDLLClock(x) => Sent(SET_DLL_CLOCK)
                        /\ SetWindowWidth(x) => Sent(SET_WIN_WIDTH)
                        /\ SetWindowOffset(x) => Sent(SET_WIN_OFFS)
                        /\ SetDetectionMode(x) => Sent(SET_DETECTION)
  /\ \A x, y : Plain(x) /\ Plain(y) => /\ SetGlobalOffset(x, y) => Sent(SET_GLOB_OFFS)
                                       /\ SetPoI(x, y) => Sent(WRITE_EN_PATTERN)
<1>1. \A c, words : Command(c, words) /\ Sends(words) => Sent(c)
  BY DEF Sent
<1>2. /\ EN_ALL_CHANNEL = 66 /\ EN_SUB_TRG = 20 /\ EN_HEAD_TRAILER = 48 /\ EN_ERROR_MARK = 53
      /\ SET_TR_LEAD_LSB = 36 /\ SET_DLL_CLOCK = 200 /\ SET_WIN_WIDTH = 16 /\ SET_WIN_OFFS = 17
      /\ SET_DETECTION = 34 /\ SET_GLOB_OFFS = 80 /\ WRITE_EN_PATTERN = 68
  BY DEF EN_ALL_CHANNEL, EN_SUB_TRG, EN_HEAD_TRAILER, EN_ERROR_MARK, SET_TR_LEAD_LSB, SET_DLL_CLOCK,
         SET_WIN_WIDTH, SET_WIN_OFFS, SET_DETECTION, SET_GLOB_OFFS, WRITE_EN_PATTERN
<1>3. /\ EnableAllChannels => Sends(<<Op(EN_ALL_CHANNEL)>>)
      /\ SetTriggerTimeSubtraction => Sends(<<Op(EN_SUB_TRG)>>)
      /\ SetTDCEncapsulation => Sends(<<Op(EN_HEAD_TRAILER)>>)
      /\ SetErrorMarks => Sends(<<Op(EN_ERROR_MARK)>>)
  BY DEF EnableAllChannels, SetTriggerTimeSubtraction, SetTDCEncapsulation, SetErrorMarks
<1>4. ASSUME NEW x
      PROVE  /\ SetLSBTraileadEdge(x) => Sends(<<Op(SET_TR_LEAD_LSB), x>>)
             /\ SetDLLClock(x) => Sends(<<Op(SET_DLL_CLOCK), x>>)
             /\ SetWindowWidth(x) => Sends(<<Op(SET_WIN_WIDTH), x>>)
             /\ SetWindowOffset(x) => Sends(<<Op(SET_WIN_OFFS), x>>)
             /\ SetDetectionMode(x) => Sends(<<Op(SET_DETECTION), x>>)
  BY DEF SetLSBTraileadEdge, SetDLLClock, SetWindowWidth, SetWindowOffset, SetDetectionMode
<1>5. ASSUME NEW x, NEW y
      PROVE  /\ SetGlobalOffset(x, y) => Sends(<<Op(SET_GLOB_OFFS), x, y>>)
             /\ SetPoI(x, y) => Sends(<<Op(WRITE_EN_PATTERN), x, y>>)
  BY DEF SetGlobalOffset, SetPoI
<1>6. \A c \in {20, 48, 53, 66} : Sends(<<Op(c)>>) => Sent(c)
  BY <1>1, CommandsOf
<1>7. ASSUME NEW x, Plain(x) PROVE \A c \in {16, 17, 34, 36, 200} : Sends(<<Op(c), x>>) => Sent(c)
  BY <1>1, <1>7, CommandsOf
<1>8. ASSUME NEW x, NEW y, Plain(x), Plain(y) PROVE \A c \in {68, 80} : Sends(<<Op(c), x, y>>) => Sent(c)
  BY <1>1, <1>8, CommandsOf
<1>9. /\ EnableAllChannels => Sent(EN_ALL_CHANNEL)
      /\ SetTriggerTimeSubtraction => Sent(EN_SUB_TRG)
      /\ SetTDCEncapsulation => Sent(EN_HEAD_TRAILER)
      /\ SetErrorMarks => Sent(EN_ERROR_MARK)
  BY <1>2, <1>3, <1>6
<1>10. ASSUME NEW x, Plain(x)
       PROVE  /\ SetLSBTraileadEdge(x) => Sent(SET_TR_LEAD_LSB)
              /\ SetDLLClock(x) => Sent(SET_DLL_CLOCK)
              /\ SetWindowWidth(x) => Sent(SET_WIN_WIDTH)
              /\ SetWindowOffset(x) => Sent(SET_WIN_OFFS)
              /\ SetDetectionMode(x) => Sent(SET_DETECTION)
  <2>1. /\ Sends(<<Op(36), x>>) => Sent(36)
        /\ Sends(<<Op(200), x>>) => Sent(200)
        /\ Sends(<<Op(16), x>>) => Sent(16)
        /\ Sends(<<Op(17), x>>) => Sent(17)
        /\ Sends(<<Op(34), x>>) => Sent(34)
    BY <1>7, <1>10
  <2>2. SetLSBTraileadEdge(x) => Sent(SET_TR_LEAD_LSB)
    BY <1>2, <1>4, <2>1, ZenonT(40)
  <2>3. SetDLLClock(x) => Sent(SET_DLL_CLOCK)
    BY <1>2, <1>4, <2>1, ZenonT(60)
  <2>4. SetWindowWidth(x) => Sent(SET_WIN_WIDTH)
    BY <1>2, <1>4, <2>1, Zenon
  <2>6. SetWindowOffset(x) => Sent(SET_WIN_OFFS)
    BY <1>2, <1>4, <2>1, Zenon
  <2>5. SetDetectionMode(x) => Sent(SET_DETECTION)
    BY <1>2, <1>4, <2>1, Zenon
  <2>. QED
    BY <2>2, <2>3, <2>4, <2>5, <2>6
<1>11. ASSUME NEW x, NEW y, Plain(x), Plain(y)
       PROVE  /\ SetGlobalOffset(x, y) => Sent(SET_GLOB_OFFS)
              /\ SetPoI(x, y) => Sent(WRITE_EN_PATTERN)
  <2>1. /\ Sends(<<Op(80), x, y>>) => Sent(80)
        /\ Sends(<<Op(68), x, y>>) => Sent(68)
    BY <1>8, <1>11
  <2>. QED
    BY <1>2, <1>5, <2>1, Zenon
<1>. QED
  BY <1>9, <1>10, <1>11

LEMMA SentStep ==
  ASSUME BusInv, TDCInv, NEW c, Sent(c)
  PROVE  BusStep /\ MicroInv(micro') /\ SettingsInv(asked') /\ SpentBy(Setters[c].operands)
<1>1. PICK words : Command(c, words) /\ Sends(words)
  BY DEF Sent
<1>. QED
  BY <1>1, SendsStep
-----------------------------------------------------------------------------
(* The questions: the mode that is given back is the one of the board when *)
(* no access failed.                                                       *)
LEMMA FailedAsking ==
  ASSUME NEW m, NEW command, NEW n, NEW o \in Asking(m, command, n)
  PROVE  o.failed \in {0, 1} /\ o.hung \in BOOLEAN
<1>1. o.failed \in {0, 1}
  BY OutcomesOfTDC
<1> DEFINE a == Take(m, Op(command))
           left(i) == [a EXCEPT !.answer = SubSeq(@, i + 1, Len(@))]
           whole == Len(a.answer) = n
<1>2. CASE m.answer # <<>>
  <2>1. o = Outcome(m, 0, TRUE, <<>>) \/ o = Outcome(m, 1, FALSE, <<>>)
    BY <1>2, Zenon DEF Asking
  <2>2. o.hung = TRUE \/ o.hung = FALSE
    BY <2>1 DEF Outcome
  <2>. QED
    BY <1>1, <2>2, Zenon
<1>3. CASE m.answer = <<>>
  <2>1. o \in {Outcome(left(Len(a.answer)), 0, ~whole, a.answer), Outcome(m, 1, FALSE, <<>>)}
              \cup {Outcome(left(i), 1, FALSE, <<>>) : i \in 0 .. (IF whole THEN n - 1 ELSE 0)}
    BY <1>3, Zenon DEF Asking
  <2>2. \/ o = Outcome(left(Len(a.answer)), 0, ~whole, a.answer)
        \/ o = Outcome(m, 1, FALSE, <<>>)
        \/ \E i : o = Outcome(left(i), 1, FALSE, <<>>)
    BY <2>1, Zenon
  <2>3. ~whole = TRUE \/ ~whole = FALSE
    OBVIOUS
  <2> DEFINE h == ~whole
  <2> HIDE DEF left, whole
  <2>4. \/ o = Outcome(left(Len(a.answer)), 0, TRUE, a.answer)
        \/ o = Outcome(left(Len(a.answer)), 0, FALSE, a.answer)
        \/ o = Outcome(m, 1, FALSE, <<>>)
        \/ \E i : o = Outcome(left(i), 1, FALSE, <<>>)
    BY <2>2, <2>3, Zenon
  <2>5. o.hung = TRUE \/ o.hung = FALSE
    BY <2>4 DEF Outcome
  <2>. QED
    BY <1>1, <2>5, Zenon
<1>. QED
  BY <1>2, <1>3

LEMMA AskingStep ==
  ASSUME BusInv, TDCInv, NEW command \in Questions, NEW n \in {1, 5}, NEW o \in Asking(micro, command, n),
         NEW state \in ProcessStates, Ends(o, state), UNCHANGED asked
  PROVE  /\ BusStep /\ MicroInv(micro') /\ SettingsInv(asked') /\ SpentBy(1)
         /\ o.hung => process' = "hung"
         /\ process' = "running" => state = "running"
         /\ ~o.hung /\ o.failed = 0 =>
              /\ failures' = failures /\ micro'.setting = micro.setting
              /\ o.data = AnswerTo(micro.setting, command)
         /\ failures' = failures => o.failed = 0
<1>1. o.failed \in {0, 1} /\ o.hung \in BOOLEAN
  BY FailedAsking
<1>2. MicroInv(micro) /\ SettingsInv(asked)
  BY DEF TDCInv
<1>3. Asked(o, micro, command)
  BY <1>2, AskingOutcome
<1>4. /\ BusStep /\ micro' = o.micro /\ failures' = failures + o.failed
      /\ process' = "running" => ~o.hung /\ state = "running"
      /\ o.hung => process' = "hung"
  BY <1>1, EndsStep
<1>5. ~o.hung => Spent(1, o.failed, micro, asked, micro', asked')
  BY <1>1, <1>2, <1>3, <1>4, SpentOnlyAsking
<1>6. SpentBy(1)
  BY <1>1, <1>4, <1>5 DEF SpentBy
<1>7. failures \in Nat
  BY FailuresAssumption DEF BusInv
<1>. QED
  BY <1>1, <1>2, <1>3, <1>4, <1>6, <1>7 DEF Asked

-----------------------------------------------------------------------------
LEMMA Answers ==
  ASSUME NEW f
  PROVE  /\ AnswerTo(f, READ_ACQ_MOD) = f["acquisition"]
         /\ AnswerTo(f, READ_DETECTION) = f["detection"]
         /\ {READ_ACQ_MOD, READ_DETECTION, READ_TRG_CONF} \subseteq Questions
BY DEF AnswerTo, READ_ACQ_MOD, READ_DETECTION, READ_TRG_CONF, Questions

LEMMA BoardModesOf ==
  ASSUME NEW f, SettingsInv(f)
  PROVE  /\ f["acquisition"][1] \in {CONT_STORAGE, TRIG_MATCH}
         /\ f["detection"][1] \in Nat
<1>1. f["acquisition"][1] \in {CONT_STORAGE, TRIG_MATCH}
  BY DEF SettingsInv
<1>2. PICK x \in Nat : f["detection"] = <<x>>
  BY DEF SettingsInv
<1>. QED
  BY <1>1, <1>2

LEMMA ReadsOf ==
  /\ Invalid = 2 /\ CONT_STORAGE = 0 /\ TRIG_MATCH = 1
  /\ \A o, S : o.failed = 0 => Read(o, S) = {o.data[1]}
  /\ \A o, S : o.failed # 0 => Read(o, S) = S
BY DEF Invalid, CONT_STORAGE, TRIG_MATCH, Read

(* One read of the acquisition mode, after a command or alone.             *)
LEMMA AcquisitionWord ==
  ASSUME NEW m, MicroInv(m), NEW o \in Asking(m, READ_ACQ_MOD, 1), ~o.hung,
         NEW word \in Read(o, {CONT_STORAGE, TRIG_MATCH, Invalid})
  PROVE  /\ word \in {CONT_STORAGE, TRIG_MATCH, Invalid}
         /\ o.failed = 0 => word = m.setting["acquisition"][1] /\ word \in {CONT_STORAGE, TRIG_MATCH}
<1>1. o.failed \in {0, 1}
  BY FailedAsking
<1>2. Asked(o, m, READ_ACQ_MOD)
  BY Answers, AskingOutcome
<1>3. o.failed = 0 => o.data = m.setting["acquisition"]
  BY <1>2, Answers DEF Asked
<1>4. m.setting["acquisition"][1] \in {CONT_STORAGE, TRIG_MATCH}
  BY BoardModesOf DEF MicroInv
<1>5. o.failed = 0 => word = m.setting["acquisition"][1]
  BY <1>3, ReadsOf
<1>6. o.failed = 1 => word \in {CONT_STORAGE, TRIG_MATCH, Invalid}
  BY ReadsOf
<1>. QED
  BY <1>1, <1>4, <1>5, <1>6

TDCStep(n) == BusStep /\ TDCInv' /\ SpentBy(n)
SettingsKept == micro'.setting = micro.setting
Exact == process' = "running" /\ failures' = failures

LEMMA GetAcquisitionModeStep ==
  ASSUME BusInv, TDCInv, GetAcquisitionMode
  PROVE  /\ TDCStep(1)
         /\ Exact => fAcquisitionMode' = micro'.setting["acquisition"][1]
<1>1. PICK o \in Asking(micro, READ_ACQ_MOD, 1) : ReadsAcquisitionMode(o)
  BY DEF GetAcquisitionMode
<1>2. UNCHANGED <<asked, control, fDetectionMode>>
  BY DEF GetAcquisitionMode
<1>3. READ_ACQ_MOD \in Questions /\ 1 \in {1, 5} /\ {"running", "ended"} \subseteq ProcessStates
  BY Answers DEF ProcessStates
<1>4. MicroInv(micro) /\ ModesInv /\ control \in Registers
  BY DEF TDCInv
<1>5. CASE o.hung
  <2>1. Ends(o, "running") /\ UNCHANGED fAcquisitionMode
    BY <1>1, <1>5 DEF ReadsAcquisitionMode, Proceeds
  <2>2. BusStep /\ MicroInv(micro') /\ SettingsInv(asked') /\ SpentBy(1) /\ process' = "hung"
    BY <1>2, <1>3, <1>5, <2>1, AskingStep
  <2>3. TDCInv'
    BY <1>2, <1>4, <2>1, <2>2 DEF TDCInv, ModesInv
  <2>. QED
    BY <2>2, <2>3 DEF TDCStep, Exact
<1>6. CASE ~o.hung
  <2>1. PICK word \in Read(o, {CONT_STORAGE, TRIG_MATCH, Invalid}) :
          /\ Ends(o, IF word = Invalid THEN "ended" ELSE "running")
          /\ fAcquisitionMode' = IF word = Invalid THEN fAcquisitionMode ELSE word
    BY <1>1, <1>6 DEF ReadsAcquisitionMode
  <2>2. PICK state \in {"running", "ended"} : Ends(o, state) /\ (state = "running" => word # Invalid)
    BY <2>1
  <2>3. /\ BusStep /\ MicroInv(micro') /\ SettingsInv(asked') /\ SpentBy(1)
        /\ process' = "running" => state = "running"
        /\ ~o.hung /\ o.failed = 0 => micro'.setting = micro.setting
        /\ failures' = failures => o.failed = 0
    BY <1>2, <1>3, <2>2, AskingStep
  <2>4. /\ word \in {CONT_STORAGE, TRIG_MATCH, Invalid}
        /\ o.failed = 0 => word = micro.setting["acquisition"][1]
    BY <1>4, <1>6, AcquisitionWord
  <2>5. fAcquisitionMode' \in {CONT_STORAGE, TRIG_MATCH}
    BY <1>4, <2>1, <2>4 DEF ModesInv
  <2>6. TDCInv'
    BY <1>2, <1>4, <2>3, <2>5 DEF TDCInv, ModesInv
  <2>7. Exact => fAcquisitionMode' = micro'.setting["acquisition"][1]
    BY <1>6, <2>1, <2>2, <2>3, <2>4 DEF Exact
  <2>. QED
    BY <2>3, <2>6, <2>7 DEF TDCStep
<1>. QED
  BY <1>5, <1>6

LEMMA GetDetectionModeStep ==
  ASSUME BusInv, TDCInv, GetDetectionMode
  PROVE  /\ TDCStep(1) /\ fAcquisitionMode' = fAcquisitionMode
         /\ Exact => SettingsKept /\ fDetectionMode' = micro'.setting["detection"][1] % 4
<1>1. PICK o \in Asking(micro, READ_DETECTION, 1) :
        /\ Ends(o, "running")
        /\ IF o.hung THEN UNCHANGED fDetectionMode
           ELSE fDetectionMode' \in {word % 4 : word \in Read(o, 0 .. 3)}
  BY DEF GetDetectionMode, Proceeds
<1>2. UNCHANGED <<asked, control, fAcquisitionMode>>
  BY DEF GetDetectionMode
<1>3. READ_DETECTION \in Questions /\ 1 \in {1, 5} /\ "running" \in ProcessStates
  BY Answers DEF ProcessStates
<1>4. MicroInv(micro) /\ ModesInv /\ control \in Registers
  BY DEF TDCInv
<1>5. /\ BusStep /\ MicroInv(micro') /\ SettingsInv(asked') /\ SpentBy(1)
      /\ o.hung => process' = "hung"
      /\ ~o.hung /\ o.failed = 0 =>
           /\ micro'.setting = micro.setting
           /\ o.data = AnswerTo(micro.setting, READ_DETECTION)
      /\ failures' = failures => o.failed = 0
  BY <1>1, <1>2, <1>3, AskingStep
<1>6. o.failed \in {0, 1}
  BY FailedAsking
<1>7. micro.setting["detection"][1] \in Nat
  BY <1>4, BoardModesOf DEF MicroInv
<1>8. ~o.hung /\ o.failed = 0 => fDetectionMode' = micro.setting["detection"][1] % 4
  <2> SUFFICES ASSUME ~o.hung, o.failed = 0 PROVE fDetectionMode' = micro.setting["detection"][1] % 4
    OBVIOUS
  <2>1. o.data = micro.setting["detection"]
    BY <1>5, Answers
  <2>2. Read(o, 0 .. 3) = {o.data[1]}
    BY ReadsOf
  <2>. QED
    BY <1>1, <2>1, <2>2
<1>9. ~o.hung /\ o.failed = 1 => fDetectionMode' \in 0 .. 3
  <2> SUFFICES ASSUME ~o.hung, o.failed = 1 PROVE fDetectionMode' \in 0 .. 3
    OBVIOUS
  <2>1. Read(o, 0 .. 3) = 0 .. 3
    BY ReadsOf
  <2>2. PICK word \in 0 .. 3 : fDetectionMode' = word % 4
    BY <1>1, <2>1
  <2>. QED
    BY <2>2
<1>10. fDetectionMode' \in 0 .. 3
  <2>1. micro.setting["detection"][1] % 4 \in 0 .. 3
    BY <1>7
  <2>. QED
    BY <1>1, <1>4, <1>6, <1>8, <1>9, <2>1 DEF ModesInv
<1>11. TDCInv'
  BY <1>2, <1>4, <1>5, <1>10 DEF TDCInv, ModesInv
<1>. QED
  BY <1>2, <1>5, <1>8, <1>11 DEF TDCStep, Exact, SettingsKept

LEMMA GetTriggerConfigurationStep ==
  ASSUME BusInv, TDCInv, GetTriggerConfiguration
  PROVE  TDCStep(1)
<1>1. PICK o \in Asking(micro, READ_TRG_CONF, 5) : Ends(o, "running")
  BY DEF GetTriggerConfiguration, Proceeds
<1>2. UNCHANGED <<asked, control, fAcquisitionMode, fDetectionMode>>
  BY DEF GetTriggerConfiguration, Modes
<1>3. READ_TRG_CONF \in Questions /\ 5 \in {1, 5} /\ "running" \in ProcessStates
  BY Answers DEF ProcessStates
<1>4. BusStep /\ MicroInv(micro') /\ SettingsInv(asked') /\ SpentBy(1)
  BY <1>1, <1>2, <1>3, AskingStep
<1>. QED
  BY <1>2, <1>4 DEF TDCStep, TDCInv, ModesInv
-----------------------------------------------------------------------------
LEMMA SetDetectionModeStep ==
  ASSUME BusInv, TDCInv, NEW mode \in 0 .. 3, SetDetectionMode(mode)
  PROVE  TDCStep(1)
<1>1. Sent(SET_DETECTION)
  BY PlainWords, CallsSend
<1>2. Setters[SET_DETECTION].operands = 1
  BY Commands DEF Sets, SET_DETECTION
<1>3. BusStep /\ MicroInv(micro') /\ SettingsInv(asked') /\ SpentBy(1)
  BY <1>1, <1>2, SentStep
<1>4. fDetectionMode' = mode /\ UNCHANGED <<control, fAcquisitionMode>>
  BY DEF SetDetectionMode
<1>. QED
  BY <1>3, <1>4 DEF TDCStep, TDCInv, ModesInv

LEMMA SetAcquisitionModeStep ==
  ASSUME BusInv, TDCInv, NEW mode \in {CONT_STORAGE, TRIG_MATCH}, SetAcquisitionMode(mode)
  PROVE  TDCStep(0)
<1> DEFINE c == IF mode = TRIG_MATCH THEN TRG_MATCH ELSE CONT_STOR
           words == <<Op(c)>>
           sent(o) == o.failed = 0 /\ ~o.hung
           lost(o) == Outcome(o.micro, 1, FALSE, <<>>)
           reads(d) == IF d.hung THEN Proceeds(d) /\ UNCHANGED fAcquisitionMode
                       ELSE \E word \in Read(d, {CONT_STORAGE, TRIG_MATCH, Invalid}) :
                              /\ Ends(d, IF word = mode THEN "running" ELSE "ended")
                              /\ fAcquisitionMode' = IF word = Invalid THEN fAcquisitionMode ELSE word
<1>1. PICK o \in Sending(micro, words) :
        \/ ~sent(o) /\ Proceeds(o) /\ UNCHANGED fAcquisitionMode
        \/ sent(o) /\ Proceeds(lost(o)) /\ UNCHANGED fAcquisitionMode
        \/ sent(o) /\ \E d \in Asking(o.micro, READ_ACQ_MOD, 1) : reads(d)
  BY DEF SetAcquisitionMode
<1>2. Asks(words) /\ UNCHANGED <<control, fDetectionMode>>
  BY DEF SetAcquisitionMode
<1>3. Command(c, words) /\ Setters[c].operands = 0
  <2>1. c \in {0, 1}
    BY DEF TRG_MATCH, CONT_STOR
  <2>. QED
    BY <2>1, CommandsOf
<1> HIDE DEF c, words, reads
<1>4. MicroInv(micro) /\ SettingsInv(asked) /\ ModesInv /\ control \in Registers
  BY DEF TDCInv
<1>5. asked' = TakeAll(Micro(asked, <<>>, <<>>), words).setting
  BY <1>2 DEF Asks
<1>6. SettingsInv(asked') /\ MicroInv(o.micro)
  BY <1>3, <1>4, <1>5, AskedFor, SendingDamage
<1>7. ~o.hung => Spent(0, o.failed, micro, asked, o.micro, asked')
  BY <1>3, <1>4, <1>5, SpentSending
<1>8. o.failed \in {0, 1} /\ o.hung \in BOOLEAN
  BY SendingOutcome
<1>9. {"running", "ended"} \subseteq ProcessStates
  BY DEF ProcessStates
<1>10. CASE ~sent(o) /\ Proceeds(o) /\ UNCHANGED fAcquisitionMode
  <2>1. Ends(o, "running") /\ UNCHANGED fAcquisitionMode
    BY <1>10 DEF Proceeds
  <2>2. /\ BusStep /\ micro' = o.micro /\ failures' = failures + o.failed
        /\ process' = "running" => ~o.hung
    BY <1>8, <1>9, <2>1, EndsStep
  <2>3. SpentBy(0)
    BY <1>7, <1>8, <2>2 DEF SpentBy
  <2>. QED
    BY <1>2, <1>4, <1>6, <2>1, <2>2, <2>3 DEF TDCStep, TDCInv, ModesInv
<1>11. CASE sent(o) /\ Proceeds(lost(o)) /\ UNCHANGED fAcquisitionMode
  <2>1. lost(o).micro = o.micro /\ lost(o).failed = 1 /\ lost(o).hung = FALSE
    BY DEF Outcome
  <2>2. /\ BusStep /\ micro' = lost(o).micro /\ failures' = failures + lost(o).failed
        /\ process' = "running" => ~lost(o).hung
    <3> HIDE DEF lost
    <3>1. Ends(lost(o), "running")
      BY <1>11 DEF Proceeds
    <3>2. lost(o).failed \in {0, 1} /\ lost(o).hung \in BOOLEAN
      BY <2>1
    <3>. QED
      BY <1>9, <3>1, <3>2, EndsStep
  <2>3. Spent(0, 1, micro, asked, o.micro, asked')
    <3>1. Spent(0, 0, micro, asked, o.micro, asked')
      BY <1>7, <1>8, <1>11
    <3>. QED
      BY <1>4, <1>6, <3>1, SpentAndLost
  <2>4. SpentBy(0) /\ micro' = o.micro
    BY <2>1, <2>2, <2>3 DEF SpentBy
  <2>. QED
    BY <1>2, <1>4, <1>6, <1>11, <2>2, <2>4 DEF TDCStep, TDCInv, ModesInv
<1>12. CASE sent(o) /\ \E d \in Asking(o.micro, READ_ACQ_MOD, 1) : reads(d)
  <2>1. PICK d \in Asking(o.micro, READ_ACQ_MOD, 1) : reads(d)
    BY <1>12
  <2>2. d.failed \in {0, 1} /\ d.hung \in BOOLEAN
    BY FailedAsking
  <2>3. Asked(d, o.micro, READ_ACQ_MOD)
    BY <1>6, Answers, AskingOutcome
  <2>4. ~d.hung => Spent(0, d.failed, micro, asked, d.micro, asked')
    <3>1. Spent(0, 0, micro, asked, o.micro, asked')
      BY <1>7, <1>8, <1>12
    <3>. QED
      BY <1>4, <1>6, <2>2, <2>3, <3>1, SpentAsking
  <2>5. /\ fAcquisitionMode' \in {CONT_STORAGE, TRIG_MATCH}
        /\ \E state \in {"running", "ended"} : Ends(d, state)
    <3>1. CASE d.hung
      BY <1>4, <2>1, <3>1 DEF reads, Proceeds, ModesInv
    <3>2. CASE ~d.hung
      <4>1. PICK word \in Read(d, {CONT_STORAGE, TRIG_MATCH, Invalid}) :
                  /\ Ends(d, IF word = mode THEN "running" ELSE "ended")
                  /\ fAcquisitionMode' = IF word = Invalid THEN fAcquisitionMode ELSE word
        BY <2>1, <3>2 DEF reads
      <4>2. word \in {CONT_STORAGE, TRIG_MATCH, Invalid}
        BY <1>6, <3>2, AcquisitionWord
      <4>. QED
        BY <1>4, <4>1, <4>2 DEF ModesInv
    <3>. QED
      BY <3>1, <3>2
  <2>6. PICK state \in {"running", "ended"} : Ends(d, state)
    BY <2>5
  <2>7. /\ BusStep /\ micro' = d.micro /\ failures' = failures + d.failed
        /\ process' = "running" => ~d.hung
    BY <1>9, <2>2, <2>6, EndsStep
  <2>8. SpentBy(0)
    BY <2>2, <2>4, <2>7 DEF SpentBy
  <2>9. MicroInv(micro')
    BY <2>3, <2>7 DEF Asked
  <2>. QED
    BY <1>2, <1>4, <1>6, <2>5, <2>7, <2>8, <2>9 DEF TDCStep, TDCInv, ModesInv
<1>. QED
  BY <1>1, <1>10, <1>11, <1>12
-----------------------------------------------------------------------------
LEMMA PlainCall ==
  ASSUME BusInv, TDCInv, NEW c, Sent(c), UNCHANGED <<control, Modes>>
  PROVE  TDCStep(Setters[c].operands)
<1>1. BusStep /\ MicroInv(micro') /\ SettingsInv(asked') /\ SpentBy(Setters[c].operands)
  BY SentStep
<1>. QED
  BY <1>1 DEF TDCStep, TDCInv, ModesInv, Modes

(* The calls that only send a command, by the number of its operands.      *)
LEMMA PlainCalls ==
  ASSUME BusInv, TDCInv
  PROVE  /\ EnableAllChannels \/ SetTriggerTimeSubtraction \/ SetTDCEncapsulation \/ SetErrorMarks => TDCStep(0)
         /\ \A x : Plain(x) /\ (\/ SetLSBTraileadEdge(x) \/ SetDLLClock(x) \/ SetWindowWidth(x)
                                \/ SetWindowOffset(x)) => TDCStep(1)
         /\ \A x, y : Plain(x) /\ Plain(y) /\ (SetGlobalOffset(x, y) \/ SetPoI(x, y)) => TDCStep(2)
<1>1. /\ \A c \in {EN_ALL_CHANNEL, EN_SUB_TRG, EN_HEAD_TRAILER, EN_ERROR_MARK} : Setters[c].operands = 0
      /\ \A c \in {SET_TR_LEAD_LSB, SET_DLL_CLOCK, SET_WIN_WIDTH, SET_WIN_OFFS} : Setters[c].operands = 1
      /\ \A c \in {SET_GLOB_OFFS, WRITE_EN_PATTERN} : Setters[c].operands = 2
  BY CommandsOf DEF EN_ALL_CHANNEL, EN_SUB_TRG, EN_HEAD_TRAILER, EN_ERROR_MARK, SET_TR_LEAD_LSB,
         SET_DLL_CLOCK, SET_WIN_WIDTH, SET_WIN_OFFS, SET_GLOB_OFFS, WRITE_EN_PATTERN
<1>2. ASSUME EnableAllChannels \/ SetTriggerTimeSubtraction \/ SetTDCEncapsulation \/ SetErrorMarks
      PROVE  TDCStep(0)
  <2>1. UNCHANGED <<control, Modes>>
    BY <1>2 DEF EnableAllChannels, SetTriggerTimeSubtraction, SetTDCEncapsulation, SetErrorMarks
  <2>2. PICK c \in {EN_ALL_CHANNEL, EN_SUB_TRG, EN_HEAD_TRAILER, EN_ERROR_MARK} : Sent(c)
    BY <1>2, CallsSend
  <2>3. TDCStep(Setters[c].operands)
    BY <2>1, <2>2, PlainCall
  <2>. QED
    BY <1>1, <2>3
<1>3. ASSUME NEW x, Plain(x),
             SetLSBTraileadEdge(x) \/ SetDLLClock(x) \/ SetWindowWidth(x) \/ SetWindowOffset(x)
      PROVE  TDCStep(1)
  <2>1. UNCHANGED <<control, Modes>>
    BY <1>3 DEF SetLSBTraileadEdge, SetDLLClock, SetWindowWidth, SetWindowOffset
  <2>2. PICK c \in {SET_TR_LEAD_LSB, SET_DLL_CLOCK, SET_WIN_WIDTH, SET_WIN_OFFS} : Sent(c)
    BY <1>3, CallsSend
  <2>3. TDCStep(Setters[c].operands)
    BY <2>1, <2>2, PlainCall
  <2>. QED
    BY <1>1, <2>3
<1>4. ASSUME NEW x, NEW y, Plain(x), Plain(y), SetGlobalOffset(x, y) \/ SetPoI(x, y)
      PROVE  TDCStep(2)
  <2>1. UNCHANGED <<control, Modes>>
    BY <1>4 DEF SetGlobalOffset, SetPoI
  <2>2. PICK c \in {SET_GLOB_OFFS, WRITE_EN_PATTERN} : Sent(c)
    BY <1>4, CallsSend
  <2>3. TDCStep(Setters[c].operands)
    BY <2>1, <2>2, PlainCall
  <2>. QED
    BY <1>1, <2>3
<1>. QED
  BY <1>2, <1>3, <1>4
-----------------------------------------------------------------------------
(* What each call asks for.                                                *)
SetsTo(k, v) == \A s \in Settings : asked'[s] = IF s = k THEN v ELSE asked[s]

LEMMA ValuesOf ==
  /\ Value(0, <<Op(0)>>) = <<TRIG_MATCH>> /\ Value(1, <<Op(1)>>) = <<CONT_STORAGE>>
  /\ \A c \in {20, 48, 53} : Value(c, <<Op(c)>>) = <<1>>
  /\ \A c \in {16, 17, 34, 36, 200} : \A x : Value(c, <<Op(c), x>>) = <<x>>
  /\ \A c \in {68, 80} : \A x, y : Value(c, <<Op(c), x, y>>) = <<x, y>>
<1>1. \A x : <<x>> \o <<>> = <<x>>
  <2>1. \A x : <<x>> \in Seq({x})
    OBVIOUS
  <2>. QED
    BY <2>1, ConcatEmptySeq
<1>2. /\ Setters[0].words = <<TRIG_MATCH>> /\ Setters[1].words = <<CONT_STORAGE>>
      /\ \A c \in {20, 48, 53} : Setters[c].words = <<1>>
      /\ \A c \in {16, 17, 34, 36, 200, 68, 80} : Setters[c].words = <<>>
  BY Commands DEF Sets
<1>3. ASSUME NEW c \in DOMAIN Setters, NEW x, Setters[c].words = <<x>> PROVE Value(c, <<Op(c)>>) = <<x>>
  <2>1. Tail(<<Op(c)>>) = <<>> /\ <<x>> \o <<>> = <<x>>
    BY <1>1, TailTuples
  <2>2. Value(c, <<Op(c)>>) = Setters[c].words \o Tail(<<Op(c)>>)
    BY DEF Value
  <2>. QED
    BY <1>3, <2>1, <2>2, Zenon
<1>4. \A c \in {0, 1, 20, 48, 53} : c \in DOMAIN Setters
  BY Commands
<1>5. ASSUME NEW c \in {16, 17, 34, 36, 200}, NEW x PROVE Value(c, <<Op(c), x>>) = <<x>>
  <2>1. Setters[c].words = <<>> /\ Tail(<<Op(c), x>>) = <<x>> /\ <<>> \o <<x>> = <<x>>
    BY <1>2, TailTuples, AfterEmpty
  <2>2. Value(c, <<Op(c), x>>) = Setters[c].words \o Tail(<<Op(c), x>>)
    BY DEF Value
  <2>. QED
    BY <2>1, <2>2, Zenon
<1>6. ASSUME NEW c \in {68, 80}, NEW x, NEW y PROVE Value(c, <<Op(c), x, y>>) = <<x, y>>
  <2>1. Setters[c].words = <<>> /\ Tail(<<Op(c), x, y>>) = <<x, y>> /\ <<>> \o <<x, y>> = <<x, y>>
    BY <1>2, TailTuples, AfterEmpty
  <2>2. Value(c, <<Op(c), x, y>>) = Setters[c].words \o Tail(<<Op(c), x, y>>)
    BY DEF Value
  <2>. QED
    BY <2>1, <2>2, Zenon
<1>. QED
  BY <1>2, <1>3, <1>4, <1>5, <1>6

LEMMA AskedAfter ==
  ASSUME SettingsInv(asked), NEW c, NEW words, Command(c, words), Asks(words)
  PROVE  SetsTo(Setters[c].setting, Value(c, words))
BY AskedFor DEF Asks, SetsTo

LEMMA CallsAsk ==
  ASSUME SettingsInv(asked)
  PROVE  /\ EnableAllChannels => \E v : SetsTo("channels", v)
         /\ \A mode \in {CONT_STORAGE, TRIG_MATCH} : SetAcquisitionMode(mode) => SetsTo("acquisition", <<mode>>)
         /\ SetTriggerTimeSubtraction => SetsTo("subtraction", <<1>>)
         /\ SetTDCEncapsulation => SetsTo("headers", <<1>>)
         /\ SetErrorMarks => SetsTo("marks", <<1>>)
         /\ \A x : Plain(x) => /\ SetLSBTraileadEdge(x) => SetsTo("resolution", <<x>>)
                               /\ SetDLLClock(x) => SetsTo("clock", <<x>>)
                               /\ SetWindowWidth(x) => SetsTo("width", <<x>>)
                               /\ SetWindowOffset(x) => SetsTo("window", <<x>>)
                               /\ SetDetectionMode(x) => SetsTo("detection", <<x>>)
         /\ \A x, y : Plain(x) /\ Plain(y) => /\ SetGlobalOffset(x, y) => SetsTo("offset", <<x, y>>)
                                              /\ SetPoI(x, y) => SetsTo("channels", <<x, y>>)
<1>1. /\ EN_ALL_CHANNEL = 66 /\ EN_SUB_TRG = 20 /\ EN_HEAD_TRAILER = 48 /\ EN_ERROR_MARK = 53
      /\ SET_TR_LEAD_LSB = 36 /\ SET_DLL_CLOCK = 200 /\ SET_WIN_WIDTH = 16 /\ SET_WIN_OFFS = 17
      /\ SET_DETECTION = 34 /\ SET_GLOB_OFFS = 80 /\ WRITE_EN_PATTERN = 68
      /\ TRG_MATCH = 0 /\ CONT_STOR = 1
  BY DEF EN_ALL_CHANNEL, EN_SUB_TRG, EN_HEAD_TRAILER, EN_ERROR_MARK, SET_TR_LEAD_LSB, SET_DLL_CLOCK,
         SET_WIN_WIDTH, SET_WIN_OFFS, SET_DETECTION, SET_GLOB_OFFS, WRITE_EN_PATTERN, TRG_MATCH, CONT_STOR
<1>2. /\ Setters[0].setting = "acquisition" /\ Setters[1].setting = "acquisition"
      /\ Setters[34].setting = "detection" /\ Setters[36].setting = "resolution"
      /\ Setters[20].setting = "subtraction" /\ Setters[16].setting = "width"
      /\ Setters[17].setting = "window" /\ Setters[80].setting = "offset"
      /\ Setters[48].setting = "headers" /\ Setters[53].setting = "marks"
      /\ Setters[66].setting = "channels" /\ Setters[68].setting = "channels"
      /\ Setters[200].setting = "clock"
  BY Commands DEF Sets
<1>3. ASSUME NEW c \in {0, 1, 20, 48, 53, 66}, Asks(<<Op(c)>>)
      PROVE  SetsTo(Setters[c].setting, Value(c, <<Op(c)>>))
  BY <1>3, CommandsOf, AskedAfter
<1>4. ASSUME NEW c \in {16, 17, 34, 36, 200}, NEW x, Plain(x), Asks(<<Op(c), x>>)
      PROVE  SetsTo(Setters[c].setting, <<x>>)
  <2>1. SetsTo(Setters[c].setting, Value(c, <<Op(c), x>>))
    BY <1>4, CommandsOf, AskedAfter
  <2>. QED
    BY <2>1, ValuesOf
<1>5. ASSUME NEW c \in {68, 80}, NEW x, NEW y, Plain(x), Plain(y), Asks(<<Op(c), x, y>>)
      PROVE  SetsTo(Setters[c].setting, <<x, y>>)
  <2>1. SetsTo(Setters[c].setting, Value(c, <<Op(c), x, y>>))
    BY <1>5, CommandsOf, AskedAfter
  <2>. QED
    BY <2>1, ValuesOf
<1>6. EnableAllChannels => \E v : SetsTo("channels", v)
  <2>1. EnableAllChannels => Asks(<<Op(66)>>)
    BY <1>1 DEF EnableAllChannels, Sends
  <2>. QED
    BY <1>2, <1>3, <2>1
<1>7. ASSUME NEW c \in {20, 48, 53}, Asks(<<Op(c)>>) PROVE SetsTo(Setters[c].setting, <<1>>)
  BY <1>3, <1>7, ValuesOf
<1>8. SetTriggerTimeSubtraction => SetsTo("subtraction", <<1>>)
  <2>1. SetTriggerTimeSubtraction => Asks(<<Op(20)>>)
    BY <1>1 DEF SetTriggerTimeSubtraction, Sends
  <2>. QED
    BY <1>2, <1>7, <2>1
<1>9. SetTDCEncapsulation => SetsTo("headers", <<1>>)
  <2>1. SetTDCEncapsulation => Asks(<<Op(48)>>)
    BY <1>1 DEF SetTDCEncapsulation, Sends
  <2>. QED
    BY <1>2, <1>7, <2>1
<1>10. SetErrorMarks => SetsTo("marks", <<1>>)
  <2>1. SetErrorMarks => Asks(<<Op(53)>>)
    BY <1>1 DEF SetErrorMarks, Sends
  <2>. QED
    BY <1>2, <1>7, <2>1
<1>11. ASSUME NEW mode \in {CONT_STORAGE, TRIG_MATCH}, SetAcquisitionMode(mode)
       PROVE  SetsTo("acquisition", <<mode>>)
  <2>1. Asks(<<Op(IF mode = TRIG_MATCH THEN 0 ELSE 1)>>)
    BY <1>1, <1>11 DEF SetAcquisitionMode
  <2>2. CASE mode = TRIG_MATCH
    <3>1. Asks(<<Op(0)>>)
      BY <2>1, <2>2
    <3>. QED
      BY <1>2, <1>3, <2>2, <3>1, ValuesOf
  <2>3. CASE mode # TRIG_MATCH
    <3>1. Asks(<<Op(1)>>) /\ mode = CONT_STORAGE
      BY <1>11, <2>1, <2>3
    <3>. QED
      BY <1>2, <1>3, <3>1, ValuesOf
  <2>. QED
    BY <2>2, <2>3
<1>12. ASSUME NEW x, Plain(x)
       PROVE  /\ SetLSBTraileadEdge(x) => SetsTo("resolution", <<x>>)
              /\ SetDLLClock(x) => SetsTo("clock", <<x>>)
              /\ SetWindowWidth(x) => SetsTo("width", <<x>>)
              /\ SetWindowOffset(x) => SetsTo("window", <<x>>)
              /\ SetDetectionMode(x) => SetsTo("detection", <<x>>)
  <2>1. /\ SetLSBTraileadEdge(x) => Asks(<<Op(36), x>>)
        /\ SetDLLClock(x) => Asks(<<Op(200), x>>)
        /\ SetWindowWidth(x) => Asks(<<Op(16), x>>)
        /\ SetWindowOffset(x) => Asks(<<Op(17), x>>)
        /\ SetDetectionMode(x) => Asks(<<Op(34), x>>)
    BY <1>1 DEF SetLSBTraileadEdge, SetDLLClock, SetWindowWidth, SetWindowOffset, SetDetectionMode, Sends
  <2>2. \A c \in {16, 17, 34, 36, 200} : Asks(<<Op(c), x>>) => SetsTo(Setters[c].setting, <<x>>)
    BY <1>4, <1>12
  <2>. QED
    BY <1>2, <2>1, <2>2
<1>13. ASSUME NEW x, NEW y, Plain(x), Plain(y)
       PROVE  /\ SetGlobalOffset(x, y) => SetsTo("offset", <<x, y>>)
              /\ SetPoI(x, y) => SetsTo("channels", <<x, y>>)
  <2>1. /\ SetGlobalOffset(x, y) => Asks(<<Op(80), x, y>>)
        /\ SetPoI(x, y) => Asks(<<Op(68), x, y>>)
    BY <1>1 DEF SetGlobalOffset, SetPoI, Sends
  <2>2. \A c \in {68, 80} : Asks(<<Op(c), x, y>>) => SetsTo(Setters[c].setting, <<x, y>>)
    BY <1>5, <1>13
  <2>. QED
    BY <1>2, <2>1, <2>2
<1>. QED
  BY <1>6, <1>8, <1>9, <1>10, <1>11, <1>12, <1>13

LEMMA QuestionsAskNothing ==
  GetAcquisitionMode \/ GetDetectionMode \/ GetTriggerConfiguration \/ SetETTT \/ CheckConfiguration =>
    UNCHANGED asked
BY DEF GetAcquisitionMode, GetDetectionMode, GetTriggerConfiguration, SetETTT, CheckConfiguration, tdcVars
-----------------------------------------------------------------------------
(* What an earlier acquisition may have left, and what a reset leaves.      *)
LEMMA DefaultsOK == SettingsInv(Defaults)
<1>1. Defaults = [s \in Settings |-> Defaults[s]]
  BY DEF Defaults
<1>2. Defaults["acquisition"] = <<CONT_STORAGE>> /\ Defaults["detection"] = <<OLEADING>>
  BY Strings DEF Defaults
<1>3. OLEADING \in Nat
  BY DEF OLEADING
<1>. QED
  BY <1>1, <1>2, <1>3 DEF SettingsInv

LEMMA LeftOK ==
  ASSUME NEW m, Left(m)
  PROVE  MicroInv(m)
<1>1. m = Micro(m.setting, m.waiting, m.answer) /\ m.waiting \in Seq(Nat)
  BY DEF Left
<1>2. SettingsInv(m.setting)
  <2>1. m.setting["acquisition"] \in {<<TRIG_MATCH>>, <<CONT_STORAGE>>}
    BY DEF Left
  <2>2. \E x \in 0 .. 3 : m.setting["detection"] = <<x>>
    BY DEF Left
  <2>. QED
    BY <2>1, <2>2 DEF Left, SettingsInv
<1>3. CASE m.waiting = <<>>
  BY <1>1, <1>2, <1>3 DEF MicroInv
<1>4. CASE m.waiting # <<>>
  <2> DEFINE op == m.waiting[1]
             c == op \div 256
             n == Len(m.waiting)
  <2>1. /\ op \in Nat /\ n \in Nat /\ n >= 1 /\ c \in DOMAIN Setters /\ n <= Setters[c].operands
        /\ m.answer = <<>>
    BY <1>1, <1>4, EmptySeq, LenProperties DEF Left
  <2>2. Setters[c].operands \in {0, 1, 2}
    BY <2>1, CommandShapes
  <2>3. n = 1 \/ (n = 2 /\ Setters[c].operands = 2)
    <3> HIDE DEF n, c
    <3>. QED
      BY <2>1, <2>2
  <2>4. CASE n = 1
    <3>1. m.waiting = <<op>>
      BY <1>1, <2>4
    <3>2. op \in Opcodes(1)
      <4>1. Setters[c].operands \geq 1
        BY <2>1, <2>2, <2>4
      <4>. QED
        BY <2>1, <4>1 DEF Opcodes
    <3>. QED
      BY <1>1, <1>2, <2>1, <3>1, <3>2 DEF MicroInv
  <2>5. CASE n = 2 /\ Setters[c].operands = 2
    <3>1. m.waiting = <<op, m.waiting[2]>> /\ m.waiting[2] \in Nat
      BY <1>1, <2>5
    <3>2. op \in Opcodes(2)
      <4>1. 2 \geq 2
        OBVIOUS
      <4>. QED
        BY <2>1, <2>5, <4>1 DEF Opcodes
    <3>. QED
      BY <1>1, <1>2, <2>1, <3>1, <3>2 DEF MicroInv
  <2>. QED
    BY <2>3, <2>4, <2>5
<1>. QED
  BY <1>3, <1>4

LEMMA FreshOK ==
  MicroInv(Fresh) /\ Cardinality(Bad(Fresh, Defaults)) = 0 /\ Missing(Fresh) = 0
<1>1. Fresh.setting = Defaults /\ Fresh.waiting = <<>> /\ Fresh.answer = <<>>
  BY MicroFields DEF Fresh
<1>2. MicroInv(Fresh)
  BY <1>1, DefaultsOK DEF MicroInv, Fresh
<1>3. Bad(Fresh, Defaults) = {}
  BY <1>1 DEF Bad
<1>. QED
  BY <1>1, <1>2, <1>3, FS_EmptySet DEF Missing

(* As much as an unfinished command may be wrong in a board that is        *)
(* compared with itself.                                                   *)
LEMMA BadItself ==
  ASSUME NEW m
  PROVE  Cardinality(Bad(m, m.setting)) \in {0, 1}
<1>1. Bad(m, m.setting) = IF m.waiting = <<>> THEN {} ELSE {Pending(m).setting}
  BY DEF Bad
<1>2. Cardinality({}) = 0 /\ Cardinality({Pending(m).setting}) = 1
  BY FS_EmptySet, FS_Singleton
<1>. QED
  BY <1>1, <1>2

LEMMA WithinStep ==
  ASSUME NEW m, MicroInv(m), NEW m1, MicroInv(m1), NEW a, NEW a1, NEW n \in {0, 1, 2}, NEW p, NEW p1,
         Pace(n, p, p1), NEW f \in Nat, NEW failed \in {0, 1},
         Spent(n, failed, m, a, m1, a1), Within(m, a, p, f)
  PROVE  Within(m1, a1, p1, f + failed)
<1>1. Missing(m) \in {0, 1, 2} /\ Missing(m1) \in {0, 1, 2}
  BY MissingOf
<1>2. Cardinality(Bad(m, a)) \in Nat /\ Cardinality(Bad(m1, a1)) \in Nat
  BY SettingsFinite
<1> DEFINE x == Cardinality(Bad(m, a))
           x1 == Cardinality(Bad(m1, a1))
           q == Missing(m)
           q1 == Missing(m1)
<1>3. /\ x + Due(q, p) <= 3 * f
      /\ x1 <= x + (IF failed = 0 /\ q = 0 THEN 0 ELSE IF q = 0 \/ n = 0 THEN 1 ELSE 2)
      /\ failed = 0 => q1 <= IF q = 2 /\ n = 0 THEN 1 ELSE 0
      /\ failed = 1 => q1 <= IF q = 0 THEN n ELSE q
  BY DEF Within, Spent
<1>4. x \in Nat /\ x1 \in Nat /\ q \in {0, 1, 2} /\ q1 \in {0, 1, 2}
  BY <1>1, <1>2
<1> HIDE DEF x, x1, q, q1
<1>5. x1 + Due(q1, p1) <= 3 * (f + failed)
  BY <1>3, <1>4, DueStep
<1>. QED
  BY <1>5 DEF Within, x1, q1

(* Between calls that are not a single word nothing more is due.           *)
LEMMA WithinKept ==
  ASSUME NEW m, MicroInv(m), NEW a, NEW p, NEW p1, NEW f \in Nat, NEW f1 \in Nat, f <= f1,
         p1 = p \/ (~OneWord(p) /\ ~OneWord(p1)), Within(m, a, p, f)
  PROVE  Within(m, a, p1, f1)
<1>1. Missing(m) \in {0, 1, 2} /\ Cardinality(Bad(m, a)) \in Nat
  BY MissingOf, SettingsFinite
<1>2. Due(Missing(m), p1) = Due(Missing(m), p) /\ Due(Missing(m), p) \in 0 .. 3
  BY <1>1 DEF Due
<1>. QED
  BY <1>1, <1>2 DEF Within

(* One failure pays for what was left in a board that is not reset.        *)
LEMMA WithinFirst ==
  ASSUME NEW m, MicroInv(m), NEW p, NEW f \in Nat, f > 0, ~OneWord(p) \/ TwoInARow(p)
  PROVE  Within(m, m.setting, p, f)
<1>1. Cardinality(Bad(m, m.setting)) \in {0, 1} /\ Missing(m) \in {0, 1, 2}
  BY BadItself, MissingOf
<1>2. Due(Missing(m), p) \in {0, 1, 2}
  BY <1>1 DEF Due
<1>. QED
  BY <1>1, <1>2 DEF Within

LEMMA WithinFresh ==
  ASSUME NEW p, NEW f \in Nat
  PROVE  Within(Fresh, Defaults, p, f)
BY FreshOK DEF Within, Due
-----------------------------------------------------------------------------
LEMMA WorksOrFails ==
  ASSUME BusInv, Runs
  PROVE  /\ Works => BusStep /\ failures' = failures
         /\ Fails => BusStep /\ failures' = failures + 1
<1>1. "running" \in ProcessStates /\ 0 \in Nat /\ 1 \in Nat /\ Goes("running") /\ failures + 0 = failures
  BY FailuresAssumption DEF ProcessStates, Runs, BusInv
<1>2. ASSUME Accesses(0) PROVE BusStep /\ failures' = failures
  BY <1>1, <1>2, BusSteps
<1>3. ASSUME Accesses(1) PROVE BusStep /\ failures' = failures + 1
  BY <1>1, <1>3, BusSteps
<1>. QED
  BY <1>2, <1>3 DEF Works, Fails

LEMMA SoftwareResetStep ==
  ASSUME BusInv, TDCInv, SoftwareReset
  PROVE  /\ BusStep /\ TDCInv'
         /\ \/ micro' = Fresh /\ asked' = Defaults
            \/ UNCHANGED <<micro, asked>> /\ failures' > 0
<1>1. CASE Works /\ micro' = Fresh /\ asked' = Defaults /\ control' = [ettt |-> FALSE, rest |-> "default"]
  <2>1. BusStep
    BY <1>1, WorksOrFails DEF SoftwareReset
  <2>2. [ettt |-> FALSE, rest |-> "default"] \in Registers
    BY DEF Registers
  <2>3. MicroInv(micro') /\ SettingsInv(asked')
    BY <1>1, FreshOK, DefaultsOK
  <2>4. UNCHANGED <<fAcquisitionMode, fDetectionMode>>
    BY DEF SoftwareReset, Modes
  <2>. QED
    BY <1>1, <2>1, <2>2, <2>3, <2>4 DEF TDCInv, ModesInv
<1>2. CASE Fails /\ UNCHANGED <<micro, asked, control>>
  <2>1. failures' = failures + 1 /\ BusStep /\ failures \in Nat
    BY <1>2, WorksOrFails, FailuresAssumption DEF SoftwareReset, BusInv
  <2>2. UNCHANGED <<fAcquisitionMode, fDetectionMode>>
    BY DEF SoftwareReset, Modes
  <2>. QED
    BY <1>2, <2>1, <2>2 DEF TDCInv, ModesInv
<1>. QED
  BY <1>1, <1>2 DEF SoftwareReset

LEMMA SetETTTStep ==
  ASSUME BusInv, TDCInv, SetETTT
  PROVE  BusStep /\ TDCInv' /\ UNCHANGED <<micro, asked>>
<1>1. UNCHANGED <<micro, asked, fAcquisitionMode, fDetectionMode>>
  BY DEF SetETTT, Modes
<1>2. BusStep
  BY WorksOrFails DEF SetETTT
<1>3. \/ control' = [control EXCEPT !.ettt = TRUE] \/ control' = control
      \/ control' = [ettt |-> TRUE, rest |-> "any"]
  BY DEF SetETTT
<1>4. control' \in Registers
  <2>1. control \in Registers
    BY DEF TDCInv
  <2>2. [ettt |-> TRUE, rest |-> "any"] \in Registers /\ \A c \in Registers : [c EXCEPT !.ettt = TRUE] \in Registers
    BY DEF Registers
  <2>. QED
    BY <1>3, <2>1, <2>2
<1>. QED
  BY <1>1, <1>2, <1>4 DEF TDCInv, ModesInv

LEMMA CheckConfigurationStep ==
  ASSUME BusInv, TDCInv, CheckConfiguration
  PROVE  BusStep /\ TDCInv' /\ UNCHANGED tdcVars
<1>1. UNCHANGED tdcVars /\ (Works \/ Fails) /\ \E state \in ProcessStates : Goes(state)
  BY DEF CheckConfiguration, ReadROM, ProcessStates, Runs
<1>2. BusStep
  BY <1>1, BusSteps DEF Works, Fails
<1>. QED
  BY <1>1, <1>2 DEF TDCInv, ModesInv, tdcVars
=============================================================================
