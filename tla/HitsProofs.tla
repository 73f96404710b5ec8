----------------------------- MODULE HitsProofs -----------------------------
(***************************************************************************)
(* Proofs that the monitor finds every pulse of the files, and that the    *)
(* script counts as it does.  What the parts of a file are, position by    *)
(* position; what the pairs of SetEventsCollection() are when its edges    *)
(* alternate; how far a search of GetNextMeasurement() got; the invariant  *)
(* of the hits of the monitor; the events of a file, one after the other;  *)
(* and the totals of scripts/DQMReader.py, word by word.                   *)
(***************************************************************************)
EXTENDS ReadoutProofs

-----------------------------------------------------------------------------
(* The words of a file after one position up to another, and the edges of  *)
(* a channel among them.                                                   *)
Mine(c) == {w \in TDCEvents : IsEdge(w) /\ w.ch = c}
Between(f, c, p, n) == EdgesOf(SubSeq(f, p + 1, n), c)

LEMMA Cut ==
  ASSUME NEW W, NEW f \in Seq(W), NEW p \in 0 .. Len(f), NEW n \in p .. Len(f)
  PROVE  /\ SubSeq(f, p + 1, n) \in Seq(W) /\ Len(SubSeq(f, p + 1, n)) = n - p
         /\ \A i \in 1 .. n - p : SubSeq(f, p + 1, n)[i] = f[p + i]
<1>1. Len(f) \in Nat /\ p \in Nat /\ n \in Nat /\ p <= n /\ n <= Len(f)
      /\ \A i \in 1 .. Len(f) : f[i] \in W
  BY LenProperties, ElementOfSeq
<1> DEFINE a == p + 1
<1>2. a \in Int /\ n \in Int /\ (IF a <= n THEN n - a + 1 ELSE 0) = n - p
      /\ n - a + 1 = n - p /\ \A i \in 1 .. n - p : a + i - 1 = p + i
  BY <1>1
<1>3. \A i \in a .. n : f[i] \in W
  BY <1>1
<1> HIDE DEF a
<1>4. /\ SubSeq(f, a, n) \in Seq(W)
      /\ Len(SubSeq(f, a, n)) = IF a <= n THEN n - a + 1 ELSE 0
      /\ \A i \in 1 .. n - a + 1 : SubSeq(f, a, n)[i] = f[a + i - 1]
  BY <1>2, <1>3, SubSeqProperties
<1>5. /\ SubSeq(f, a, n) \in Seq(W) /\ Len(SubSeq(f, a, n)) = n - p
      /\ \A i \in 1 .. n - p : SubSeq(f, a, n)[i] = f[p + i]
  BY <1>2, <1>4
<1>. QED
  BY <1>5 DEF a

LEMMA CutAgain ==
  ASSUME NEW W, NEW f \in Seq(W), NEW p \in 0 .. Len(f), NEW n \in p .. Len(f), NEW e \in n .. Len(f)
  PROVE  SubSeq(f, p + 1, e) = SubSeq(f, p + 1, n) \o SubSeq(f, n + 1, e)
<1>1. Len(f) \in Nat /\ p \in Nat /\ n \in Nat /\ e \in Nat /\ p <= n /\ n <= e /\ e <= Len(f)
  BY LenProperties
<1> DEFINE a == p + 1
<1>2. a \in 1 .. Len(f) + 1 /\ n \in a - 1 .. Len(f) /\ e \in n .. Len(f)
  BY <1>1
<1> HIDE DEF a
<1>3. SubSeq(f, a, n) \o SubSeq(f, n + 1, e) = SubSeq(f, a, e)
  BY <1>2, ConcatAdjacentSubSeq
<1>. QED
  BY <1>3 DEF a

LEMMA EdgesType ==
  ASSUME NEW s \in Seq(FileWords), NEW c
  PROVE  EdgesOf(s, c) \in Seq(Edges) /\ \A v : Contains(EdgesOf(s, c), v) <=> Contains(s, v) /\ v \in Mine(c)
<1>1. EdgesOf(s, c) = Only(s, Mine(c))
  BY DEF EdgesOf, Mine
<1>2. Only(s, Mine(c)) \in Seq(FileWords \cap Mine(c))
      /\ \A v : Contains(Only(s, Mine(c)), v) <=> Contains(s, v) /\ v \in Mine(c)
  BY OnlyInSet
<1>3. FileWords \cap Mine(c) \subseteq Edges
  BY DEF Mine, Edges
<1> DEFINE o == Only(s, Mine(c))
<1>4. o \in Seq(Edges)
  <2> HIDE DEF o
  <2>1. o \in Seq(FileWords \cap Mine(c))
    BY <1>2 DEF o
  <2>2. \A i \in 1 .. Len(o) : o[i] \in Edges
    BY <1>3, <2>1, ElementOfSeq
  <2>. QED
    BY <2>1, <2>2, SeqOfSubset
<1>. QED
  BY <1>1, <1>2, <1>4

LEMMA BetweenType ==
  ASSUME NEW f \in Seq(FileWords), NEW c, NEW p \in 0 .. Len(f), NEW n \in 0 .. Len(f)
  PROVE  Between(f, c, p, n) \in Seq(Edges)
<1> DEFINE a == p + 1
<1>1. a \in Int /\ n \in Int /\ \A i \in a .. n : f[i] \in FileWords
  <2>1. Len(f) \in Nat /\ \A i \in 1 .. Len(f) : f[i] \in FileWords
    BY LenProperties, ElementOfSeq
  <2>. QED
    BY <2>1
<1> HIDE DEF a
<1>2. SubSeq(f, a, n) \in Seq(FileWords)
  BY <1>1, SubSeqProperties
<1>. QED
  BY <1>2, EdgesType DEF a, Between

LEMMA BetweenNone ==
  ASSUME NEW f \in Seq(FileWords), NEW c, NEW p \in 0 .. Len(f)
  PROVE  Between(f, c, p, p) = <<>>
<1>1. p \in Int /\ p + 1 \in Int /\ p < p + 1
  BY LenProperties
<1>2. SubSeq(f, p + 1, p) = <<>>
  BY <1>1, SubSeqEmpty
<1>. QED
  BY <1>2, OnlyEmpty DEF Between, EdgesOf

LEMMA BetweenJoin ==
  ASSUME NEW f \in Seq(FileWords), NEW c, NEW p \in 0 .. Len(f), NEW n \in p .. Len(f), NEW e \in n .. Len(f)
  PROVE  Between(f, c, p, e) = Between(f, c, p, n) \o Between(f, c, n, e)
<1>1. p \in 0 .. Len(f) /\ n \in p .. Len(f) /\ n \in 0 .. Len(f) /\ e \in n .. Len(f)
  BY LenProperties
<1>2. SubSeq(f, p + 1, n) \in Seq(FileWords) /\ SubSeq(f, n + 1, e) \in Seq(FileWords)
  BY <1>1, Cut
<1>3. SubSeq(f, p + 1, e) = SubSeq(f, p + 1, n) \o SubSeq(f, n + 1, e)
  BY CutAgain
<1>. QED
  BY <1>2, <1>3, OnlyConcat, ZenonT(60) DEF Between, EdgesOf

(* Alternating edges: so are the first ones of them, and a part of them    *)
(* that comes after an even number.                                        *)
LEMMA AlternateFirst ==
  ASSUME NEW s \in Seq(Edges), NEW t \in Seq(Edges), Alternate(s \o t)
  PROVE  Alternate(s)
<1>1. /\ Len(s) \in Nat /\ Len(t) \in Nat /\ DOMAIN s = 1 .. Len(s)
      /\ s \o t \in Seq(Edges) /\ Len(s \o t) = Len(s) + Len(t)
      /\ \A i \in 1 .. Len(s) + Len(t) : (s \o t)[i] = IF i <= Len(s) THEN s[i] ELSE t[i - Len(s)]
  BY LenProperties, ConcatProperties
<1> DEFINE u == s \o t
<1>2. Alternate(u) /\ DOMAIN u = 1 .. Len(s) + Len(t)
  BY <1>1, LenProperties
<1>3. \A i \in 1 .. Len(s) : u[i] = s[i] /\ i \in DOMAIN u
  BY <1>1, <1>2
<1> HIDE DEF u
<1>. QED
  BY <1>1, <1>2, <1>3 DEF Alternate

LEMMA AlternateRest ==
  ASSUME NEW s \in Seq(Edges), NEW t \in Seq(Edges), Alternate(s \o t), Len(s) % 2 = 0
  PROVE  Alternate(t)
<1>1. /\ Len(s) \in Nat /\ Len(t) \in Nat /\ DOMAIN t = 1 .. Len(t)
      /\ s \o t \in Seq(Edges) /\ Len(s \o t) = Len(s) + Len(t)
      /\ \A i \in 1 .. Len(s) + Len(t) : (s \o t)[i] = IF i <= Len(s) THEN s[i] ELSE t[i - Len(s)]
  BY LenProperties, ConcatProperties
<1> DEFINE u == s \o t
<1>2. Alternate(u) /\ DOMAIN u = 1 .. Len(s) + Len(t)
  BY <1>1, LenProperties
<1>3. \A i \in 1 .. Len(t) : u[Len(s) + i] = t[i] /\ Len(s) + i \in DOMAIN u
  BY <1>1, <1>2
<1>4. \A i \in 1 .. Len(t) : (Len(s) + i) % 2 = i % 2
  BY <1>1, SMTT(60)
<1> HIDE DEF u
<1>5. ASSUME NEW i \in 1 .. Len(t) PROVE t[i].trailing = (i % 2 = 0)
  <2>1. u[Len(s) + i].trailing = ((Len(s) + i) % 2 = 0)
    BY <1>2, <1>3 DEF Alternate
  <2>2. u[Len(s) + i] = t[i] /\ (Len(s) + i) % 2 = i % 2
    BY <1>3, <1>4
  <2>. QED
    BY <2>1, <2>2, Zenon
<1>. QED
  BY <1>1, <1>5 DEF Alternate

(* Halves of lengths.                                                      *)
LEMMA Halves ==
  ASSUME NEW m \in Nat, NEW n \in Nat, m % 2 = 0
  PROVE  /\ m \div 2 \in Nat /\ n \div 2 \in Nat
         /\ (m + n) \div 2 = m \div 2 + n \div 2 /\ m = 2 * (m \div 2) /\ 2 * (n \div 2) <= n
BY SMT

LEMMA PulsesType ==
  ASSUME NEW s \in Seq(Edges)
  PROVE  /\ Pulses(s) \in Seq(Edges \X Edges) /\ Len(Pulses(s)) = Len(s) \div 2
         /\ \A k \in 1 .. Len(s) \div 2 : Pulses(s)[k] = <<s[2 * k - 1], s[2 * k]>>
<1>1. Len(s) \in Nat /\ Len(s) \div 2 \in Nat /\ \A i \in 1 .. Len(s) : s[i] \in Edges
  BY LenProperties, ElementOfSeq
<1>2. \A k \in 1 .. Len(s) \div 2 : 2 * k - 1 \in 1 .. Len(s) /\ 2 * k \in 1 .. Len(s)
  BY <1>1
<1> DEFINE n == Len(s) \div 2
<1>3. \A k \in 1 .. n : <<s[2 * k - 1], s[2 * k]>> \in Edges \X Edges
  BY <1>1, <1>2
<1> DEFINE P == Edges \X Edges
           e(k) == <<s[2 * k - 1], s[2 * k]>>
           q == [k \in 1 .. n |-> e(k)]
<1>4. q = Pulses(s)
  BY DEF Pulses
<1>5. n \in Nat /\ \A k \in 1 .. n : e(k) \in P
  BY <1>1, <1>3
<1> HIDE DEF n, P, e
<1>6. q \in Seq(P) /\ Len(q) = n /\ \A k \in 1 .. n : q[k] = e(k)
  BY <1>5
<1>. QED
  BY <1>4, <1>6 DEF n, P, e

LEMMA PulsesJoin ==
  ASSUME NEW s \in Seq(Edges), NEW t \in Seq(Edges), Len(s) % 2 = 0
  PROVE  Pulses(s \o t) = Pulses(s) \o Pulses(t)
<1> DEFINE u == s \o t
           P == Edges \X Edges
           a == Pulses(s)
           b == Pulses(t)
           d == Pulses(u)
<1>1. /\ Len(s) \in Nat /\ Len(t) \in Nat
      /\ u \in Seq(Edges) /\ Len(u) = Len(s) + Len(t)
      /\ \A i \in 1 .. Len(s) + Len(t) : u[i] = IF i <= Len(s) THEN s[i] ELSE t[i - Len(s)]
  BY LenProperties, ConcatProperties
<1> HIDE DEF u
<1>2. /\ a \in Seq(P) /\ Len(a) = Len(s) \div 2
      /\ \A k \in 1 .. Len(s) \div 2 : a[k] = <<s[2 * k - 1], s[2 * k]>>
      /\ b \in Seq(P) /\ Len(b) = Len(t) \div 2
      /\ \A k \in 1 .. Len(t) \div 2 : b[k] = <<t[2 * k - 1], t[2 * k]>>
      /\ d \in Seq(P) /\ Len(d) = Len(u) \div 2
      /\ \A k \in 1 .. Len(u) \div 2 : d[k] = <<u[2 * k - 1], u[2 * k]>>
  BY <1>1, PulsesType
<1> HIDE DEF P, a, b, d
<1>3. Len(u) \div 2 = Len(a) + Len(b) /\ Len(s) = 2 * Len(a) /\ Len(a) \in Nat /\ Len(b) \in Nat
      /\ 2 * Len(b) <= Len(t)
  <2>1. /\ Len(s) \div 2 \in Nat /\ Len(t) \div 2 \in Nat
        /\ (Len(s) + Len(t)) \div 2 = Len(s) \div 2 + Len(t) \div 2
        /\ Len(s) = 2 * (Len(s) \div 2) /\ 2 * (Len(t) \div 2) <= Len(t)
    BY <1>1, Halves, Zenon
  <2>2. Len(u) = Len(s) + Len(t) /\ Len(a) = Len(s) \div 2 /\ Len(b) = Len(t) \div 2
    BY <1>1, <1>2
  <2>. QED
    BY <2>1, <2>2, Zenon
<1>4. /\ a \o b \in Seq(P) /\ Len(a \o b) = Len(a) + Len(b)
      /\ \A k \in 1 .. Len(a) + Len(b) : (a \o b)[k] = IF k <= Len(a) THEN a[k] ELSE b[k - Len(a)]
  BY <1>2, ConcatProperties
<1>5. ASSUME NEW k \in 1 .. Len(d) PROVE d[k] = (a \o b)[k]
  <2>1. k \in 1 .. Len(a) + Len(b) /\ d[k] = <<u[2 * k - 1], u[2 * k]>>
    BY <1>2, <1>3, <1>5
  <2>2. CASE k <= Len(a)
    <3>1. k \in 1 .. Len(a) /\ 2 * k - 1 \in 1 .. Len(s) /\ 2 * k \in 1 .. Len(s)
      BY <1>3, <2>1, <2>2, SMTT(40)
    <3>2. u[2 * k - 1] = s[2 * k - 1] /\ u[2 * k] = s[2 * k]
      BY <1>1, <3>1, SMTT(40)
    <3>. QED
      BY <1>2, <1>4, <2>1, <2>2, <3>1, <3>2
  <2>3. CASE ~(k <= Len(a))
    <3> DEFINE j == k - Len(a)
    <3>1. j \in 1 .. Len(b) /\ 2 * j - 1 \in 1 .. Len(t) /\ 2 * j \in 1 .. Len(t)
          /\ 2 * k - 1 = Len(s) + (2 * j - 1) /\ 2 * k = Len(s) + 2 * j
      BY <1>3, <2>1, <2>3, SMTT(40)
    <3> HIDE DEF j
    <3>2. u[2 * k - 1] = t[2 * j - 1] /\ u[2 * k] = t[2 * j]
      <4>1. \A i \in 1 .. Len(t) : u[Len(s) + i] = t[i]
        BY <1>1, SMTT(40)
      <4>. QED
        BY <3>1, <4>1
    <3>3. b[j] = <<t[2 * j - 1], t[2 * j]>>
      BY <1>2, <3>1
    <3>. QED
      BY <1>4, <2>1, <2>3, <3>2, <3>3 DEF j
  <2>. QED
    BY <2>2, <2>3
<1>6. d = a \o b
  BY <1>2, <1>3, <1>4, <1>5, SeqEqual
<1>. QED
  BY <1>6 DEF a, b, d, u
-----------------------------------------------------------------------------
(* The parts of a file up to a position, of which E holds the ends; the    *)
(* edges of a channel in each, those after the last end, and the pulses of *)
(* all the parts.                                                          *)
EndsUpTo(E, n) == Only([i \in 1 .. n |-> i], E)
LastEnd(ends) == IF ends = <<>> THEN 0 ELSE ends[Len(ends)]
PartsOf(f, c, ends) ==
  [k \in DOMAIN ends |-> Between(f, c, IF k = 1 THEN 0 ELSE ends[k - 1], ends[k])]
Found(f, c, E, n) == FlatMap(Pulses, PartsOf(f, c, EndsUpTo(E, n)))
Rest(f, c, E, n) == Between(f, c, LastEnd(EndsUpTo(E, n)), n)

LEMMA EndsNone == \A E : EndsUpTo(E, 0) = <<>>
<1>1. [i \in 1 .. 0 |-> i] = <<>>
  OBVIOUS
<1>. QED
  BY <1>1, OnlyEmpty DEF EndsUpTo

LEMMA EndsNext ==
  ASSUME NEW E, NEW n \in Nat
  PROVE  /\ EndsUpTo(E, n) \in Seq(1 .. n)
         /\ EndsUpTo(E, n + 1) = IF n + 1 \in E THEN Append(EndsUpTo(E, n), n + 1) ELSE EndsUpTo(E, n)
<1> DEFINE ids(k) == [i \in 1 .. k |-> i]
<1>1. ids(n) \in Seq(1 .. n) /\ ids(n) \in Seq(Nat) /\ ids(n + 1) \in Seq(Nat)
  OBVIOUS
<1>2. ids(n + 1) = Append(ids(n), n + 1)
  <2>1. Len(ids(n)) = n /\ Len(ids(n + 1)) = n + 1
    OBVIOUS
  <2>2. /\ Append(ids(n), n + 1) \in Seq(Nat) /\ Len(Append(ids(n), n + 1)) = n + 1
        /\ \A i \in 1 .. n : Append(ids(n), n + 1)[i] = ids(n)[i]
        /\ Append(ids(n), n + 1)[n + 1] = n + 1
    BY <1>1, <2>1, AppendProperties
  <2>3. \A i \in 1 .. n + 1 : ids(n + 1)[i] = Append(ids(n), n + 1)[i]
    BY <2>2
  <2> HIDE DEF ids
  <2>. QED
    BY <1>1, <2>1, <2>2, <2>3, SeqEqual
<1>3. EndsUpTo(E, n) = Only(ids(n), E) /\ EndsUpTo(E, n + 1) = Only(ids(n + 1), E)
  BY DEF EndsUpTo
<1> HIDE DEF ids
<1>4. EndsUpTo(E, n) \in Seq(1 .. n)
  BY <1>1, <1>3, OnlyType
<1>5. Only(Append(ids(n), n + 1), E) = IF n + 1 \in E THEN Append(Only(ids(n), E), n + 1) ELSE Only(ids(n), E)
  <2> DEFINE s == ids(n)
             w == n + 1
  <2>1. s \in Seq(Nat) /\ w \in Nat
    BY <1>1
  <2> HIDE DEF s, w
  <2>2. Only(Append(s, w), E) = IF w \in E THEN Append(Only(s, E), w) ELSE Only(s, E)
    BY <2>1, OnlyAppend
  <2>. QED
    BY <2>2 DEF s, w
<1>. QED
  BY <1>2, <1>3, <1>4, <1>5

LEMMA LastEndType ==
  ASSUME NEW E, NEW n \in Nat
  PROVE  LastEnd(EndsUpTo(E, n)) \in 0 .. n
<1>1. EndsUpTo(E, n) \in Seq(1 .. n)
  BY EndsNext
<1>2. CASE EndsUpTo(E, n) # <<>>
  <2>1. Len(EndsUpTo(E, n)) \in 1 .. Len(EndsUpTo(E, n))
    BY <1>1, <1>2, EmptySeq
  <2>2. EndsUpTo(E, n)[Len(EndsUpTo(E, n))] \in 1 .. n
    BY <1>1, <2>1, ElementOfSeq
  <2>. QED
    BY <1>2, <2>2 DEF LastEnd
<1>. QED
  BY <1>2 DEF LastEnd

LEMMA PartsType ==
  ASSUME NEW f \in Seq(FileWords), NEW c, NEW ends \in Seq(1 .. Len(f))
  PROVE  PartsOf(f, c, ends) \in Seq(Seq(Edges)) /\ Len(PartsOf(f, c, ends)) = Len(ends)
<1> DEFINE A == Seq(Edges)
           n == Len(ends)
           e(k) == Between(f, c, IF k = 1 THEN 0 ELSE ends[k - 1], ends[k])
           q == [k \in 1 .. n |-> e(k)]
<1>1. n \in Nat /\ DOMAIN ends = 1 .. n /\ Len(f) \in Nat
  BY LenProperties
<1>2. ASSUME NEW k \in 1 .. n PROVE e(k) \in A
  <2>1. ends[k] \in 0 .. Len(f)
    BY <1>1, ElementOfSeq
  <2>2. CASE k = 1
    BY <1>1, <2>1, <2>2, BetweenType
  <2>3. CASE k # 1
    <3>1. k - 1 \in 1 .. n
      BY <1>1, <2>3
    <3>2. ends[k - 1] \in 0 .. Len(f)
      BY <1>1, <3>1, ElementOfSeq
    <3>. QED
      BY <2>1, <2>3, <3>2, BetweenType
  <2>. QED
    BY <2>2, <2>3
<1>3. q = PartsOf(f, c, ends)
  BY <1>1 DEF PartsOf
<1> HIDE DEF A, n, e
<1>4. q \in Seq(A) /\ Len(q) = n
  BY <1>1, <1>2
<1>. QED
  BY <1>3, <1>4 DEF A, n

LEMMA PartsNext ==
  ASSUME NEW f \in Seq(FileWords), NEW c, NEW ends \in Seq(1 .. Len(f)), NEW n \in 1 .. Len(f)
  PROVE  PartsOf(f, c, Append(ends, n)) = Append(PartsOf(f, c, ends), Between(f, c, LastEnd(ends), n))
<1> DEFINE more == Append(ends, n)
           old == PartsOf(f, c, ends)
           new == PartsOf(f, c, more)
           last == Between(f, c, LastEnd(ends), n)
           A == Seq(Edges)
           L == Len(ends)
<1>1. /\ more \in Seq(1 .. Len(f)) /\ Len(more) = L + 1 /\ L \in Nat
      /\ more[L + 1] = n /\ \A i \in 1 .. L : more[i] = ends[i]
      /\ DOMAIN ends = 1 .. L
  BY AppendProperties, LenProperties
<1>2. DOMAIN more = 1 .. L + 1
  BY <1>1, LenProperties
<1>3. old \in Seq(A) /\ Len(old) = L /\ new \in Seq(A) /\ Len(new) = L + 1
  <2> HIDE DEF more
  <2>. QED
    BY <1>1, PartsType
<1>4. last \in A
  <2>1. LastEnd(ends) \in 0 .. Len(f)
    <3>1. CASE ends # <<>>
      <4>1. L \in 1 .. L
        BY <3>1, EmptySeq
      <4>2. ends[L] \in 1 .. Len(f)
        BY <4>1, ElementOfSeq
      <4>. QED
        BY <3>1, <4>2, LenProperties DEF LastEnd
    <3>2. CASE ends = <<>>
      BY <3>2, LenProperties DEF LastEnd
    <3>. QED
      BY <3>1, <3>2
  <2>2. n \in 0 .. Len(f)
    BY LenProperties
  <2>. QED
    BY <2>1, <2>2, BetweenType
<1>5. ASSUME NEW k \in 1 .. L PROVE new[k] = old[k]
  <2>1. k \in 1 .. L + 1 /\ (k # 1 => k - 1 \in 1 .. L)
    BY <1>1
  <2>2. more[k] = ends[k] /\ (k # 1 => more[k - 1] = ends[k - 1])
    BY <1>1, <2>1
  <2>3. new[k] = Between(f, c, IF k = 1 THEN 0 ELSE more[k - 1], more[k])
    BY <1>2, <2>1 DEF PartsOf
  <2>4. old[k] = Between(f, c, IF k = 1 THEN 0 ELSE ends[k - 1], ends[k])
    BY <1>1 DEF PartsOf
  <2>. QED
    BY <2>2, <2>3, <2>4
<1>6. new[L + 1] = last
  <2>1. new[L + 1] = Between(f, c, IF L + 1 = 1 THEN 0 ELSE more[(L + 1) - 1], more[L + 1])
    <3>1. L + 1 \in DOMAIN more
      BY <1>1, <1>2
    <3> HIDE DEF more, L
    <3>. QED
      BY <3>1 DEF PartsOf
  <2>2. CASE L = 0
    <3>1. ends = <<>>
      BY <2>2, EmptySeq
    <3>. QED
      BY <1>1, <2>1, <2>2, <3>1 DEF LastEnd
  <2>3. CASE L # 0
    <3>1. ends # <<>> /\ (L + 1) - 1 = L /\ L \in 1 .. L
      BY <1>1, <2>3, EmptySeq
    <3>2. more[L] = ends[L]
      BY <1>1, <3>1
    <3>. QED
      BY <1>1, <2>1, <2>3, <3>1, <3>2 DEF LastEnd
  <2>. QED
    BY <2>2, <2>3
<1> HIDE DEF more, old, new, last, A, L
<1>7. /\ Append(old, last) \in Seq(A) /\ Len(Append(old, last)) = L + 1
      /\ Append(old, last)[L + 1] = last /\ \A i \in 1 .. L : Append(old, last)[i] = old[i]
  BY <1>3, <1>4, AppendProperties
<1>8. \A k \in 1 .. L + 1 : new[k] = Append(old, last)[k]
  BY <1>1, <1>5, <1>6, <1>7
<1>9. new = Append(old, last)
  BY <1>3, <1>7, <1>8, SeqEqual
<1>. QED
  BY <1>9 DEF more, old, new, last

LEMMA FlatMapNone == FlatMap(Pulses, <<>>) = <<>>
<1>1. [k \in DOMAIN <<>> |-> Pulses(<<>>[k])] = <<>>
  OBVIOUS
<1>. QED
  BY <1>1 DEF FlatMap, FlattenSeq

LEMMA FlatMapNext ==
  ASSUME NEW ps \in Seq(Seq(Edges)), NEW s \in Seq(Edges)
  PROVE  /\ FlatMap(Pulses, ps) \in Seq(Edges \X Edges)
         /\ FlatMap(Pulses, Append(ps, s)) = FlatMap(Pulses, ps) \o Pulses(s)
<1> DEFINE A == Seq(Edges)
           P == Edges \X Edges
           B == Seq(P)
           all == Append(ps, s)
           L == Len(ps)
           old == [k \in DOMAIN ps |-> Pulses(ps[k])]
           new == [k \in DOMAIN all |-> Pulses(all[k])]
<1>0. \A t \in A : Pulses(t) \in B
  BY PulsesType
<1>1. FlatMap(Pulses, ps) = FlattenSeq(old) /\ FlatMap(Pulses, all) = FlattenSeq(new)
  BY DEF FlatMap
<1> HIDE DEF A, B
<1>2. /\ ps \in Seq(A) /\ s \in A /\ all \in Seq(A) /\ Len(all) = L + 1 /\ L \in Nat /\ DOMAIN ps = 1 .. L
      /\ all[L + 1] = s /\ \A i \in 1 .. L : all[i] = ps[i]
  BY AppendProperties, LenProperties DEF A
<1>3. DOMAIN all = 1 .. L + 1
  BY <1>2, LenProperties
<1>4. old \in Seq(B) /\ Len(old) = L
  BY <1>0, <1>2, ElementOfSeq
<1>5. new \in Seq(B) /\ Len(new) = L + 1
  <2> HIDE DEF all
  <2>1. \A k \in 1 .. L + 1 : all[k] \in A
    BY <1>2, ElementOfSeq
  <2>. QED
    BY <1>0, <1>2, <1>3, <2>1
<1>6. /\ Append(old, Pulses(s)) \in Seq(B) /\ Len(Append(old, Pulses(s))) = L + 1
      /\ Append(old, Pulses(s))[L + 1] = Pulses(s)
      /\ \A i \in 1 .. L : Append(old, Pulses(s))[i] = old[i]
  <2>1. Pulses(s) \in B
    BY <1>0, <1>2
  <2> HIDE DEF old, all, L
  <2>. QED
    BY <1>4, <2>1, AppendProperties
<1>7. \A k \in 1 .. L : new[k] = Pulses(all[k]) /\ old[k] = Pulses(ps[k])
  BY <1>2, <1>3
<1>8. new[L + 1] = Pulses(all[L + 1])
  BY <1>2, <1>3
<1> HIDE DEF old, new, all, L
<1>9. \A k \in 1 .. L + 1 : new[k] = Append(old, Pulses(s))[k]
  BY <1>2, <1>6, <1>7, <1>8
<1>10. new = Append(old, Pulses(s))
  BY <1>5, <1>6, <1>9, SeqEqual
<1>11. FlattenSeq(Append(old, Pulses(s))) = FlattenSeq(old) \o Pulses(s)
  BY <1>0, <1>2, <1>4, FlattenAppend DEF B
<1>12. FlattenSeq(old) \in Seq(P)
  BY <1>4, FlattenType DEF B
<1>. QED
  BY <1>1, <1>10, <1>11, <1>12 DEF all
-----------------------------------------------------------------------------
Alternating(f, c, E, n) ==
  \A k \in DOMAIN PartsOf(f, c, EndsUpTo(E, n)) : Alternate(PartsOf(f, c, EndsUpTo(E, n))[k])

LEMMA FoundType ==
  ASSUME NEW f \in Seq(FileWords), NEW c, NEW E, NEW n \in 0 .. Len(f)
  PROVE  /\ EndsUpTo(E, n) \in Seq(1 .. Len(f)) /\ LastEnd(EndsUpTo(E, n)) \in 0 .. n
         /\ PartsOf(f, c, EndsUpTo(E, n)) \in Seq(Seq(Edges))
         /\ Found(f, c, E, n) \in Seq(Edges \X Edges) /\ Rest(f, c, E, n) \in Seq(Edges)
<1>1. n \in Nat /\ Len(f) \in Nat /\ n <= Len(f)
  BY LenProperties
<1>2. EndsUpTo(E, n) \in Seq(1 .. Len(f))
  <2>1. EndsUpTo(E, n) \in Seq(1 .. n)
    BY <1>1, EndsNext
  <2>2. \A i \in 1 .. Len(EndsUpTo(E, n)) : EndsUpTo(E, n)[i] \in 1 .. Len(f)
    BY <1>1, <2>1, ElementOfSeq
  <2>. QED
    BY <2>1, <2>2, SeqOfSubset
<1>3. LastEnd(EndsUpTo(E, n)) \in 0 .. n
  BY <1>1, LastEndType
<1>4. PartsOf(f, c, EndsUpTo(E, n)) \in Seq(Seq(Edges))
  BY <1>2, PartsType
<1>5. Found(f, c, E, n) \in Seq(Edges \X Edges)
  <2>1. <<>> \in Seq(Edges)
    BY EmptySeq
  <2>. QED
    BY <1>4, <2>1, FlatMapNext DEF Found
<1>6. Rest(f, c, E, n) \in Seq(Edges)
  <2>1. LastEnd(EndsUpTo(E, n)) \in 0 .. Len(f)
    BY <1>1, <1>3
  <2>. QED
    BY <2>1, BetweenType DEF Rest
<1>. QED
  BY <1>2, <1>3, <1>4, <1>5, <1>6

LEMMA FoundNone ==
  ASSUME NEW f \in Seq(FileWords), NEW c, NEW E
  PROVE  Found(f, c, E, 0) = <<>> /\ Rest(f, c, E, 0) = <<>>
<1>1. EndsUpTo(E, 0) = <<>> /\ DOMAIN <<>> = {} /\ 0 \in 0 .. Len(f)
  BY EndsNone, LenProperties
<1>2. PartsOf(f, c, <<>>) = <<>>
  BY <1>1 DEF PartsOf
<1>3. LastEnd(<<>>) = 0
  BY DEF LastEnd
<1>. QED
  BY <1>1, <1>2, <1>3, FlatMapNone, BetweenNone DEF Found, Rest

(* One position more.                                                      *)
LEMMA FoundNext ==
  ASSUME NEW f \in Seq(FileWords), NEW c, NEW E, NEW n \in 0 .. Len(f), n + 1 <= Len(f)
  PROVE  LET part == Rest(f, c, E, n) \o Between(f, c, n, n + 1) IN
         /\ part \in Seq(Edges)
         /\ n + 1 \in E => /\ Found(f, c, E, n + 1) = Found(f, c, E, n) \o Pulses(part)
                           /\ Rest(f, c, E, n + 1) = <<>>
                           /\ PartsOf(f, c, EndsUpTo(E, n + 1)) = Append(PartsOf(f, c, EndsUpTo(E, n)), part)
         /\ n + 1 \notin E => /\ EndsUpTo(E, n + 1) = EndsUpTo(E, n)
                              /\ Found(f, c, E, n + 1) = Found(f, c, E, n)
                              /\ Rest(f, c, E, n + 1) = part
<1> DEFINE ends == EndsUpTo(E, n)
           last == LastEnd(ends)
           part == Rest(f, c, E, n) \o Between(f, c, n, n + 1)
<1>1. /\ ends \in Seq(1 .. Len(f)) /\ last \in 0 .. n /\ PartsOf(f, c, ends) \in Seq(Seq(Edges))
      /\ Rest(f, c, E, n) \in Seq(Edges)
  BY FoundType
<1>2. n \in Nat /\ Len(f) \in Nat /\ last \in 0 .. Len(f) /\ n \in last .. Len(f) /\ n + 1 \in n .. Len(f)
      /\ n + 1 \in 1 .. Len(f) /\ n + 1 \in 0 .. Len(f)
  <2>1. n \in Nat /\ Len(f) \in Nat /\ n + 1 <= Len(f)
    BY LenProperties
  <2> HIDE DEF last
  <2>. QED
    BY <1>1, <2>1
<1>3. Rest(f, c, E, n) = Between(f, c, last, n)
  BY DEF Rest
<1>4. part = Between(f, c, last, n + 1)
  <2> HIDE DEF last
  <2>. QED
    BY <1>2, <1>3, BetweenJoin
<1>5. part \in Seq(Edges)
  <2> HIDE DEF last, part
  <2>. QED
    BY <1>2, <1>4, BetweenType
<1> HIDE DEF part
<1>6. CASE n + 1 \in E
  <2>1. EndsUpTo(E, n + 1) = Append(ends, n + 1)
    BY <1>2, <1>6, EndsNext
  <2>2. PartsOf(f, c, EndsUpTo(E, n + 1)) = Append(PartsOf(f, c, ends), part)
    <3> HIDE DEF ends
    <3>. QED
      BY <1>1, <1>2, <1>4, <2>1, PartsNext
  <2>3. Found(f, c, E, n + 1) = Found(f, c, E, n) \o Pulses(part)
    <3>1. FlatMap(Pulses, Append(PartsOf(f, c, ends), part)) = FlatMap(Pulses, PartsOf(f, c, ends)) \o Pulses(part)
      BY <1>1, <1>5, FlatMapNext
    <3>. QED
      BY <2>2, <3>1 DEF Found
  <2>4. LastEnd(EndsUpTo(E, n + 1)) = n + 1
    <3>1. Append(ends, n + 1) # <<>> /\ Len(Append(ends, n + 1)) = Len(ends) + 1
          /\ Append(ends, n + 1)[Len(ends) + 1] = n + 1
      <4> DEFINE N == 1 .. Len(f)
                 e == n + 1
      <4>1. ends \in Seq(N) /\ e \in N
        BY <1>1, <1>2
      <4> HIDE DEF ends, N, e
      <4>2. Append(ends, e) # <<>> /\ Len(Append(ends, e)) = Len(ends) + 1
            /\ Append(ends, e)[Len(ends) + 1] = e
        BY <4>1, AppendProperties
      <4>. QED
        BY <4>2 DEF e
    <3>. QED
      BY <2>1, <3>1 DEF LastEnd
  <2>5. Rest(f, c, E, n + 1) = <<>>
    BY <1>2, <2>4, BetweenNone DEF Rest
  <2>. QED
    BY <1>5, <1>6, <2>2, <2>3, <2>5 DEF part
<1>7. CASE n + 1 \notin E
  <2>1. EndsUpTo(E, n + 1) = ends
    BY <1>2, <1>7, EndsNext
  <2>2. Found(f, c, E, n + 1) = Found(f, c, E, n)
    BY <2>1 DEF Found
  <2>3. Rest(f, c, E, n + 1) = part
    BY <1>4, <2>1 DEF Rest
  <2>. QED
    BY <1>5, <1>7, <2>1, <2>2, <2>3 DEF part
<1>. QED
  BY <1>6, <1>7

LEMMA AlternatingNext ==
  ASSUME NEW f \in Seq(FileWords), NEW c, NEW E, NEW n \in 0 .. Len(f), n + 1 <= Len(f),
         Alternating(f, c, E, n + 1)
  PROVE  /\ Alternating(f, c, E, n)
         /\ n + 1 \in E => Alternate(Rest(f, c, E, n) \o Between(f, c, n, n + 1))
<1> DEFINE part == Rest(f, c, E, n) \o Between(f, c, n, n + 1)
           old == PartsOf(f, c, EndsUpTo(E, n))
           new == PartsOf(f, c, EndsUpTo(E, n + 1))
<1>1. CASE n + 1 \notin E
  <2>1. EndsUpTo(E, n + 1) = EndsUpTo(E, n)
    BY <1>1, FoundNext
  <2>. QED
    BY <1>1, <2>1 DEF Alternating
<1>2. CASE n + 1 \in E
  <2>1. new = Append(old, part) /\ part \in Seq(Edges) /\ old \in Seq(Seq(Edges))
    BY <1>2, FoundNext, FoundType
  <2>2. \A k \in DOMAIN new : Alternate(new[k])
    BY DEF Alternating
  <2>3. Alternating(f, c, E, n) <=> \A k \in DOMAIN old : Alternate(old[k])
    BY DEF Alternating
  <2> DEFINE A == Seq(Edges)
  <2> HIDE DEF part, old, new, A
  <2>4. /\ new \in Seq(A) /\ Len(new) = Len(old) + 1 /\ Len(old) \in Nat /\ new[Len(old) + 1] = part
        /\ \A k \in 1 .. Len(old) : new[k] = old[k]
    BY <2>1, AppendProperties, LenProperties DEF A
  <2>5. DOMAIN new = 1 .. Len(old) + 1 /\ DOMAIN old = 1 .. Len(old)
    BY <2>1, <2>4, LenProperties DEF A
  <2>6. Len(old) + 1 \in DOMAIN new /\ \A k \in DOMAIN old : k \in DOMAIN new /\ new[k] = old[k]
    BY <2>4, <2>5
  <2>7. Alternate(part) /\ \A k \in DOMAIN old : Alternate(old[k])
    BY <2>2, <2>4, <2>6, Zenon
  <2>. QED
    BY <2>3, <2>7 DEF part
<1>. QED
  BY <1>1, <1>2

(* Before an end all the edges that are open alternate.                    *)
LEMMA AlternatingBefore ==
  ASSUME NEW f \in Seq(FileWords), NEW c, NEW E, NEW e \in E, e \in 1 .. Len(f),
         Alternating(f, c, E, e), NEW n \in 1 .. e
  PROVE  Alternate(Rest(f, c, E, n - 1) \o Between(f, c, n - 1, n))
<1> DEFINE Q(k) == Alternate(Rest(f, c, E, k - 1) \o Between(f, c, k - 1, k)) /\ Alternating(f, c, E, k)
           S == {j \in Nat : j < e => Q(e - j)}
<1>1. e \in Nat /\ Len(f) \in Nat /\ e >= 1 /\ e <= Len(f)
  BY LenProperties
<1>2. 0 \in S
  <2>1. e - 0 = e /\ e - 1 \in 0 .. Len(f) /\ (e - 1) + 1 = e
    BY <1>1
  <2>2. Alternate(Rest(f, c, E, e - 1) \o Between(f, c, e - 1, (e - 1) + 1))
    BY <1>1, <2>1, AlternatingNext
  <2>. QED
    BY <2>1, <2>2
<1>3. ASSUME NEW j \in S PROVE j + 1 \in S
  <2>1. j \in Nat /\ (j < e => Q(e - j))
    OBVIOUS
  <2> SUFFICES ASSUME j + 1 < e PROVE Q(e - (j + 1))
    BY <2>1
  <2> DEFINE k == e - (j + 1)
  <2>2. k \in 1 .. Len(f) /\ k + 1 = e - j /\ k + 1 <= Len(f) /\ k - 1 \in 0 .. Len(f)
        /\ (k - 1) + 1 = k /\ k \in 0 .. Len(f) /\ (k + 1) - 1 = k
    BY <1>1, <2>1
  <2>3. Q(k + 1)
    BY <1>1, <2>1, <2>2
  <2> HIDE DEF k
  <2>4. Alternating(f, c, E, k) /\ (k + 1 \in E => Alternate(Rest(f, c, E, k) \o Between(f, c, k, k + 1)))
    BY <2>2, <2>3, AlternatingNext
  <2> DEFINE part == Rest(f, c, E, k - 1) \o Between(f, c, k - 1, k)
  <2>5. Alternate(part)
    <3>1. CASE k \in E
      <4>1. Alternating(f, c, E, (k - 1) + 1) /\ (k - 1) + 1 \in E /\ (k - 1) + 1 <= Len(f)
        BY <2>2, <2>4, <3>1
      <4>2. Alternate(Rest(f, c, E, k - 1) \o Between(f, c, k - 1, (k - 1) + 1))
        BY <2>2, <4>1, AlternatingNext
      <4>. QED
        BY <2>2, <4>2
    <3>2. CASE k \notin E
      <4>1. Rest(f, c, E, (k - 1) + 1) = Rest(f, c, E, k - 1) \o Between(f, c, k - 1, (k - 1) + 1)
        <5>1. (k - 1) + 1 \notin E /\ (k - 1) + 1 <= Len(f)
          BY <2>2, <3>2
        <5>. QED
          BY <2>2, <5>1, FoundNext, SMTT(60)
      <4>2. Rest(f, c, E, k) = part
        BY <2>2, <4>1
      <4>3. Alternate(Rest(f, c, E, k) \o Between(f, c, k, k + 1))
        BY <2>2, <2>3
      <4>4. Rest(f, c, E, k) \in Seq(Edges) /\ Between(f, c, k, k + 1) \in Seq(Edges)
        <5>1. k + 1 \in 0 .. Len(f)
          BY <2>2
        <5>. QED
          BY <2>2, <5>1, FoundType, BetweenType
      <4>5. Alternate(Rest(f, c, E, k))
        BY <4>3, <4>4, AlternateFirst
      <4>. QED
        BY <4>2, <4>5
    <3>. QED
      BY <3>1, <3>2
  <2>. QED
    BY <2>4, <2>5 DEF k
<1>4. S = Nat
  <2> HIDE DEF S
  <2>1. S \in SUBSET Nat
    BY DEF S
  <2>. QED
    BY <1>2, <1>3, <2>1, NatSets
<1>5. e - n \in Nat /\ e - n < e /\ e - (e - n) = n
  BY <1>1
<1>6. e - n \in S
  BY <1>4, <1>5
<1>7. Q(n)
  BY <1>5, <1>6
<1>. QED
  BY <1>7
-----------------------------------------------------------------------------
(* From one position to another, without an end between them.              *)
Endless(E, p, n) == \A i \in p + 1 .. n : i \notin E

LEMMA NoEnds ==
  ASSUME NEW f \in Seq(FileWords), NEW c, NEW E, NEW p \in 0 .. Len(f), NEW n \in p .. Len(f),
         Endless(E, p, n)
  PROVE  /\ EndsUpTo(E, n) = EndsUpTo(E, p) /\ Found(f, c, E, n) = Found(f, c, E, p)
         /\ Rest(f, c, E, n) = Rest(f, c, E, p) \o Between(f, c, p, n)
<1> DEFINE S == {k \in Nat : p + k <= n => EndsUpTo(E, p + k) = EndsUpTo(E, p)}
<1>1. p \in Nat /\ n \in Nat /\ p <= n /\ Len(f) \in Nat /\ n <= Len(f)
  BY LenProperties
<1>2. 0 \in S
  BY <1>1
<1>3. ASSUME NEW k \in S PROVE k + 1 \in S
  <2>1. k \in Nat /\ p + (k + 1) = (p + k) + 1 /\ p + k \in Nat
    BY <1>1
  <2>2. CASE p + (k + 1) <= n
    <3>1. (p + k) + 1 \in p + 1 .. n /\ p + k <= n
      BY <1>1, <2>1, <2>2
    <3>2. EndsUpTo(E, (p + k) + 1) = EndsUpTo(E, p + k)
      BY <2>1, <3>1, EndsNext DEF Endless
    <3>3. EndsUpTo(E, p + k) = EndsUpTo(E, p)
      BY <3>1
    <3>. QED
      BY <2>1, <3>2, <3>3
  <2>. QED
    BY <2>1, <2>2
<1>4. S = Nat
  <2> HIDE DEF S
  <2>1. S \in SUBSET Nat
    BY DEF S
  <2>. QED
    BY <1>2, <1>3, <2>1, NatSets
<1>5. n - p \in S /\ p + (n - p) = n
  <2> HIDE DEF S
  <2>. QED
    BY <1>1, <1>4
<1>6. EndsUpTo(E, n) = EndsUpTo(E, p)
  BY <1>1, <1>5
<1> DEFINE last == LastEnd(EndsUpTo(E, p))
<1>7. last \in 0 .. p
  BY <1>1, LastEndType
<1> HIDE DEF last
<1>8. last \in 0 .. Len(f) /\ p \in last .. Len(f)
  BY <1>1, <1>7
<1>9. Between(f, c, last, n) = Between(f, c, last, p) \o Between(f, c, p, n)
  BY <1>1, <1>8, BetweenJoin
<1>. QED
  BY <1>6, <1>9 DEF Found, Rest, last

LEMMA ToNext ==
  ASSUME NEW f \in Seq(FileWords), NEW c, NEW E, NEW p \in 0 .. Len(f), NEW n \in p + 1 .. Len(f),
         Endless(E, p, n - 1)
  PROVE  LET part == Rest(f, c, E, p) \o Between(f, c, p, n) IN
         /\ part = Rest(f, c, E, n - 1) \o Between(f, c, n - 1, n)
         /\ n \in E => /\ Found(f, c, E, n) = Found(f, c, E, p) \o Pulses(part)
                       /\ Rest(f, c, E, n) = <<>>
         /\ n \notin E => Found(f, c, E, n) = Found(f, c, E, p) /\ Rest(f, c, E, n) = part
<1>1. p \in Nat /\ n \in Nat /\ p + 1 <= n /\ Len(f) \in Nat /\ n <= Len(f) /\ n - 1 \in p .. Len(f)
      /\ (n - 1) + 1 = n /\ n - 1 \in 0 .. Len(f) /\ n \in n - 1 .. Len(f)
  BY LenProperties
<1> DEFINE m == n - 1
           b == Rest(f, c, E, p)
           part == b \o Between(f, c, p, n)
<1>2. /\ Found(f, c, E, m) = Found(f, c, E, p)
      /\ Rest(f, c, E, m) = b \o Between(f, c, p, m)
  BY <1>1, NoEnds
<1> HIDE DEF m
<1>3. Between(f, c, p, n) = Between(f, c, p, m) \o Between(f, c, m, n)
  BY <1>1, BetweenJoin DEF m
<1>4. b \in Seq(Edges) /\ Between(f, c, p, m) \in Seq(Edges) /\ Between(f, c, m, n) \in Seq(Edges)
  BY <1>1, FoundType, BetweenType DEF m
<1> HIDE DEF b
<1>5. part = Rest(f, c, E, m) \o Between(f, c, m, n)
  <2> DEFINE y == Between(f, c, p, m)
             z == Between(f, c, m, n)
  <2>1. b \in Seq(Edges) /\ y \in Seq(Edges) /\ z \in Seq(Edges)
    BY <1>4
  <2> HIDE DEF y, z
  <2>2. b \o (y \o z) = (b \o y) \o z
    BY <2>1, ConcatAssociative, SMTT(60)
  <2>. QED
    BY <1>2, <1>3, <2>2, Zenon DEF y, z
<1>6. m \in 0 .. Len(f) /\ m + 1 <= Len(f) /\ m + 1 = n
  BY <1>1 DEF m
<1>7. LET next == Rest(f, c, E, m) \o Between(f, c, m, m + 1) IN
      /\ m + 1 \in E => Found(f, c, E, m + 1) = Found(f, c, E, m) \o Pulses(next) /\ Rest(f, c, E, m + 1) = <<>>
      /\ m + 1 \notin E => Found(f, c, E, m + 1) = Found(f, c, E, m) /\ Rest(f, c, E, m + 1) = next
  BY <1>6, FoundNext, SMTT(40)
<1>. QED
  BY <1>2, <1>5, <1>6, <1>7 DEF m, b
-----------------------------------------------------------------------------
(* What Only() keeps of what it kept.                                      *)
LEMMA OnlyTwice ==
  ASSUME NEW W, NEW S, NEW V, NEW s \in Seq(W)
  PROVE  Only(Only(s, S), V) = Only(s, S \cap V)
<1> DEFINE T == {t \in Seq(W) : Only(Only(t, S), V) = Only(t, S \cap V)}
<1>1. <<>> \in T
  BY EmptySeq, OnlyEmpty
<1>2. ASSUME NEW t \in T, NEW w \in W PROVE Append(t, w) \in T
  <2>1. t \in Seq(W) /\ Append(t, w) \in Seq(W) /\ Only(t, S) \in Seq(W)
        /\ Only(Only(t, S), V) = Only(t, S \cap V)
    BY AppendProperties, OnlyType
  <2> DEFINE both == S \cap V
             u == Only(t, S)
  <2>2. Only(Append(t, w), S) = IF w \in S THEN Append(u, w) ELSE u
    BY <2>1, OnlyAppend
  <2>3. u \in Seq(W) /\ Only(u, V) = Only(t, both) /\ (w \in both <=> w \in S /\ w \in V)
    BY <2>1
  <2> HIDE DEF both, u
  <2>4. Only(Append(u, w), V) = IF w \in V THEN Append(Only(u, V), w) ELSE Only(u, V)
    BY <2>3, OnlyAppend
  <2>5. Only(Append(t, w), both) = IF w \in both THEN Append(Only(t, both), w) ELSE Only(t, both)
    BY <2>1, OnlyAppend
  <2>6. Only(Only(Append(t, w), S), V) = Only(Append(t, w), both)
    BY <2>2, <2>3, <2>4, <2>5
  <2>. QED
    BY <2>1, <2>6 DEF both
<1>3. T = Seq(W)
  <2> HIDE DEF T
  <2>1. T \in SUBSET Seq(W)
    BY DEF T
  <2>. QED
    BY <1>1, <1>2, <2>1, SeqSets
<1>. QED
  BY <1>3

LEMMA OnlySame ==
  ASSUME NEW W, NEW S, NEW V, NEW s \in Seq(W), W \cap S = W \cap V
  PROVE  Only(s, S) = Only(s, V)
<1>1. Only(s, W) = s
  <2>1. \A i \in 1 .. Len(s) : s[i] \in W
    BY ElementOfSeq
  <2>. QED
    BY <2>1, OnlyAll
<1>2. Only(Only(s, W), S) = Only(s, W \cap S) /\ Only(Only(s, W), V) = Only(s, W \cap V)
  BY OnlyTwice
<1>. QED
  BY <1>1, <1>2

(* The edges of a channel among the words collected for it.                *)
LEMMA EdgesCollected ==
  ASSUME NEW m \in AcquisitionModes, NEW c \in Nat, NEW f \in Seq(FileWords), NEW p \in 0 .. Len(f),
         NEW n \in p .. Len(f)
  PROVE  LET words == Collected(m, f, p, n, c) IN
         /\ words \in Seq(FileWords)
         /\ Only(words, {w \in TDCEvents : IsEdge(w)}) = Between(f, c, p, n)
         /\ \A v : IsEdge(v) => (Contains(words, v) <=> Contains(Between(f, c, p, n), v))
<1> DEFINE s == SubSeq(f, p + 1, n)
           S == {w \in TDCEvents : Collects(m, w, c)}
           V == {w \in TDCEvents : IsEdge(w)}
           words == Collected(m, f, p, n, c)
<1>1. s \in Seq(FileWords)
  BY Cut
<1>2. words = Only(s, S) /\ Between(f, c, p, n) = Only(s, Mine(c))
  BY DEF Collected, Between, EdgesOf, Mine
<1>3. S \cap V = Mine(c)
  BY DEF Mine, Collects, GetChannelId, AcquisitionModes
<1> HIDE DEF s, words
<1>4. words \in Seq(FileWords) /\ Only(words, V) = Only(s, S \cap V)
  BY <1>1, <1>2, OnlyType, OnlyTwice, SMTT(40)
<1>5. /\ \A v : Contains(Only(s, S), v) <=> Contains(s, v) /\ v \in S
      /\ \A v : Contains(Only(s, Mine(c)), v) <=> Contains(s, v) /\ v \in Mine(c)
  BY <1>1, OnlyInSet
<1>6. \A v : IsEdge(v) => (v \in S <=> v \in Mine(c))
  <2>1. \A v : v \in V <=> v \in TDCEvents /\ IsEdge(v)
    OBVIOUS
  <2>2. \A v : v \in S => v \in TDCEvents
    OBVIOUS
  <2> HIDE DEF S, V
  <2>. QED
    BY <1>3, <2>1, <2>2
<1>. QED
  BY <1>2, <1>3, <1>4, <1>5, <1>6 DEF words
-----------------------------------------------------------------------------
(* SetEventsCollection() of edges that alternate.                          *)
AllEdges == {w \in TDCEvents : IsEdge(w)}

LEMMA PulsesShort ==
  ASSUME NEW s \in Seq(Edges), Len(s) < 2
  PROVE  Pulses(s) = <<>>
<1>1. Len(s) \in Nat
  BY LenProperties
<1>2. Len(s) \div 2 = 0
  BY <1>1
<1>3. Pulses(s) \in Seq(Edges \X Edges) /\ Len(Pulses(s)) = 0
  BY <1>2, PulsesType
<1>. QED
  BY <1>3, EmptySeq

LEMMA OddHalf ==
  ASSUME NEW m \in Nat, m % 2 # 0
  PROVE  /\ m \div 2 \in Nat /\ m = 2 * (m \div 2) + 1 /\ (m + 1) \div 2 = m \div 2 + 1
BY SMT

LEMMA PulsesNext ==
  ASSUME NEW s \in Seq(Edges), NEW w \in Edges
  PROVE  Pulses(Append(s, w)) =
           IF Len(s) % 2 = 0 THEN Pulses(s) ELSE Append(Pulses(s), <<s[Len(s)], w>>)
<1> DEFINE u == Append(s, w)
           P == Edges \X Edges
           a == Pulses(s)
           d == Pulses(u)
<1>1. /\ u \in Seq(Edges) /\ Len(u) = Len(s) + 1 /\ Len(s) \in Nat /\ u[Len(s) + 1] = w
      /\ \A i \in 1 .. Len(s) : u[i] = s[i]
  BY AppendProperties, LenProperties
<1> HIDE DEF u
<1>2. /\ a \in Seq(P) /\ Len(a) = Len(s) \div 2
      /\ \A k \in 1 .. Len(s) \div 2 : a[k] = <<s[2 * k - 1], s[2 * k]>>
      /\ d \in Seq(P) /\ Len(d) = Len(u) \div 2
      /\ \A k \in 1 .. Len(u) \div 2 : d[k] = <<u[2 * k - 1], u[2 * k]>>
  BY <1>1, PulsesType
<1> HIDE DEF P, a, d
<1>3. \A k \in 1 .. Len(a) : k <= Len(d) => d[k] = a[k]
  <2> SUFFICES ASSUME NEW k \in 1 .. Len(a), k <= Len(d) PROVE d[k] = a[k]
    OBVIOUS
  <2>1. 2 * k - 1 \in 1 .. Len(s) /\ 2 * k \in 1 .. Len(s) /\ k \in 1 .. Len(s) \div 2 /\ k \in 1 .. Len(u) \div 2
    BY <1>1, <1>2
  <2>2. u[2 * k - 1] = s[2 * k - 1] /\ u[2 * k] = s[2 * k]
    BY <1>1, <2>1
  <2>3. a[k] = <<s[2 * k - 1], s[2 * k]>> /\ d[k] = <<u[2 * k - 1], u[2 * k]>>
    BY <1>2, <2>1
  <2>. QED
    BY <2>2, <2>3
<1>4. CASE Len(s) % 2 = 0
  <2>1. Len(d) = Len(a)
    BY <1>1, <1>2, <1>4
  <2>2. d = a
    <3>1. \A k \in 1 .. Len(d) : d[k] = a[k]
      BY <1>3, <2>1
    <3>. QED
      BY <1>2, <2>1, <3>1, SeqEqual
  <2>. QED
    BY <1>4, <2>2 DEF a, d, u
<1>5. CASE Len(s) % 2 # 0
  <2> DEFINE x == <<s[Len(s)], w>>
             n == Len(a)
  <2>1. n \in Nat /\ Len(s) = 2 * n + 1 /\ Len(d) = n + 1
    <3>1. /\ Len(s) \div 2 \in Nat /\ Len(s) = 2 * (Len(s) \div 2) + 1
          /\ (Len(s) + 1) \div 2 = Len(s) \div 2 + 1
      BY <1>1, <1>5, OddHalf
    <3>2. Len(a) = Len(s) \div 2 /\ Len(d) = (Len(s) + 1) \div 2
      BY <1>1, <1>2
    <3>. QED
      BY <3>1, <3>2
  <2>2. d[n + 1] = <<u[2 * (n + 1) - 1], u[2 * (n + 1)]>> /\ 2 * (n + 1) - 1 = Len(s) /\ 2 * (n + 1) = Len(s) + 1
    <3> HIDE DEF n
    <3>1. n + 1 \in 1 .. Len(u) \div 2
      BY <1>2, <2>1
    <3>2. 2 * (n + 1) - 1 = Len(s) /\ 2 * (n + 1) = Len(s) + 1
      BY <2>1
    <3>. QED
      BY <1>2, <3>1, <3>2
  <2>3. u[Len(s)] = s[Len(s)] /\ Len(s) \in 1 .. Len(s)
    BY <1>1, <2>1
  <2>4. d[n + 1] = x
    BY <1>1, <2>2, <2>3
  <2>5. x \in P
    <3>1. s[Len(s)] \in Edges
      BY <2>3, ElementOfSeq
    <3>. QED
      BY <3>1 DEF P
  <2> HIDE DEF x
  <2>6. /\ Append(a, x) \in Seq(P) /\ Len(Append(a, x)) = n + 1
        /\ Append(a, x)[n + 1] = x /\ \A k \in 1 .. n : Append(a, x)[k] = a[k]
    BY <1>2, <2>5, AppendProperties
  <2>7. \A k \in 1 .. n + 1 : d[k] = Append(a, x)[k]
    BY <1>3, <2>1, <2>4, <2>6
  <2>8. d = Append(a, x)
    BY <1>2, <2>1, <2>6, <2>7, SeqEqual
  <2>. QED
    BY <1>5, <2>8 DEF a, d, u, x
<1>. QED
  BY <1>4, <1>5

(* The state of the pairing after alternating edges o.                     *)
PairsAfter(o) ==
  [leading |-> IF o = <<>> THEN <<>> ELSE <<o[IF Len(o) % 2 = 0 THEN Len(o) - 1 ELSE Len(o)]>>,
   over |-> FALSE, hits |-> Pulses(o)]

LEMMA PairsOfAlternating ==
  ASSUME NEW s \in Seq(FileWords), Alternate(Only(s, AllEdges))
  PROVE  SetEventsCollection(s) = Pulses(Only(s, AllEdges))
<1> DEFINE T == {t \in Seq(FileWords) : Alternate(Only(t, AllEdges)) => Paired(t) = PairsAfter(Only(t, AllEdges))}
<1>0. ASSUME NEW t \in Seq(FileWords)
      PROVE  Only(t, AllEdges) \in Seq(Edges)
  <2>1. Only(t, AllEdges) \in Seq(FileWords \cap AllEdges)
    BY OnlyInSet
  <2>2. FileWords \cap AllEdges = Edges
    BY DEF FileWords, AllEdges, Edges
  <2>. QED
    BY <2>1, <2>2
<1>1. <<>> \in T
  <2>1. <<>> \in Seq(FileWords) /\ <<>> \in Seq(Edges) /\ Len(<<>>) = 0
    BY EmptySeq
  <2>2. Pulses(<<>>) = <<>>
    <3> DEFINE e == <<>>
    <3>1. e \in Seq(Edges) /\ Len(e) < 2
      BY <2>1
    <3> HIDE DEF e
    <3>2. Pulses(e) = <<>>
      BY <3>1, PulsesShort
    <3>. QED
      BY <3>2 DEF e
  <2>3. PairsAfter(<<>>) = None
    BY <2>2 DEF PairsAfter, None
  <2>. QED
    BY <2>1, <2>3, OnlyEmpty, PairedEmpty
<1>2. ASSUME NEW t \in T, NEW w \in FileWords PROVE Append(t, w) \in T
  <2> DEFINE o == Only(t, AllEdges)
             q == Only(Append(t, w), AllEdges)
  <2>1. t \in Seq(FileWords) /\ Append(t, w) \in Seq(FileWords) /\ o \in Seq(Edges) /\ q \in Seq(Edges)
        /\ (Alternate(o) => Paired(t) = PairsAfter(o))
    BY <1>0, AppendProperties
  <2>2. q = IF w \in AllEdges THEN Append(o, w) ELSE o
    BY <2>1, OnlyAppend
  <2>3. Paired(Append(t, w)) = Pair(Paired(t), w)
    BY <2>1, PairedAppend
  <2> SUFFICES ASSUME Alternate(q) PROVE Paired(Append(t, w)) = PairsAfter(q)
    BY <2>1
  <2> HIDE DEF o, q
  <2>4. CASE w \notin AllEdges
    <3>1. ~IsEdge(w)
      BY <2>4 DEF AllEdges, FileWords
    <3>2. Paired(t) = PairsAfter(q)
      BY <2>1, <2>2, <2>4
    <3>. QED
      BY <2>3, <3>1, <3>2 DEF Pair
  <2>5. CASE w \in AllEdges
    <3>1. w \in Edges /\ IsEdge(w) /\ q = Append(o, w)
      BY <2>2, <2>5 DEF AllEdges, Edges
    <3>2. /\ Len(q) = Len(o) + 1 /\ Len(o) \in Nat /\ q[Len(o) + 1] = w /\ q # <<>>
          /\ \A i \in 1 .. Len(o) : q[i] = o[i]
      BY <2>1, <3>1, AppendProperties, LenProperties
    <3>3. DOMAIN q = 1 .. Len(o) + 1 /\ Len(o) + 1 \in DOMAIN q
      BY <2>1, <3>2, LenProperties
    <3>4. w.trailing = ((Len(o) + 1) % 2 = 0)
      BY <3>2, <3>3 DEF Alternate
    <3>5. Alternate(o)
      <4>1. <<w>> \in Seq(Edges) /\ o \o <<w>> = q
        BY <2>1, <3>1, AppendIsConcat
      <4>. QED
        BY <2>1, <4>1, AlternateFirst
    <3>6. Paired(t) = PairsAfter(o)
      BY <2>1, <3>5
    <3>7. Pulses(q) = IF Len(o) % 2 = 0 THEN Pulses(o) ELSE Append(Pulses(o), <<o[Len(o)], w>>)
      BY <2>1, <3>1, PulsesNext
    <3>8. CASE Len(o) % 2 = 0
      <4>1. (Len(o) + 1) % 2 # 0
        BY <3>2, <3>8
      <4>2. ~w.trailing
        BY <3>4, <4>1
      <4>3. Pair(PairsAfter(o), w) = [leading |-> <<w>>, over |-> FALSE, hits |-> Pulses(o)]
        BY <3>1, <4>2 DEF Pair, PairsAfter
      <4>4. PairsAfter(q) = [leading |-> <<w>>, over |-> FALSE, hits |-> Pulses(o)]
        BY <3>2, <3>7, <3>8, <4>1 DEF PairsAfter
      <4>. QED
        BY <2>3, <3>6, <4>3, <4>4
    <3>9. CASE Len(o) % 2 # 0
      <4>1. (Len(o) + 1) % 2 = 0 /\ Len(o) # 0 /\ Len(o) \in 1 .. Len(o) /\ (Len(o) + 1) - 1 = Len(o)
        BY <3>2, <3>9
      <4>2. w.trailing
        BY <3>4, <4>1
      <4>3. o # <<>>
        BY <4>1, EmptySeq
      <4> DEFINE x == o[Len(o)]
                 h == Pulses(o)
      <4>4. PairsAfter(o) = [leading |-> <<x>>, over |-> FALSE, hits |-> h]
        BY <3>9, <4>3 DEF PairsAfter
      <4>5. q[Len(o)] = x
        BY <3>2, <4>1
      <4>6. Pulses(q) = Append(h, <<x, w>>)
        BY <3>7, <3>9
      <4> HIDE DEF x, h
      <4>7. Pair(PairsAfter(o), w) = [leading |-> <<x>>, over |-> FALSE, hits |-> Append(h, <<x, w>>)]
        <5> DEFINE acc == PairsAfter(o)
        <5>1. acc = [leading |-> <<x>>, over |-> FALSE, hits |-> h]
          BY <4>4
        <5> HIDE DEF acc
        <5>2. ~acc.over /\ acc.leading = <<x>> /\ acc.leading[1] = x /\ acc.leading # <<>> /\ acc.hits = h
          BY <5>1
        <5>3. Pair(acc, w) = [acc EXCEPT !.hits = Append(h, <<x, w>>)]
          BY <3>1, <4>2, <5>2, Zenon DEF Pair
        <5>. QED
          <6> DEFINE l == <<x>>
                     g == Append(h, <<x, w>>)
          <6>1. acc = [leading |-> l, over |-> FALSE, hits |-> h] /\ Pair(acc, w) = [acc EXCEPT !.hits = g]
            BY <5>1, <5>3
          <6> HIDE DEF l, g
          <6>2. Pair(acc, w) = [leading |-> l, over |-> FALSE, hits |-> g]
            BY <6>1
          <6>. QED
            BY <6>2 DEF acc, l, g
      <4>8. PairsAfter(q) = [leading |-> <<x>>, over |-> FALSE, hits |-> Append(h, <<x, w>>)]
        <5>1. (IF q = <<>> THEN <<>> ELSE <<q[IF Len(q) % 2 = 0 THEN Len(q) - 1 ELSE Len(q)]>>) = <<x>>
          BY <3>2, <4>1, <4>5
        <5>. QED
          BY <4>6, <5>1 DEF PairsAfter
      <4>. QED
        BY <2>3, <3>6, <4>7, <4>8
    <3>. QED
      BY <3>8, <3>9
  <2>. QED
    BY <2>4, <2>5
<1>3. T = Seq(FileWords)
  <2> HIDE DEF T
  <2>1. T \in SUBSET Seq(FileWords)
    BY DEF T
  <2>. QED
    BY <1>1, <1>2, <2>1, SeqSets
<1>4. Paired(s) = PairsAfter(Only(s, AllEdges))
  BY <1>3
<1>. QED
  BY <1>4, HitsOfPaired DEF PairsAfter
-----------------------------------------------------------------------------
LEMMA AlternatingLess ==
  ASSUME NEW f \in Seq(FileWords), NEW c, NEW E, NEW e \in 0 .. Len(f),
         Alternating(f, c, E, e), NEW n \in 0 .. e
  PROVE  Alternating(f, c, E, n)
<1> DEFINE S == {j \in Nat : j <= e => Alternating(f, c, E, e - j)}
<1>1. e \in Nat /\ Len(f) \in Nat /\ e <= Len(f)
  BY LenProperties
<1>2. 0 \in S
  BY <1>1
<1>3. ASSUME NEW j \in S PROVE j + 1 \in S
  <2>1. CASE j + 1 <= e
    <3> DEFINE k == e - (j + 1)
    <3>1. k \in 0 .. Len(f) /\ k + 1 = e - j /\ k + 1 <= Len(f) /\ j <= e
      BY <1>1, <2>1
    <3>2. Alternating(f, c, E, k + 1)
      BY <1>1, <3>1
    <3> HIDE DEF k
    <3>3. Alternating(f, c, E, k)
      BY <3>1, <3>2, AlternatingNext
    <3>. QED
      BY <3>3 DEF k
  <2>. QED
    BY <2>1
<1>4. S = Nat
  <2> HIDE DEF S
  <2>1. S \in SUBSET Nat
    BY DEF S
  <2>. QED
    BY <1>2, <1>3, <2>1, NatSets
<1>5. e - n \in Nat /\ e - n <= e /\ e - (e - n) = n
  BY <1>1
<1>6. e - n \in S
  BY <1>4, <1>5
<1>. QED
  BY <1>5, <1>6

LEMMA BetweenOne ==
  ASSUME NEW f \in Seq(FileWords), NEW c, NEW n \in 1 .. Len(f)
  PROVE  Between(f, c, n - 1, n) = IF f[n] \in Mine(c) THEN <<f[n]>> ELSE <<>>
<1>1. n - 1 \in 0 .. Len(f) /\ n \in n - 1 .. Len(f) /\ n - (n - 1) = 1 /\ (n - 1) + 1 = n /\ f[n] \in FileWords
  BY LenProperties, ElementOfSeq
<1> DEFINE s == SubSeq(f, (n - 1) + 1, n)
           w == f[n]
<1>2. s \in Seq(FileWords) /\ Len(s) = n - (n - 1) /\ \A i \in 1 .. n - (n - 1) : s[i] = f[(n - 1) + i]
  BY <1>1, Cut
<1> HIDE DEF s
<1>3. Len(s) = 1 /\ s[1] = w
  BY <1>1, <1>2
<1> HIDE DEF w
<1>4. w \in FileWords /\ <<>> \in Seq(FileWords)
  BY <1>1, EmptySeq DEF w
<1>5. s = Append(<<>>, w)
  BY <1>2, <1>3, <1>4
<1>6. Only(Append(<<>>, w), Mine(c)) = IF w \in Mine(c) THEN Append(Only(<<>>, Mine(c)), w) ELSE Only(<<>>, Mine(c))
  <2> DEFINE e == <<>>
  <2> HIDE DEF e
  <2>1. e \in Seq(FileWords)
    BY <1>4 DEF e
  <2>2. Only(Append(e, w), Mine(c)) = IF w \in Mine(c) THEN Append(Only(e, Mine(c)), w) ELSE Only(e, Mine(c))
    BY <1>4, <2>1, OnlyAppend
  <2>. QED
    BY <2>2 DEF e
<1>7. Only(<<>>, Mine(c)) = <<>> /\ Append(<<>>, w) = <<w>>
  BY OnlyEmpty
<1>. QED
  BY <1>5, <1>6, <1>7 DEF Between, EdgesOf, Mine, s, w

(* A search does not go beyond the end of a part.                          *)
LEMMA StopAtEnd ==
  ASSUME NEW m \in AcquisitionModes, NEW c \in Nat, NEW f \in Seq(FileWords), NEW p \in 0 .. Len(f),
         NEW n \in p + 1 .. Len(f), n \in EndsIn(m, f, c), m = "TRIG_MATCH" \/ n # Len(f)
  PROVE  StopsAt(m, f, p, n, c)
<1>1. CASE m = "TRIG_MATCH"
  <2>1. f[n].type = "GlobalTrailer"
    BY <1>1 DEF EndsIn
  <2>. QED
    BY <1>1, <2>1 DEF StopsAt, Collects, IsEdge
<1>2. CASE m = "CONT_STORAGE"
  <2>1. f[n].type = "Trigger" /\ c = 0
    BY <1>2 DEF EndsIn
  <2>. QED
    BY <1>2, <2>1 DEF StopsAt, Collects, IsEdge, GetChannelId
<1>. QED
  BY <1>1, <1>2 DEF AcquisitionModes

(* Two edges that alternate are a leading one and a trailing one.          *)
LEMMA BothEdges ==
  ASSUME NEW c \in Nat, NEW f \in Seq(FileWords), NEW p \in 0 .. Len(f), NEW n \in p .. Len(f),
         NEW m \in AcquisitionModes, Alternate(Between(f, c, p, n))
  PROVE  LET words == Collected(m, f, p, n, c) IN
         Has(words, IsLeading) /\ Has(words, IsTrailing) <=> Len(Between(f, c, p, n)) >= 2
<1> DEFINE words == Collected(m, f, p, n, c)
           s == Between(f, c, p, n)
<1>1. words \in Seq(FileWords) /\ \A v : IsEdge(v) => (Contains(words, v) <=> Contains(s, v))
  BY EdgesCollected
<1>2. s \in Seq(Edges) /\ Alternate(s)
  <2>1. n \in 0 .. Len(f)
    BY LenProperties
  <2>. QED
    BY <2>1, BetweenType
<1> HIDE DEF words, s
<1>3. /\ DOMAIN words = 1 .. Len(words) /\ DOMAIN s = 1 .. Len(s) /\ Len(s) \in Nat
      /\ \A i \in 1 .. Len(s) : s[i] \in Edges
  BY <1>1, <1>2, LenProperties, ElementOfSeq
<1>4. ASSUME Has(words, IsLeading), Has(words, IsTrailing) PROVE Len(s) >= 2
  <2>1. PICK i \in 1 .. Len(words) : IsLeading(words[i])
    BY <1>3, <1>4 DEF Has
  <2>2. PICK j \in 1 .. Len(words) : IsTrailing(words[j])
    BY <1>3, <1>4 DEF Has
  <2>3. IsEdge(words[i]) /\ ~words[i].trailing /\ IsEdge(words[j]) /\ words[j].trailing
    BY <2>1, <2>2 DEF IsLeading, IsTrailing
  <2>4. Contains(words, words[i]) /\ Contains(words, words[j])
    BY <2>1, <2>2 DEF Contains
  <2>5. Contains(s, words[i]) /\ Contains(s, words[j])
    BY <1>1, <2>3, <2>4
  <2>6. PICK k, l \in 1 .. Len(s) : s[k] = words[i] /\ s[l] = words[j]
    BY <2>5 DEF Contains
  <2>7. k # l
    BY <2>3, <2>6
  <2>. QED
    BY <1>3, <2>6, <2>7
<1>5. ASSUME Len(s) >= 2 PROVE Has(words, IsLeading) /\ Has(words, IsTrailing)
  <2>1. 1 \in 1 .. Len(s) /\ 2 \in 1 .. Len(s) /\ 1 % 2 # 0 /\ 2 % 2 = 0
    BY <1>3, <1>5
  <2>2. s[1] \in Edges /\ s[2] \in Edges /\ ~s[1].trailing /\ s[2].trailing
    <3>1. s[1].trailing = (1 % 2 = 0) /\ s[2].trailing = (2 % 2 = 0)
      BY <1>2, <1>3, <2>1 DEF Alternate
    <3>2. s[1].trailing \in BOOLEAN /\ s[2].trailing \in BOOLEAN /\ s[1] \in Edges /\ s[2] \in Edges
      BY <1>3, <2>1 DEF Edges, FileWords, TDCEvents
    <3>. QED
      BY <2>1, <3>1, <3>2
  <2>3. IsLeading(s[1]) /\ IsTrailing(s[2]) /\ IsEdge(s[1]) /\ IsEdge(s[2])
    BY <2>2 DEF IsLeading, IsTrailing, Edges
  <2>4. Contains(s, s[1]) /\ Contains(s, s[2])
    BY <2>1 DEF Contains
  <2>5. Contains(words, s[1]) /\ Contains(words, s[2])
    BY <1>1, <2>3, <2>4
  <2>6. PICK i, j \in 1 .. Len(words) : words[i] = s[1] /\ words[j] = s[2]
    BY <2>5 DEF Contains
  <2>. QED
    BY <1>3, <2>3, <2>6 DEF Has
<1>. QED
  BY <1>4, <1>5 DEF words, s

(* In continuous storage a search does not pass a pair.                    *)
LEMMA Unpaired ==
  ASSUME NEW c \in Nat, NEW f \in Seq(FileWords), NEW p \in 0 .. Len(f), NEW n \in p .. Len(f),
         Alternate(Between(f, c, p, n)), PassesBy("CONT_STORAGE", f, p, n, c)
  PROVE  Len(Between(f, c, p, n)) < 2
<1> DEFINE S == {k \in Nat : p + k <= n => Len(Between(f, c, p, p + k)) < 2}
<1>1. p \in Nat /\ n \in Nat /\ p <= n /\ Len(f) \in Nat /\ n <= Len(f)
  BY LenProperties
<1>2. 0 \in S
  <2>1. Between(f, c, p, p) = <<>> /\ p + 0 = p
    BY <1>1, BetweenNone
  <2>. QED
    BY <2>1
<1>3. ASSUME NEW k \in S, p + (k + 1) <= n PROVE Len(Between(f, c, p, p + (k + 1))) < 2
  <2> DEFINE i == p + (k + 1)
  <2>1. /\ i \in p + 1 .. n /\ i \in 1 .. Len(f) /\ i \in p .. Len(f) /\ i \in 0 .. Len(f) /\ n \in i .. Len(f)
        /\ i - 1 = p + k /\ i - 1 \in p .. Len(f) /\ i - 1 \in 0 .. Len(f) /\ i \in i - 1 .. Len(f) /\ p + k <= n
        /\ n \in 0 .. Len(f)
    BY <1>1, <1>3
  <2>2. Len(Between(f, c, p, i - 1)) < 2
    BY <1>3, <2>1
  <2> HIDE DEF i
  <2>3. Between(f, c, p, i) = Between(f, c, p, i - 1) \o Between(f, c, i - 1, i)
    BY <2>1, BetweenJoin
  <2>4. Between(f, c, p, n) = Between(f, c, p, i) \o Between(f, c, i, n)
    BY <2>1, BetweenJoin
  <2>5. /\ Between(f, c, p, i) \in Seq(Edges) /\ Between(f, c, i, n) \in Seq(Edges)
        /\ Between(f, c, p, i - 1) \in Seq(Edges)
    BY <2>1, BetweenType
  <2>6. Alternate(Between(f, c, p, i))
    BY <2>4, <2>5, AlternateFirst
  <2>7. CASE f[i] \notin Mine(c)
    <3>1. Between(f, c, i - 1, i) = <<>>
      BY <2>1, <2>7, BetweenOne
    <3>2. Between(f, c, p, i) = Between(f, c, p, i - 1)
      BY <2>3, <2>5, <3>1, ConcatEmptySeq
    <3>. QED
      BY <2>2, <3>2 DEF i
  <2>8. CASE f[i] \in Mine(c)
    <3>1. Collects("CONT_STORAGE", f[i], c)
      BY <2>8 DEF Mine, Collects, GetChannelId
    <3>2. ~StopsAt("CONT_STORAGE", f, p, i, c)
      BY <2>1 DEF PassesBy
    <3>3. LET words == Collected("CONT_STORAGE", f, p, i, c) IN
          ~(Has(words, IsLeading) /\ Has(words, IsTrailing))
      BY <3>1, <3>2 DEF StopsAt
    <3>4. ~(Len(Between(f, c, p, i)) >= 2)
      BY <2>1, <2>6, <3>3, BothEdges DEF AcquisitionModes
    <3>5. Len(Between(f, c, p, i)) \in Nat
      BY <2>5, LenProperties
    <3>. QED
      BY <3>4, <3>5 DEF i
  <2>. QED
    BY <2>7, <2>8
<1>4. \A k \in S : k + 1 \in S
  BY <1>3
<1>5. S = Nat
  <2> HIDE DEF S
  <2>1. S \in SUBSET Nat
    BY DEF S
  <2>. QED
    BY <1>2, <1>4, <2>1, NatSets
<1>6. n - p \in Nat /\ p + (n - p) = n
  BY <1>1
<1>7. n - p \in S
  BY <1>5, <1>6
<1>. QED
  BY <1>1, <1>6, <1>7
-----------------------------------------------------------------------------
(* A channel of which a search that starts at position p found what comes  *)
(* before: the pulses of the parts that ended, and those of the open one.  *)
Progress(m, f, c, p, hits) ==
  LET E == EndsIn(m, f, c) IN
  /\ hits = Found(f, c, E, p) \o Pulses(Rest(f, c, E, p))
  /\ Len(Rest(f, c, E, p)) % 2 = 0
  /\ m = "TRIG_MATCH" => Rest(f, c, E, p) = <<>>

LEMMA ProgressStart ==
  ASSUME NEW m, NEW f \in Seq(FileWords), NEW c
  PROVE  Progress(m, f, c, 0, <<>>)
<1> DEFINE E == EndsIn(m, f, c)
           e == <<>>
<1>1. Found(f, c, E, 0) = e /\ Rest(f, c, E, 0) = e
  BY FoundNone
<1>2. e \in Seq(Edges) /\ Len(e) = 0 /\ Len(e) < 2 /\ e \o e = e /\ 0 % 2 = 0
  BY EmptySeq, ConcatEmptySeq
<1> HIDE DEF E, e
<1>3. Pulses(e) = <<>>
  BY <1>2, PulsesShort
<1>. QED
  BY <1>1, <1>2, <1>3 DEF Progress, E, e

(* A search that stops before the end of the file.                         *)
LEMMA ProgressMeasured ==
  ASSUME NEW m \in AcquisitionModes, NEW c \in Nat, NEW f \in Seq(FileWords), NEW p \in 0 .. Len(f),
         NEW n \in p + 1 .. Len(f), PassesBy(m, f, p, n - 1, c), StopsAt(m, f, p, n, c),
         Alternating(f, c, EndsIn(m, f, c), Len(f)), NEW hits, Progress(m, f, c, p, hits)
  PROVE  Progress(m, f, c, n, hits \o SetEventsCollection(Collected(m, f, p, n, c)))
<1> DEFINE E == EndsIn(m, f, c)
           b == Rest(f, c, E, p)
           s == Between(f, c, p, n)
           part == b \o s
           words == Collected(m, f, p, n, c)
           old == Found(f, c, E, p)
<1>0. /\ hits = old \o Pulses(b) /\ Len(b) % 2 = 0 /\ (m = "TRIG_MATCH" => b = <<>>)
      /\ Alternating(f, c, E, Len(f))
  BY DEF Progress
<1>1. /\ Len(f) \in Nat /\ p \in Nat /\ n \in Nat /\ p + 1 <= n /\ n <= Len(f) /\ n \in 1 .. Len(f)
      /\ n \in 0 .. Len(f) /\ n \in p .. Len(f) /\ DOMAIN f = 1 .. Len(f) /\ Len(f) \in 0 .. Len(f)
  BY LenProperties
<1>2. ASSUME NEW i \in p + 1 .. n - 1 PROVE i \notin E
  <2>1. i \in p + 1 .. Len(f) /\ i # Len(f)
    <3>1. p \in Int /\ n \in Int /\ Len(f) \in Int /\ n <= Len(f)
      BY <1>1
    <3>2. i \in Int /\ p + 1 <= i /\ i <= n - 1
      BY <3>1
    <3>. QED
      BY <3>1, <3>2
  <2>2. ~StopsAt(m, f, p, i, c)
    BY DEF PassesBy
  <2>. QED
    BY <2>1, <2>2, StopAtEnd
<1> HIDE DEF E
<1>3. b \in Seq(Edges) /\ s \in Seq(Edges) /\ old \in Seq(Edges \X Edges)
  BY <1>1, FoundType, BetweenType
<1>4. /\ part = Rest(f, c, E, n - 1) \o Between(f, c, n - 1, n)
      /\ n \in E => Found(f, c, E, n) = old \o Pulses(part) /\ Rest(f, c, E, n) = <<>>
      /\ n \notin E => Found(f, c, E, n) = old /\ Rest(f, c, E, n) = part
  <2>1. Endless(E, p, n - 1)
    BY <1>2 DEF Endless
  <2>. QED
    BY <2>1, ToNext, ZenonT(60)
<1>5. m = "TRIG_MATCH" => n \in E
  BY <1>1 DEF StopsAt, E, EndsIn
<1>6. Alternate(part)
  <2>1. CASE m = "TRIG_MATCH"
    <3>1. Alternating(f, c, E, n)
      BY <1>0, <1>1, AlternatingLess
    <3>2. n \in E /\ n \in 1 .. Len(f) /\ n \in 1 .. n
      BY <1>1, <1>5, <2>1
    <3>3. Alternate(Rest(f, c, E, n - 1) \o Between(f, c, n - 1, n))
      BY <3>1, <3>2, AlternatingBefore
    <3>. QED
      BY <1>4, <3>3
  <2>2. CASE m # "TRIG_MATCH"
    <3>1. Len(f) \in E /\ Len(f) \in 1 .. Len(f)
      BY <1>1, <2>2 DEF E, EndsIn
    <3>2. Alternate(Rest(f, c, E, n - 1) \o Between(f, c, n - 1, n))
      BY <1>0, <1>1, <3>1, AlternatingBefore
    <3>. QED
      BY <1>4, <3>2
  <2>. QED
    BY <2>1, <2>2
<1> HIDE DEF b, s, old
<1>7. Alternate(s)
  BY <1>0, <1>3, <1>6, AlternateRest
<1>8. SetEventsCollection(words) = Pulses(s)
  <2>1. words \in Seq(FileWords) /\ Only(words, AllEdges) = s
    BY <1>1, EdgesCollected DEF AllEdges, s
  <2> HIDE DEF words
  <2>. QED
    BY <1>7, <2>1, PairsOfAlternating
<1>9. Pulses(part) = Pulses(b) \o Pulses(s)
  BY <1>0, <1>3, PulsesJoin
<1>10. hits \o Pulses(s) = old \o Pulses(part)
  <2>1. Pulses(b) \in Seq(Edges \X Edges) /\ Pulses(s) \in Seq(Edges \X Edges)
    BY <1>3, PulsesType
  <2>. QED
    <3>1. (old \o Pulses(b)) \o Pulses(s) = old \o (Pulses(b) \o Pulses(s))
      <4> DEFINE P == Edges \X Edges
                 x == Pulses(b)
                 y == Pulses(s)
      <4>1. old \in Seq(P) /\ x \in Seq(P) /\ y \in Seq(P)
        BY <1>3, <2>1
      <4> HIDE DEF P, x, y
      <4>2. (old \o x) \o y = old \o (x \o y)
        BY <4>1, ConcatAssociative, SMTT(60)
      <4>. QED
        BY <4>2 DEF x, y
    <3>. QED
      BY <1>0, <1>9, <3>1, Zenon
<1>11. part \in Seq(Edges) /\ Len(part) = Len(b) + Len(s) /\ Len(b) \in Nat /\ Len(s) \in Nat
  BY <1>3, ConcatProperties, LenProperties
<1> HIDE DEF part, words
<1>12. CASE n \in E
  <2> DEFINE e == <<>>
             found == old \o Pulses(part)
  <2>1. Found(f, c, E, n) = found /\ Rest(f, c, E, n) = e
    BY <1>4, <1>12
  <2>2. e \in Seq(Edges) /\ Len(e) = 0 /\ Len(e) < 2 /\ 0 % 2 = 0 /\ e = <<>>
    BY EmptySeq
  <2>3. found \in Seq(Edges \X Edges)
    BY <1>3, <1>11, PulsesType, ConcatProperties
  <2> HIDE DEF e, found
  <2>4. Pulses(e) = <<>>
    BY <2>2, PulsesShort
  <2>5. found = found \o Pulses(e)
    BY <2>3, <2>4, ConcatEmptySeq
  <2>. QED
    BY <1>8, <1>10, <2>1, <2>2, <2>5 DEF Progress, E, found, words
<1>13. CASE n \notin E
  <2>1. m = "CONT_STORAGE"
    BY <1>5, <1>13 DEF AcquisitionModes
  <2>2. Len(s) = 2
    <3>1. Has(words, IsLeading) /\ Has(words, IsTrailing)
      <4>1. f[n].type # "Trigger" \/ c # 0
        BY <1>1, <1>13, <2>1 DEF E, EndsIn
      <4>2. Collects(m, f[n], c) /\ ((Has(words, IsLeading) /\ Has(words, IsTrailing)) \/ f[n].type = "Trigger")
        BY <2>1 DEF StopsAt, words
      <4>3. f[n].type = "Trigger" => c = 0
        BY <2>1, <4>2 DEF Collects, GetChannelId, IsEdge
      <4>. QED
        BY <4>1, <4>2, <4>3, ZenonT(60)
    <3>2. Len(s) >= 2
      BY <1>1, <1>7, <3>1, BothEdges DEF s, words
    <3> DEFINE a == Between(f, c, p, n - 1)
               z == Between(f, c, n - 1, n)
    <3>3. n - 1 \in p .. Len(f) /\ n - 1 \in 0 .. Len(f) /\ n \in n - 1 .. Len(f)
      BY <1>1
    <3>4. s = a \o z
      BY <3>3, BetweenJoin DEF s
    <3>5. a \in Seq(Edges) /\ z \in Seq(Edges)
      BY <1>1, <3>3, BetweenType
    <3>6. Len(z) < 2
      <4>1. Len(<<f[n]>>) < 2 /\ Len(<<>>) < 2
        OBVIOUS
      <4>2. z = IF f[n] \in Mine(c) THEN <<f[n]>> ELSE <<>>
        BY <1>1, BetweenOne
      <4>. QED
        BY <4>1, <4>2, Zenon
    <3> HIDE DEF z
    <3>7. Alternate(a)
      BY <1>7, <3>4, <3>5, AlternateFirst
    <3>8. Len(a) < 2
      BY <2>1, <3>3, <3>7, Unpaired
    <3> HIDE DEF a
    <3>9. Len(s) = Len(a) + Len(z) /\ Len(a) \in Nat /\ Len(z) \in Nat
      BY <3>4, <3>5, ConcatProperties, LenProperties
    <3>. QED
      BY <3>2, <3>6, <3>8, <3>9, SMTT(40)
  <2>3. Len(part) % 2 = 0
    BY <1>0, <1>11, <2>2
  <2>4. Found(f, c, E, n) = old /\ Rest(f, c, E, n) = part
    BY <1>4, <1>13
  <2>. QED
    BY <1>8, <1>10, <2>1, <2>3, <2>4 DEF Progress, E, words
<1>. QED
  BY <1>12, <1>13

(* A search that meets the end of the file.                                *)
LEMMA ProgressEnd ==
  ASSUME NEW m \in AcquisitionModes, NEW c \in Nat, NEW f \in Seq(FileWords), NEW p \in 0 .. Len(f),
         PassesBy(m, f, p, Len(f), c),
         Alternating(f, c, EndsIn(m, f, c), Len(f)), NEW hits, Progress(m, f, c, p, hits)
  PROVE  hits = Found(f, c, EndsIn(m, f, c), Len(f))
<1> DEFINE E == EndsIn(m, f, c)
           b == Rest(f, c, E, p)
           old == Found(f, c, E, p)
           n == Len(f)
<1>0. /\ hits = old \o Pulses(b) /\ Len(b) % 2 = 0 /\ (m = "TRIG_MATCH" => b = <<>>)
      /\ Alternating(f, c, E, n)
  BY DEF Progress
<1>1. n \in Nat /\ p \in Nat /\ p <= n /\ DOMAIN f = 1 .. n /\ n \in p .. Len(f) /\ n \in 0 .. Len(f)
  BY LenProperties
<1>2. ASSUME NEW i \in p + 1 .. n, m = "TRIG_MATCH" \/ i # n PROVE i \notin E
  <2>1. ~StopsAt(m, f, p, i, c)
    BY DEF PassesBy
  <2>. QED
    BY <1>2, <2>1, StopAtEnd
<1>3. b \in Seq(Edges) /\ old \in Seq(Edges \X Edges)
  BY FoundType
<1> HIDE DEF E
<1>4. b = <<>> => hits = old
  <2>1. CASE b = <<>>
    <3>1. Len(b) < 2
      BY <2>1
    <3>2. Pulses(b) = <<>>
      <4> HIDE DEF b
      <4>. QED
        BY <1>3, <3>1, PulsesShort
    <3>. QED
      BY <1>0, <1>3, <3>2, ConcatEmptySeq
  <2>. QED
    BY <2>1
<1>5. CASE m = "TRIG_MATCH"
  <2>1. Endless(E, p, n)
    BY <1>2, <1>5 DEF Endless
  <2>2. Found(f, c, E, n) = old
    BY <1>1, <2>1, NoEnds
  <2>. QED
    BY <1>0, <1>4, <1>5, <2>2 DEF E
<1>6. CASE m # "TRIG_MATCH"
  <2>0. n \in E /\ m = "CONT_STORAGE"
    BY <1>6 DEF E, EndsIn, AcquisitionModes
  <2>1. CASE p = n
    <3>1. b = <<>>
      <4>1. CASE n = 0
        BY <2>1, <4>1, FoundNone
      <4>2. CASE n # 0
        <5>1. n - 1 \in 0 .. Len(f) /\ (n - 1) + 1 = n /\ (n - 1) + 1 <= Len(f)
          BY <1>1, <4>2
        <5>2. Rest(f, c, E, (n - 1) + 1) = <<>>
          BY <2>0, <5>1, FoundNext
        <5>. QED
          BY <2>1, <5>1, <5>2
      <4>. QED
        BY <4>1, <4>2
    <3>. QED
      BY <1>4, <2>1, <3>1 DEF E
  <2>2. CASE p # n
    <3> DEFINE s == Between(f, c, p, n)
               part == b \o s
    <3>1. n \in p + 1 .. Len(f) /\ n \in 1 .. Len(f) /\ n \in 1 .. n
      <4>1. n = Len(f)
        OBVIOUS
      <4> HIDE DEF n
      <4>2. n \in Int /\ p \in Int /\ 0 <= p /\ p + 1 <= n
        BY <1>1, <2>2
      <4>. QED
        BY <4>1, <4>2
    <3>2. Endless(E, p, n - 1)
      <4> SUFFICES ASSUME NEW i \in p + 1 .. n - 1 PROVE i \notin E
        BY DEF Endless
      <4>1. i \in p + 1 .. n /\ i # n
        <5>1. p \in Int /\ n \in Int
          BY <1>1
        <5>2. i \in Int /\ p + 1 <= i /\ i <= n - 1
          BY <5>1
        <5> HIDE DEF n
        <5>. QED
          BY <5>1, <5>2
      <4>. QED
        BY <1>2, <4>1
    <3>3. /\ part = Rest(f, c, E, n - 1) \o Between(f, c, n - 1, n)
          /\ Found(f, c, E, n) = old \o Pulses(part)
      <4> HIDE DEF n
      <4> HIDE DEF b, s, old
      <4>1. /\ Rest(f, c, E, p) \o Between(f, c, p, n) = Rest(f, c, E, n - 1) \o Between(f, c, n - 1, n)
            /\ n \in E => Found(f, c, E, n) = Found(f, c, E, p) \o Pulses(Rest(f, c, E, p) \o Between(f, c, p, n))
        BY <3>1, <3>2, ToNext
      <4>. QED
        BY <2>0, <4>1 DEF b, s, old
    <3>4. Alternate(Rest(f, c, E, n - 1) \o Between(f, c, n - 1, n))
      BY <1>0, <2>0, <3>1, AlternatingBefore
    <3>5. Alternate(part)
      BY <3>3, <3>4
    <3>6. s \in Seq(Edges)
      BY <1>1, BetweenType
    <3> HIDE DEF b
    <3>7. Alternate(s)
      <4> HIDE DEF s
      <4>. QED
        BY <1>0, <1>3, <3>5, <3>6, AlternateRest
    <3>8. Len(s) < 2
      <4>1. PassesBy("CONT_STORAGE", f, p, n, c)
        BY <2>0
      <4>. QED
        BY <1>1, <3>7, <4>1, Unpaired
    <3> HIDE DEF s
    <3>9. Pulses(s) = <<>>
      BY <3>6, <3>8, PulsesShort
    <3>10. Pulses(part) = Pulses(b) \o Pulses(s)
      BY <1>0, <1>3, <3>6, PulsesJoin
    <3>11. Pulses(part) = Pulses(b)
      <4>1. Pulses(b) \in Seq(Edges \X Edges)
        BY <1>3, PulsesType
      <4>. QED
        BY <3>9, <3>10, <4>1, ConcatEmptySeq
    <3>. QED
      BY <1>0, <3>3, <3>11 DEF E, b
  <2>. QED
    BY <2>1, <2>2
<1>. QED
  BY <1>5, <1>6
-----------------------------------------------------------------------------
(* A channel that was read whole, and one that is being read.              *)
Whole(m, f, c, hits) ==
  LET E == EndsIn(m, f, c) IN Alternating(f, c, E, Len(f)) => hits = Found(f, c, E, Len(f))
Reading(m, f, c, p, hits) ==
  Alternating(f, c, EndsIn(m, f, c), Len(f)) => Progress(m, f, c, p, hits)

HitsInv ==
  /\ job.drawn \subseteq 0 .. job.ch - 1
  /\ \A c \in Channels : c > job.ch => job.hits[c] = <<>>
  /\ job.busy /\ job.ch < setup.channels /\ (job.ch = 0 \/ job.ch - 1 \in job.drawn)
       => Reading(mode, File, job.ch, job.pos, job.hits[job.ch])
  /\ \A c \in ReadWhole : Whole(mode, File, c, job.hits[c])

LEMMA PartsAre ==
  ASSUME File \in Seq(FileWords), NEW c
  PROVE  Parts(c) = PartsOf(File, c, EndsUpTo(EndsIn(mode, File, c), Len(File)))
<1> DEFINE E == EndsIn(mode, File, c)
           ends == EndsUpTo(E, Len(File))
<1>1. DOMAIN File = 1 .. Len(File) /\ Len(File) \in Nat /\ Len(File) \in 0 .. Len(File)
  BY LenProperties
<1>2. Ends(c) = E
  BY DEF Ends, EndsIn
<1>3. Parts(c) = [k \in DOMAIN ends |->
                    EdgesOf(SubSeq(File, IF k = 1 THEN 1 ELSE ends[k - 1] + 1, ends[k]), c)]
  <2>1. Only([i \in DOMAIN File |-> i], Ends(c)) = ends
    BY <1>1, <1>2 DEF EndsUpTo
  <2> HIDE DEF ends
  <2>. QED
    BY <2>1 DEF Parts
<1>4. ends \in Seq(1 .. Len(File))
  BY <1>1, FoundType
<1> HIDE DEF ends
<1>5. ASSUME NEW k \in DOMAIN ends
      PROVE  (IF k = 1 THEN 1 ELSE ends[k - 1] + 1) = (IF k = 1 THEN 0 ELSE ends[k - 1]) + 1
  BY SMT
<1>6. PartsOf(File, c, ends) = [k \in DOMAIN ends |->
         EdgesOf(SubSeq(File, (IF k = 1 THEN 0 ELSE ends[k - 1]) + 1, ends[k]), c)]
  BY Zenon DEF PartsOf, Between
<1>7. Parts(c) = PartsOf(File, c, ends)
  BY <1>3, <1>5, <1>6, Zenon
<1>. QED
  BY <1>7 DEF ends

(* HitsComplete, of the channels of a file.                                *)
LEMMA WholeHits ==
  ASSUME HitsInv, ReadWhole # {} => File \in Seq(FileWords)
  PROVE  HitsComplete
<1> SUFFICES ASSUME NEW c \in ReadWhole, \A k \in DOMAIN Parts(c) : Alternate(Parts(c)[k])
             PROVE  job.hits[c] = FlatMap(Pulses, Parts(c))
  BY DEF HitsComplete
<1> DEFINE E == EndsIn(mode, File, c)
           parts == PartsOf(File, c, EndsUpTo(E, Len(File)))
<1>1. Parts(c) = parts
  BY PartsAre
<1>2. Alternating(File, c, E, Len(File))
  BY <1>1 DEF Alternating
<1>3. job.hits[c] = Found(File, c, E, Len(File))
  BY <1>2 DEF HitsInv, Whole
<1>4. Found(File, c, E, Len(File)) = FlatMap(Pulses, parts)
  BY DEF Found
<1> HIDE DEF parts
<1>. QED
  BY <1>1, <1>3, <1>4

LEMMA InitHits ==
  ASSUME Init
  PROVE  HitsInv
<1>1. job.drawn = {} /\ ~job.busy /\ job.hits = [c \in Channels |-> <<>>]
  BY DEF Init, Idle
<1>. QED
  BY <1>1 DEF HitsInv, ReadWhole

LEMMA SameHits ==
  ASSUME FetchInv, JobInv, HitsInv, UNCHANGED <<setup, job>>,
         phase = "stopped" => files' = files /\ phase' = "stopped"
  PROVE  HitsInv'
<1>1. Channels' = Channels /\ mode' = mode /\ ReadWhole' = ReadWhole
  BY DEF Channels, mode, ReadWhole
<1>2. CASE phase = "stopped"
  <2>1. File' = File
    BY <1>2 DEF File
  <2>. QED
    BY <1>1, <2>1, Zenon DEF HitsInv, Whole, Reading
<1>3. CASE phase # "stopped"
  <2>1. ~job.busy /\ job.ch = 0
    <3>1. JobOK /\ setup.channels \in Nat
      BY Setup DEF JobInv, FetchInv, BoardInv
    <3>. QED
      BY <1>3, <3>1 DEF JobOK, Closed
  <2>2. job.drawn = {}
    BY <2>1 DEF HitsInv
  <2>3. ReadWhole = {}
    BY <2>2 DEF ReadWhole
  <2>. QED
    BY <1>1, <2>1, <2>2, <2>3 DEF HitsInv
<1>. QED
  BY <1>2, <1>3

LEMMA OpenHits ==
  ASSUME FetchInv, JobInv, JobInv', OpenFile
  PROVE  HitsInv'
<1>1. /\ UNCHANGED <<setup, phase, files>>
      /\ \/ job' = [Idle(job.file + 1) EXCEPT !.busy = TRUE]
         \/ job' = Idle(job.file + 1)
  BY DEF OpenFile, fetchVars
<1>2. /\ job'.ch = 0 /\ job'.pos = 0 /\ job'.hits = [c \in Channels |-> <<>>] /\ job'.drawn = {}
  BY <1>1 DEF Idle
<1>3. Channels' = Channels /\ mode' = mode
  BY <1>1 DEF Channels, mode
<1>4. ReadWhole' = {}
  BY <1>2 DEF ReadWhole
<1>5. ASSUME job'.busy, 0 < setup.channels PROVE Reading(mode, File', 0, 0, job'.hits[0])
  <2>1. File' \in Seq(FileWords)
    <3>1. files' \in Seq(Seq(FileWords)) /\ DOMAIN files' = 1 .. Len(files')
      BY <1>1, FilesWords, LenProperties DEF FetchInv
    <3>2. job'.file \in DOMAIN files'
      BY <1>5 DEF JobInv, JobOK, Closed
    <3>. QED
      BY <3>1, <3>2, ElementOfSeq DEF File
  <2>2. job'.hits[0] = <<>>
    <3>1. setup.channels \in Nat
      BY Setup DEF FetchInv, BoardInv
    <3>2. 0 \in Channels
      BY <1>5, <3>1 DEF Channels
    <3>. QED
      BY <1>2, <3>2
  <2>3. Progress(mode, File', 0, 0, <<>>)
    BY <2>1, ProgressStart
  <2>. QED
    BY <2>2, <2>3 DEF Reading
<1>6. \A c \in Channels : job'.hits[c] = <<>>
  BY <1>2
<1>7. setup' = setup /\ job'.drawn \subseteq 0 .. job'.ch - 1
  BY <1>1, <1>2
<1>. QED
  BY <1>2, <1>3, <1>4, <1>5, <1>6, <1>7, Zenon DEF HitsInv

LEMMA SaveHits ==
  ASSUME FetchInv, JobInv, HitsInv, SavePlots
  PROVE  HitsInv'
<1>1. UNCHANGED <<setup, phase, files>> /\ job' = [job EXCEPT !.busy = FALSE] /\ job.busy /\ job \in Jobs
  BY DEF SavePlots, fetchVars, JobInv, JobOK
<1>2. /\ ~job'.busy /\ job'.file = job.file /\ job'.ch = job.ch /\ job'.drawn = job.drawn /\ job'.hits = job.hits
  BY <1>1 DEF Jobs
<1>3. File' = File /\ Channels' = Channels /\ mode' = mode /\ ReadWhole' = ReadWhole
  BY <1>1, <1>2 DEF File, Channels, mode, ReadWhole
<1>. QED
  BY <1>2, <1>3, Zenon DEF HitsInv

LEMMA MeasureHits ==
  ASSUME FetchInv, JobInv, HitsInv, NextMeasurement
  PROVE  HitsInv'
<1>1. /\ UNCHANGED <<setup, phase, files>> /\ job.busy /\ job \in Jobs
      /\ job.ch < setup.channels
  BY DEF NextMeasurement, fetchVars, JobInv, JobOK
<1>2. PICK r : r = GetNextMeasurement(mode, files[job.file], job.pos, job.ch) /\ job' = After(r)
  BY DEF NextMeasurement
<1>3. /\ files \in Seq(Seq(FileWords)) /\ DOMAIN files = 1 .. Len(files)
      /\ setup.channels \in Nat /\ mode \in AcquisitionModes
  BY FilesWords, LenProperties, Setup DEF FetchInv, BoardInv, mode
<1>4. job.file \in DOMAIN files
  BY <1>1 DEF JobInv, JobOK, Closed
<1> DEFINE f == File
           p == job.pos
           c == job.ch
           next == c + 1
<1>5. f \in Seq(FileWords) /\ p \in 0 .. Len(f) /\ Len(f) \in Nat /\ f = files[job.file]
  BY <1>1, <1>3, <1>4, ElementOfSeq, LenProperties DEF JobInv, JobOK, File
<1>6. c \in Nat /\ c \in Channels /\ Channels = 0 .. setup.channels - 1 /\ c \in 0 .. setup.channels - 1
  BY <1>1, <1>3 DEF Jobs, Channels
<1>7. Answer(mode, c, f, p, r)
  BY <1>2, <1>5, Searched
<1>8. Channels' = Channels /\ mode' = mode /\ setup' = setup
  BY <1>1 DEF Channels, mode
<1>9. ASSUME job'.file = job.file PROVE File' = f
  BY <1>1, <1>9 DEF File
<1>10. /\ job.drawn \subseteq 0 .. c - 1
       /\ \A d \in Channels : d > c => job.hits[d] = <<>>
       /\ c = 0 \/ c - 1 \in job.drawn => Reading(mode, f, c, p, job.hits[c])
       /\ \A d \in ReadWhole : Whole(mode, f, d, job.hits[d])
  BY <1>1 DEF HitsInv
<1>11. ReadWhole \subseteq job.drawn /\ c \notin job.drawn /\ next \notin job.drawn
  BY <1>6, <1>10 DEF ReadWhole
<1> HIDE DEF f, p, c
<1>12. CASE r.result = "eof"
  <2>1. /\ job'.busy /\ job'.file = job.file /\ job'.ch = next /\ job'.pos = 0
        /\ job'.hits = job.hits /\ job'.drawn = job.drawn \cup {c}
    BY <1>1, <1>2, <1>6, <1>12, AfterJob DEF c
  <2>2. File' = f
    BY <1>9, <2>1
  <2>3. job'.drawn \subseteq 0 .. job'.ch - 1
    BY <1>6, <1>10, <2>1
  <2>4. \A d \in Channels : d > next => job'.hits[d] = <<>>
    BY <1>6, <1>10, <2>1
  <2>5. next < setup.channels => Reading(mode, f, next, 0, job'.hits[next])
    <3> SUFFICES ASSUME next < setup.channels PROVE Reading(mode, f, next, 0, job'.hits[next])
      OBVIOUS
    <3>1. next \in Channels /\ next > c
      BY <1>3, <1>6
    <3>2. job'.hits[next] = <<>>
      BY <1>10, <2>1, <3>1
    <3>3. Progress(mode, f, next, 0, <<>>)
      BY <1>5, ProgressStart
    <3>. QED
      BY <3>2, <3>3 DEF Reading
  <2>6. ASSUME NEW d \in ReadWhole' PROVE Whole(mode, f, d, job'.hits[d])
    <3>1. d \in job.drawn \cup {c} /\ (d = 0 \/ d - 1 \in job.drawn \cup {c})
      BY <2>1 DEF ReadWhole
    <3>2. CASE d = c
      <4>1. c = 0 \/ c - 1 \in job.drawn
        <5>1. c - 1 # c
          BY <1>6
        <5>. QED
          BY <3>1, <3>2, <5>1
      <4>2. Reading(mode, f, c, p, job.hits[c])
        BY <1>10, <4>1
      <4>3. PassesBy(mode, f, p, Len(f), c)
        BY <1>7, <1>12 DEF Answer
      <4>4. Alternating(f, c, EndsIn(mode, f, c), Len(f)) => job.hits[c] = Found(f, c, EndsIn(mode, f, c), Len(f))
        BY <1>3, <1>5, <1>6, <4>2, <4>3, ProgressEnd DEF Reading
      <4>. QED
        BY <2>1, <3>2, <4>4 DEF Whole
    <3>3. CASE d # c
      <4>1. d \in job.drawn
        BY <3>1, <3>3
      <4>2. d - 1 # c
        BY <1>6, <1>10, <4>1
      <4>3. d \in ReadWhole
        BY <3>1, <4>1, <4>2 DEF ReadWhole
      <4>. QED
        BY <1>10, <2>1, <4>3
    <3>. QED
      BY <3>2, <3>3
  <2> HIDE DEF next
  <2>. QED
    BY <1>8, <2>1, <2>2, <2>3, <2>4, <2>5, <2>6, Zenon DEF HitsInv
<1>13. CASE r.result = "error"
  <2>1. r.pos \in Nat
    <3>1. PICK n \in p + 1 .. Len(f) : r.pos = n
      BY <1>7, <1>13, SMTT(40) DEF Answer
    <3>. QED
      BY <1>5, <3>1
  <2>2. /\ job'.busy /\ job'.file = job.file /\ job'.ch = next /\ job'.pos = r.pos
        /\ job'.hits = job.hits /\ job'.drawn = job.drawn
    BY <1>1, <1>2, <1>6, <1>13, <2>1, AfterJob DEF c
  <2>3. File' = f /\ ReadWhole' = ReadWhole
    BY <1>9, <2>2 DEF ReadWhole
  <2>4. job'.drawn \subseteq 0 .. job'.ch - 1
    BY <1>6, <1>10, <2>2
  <2>5. \A d \in Channels : d > next => job'.hits[d] = <<>>
    BY <1>6, <1>10, <2>2
  <2>6. next # 0 /\ next - 1 \notin job'.drawn
    BY <1>6, <1>11, <2>2
  <2> HIDE DEF next
  <2>. QED
    BY <1>8, <1>10, <2>2, <2>3, <2>4, <2>5, <2>6, Zenon DEF HitsInv
<1>14. CASE r.result = "measurement"
  <2>1. PICK n \in p + 1 .. Len(f) :
          /\ PassesBy(mode, f, p, n - 1, c) /\ StopsAt(mode, f, p, n, c) /\ r.pos = n
          /\ r.hits = SetEventsCollection(Collected(mode, f, p, n, c))
    BY <1>7, <1>14 DEF Answer
  <2>2. r.pos \in Nat
    BY <1>5, <2>1
  <2>3. r.hits \in Seq(Edges \X Edges)
    <3>1. Result(mode, c, f, r)
      BY <1>3, <1>5, <1>6, <1>7, Measured, SMTT(60)
    <3>. QED
      BY <1>14, <3>1 DEF Result
  <2>4. /\ job'.busy /\ job'.file = job.file /\ job'.ch = c /\ job'.pos = r.pos
        /\ job'.drawn = job.drawn /\ job'.hits[c] = job.hits[c] \o r.hits
        /\ \A d \in Channels : d # c => job'.hits[d] = job.hits[d]
    BY <1>1, <1>2, <1>6, <1>14, <2>2, <2>3, AfterJob, ZenonT(60) DEF c
  <2>5. File' = f /\ ReadWhole' = ReadWhole
    BY <1>9, <2>4 DEF ReadWhole
  <2>6. \A d \in Channels : d > c => job'.hits[d] = <<>>
    BY <1>6, <1>10, <2>4
  <2>7. c = 0 \/ c - 1 \in job.drawn => Reading(mode, f, c, r.pos, job'.hits[c])
    <3> SUFFICES ASSUME c = 0 \/ c - 1 \in job.drawn, Alternating(f, c, EndsIn(mode, f, c), Len(f))
                 PROVE  Progress(mode, f, c, r.pos, job'.hits[c])
      BY DEF Reading
    <3>1. Progress(mode, f, c, p, job.hits[c])
      BY <1>10 DEF Reading
    <3>2. Progress(mode, f, c, n, job.hits[c] \o SetEventsCollection(Collected(mode, f, p, n, c)))
      BY <1>3, <1>5, <1>6, <2>1, <3>1, ProgressMeasured
    <3>. QED
      BY <2>1, <2>4, <3>2
  <2>8. ASSUME NEW d \in ReadWhole PROVE job'.hits[d] = job.hits[d]
    <3>1. d \in job.drawn /\ d # c
      BY <1>11
    <3>2. d \in Channels
      BY <1>1, <3>1 DEF Jobs
    <3>. QED
      BY <2>4, <3>1, <3>2
  <2>. QED
    BY <1>8, <1>10, <2>4, <2>5, <2>6, <2>7, <2>8, Zenon DEF HitsInv
<1>. QED
  BY <1>7, <1>12, <1>13, <1>14 DEF Answer

(* Every step of the readout and of the monitor.                           *)
LEMMA NextHits ==
  ASSUME FetchInv, JobInv, HitsInv, [Next]_vars
  PROVE  HitsInv'
<1>1. FetchInv' /\ JobInv' /\ setup' = setup /\ (phase = "stopped" => files' = files /\ phase' = "stopped")
  BY NextFetch, NextJob
<1>2. CASE UNCHANGED job
  BY <1>1, <1>2, SameHits
<1>3. CASE Emit \/ Fetch \/ Abort \/ MarkTrigger \/ ChangeFile \/ UNCHANGED vars
  BY <1>2, <1>3 DEF Fetch, Emit, Transfer, Collect, StopReadout, Abort, MarkTrigger, ChangeFile, vars
<1>4. CASE Monitor
  BY <1>1, <1>4, OpenHits, MeasureHits, SaveHits DEF Monitor
<1>. QED
  BY <1>3, <1>4 DEF Next

LEMMA HitsOfInv ==
  ASSUME FetchInv, JobInv, HitsInv
  PROVE  HitsComplete
<1>1. ASSUME ReadWhole # {} PROVE File \in Seq(FileWords)
  <2>1. job.drawn # {} /\ job.drawn \subseteq 0 .. job.ch - 1 /\ JobOK
    BY <1>1 DEF HitsInv, JobInv, ReadWhole
  <2>2. job.ch > 0
    BY <2>1 DEF JobOK, Jobs
  <2>3. files \in Seq(Seq(FileWords)) /\ DOMAIN files = 1 .. Len(files) /\ job.file \in DOMAIN files
    BY <2>1, <2>2, FilesWords, LenProperties DEF FetchInv, JobOK, Closed
  <2>. QED
    BY <2>3, ElementOfSeq DEF File
<1>. QED
  BY <1>1, WholeHits

(***************************************************************************)
(* Where the edges of a channel alternate, the searches of                 *)
(* GetNextMeasurement() and the pairs of SetEventsCollection() give every  *)
(* pulse of the file once and in order, whatever stops a search.           *)
(***************************************************************************)
THEOREM HitsCorrect == Spec => []HitsComplete
<1>1. Init => HitsInv
  BY InitHits
<1>2. FetchInv /\ JobInv /\ HitsInv /\ [Next]_vars => HitsInv'
  BY NextHits
<1>3. FetchInv /\ JobInv /\ HitsInv => HitsComplete
  BY HitsOfInv
<1>. QED
  BY <1>1, <1>2, <1>3, ReadoutInv, PTL DEF Spec
-----------------------------------------------------------------------------
(* scripts/DQMReader.py, word by word: the totals of ReadFile() after each *)
(* word, for the channels C.                                               *)
NoTimes(C) == [c \in C |-> 0]
Sums(C, acc) == [c \in C |-> acc.toverthreshold[c] + acc.lead[c] - acc.trail[c]]
Blank(C) ==
  [lead |-> NoTimes(C), trail |-> NoTimes(C), toverthreshold |-> NoTimes(C),
   occupancy |-> NoTimes(C), nerrors |-> 0, ntriggers |-> 0]
Tally(C, acc, w) ==
  CASE w.type = "GlobalHeader" -> [acc EXCEPT !.lead = NoTimes(C), !.trail = NoTimes(C)]
    [] w.type = "GlobalTrailer" -> [acc EXCEPT !.toverthreshold = Sums(C, acc)]
    [] IsLeading(w) -> [acc EXCEPT !.lead[w.ch] = GetTime(w)]
    [] IsTrailing(w) -> [acc EXCEPT !.trail[w.ch] = GetTime(w), !.occupancy[w.ch] = @ + 1]
    [] IsError(w) -> [acc EXCEPT !.nerrors = @ + 1]
    [] w.type = "ETTT" -> [acc EXCEPT !.ntriggers = @ + 1]
    [] OTHER -> acc
Totals(C) ==
  [lead : [C -> Int], trail : [C -> Int], toverthreshold : [C -> Int],
   occupancy : [C -> Int], nerrors : Int, ntriggers : Int]
Tallies(C) == [p \in Totals(C) \X FileWords |-> Tally(C, p[1], p[2])]

LEMMA BlankType == \A C : Blank(C) \in Totals(C)
BY DEF Blank, Totals, NoTimes

LEMMA TallyType ==
  ASSUME NEW C, NEW acc \in Totals(C), NEW w \in FileWords
  PROVE  Tally(C, acc, w) \in Totals(C)
<1> DEFINE N == [C -> Int]
           none == NoTimes(C)
           sum == Sums(C, acc)
           lead == [acc.lead EXCEPT ![w.ch] = GetTime(w)]
           trail == [acc.trail EXCEPT ![w.ch] = GetTime(w)]
           occupancy == [acc.occupancy EXCEPT ![w.ch] = @ + 1]
<1>1. Totals(C) = [lead : N, trail : N, toverthreshold : N, occupancy : N, nerrors : Int, ntriggers : Int]
  BY DEF Totals
<1>2. GetTime(w) \in Int
  BY DEF GetTime, FileWords, TDCEvents
<1>3. none \in N /\ sum \in N /\ lead \in N /\ trail \in N /\ occupancy \in N
  <2>1. /\ acc.lead \in N /\ acc.trail \in N /\ acc.toverthreshold \in N /\ acc.occupancy \in N
    BY <1>1
  <2>2. none \in N
    BY DEF NoTimes
  <2>3. sum \in N
    BY <2>1 DEF Sums
  <2> DEFINE t == GetTime(w)
  <2> HIDE DEF t
  <2>4. [acc.lead EXCEPT ![w.ch] = t] \in N /\ [acc.trail EXCEPT ![w.ch] = t] \in N
    BY <1>2, <2>1 DEF t
  <2>5. occupancy \in N
    <3> DEFINE o == acc.occupancy
               k == w.ch
    <3>1. o \in [C -> Int]
      BY <2>1
    <3> HIDE DEF o, k
    <3>2. k \in C => o[k] + 1 \in Int
      BY <3>1
    <3>3. [o EXCEPT ![k] = o[k] + 1] \in [C -> Int]
      BY <3>1, <3>2
    <3>. QED
      BY <3>3 DEF o, k
  <2>. QED
    BY <2>2, <2>3, <2>4, <2>5 DEF t
<1>4. \/ Tally(C, acc, w) = [acc EXCEPT !.lead = none, !.trail = none]
      \/ Tally(C, acc, w) = [acc EXCEPT !.toverthreshold = sum]
      \/ Tally(C, acc, w) = [acc EXCEPT !.lead = lead]
      \/ Tally(C, acc, w) = [acc EXCEPT !.trail = trail, !.occupancy = occupancy]
      \/ Tally(C, acc, w) = [acc EXCEPT !.nerrors = @ + 1]
      \/ Tally(C, acc, w) = [acc EXCEPT !.ntriggers = @ + 1]
      \/ Tally(C, acc, w) = acc
  BY <1>1 DEF Tally
<1> DEFINE t == Tally(C, acc, w)
<1> HIDE DEF N, none, sum, lead, trail, occupancy, t
<1>5. /\ acc.lead \in N /\ acc.trail \in N /\ acc.toverthreshold \in N /\ acc.occupancy \in N
      /\ acc.nerrors \in Int /\ acc.ntriggers \in Int
  BY <1>1
<1>6. CASE t = [acc EXCEPT !.lead = none, !.trail = none]
  BY <1>1, <1>3, <1>5, <1>6 DEF t
<1>7. CASE t = [acc EXCEPT !.toverthreshold = sum] \/ t = [acc EXCEPT !.lead = lead]
  BY <1>1, <1>3, <1>5, <1>7 DEF t
<1>8. CASE t = [acc EXCEPT !.trail = trail, !.occupancy = occupancy]
  BY <1>1, <1>3, <1>5, <1>8 DEF t
<1>9. CASE t = [acc EXCEPT !.nerrors = @ + 1] \/ t = [acc EXCEPT !.ntriggers = @ + 1]
  BY <1>1, <1>3, <1>5, <1>9 DEF t
<1>10. CASE t = acc
  BY <1>10 DEF t
<1>. QED
  BY <1>4, <1>6, <1>7, <1>8, <1>9, <1>10 DEF t

LEMMA ReadFileFold ==
  ASSUME NEW C, NEW s \in Seq(FileWords)
  PROVE  IsFold(Tallies(C), Blank(C), s, ReadFile(s, C))
<1> DEFINE A == Totals(C)
           G == Tallies(C)
           base == Blank(C)
           Rec(g) == [x \in SUBSET DOMAIN s |->
              IF x = {} THEN base ELSE Tally(C, g[x \ {Max(x)}], s[Max(x)])]
           h == CHOOSE g : g = Rec(g)
<1>1. base \in A
  BY BlankType
<1>2. \A a \in A, w \in FileWords : Tally(C, a, w) \in A /\ G[<<a, w>>] = Tally(C, a, w)
  <2>1. \A a \in A, w \in FileWords : Tally(C, a, w) \in A
    BY TallyType
  <2> HIDE DEF A
  <2>. QED
    BY <2>1 DEF Tallies, A
<1>3. G \in [A \X FileWords -> A]
  BY TallyType DEF Tallies
<1>4. ReadFile(s, C) = h[DOMAIN s]
  BY Zenon DEF ReadFile, Tally, Blank, NoTimes, Sums, FoldLeft, MapThenFoldSet
<1>5. \A x \in SUBSET DOMAIN s : x # {} => s[Max(x)] \in FileWords /\ x \ {Max(x)} \in SUBSET DOMAIN s
  <2>1. DOMAIN s = 1 .. Len(s) /\ Len(s) \in Nat /\ \A n \in 1 .. Len(s) : s[n] \in FileWords
    BY LenProperties, ElementOfSeq
  <2>. QED
    BY <2>1, MaxExists
<1> HIDE DEF A, G, base
<1>6. PICK g : FoldSets(A, G, base, s, DOMAIN s, g)
  BY <1>1, <1>3, FoldSetsExist
<1>7. g = Rec(g)
  <2>1. ASSUME NEW x \in SUBSET DOMAIN s
        PROVE  g[x] = IF x = {} THEN base ELSE Tally(C, g[x \ {Max(x)}], s[Max(x)])
    <3>1. x # {} => g[x \ {Max(x)}] \in A /\ s[Max(x)] \in FileWords
      BY <1>5, <1>6 DEF FoldSets
    <3>2. g[x] = IF x = {} THEN base ELSE G[<<g[x \ {Max(x)}], s[Max(x)]>>]
      BY <1>6 DEF FoldSets
    <3>. QED
      BY <1>2, <3>1, <3>2, Zenon
  <2>2. g = [x \in SUBSET DOMAIN s |-> g[x]]
    BY <1>6 DEF FoldSets
  <2> HIDE DEF h
  <2>. QED
    BY <2>1, <2>2, Zenon
<1>8. h = Rec(h)
  BY <1>7, Zenon
<1> HIDE DEF h
<1>9. \A x \in SUBSET DOMAIN s :
        h[x] = IF x = {} THEN base ELSE Tally(C, h[x \ {Max(x)}], s[Max(x)])
  BY <1>8, Zenon
<1>10. h[{}] = base
  BY <1>9
<1>11. \A x \in SUBSET DOMAIN s : x # {} =>
         (h[x \ {Max(x)}] \in A => h[x] = G[<<h[x \ {Max(x)}], s[Max(x)]>>])
  BY <1>2, <1>5, <1>9, Zenon
<1>12. IsFold(G, base, s, h[DOMAIN s])
  BY <1>1, <1>3, <1>10, <1>11, FoldOfSets, Zenon
<1>. QED
  BY <1>4, <1>12 DEF G, base

LEMMA ReadFileEmpty == \A C : ReadFile(<<>>, C) = Blank(C)
<1>1. <<>> \in Seq(FileWords)
  BY EmptySeq
<1>. QED
  BY <1>1, ReadFileFold, FoldEmpty

LEMMA ReadFileType ==
  ASSUME NEW C, NEW s \in Seq(FileWords)
  PROVE  ReadFile(s, C) \in Totals(C)
<1>1. Blank(C) \in Totals(C) /\ Tallies(C) \in [Totals(C) \X FileWords -> Totals(C)]
  BY BlankType, TallyType DEF Tallies
<1>. QED
  BY <1>1, ReadFileFold, FoldType, Zenon

LEMMA ReadFileAppend ==
  ASSUME NEW C, NEW s \in Seq(FileWords), NEW w \in FileWords
  PROVE  ReadFile(Append(s, w), C) = Tally(C, ReadFile(s, C), w)
<1>1. Append(s, w) \in Seq(FileWords)
  BY AppendProperties
<1>2. ReadFile(Append(s, w), C) = Tallies(C)[<<ReadFile(s, C), w>>]
  <2>1. /\ IsFold(Tallies(C), Blank(C), s, ReadFile(s, C))
        /\ IsFold(Tallies(C), Blank(C), Append(s, w), ReadFile(Append(s, w), C))
    BY <1>1, ReadFileFold
  <2>. QED
    BY <2>1, FoldAppend, Zenon
<1> DEFINE r == ReadFile(s, C)
           A == Totals(C)
<1>3. r \in A
  BY ReadFileType
<1> HIDE DEF r, A
<1>4. Tallies(C)[<<r, w>>] = Tally(C, r, w)
  BY <1>3 DEF Tallies, A
<1>. QED
  BY <1>2, <1>4 DEF r
-----------------------------------------------------------------------------
(* The sum of the widths of hits.                                          *)
AddWidth(acc, h) == acc + GetTime(h[2]) - GetTime(h[1])
AddWidths == [p \in Int \X (Edges \X Edges) |-> AddWidth(p[1], p[2])]

LEMMA AddWidthType ==
  ASSUME NEW acc \in Int, NEW h \in Edges \X Edges
  PROVE  AddWidth(acc, h) \in Int
<1>1. h[1] \in Edges /\ h[2] \in Edges
  OBVIOUS
<1>2. GetTime(h[1]) \in Int /\ GetTime(h[2]) \in Int
  BY <1>1 DEF GetTime, Edges, FileWords, TDCEvents
<1>. QED
  BY <1>2 DEF AddWidth

LEMMA SumWidthsFold ==
  ASSUME NEW s \in Seq(Edges \X Edges)
  PROVE  IsFold(AddWidths, 0, s, SumWidths(s))
<1> DEFINE A == Int
           W == Edges \X Edges
           G == AddWidths
           Rec(g) == [x \in SUBSET DOMAIN s |->
              IF x = {} THEN 0 ELSE AddWidth(g[x \ {Max(x)}], s[Max(x)])]
           h == CHOOSE g : g = Rec(g)
<1>1. 0 \in A
  OBVIOUS
<1>2. \A a \in A, w \in W : AddWidth(a, w) \in A /\ G[<<a, w>>] = AddWidth(a, w)
  <2>1. \A a \in A, w \in W : AddWidth(a, w) \in A
    BY AddWidthType
  <2> HIDE DEF W
  <2>. QED
    BY <2>1 DEF AddWidths, W
<1>3. G \in [A \X W -> A]
  BY AddWidthType DEF AddWidths
<1>4. SumWidths(s) = h[DOMAIN s]
  BY Zenon DEF SumWidths, AddWidth, FoldLeft, MapThenFoldSet
<1>5. \A x \in SUBSET DOMAIN s : x # {} => s[Max(x)] \in W /\ x \ {Max(x)} \in SUBSET DOMAIN s
  <2>1. s \in Seq(W)
    OBVIOUS
  <2> HIDE DEF W
  <2>2. DOMAIN s = 1 .. Len(s) /\ Len(s) \in Nat /\ \A n \in 1 .. Len(s) : s[n] \in W
    BY <2>1, LenProperties, ElementOfSeq
  <2>. QED
    BY <2>2, MaxExists
<1>6. s \in Seq(W)
  OBVIOUS
<1> HIDE DEF A, G, W
<1>7. PICK g : FoldSets(A, G, 0, s, DOMAIN s, g)
  BY <1>1, <1>3, <1>6, FoldSetsExist
<1>8. g = Rec(g)
  <2>1. ASSUME NEW x \in SUBSET DOMAIN s
        PROVE  g[x] = IF x = {} THEN 0 ELSE AddWidth(g[x \ {Max(x)}], s[Max(x)])
    <3>1. x # {} => g[x \ {Max(x)}] \in A /\ s[Max(x)] \in W
      BY <1>5, <1>7 DEF FoldSets
    <3>2. g[x] = IF x = {} THEN 0 ELSE G[<<g[x \ {Max(x)}], s[Max(x)]>>]
      BY <1>7 DEF FoldSets
    <3>. QED
      BY <1>2, <3>1, <3>2, Zenon
  <2>2. g = [x \in SUBSET DOMAIN s |-> g[x]]
    BY <1>7 DEF FoldSets
  <2> HIDE DEF h
  <2>. QED
    BY <2>1, <2>2, Zenon
<1>9. h = Rec(h)
  BY <1>8, Zenon
<1> HIDE DEF h
<1>10. \A x \in SUBSET DOMAIN s :
        h[x] = IF x = {} THEN 0 ELSE AddWidth(h[x \ {Max(x)}], s[Max(x)])
  BY <1>9, Zenon
<1>11. h[{}] = 0
  BY <1>10
<1>12. \A x \in SUBSET DOMAIN s : x # {} =>
         (h[x \ {Max(x)}] \in A => h[x] = G[<<h[x \ {Max(x)}], s[Max(x)]>>])
  BY <1>2, <1>5, <1>10, Zenon
<1>13. IsFold(G, 0, s, h[DOMAIN s])
  BY <1>1, <1>3, <1>6, <1>11, <1>12, FoldOfSets, Zenon
<1>. QED
  BY <1>4, <1>13 DEF G

LEMMA SumWidthsAppend ==
  ASSUME NEW s \in Seq(Edges \X Edges), NEW h \in Edges \X Edges
  PROVE  SumWidths(s) \in Int /\ SumWidths(Append(s, h)) = AddWidth(SumWidths(s), h)
<1> DEFINE W == Edges \X Edges
<1>1. s \in Seq(W) /\ h \in W /\ \A t \in Seq(W) : IsFold(AddWidths, 0, t, SumWidths(t))
  BY SumWidthsFold
<1>2. AddWidths \in [Int \X W -> Int] /\ \A a \in Int, w \in W : AddWidths[<<a, w>>] = AddWidth(a, w)
  <2>1. \A a \in Int, w \in W : AddWidth(a, w) \in Int
    BY AddWidthType
  <2> HIDE DEF W
  <2>. QED
    BY <2>1 DEF AddWidths, W
<1> HIDE DEF W
<1>3. Append(s, h) \in Seq(W)
  BY <1>1, AppendProperties
<1>4. SumWidths(s) \in Int
  <2>1. 0 \in Int
    OBVIOUS
  <2>. QED
    BY <1>1, <1>2, <2>1, FoldType, Zenon
<1>5. SumWidths(Append(s, h)) = AddWidths[<<SumWidths(s), h>>]
  BY <1>1, <1>3, FoldAppend, Zenon
<1>. QED
  BY <1>1, <1>2, <1>4, <1>5

LEMMA SumWidthsEmpty == SumWidths(<<>>) = 0
<1>1. <<>> \in Seq(Edges \X Edges)
  BY EmptySeq
<1>. QED
  BY <1>1, SumWidthsFold, FoldEmpty
-----------------------------------------------------------------------------
(* Events one after the other: a trailer before each header, and a header  *)
(* after each trailer.                                                     *)
Framed(s) ==
  \A i \in 1 .. Len(s) - 1 : s[i].type = "GlobalTrailer" <=> s[i + 1].type = "GlobalHeader"

LEMMA FramedCut ==
  ASSUME NEW W, NEW a \in Seq(W), NEW b \in Seq(W), Framed(a \o b)
  PROVE  Framed(a) /\ Framed(b)
<1> DEFINE s == a \o b
<1>1. /\ Len(a) \in Nat /\ Len(b) \in Nat /\ Len(s) = Len(a) + Len(b)
      /\ \A i \in 1 .. Len(a) + Len(b) : s[i] = IF i <= Len(a) THEN a[i] ELSE b[i - Len(a)]
  BY LenProperties, ConcatProperties
<1>2. Framed(s)
  OBVIOUS
<1> HIDE DEF s
<1>3. ASSUME NEW i \in 1 .. Len(a) - 1 PROVE a[i].type = "GlobalTrailer" <=> a[i + 1].type = "GlobalHeader"
  <2>1. i \in 1 .. Len(s) - 1 /\ i \in 1 .. Len(a) + Len(b) /\ i + 1 \in 1 .. Len(a) + Len(b)
        /\ i <= Len(a) /\ i + 1 <= Len(a)
    BY <1>1, <1>3
  <2>2. s[i] = a[i] /\ s[i + 1] = a[i + 1]
    BY <1>1, <2>1
  <2>. QED
    BY <1>2, <2>1, <2>2 DEF Framed
<1>4. ASSUME NEW i \in 1 .. Len(b) - 1 PROVE b[i].type = "GlobalTrailer" <=> b[i + 1].type = "GlobalHeader"
  <2> DEFINE k == Len(a) + i
  <2>1. k \in 1 .. Len(s) - 1 /\ k \in 1 .. Len(a) + Len(b) /\ k + 1 \in 1 .. Len(a) + Len(b)
        /\ ~(k <= Len(a)) /\ ~(k + 1 <= Len(a)) /\ k - Len(a) = i /\ (k + 1) - Len(a) = i + 1
    BY <1>1, <1>4
  <2> HIDE DEF k
  <2>2. s[k] = b[i] /\ s[k + 1] = b[i + 1]
    BY <1>1, <2>1
  <2>. QED
    BY <1>2, <2>1, <2>2 DEF Framed
<1>. QED
  BY <1>3, <1>4 DEF Framed

LEMMA FramedJoin ==
  ASSUME NEW W, NEW a \in Seq(W), NEW b \in Seq(W), Framed(a), Framed(b), b # <<>>,
         b[1].type = "GlobalHeader", a # <<>> => a[Len(a)].type = "GlobalTrailer"
  PROVE  Framed(a \o b)
<1> DEFINE s == a \o b
<1>1. /\ Len(a) \in Nat /\ Len(b) \in Nat /\ Len(s) = Len(a) + Len(b)
      /\ \A i \in 1 .. Len(a) + Len(b) : s[i] = IF i <= Len(a) THEN a[i] ELSE b[i - Len(a)]
  BY LenProperties, ConcatProperties
<1> HIDE DEF s
<1> SUFFICES ASSUME NEW i \in 1 .. Len(s) - 1
             PROVE  s[i].type = "GlobalTrailer" <=> s[i + 1].type = "GlobalHeader"
  BY DEF Framed, s
<1>2. i \in Nat /\ i >= 1 /\ i \in 1 .. Len(a) + Len(b) /\ i + 1 \in 1 .. Len(a) + Len(b)
  BY <1>1
<1>3. CASE i < Len(a)
  <2>1. i \in 1 .. Len(a) - 1 /\ s[i] = a[i] /\ s[i + 1] = a[i + 1]
    BY <1>1, <1>2, <1>3
  <2>. QED
    BY <2>1 DEF Framed
<1>4. CASE i = Len(a)
  <2>1. s[i] = a[Len(a)] /\ s[i + 1] = b[1] /\ a # <<>>
    BY <1>1, <1>2, <1>4
  <2>. QED
    BY <2>1
<1>5. CASE i > Len(a)
  <2> DEFINE k == i - Len(a)
  <2>1. k \in 1 .. Len(b) - 1 /\ s[i] = b[k] /\ (i + 1) - Len(a) = k + 1 /\ s[i + 1] = b[(i + 1) - Len(a)]
    BY <1>1, <1>2, <1>5
  <2> HIDE DEF k
  <2>. QED
    BY <2>1 DEF Framed
<1>. QED
  BY <1>1, <1>2, <1>3, <1>4, <1>5

LEMMA FramedPrefix ==
  ASSUME NEW W, NEW s \in Seq(W), NEW n \in 0 .. Len(s), Framed(s)
  PROVE  Framed(SubSeq(s, 1, n)) /\ SubSeq(s, 1, n) \in Seq(W)
<1>1. /\ Len(s) \in Nat /\ n \in Nat /\ n <= Len(s) /\ 0 \in 0 .. Len(s) /\ n \in 0 .. Len(s) /\ 0 + 1 = 1
      /\ n - 0 = n
  BY LenProperties
<1>2. /\ SubSeq(s, 0 + 1, n) \in Seq(W) /\ Len(SubSeq(s, 0 + 1, n)) = n - 0
      /\ \A i \in 1 .. n - 0 : SubSeq(s, 0 + 1, n)[i] = s[0 + i]
  BY <1>1, Cut
<1> DEFINE t == SubSeq(s, 1, n)
<1>3. t \in Seq(W) /\ Len(t) = n /\ \A i \in 1 .. n : t[i] = s[i]
  BY <1>1, <1>2
<1> HIDE DEF t
<1>4. Framed(t)
  BY <1>1, <1>3 DEF Framed
<1>. QED
  BY <1>3, <1>4 DEF t

(* Concatenation is associative on a set of sequences.                     *)
Associative(A) == \A a \in A, b \in A, c \in A : (a \o b) \o c = a \o (b \o c)

LEMMA JoinAssociative == \A W : Associative(Seq(W))
<1> SUFFICES ASSUME NEW W, NEW a \in Seq(W), NEW b \in Seq(W), NEW c \in Seq(W)
             PROVE  (a \o b) \o c = a \o (b \o c)
  BY DEF Associative
<1>. QED
  BY ConcatAssociative, SMTT(40)

(* A file is a piece of what all the files hold.                           *)
LEMMA FilePiece ==
  ASSUME NEW W, NEW fs \in Seq(Seq(W)), NEW n \in 1 .. Len(fs)
  PROVE  \E a, b \in Seq(W) : FlattenSeq(fs) = a \o (fs[n] \o b)
<1> DEFINE A == Seq(W)
           S == {t \in Seq(A) : \A i \in 1 .. Len(t) : \E a, b \in A : FlattenSeq(t) = a \o (t[i] \o b)}
<1>1. <<>> \in S
  BY EmptySeq
<1>2. ASSUME NEW t \in S, NEW s \in A PROVE Append(t, s) \in S
  <2>1. /\ Append(t, s) \in Seq(A) /\ Len(Append(t, s)) = Len(t) + 1 /\ Append(t, s)[Len(t) + 1] = s
        /\ Len(t) \in Nat /\ \A i \in 1 .. Len(t) : Append(t, s)[i] = t[i]
    <3> HIDE DEF A
    <3>. QED
      BY AppendProperties, LenProperties
  <2>2. FlattenSeq(Append(t, s)) = FlattenSeq(t) \o s /\ FlattenSeq(t) \in A
    BY FlattenAppend, FlattenType
  <2>3. <<>> \in A /\ \A x, y \in A : x \o y \in A
    BY EmptySeq, ConcatProperties
  <2>4. ASSUME NEW i \in 1 .. Len(t) + 1
        PROVE  \E a, b \in A : FlattenSeq(Append(t, s)) = a \o (Append(t, s)[i] \o b)
    <3>1. CASE i = Len(t) + 1
      <4>1. FlattenSeq(t) \o s = FlattenSeq(t) \o (s \o <<>>)
        BY ConcatEmptySeq
      <4> HIDE DEF A
      <4>. QED
        BY <2>1, <2>2, <2>3, <3>1, <4>1
    <3>2. CASE i # Len(t) + 1
      <4>1. i \in 1 .. Len(t)
        BY <2>1, <3>2
      <4>2. PICK a \in A, b \in A : FlattenSeq(t) = a \o (t[i] \o b)
        BY <4>1
      <4>3. t[i] \in A
        BY <4>1, ElementOfSeq
      <4>4. (a \o (t[i] \o b)) \o s = a \o (t[i] \o (b \o s))
        <5> DEFINE x == t[i]
                   y == x \o b
        <5>1. x \in A /\ y \in A /\ Associative(A)
          BY <2>3, <4>3, JoinAssociative
        <5> HIDE DEF A, x, y
        <5>2. (a \o y) \o s = a \o (y \o s)
          BY <5>1, ZenonT(60) DEF Associative
        <5>3. (x \o b) \o s = x \o (b \o s)
          BY <5>1, ZenonT(60) DEF Associative
        <5>. QED
          BY <5>2, <5>3, Zenon DEF x, y
      <4>5. b \o s \in A
        BY <2>3
      <4> HIDE DEF A
      <4>. QED
        BY <2>1, <2>2, <4>1, <4>2, <4>4, <4>5
    <3>. QED
      BY <3>1, <3>2
  <2>. QED
    BY <2>1, <2>4
<1>3. S = Seq(A)
  <2>1. S \in SUBSET Seq(A)
    OBVIOUS
  <2> HIDE DEF S, A
  <2>. QED
    BY <1>1, <1>2, <2>1, SeqSets
<1>. QED
  BY <1>3
-----------------------------------------------------------------------------
(* A board in trigger matching gives whole events, of which the last one   *)
(* may be cut when it is stopped.                                          *)
FrameInv ==
  mode = "TRIG_MATCH" =>
    /\ Framed(emitted)
    /\ phase # "stopped" /\ emitted # <<>> => emitted[Len(emitted)].type = "GlobalTrailer"

LEMMA EmittedFramed ==
  ASSUME BoardOK, mode = "TRIG_MATCH", NEW n \in Nat, NEW contents \in [1 .. n -> Kinds]
  PROVE  /\ Emitted(contents) \in Seq(TDCEvents) /\ Len(Emitted(contents)) = n + 2
         /\ Emitted(contents)[1].type = "GlobalHeader"
         /\ Emitted(contents)[n + 2].type = "GlobalTrailer"
         /\ Framed(Emitted(contents))
<1> DEFINE next == Len(emitted) + 1
           words(first) == [i \in 1 .. n |-> WordOf(contents[i], first + i - 1)]
           a == RawWord("GlobalHeader", next)
           b == words(next + 1)
           c == RawWord("GlobalTrailer", next + n + 1)
<1>1. Len(emitted) \in Nat /\ setup.channels \in Nat /\ Len(contents) = n
  BY Setup
<1>2. Emitted(contents) = <<a>> \o b \o <<c>>
  BY <1>1 DEF Emitted
<1>3. a \in TDCEvents /\ c \in TDCEvents /\ a.type = "GlobalHeader" /\ c.type = "GlobalTrailer"
  <2>1. next \in Nat /\ next + n + 1 \in Nat
    BY <1>1
  <2>. QED
    BY <2>1, RawGiven, GivenType DEF RawWord, Word
<1>4. b \in Seq(TDCEvents) /\ Len(b) = n /\ \A i \in 1 .. n : b[i].type \in {"TDCMeasurement", "TDCError"}
  <2>1. ASSUME NEW i \in 1 .. n
        PROVE  LET w == WordOf(contents[i], (next + 1) + i - 1) IN
               w \in TDCEvents /\ w.type \in {"TDCMeasurement", "TDCError"}
    <3>1. (next + 1) + i - 1 \in Nat /\ contents[i] \in Kinds
      BY <1>1
    <3>2. WordOf(contents[i], (next + 1) + i - 1) \in TDCEvents
      BY <1>1, <3>1, WordGiven, GivenType
    <3>. QED
      BY <3>2 DEF WordOf, Edge, RawWord, Word
  <2>. QED
    BY <2>1
<1> HIDE DEF a, b, c
<1> DEFINE d == <<a>> \o b
           s == d \o <<c>>
<1>5. /\ d \in Seq(TDCEvents) /\ Len(d) = n + 1
      /\ \A i \in 1 .. n + 1 : d[i] = IF i <= 1 THEN <<a>>[i] ELSE b[i - 1]
  <2>1. <<a>> \in Seq(TDCEvents) /\ Len(<<a>>) = 1
    BY <1>3
  <2>. QED
    BY <1>4, <2>1, ConcatProperties
<1> HIDE DEF d
<1>6. /\ s \in Seq(TDCEvents) /\ Len(s) = n + 2
      /\ \A i \in 1 .. n + 2 : s[i] = IF i <= n + 1 THEN d[i] ELSE <<c>>[i - (n + 1)]
  <2>1. <<c>> \in Seq(TDCEvents) /\ Len(<<c>>) = 1
    BY <1>3
  <2>. QED
    BY <1>5, <2>1, ConcatProperties
<1> HIDE DEF s
<1>7. s[1].type = "GlobalHeader" /\ s[n + 2].type = "GlobalTrailer"
  <2>1. s[1] = d[1] /\ d[1] = <<a>>[1] /\ <<a>>[1] = a
    BY <1>5, <1>6
  <2>2. s[n + 2] = <<c>>[(n + 2) - (n + 1)] /\ (n + 2) - (n + 1) = 1 /\ <<c>>[1] = c
    BY <1>6
  <2>. QED
    BY <1>3, <2>1, <2>2
<1>8. ASSUME NEW i \in 2 .. n + 1 PROVE s[i].type \in {"TDCMeasurement", "TDCError"}
  <2>1. s[i] = b[i - 1] /\ i - 1 \in 1 .. n
    BY <1>5, <1>6
  <2>. QED
    BY <1>4, <2>1
<1>9. Framed(s)
  <2> SUFFICES ASSUME NEW i \in 1 .. Len(s) - 1
               PROVE  s[i].type # "GlobalTrailer" /\ s[i + 1].type # "GlobalHeader"
    BY DEF Framed
  <2>1. (i = 1 \/ i \in 2 .. n + 1) /\ (i + 1 = n + 2 \/ i + 1 \in 2 .. n + 1)
    BY <1>6
  <2>. QED
    BY <1>7, <1>8, <2>1
<1>. QED
  BY <1>2, <1>6, <1>7, <1>9 DEF s, d

LEMMA InitFrame ==
  ASSUME Init
  PROVE  FrameInv
<1>1. emitted = <<>> /\ Len(<<>>) = 0
  BY DEF Init
<1>. QED
  BY <1>1 DEF FrameInv, Framed

LEMMA EmitFrame ==
  ASSUME BoardOK, FrameInv, Emit
  PROVE  FrameInv'
<1>1. phase = "idle" /\ UNCHANGED <<setup, phase>>
  BY DEF Emit, Phase, fetchVars
<1>0. PICK n \in 0 .. MaxBurst :
        \E contents \in [1 .. n -> Kinds] : emitted' = emitted \o Emitted(contents)
  BY Zenon DEF Emit
<1>2. PICK contents \in [1 .. n -> Kinds] : emitted' = emitted \o Emitted(contents)
  BY <1>0
<1>3. mode' = mode /\ n \in Nat
  BY <1>1, BoundsAssumption DEF mode
<1> SUFFICES ASSUME mode = "TRIG_MATCH"
             PROVE  Framed(emitted') /\ emitted'[Len(emitted')].type = "GlobalTrailer"
  BY <1>1, <1>3 DEF FrameInv
<1> DEFINE new == Emitted(contents)
<1>4. /\ new \in Seq(TDCEvents) /\ Len(new) = n + 2 /\ Framed(new)
      /\ new[1].type = "GlobalHeader" /\ new[n + 2].type = "GlobalTrailer"
  BY <1>3, EmittedFramed
<1>5. emitted \in Seq(TDCEvents) /\ Len(emitted) \in Nat
  BY LenProperties DEF BoardOK
<1>6. Framed(emitted) /\ (emitted # <<>> => emitted[Len(emitted)].type = "GlobalTrailer")
  BY <1>1 DEF FrameInv
<1> HIDE DEF new
<1>7. new # <<>>
  BY <1>3, <1>4
<1>8. Framed(emitted \o new)
  BY <1>4, <1>5, <1>6, <1>7, FramedJoin
<1>9. /\ Len(emitted \o new) = Len(emitted) + (n + 2)
      /\ (emitted \o new)[Len(emitted) + (n + 2)] = new[n + 2]
  <2>1. /\ Len(emitted \o new) = Len(emitted) + Len(new)
        /\ \A i \in 1 .. Len(emitted) + Len(new) :
              (emitted \o new)[i] = IF i <= Len(emitted) THEN emitted[i] ELSE new[i - Len(emitted)]
    BY <1>4, <1>5, ConcatProperties
  <2>2. Len(emitted) + (n + 2) \in 1 .. Len(emitted) + Len(new) /\ ~(Len(emitted) + (n + 2) <= Len(emitted))
        /\ (Len(emitted) + (n + 2)) - Len(emitted) = n + 2
    BY <1>3, <1>4, <1>5
  <2>. QED
    BY <1>4, <2>1, <2>2
<1>. QED
  BY <1>2, <1>4, <1>8, <1>9 DEF new

LEMMA StopFrame ==
  ASSUME BoardOK, TransferOK, FrameInv, Stop, UNCHANGED setup
  PROVE  FrameInv'
<1>1. phase' = "stopped" /\ emitted' = SubSeq(emitted, 1, taken - pending) /\ mode' = mode
  BY DEF Stop, mode
<1>2. emitted \in Seq(TDCEvents) /\ taken - pending \in 0 .. Len(emitted)
  BY BoundsAssumption, LenProperties DEF BoardOK, TransferOK
<1>3. Framed(emitted) => Framed(emitted')
  BY <1>1, <1>2, FramedPrefix
<1>. QED
  BY <1>1, <1>3 DEF FrameInv

LEMMA NextFrame ==
  ASSUME FetchInv, FrameInv, [Next]_vars
  PROVE  FrameInv'
<1>1. BoardOK /\ TransferOK
  BY DEF FetchInv, BoardInv
<1>2. CASE Emit
  BY <1>1, <1>2, EmitFrame
<1>3. CASE Stop /\ UNCHANGED setup
  BY <1>1, <1>3, StopFrame
<1>4. CASE UNCHANGED <<setup, emitted>> /\ (phase = "stopped" => phase' = "stopped")
  BY <1>4 DEF FrameInv, mode
<1>5. CASE Fetch
  BY <1>3, <1>4, <1>5 DEF Fetch, Transfer, Collect, StopReadout, Phase
<1>6. CASE Abort \/ MarkTrigger \/ ChangeFile \/ UNCHANGED vars
  BY <1>4, <1>6 DEF Abort, MarkTrigger, ChangeFile, Phase, fetchVars, vars
<1>7. CASE Monitor
  BY <1>4, <1>7 DEF Monitor, OpenFile, NextMeasurement, SavePlots, fetchVars
<1>. QED
  BY <1>2, <1>5, <1>6, <1>7 DEF Next

LEMMA FilesFramed ==
  ASSUME FetchInv, FrameInv, mode = "TRIG_MATCH", NEW n \in DOMAIN files
  PROVE  Framed(Only(files[n], NotTrigger))
<1>1. /\ files \in Seq(Seq(FileWords)) /\ n \in 1 .. Len(files)
      /\ Stored = Only(FlattenSeq(files), NotTrigger)
  BY FilesWords, LenProperties DEF FetchInv
<1>2. Stored = SubSeq(emitted, 1, taken - pending)
  BY DEF FetchInv, Recorded, Fetched
<1>3. emitted \in Seq(TDCEvents) /\ taken - pending \in 0 .. Len(emitted)
  BY BoundsAssumption, LenProperties DEF FetchInv, BoardInv, BoardOK, TransferOK
<1>4. Framed(Stored)
  BY <1>2, <1>3, FramedPrefix DEF FrameInv
<1>5. PICK a \in Seq(FileWords), b \in Seq(FileWords) : FlattenSeq(files) = a \o (files[n] \o b)
  BY <1>1, FilePiece
<1> DEFINE f == files[n]
           S == NotTrigger
<1>6. f \in Seq(FileWords)
  BY <1>1, ElementOfSeq
<1> HIDE DEF f, S
<1>7. f \o b \in Seq(FileWords)
  BY <1>6, ConcatProperties
<1>8. Only(a \o (f \o b), S) = Only(a, S) \o Only(f \o b, S)
  BY <1>7, OnlyConcat
<1>9. Only(f \o b, S) = Only(f, S) \o Only(b, S)
  BY <1>6, OnlyConcat
<1>10. Framed(Only(a, S) \o (Only(f, S) \o Only(b, S)))
  BY <1>1, <1>4, <1>5, <1>8, <1>9 DEF f, S
<1> DEFINE x == Only(a, S)
           y == Only(f, S)
           z == Only(b, S)
<1>11. x \in Seq(FileWords) /\ y \in Seq(FileWords) /\ z \in Seq(FileWords)
  BY <1>6, OnlyType
<1> HIDE DEF x, y, z
<1>12. y \o z \in Seq(FileWords)
  BY <1>11, ConcatProperties
<1>13. Framed(y \o z)
  BY <1>10, <1>11, <1>12, FramedCut DEF x, y, z
<1>14. Framed(y)
  BY <1>11, <1>13, FramedCut
<1>. QED
  BY <1>14 DEF y, f, S
-----------------------------------------------------------------------------
(* Every edge of a channel so far is in a part or after the last end.      *)
LEMMA EdgesInParts ==
  ASSUME NEW f \in Seq(FileWords), NEW c, NEW E, NEW n \in 0 .. Len(f)
  PROVE  Between(f, c, 0, n) = FlattenSeq(PartsOf(f, c, EndsUpTo(E, n))) \o Rest(f, c, E, n)
<1> DEFINE parts(k) == PartsOf(f, c, EndsUpTo(E, k))
           rest(k) == Rest(f, c, E, k)
           P(k) == Between(f, c, 0, k) = FlattenSeq(parts(k)) \o rest(k)
           S == {k \in Nat : k <= Len(f) => P(k)}
<1>0. Len(f) \in Nat /\ 0 \in 0 .. Len(f)
  BY LenProperties
<1>1. 0 \in S
  <2>1. Between(f, c, 0, 0) = <<>> /\ rest(0) = <<>> /\ EndsUpTo(E, 0) = <<>>
    BY <1>0, BetweenNone, FoundNone, EndsNone
  <2>2. PartsOf(f, c, <<>>) = <<>>
    BY DEF PartsOf
  <2>3. FlattenSeq(<<>>) = <<>> /\ <<>> \o <<>> = <<>>
    BY DEF FlattenSeq
  <2>4. P(0)
    BY <2>1, <2>2, <2>3
  <2> HIDE DEF P
  <2>. QED
    BY <2>4
<1>2. ASSUME NEW k \in S PROVE k + 1 \in S
  <2>1. k \in Nat /\ (k <= Len(f) => P(k))
    OBVIOUS
  <2> SUFFICES ASSUME k + 1 <= Len(f) PROVE P(k + 1)
    BY <2>1
  <2>2. k \in 0 .. Len(f) /\ k + 1 \in k .. Len(f) /\ k \in 0 .. Len(f) /\ k + 1 \in 0 .. Len(f) /\ P(k)
    BY <1>0, <2>1
  <2> DEFINE one == Between(f, c, k, k + 1)
             b == rest(k)
             x == FlattenSeq(parts(k))
             part == b \o one
  <2>3. Between(f, c, 0, k + 1) = Between(f, c, 0, k) \o one
    BY <1>0, <2>2, BetweenJoin
  <2>4. /\ parts(k) \in Seq(Seq(Edges)) /\ b \in Seq(Edges) /\ x \in Seq(Edges)
    BY <2>2, FoundType, FlattenType
  <2>5. one \in Seq(Edges) /\ part \in Seq(Edges)
    BY <2>2, FoundNext, BetweenType
  <2>6. (x \o b) \o one = x \o part
    <3> DEFINE A == Seq(Edges)
    <3>1. x \in A /\ b \in A /\ one \in A /\ Associative(A)
      BY <2>4, <2>5, JoinAssociative
    <3> HIDE DEF A, x, b, one
    <3>. QED
      BY <3>1, ZenonT(60) DEF Associative
  <2>7. CASE k + 1 \in E
    <3>1. parts(k + 1) = Append(parts(k), part) /\ rest(k + 1) = <<>>
      BY <2>2, <2>7, FoundNext
    <3>2. FlattenSeq(Append(parts(k), part)) = x \o part
      <4> HIDE DEF part, parts
      <4>. QED
        BY <2>4, <2>5, FlattenAppend
    <3>3. (x \o part) \in Seq(Edges) /\ (x \o part) \o <<>> = x \o part
      <4> HIDE DEF x, part
      <4>. QED
        BY <2>4, <2>5, ConcatProperties, ConcatEmptySeq
    <3> HIDE DEF parts, rest, x, part, b, one
    <3>. QED
      BY <2>2, <2>3, <2>6, <3>1, <3>2, <3>3 DEF x, b
  <2>8. CASE k + 1 \notin E
    <3>1. parts(k + 1) = parts(k) /\ rest(k + 1) = part
      BY <2>2, <2>8, FoundNext
    <3> HIDE DEF parts, rest, part, one
    <3>. QED
      BY <2>2, <2>3, <2>6, <3>1 DEF x, b
  <2>. QED
    BY <2>7, <2>8
<1>3. S = Nat
  <2>1. S \in SUBSET Nat
    OBVIOUS
  <2> HIDE DEF S
  <2>. QED
    BY <1>1, <1>2, <2>1, NatSets
<1>4. n \in S /\ n <= Len(f)
  <2> HIDE DEF S
  <2>. QED
    BY <1>0, <1>3
<1>. QED
  BY <1>4

LEMMA NothingLeft ==
  ASSUME NEW f \in Seq(FileWords), NEW c, NEW E,
         FlattenSeq(PartsOf(f, c, EndsUpTo(E, Len(f)))) = EdgesOf(f, c)
  PROVE  Rest(f, c, E, Len(f)) = <<>>
<1> DEFINE x == FlattenSeq(PartsOf(f, c, EndsUpTo(E, Len(f))))
           b == Rest(f, c, E, Len(f))
<1>1. Len(f) \in 0 .. Len(f)
  BY LenProperties
<1>2. Between(f, c, 0, Len(f)) = x \o b
  BY <1>1, EdgesInParts
<1>3. SubSeq(f, 0 + 1, Len(f)) = f
  BY <1>1, SubSeqFull
<1>4. Between(f, c, 0, Len(f)) = x
  BY <1>3 DEF Between
<1>5. x \in Seq(Edges) /\ b \in Seq(Edges)
  BY <1>1, FoundType, FlattenType
<1> HIDE DEF x, b
<1>6. Len(x) = Len(x) + Len(b) /\ Len(x) \in Nat /\ Len(b) \in Nat
  BY <1>2, <1>4, <1>5, ConcatProperties, LenProperties
<1>7. Len(b) = 0
  BY <1>6
<1>. QED
  BY <1>5, <1>7, EmptySeq DEF b
-----------------------------------------------------------------------------
(* Each part holds one pulse at most.                                      *)
OnePulse(s) == Alternate(s) /\ Len(s) \in {0, 2}
OnePulses(f, c, E, n) ==
  \A k \in DOMAIN PartsOf(f, c, EndsUpTo(E, n)) : OnePulse(PartsOf(f, c, EndsUpTo(E, n))[k])

LEMMA OnePulsesNext ==
  ASSUME NEW f \in Seq(FileWords), NEW c, NEW E, NEW n \in 0 .. Len(f), n + 1 <= Len(f),
         OnePulses(f, c, E, n + 1)
  PROVE  /\ OnePulses(f, c, E, n)
         /\ n + 1 \in E => OnePulse(Rest(f, c, E, n) \o Between(f, c, n, n + 1))
<1> DEFINE part == Rest(f, c, E, n) \o Between(f, c, n, n + 1)
           old == PartsOf(f, c, EndsUpTo(E, n))
           new == PartsOf(f, c, EndsUpTo(E, n + 1))
<1>1. CASE n + 1 \notin E
  <2>1. EndsUpTo(E, n + 1) = EndsUpTo(E, n)
    BY <1>1, FoundNext
  <2>. QED
    BY <1>1, <2>1 DEF OnePulses
<1>2. CASE n + 1 \in E
  <2>1. new = Append(old, part) /\ part \in Seq(Edges) /\ old \in Seq(Seq(Edges))
    BY <1>2, FoundNext, FoundType
  <2>2. \A k \in DOMAIN new : OnePulse(new[k])
    BY DEF OnePulses
  <2>3. OnePulses(f, c, E, n) <=> \A k \in DOMAIN old : OnePulse(old[k])
    BY DEF OnePulses
  <2> DEFINE A == Seq(Edges)
  <2> HIDE DEF part, old, new, A
  <2>4. /\ new \in Seq(A) /\ Len(new) = Len(old) + 1 /\ Len(old) \in Nat /\ new[Len(old) + 1] = part
        /\ \A k \in 1 .. Len(old) : new[k] = old[k]
    BY <2>1, AppendProperties, LenProperties DEF A
  <2>5. DOMAIN new = 1 .. Len(old) + 1 /\ DOMAIN old = 1 .. Len(old)
    BY <2>1, <2>4, LenProperties DEF A
  <2>6. Len(old) + 1 \in DOMAIN new /\ \A k \in DOMAIN old : k \in DOMAIN new /\ new[k] = old[k]
    BY <2>4, <2>5
  <2>7. OnePulse(part) /\ \A k \in DOMAIN old : OnePulse(old[k])
    BY <2>2, <2>4, <2>6, Zenon
  <2>. QED
    BY <2>3, <2>7 DEF part
<1>. QED
  BY <1>1, <1>2

(* The edges that are open are the first ones of a pulse.                  *)
OpenPulse(s) == Alternate(s) /\ Len(s) <= 2

LEMMA OpenFirst ==
  ASSUME NEW s \in Seq(Edges), NEW t \in Seq(Edges), OpenPulse(s \o t)
  PROVE  OpenPulse(s)
<1>1. Len(s \o t) = Len(s) + Len(t) /\ Len(s) \in Nat /\ Len(t) \in Nat
  BY ConcatProperties, LenProperties
<1>2. Alternate(s) /\ Len(s \o t) <= 2
  BY AlternateFirst DEF OpenPulse
<1>. QED
  BY <1>1, <1>2 DEF OpenPulse

LEMMA OpenPulses ==
  ASSUME NEW f \in Seq(FileWords), NEW c, NEW E, OnePulses(f, c, E, Len(f)),
         Rest(f, c, E, Len(f)) = <<>>, NEW n \in 0 .. Len(f)
  PROVE  OpenPulse(Rest(f, c, E, n)) /\ OnePulses(f, c, E, n)
<1> DEFINE L == Len(f)
           Q(k) == OpenPulse(Rest(f, c, E, k)) /\ OnePulses(f, c, E, k)
           S == {j \in Nat : j <= L => Q(L - j)}
<1>1. L \in Nat
  BY LenProperties
<1>2. 0 \in S
  <2>1. OpenPulse(<<>>)
    BY DEF OpenPulse, Alternate
  <2>2. Q(L)
    BY <2>1
  <2>3. L - 0 = L
    BY <1>1
  <2> HIDE DEF Q
  <2>. QED
    BY <1>1, <2>2, <2>3
<1>3. ASSUME NEW j \in S PROVE j + 1 \in S
  <2>1. j \in Nat /\ (j <= L => Q(L - j))
    OBVIOUS
  <2> SUFFICES ASSUME j + 1 <= L PROVE Q(L - (j + 1))
    BY <2>1
  <2> DEFINE k == L - (j + 1)
  <2>2. k \in 0 .. Len(f) /\ k + 1 = L - j /\ k + 1 <= Len(f) /\ j <= L /\ k + 1 \in 0 .. Len(f)
    BY <1>1, <2>1
  <2>3. Q(k + 1)
    BY <2>1, <2>2
  <2> HIDE DEF k
  <2>4. OnePulses(f, c, E, k) /\ (k + 1 \in E => OnePulse(Rest(f, c, E, k) \o Between(f, c, k, k + 1)))
    BY <2>2, <2>3, OnePulsesNext
  <2> DEFINE b == Rest(f, c, E, k)
             one == Between(f, c, k, k + 1)
  <2>5. b \in Seq(Edges) /\ one \in Seq(Edges) /\ b \o one \in Seq(Edges)
    BY <2>2, FoundType, BetweenType, FoundNext
  <2>6. OpenPulse(b \o one)
    <3>1. CASE k + 1 \in E
      <4>1. OnePulse(b \o one)
        BY <2>4, <3>1
      <4>. QED
        BY <4>1 DEF OnePulse, OpenPulse
    <3>2. CASE k + 1 \notin E
      <4>1. Rest(f, c, E, k + 1) = b \o one
        BY <2>2, <3>2, FoundNext
      <4>. QED
        BY <2>3, <4>1
    <3>. QED
      BY <3>1, <3>2
  <2>7. OpenPulse(b)
    <3> HIDE DEF b, one
    <3>. QED
      BY <2>5, <2>6, OpenFirst
  <2>. QED
    BY <2>4, <2>7 DEF k
<1>4. S = Nat
  <2>1. S \in SUBSET Nat
    OBVIOUS
  <2> HIDE DEF S
  <2>. QED
    BY <1>2, <1>3, <2>1, NatSets
<1>5. L - n \in Nat /\ L - n <= L /\ L - (L - n) = n
  BY <1>1
<1>6. L - n \in S
  <2> HIDE DEF S
  <2>. QED
    BY <1>4, <1>5
<1>7. Q(n)
  BY <1>5, <1>6
<1>. QED
  BY <1>7
-----------------------------------------------------------------------------
(* What a word changes for a channel.                                      *)
LEMMA TallyAt ==
  ASSUME NEW C, NEW acc \in Totals(C), NEW w \in FileWords, NEW c \in C
  PROVE  LET r == Tally(C, acc, w) IN
         /\ w.type = "GlobalHeader" =>
              /\ r.lead[c] = 0 /\ r.trail[c] = 0
              /\ r.occupancy[c] = acc.occupancy[c] /\ r.toverthreshold[c] = acc.toverthreshold[c]
         /\ w.type = "GlobalTrailer" =>
              /\ r.toverthreshold[c] = acc.toverthreshold[c] + acc.lead[c] - acc.trail[c]
              /\ r.occupancy[c] = acc.occupancy[c]
         /\ IsEdge(w) /\ w.ch = c /\ ~w.trailing =>
              /\ r.lead[c] = GetTime(w) /\ r.trail[c] = acc.trail[c]
              /\ r.occupancy[c] = acc.occupancy[c] /\ r.toverthreshold[c] = acc.toverthreshold[c]
         /\ IsEdge(w) /\ w.ch = c /\ w.trailing =>
              /\ r.lead[c] = acc.lead[c] /\ r.trail[c] = GetTime(w)
              /\ r.occupancy[c] = acc.occupancy[c] + 1 /\ r.toverthreshold[c] = acc.toverthreshold[c]
         /\ w.type \notin {"GlobalHeader", "GlobalTrailer"} /\ ~(IsEdge(w) /\ w.ch = c) =>
              /\ r.lead[c] = acc.lead[c] /\ r.trail[c] = acc.trail[c]
              /\ r.occupancy[c] = acc.occupancy[c] /\ r.toverthreshold[c] = acc.toverthreshold[c]
<1> DEFINE none == NoTimes(C)
           sum == Sums(C, acc)
           r == Tally(C, acc, w)
           t == GetTime(w)
<1>1. /\ DOMAIN acc = {"lead", "trail", "toverthreshold", "occupancy", "nerrors", "ntriggers"}
      /\ acc.lead \in [C -> Int] /\ acc.trail \in [C -> Int]
      /\ acc.toverthreshold \in [C -> Int] /\ acc.occupancy \in [C -> Int]
  BY DEF Totals
<1>2. none[c] = 0 /\ sum[c] = acc.toverthreshold[c] + acc.lead[c] - acc.trail[c]
  BY DEF NoTimes, Sums
<1>0. /\ w.type = "GlobalHeader" => r = [acc EXCEPT !.lead = none, !.trail = none]
      /\ w.type = "GlobalTrailer" => r = [acc EXCEPT !.toverthreshold = sum]
      /\ IsLeading(w) => r = [acc EXCEPT !.lead[w.ch] = t]
      /\ IsTrailing(w) => r = [acc EXCEPT !.trail[w.ch] = t, !.occupancy[w.ch] = @ + 1]
  <2> DEFINE r1 == [acc EXCEPT !.lead = none, !.trail = none]
             r2 == [acc EXCEPT !.toverthreshold = sum]
             r3 == [acc EXCEPT !.lead[w.ch] = t]
             r4 == [acc EXCEPT !.trail[w.ch] = t, !.occupancy[w.ch] = @ + 1]
             r5 == [acc EXCEPT !.nerrors = @ + 1]
             r6 == [acc EXCEPT !.ntriggers = @ + 1]
  <2>1. r = CASE w.type = "GlobalHeader" -> r1
              [] w.type = "GlobalTrailer" -> r2
              [] IsLeading(w) -> r3
              [] IsTrailing(w) -> r4
              [] IsError(w) -> r5
              [] w.type = "ETTT" -> r6
              [] OTHER -> acc
    BY Zenon DEF Tally
  <2>2. (IsLeading(w) \/ IsTrailing(w) => w.type = "TDCMeasurement") /\ (IsError(w) => w.type = "TDCError")
    BY DEF IsLeading, IsTrailing, IsEdge, IsError
  <2>3. ~(IsLeading(w) /\ IsTrailing(w))
    BY DEF IsLeading, IsTrailing
  <2> HIDE DEF none, sum, t, r, r1, r2, r3, r4, r5, r6
  <2>4. (w.type = "GlobalHeader" => r = r1) /\ (w.type = "GlobalTrailer" => r = r2)
    BY <2>1, <2>2
  <2>5. (IsLeading(w) => r = r3) /\ (IsTrailing(w) => r = r4)
    BY <2>1, <2>2, <2>3
  <2>. QED
    BY <2>4, <2>5, Zenon DEF r1, r2, r3, r4
<1> HIDE DEF none, sum, t
<1>3. CASE w.type = "GlobalHeader"
  <2>1. r = [acc EXCEPT !.lead = none, !.trail = none]
    BY <1>0, <1>3
  <2>2. r.lead = none /\ r.trail = none /\ r.occupancy = acc.occupancy /\ r.toverthreshold = acc.toverthreshold
    BY <1>1, <2>1
  <2> HIDE DEF r
  <2>. QED
    BY <1>2, <1>3, <2>2 DEF r, IsEdge
<1>4. CASE w.type = "GlobalTrailer"
  <2>1. r = [acc EXCEPT !.toverthreshold = sum]
    BY <1>0, <1>4
  <2>2. r.occupancy = acc.occupancy /\ r.toverthreshold = sum
    BY <1>1, <2>1
  <2> HIDE DEF r
  <2>. QED
    BY <1>2, <1>4, <2>2 DEF r, IsEdge
<1>5. CASE IsLeading(w)
  <2>1. r = [acc EXCEPT !.lead[w.ch] = t]
    BY <1>0, <1>5
  <2>2. /\ r.lead = [acc.lead EXCEPT ![w.ch] = t] /\ r.trail = acc.trail
        /\ r.occupancy = acc.occupancy /\ r.toverthreshold = acc.toverthreshold
    BY <1>1, <2>1
  <2>3. r.lead[c] = IF w.ch = c THEN t ELSE acc.lead[c]
    BY <1>1, <2>2
  <2> HIDE DEF r
  <2>. QED
    BY <1>5, <2>2, <2>3 DEF r, t, IsLeading, IsEdge
<1>6. CASE IsTrailing(w)
  <2>1. r = [acc EXCEPT !.trail[w.ch] = t, !.occupancy[w.ch] = @ + 1]
    BY <1>0, <1>6
  <2>2. /\ r.trail = [acc.trail EXCEPT ![w.ch] = t] /\ r.lead = acc.lead
        /\ r.occupancy = [acc.occupancy EXCEPT ![w.ch] = @ + 1] /\ r.toverthreshold = acc.toverthreshold
    BY <1>1, <2>1
  <2>3. r.trail[c] = IF w.ch = c THEN t ELSE acc.trail[c]
    BY <1>1, <2>2
  <2>4. r.occupancy[c] = IF w.ch = c THEN acc.occupancy[c] + 1 ELSE acc.occupancy[c]
    BY <1>1, <2>2
  <2> HIDE DEF r
  <2>. QED
    BY <1>6, <2>2, <2>3, <2>4 DEF r, t, IsTrailing, IsEdge
<1>7. CASE w.type \notin {"GlobalHeader", "GlobalTrailer"} /\ ~IsLeading(w) /\ ~IsTrailing(w)
  <2>1. \/ r = acc
        \/ r = [acc EXCEPT !.nerrors = @ + 1]
        \/ r = [acc EXCEPT !.ntriggers = @ + 1]
    BY <1>7 DEF Tally
  <2>2. /\ r.trail = acc.trail /\ r.lead = acc.lead
        /\ r.occupancy = acc.occupancy /\ r.toverthreshold = acc.toverthreshold
    BY <1>1, <2>1
  <2>3. ~IsEdge(w)
    BY <1>7 DEF IsLeading, IsTrailing
  <2> HIDE DEF r
  <2>. QED
    BY <1>7, <2>2, <2>3 DEF r
<1>. QED
  BY <1>3, <1>4, <1>5, <1>6, <1>7
-----------------------------------------------------------------------------
(* A pulse, and an edge more of one.                                       *)
LEMMA PulseAlone ==
  ASSUME NEW b \in Seq(Edges), OnePulse(b)
  PROVE  \/ b = <<>> /\ Pulses(b) = <<>>
         \/ /\ Len(b) = 2 /\ b[1] \in Edges /\ b[2] \in Edges
            /\ Pulses(b) = Append(<<>>, <<b[1], b[2]>>)
<1>1. Len(b) = 0 \/ Len(b) = 2
  BY DEF OnePulse
<1> DEFINE P == Edges \X Edges
           p == Pulses(b)
           h == <<b[1], b[2]>>
<1>2. p \in Seq(P) /\ Len(p) = Len(b) \div 2 /\ \A k \in 1 .. Len(b) \div 2 : p[k] = <<b[2 * k - 1], b[2 * k]>>
  BY PulsesType
<1>3. CASE Len(b) = 0
  <2>1. Len(p) = 0
    BY <1>2, <1>3
  <2>2. b = <<>>
    BY <1>3, EmptySeq
  <2> HIDE DEF P, p
  <2>. QED
    BY <1>2, <2>1, <2>2, EmptySeq DEF p
<1>4. CASE Len(b) = 2
  <2>1. b[1] \in Edges /\ b[2] \in Edges
    BY <1>4, ElementOfSeq
  <2>2. Len(p) = 1 /\ 1 \in 1 .. Len(b) \div 2 /\ 2 * 1 - 1 = 1 /\ 2 * 1 = 2
    BY <1>2, <1>4
  <2>3. p[1] = h
    BY <1>2, <2>2
  <2>4. h \in P
    BY <2>1
  <2> DEFINE e == <<>>
  <2> HIDE DEF P, p, h
  <2>5. e \in Seq(P) /\ Len(e) = 0
    BY EmptySeq
  <2> HIDE DEF e
  <2>6. Append(e, h) \in Seq(P) /\ Len(Append(e, h)) = 1 /\ Append(e, h)[1] = h
    BY <2>4, <2>5, AppendProperties
  <2>7. \A k \in 1 .. 1 : p[k] = Append(e, h)[k]
    BY <2>3, <2>6
  <2>8. p = Append(e, h)
    BY <1>2, <2>2, <2>6, <2>7, SeqEqual
  <2>. QED
    BY <1>4, <2>1, <2>8 DEF p, h, e
<1>. QED
  BY <1>1, <1>3, <1>4

LEMMA PulseGrows ==
  ASSUME NEW b \in Seq(Edges), NEW w \in Edges, OpenPulse(Append(b, w))
  PROVE  /\ ~w.trailing => Len(b) = 0
         /\ w.trailing => Len(b) = 1
         /\ Len(Append(b, w)) = Len(b) + 1 /\ Append(b, w)[Len(b) + 1] = w
         /\ \A i \in 1 .. Len(b) : Append(b, w)[i] = b[i]
<1> DEFINE u == Append(b, w)
<1>1. /\ u \in Seq(Edges) /\ Len(u) = Len(b) + 1 /\ u[Len(b) + 1] = w /\ Len(b) \in Nat
      /\ \A i \in 1 .. Len(b) : u[i] = b[i]
  BY AppendProperties, LenProperties
<1> HIDE DEF u
<1>2. Alternate(u) /\ Len(u) <= 2
  BY DEF OpenPulse, u
<1>3. DOMAIN u = 1 .. Len(u)
  BY <1>1, LenProperties
<1>4. w.trailing = ((Len(b) + 1) % 2 = 0)
  BY <1>1, <1>2, <1>3 DEF Alternate
<1>5. Len(b) = 0 \/ Len(b) = 1
  <2> DEFINE L == Len(b)
  <2>1. L \in Nat /\ L + 1 <= 2
    BY <1>1, <1>2
  <2> HIDE DEF L
  <2>2. L = 0 \/ L = 1
    BY <2>1
  <2>. QED
    BY <2>2 DEF L
<1>6. (0 + 1) % 2 # 0 /\ (1 + 1) % 2 = 0
  OBVIOUS
<1>. QED
  BY <1>1, <1>4, <1>5, <1>6 DEF u
-----------------------------------------------------------------------------
(* The totals of DQMReader.py for a channel, when the words t of the board *)
(* were read, the hits p of its complete events and its edges b after them. *)
Ended(t) == t # <<>> /\ t[Len(t)].type = "GlobalTrailer"
Told(r, c, t, p, b) ==
  /\ t = <<>> \/ Ended(t) => b = <<>>
  /\ ~Ended(t) => /\ r.lead[c] = IF Len(b) >= 1 THEN GetTime(b[1]) ELSE 0
                  /\ r.trail[c] = IF Len(b) >= 2 THEN GetTime(b[2]) ELSE 0
  /\ r.occupancy[c] = Len(p) + Len(b) \div 2
  /\ r.toverthreshold[c] = -SumWidths(p)

LEMMA EndedNext ==
  ASSUME NEW t \in Seq(FileWords), NEW w \in FileWords
  PROVE  Append(t, w) # <<>> /\ (Ended(Append(t, w)) <=> w.type = "GlobalTrailer")
<1>1. /\ Append(t, w) \in Seq(FileWords) /\ Len(Append(t, w)) = Len(t) + 1 /\ Append(t, w)[Len(t) + 1] = w
      /\ Len(t) \in Nat
  BY AppendProperties, LenProperties
<1>2. Append(t, w) # <<>>
  BY <1>1, EmptySeq
<1>. QED
  BY <1>1, <1>2 DEF Ended

LEMMA TellOther ==
  ASSUME NEW C, NEW acc \in Totals(C), NEW w \in FileWords, NEW c \in C, NEW t \in Seq(FileWords),
         NEW p, NEW b, Told(acc, c, t, p, b),
         w.type \notin {"GlobalHeader", "GlobalTrailer"}, ~(IsEdge(w) /\ w.ch = c),
         NEW u, u = t \/ (u = Append(t, w) /\ ~Ended(t))
  PROVE  Told(Tally(C, acc, w), c, u, p, b)
<1> DEFINE r == Tally(C, acc, w)
<1>1. /\ r.lead[c] = acc.lead[c] /\ r.trail[c] = acc.trail[c]
      /\ r.occupancy[c] = acc.occupancy[c] /\ r.toverthreshold[c] = acc.toverthreshold[c]
  BY TallyAt
<1> HIDE DEF r
<1>2. CASE u = t
  BY <1>1, <1>2 DEF Told, r
<1>3. CASE u = Append(t, w) /\ ~Ended(t)
  <2>1. u # <<>> /\ ~Ended(u)
    BY <1>3, EndedNext
  <2>. QED
    BY <1>1, <1>3, <2>1 DEF Told, r
<1>. QED
  BY <1>2, <1>3 DEF r

LEMMA TellHeader ==
  ASSUME NEW C, NEW acc \in Totals(C), NEW w \in FileWords, NEW c \in C, NEW t \in Seq(FileWords),
         NEW p, NEW b, Told(acc, c, t, p, b),
         w.type = "GlobalHeader", t = <<>> \/ Ended(t)
  PROVE  Told(Tally(C, acc, w), c, Append(t, w), p, b)
<1> DEFINE r == Tally(C, acc, w)
           u == Append(t, w)
<1>1. /\ r.lead[c] = 0 /\ r.trail[c] = 0
      /\ r.occupancy[c] = acc.occupancy[c] /\ r.toverthreshold[c] = acc.toverthreshold[c]
  BY TallyAt
<1>2. u # <<>> /\ ~Ended(u)
  BY EndedNext
<1>3. b = <<>> /\ Len(<<>>) = 0
  BY DEF Told
<1> HIDE DEF r, u
<1>. QED
  BY <1>1, <1>2, <1>3 DEF Told, r, u

LEMMA TellEdge ==
  ASSUME NEW C, NEW acc \in Totals(C), NEW w \in Edges, NEW c \in C, NEW t \in Seq(FileWords),
         NEW p \in Seq(Edges \X Edges), NEW b \in Seq(Edges), Told(acc, c, t, p, b),
         w.ch = c, ~Ended(t), OpenPulse(Append(b, w))
  PROVE  Told(Tally(C, acc, w), c, Append(t, w), p, Append(b, w))
<1> DEFINE r == Tally(C, acc, w)
           u == Append(t, w)
           d == Append(b, w)
<1>1. w \in FileWords /\ IsEdge(w) /\ w.type # "GlobalTrailer" /\ Len(p) \in Nat
  BY LenProperties DEF Edges, IsEdge
<1>2. /\ ~w.trailing => Len(b) = 0
      /\ w.trailing => Len(b) = 1
      /\ Len(d) = Len(b) + 1 /\ d[Len(b) + 1] = w
      /\ \A i \in 1 .. Len(b) : d[i] = b[i]
  BY PulseGrows
<1>3. u # <<>> /\ ~Ended(u)
  BY <1>1, EndedNext
<1>4. /\ acc.lead[c] = IF Len(b) >= 1 THEN GetTime(b[1]) ELSE 0
      /\ acc.trail[c] = IF Len(b) >= 2 THEN GetTime(b[2]) ELSE 0
      /\ acc.occupancy[c] = Len(p) + Len(b) \div 2
      /\ acc.toverthreshold[c] = -SumWidths(p)
  BY DEF Told
<1>5. CASE ~w.trailing
  <2>1. /\ r.lead[c] = GetTime(w) /\ r.trail[c] = acc.trail[c]
        /\ r.occupancy[c] = acc.occupancy[c] /\ r.toverthreshold[c] = acc.toverthreshold[c]
    BY <1>1, <1>5, TallyAt
  <2>2. Len(b) = 0 /\ Len(d) = 1 /\ d[1] = w
    BY <1>2, <1>5
  <2> HIDE DEF r, u, d
  <2>3. r.trail[c] = 0 /\ r.occupancy[c] = Len(p) + Len(d) \div 2
    BY <1>1, <1>4, <2>1, <2>2
  <2>. QED
    BY <1>3, <1>4, <2>1, <2>2, <2>3 DEF Told, r, u, d
<1>6. CASE w.trailing
  <2>1. /\ r.lead[c] = acc.lead[c] /\ r.trail[c] = GetTime(w)
        /\ r.occupancy[c] = acc.occupancy[c] + 1 /\ r.toverthreshold[c] = acc.toverthreshold[c]
    BY <1>1, <1>6, TallyAt
  <2>2. Len(b) = 1 /\ Len(d) = 2 /\ d[1] = b[1] /\ d[2] = w
    <3>0. Len(b) = 1
      BY <1>2, <1>6, Zenon
    <3>1. Len(b) = 1 /\ 1 \in 1 .. Len(b) /\ Len(b) + 1 = 2
      BY <3>0
    <3> HIDE DEF d
    <3>. QED
      BY <1>2, <3>1
  <2> HIDE DEF r, u, d
  <2>3. r.lead[c] = GetTime(d[1]) /\ r.occupancy[c] = Len(p) + Len(d) \div 2
    BY <1>1, <1>4, <2>1, <2>2
  <2>. QED
    BY <1>3, <1>4, <2>1, <2>2, <2>3 DEF Told, r, u, d
<1>7. w.trailing \in BOOLEAN
  BY <1>1 DEF FileWords, TDCEvents
<1>. QED
  BY <1>5, <1>6, <1>7

LEMMA TellTrailer ==
  ASSUME NEW C, NEW acc \in Totals(C), NEW w \in FileWords, NEW c \in C, NEW t \in Seq(FileWords),
         NEW p \in Seq(Edges \X Edges), NEW b \in Seq(Edges), Told(acc, c, t, p, b),
         w.type = "GlobalTrailer", ~Ended(t), OnePulse(b)
  PROVE  Told(Tally(C, acc, w), c, Append(t, w), p \o Pulses(b), <<>>)
<1> DEFINE r == Tally(C, acc, w)
           u == Append(t, w)
           q == p \o Pulses(b)
<1>1. /\ r.toverthreshold[c] = acc.toverthreshold[c] + acc.lead[c] - acc.trail[c]
      /\ r.occupancy[c] = acc.occupancy[c]
  BY TallyAt
<1>2. u # <<>> /\ Ended(u)
  BY EndedNext
<1>3. /\ acc.lead[c] = IF Len(b) >= 1 THEN GetTime(b[1]) ELSE 0
      /\ acc.trail[c] = IF Len(b) >= 2 THEN GetTime(b[2]) ELSE 0
      /\ acc.occupancy[c] = Len(p) + Len(b) \div 2
      /\ acc.toverthreshold[c] = -SumWidths(p)
  BY DEF Told
<1>4. Len(p) \in Nat /\ SumWidths(p) \in Int
  <2>1. Len(p) \in Nat
    BY LenProperties
  <2>2. SumWidths(p) \in Int
    <3>1. 0 \in Int /\ AddWidths \in [Int \X (Edges \X Edges) -> Int]
      BY AddWidthType DEF AddWidths
    <3>2. IsFold(AddWidths, 0, p, SumWidths(p))
      BY SumWidthsFold
    <3> DEFINE P == Edges \X Edges
    <3> HIDE DEF P
    <3>3. p \in Seq(P) /\ AddWidths \in [Int \X P -> Int]
      BY <3>1 DEF P
    <3>. QED
      BY <3>1, <3>2, <3>3, FoldType, Zenon
  <2>. QED
    BY <2>1, <2>2
<1>5. r.occupancy[c] = Len(q) /\ r.toverthreshold[c] = -SumWidths(q)
  <2>1. CASE b = <<>> /\ Pulses(b) = <<>>
    <3>1. q = p /\ Len(b) = 0
      BY <2>1, ConcatEmptySeq
    <3> HIDE DEF r, q
    <3>. QED
      BY <1>1, <1>3, <1>4, <3>1
  <2>2. CASE /\ Len(b) = 2 /\ b[1] \in Edges /\ b[2] \in Edges
             /\ Pulses(b) = Append(<<>>, <<b[1], b[2]>>)
    <3> DEFINE h == <<b[1], b[2]>>
               P == Edges \X Edges
    <3>1. h \in P /\ p \in Seq(P) /\ h[1] = b[1] /\ h[2] = b[2]
      BY <2>2
    <3> HIDE DEF P, h
    <3>2. p \o Append(<<>>, h) = Append(p, h) /\ Len(Append(p, h)) = Len(p) + 1
      BY <3>1, AppendProperties
    <3>3. q = Append(p, h)
      BY <2>2, <3>2 DEF h
    <3>4. SumWidths(Append(p, h)) = SumWidths(p) + GetTime(h[2]) - GetTime(h[1])
      BY <3>1, SumWidthsAppend DEF AddWidth, P
    <3>5. GetTime(b[1]) \in Int /\ GetTime(b[2]) \in Int
      BY <2>2 DEF GetTime, Edges, FileWords, TDCEvents
    <3>6. acc.lead[c] = GetTime(b[1]) /\ acc.trail[c] = GetTime(b[2]) /\ acc.occupancy[c] = Len(p) + 1
      BY <1>3, <2>2
    <3> HIDE DEF r, q
    <3>7. r.occupancy[c] = Len(q)
      BY <1>1, <3>2, <3>3, <3>6
    <3>8. SumWidths(q) = SumWidths(p) + GetTime(b[2]) - GetTime(b[1])
      BY <3>1, <3>3, <3>4
    <3>9. r.toverthreshold[c] = -SumWidths(q)
      BY <1>1, <1>3, <1>4, <3>5, <3>6, <3>8
    <3>. QED
      BY <3>7, <3>9
  <2>. QED
    BY <2>1, <2>2, PulseAlone
<1>6. Len(<<>>) = 0 /\ 0 \div 2 = 0 /\ Len(q) + 0 = Len(q)
  <2>1. q \in Seq(Edges \X Edges)
    BY PulsesType, ConcatProperties
  <2>. QED
    BY <2>1, LenProperties
<1> HIDE DEF r, u, q
<1>. QED
  BY <1>2, <1>5, <1>6 DEF Told, r, u, q
-----------------------------------------------------------------------------
(* The words of the board in the beginning of a file.                      *)
Said(f, n) == Only(SubSeq(f, 1, n), NotTrigger)

LEMMA OneMore ==
  ASSUME NEW f \in Seq(FileWords), NEW n \in 0 .. Len(f), n + 1 <= Len(f)
  PROVE  /\ SubSeq(f, 1, n) \in Seq(FileWords) /\ f[n + 1] \in FileWords
         /\ SubSeq(f, 1, n + 1) = Append(SubSeq(f, 1, n), f[n + 1])
<1> DEFINE z == 0
           a == SubSeq(f, z + 1, n)
           u == SubSeq(f, z + 1, n + 1)
           w == f[n + 1]
<1>1. n \in Nat /\ Len(f) \in Nat /\ n + 1 \in 1 .. Len(f) /\ z \in 0 .. Len(f) /\ n \in z .. Len(f)
      /\ n + 1 \in z .. Len(f) /\ z + 1 = 1 /\ n - z = n /\ (n + 1) - z = n + 1
      /\ \A i \in Nat : z + i = i
  BY LenProperties
<1>2. w \in FileWords
  BY <1>1, ElementOfSeq
<1> HIDE DEF z
<1>3. a \in Seq(FileWords) /\ Len(a) = n - z /\ \A i \in 1 .. n - z : a[i] = f[z + i]
  BY <1>1, Cut
<1>4. u \in Seq(FileWords) /\ Len(u) = (n + 1) - z /\ \A i \in 1 .. (n + 1) - z : u[i] = f[z + i]
  BY <1>1, Cut
<1> HIDE DEF a, u, w
<1>5. /\ Append(a, w) \in Seq(FileWords) /\ Len(Append(a, w)) = Len(a) + 1 /\ Append(a, w)[Len(a) + 1] = w
      /\ \A i \in 1 .. Len(a) : Append(a, w)[i] = a[i]
  BY <1>2, <1>3, AppendProperties
<1>6. Len(a) = n /\ Len(u) = n + 1 /\ u[n + 1] = w /\ \A i \in 1 .. n : u[i] = a[i]
  BY <1>1, <1>3, <1>4 DEF w
<1>7. \A i \in 1 .. n + 1 : u[i] = Append(a, w)[i]
  BY <1>1, <1>5, <1>6
<1>8. u = Append(a, w)
  BY <1>4, <1>5, <1>6, <1>7, SeqEqual
<1>. QED
  BY <1>1, <1>2, <1>3, <1>8 DEF a, u, w

LEMMA SaidNext ==
  ASSUME NEW f \in Seq(FileWords), NEW n \in 0 .. Len(f), n + 1 <= Len(f), Framed(Only(f, NotTrigger))
  PROVE  /\ Said(f, n) \in Seq(FileWords)
         /\ f[n + 1].type = "Trigger" => Said(f, n + 1) = Said(f, n)
         /\ f[n + 1].type # "Trigger" =>
              /\ Said(f, n + 1) = Append(Said(f, n), f[n + 1])
              /\ Said(f, n) # <<>> => (Ended(Said(f, n)) <=> f[n + 1].type = "GlobalHeader")
<1> DEFINE a == SubSeq(f, 1, n)
           u == SubSeq(f, 1, n + 1)
           v == SubSeq(f, (n + 1) + 1, Len(f))
           w == f[n + 1]
           t == Said(f, n)
           S == NotTrigger
<1>1. a \in Seq(FileWords) /\ w \in FileWords /\ u = Append(a, w) /\ u \in Seq(FileWords)
  BY OneMore, AppendProperties
<1>2. f = u \o v /\ v \in Seq(FileWords)
  <2> DEFINE z == 0
             k == n + 1
  <2>1. z \in 0 .. Len(f) /\ k \in z .. Len(f) /\ Len(f) \in k .. Len(f) /\ z + 1 = 1 /\ k \in 0 .. Len(f)
    BY LenProperties
  <2> HIDE DEF z, k
  <2>2. SubSeq(f, z + 1, Len(f)) = SubSeq(f, z + 1, k) \o SubSeq(f, k + 1, Len(f))
    BY <2>1, CutAgain
  <2>3. SubSeq(f, k + 1, Len(f)) \in Seq(FileWords)
    BY <2>1, Cut
  <2>4. SubSeq(f, 1, Len(f)) = f
    BY SubSeqFull
  <2>. QED
    BY <2>1, <2>2, <2>3, <2>4 DEF k
<1>3. w \in S <=> w.type # "Trigger"
  BY <1>1 DEF FileWords, NotTrigger
<1> HIDE DEF a, u, v, w, S
<1>4. Only(u, S) = IF w \in S THEN Append(Only(a, S), w) ELSE Only(a, S)
  BY <1>1, OnlyAppend
<1>5. Only(a, S) \in Seq(FileWords) /\ Only(u, S) \in Seq(FileWords) /\ Only(v, S) \in Seq(FileWords)
  BY <1>1, <1>2, OnlyType
<1>6. t = Only(a, S) /\ Said(f, n + 1) = Only(u, S)
  BY DEF Said, a, u, S
<1>7. Framed(Only(u, S))
  <2>1. Only(u \o v, S) = Only(u, S) \o Only(v, S)
    BY <1>1, <1>2, OnlyConcat
  <2>2. Framed(Only(f, S))
    BY DEF S
  <2>3. Framed(Only(u, S) \o Only(v, S))
    BY <1>2, <2>1, <2>2, Zenon
  <2> DEFINE x == Only(u, S)
             y == Only(v, S)
  <2>4. x \in Seq(FileWords) /\ y \in Seq(FileWords) /\ Framed(x \o y)
    BY <1>5, <2>3
  <2> HIDE DEF x, y
  <2>5. Framed(x)
    BY <2>4, FramedCut
  <2>. QED
    BY <2>5 DEF x
<1> HIDE DEF t
<1>8. ASSUME w \in S, t # <<>> PROVE Ended(t) <=> w.type = "GlobalHeader"
  <2> DEFINE L == Len(t)
  <2>1. t \in Seq(FileWords) /\ Framed(Append(t, w))
    BY <1>4, <1>5, <1>6, <1>7, <1>8
  <2>2. /\ Len(Append(t, w)) = L + 1 /\ Append(t, w)[L + 1] = w /\ L \in Nat \ {0}
        /\ \A i \in 1 .. L : Append(t, w)[i] = t[i]
    BY <1>1, <1>8, <2>1, AppendProperties, EmptySeq
  <2> HIDE DEF L
  <2>3. L \in 1 .. L /\ L \in 1 .. (L + 1) - 1
    BY <2>2
  <2>4. Append(t, w)[L].type = "GlobalTrailer" <=> Append(t, w)[L + 1].type = "GlobalHeader"
    BY <2>1, <2>2, <2>3 DEF Framed
  <2>5. t[L].type = "GlobalTrailer" <=> w.type = "GlobalHeader"
    BY <2>2, <2>3, <2>4
  <2>. QED
    BY <1>8, <2>5 DEF Ended, L
<1>. QED
  BY <1>3, <1>4, <1>5, <1>6, <1>8 DEF t, w

(* One word more.                                                          *)
LEMMA TellNext ==
  ASSUME NEW f \in Seq(FileWords), NEW C, NEW c \in C, NEW n \in 0 .. Len(f), n + 1 <= Len(f),
         NEW E, E = EndsIn("TRIG_MATCH", f, c),
         Framed(Only(f, NotTrigger)), OnePulses(f, c, E, Len(f)), Rest(f, c, E, Len(f)) = <<>>,
         NEW acc \in Totals(C), Told(acc, c, Said(f, n), Found(f, c, E, n), Rest(f, c, E, n))
  PROVE  Told(Tally(C, acc, f[n + 1]), c, Said(f, n + 1), Found(f, c, E, n + 1), Rest(f, c, E, n + 1))
<1> DEFINE w == f[n + 1]
           t == Said(f, n)
           u == Said(f, n + 1)
           p == Found(f, c, E, n)
           b == Rest(f, c, E, n)
           one == Between(f, c, n, n + 1)
           r == Tally(C, acc, w)
           P == Edges \X Edges
<1>1. n + 1 \in 1 .. Len(f) /\ n + 1 \in 0 .. Len(f) /\ (n + 1) - 1 = n
  BY LenProperties
<1>2. w \in FileWords
  BY OneMore
<1>3. /\ t \in Seq(FileWords)
      /\ w.type = "Trigger" => u = t
      /\ w.type # "Trigger" => u = Append(t, w) /\ (t # <<>> => (Ended(t) <=> w.type = "GlobalHeader"))
  BY SaidNext
<1>4. one = IF w \in Mine(c) THEN <<w>> ELSE <<>>
  BY <1>1, BetweenOne
<1>5. w \in Mine(c) <=> IsEdge(w) /\ w.ch = c
  BY <1>2 DEF Mine, FileWords
<1>6. n + 1 \in E <=> w.type = "GlobalTrailer"
  <2>1. DOMAIN f = 1 .. Len(f)
    BY LenProperties
  <2>. QED
    BY <1>1, <2>1 DEF EndsIn
<1>7. p \in Seq(P) /\ b \in Seq(Edges)
  BY FoundType
<1>8. /\ n + 1 \in E => Found(f, c, E, n + 1) = p \o Pulses(b \o one) /\ Rest(f, c, E, n + 1) = <<>>
      /\ n + 1 \notin E => Found(f, c, E, n + 1) = p /\ Rest(f, c, E, n + 1) = b \o one
  BY FoundNext, ZenonT(60)
<1>9. b \o <<>> = b
  BY <1>7, ConcatEmptySeq
<1>10. Told(acc, c, t, p, b)
  OBVIOUS
<1>11. OpenPulse(Rest(f, c, E, n + 1)) /\ OnePulses(f, c, E, n + 1)
  BY <1>1, OpenPulses
<1>12. n + 1 \in E => OnePulse(b \o one)
  BY <1>11, OnePulsesNext
<1>13. t = <<>> => ~Ended(t)
  BY DEF Ended
<1> DEFINE p2 == Found(f, c, E, n + 1)
           b2 == Rest(f, c, E, n + 1)
<1> HIDE DEF w, t, u, p, b, one, P, p2, b2
<1> SUFFICES Told(r, c, u, p2, b2)
  BY DEF w, u, p2, b2
<1>14. CASE w.type = "Trigger"
  <2>1. u = t /\ w \notin Mine(c) /\ ~(IsEdge(w) /\ w.ch = c)
    BY <1>3, <1>5, <1>14 DEF IsEdge
  <2>2. p2 = p /\ b2 = b
    BY <1>4, <1>6, <1>8, <1>9, <1>14, <2>1 DEF p2, b2
  <2>. QED
    BY <1>2, <1>3, <1>10, <1>14, <2>1, <2>2, TellOther
<1>15. CASE w.type = "GlobalHeader"
  <2>1. u = Append(t, w) /\ w \notin Mine(c) /\ (t = <<>> \/ Ended(t))
    BY <1>3, <1>5, <1>15 DEF IsEdge
  <2>2. p2 = p /\ b2 = b
    BY <1>4, <1>6, <1>8, <1>9, <1>15, <2>1 DEF p2, b2
  <2>. QED
    BY <1>2, <1>3, <1>10, <1>15, <2>1, <2>2, TellHeader
<1>16. CASE w.type = "GlobalTrailer"
  <2>1. u = Append(t, w) /\ w \notin Mine(c) /\ ~Ended(t)
    BY <1>3, <1>5, <1>13, <1>16 DEF IsEdge
  <2>2. p2 = p \o Pulses(b) /\ b2 = <<>> /\ OnePulse(b)
    BY <1>4, <1>6, <1>8, <1>9, <1>12, <1>16, <2>1 DEF p2, b2
  <2>3. p \in Seq(Edges \X Edges)
    BY <1>7 DEF P
  <2>. QED
    BY <1>2, <1>3, <1>7, <1>10, <1>16, <2>1, <2>2, <2>3, TellTrailer
<1>17. CASE w \in Mine(c)
  <2>1. w.type = "TDCMeasurement" /\ IsEdge(w) /\ w.ch = c /\ w \in Edges
    BY <1>2, <1>5, <1>17 DEF IsEdge, Edges
  <2>2. u = Append(t, w) /\ ~Ended(t)
    BY <1>3, <1>13, <2>1
  <2>3. b \o <<w>> = Append(b, w)
    BY <1>7, <2>1
  <2>4. p2 = p /\ b2 = Append(b, w)
    BY <1>4, <1>6, <1>8, <1>17, <2>1, <2>3 DEF p2, b2
  <2>5. OpenPulse(Append(b, w)) /\ p \in Seq(Edges \X Edges)
    BY <1>7, <1>11, <2>4 DEF b2, P
  <2>. QED
    BY <1>3, <1>7, <1>10, <2>1, <2>2, <2>4, <2>5, TellEdge
<1>18. CASE w.type \notin {"Trigger", "GlobalHeader", "GlobalTrailer"} /\ w \notin Mine(c)
  <2>1. u = Append(t, w) /\ ~Ended(t) /\ ~(IsEdge(w) /\ w.ch = c)
    BY <1>3, <1>5, <1>13, <1>18
  <2>2. p2 = p /\ b2 = b
    BY <1>4, <1>6, <1>8, <1>9, <1>18 DEF p2, b2
  <2>. QED
    BY <1>2, <1>3, <1>10, <1>18, <2>1, <2>2, TellOther
<1>. QED
  BY <1>14, <1>15, <1>16, <1>17, <1>18

LEMMA ScriptTold ==
  ASSUME NEW f \in Seq(FileWords), NEW C, NEW c \in C, NEW E, E = EndsIn("TRIG_MATCH", f, c),
         Framed(Only(f, NotTrigger)), OnePulses(f, c, E, Len(f)), Rest(f, c, E, Len(f)) = <<>>
  PROVE  /\ ReadFile(f, C).occupancy[c] = Len(Found(f, c, E, Len(f)))
         /\ ReadFile(f, C).toverthreshold[c] = -SumWidths(Found(f, c, E, Len(f)))
<1> DEFINE r(n) == ReadFile(SubSeq(f, 1, n), C)
           Q(n) == Told(r(n), c, Said(f, n), Found(f, c, E, n), Rest(f, c, E, n))
           S == {n \in Nat : n <= Len(f) => Q(n)}
<1>1. Len(f) \in Nat /\ SubSeq(f, 1, Len(f)) = f
  BY LenProperties, SubSeqFull
<1>2. 0 \in S
  <2>1. SubSeq(f, 1, 0) = <<>>
    BY SubSeqEmpty
  <2>2. r(0) = Blank(C) /\ Said(f, 0) = <<>>
    BY <2>1, ReadFileEmpty, OnlyEmpty DEF Said
  <2>3. Found(f, c, E, 0) = <<>> /\ Rest(f, c, E, 0) = <<>>
    BY FoundNone
  <2>4. Told(Blank(C), c, <<>>, <<>>, <<>>)
    <3>1. NoTimes(C)[c] = 0 /\ Len(<<>>) = 0 /\ 0 \div 2 = 0 /\ -SumWidths(<<>>) = 0
      BY SumWidthsEmpty DEF NoTimes
    <3>2. /\ Blank(C).lead = NoTimes(C) /\ Blank(C).trail = NoTimes(C)
          /\ Blank(C).occupancy = NoTimes(C) /\ Blank(C).toverthreshold = NoTimes(C)
      BY DEF Blank
    <3>. QED
      BY <3>1, <3>2 DEF Told, Ended
  <2> HIDE DEF r
  <2>. QED
    BY <2>2, <2>3, <2>4
<1>3. ASSUME NEW n \in S PROVE n + 1 \in S
  <2>1. n \in Nat /\ (n <= Len(f) => Q(n))
    OBVIOUS
  <2> SUFFICES ASSUME n + 1 <= Len(f) PROVE Q(n + 1)
    BY <2>1
  <2>2. n \in 0 .. Len(f) /\ Q(n)
    BY <1>1, <2>1
  <2>3. /\ SubSeq(f, 1, n) \in Seq(FileWords) /\ f[n + 1] \in FileWords
        /\ SubSeq(f, 1, n + 1) = Append(SubSeq(f, 1, n), f[n + 1])
    BY <2>2, OneMore
  <2>4. r(n) \in Totals(C)
    BY <2>3, ReadFileType
  <2>5. r(n + 1) = Tally(C, r(n), f[n + 1])
    BY <2>3, ReadFileAppend
  <2> HIDE DEF r
  <2>6. Told(Tally(C, r(n), f[n + 1]), c, Said(f, n + 1), Found(f, c, E, n + 1), Rest(f, c, E, n + 1))
    BY <2>2, <2>4, TellNext
  <2>. QED
    BY <2>5, <2>6
<1>4. S = Nat
  <2>1. S \in SUBSET Nat
    OBVIOUS
  <2> HIDE DEF S
  <2>. QED
    BY <1>2, <1>3, <2>1, NatSets
<1>5. Q(Len(f))
  <2>1. Len(f) \in S /\ Len(f) <= Len(f)
    <3> HIDE DEF S
    <3>. QED
      BY <1>1, <1>4
  <2>. QED
    BY <2>1
<1>6. r(Len(f)) = ReadFile(f, C)
  BY <1>1
<1> DEFINE p == Found(f, c, E, Len(f))
           q == ReadFile(f, C)
<1>7. Len(p) \in Nat
  <2>1. Len(f) \in 0 .. Len(f)
    BY <1>1
  <2>2. p \in Seq(Edges \X Edges)
    BY <2>1, FoundType
  <2>. QED
    BY <2>2, LenProperties
<1>8. Told(q, c, Said(f, Len(f)), p, <<>>)
  BY <1>5, <1>6
<1> HIDE DEF p, q
<1>9. q.occupancy[c] = Len(p) + Len(<<>>) \div 2 /\ Len(<<>>) = 0 /\ q.toverthreshold[c] = -SumWidths(p)
  BY <1>8 DEF Told
<1>. QED
  BY <1>7, <1>9 DEF p, q
-----------------------------------------------------------------------------
LEMMA ScriptOfInv ==
  ASSUME FetchInv, JobInv, HitsInv, FrameInv
  PROVE  ScriptAgrees
<1> SUFFICES ASSUME mode = "TRIG_MATCH", job.busy, job.ch = setup.channels, NEW c \in ReadWhole,
                    FlattenSeq(Parts(c)) = EdgesOf(File, c),
                    \A k \in DOMAIN Parts(c) : Alternate(Parts(c)[k]) /\ Len(Parts(c)[k]) \in {0, 2}
             PROVE  /\ ReadFile(File, Channels).occupancy[c] = Len(job.hits[c])
                    /\ ReadFile(File, Channels).toverthreshold[c] = -SumWidths(job.hits[c])
  BY Zenon DEF ScriptAgrees
<1> DEFINE E == EndsIn(mode, File, c)
           parts == PartsOf(File, c, EndsUpTo(E, Len(File)))
<1>1. files \in Seq(Seq(FileWords)) /\ job.file \in DOMAIN files
  BY FilesWords DEF FetchInv, JobInv, JobOK, Closed
<1>2. File \in Seq(FileWords)
  BY <1>1, LenProperties, ElementOfSeq DEF File
<1>3. c \in Channels
  BY DEF ReadWhole, JobInv, JobOK, Jobs
<1>4. Parts(c) = parts
  BY <1>2, PartsAre
<1>5. Framed(Only(File, NotTrigger))
  BY <1>1, FilesFramed DEF File
<1>6. OnePulses(File, c, E, Len(File)) /\ Alternating(File, c, E, Len(File))
  <2> HIDE DEF E
  <2>. QED
    BY <1>4 DEF OnePulses, OnePulse, Alternating
<1>7. Rest(File, c, E, Len(File)) = <<>>
  BY <1>2, <1>4, NothingLeft
<1>8. job.hits[c] = Found(File, c, E, Len(File))
  BY <1>6 DEF HitsInv, Whole
<1>9. E = EndsIn("TRIG_MATCH", File, c)
  OBVIOUS
<1> HIDE DEF E
<1>. QED
  BY <1>2, <1>3, <1>5, <1>6, <1>7, <1>8, <1>9, ScriptTold

(***************************************************************************)
(* scripts/DQMReader.py counts the hits that the monitors find, and sums   *)
(* their widths, where each event has one pulse of a channel at most: no   *)
(* word comes between two events, so that the last edges it keeps are      *)
(* always those of the event that a trailer ends.                          *)
(***************************************************************************)
THEOREM ScriptCorrect == Spec => []ScriptAgrees
<1>1. Init => HitsInv /\ FrameInv
  BY InitHits, InitFrame
<1>2. FetchInv /\ JobInv /\ HitsInv /\ FrameInv /\ [Next]_vars => HitsInv' /\ FrameInv'
  BY NextHits, NextFrame
<1>3. FetchInv /\ JobInv /\ HitsInv /\ FrameInv => ScriptAgrees
  BY ScriptOfInv
<1>. QED
  BY <1>1, <1>2, <1>3, ReadoutInv, PTL DEF Spec
=============================================================================
