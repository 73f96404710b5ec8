--------------------------- MODULE ReadoutProofs ----------------------------
(***************************************************************************)
(* Proofs about Readout.  Every word that was transferred is in the files; *)
(* what the monitors pair in them belongs together.  First what the        *)
(* operators on sequences do, by induction on their arguments; then the    *)
(* invariant of FetchEvents(), and that of the monitor.                    *)
(***************************************************************************)
EXTENDS Readout, SequenceTheorems, FiniteSetTheorems, WellFoundedInduction, TLAPS

-----------------------------------------------------------------------------
(* Induction on numbers and on sequences, over the sets of those that have *)
(* a property.                                                             *)
Below == {ss \in Nat \X Nat : ss[1] < ss[2]}

LEMMA NatSets ==
  ASSUME NEW S \in SUBSET Nat, 0 \in S, \A n \in S : n + 1 \in S
  PROVE  S = Nat
<1>1. IsWellFoundedOn(Below, Nat)
  BY NatLessThanWellFounded DEF OpToRel, Below
<1> DEFINE T == Nat \ S
<1>2. ASSUME T # {} PROVE FALSE
  <2>1. PICK x \in T : \A y \in T : ~(<<y, x>> \in Below)
    BY <1>1, <1>2, WFMin, Zenon
  <2>2. x # 0 /\ x \in Nat
    OBVIOUS
  <2>3. x - 1 \in Nat /\ <<x - 1, x>> \in Below
    BY <2>2 DEF Below
  <2>4. x - 1 \in S
    BY <2>1, <2>3
  <2>. QED
    BY <2>1, <2>2, <2>4
<1>. QED
  BY <1>2

LEMMA SeqSets ==
  ASSUME NEW W, NEW S \in SUBSET Seq(W), <<>> \in S,
         \A s \in S : \A w \in W : Append(s, w) \in S
  PROVE  S = Seq(W)
<1> DEFINE N == {n \in Nat : \A s \in Seq(W) : Len(s) = n => s \in S}
<1>1. 0 \in N
  BY EmptySeq
<1>2. ASSUME NEW n \in N PROVE n + 1 \in N
  <2> SUFFICES ASSUME NEW s \in Seq(W), Len(s) = n + 1 PROVE s \in S
    OBVIOUS
  <2>1. n \in Nat
    OBVIOUS
  <2>2. s # <<>>
    BY <2>1, EmptySeq
  <2>3. PICK t \in Seq(W), w \in W : s = Append(t, w)
    BY <2>2, SequenceEmptyOrAppend
  <2>4. Len(t) = n
    BY <2>1, <2>3, AppendProperties, LenProperties
  <2>. QED
    BY <2>3, <2>4
<1>3. N = Nat
  <2> HIDE DEF N
  <2>1. N \in SUBSET Nat
    BY DEF N
  <2>. QED
    BY <1>1, <1>2, <2>1, NatSets
<1>. QED
  BY <1>3, LenProperties

(* A sequence of words that are all in V.                                  *)
LEMMA SeqOfSubset ==
  ASSUME NEW W, NEW V, NEW s \in Seq(W), \A i \in 1 .. Len(s) : s[i] \in V
  PROVE  s \in Seq(V)
<1>1. Len(s) \in Nat /\ s = [i \in 1 .. Len(s) |-> s[i]]
  BY LenProperties
<1>. QED
  BY <1>1

(* The first number that has a property.                                   *)
LEMMA First ==
  ASSUME NEW S \in SUBSET Nat, S # {}
  PROVE  \E n \in S : \A k \in S : n <= k
<1>1. IsWellFoundedOn(Below, Nat)
  BY NatLessThanWellFounded DEF OpToRel, Below
<1>2. PICK x \in S : \A y \in S : ~(<<y, x>> \in Below)
  BY <1>1, WFMin, Zenon
<1>3. ASSUME NEW k \in S PROVE x <= k
  <2>1. x \in Nat /\ k \in Nat /\ (k < x => <<k, x>> \in Below)
    BY DEF Below
  <2>. QED
    BY <1>2, <2>1
<1>. QED
  BY <1>3
-----------------------------------------------------------------------------
(* Folds: p[n] is what G, as a function of a value and a word, makes of    *)
(* the first n words.                                                      *)
Table(G, base, s, p) ==
  p[0] = base /\ \A n \in 1 .. Len(s) : p[n] = G[<<p[n - 1], s[n]>>]
IsFold(G, base, s, r) == \E p : Table(G, base, s, p) /\ r = p[Len(s)]

(* There is a table for every fold, by induction on the words.             *)
LEMMA TableExists ==
  ASSUME NEW A, NEW W, NEW base \in A, NEW G \in [A \X W -> A], NEW s \in Seq(W)
  PROVE  \E p \in [0 .. Len(s) -> A] : Table(G, base, s, p)
<1> DEFINE Upto(n) == \E p \in [0 .. n -> A] :
             p[0] = base /\ \A i \in 1 .. n : p[i] = G[<<p[i - 1], s[i]>>]
           N == {n \in Nat : n <= Len(s) => Upto(n)}
<1>1. 0 \in N
  <2> DEFINE p == [i \in 0 .. 0 |-> base]
  <2>1. p \in [0 .. 0 -> A] /\ p[0] = base
    OBVIOUS
  <2> HIDE DEF p
  <2>2. \A i \in 1 .. 0 : p[i] = G[<<p[i - 1], s[i]>>]
    OBVIOUS
  <2>. QED
    BY <2>1, <2>2
<1>2. ASSUME NEW n \in N PROVE n + 1 \in N
  <2> SUFFICES ASSUME n + 1 <= Len(s) PROVE Upto(n + 1)
    OBVIOUS
  <2>1. n \in Nat /\ Len(s) \in Nat /\ n <= Len(s) /\ s[n + 1] \in W
    BY LenProperties, ElementOfSeq
  <2>2. PICK p \in [0 .. n -> A] : p[0] = base /\ \A i \in 1 .. n : p[i] = G[<<p[i - 1], s[i]>>]
    BY <2>1
  <2> DEFINE q == [i \in 0 .. n + 1 |-> IF i <= n THEN p[i] ELSE G[<<p[n], s[n + 1]>>]]
  <2>3. p[n] \in A /\ G[<<p[n], s[n + 1]>>] \in A
    BY <2>1, <2>2
  <2>4. q \in [0 .. n + 1 -> A]
    BY <2>1, <2>2, <2>3
  <2>5. q[0] = base
    BY <2>1, <2>2
  <2>6. ASSUME NEW i \in 1 .. n + 1 PROVE q[i] = G[<<q[i - 1], s[i]>>]
    <3>1. q[i - 1] = p[i - 1]
      BY <2>1
    <3>2. CASE i <= n
      <4>1. q[i] = p[i] /\ i \in 1 .. n
        BY <2>1, <3>2
      <4> HIDE DEF q
      <4>. QED
        BY <2>2, <3>1, <4>1
    <3>3. CASE i = n + 1
      <4>1. q[i] = G[<<p[n], s[n + 1]>>] /\ i - 1 = n
        BY <2>1, <3>3
      <4> HIDE DEF q
      <4>. QED
        BY <3>1, <3>3, <4>1
    <3>. QED
      BY <2>1, <3>2, <3>3
  <2> HIDE DEF q
  <2>. QED
    BY <2>4, <2>5, <2>6
<1>3. N = Nat
  <2> HIDE DEF N
  <2>1. N \in SUBSET Nat
    BY DEF N
  <2>. QED
    BY <1>1, <1>2, <2>1, NatSets
<1>4. Upto(Len(s))
  BY <1>3, LenProperties
<1>. QED
  BY <1>4 DEF Table

LEMMA FoldEmpty ==
  ASSUME NEW G, NEW base, NEW r, IsFold(G, base, <<>>, r)
  PROVE  r = base
BY DEF IsFold, Table

(* Tables of a sequence and of a longer one agree.                         *)
LEMMA FoldAppend ==
  ASSUME NEW G, NEW base, NEW W, NEW s \in Seq(W), NEW w \in W, NEW r, NEW q,
         IsFold(G, base, s, r), IsFold(G, base, Append(s, w), q)
  PROVE  q = G[<<r, w>>]
<1> DEFINE t == Append(s, w)
<1>1. /\ Len(s) \in Nat /\ Len(t) = Len(s) + 1 /\ t[Len(s) + 1] = w
      /\ \A i \in 1 .. Len(s) : t[i] = s[i]
  BY AppendProperties, LenProperties
<1> HIDE DEF t
<1>2. PICK p1 : Table(G, base, s, p1) /\ r = p1[Len(s)]
  BY DEF IsFold
<1>3. PICK p2 : Table(G, base, t, p2) /\ q = p2[Len(t)]
  BY DEF IsFold, t
<1> DEFINE N == {n \in Nat : n <= Len(s) => p1[n] = p2[n]}
<1>4. 0 \in N
  BY <1>2, <1>3 DEF Table
<1>5. ASSUME NEW n \in N PROVE n + 1 \in N
  <2> SUFFICES ASSUME n + 1 <= Len(s) PROVE p1[n + 1] = p2[n + 1]
    OBVIOUS
  <2>1. n \in Nat /\ p1[n] = p2[n]
    BY <1>1
  <2>2. n + 1 \in 1 .. Len(s) /\ n + 1 \in 1 .. Len(t) /\ (n + 1) - 1 = n /\ t[n + 1] = s[n + 1]
    BY <1>1, <2>1
  <2> HIDE DEF N
  <2>3. p1[n + 1] = G[<<p1[n], s[n + 1]>>]
    BY <1>2, <2>2 DEF Table
  <2>4. p2[n + 1] = G[<<p2[n], t[n + 1]>>]
    BY <1>3, <2>2 DEF Table
  <2>. QED
    BY <2>1, <2>2, <2>3, <2>4
<1>6. N = Nat
  <2> HIDE DEF N
  <2>1. N \in SUBSET Nat
    BY DEF N
  <2>. QED
    BY <1>4, <1>5, <2>1, NatSets
<1>7. p1[Len(s)] = p2[Len(s)]
  BY <1>1, <1>6
<1>8. Len(t) \in 1 .. Len(t) /\ Len(t) - 1 = Len(s)
  BY <1>1
<1>9. p2[Len(t)] = G[<<p2[Len(s)], t[Len(t)]>>]
  BY <1>3, <1>8 DEF Table
<1>. QED
  BY <1>1, <1>2, <1>3, <1>7, <1>9

(* What is folded stays in A, when G does not lead out of it.              *)
LEMMA FoldType ==
  ASSUME NEW A, NEW W, NEW base \in A, NEW G \in [A \X W -> A], NEW s \in Seq(W), NEW r,
         IsFold(G, base, s, r)
  PROVE  r \in A
<1> DEFINE S == {t \in Seq(W) : \A q : IsFold(G, base, t, q) => q \in A}
<1>1. <<>> \in S
  BY EmptySeq, FoldEmpty
<1>2. ASSUME NEW t \in S, NEW w \in W PROVE Append(t, w) \in S
  <2>1. t \in Seq(W) /\ Append(t, w) \in Seq(W)
    BY AppendProperties
  <2> SUFFICES ASSUME NEW q, IsFold(G, base, Append(t, w), q) PROVE q \in A
    BY <2>1
  <2>2. PICK p \in [0 .. Len(t) -> A] : Table(G, base, t, p)
    BY <2>1, TableExists
  <2>3. IsFold(G, base, t, p[Len(t)]) /\ p[Len(t)] \in A
    BY <2>1, <2>2, LenProperties DEF IsFold
  <2>4. q = G[<<p[Len(t)], w>>]
    BY <2>1, <2>3, FoldAppend
  <2>. QED
    BY <2>3, <2>4
<1>3. S = Seq(W)
  <2> HIDE DEF S
  <2>1. S \in SUBSET Seq(W)
    BY DEF S
  <2>. QED
    BY <1>1, <1>2, <2>1, SeqSets
<1>. QED
  BY <1>3

-----------------------------------------------------------------------------
(* What Only() keeps.                                                      *)
Keeps(W, S) == [p \in Seq(W) \X W |-> IF p[2] \in S THEN Append(p[1], p[2]) ELSE p[1]]

LEMMA KeepsValue ==
  ASSUME NEW W, NEW S, NEW r \in Seq(W), NEW w \in W
  PROVE  Keeps(W, S)[<<r, w>>] = IF w \in S THEN Append(r, w) ELSE r
BY DEF Keeps

LEMMA KeepsType ==
  ASSUME NEW W, NEW S
  PROVE  Keeps(W, S) \in [Seq(W) \X W -> Seq(W)]
<1>1. \A r \in Seq(W), w \in W : Append(r, w) \in Seq(W)
  BY AppendProperties
<1>. QED
  BY <1>1 DEF Keeps

(* Only() is a fold: its recursive function is a table of it.              *)
LEMMA OnlyFold ==
  ASSUME NEW W, NEW S, NEW s \in Seq(W)
  PROVE  IsFold(Keeps(W, S), <<>>, s, Only(s, S))
<1> DEFINE Rec(g) == [n \in 0 .. Len(s) |->
             IF n = 0 THEN <<>>
             ELSE IF s[n] \in S THEN Append(g[n - 1], s[n]) ELSE g[n - 1]]
           h == CHOOSE g : g = Rec(g)
<1>1. Only(s, S) = h[Len(s)]
  BY DEF Only
<1>2. <<>> \in Seq(W) /\ Len(s) \in Nat /\ \A n \in 1 .. Len(s) : s[n] \in W
  BY EmptySeq, LenProperties, ElementOfSeq
<1>3. PICK p \in [0 .. Len(s) -> Seq(W)] : Table(Keeps(W, S), <<>>, s, p)
  <2>1. <<>> \in Seq(W) /\ Keeps(W, S) \in [Seq(W) \X W -> Seq(W)]
    BY <1>2, KeepsType
  <2>. QED
    BY <2>1, TableExists, Zenon
<1>4. ASSUME NEW n \in 1 .. Len(s)
      PROVE  p[n] = IF s[n] \in S THEN Append(p[n - 1], s[n]) ELSE p[n - 1]
  <2>1. p[n - 1] \in Seq(W) /\ s[n] \in W
    BY <1>2, <1>3
  <2>2. p[n] = Keeps(W, S)[<<p[n - 1], s[n]>>]
    BY <1>3 DEF Table
  <2>3. Keeps(W, S)[<<p[n - 1], s[n]>>] = IF s[n] \in S THEN Append(p[n - 1], s[n]) ELSE p[n - 1]
    BY <2>1, KeepsValue
  <2>. QED
    BY <2>1, <2>2, <2>3, Zenon
<1>5. p = Rec(p)
  <2>1. \A n \in 0 .. Len(s) : p[n] = Rec(p)[n]
    <3>1. p[0] = <<>>
      BY <1>3 DEF Table
    <3>2. \A n \in 0 .. Len(s) : n = 0 \/ n \in 1 .. Len(s)
      BY <1>2
    <3> HIDE DEF h
    <3>. QED
      BY <1>4, <3>1, <3>2
  <2> HIDE DEF h
  <2>. QED
    BY <2>1, <1>3
<1>6. h = Rec(h)
  BY <1>5
<1>7. h[0] = <<>> /\ \A n \in 1 .. Len(s) :
        h[n] = IF s[n] \in S THEN Append(h[n - 1], s[n]) ELSE h[n - 1]
  <2> HIDE DEF h
  <2>1. \A n \in 0 .. Len(s) : h[n] =
             IF n = 0 THEN <<>>
             ELSE IF s[n] \in S THEN Append(h[n - 1], s[n]) ELSE h[n - 1]
    BY <1>6
  <2>. QED
    BY <1>2, <2>1
<1> HIDE DEF h
<1> DEFINE N == {n \in Nat : n <= Len(s) => h[n] = p[n]}
<1>8. 0 \in N
  BY <1>3, <1>7 DEF Table
<1>9. ASSUME NEW n \in N PROVE n + 1 \in N
  <2>1. ASSUME n + 1 <= Len(s) PROVE h[n + 1] = p[n + 1]
    <3>1. n + 1 \in 1 .. Len(s) /\ h[n] = p[n] /\ (n + 1) - 1 = n
      BY <1>2, <2>1
    <3>2. p[n + 1] = IF s[n + 1] \in S THEN Append(p[n], s[n + 1]) ELSE p[n]
      BY <1>4, <3>1
    <3>3. h[n + 1] = IF s[n + 1] \in S THEN Append(h[n], s[n + 1]) ELSE h[n]
      BY <1>7, <3>1
    <3> HIDE DEF N
    <3>4. h[n] = p[n]
      BY <3>1
    <3>5. h[n + 1] = IF s[n + 1] \in S THEN Append(p[n], s[n + 1]) ELSE p[n]
      BY <3>3, <3>4
    <3>. QED
      BY <3>2, <3>5
  <2>. QED
    BY <2>1
<1>10. N = Nat
  <2> HIDE DEF N
  <2>1. N \in SUBSET Nat
    BY DEF N
  <2>. QED
    BY <1>8, <1>9, <2>1, NatSets
<1>. QED
  BY <1>1, <1>2, <1>3, <1>10 DEF IsFold

LEMMA OnlyType ==
  ASSUME NEW W, NEW S, NEW s \in Seq(W)
  PROVE  Only(s, S) \in Seq(W)
<1>1. <<>> \in Seq(W) /\ Keeps(W, S) \in [Seq(W) \X W -> Seq(W)]
  BY KeepsType, EmptySeq
<1>. QED
  BY <1>1, OnlyFold, FoldType, Zenon

LEMMA OnlyEmpty == \A S : Only(<<>>, S) = <<>>
<1> SUFFICES ASSUME NEW S PROVE Only(<<>>, S) = <<>>
  OBVIOUS
<1>1. <<>> \in Seq({})
  BY EmptySeq
<1>. QED
  BY <1>1, OnlyFold, FoldEmpty

LEMMA OnlyAppend ==
  ASSUME NEW W, NEW S, NEW s \in Seq(W), NEW w \in W
  PROVE  Only(Append(s, w), S) = IF w \in S THEN Append(Only(s, S), w) ELSE Only(s, S)
<1>1. Append(s, w) \in Seq(W)
  BY AppendProperties
<1>2. /\ IsFold(Keeps(W, S), <<>>, s, Only(s, S))
      /\ IsFold(Keeps(W, S), <<>>, Append(s, w), Only(Append(s, w), S))
  BY <1>1, OnlyFold
<1>3. Only(Append(s, w), S) = Keeps(W, S)[<<Only(s, S), w>>]
  BY <1>2, FoldAppend
<1>4. Keeps(W, S)[<<Only(s, S), w>>] = IF w \in S THEN Append(Only(s, S), w) ELSE Only(s, S)
  BY OnlyType, KeepsValue
<1>. QED
  BY <1>3, <1>4, OnlyType, Zenon

LEMMA AppendAfter ==
  ASSUME NEW W, NEW s \in Seq(W), NEW t \in Seq(W), NEW w \in W
  PROVE  s \o Append(t, w) = Append(s \o t, w)
<1>1. <<w>> \in Seq(W) /\ s \o t \in Seq(W)
  BY ConcatProperties
<1>2. Append(t, w) = t \o <<w>> /\ Append(s \o t, w) = (s \o t) \o <<w>>
  BY <1>1, AppendIsConcat
<1>. QED
  BY <1>1, <1>2, ConcatAssociative

(* By induction on the second sequence.                                    *)
LEMMA OnlyConcat ==
  ASSUME NEW W, NEW S, NEW s \in Seq(W), NEW t \in Seq(W)
  PROVE  Only(s \o t, S) = Only(s, S) \o Only(t, S)
<1> DEFINE T == {u \in Seq(W) : Only(s \o u, S) = Only(s, S) \o Only(u, S)}
<1>1. <<>> \in T
  <2>1. <<>> \in Seq(W) /\ s \o <<>> = s /\ Only(s, S) \o <<>> = Only(s, S)
    BY EmptySeq, OnlyType, ConcatEmptySeq
  <2>. QED
    BY <2>1, OnlyEmpty
<1>2. ASSUME NEW u \in T, NEW w \in W PROVE Append(u, w) \in T
  <2>1. /\ u \in Seq(W) /\ s \o u \in Seq(W) /\ Append(u, w) \in Seq(W)
        /\ Only(s, S) \in Seq(W) /\ Only(u, S) \in Seq(W)
    BY AppendProperties, ConcatProperties, OnlyType
  <2>2. Only(s \o Append(u, w), S) = Only(Append(s \o u, w), S)
    <3>1. s \o Append(u, w) = Append(s \o u, w)
      BY <2>1, AppendAfter, SMTT(40)
    <3>. QED
      BY <3>1
  <2> HIDE DEF T
  <2>3. Only(Append(s \o u, w), S) = IF w \in S THEN Append(Only(s \o u, S), w) ELSE Only(s \o u, S)
    <3> DEFINE v == s \o u
    <3>1. v \in Seq(W)
      BY <2>1
    <3> HIDE DEF v
    <3>2. Only(Append(v, w), S) = IF w \in S THEN Append(Only(v, S), w) ELSE Only(v, S)
      BY <3>1, OnlyAppend
    <3>. QED
      BY <3>2 DEF v
  <2>4. Only(Append(u, w), S) = IF w \in S THEN Append(Only(u, S), w) ELSE Only(u, S)
    BY <2>1, OnlyAppend
  <2>5. Only(s, S) \o Append(Only(u, S), w) = Append(Only(s, S) \o Only(u, S), w)
    BY <2>1, AppendAfter
  <2>6. Only(s \o u, S) = Only(s, S) \o Only(u, S)
    BY DEF T
  <2>7. Only(s \o Append(u, w), S) = Only(s, S) \o Only(Append(u, w), S)
    BY <2>2, <2>3, <2>4, <2>5, <2>6
  <2>. QED
    BY <2>1, <2>7 DEF T
<1>3. T = Seq(W)
  <2> HIDE DEF T
  <2>1. T \in SUBSET Seq(W)
    BY DEF T
  <2>. QED
    BY <1>1, <1>2, <2>1, SeqSets
<1>. QED
  BY <1>3

(* Where the words kept were.                                              *)
Places(s, S, r, f) ==
  /\ f \in [1 .. Len(r) -> 1 .. Len(s)]
  /\ \A k \in 1 .. Len(r) : r[k] = s[f[k]] /\ r[k] \in S
  /\ \A j, k \in 1 .. Len(r) : j < k => f[j] < f[k]
  /\ \A i \in 1 .. Len(s) : s[i] \in S => \E k \in 1 .. Len(r) : f[k] = i

(* Each word of Only() comes from a place of its own, in the same order,   *)
(* and each place of S is one of them.                                     *)
LEMMA OnlyPlaces ==
  ASSUME NEW W, NEW S, NEW s \in Seq(W)
  PROVE  \E f : Places(s, S, Only(s, S), f)
<1> DEFINE T == {t \in Seq(W) : \E f : Places(t, S, Only(t, S), f)}
<1>1. <<>> \in T
  <2>1. <<>> \in Seq(W) /\ Only(<<>>, S) = <<>> /\ Len(<<>>) = 0
    BY EmptySeq, OnlyEmpty
  <2>2. Places(<<>>, S, <<>>, [k \in 1 .. 0 |-> 0])
    <3>1. 1 .. 0 = {} /\ Len(<<>>) = 0
      BY <2>1
    <3>. QED
      BY <3>1 DEF Places
  <2>. QED
    BY <2>1, <2>2
<1>2. ASSUME NEW t \in T, NEW w \in W PROVE Append(t, w) \in T
  <2>1. t \in Seq(W) /\ Append(t, w) \in Seq(W) /\ Only(t, S) \in Seq(W)
    BY AppendProperties, OnlyType
  <2> DEFINE n == Len(t)
             u == Append(t, w)
             r == Only(t, S)
  <2>2. n \in Nat /\ Len(u) = n + 1 /\ u[n + 1] = w /\ \A i \in 1 .. n : u[i] = t[i]
    BY <2>1, AppendProperties, LenProperties
  <2>3. PICK f : Places(t, S, r, f)
    OBVIOUS
  <2>4. Len(r) \in Nat
    BY <2>1, LenProperties
  <2>5. Only(u, S) = IF w \in S THEN Append(r, w) ELSE r
    BY <2>1, OnlyAppend
  <2>6. \A i \in 1 .. n + 1 : i \in 1 .. n \/ i = n + 1
    BY <2>2
  <2> HIDE DEF u, r, n
  <2>7. CASE w \notin S
    <3>1. Places(u, S, r, f)
      <4>1. f \in [1 .. Len(r) -> 1 .. n] /\ \A k \in 1 .. Len(r) : f[k] \in 1 .. n
        BY <2>3 DEF Places, n
      <4>2. f \in [1 .. Len(r) -> 1 .. Len(u)]
        BY <2>2, <4>1
      <4>3. \A k \in 1 .. Len(r) : r[k] = u[f[k]] /\ r[k] \in S
        BY <2>2, <2>3, <4>1 DEF Places
      <4>4. ASSUME NEW i \in 1 .. Len(u), u[i] \in S PROVE \E k \in 1 .. Len(r) : f[k] = i
        <5>1. i \in 1 .. n /\ t[i] \in S
          BY <2>2, <2>6, <2>7, <4>4
        <5>. QED
          BY <2>3, <5>1 DEF Places, n
      <4>. QED
        BY <2>3, <4>2, <4>3, <4>4 DEF Places
    <3>. QED
      BY <2>1, <2>5, <2>7, <3>1 DEF u, r
  <2>8. CASE w \in S
    <3> DEFINE q == Append(r, w)
               g == [k \in 1 .. Len(r) + 1 |-> IF k <= Len(r) THEN f[k] ELSE n + 1]
    <3>1. q \in Seq(W) /\ Len(q) = Len(r) + 1 /\ q[Len(r) + 1] = w /\ \A k \in 1 .. Len(r) : q[k] = r[k]
      BY <2>1, AppendProperties DEF r
    <3>2. \A k \in 1 .. Len(r) + 1 : k \in 1 .. Len(r) \/ k = Len(r) + 1
      BY <2>4
    <3>3. /\ \A k \in 1 .. Len(r) : g[k] = f[k]
          /\ g[Len(r) + 1] = n + 1 /\ DOMAIN g = 1 .. Len(r) + 1
      BY <2>4
    <3>4. f \in [1 .. Len(r) -> 1 .. n] /\ \A k \in 1 .. Len(r) : f[k] \in 1 .. n
      BY <2>3 DEF Places, n
    <3>5. g \in [1 .. Len(q) -> 1 .. Len(u)]
      BY <2>2, <3>1, <3>4
    <3> HIDE DEF q, g
    <3>6. ASSUME NEW k \in 1 .. Len(q) PROVE q[k] = u[g[k]] /\ q[k] \in S
      <4>1. CASE k \in 1 .. Len(r)
        <5>1. q[k] = r[k] /\ g[k] = f[k] /\ f[k] \in 1 .. n
          BY <3>1, <3>3, <3>4, <4>1
        <5>2. u[f[k]] = t[f[k]]
          BY <2>2, <5>1
        <5>3. r[k] = t[f[k]] /\ r[k] \in S
          BY <2>3, <4>1 DEF Places
        <5>. QED
          BY <5>1, <5>2, <5>3
      <4>2. CASE k = Len(r) + 1
        BY <2>2, <2>8, <3>1, <3>3, <4>2
      <4>. QED
        BY <3>1, <3>2, <4>1, <4>2
    <3>7. ASSUME NEW j \in 1 .. Len(q), NEW k \in 1 .. Len(q), j < k PROVE g[j] < g[k]
      <4>1. j \in 1 .. Len(r)
        BY <2>4, <3>1, <3>7
      <4>2. CASE k \in 1 .. Len(r)
        BY <2>3, <3>3, <3>7, <4>1, <4>2 DEF Places
      <4>3. CASE k = Len(r) + 1
        BY <2>2, <3>3, <3>4, <4>1, <4>3
      <4>. QED
        BY <3>1, <3>2, <4>2, <4>3
    <3>8. ASSUME NEW i \in 1 .. Len(u), u[i] \in S PROVE \E k \in 1 .. Len(q) : g[k] = i
      <4>1. CASE i \in 1 .. n
        <5>1. t[i] \in S
          BY <2>2, <3>8, <4>1
        <5>2. PICK k \in 1 .. Len(r) : f[k] = i
          BY <2>3, <4>1, <5>1 DEF Places, n
        <5>3. k \in 1 .. Len(q) /\ g[k] = i
          BY <2>4, <3>1, <3>3, <5>2
        <5>. QED
          BY <5>3
      <4>2. CASE i = n + 1
        <5>1. Len(r) + 1 \in 1 .. Len(q)
          BY <2>4, <3>1
        <5>. QED
          BY <3>3, <4>2, <5>1
      <4>. QED
        BY <2>2, <2>6, <4>1, <4>2
    <3>9. Places(u, S, q, g)
      BY <3>5, <3>6, <3>7, <3>8 DEF Places
    <3>. QED
      BY <2>1, <2>5, <2>8, <3>9 DEF u, q
  <2>. QED
    BY <2>7, <2>8
<1>3. T = Seq(W)
  <2> HIDE DEF T
  <2>1. T \in SUBSET Seq(W)
    BY DEF T
  <2>. QED
    BY <1>1, <1>2, <2>1, SeqSets
<1>. QED
  BY <1>3

(* Nothing is left out of a sequence that is in S.                         *)
LEMMA OnlyAll ==
  ASSUME NEW W, NEW S, NEW s \in Seq(W), \A i \in 1 .. Len(s) : s[i] \in S
  PROVE  Only(s, S) = s
<1> DEFINE T == {t \in Seq(W) : (\A i \in 1 .. Len(t) : t[i] \in S) => Only(t, S) = t}
<1>1. <<>> \in T
  BY EmptySeq, OnlyEmpty
<1>2. ASSUME NEW t \in T, NEW w \in W PROVE Append(t, w) \in T
  <2>1. t \in Seq(W) /\ Append(t, w) \in Seq(W) /\ Len(t) \in Nat
    BY AppendProperties, LenProperties
  <2>2. /\ Len(Append(t, w)) = Len(t) + 1 /\ Append(t, w)[Len(t) + 1] = w
        /\ \A i \in 1 .. Len(t) : Append(t, w)[i] = t[i]
    BY <2>1, AppendProperties
  <2>3. Only(Append(t, w), S) = IF w \in S THEN Append(Only(t, S), w) ELSE Only(t, S)
    BY <2>1, OnlyAppend
  <2> SUFFICES ASSUME \A i \in 1 .. Len(t) + 1 : Append(t, w)[i] \in S
               PROVE  Only(Append(t, w), S) = Append(t, w)
    BY <2>1, <2>2
  <2>4. w \in S /\ \A i \in 1 .. Len(t) : t[i] \in S
    BY <2>1, <2>2
  <2>. QED
    BY <2>3, <2>4
<1>3. T = Seq(W)
  <2> HIDE DEF T
  <2>1. T \in SUBSET Seq(W)
    BY DEF T
  <2>. QED
    BY <1>1, <1>2, <2>1, SeqSets
<1>. QED
  BY <1>3

-----------------------------------------------------------------------------
(* FoldLeft() folds over the sets of indices: it is a fold over prefixes.  *)
LEMMA MaxExists ==
  ASSUME NEW n \in Nat, NEW x \in SUBSET (1 .. n), x # {}
  PROVE  Max(x) \in x /\ \A y \in x : y <= Max(x)
<1> DEFINE B == {m \in Nat : \A y \in x : y <= m}
<1>1. n \in B
  OBVIOUS
<1>2. PICK m \in B : \A k \in B : m <= k
  <2> HIDE DEF B
  <2>1. B \in SUBSET Nat /\ B # {}
    BY <1>1 DEF B
  <2>. QED
    BY <2>1, First
<1>3. m \in Nat /\ \A y \in x : y \in Nat /\ y <= m
  OBVIOUS
<1>4. m \in x
  <2> SUFFICES ASSUME m \notin x PROVE FALSE
    OBVIOUS
  <2>1. \A y \in x : y \in 1 .. n /\ y <= m /\ y # m
    BY <1>3
  <2>2. m # 0
    <3>1. PICK y : y \in x
      OBVIOUS
    <3>. QED
      BY <2>1, <3>1
  <2>3. m - 1 \in Nat /\ \A y \in x : y <= m - 1
    BY <1>3, <2>1, <2>2
  <2>4. m - 1 \in B
    BY <2>3
  <2> HIDE DEF B
  <2>. QED
    BY <1>2, <1>3, <2>4
<1>5. \E z \in x : \A y \in x : z >= y
  BY <1>3, <1>4
<1>6. Max(x) \in x /\ \A y \in x : Max(x) >= y
  BY <1>5, Zenon DEF Max
<1>. QED
  BY <1>6, <1>3

LEMMA MaxOfPrefix ==
  ASSUME NEW n \in Nat, NEW x \in SUBSET (1 .. n + 1), n + 1 \in x
  PROVE  Max(x) = n + 1
<1>1. n + 1 \in Nat /\ x # {}
  OBVIOUS
<1>2. Max(x) \in x /\ n + 1 <= Max(x)
  BY <1>1, MaxExists
<1>3. Max(x) \in 1 .. n + 1
  BY <1>2
<1>. QED
  BY <1>2, <1>3

FoldSets(A, G, base, s, N, g) ==
  /\ g \in [SUBSET N -> A]
  /\ \A x \in SUBSET N : g[x] = IF x = {} THEN base ELSE G[<<g[x \ {Max(x)}], s[Max(x)]>>]

(* FoldLeft() chooses a function on the sets of indices: there is one.     *)
LEMMA FoldSetsExist ==
  ASSUME NEW A, NEW W, NEW base \in A, NEW G \in [A \X W -> A], NEW s \in Seq(W)
  PROVE  \E g : FoldSets(A, G, base, s, DOMAIN s, g)
<1> DEFINE N == {n \in Nat : n <= Len(s) => \E g : FoldSets(A, G, base, s, 1 .. n, g)}
<1>1. 0 \in N
  <2> DEFINE g == [x \in SUBSET (1 .. 0) |-> base]
  <2>1. 1 .. 0 = {}
    OBVIOUS
  <2>2. FoldSets(A, G, base, s, 1 .. 0, g)
    BY <2>1 DEF FoldSets
  <2>. QED
    BY <2>2
<1>2. ASSUME NEW n \in N PROVE n + 1 \in N
  <2> SUFFICES ASSUME n + 1 <= Len(s) PROVE \E g : FoldSets(A, G, base, s, 1 .. n + 1, g)
    OBVIOUS
  <2>1. n \in Nat /\ n <= Len(s) /\ s[n + 1] \in W
    BY LenProperties, ElementOfSeq
  <2>2. PICK g : FoldSets(A, G, base, s, 1 .. n, g)
    BY <2>1
  <2> DEFINE h == [x \in SUBSET (1 .. n + 1) |->
               IF x \in SUBSET (1 .. n) THEN g[x] ELSE G[<<g[x \ {n + 1}], s[n + 1]>>]]
  <2>3. ASSUME NEW x \in SUBSET (1 .. n + 1), x \notin SUBSET (1 .. n)
        PROVE  Max(x) = n + 1 /\ x \ {n + 1} \in SUBSET (1 .. n) /\ x # {}
    <3>1. \A y \in 1 .. n + 1 : y \in 1 .. n \/ y = n + 1
      BY <2>1
    <3>2. n + 1 \in x
      BY <2>3, <3>1
    <3>. QED
      BY <2>1, <3>1, <3>2, MaxOfPrefix
  <2>4. \A x \in SUBSET (1 .. n + 1) : h[x] \in A
    <3>1. \A x \in SUBSET (1 .. n) : g[x] \in A
      BY <2>2 DEF FoldSets
    <3>. QED
      BY <2>1, <2>3, <3>1
  <2>5. h \in [SUBSET (1 .. n + 1) -> A]
    BY <2>4
  <2>6. ASSUME NEW x \in SUBSET (1 .. n + 1)
        PROVE  h[x] = IF x = {} THEN base ELSE G[<<h[x \ {Max(x)}], s[Max(x)]>>]
    <3>1. CASE x \in SUBSET (1 .. n)
      <4>1. x \ {Max(x)} \in SUBSET (1 .. n) /\ x \ {Max(x)} \in SUBSET (1 .. n + 1)
        BY <3>1
      <4>2. h[x] = g[x] /\ h[x \ {Max(x)}] = g[x \ {Max(x)}]
        BY <3>1, <4>1
      <4> HIDE DEF h
      <4>. QED
        BY <2>2, <3>1, <4>2 DEF FoldSets
    <3>2. CASE x \notin SUBSET (1 .. n)
      <4>1. Max(x) = n + 1 /\ x \ {n + 1} \in SUBSET (1 .. n) /\ x # {}
        BY <2>3, <3>2
      <4>2. x \ {n + 1} \in SUBSET (1 .. n + 1)
        OBVIOUS
      <4>3. h[x] = G[<<g[x \ {n + 1}], s[n + 1]>>] /\ h[x \ {n + 1}] = g[x \ {n + 1}]
        BY <3>2, <4>1, <4>2
      <4> HIDE DEF h
      <4>. QED
        BY <4>1, <4>3
    <3>. QED
      BY <3>1, <3>2
  <2> HIDE DEF h
  <2>7. FoldSets(A, G, base, s, 1 .. n + 1, h)
    BY <2>5, <2>6 DEF FoldSets
  <2>. QED
    BY <2>7
<1>3. N = Nat
  <2> HIDE DEF N
  <2>1. N \in SUBSET Nat
    BY DEF N
  <2>. QED
    BY <1>1, <1>2, <2>1, NatSets
<1>4. DOMAIN s = 1 .. Len(s) /\ Len(s) \in Nat
  BY LenProperties
<1>. QED
  BY <1>3, <1>4

(* Its value for all the indices is that of the table.                     *)
LEMMA FoldOfSets ==
  ASSUME NEW A, NEW W, NEW base \in A, NEW G \in [A \X W -> A], NEW s \in Seq(W), NEW h,
         h[{}] = base,
         \A x \in SUBSET DOMAIN s : x # {} =>
           (h[x \ {Max(x)}] \in A => h[x] = G[<<h[x \ {Max(x)}], s[Max(x)]>>])
  PROVE  IsFold(G, base, s, h[DOMAIN s])
<1>1. DOMAIN s = 1 .. Len(s) /\ Len(s) \in Nat /\ \A n \in 1 .. Len(s) : s[n] \in W
  BY LenProperties, ElementOfSeq
<1>2. ASSUME NEW n \in Nat, n + 1 <= Len(s), h[1 .. n] \in A
      PROVE  h[1 .. n + 1] = G[<<h[1 .. n], s[n + 1]>>] /\ h[1 .. n + 1] \in A
  <2>1. 1 .. n + 1 \in SUBSET DOMAIN s /\ n + 1 \in 1 .. n + 1 /\ (1 .. n + 1) \ {n + 1} = 1 .. n
    BY <1>1, <1>2
  <2>2. Max(1 .. n + 1) = n + 1
    BY <2>1, MaxOfPrefix
  <2>3. s[n + 1] \in W
    BY <1>1, <1>2
  <2>. QED
    BY <1>2, <2>1, <2>2, <2>3
<1> DEFINE N == {n \in Nat : n <= Len(s) => h[1 .. n] \in A}
<1>3. 1 .. 0 = {}
  OBVIOUS
<1>4. 0 \in N
  BY <1>3
<1>5. ASSUME NEW n \in N PROVE n + 1 \in N
  <2>1. n \in Nat /\ n + 1 \in Nat /\ (n + 1 <= Len(s) => h[1 .. n] \in A)
    BY <1>1
  <2>2. n + 1 <= Len(s) => h[1 .. n + 1] \in A
    BY <1>2, <2>1
  <2>. QED
    BY <2>1, <2>2
<1>6. N = Nat
  <2> HIDE DEF N
  <2>1. N \in SUBSET Nat
    BY DEF N
  <2>. QED
    BY <1>4, <1>5, <2>1, NatSets
<1> DEFINE p == [n \in 0 .. Len(s) |-> h[1 .. n]]
<1>7. ASSUME NEW n \in 1 .. Len(s) PROVE p[n] = G[<<p[n - 1], s[n]>>]
  <2>1. n - 1 \in Nat /\ n - 1 <= Len(s) /\ (n - 1) + 1 = n /\ n \in 0 .. Len(s) /\ n - 1 \in 0 .. Len(s)
    BY <1>1
  <2>2. h[1 .. n - 1] \in A
    BY <1>6, <2>1
  <2>3. h[1 .. (n - 1) + 1] = G[<<h[1 .. n - 1], s[(n - 1) + 1]>>]
    BY <1>2, <2>1, <2>2
  <2>. QED
    BY <2>1, <2>3
<1>8. p[0] = base /\ p[Len(s)] = h[DOMAIN s]
  BY <1>1, <1>3
<1> HIDE DEF p
<1>9. Table(G, base, s, p)
  BY <1>7, <1>8 DEF Table
<1>. QED
  BY <1>8, <1>9 DEF IsFold
-----------------------------------------------------------------------------
(* SetEventsCollection(), word by word.                                    *)
None == [leading |-> <<>>, over |-> FALSE, hits |-> <<>>]
Pair(acc, w) ==
  IF acc.over \/ ~IsEdge(w) THEN acc
  ELSE IF ~w.trailing THEN [acc EXCEPT !.leading = <<w>>]
  ELSE IF acc.leading = <<>> THEN [acc EXCEPT !.over = TRUE]
  ELSE [acc EXCEPT !.hits = Append(@, <<acc.leading[1], w>>)]
Paired(words) == FoldLeft(Pair, None, words)
Pairings(W) == [leading : {<<>>} \cup {<<w>> : w \in W}, over : BOOLEAN, hits : Seq(W \X W)]
Pairs(W) == [p \in Pairings(W) \X W |-> Pair(p[1], p[2])]

LEMMA HitsOfPaired == \A words : SetEventsCollection(words) = Paired(words).hits
BY Zenon DEF SetEventsCollection, Paired, Pair, None

LEMMA PairType ==
  ASSUME NEW W, NEW acc \in Pairings(W), NEW w \in W
  PROVE  Pair(acc, w) \in Pairings(W)
<1>1. acc.over \in BOOLEAN /\ acc.hits \in Seq(W \X W) /\ acc.leading \in {<<>>} \cup {<<v>> : v \in W}
  BY DEF Pairings
<1>2. ASSUME acc.leading # <<>> PROVE Append(acc.hits, <<acc.leading[1], w>>) \in Seq(W \X W)
  <2>1. acc.leading[1] \in W
    BY <1>1, <1>2
  <2>. QED
    BY <1>1, <2>1, AppendProperties
<1>. QED
  BY <1>1, <1>2 DEF Pair, Pairings

(* The pairing is a fold over the words, edge by edge.                     *)
LEMMA PairedFold ==
  ASSUME NEW W, NEW s \in Seq(W)
  PROVE  IsFold(Pairs(W), None, s, Paired(s))
<1> DEFINE A == Pairings(W)
           G == Pairs(W)
           Rec(g) == [x \in SUBSET DOMAIN s |->
              IF x = {} THEN None ELSE Pair(g[x \ {Max(x)}], s[Max(x)])]
           h == CHOOSE g : g = Rec(g)
<1>1. None \in A
  BY EmptySeq DEF None, Pairings
<1>2. \A a \in A, w \in W : Pair(a, w) \in A /\ G[<<a, w>>] = Pair(a, w)
  BY PairType DEF Pairs
<1>3. G \in [A \X W -> A]
  BY PairType DEF Pairs
<1>4. Paired(s) = h[DOMAIN s]
  <2> HIDE DEF Pair
  <2>. QED
    BY Zenon DEF Paired, FoldLeft, MapThenFoldSet
<1>5. \A x \in SUBSET DOMAIN s : x # {} => s[Max(x)] \in W /\ x \ {Max(x)} \in SUBSET DOMAIN s
  <2>1. DOMAIN s = 1 .. Len(s) /\ Len(s) \in Nat /\ \A n \in 1 .. Len(s) : s[n] \in W
    BY LenProperties, ElementOfSeq
  <2>. QED
    BY <2>1, MaxExists
<1> HIDE DEF A, G
<1>6. PICK g : FoldSets(A, G, None, s, DOMAIN s, g)
  BY <1>1, <1>3, FoldSetsExist
<1>7. g = Rec(g)
  <2>1. ASSUME NEW x \in SUBSET DOMAIN s
        PROVE  g[x] = IF x = {} THEN None ELSE Pair(g[x \ {Max(x)}], s[Max(x)])
    <3>1. x # {} => g[x \ {Max(x)}] \in A /\ s[Max(x)] \in W
      BY <1>5, <1>6 DEF FoldSets
    <3>2. g[x] = IF x = {} THEN None ELSE G[<<g[x \ {Max(x)}], s[Max(x)]>>]
      BY <1>6 DEF FoldSets
    <3>. QED
      BY <1>2, <3>1, <3>2, Zenon
  <2>2. g = [x \in SUBSET DOMAIN s |-> g[x]]
    BY <1>6 DEF FoldSets
  <2> HIDE DEF h
  <2>. QED
    BY <2>1, <2>2, Zenon
<1>8. h = Rec(h)
  BY <1>7, Zenon
<1> HIDE DEF h
<1>9. \A x \in SUBSET DOMAIN s :
        h[x] = IF x = {} THEN None ELSE Pair(h[x \ {Max(x)}], s[Max(x)])
  BY <1>8, Zenon
<1>10. h[{}] = None
  BY <1>9
<1>11. \A x \in SUBSET DOMAIN s : x # {} =>
         (h[x \ {Max(x)}] \in A => h[x] = G[<<h[x \ {Max(x)}], s[Max(x)]>>])
  BY <1>2, <1>5, <1>9, Zenon
<1>12. IsFold(G, None, s, h[DOMAIN s])
  BY <1>1, <1>3, <1>10, <1>11, FoldOfSets, Zenon
<1>. QED
  BY <1>4, <1>12 DEF G

LEMMA PairedEmpty == Paired(<<>>) = None
<1>1. <<>> \in Seq({})
  BY EmptySeq
<1>. QED
  BY <1>1, PairedFold, FoldEmpty

LEMMA NoneType == \A W : None \in Pairings(W)
BY EmptySeq DEF None, Pairings

LEMMA PairedType ==
  ASSUME NEW W, NEW s \in Seq(W)
  PROVE  Paired(s) \in Pairings(W)
<1>1. None \in Pairings(W) /\ Pairs(W) \in [Pairings(W) \X W -> Pairings(W)]
  BY NoneType, PairType DEF Pairs
<1>. QED
  BY <1>1, PairedFold, FoldType, Zenon

LEMMA PairedAppend ==
  ASSUME NEW W, NEW s \in Seq(W), NEW w \in W
  PROVE  Paired(Append(s, w)) = Pair(Paired(s), w)
<1>1. Append(s, w) \in Seq(W)
  BY AppendProperties
<1>2. Paired(Append(s, w)) = Pairs(W)[<<Paired(s), w>>]
  <2>1. IsFold(Pairs(W), None, s, Paired(s)) /\ IsFold(Pairs(W), None, Append(s, w), Paired(Append(s, w)))
    BY <1>1, PairedFold
  <2>. QED
    BY <2>1, FoldAppend, Zenon
<1>3. Pairs(W)[<<Paired(s), w>>] = Pair(Paired(s), w)
  <2> HIDE DEF Pair
  <2>. QED
    BY PairedType DEF Pairs
<1>. QED
  BY <1>2, <1>3

(* A leading edge stays in use until the next one, and each hit ends with  *)
(* a trailing edge that it was in use at.                                  *)
InUse(s, i, n) ==
  i \in 1 .. n /\ IsLeading(s[i]) /\ \A m \in i + 1 .. n : ~IsLeading(s[m])
Hit(s, hit, n) ==
  \E i, j \in 1 .. n : i < j /\ hit = <<s[i], s[j]>> /\ IsTrailing(s[j]) /\ InUse(s, i, j - 1)
PairedInv(s, acc) ==
  /\ ~acc.over /\ acc.leading # <<>> =>
       \E i \in 1 .. Len(s) : acc.leading = <<s[i]>> /\ InUse(s, i, Len(s))
  /\ \A k \in 1 .. Len(acc.hits) : Hit(s, acc.hits[k], Len(s))

(* By induction on the words.                                              *)
LEMMA PairedHits ==
  ASSUME NEW W, NEW s \in Seq(W)
  PROVE  PairedInv(s, Paired(s))
<1> DEFINE T == {t \in Seq(W) : PairedInv(t, Paired(t))}
<1>1. <<>> \in T
  <2>1. <<>> \in Seq(W) /\ Len(<<>>) = 0 /\ None.leading = <<>> /\ None.hits = <<>>
    BY EmptySeq DEF None
  <2>2. PairedInv(<<>>, None)
    BY <2>1 DEF PairedInv
  <2>. QED
    BY <2>1, <2>2, PairedEmpty
<1>2. ASSUME NEW t \in T, NEW w \in W PROVE Append(t, w) \in T
  <2> DEFINE u == Append(t, w)
             n == Len(t)
             acc == Paired(t)
             new == Paired(u)
  <2>1. t \in Seq(W) /\ u \in Seq(W) /\ n \in Nat /\ Len(u) = n + 1 /\ PairedInv(t, acc)
    BY AppendProperties, LenProperties
  <2>2. u[n + 1] = w /\ \A i \in 1 .. n : u[i] = t[i]
    BY AppendProperties
  <2>3. acc \in Pairings(W) /\ new = Pair(acc, w)
    BY <2>1, PairedType, PairedAppend
  <2>4. /\ acc = [leading |-> acc.leading, over |-> acc.over, hits |-> acc.hits]
        /\ acc.hits \in Seq(W \X W) /\ acc.over \in BOOLEAN
        /\ acc.leading \in {<<>>} \cup {<<v>> : v \in W}
    BY <2>3 DEF Pairings
  <2> HIDE DEF u, n, acc, new, T
  <2>5. \A i, m \in 1 .. n : InUse(t, i, m) => InUse(u, i, m)
    BY <2>1, <2>2 DEF InUse
  <2>6. ASSUME NEW hit, NEW k \in 1 .. n, Hit(t, hit, n) PROVE Hit(u, hit, n + 1)
    <3>1. PICK i, j \in 1 .. n : i < j /\ hit = <<t[i], t[j]>> /\ IsTrailing(t[j]) /\ InUse(t, i, j - 1)
      BY <2>6 DEF Hit
    <3>2. j - 1 \in 1 .. n /\ i \in 1 .. n + 1 /\ j \in 1 .. n + 1
      BY <2>1, <3>1
    <3>3. InUse(u, i, j - 1) /\ u[i] = t[i] /\ u[j] = t[j]
      BY <2>2, <2>5, <3>1, <3>2
    <3>. QED
      BY <3>1, <3>2, <3>3 DEF Hit
  <2>7. \A k \in 1 .. Len(acc.hits) : Hit(u, acc.hits[k], n + 1)
    <3> SUFFICES ASSUME NEW k \in 1 .. Len(acc.hits) PROVE Hit(u, acc.hits[k], n + 1)
      OBVIOUS
    <3>1. Hit(t, acc.hits[k], n)
      BY <2>1 DEF PairedInv, n
    <3>2. \E j : j \in 1 .. n
      BY <3>1 DEF Hit
    <3>. QED
      BY <2>6, <3>1, <3>2
  <2> SUFFICES PairedInv(u, new)
    BY <2>1 DEF T, u, new
  <2> DEFINE Open == ~new.over /\ new.leading # <<>> =>
                       \E i \in 1 .. n + 1 : new.leading = <<u[i]>> /\ InUse(u, i, n + 1)
             Closed1 == \A k \in 1 .. Len(new.hits) : Hit(u, new.hits[k], n + 1)
  <2>0. Open /\ Closed1 => PairedInv(u, new)
    <3>1. Len(u) = n + 1
      BY <2>1
    <3>. QED
      BY <3>1 DEF PairedInv
  <2>8. CASE acc.over \/ ~IsEdge(w)
    <3>1. new = acc
      BY <2>3, <2>8 DEF Pair
    <3>2. ASSUME ~acc.over, acc.leading # <<>>
          PROVE  \E i \in 1 .. n + 1 : acc.leading = <<u[i]>> /\ InUse(u, i, n + 1)
      <4>1. PICK i \in 1 .. n : acc.leading = <<t[i]>> /\ InUse(t, i, n)
        BY <2>1, <3>2 DEF PairedInv, n
      <4>2. i \in 1 .. n + 1 /\ u[i] = t[i] /\ ~IsLeading(u[n + 1])
        BY <2>1, <2>2, <2>8, <3>2 DEF IsLeading
      <4>3. \A m \in i + 1 .. n + 1 : m \in i + 1 .. n \/ m = n + 1
        BY <2>1
      <4>4. \A m \in i + 1 .. n : u[m] = t[m]
        BY <2>1, <2>2
      <4>5. InUse(u, i, n + 1)
        BY <2>1, <4>1, <4>2, <4>3, <4>4 DEF InUse
      <4>. QED
        BY <4>1, <4>2, <4>5
    <3>. QED
      BY <2>0, <2>7, <3>1, <3>2
  <2>9. CASE ~acc.over /\ IsEdge(w) /\ ~w.trailing
    <3>1. new = [acc EXCEPT !.leading = <<w>>]
      BY <2>3, <2>9 DEF Pair
    <3>2. new.leading = <<w>> /\ new.hits = acc.hits
      BY <2>4, <3>1
    <3>3. InUse(u, n + 1, n + 1) /\ n + 1 \in 1 .. n + 1
      BY <2>1, <2>2, <2>9 DEF InUse, IsLeading
    <3>. QED
      BY <2>0, <2>2, <2>7, <3>2, <3>3
  <2>10. CASE ~acc.over /\ IsEdge(w) /\ w.trailing /\ acc.leading = <<>>
    <3>1. new = [acc EXCEPT !.over = TRUE]
      BY <2>3, <2>10 DEF Pair
    <3>2. new.over /\ new.hits = acc.hits
      BY <2>4, <3>1
    <3>. QED
      BY <2>0, <2>7, <3>2
  <2>11. CASE ~acc.over /\ IsEdge(w) /\ w.trailing /\ acc.leading # <<>>
    <3> DEFINE hit == <<acc.leading[1], w>>
    <3>1. new = [acc EXCEPT !.hits = Append(@, hit)]
      BY <2>3, <2>11 DEF Pair
    <3>2. new.leading = acc.leading /\ new.hits = Append(acc.hits, hit)
      BY <2>4, <3>1
    <3>3. PICK i \in 1 .. n : acc.leading = <<t[i]>> /\ InUse(t, i, n)
      BY <2>1, <2>11 DEF PairedInv, n
    <3>4. acc.leading[1] = t[i] /\ u[i] = t[i] /\ i \in 1 .. n + 1 /\ n + 1 \in 1 .. n + 1 /\ i < n + 1
      BY <2>1, <2>2, <3>3
    <3>5. hit = <<u[i], u[n + 1]>> /\ IsTrailing(u[n + 1])
      BY <2>2, <2>11, <3>4 DEF IsTrailing
    <3>6. n \in 1 .. n /\ (n + 1) - 1 = n
      BY <2>1, <3>3
    <3>7. InUse(u, i, n)
      BY <2>5, <3>3, <3>6
    <3>8. Hit(u, hit, n + 1)
      BY <3>4, <3>5, <3>6, <3>7 DEF Hit
    <3>9. InUse(u, i, n + 1) /\ acc.leading = <<u[i]>>
      <4>1. ~IsLeading(u[n + 1])
        BY <3>5 DEF IsLeading, IsTrailing
      <4>2. \A m \in i + 1 .. n + 1 : m \in i + 1 .. n \/ m = n + 1
        BY <2>1
      <4>. QED
        BY <3>3, <3>4, <3>7, <4>1, <4>2 DEF InUse
    <3>10. hit \in W \X W
      BY <2>4, <2>11
    <3> HIDE DEF hit
    <3>11. /\ Len(new.hits) = Len(acc.hits) + 1 /\ Len(acc.hits) \in Nat
           /\ new.hits[Len(acc.hits) + 1] = hit
           /\ \A k \in 1 .. Len(acc.hits) : new.hits[k] = acc.hits[k]
      BY <2>4, <3>2, <3>10, AppendProperties, LenProperties
    <3>12. ASSUME NEW k \in 1 .. Len(new.hits) PROVE Hit(u, new.hits[k], n + 1)
      <4>1. k \in 1 .. Len(acc.hits) \/ k = Len(acc.hits) + 1
        BY <3>11
      <4>. QED
        BY <2>7, <3>8, <3>11, <4>1
    <3>. QED
      BY <2>0, <3>2, <3>4, <3>9, <3>12
  <2>. QED
    BY <2>4, <2>8, <2>9, <2>10, <2>11, Zenon
<1>3. T = Seq(W)
  <2> HIDE DEF T
  <2>1. T \in SUBSET Seq(W)
    BY DEF T
  <2>. QED
    BY <1>1, <1>2, <2>1, SeqSets
<1>. QED
  BY <1>3

-----------------------------------------------------------------------------
(* FirstOccurrences(), word by word.                                       *)
AddFirst(acc, w) == IF Contains(acc, w) THEN acc ELSE Append(acc, w)
Firsts(W) == [p \in Seq(W) \X W |-> AddFirst(p[1], p[2])]

LEMMA AddFirstType ==
  ASSUME NEW W, NEW acc \in Seq(W), NEW w \in W
  PROVE  AddFirst(acc, w) \in Seq(W)
BY AppendProperties DEF AddFirst

LEMMA FirstsFold ==
  ASSUME NEW W, NEW s \in Seq(W)
  PROVE  IsFold(Firsts(W), <<>>, s, FirstOccurrences(s))
<1> DEFINE A == Seq(W)
           G == Firsts(W)
           Rec(g) == [x \in SUBSET DOMAIN s |->
              IF x = {} THEN <<>> ELSE AddFirst(g[x \ {Max(x)}], s[Max(x)])]
           h == CHOOSE g : g = Rec(g)
<1>1. <<>> \in A
  BY EmptySeq
<1>2. \A a \in A, w \in W : G[<<a, w>>] = AddFirst(a, w)
  <2> HIDE DEF AddFirst
  <2>. QED
    BY DEF Firsts
<1>3. G \in [A \X W -> A]
  <2>1. \A a \in A, w \in W : AddFirst(a, w) \in A
    BY AddFirstType
  <2> HIDE DEF A
  <2>2. G = [p \in A \X W |-> AddFirst(p[1], p[2])]
    BY DEF A, Firsts
  <2> HIDE DEF AddFirst, G
  <2>. QED
    BY <2>1, <2>2
<1>4. FirstOccurrences(s) = h[DOMAIN s]
  BY Zenon DEF FirstOccurrences, AddFirst, FoldLeft, MapThenFoldSet
<1>5. \A x \in SUBSET DOMAIN s : x # {} => s[Max(x)] \in W /\ x \ {Max(x)} \in SUBSET DOMAIN s
  <2>1. DOMAIN s = 1 .. Len(s) /\ Len(s) \in Nat /\ \A n \in 1 .. Len(s) : s[n] \in W
    BY LenProperties, ElementOfSeq
  <2>. QED
    BY <2>1, MaxExists
<1> HIDE DEF A, G, AddFirst
<1>6. PICK g : FoldSets(A, G, <<>>, s, DOMAIN s, g)
  BY <1>1, <1>3, FoldSetsExist
<1>7. g = Rec(g)
  <2>1. ASSUME NEW x \in SUBSET DOMAIN s
        PROVE  g[x] = IF x = {} THEN <<>> ELSE AddFirst(g[x \ {Max(x)}], s[Max(x)])
    <3>1. x # {} => g[x \ {Max(x)}] \in A /\ s[Max(x)] \in W
      BY <1>5, <1>6 DEF FoldSets
    <3>2. g[x] = IF x = {} THEN <<>> ELSE G[<<g[x \ {Max(x)}], s[Max(x)]>>]
      BY <1>6 DEF FoldSets
    <3>. QED
      BY <1>2, <3>1, <3>2, Zenon
  <2>2. g = [x \in SUBSET DOMAIN s |-> g[x]]
    BY <1>6 DEF FoldSets
  <2> HIDE DEF h
  <2>. QED
    BY <2>1, <2>2, Zenon
<1>8. h = Rec(h)
  BY <1>7, Zenon
<1> HIDE DEF h
<1>9. \A x \in SUBSET DOMAIN s :
        h[x] = IF x = {} THEN <<>> ELSE AddFirst(h[x \ {Max(x)}], s[Max(x)])
  BY <1>8, Zenon
<1>10. h[{}] = <<>>
  BY <1>9
<1>11. \A x \in SUBSET DOMAIN s : x # {} =>
         (h[x \ {Max(x)}] \in A => h[x] = G[<<h[x \ {Max(x)}], s[Max(x)]>>])
  BY <1>2, <1>5, <1>9, Zenon
<1>12. IsFold(G, <<>>, s, h[DOMAIN s])
  BY <1>1, <1>3, <1>10, <1>11, FoldOfSets, Zenon
<1>. QED
  BY <1>4, <1>12 DEF G

LEMMA FirstsType ==
  ASSUME NEW W, NEW s \in Seq(W)
  PROVE  FirstOccurrences(s) \in Seq(W)
<1> DEFINE A == Seq(W)
<1>1. <<>> \in A
  BY EmptySeq
<1>2. Firsts(W) \in [A \X W -> A]
  <2>1. \A a \in A, w \in W : AddFirst(a, w) \in A
    BY AddFirstType
  <2> DEFINE G == Firsts(W)
  <2> HIDE DEF A
  <2>2. G = [p \in A \X W |-> AddFirst(p[1], p[2])]
    BY DEF A, Firsts
  <2> HIDE DEF AddFirst, G
  <2>3. G \in [A \X W -> A]
    BY <2>1, <2>2
  <2>. QED
    BY <2>3 DEF G
<1> HIDE DEF A
<1>3. FirstOccurrences(s) \in A
  BY <1>1, <1>2, FirstsFold, FoldType, Zenon
<1>. QED
  BY <1>3 DEF A

LEMMA FirstsEmpty == FirstOccurrences(<<>>) = <<>>
<1>1. <<>> \in Seq({})
  BY EmptySeq
<1>. QED
  BY <1>1, FirstsFold, FoldEmpty

LEMMA FirstsAppend ==
  ASSUME NEW W, NEW s \in Seq(W), NEW w \in W
  PROVE  FirstOccurrences(Append(s, w)) = AddFirst(FirstOccurrences(s), w)
<1>1. Append(s, w) \in Seq(W)
  BY AppendProperties
<1>2. FirstOccurrences(Append(s, w)) = Firsts(W)[<<FirstOccurrences(s), w>>]
  <2>1. /\ IsFold(Firsts(W), <<>>, s, FirstOccurrences(s))
        /\ IsFold(Firsts(W), <<>>, Append(s, w), FirstOccurrences(Append(s, w)))
    BY <1>1, FirstsFold
  <2>. QED
    BY <2>1, FoldAppend, Zenon
<1> DEFINE r == FirstOccurrences(s)
<1>3. r \in Seq(W)
  BY FirstsType
<1> HIDE DEF r, AddFirst
<1>4. Firsts(W)[<<r, w>>] = AddFirst(r, w)
  BY <1>3 DEF Firsts
<1>. QED
  BY <1>2, <1>4 DEF r

LEMMA ContainsAppend ==
  ASSUME NEW W, NEW s \in Seq(W), NEW w \in W, NEW v
  PROVE  Contains(Append(s, w), v) <=> Contains(s, v) \/ v = w
<1>1. /\ Len(s) \in Nat /\ Len(Append(s, w)) = Len(s) + 1 /\ Append(s, w)[Len(s) + 1] = w
      /\ \A i \in 1 .. Len(s) : Append(s, w)[i] = s[i]
  BY AppendProperties, LenProperties
<1> DEFINE t == Append(s, w)
<1> HIDE DEF t
<1>2. ASSUME Contains(t, v) PROVE Contains(s, v) \/ v = w
  <2>1. PICK i \in 1 .. Len(t) : t[i] = v
    BY <1>2 DEF Contains
  <2>2. i \in 1 .. Len(s) \/ i = Len(s) + 1
    BY <1>1, <2>1 DEF t
  <2>. QED
    BY <1>1, <2>1, <2>2 DEF Contains, t
<1>3. ASSUME Contains(s, v) PROVE Contains(t, v)
  <2>1. PICK i \in 1 .. Len(s) : s[i] = v
    BY <1>3 DEF Contains
  <2>2. i \in 1 .. Len(t) /\ t[i] = v
    BY <1>1, <2>1 DEF t
  <2>. QED
    BY <2>2 DEF Contains
<1>4. Contains(t, w)
  <2>1. Len(s) + 1 \in 1 .. Len(t) /\ t[Len(s) + 1] = w
    BY <1>1 DEF t
  <2>. QED
    BY <2>1 DEF Contains
<1>. QED
  BY <1>2, <1>3, <1>4 DEF t

(* The first occurrences are those of all the words.                       *)
LEMMA FirstsContain ==
  ASSUME NEW W, NEW s \in Seq(W), NEW v
  PROVE  Contains(FirstOccurrences(s), v) <=> Contains(s, v)
<1> DEFINE T == {t \in Seq(W) : Contains(FirstOccurrences(t), v) <=> Contains(t, v)}
<1>1. <<>> \in T
  BY FirstsEmpty, EmptySeq
<1>2. ASSUME NEW t \in T, NEW w \in W PROVE Append(t, w) \in T
  <2> DEFINE r == FirstOccurrences(t)
  <2>1. t \in Seq(W) /\ Append(t, w) \in Seq(W) /\ r \in Seq(W)
    BY AppendProperties, FirstsType
  <2>2. FirstOccurrences(Append(t, w)) = AddFirst(r, w)
    BY <2>1, FirstsAppend
  <2>3. Contains(r, v) <=> Contains(t, v)
    OBVIOUS
  <2> HIDE DEF r, T
  <2>4. Contains(Append(t, w), v) <=> Contains(t, v) \/ v = w
    BY <2>1, ContainsAppend
  <2>5. Contains(Append(r, w), v) <=> Contains(r, v) \/ v = w
    BY <2>1, ContainsAppend
  <2>6. Contains(AddFirst(r, w), v) <=> Contains(r, v) \/ v = w
    <3> HIDE DEF Contains
    <3>. QED
      BY <2>5 DEF AddFirst
  <2>. QED
    BY <2>1, <2>2, <2>3, <2>4, <2>6 DEF T
<1>3. T = Seq(W)
  <2> HIDE DEF T
  <2>1. T \in SUBSET Seq(W)
    BY DEF T
  <2>. QED
    BY <1>1, <1>2, <2>1, SeqSets
<1>. QED
  BY <1>3

(* Words that came before add nothing; new words are added as they are.    *)
LEMMA FirstsOfOld ==
  ASSUME NEW W, NEW s \in Seq(W), NEW t \in Seq(W),
         \A i \in 1 .. Len(t) : Contains(s, t[i])
  PROVE  FirstOccurrences(s \o t) = FirstOccurrences(s)
<1> DEFINE Old(u) == \A i \in 1 .. Len(u) : Contains(s, u[i])
           T == {u \in Seq(W) : Old(u) => FirstOccurrences(s \o u) = FirstOccurrences(s)}
<1>1. <<>> \in T
  BY EmptySeq, ConcatEmptySeq
<1>2. ASSUME NEW u \in T, NEW w \in W PROVE Append(u, w) \in T
  <2>1. /\ u \in Seq(W) /\ Append(u, w) \in Seq(W) /\ s \o u \in Seq(W)
        /\ Len(u) \in Nat /\ Len(Append(u, w)) = Len(u) + 1 /\ Append(u, w)[Len(u) + 1] = w
        /\ \A i \in 1 .. Len(u) : Append(u, w)[i] = u[i]
    BY AppendProperties, ConcatProperties, LenProperties
  <2> SUFFICES ASSUME Old(Append(u, w)) PROVE FirstOccurrences(s \o Append(u, w)) = FirstOccurrences(s)
    BY <2>1
  <2>2. Contains(s, w) /\ Old(u)
    BY <2>1, SMTT(40)
  <2>3. FirstOccurrences(s \o u) = FirstOccurrences(s)
    BY <2>2
  <2> HIDE DEF T, Old
  <2> DEFINE v == s \o u
  <2>4. v \in Seq(W) /\ s \o Append(u, w) = Append(v, w)
    BY <2>1, AppendAfter
  <2>5. FirstOccurrences(Append(v, w)) = AddFirst(FirstOccurrences(v), w)
    <3> HIDE DEF v
    <3>. QED
      BY <2>4, FirstsAppend
  <2>6. Contains(FirstOccurrences(s), w)
    BY <2>2, FirstsContain
  <2>. QED
    BY <2>3, <2>4, <2>5, <2>6 DEF AddFirst
<1>3. T = Seq(W)
  <2> HIDE DEF T
  <2>1. T \in SUBSET Seq(W)
    BY DEF T
  <2>. QED
    BY <1>1, <1>2, <2>1, SeqSets
<1>. QED
  BY <1>3

Distinct(s) == \A i, j \in 1 .. Len(s) : s[i] = s[j] => i = j

LEMMA FirstsOfNew ==
  ASSUME NEW W, NEW s \in Seq(W), NEW t \in Seq(W), Distinct(t),
         \A i \in 1 .. Len(t) : ~Contains(s, t[i])
  PROVE  FirstOccurrences(s \o t) = FirstOccurrences(s) \o t
<1> DEFINE r == FirstOccurrences(s)
           New(u) == Distinct(u) /\ \A i \in 1 .. Len(u) : ~Contains(s, u[i])
           T == {u \in Seq(W) : New(u) => /\ FirstOccurrences(s \o u) = r \o u
                                          /\ \A v : Contains(s \o u, v) <=> Contains(s, v) \/ Contains(u, v)}
<1>0. r \in Seq(W)
  BY FirstsType
<1>1. <<>> \in T
  <2>1. ~ \E v : Contains(<<>>, v)
    BY DEF Contains
  <2>. QED
    BY <1>0, <2>1, EmptySeq, ConcatEmptySeq
<1>2. ASSUME NEW u \in T, NEW w \in W PROVE Append(u, w) \in T
  <2>1. /\ u \in Seq(W) /\ Append(u, w) \in Seq(W) /\ s \o u \in Seq(W)
        /\ Len(u) \in Nat /\ Len(Append(u, w)) = Len(u) + 1 /\ Append(u, w)[Len(u) + 1] = w
        /\ \A i \in 1 .. Len(u) : Append(u, w)[i] = u[i]
    BY AppendProperties, ConcatProperties, LenProperties
  <2> SUFFICES ASSUME New(Append(u, w))
               PROVE  /\ FirstOccurrences(s \o Append(u, w)) = r \o Append(u, w)
                      /\ \A v : Contains(s \o Append(u, w), v) <=> Contains(s, v) \/ Contains(Append(u, w), v)
    BY <2>1
  <2>2. ~Contains(s, w) /\ New(u) /\ \A i \in 1 .. Len(u) : u[i] # w
    <3> DEFINE n == Len(u)
               z == Append(u, w)
    <3>1. /\ n \in Nat /\ Len(z) = n + 1 /\ z[n + 1] = w /\ \A i \in 1 .. n : z[i] = u[i]
          /\ \A i \in 1 .. n + 1 : ~Contains(s, z[i])
          /\ \A i, j \in 1 .. n + 1 : z[i] = z[j] => i = j
      BY <2>1 DEF Distinct
    <3> HIDE DEF n, z
    <3>2. n + 1 \in 1 .. n + 1 /\ \A i \in 1 .. n : i \in 1 .. n + 1 /\ i # n + 1
      BY <3>1
    <3>3. ~Contains(s, w) /\ \A i \in 1 .. n : ~Contains(s, u[i]) /\ u[i] # w
      BY <3>1, <3>2
    <3>4. \A i, j \in 1 .. n : u[i] = u[j] => i = j
      BY <3>1, <3>2
    <3>. QED
      BY <3>3, <3>4 DEF n, Distinct
  <2>3. /\ FirstOccurrences(s \o u) = r \o u
        /\ \A v : Contains(s \o u, v) <=> Contains(s, v) \/ Contains(u, v)
    BY <2>2
  <2>4. ~Contains(u, w)
    BY <2>2 DEF Contains
  <2> HIDE DEF T, New, r
  <2> DEFINE x == s \o u
  <2>5. x \in Seq(W) /\ s \o Append(u, w) = Append(x, w) /\ r \o Append(u, w) = Append(r \o u, w)
    BY <1>0, <2>1, AppendAfter, SMTT(40)
  <2>6. ~Contains(x, w)
    BY <2>2, <2>3, <2>4
  <2>7. FirstOccurrences(Append(x, w)) = AddFirst(FirstOccurrences(x), w) /\ ~Contains(FirstOccurrences(x), w)
    <3> HIDE DEF x
    <3>. QED
      BY <2>5, <2>6, FirstsAppend, FirstsContain
  <2>8. FirstOccurrences(s \o Append(u, w)) = r \o Append(u, w)
    BY <2>3, <2>5, <2>7 DEF AddFirst
  <2>9. ASSUME NEW v PROVE Contains(s \o Append(u, w), v) <=> Contains(s, v) \/ Contains(Append(u, w), v)
    <3>1. Contains(Append(u, w), v) <=> Contains(u, v) \/ v = w
      BY <2>1, ContainsAppend
    <3>2. Contains(Append(x, w), v) <=> Contains(x, v) \/ v = w
      <4> HIDE DEF x
      <4>. QED
        BY <2>5, ContainsAppend
    <3>. QED
      BY <2>3, <2>5, <3>1, <3>2
  <2>. QED
    BY <2>8, <2>9
<1>3. T = Seq(W)
  <2> HIDE DEF T
  <2>1. T \in SUBSET Seq(W)
    BY DEF T
  <2>. QED
    BY <1>1, <1>2, <2>1, SeqSets
<1>. QED
  BY <1>3

-----------------------------------------------------------------------------
(* The files one after the other.                                          *)
Joins(W) == [p \in Seq(W) \X Seq(W) |-> p[1] \o p[2]]

LEMMA JoinsType ==
  ASSUME NEW W
  PROVE  Joins(W) \in [Seq(W) \X Seq(W) -> Seq(W)]
<1>1. \A a, b \in Seq(W) : a \o b \in Seq(W)
  BY ConcatProperties
<1> DEFINE A == Seq(W)
           G == Joins(W)
<1> HIDE DEF A
<1>2. (\A a, b \in A : a \o b \in A) /\ G = [p \in A \X A |-> p[1] \o p[2]]
  BY <1>1 DEF A, Joins
<1> HIDE DEF G
<1>3. G \in [A \X A -> A]
  BY <1>2
<1>. QED
  BY <1>3 DEF A, G

LEMMA JoinsValue ==
  ASSUME NEW W, NEW a \in Seq(W), NEW b \in Seq(W)
  PROVE  Joins(W)[<<a, b>>] = a \o b
BY DEF Joins

(* FlattenSeq() is a fold over the files.                                  *)
LEMMA FlattenFold ==
  ASSUME NEW W, NEW fs \in Seq(Seq(W)), fs # <<>>
  PROVE  IsFold(Joins(W), <<>>, fs, FlattenSeq(fs))
<1> DEFINE n == Len(fs)
           Rec(g) == [i \in 1 .. n |-> IF i = 1 THEN fs[i] ELSE g[i - 1] \o fs[i]]
           h == CHOOSE g : g = Rec(g)
<1>1. n \in Nat /\ n # 0 /\ \A i \in 1 .. n : fs[i] \in Seq(W)
  BY LenProperties, ElementOfSeq, EmptySeq
<1>2. FlattenSeq(fs) = h[n]
  BY <1>1 DEF FlattenSeq
<1>3. PICK p \in [0 .. n -> Seq(W)] : Table(Joins(W), <<>>, fs, p)
  <2>1. <<>> \in Seq(W) /\ Joins(W) \in [Seq(W) \X Seq(W) -> Seq(W)]
    BY EmptySeq, JoinsType
  <2>. QED
    BY <2>1, TableExists, Zenon
<1>4. ASSUME NEW i \in 1 .. n PROVE p[i] = IF i = 1 THEN fs[i] ELSE p[i - 1] \o fs[i]
  <2>1. p[i - 1] \in Seq(W) /\ fs[i] \in Seq(W)
    <3> DEFINE A == Seq(W)
    <3>1. i - 1 \in 0 .. n /\ p \in [0 .. n -> A] /\ fs[i] \in A
      BY <1>1, <1>3
    <3> HIDE DEF A
    <3>2. p[i - 1] \in A /\ fs[i] \in A
      BY <3>1
    <3>. QED
      BY <3>2 DEF A
  <2>2. p[i] = Joins(W)[<<p[i - 1], fs[i]>>]
    BY <1>3 DEF Table
  <2>3. p[i] = p[i - 1] \o fs[i]
    BY <2>1, <2>2, JoinsValue
  <2>4. i = 1 => p[i - 1] = <<>>
    BY <1>3 DEF Table
  <2>. QED
    BY <2>1, <2>3, <2>4, ConcatEmptySeq
<1> DEFINE q == [i \in 1 .. n |-> p[i]]
<1>5. q = Rec(q)
  <2>1. \A i \in 1 .. n : q[i] = IF i = 1 THEN fs[i] ELSE q[i - 1] \o fs[i]
    <3> SUFFICES ASSUME NEW i \in 1 .. n
                 PROVE  q[i] = IF i = 1 THEN fs[i] ELSE q[i - 1] \o fs[i]
      OBVIOUS
    <3>1. i # 1 => i - 1 \in 1 .. n
      BY <1>1
    <3>2. q[i] = p[i] /\ (i # 1 => q[i - 1] = p[i - 1])
      BY <3>1
    <3> HIDE DEF q
    <3>. QED
      BY <1>4, <3>2
  <2>2. q = [i \in 1 .. n |-> q[i]]
    OBVIOUS
  <2> HIDE DEF q, h
  <2>. QED
    BY <2>1, <2>2, Zenon
<1>6. h = Rec(h)
  BY <1>5, Zenon
<1> HIDE DEF h
<1>7. \A i \in 1 .. n : h[i] = IF i = 1 THEN fs[i] ELSE h[i - 1] \o fs[i]
  BY <1>6, Zenon
<1> DEFINE N == {i \in Nat : i < n => h[i + 1] = p[i + 1]}
<1>8. 0 \in N
  <2>1. 1 \in 1 .. n
    BY <1>1
  <2>. QED
    BY <1>4, <1>7, <2>1
<1>9. ASSUME NEW i \in N PROVE i + 1 \in N
  <2>1. i \in Nat /\ (i < n => h[i + 1] = p[i + 1])
    OBVIOUS
  <2>2. ASSUME i + 1 < n PROVE h[i + 2] = p[i + 2]
    <3>1. i + 2 \in 1 .. n /\ i + 2 # 1 /\ (i + 2) - 1 = i + 1
      BY <1>1, <2>1, <2>2
    <3>2. h[i + 1] = p[i + 1]
      BY <1>1, <2>1, <2>2
    <3>. QED
      BY <1>4, <1>7, <3>1, <3>2
  <2>. QED
    BY <2>1, <2>2
<1>10. N = Nat
  <2> HIDE DEF N
  <2>1. N \in SUBSET Nat
    BY DEF N
  <2>. QED
    BY <1>8, <1>9, <2>1, NatSets
<1>11. n - 1 \in N /\ n - 1 < n /\ (n - 1) + 1 = n
  <2> HIDE DEF N
  <2>. QED
    BY <1>1, <1>10
<1>12. h[n] = p[n]
  BY <1>11
<1>. QED
  BY <1>2, <1>3, <1>12 DEF IsFold

LEMMA FlattenType ==
  ASSUME NEW W, NEW fs \in Seq(Seq(W))
  PROVE  FlattenSeq(fs) \in Seq(W)
<1>1. CASE fs = <<>>
  BY <1>1, EmptySeq DEF FlattenSeq
<1>2. CASE fs # <<>>
  <2>1. <<>> \in Seq(W) /\ Joins(W) \in [Seq(W) \X Seq(W) -> Seq(W)]
    BY EmptySeq, JoinsType
  <2>. QED
    BY <1>2, <2>1, FlattenFold, FoldType, Zenon
<1>. QED
  BY <1>1, <1>2

LEMMA FlattenOne ==
  ASSUME NEW W, NEW s \in Seq(W)
  PROVE  FlattenSeq(<<s>>) = s
<1> DEFINE fs == <<s>>
<1>1. fs \in Seq(Seq(W)) /\ fs # <<>> /\ Len(fs) = 1 /\ fs[1] = s
  BY EmptySeq
<1> HIDE DEF fs
<1>3. PICK p : Table(Joins(W), <<>>, fs, p) /\ FlattenSeq(fs) = p[1]
  BY <1>1, FlattenFold DEF IsFold
<1>4. p[1] = Joins(W)[<<<<>>, s>>]
  BY <1>1, <1>3 DEF Table
<1>5. <<>> \in Seq(W) /\ <<>> \o s = s
  BY EmptySeq, ConcatEmptySeq
<1>. QED
  BY <1>3, <1>4, <1>5, JoinsValue DEF fs

LEMMA FlattenAppend ==
  ASSUME NEW W, NEW fs \in Seq(Seq(W)), NEW s \in Seq(W)
  PROVE  FlattenSeq(Append(fs, s)) = FlattenSeq(fs) \o s
<1>1. CASE fs = <<>>
  <2>1. Append(fs, s) = <<s>> /\ FlattenSeq(fs) = <<>>
    BY <1>1, EmptySeq DEF FlattenSeq
  <2>. QED
    BY <2>1, FlattenOne, ConcatEmptySeq
<1>2. CASE fs # <<>>
  <2>1. Append(fs, s) \in Seq(Seq(W)) /\ Append(fs, s) # <<>>
    BY AppendProperties
  <2>2. FlattenSeq(Append(fs, s)) = Joins(W)[<<FlattenSeq(fs), s>>]
    <3>1. /\ IsFold(Joins(W), <<>>, fs, FlattenSeq(fs))
          /\ IsFold(Joins(W), <<>>, Append(fs, s), FlattenSeq(Append(fs, s)))
      BY <1>2, <2>1, FlattenFold
    <3>. QED
      BY <3>1, FoldAppend, Zenon
  <2>. QED
    BY <2>2, FlattenType, JoinsValue
<1>. QED
  BY <1>1, <1>2

(* Words are written at the end of the last file.                          *)
LEMMA FlattenToFile ==
  ASSUME NEW W, NEW fs \in Seq(Seq(W)), fs # <<>>, NEW s \in Seq(W)
  PROVE  /\ [fs EXCEPT ![Len(fs)] = @ \o s] \in Seq(Seq(W))
         /\ Len([fs EXCEPT ![Len(fs)] = @ \o s]) = Len(fs)
         /\ FlattenSeq([fs EXCEPT ![Len(fs)] = @ \o s]) = FlattenSeq(fs) \o s
<1> DEFINE gs == [fs EXCEPT ![Len(fs)] = @ \o s]
           A == Seq(W)
<1>1. PICK hs \in Seq(A), l \in A : fs = Append(hs, l)
  BY SequenceEmptyOrAppend
<1>2. l \o s \in A
  BY ConcatProperties
<1>3. Len(fs) = Len(hs) + 1 /\ Len(hs) \in Nat /\ fs[Len(fs)] = l
  BY <1>1, AppendProperties, LenProperties, SMTT(40)
<1>4. gs \in Seq(A) /\ Len(gs) = Len(fs) /\ \A i \in 1 .. Len(fs) :
         gs[i] = IF i = Len(fs) THEN l \o s ELSE fs[i]
  <2> HIDE DEF A
  <2>1. fs \in Seq(A) /\ Len(fs) \in 1 .. Len(fs)
    BY <1>3 DEF A
  <2>2. gs = [fs EXCEPT ![Len(fs)] = l \o s]
    BY <1>3
  <2>3. [fs EXCEPT ![Len(fs)] = l \o s] \in Seq(A) /\ Len([fs EXCEPT ![Len(fs)] = l \o s]) = Len(fs)
        /\ \A i \in 1 .. Len(fs) : [fs EXCEPT ![Len(fs)] = l \o s][i] = IF i = Len(fs) THEN l \o s ELSE fs[i]
    BY <1>2, <2>1, ExceptSeq
  <2>. QED
    BY <2>2, <2>3
<1>5. gs = Append(hs, l \o s)
  <2> DEFINE ks == Append(hs, l \o s)
  <2>1. /\ ks \in Seq(A) /\ Len(ks) = Len(hs) + 1 /\ ks[Len(hs) + 1] = l \o s
        /\ \A i \in 1 .. Len(hs) : ks[i] = hs[i]
    BY <1>1, <1>2, AppendProperties
  <2>2. \A i \in 1 .. Len(hs) : fs[i] = hs[i]
    BY <1>1, AppendProperties
  <2> HIDE DEF gs, A, ks
  <2>3. \A i \in 1 .. Len(gs) : gs[i] = ks[i]
    <3> SUFFICES ASSUME NEW i \in 1 .. Len(gs) PROVE gs[i] = ks[i]
      OBVIOUS
    <3>1. i \in 1 .. Len(fs) /\ Len(fs) = Len(hs) + 1 /\ Len(hs) \in Nat
      BY <1>3, <1>4
    <3>2. gs[i] = IF i = Len(fs) THEN l \o s ELSE fs[i]
      BY <1>4, <3>1
    <3>3. CASE i = Len(fs)
      BY <2>1, <3>1, <3>2, <3>3
    <3>4. CASE i # Len(fs)
      <4>1. i \in 1 .. Len(hs)
        BY <3>1, <3>4
      <4>. QED
        BY <2>1, <2>2, <3>2, <3>4, <4>1
    <3>. QED
      BY <3>3, <3>4
  <2>4. Len(gs) = Len(ks)
    BY <1>3, <1>4, <2>1
  <2>5. gs = ks
    BY <1>4, <2>1, <2>3, <2>4, SeqEqual
  <2>. QED
    BY <2>5 DEF ks
<1>6. FlattenSeq(gs) = FlattenSeq(hs) \o (l \o s) /\ FlattenSeq(fs) = FlattenSeq(hs) \o l
  <2>1. \A x \in Seq(W) : FlattenSeq(Append(hs, x)) = FlattenSeq(hs) \o x
    BY <1>1, FlattenAppend
  <2>2. l \in Seq(W) /\ l \o s \in Seq(W)
    BY <1>1, <1>2
  <2> HIDE DEF gs
  <2>. QED
    BY <1>1, <1>5, <2>1, <2>2
<1>7. FlattenSeq(hs) \in A
  BY FlattenType
<1>8. FlattenSeq(gs) = FlattenSeq(fs) \o s
  <2> DEFINE a == FlattenSeq(hs)
  <2>1. a \in Seq(W) /\ l \in Seq(W) /\ s \in Seq(W)
    BY <1>1, <1>7
  <2>2. FlattenSeq(gs) = a \o (l \o s) /\ FlattenSeq(fs) = a \o l
    BY <1>6
  <2> HIDE DEF a, gs
  <2>3. (a \o l) \o s = a \o (l \o s)
    BY <2>1, ConcatAssociative, SMTT(40)
  <2>. QED
    BY <2>2, <2>3, Zenon
<1>. QED
  BY <1>4, <1>8

-----------------------------------------------------------------------------
(* The words that a board gives as its i-th one.                           *)
BoardTypes == {"TDCMeasurement", "TDCError", "GlobalHeader", "GlobalTrailer"}
Given(i) == {w \in TDCEvents :
  w.type \in BoardTypes /\ w.bits = IF IsEdge(w) THEN Time(i) % 2 ^ 21 ELSE i}

(* The words that a file may hold.                                         *)
FileWords == {w \in TDCEvents :
  w.type # "Filler" /\ (IsEdge(w) => w.bits < 2 ^ 21)}

Edges == {w \in FileWords : IsEdge(w)}

BoardOK ==
  /\ setup \in Setups
  /\ emitted \in Seq(TDCEvents)
  /\ Len(emitted) <= setup.words
  /\ \A i \in 1 .. Len(emitted) : emitted[i] \in Given(i)

TransferOK ==
  /\ taken \in 0 .. Len(emitted)
  /\ pending \in 0 .. BLTWords /\ count \in 0 .. BLTWords
  /\ pending <= count /\ pending <= taken
  /\ phase \in Phases
  /\ phase # "transferred" => pending = 0 /\ count = 0
  /\ gEnd \in BOOLEAN

(* The buffer: the words to store, the fillers of this transfer, and after *)
(* them only what is dropped, or was stored before.                        *)
BufferOK ==
  /\ buffer \in [Buffer -> TDCEvents]
  /\ \A i \in 1 .. pending : buffer[i] = emitted[taken - pending + i]
  /\ \A i \in pending + 1 .. count : buffer[i] = Mark("Filler")
  /\ \A i \in Buffer : i > count =>
       \/ buffer[i] = ZeroWord
       \/ buffer[i] = Mark("Filler")
       \/ \E k \in 1 .. taken - pending : buffer[i] = emitted[k]

FilesOK ==
  /\ files \in Seq(Seq(FileWords))
  /\ Len(files) \in 1 .. MaxCuts + 1

Jobs == [file : Nat, busy : BOOLEAN, pos : Nat, ch : Nat,
         hits : [Channels -> Seq(Edges \X Edges)], num : [Channels -> Nat],
         drawn : SUBSET Channels]

JobOK ==
  /\ job \in Jobs
  /\ job.file \in 0 .. Len(files)
  /\ job.ch \in 0 .. setup.channels
  /\ job.busy \/ job.ch > 0 => Closed(job.file)
  /\ job.busy => job.pos \in 0 .. Len(files[job.file])
-----------------------------------------------------------------------------
LEMMA Setup ==
  ASSUME BoardOK
  PROVE  /\ setup.mode \in AcquisitionModes /\ setup.channels \in Nat /\ setup.words \in Nat
         /\ setup.fills \in BOOLEAN /\ Len(emitted) \in Nat
BY SetupsAssumption, LenProperties DEF BoardOK

LEMMA BufferSize ==
  /\ BLTWords \in Nat /\ 4 * BLTWords \in Nat /\ Buffer = 1 .. 4 * BLTWords
  /\ \A n \in Nat : n <= BLTWords => 4 * n \in Nat /\ n <= 4 * n /\ 4 * n <= 4 * BLTWords
BY BoundsAssumption DEF Buffer, WordSize

LEMMA ZeroType == ZeroWord \in FileWords /\ ZeroWord \in TDCEvents /\ Mark("Filler") \in TDCEvents
  /\ Mark("Trigger") \in FileWords /\ ZeroWord.type = "TDCMeasurement" /\ IsEdge(ZeroWord)
<1>1. 0 % 2 ^ 21 = 0 /\ 0 < 2 ^ 21
  BY SMT
<1>. QED
  BY <1>1 DEF ZeroWord, Mark, Edge, Word, FileWords, TDCEvents, EventTypes, IsEdge

LEMMA TimeType ==
  ASSUME NEW i \in Nat
  PROVE  Time(i) \in Nat /\ Time(i) % 2 ^ 21 \in Nat /\ Time(i) % 2 ^ 21 < 2 ^ 21
<1>1. StartTime \in Nat /\ TimeStep \in Nat
  BY BoundsAssumption
<1>2. i * TimeStep \in Nat
  BY <1>1
<1>3. Time(i) \in Nat
  BY <1>1, <1>2 DEF Time
<1>. QED
  BY <1>3, SMT

LEMMA GivenType == \A i \in Nat : Given(i) \subseteq TDCEvents
BY DEF Given

LEMMA GivenInFiles ==
  ASSUME NEW i \in Nat, NEW w \in Given(i)
  PROVE  w \in FileWords /\ w.type # "Trigger"
<1>1. Time(i) % 2 ^ 21 < 2 ^ 21
  BY TimeType
<1>. QED
  BY <1>1 DEF Given, FileWords, BoardTypes

(* What the board puts out for a kind of word is of that kind.             *)
LEMMA WordGiven ==
  ASSUME setup.channels \in Nat, NEW i \in Nat, NEW kind \in Kinds
  PROVE  WordOf(kind, i) \in Given(i)
<1>1. Time(i) % 2 ^ 21 \in Nat
  BY TimeType
<1>2. CASE kind[1] \in Channels
  <2>1. kind[2] \in BOOLEAN /\ kind[1] \in Nat
    <3>1. CASE kind \in Channels \X BOOLEAN
      BY <3>1 DEF Channels
    <3>2. CASE kind = <<setup.channels, FALSE>>
      <4>1. setup.channels \in Channels
        BY <1>2, <3>2
      <4>. QED
        BY <3>2, <4>1 DEF Channels
    <3>. QED
      BY <3>1, <3>2 DEF Kinds
  <2>2. WordOf(kind, i) = Edge(kind[1], kind[2], Time(i))
    BY <1>2 DEF WordOf
  <2> DEFINE m == Time(i) % 2 ^ 21
  <2>3. WordOf(kind, i) = [type |-> "TDCMeasurement", ch |-> kind[1], trailing |-> kind[2], bits |-> m]
    BY <2>2 DEF Edge, Word
  <2>4. Given(i) = {w \in TDCEvents : w.type \in BoardTypes /\ w.bits = IF IsEdge(w) THEN m ELSE i}
    BY DEF Given
  <2> HIDE DEF m
  <2>. QED
    BY <1>1, <2>1, <2>3, <2>4 DEF TDCEvents, EventTypes, IsEdge, BoardTypes, m
<1>3. CASE kind[1] \notin Channels
  BY <1>3 DEF WordOf, RawWord, Word, Given, TDCEvents, EventTypes, BoardTypes, IsEdge
<1>. QED
  BY <1>2, <1>3

LEMMA RawGiven ==
  ASSUME NEW i \in Nat, NEW type \in {"TDCError", "GlobalHeader", "GlobalTrailer"}
  PROVE  RawWord(type, i) \in Given(i)
BY DEF RawWord, Word, Given, TDCEvents, EventTypes, BoardTypes, IsEdge

LEMMA EmittedGiven ==
  ASSUME BoardOK, NEW n \in Nat, NEW contents \in [1 .. n -> Kinds]
  PROVE  /\ Emitted(contents) \in Seq(TDCEvents)
         /\ \A i \in 1 .. Len(Emitted(contents)) : Emitted(contents)[i] \in Given(Len(emitted) + i)
<1> DEFINE next == Len(emitted) + 1
           words(first) == [i \in 1 .. n |-> WordOf(contents[i], first + i - 1)]
           a == RawWord("GlobalHeader", next)
           b == words(next + 1)
           c == RawWord("GlobalTrailer", next + n + 1)
<1>1. Len(emitted) \in Nat /\ setup.channels \in Nat /\ Len(contents) = n
  BY Setup
<1>2. ASSUME NEW first \in Nat
      PROVE  /\ words(first) \in Seq(TDCEvents) /\ Len(words(first)) = n
             /\ \A i \in 1 .. n : words(first)[i] \in Given(first + i - 1)
  <2>1. ASSUME NEW i \in 1 .. n PROVE first + i - 1 \in Nat /\ WordOf(contents[i], first + i - 1) \in Given(first + i - 1)
    <3>1. first + i - 1 \in Nat /\ contents[i] \in Kinds
      OBVIOUS
    <3>. QED
      BY <1>1, <3>1, WordGiven
  <2>. QED
    BY <2>1, GivenType
<1>3. CASE mode = "CONT_STORAGE"
  <2>1. Emitted(contents) = words(next)
    BY <1>1, <1>3 DEF Emitted
  <2>2. next \in Nat /\ \A i \in 1 .. n : next + i - 1 = Len(emitted) + i
    BY <1>1
  <2>3. /\ words(next) \in Seq(TDCEvents) /\ Len(words(next)) = n
        /\ \A i \in 1 .. n : words(next)[i] \in Given(next + i - 1)
    BY <1>2, <2>2
  <2> HIDE DEF words, next
  <2>. QED
    BY <2>1, <2>2, <2>3
<1>4. CASE mode # "CONT_STORAGE"
  <2>1. Emitted(contents) = <<a>> \o b \o <<c>>
    BY <1>1, <1>4 DEF Emitted
  <2>2. a \in Given(next) /\ c \in Given(next + n + 1) /\ next \in Nat /\ next + n + 1 \in Nat
    BY <1>1, RawGiven
  <2>3. a \in TDCEvents /\ c \in TDCEvents
    BY <2>2, GivenType
  <2>4. b \in Seq(TDCEvents) /\ Len(b) = n /\ \A i \in 1 .. n : b[i] \in Given(next + i)
    <3>1. next + 1 \in Nat /\ \A i \in 1 .. n : (next + 1) + i - 1 = next + i
      BY <2>2
    <3>2. /\ b \in Seq(TDCEvents) /\ Len(b) = n
          /\ \A i \in 1 .. n : b[i] \in Given((next + 1) + i - 1)
      BY <1>2, <3>1
    <3> HIDE DEF b, next
    <3>. QED
      BY <3>1, <3>2
  <2> HIDE DEF a, b, c
  <2>5. <<a>> \in Seq(TDCEvents) /\ Len(<<a>>) = 1 /\ <<a>>[1] = a
    BY <2>3
  <2>6. <<c>> \in Seq(TDCEvents) /\ Len(<<c>>) = 1 /\ <<c>>[1] = c
    BY <2>3
  <2> DEFINE d == <<a>> \o b
  <2>7. /\ d \in Seq(TDCEvents) /\ Len(d) = n + 1
        /\ \A i \in 1 .. n + 1 : d[i] = IF i <= 1 THEN <<a>>[i] ELSE b[i - 1]
    BY <2>4, <2>5, ConcatProperties
  <2> HIDE DEF d
  <2>8. /\ d \o <<c>> \in Seq(TDCEvents) /\ Len(d \o <<c>>) = n + 2
        /\ \A i \in 1 .. n + 2 : (d \o <<c>>)[i] = IF i <= n + 1 THEN d[i] ELSE <<c>>[i - (n + 1)]
    BY <2>6, <2>7, ConcatProperties
  <2>9. ASSUME NEW i \in 1 .. n + 2 PROVE (d \o <<c>>)[i] \in Given(Len(emitted) + i)
    <3>1. CASE i = 1
      BY <2>2, <2>5, <2>7, <2>8, <3>1
    <3>2. CASE i = n + 2
      <4>1. Len(emitted) + i = next + n + 1 /\ i - (n + 1) = 1 /\ ~(i <= n + 1)
        BY <1>1, <3>2
      <4>2. (d \o <<c>>)[i] = c
        BY <2>6, <2>8, <4>1
      <4>. QED
        BY <2>2, <4>1, <4>2
    <3>3. CASE i # 1 /\ i # n + 2
      <4>1. i - 1 \in 1 .. n /\ i <= n + 1 /\ ~(i <= 1) /\ i \in 1 .. n + 1
        BY <3>3
      <4>2. Len(emitted) + i = next + (i - 1)
        BY <1>1
      <4>3. (d \o <<c>>)[i] = b[i - 1]
        BY <2>7, <2>8, <4>1
      <4>. QED
        BY <2>4, <4>1, <4>2, <4>3
    <3>. QED
      BY <3>1, <3>2, <3>3
  <2>. QED
    BY <2>1, <2>8, <2>9 DEF d
<1>. QED
  BY <1>3, <1>4

-----------------------------------------------------------------------------
BoardInv == BoardOK /\ TransferOK /\ BufferOK

LEMMA NoWordsType == NoWords \in [Buffer -> TDCEvents] /\ \A i \in Buffer : NoWords[i] = ZeroWord
BY ZeroType DEF NoWords

(* The board, the transfer and the buffer, action by action.               *)
LEMMA InitBoard ==
  ASSUME Init
  PROVE  BoardInv
<1>1. setup \in Setups /\ emitted = <<>> /\ taken = 0 /\ buffer = NoWords /\ count = 0
      /\ pending = 0 /\ phase = "idle" /\ gEnd = FALSE
  BY DEF Init
<1>2. emitted \in Seq(TDCEvents) /\ Len(emitted) = 0 /\ setup.words \in Nat
  BY <1>1, EmptySeq, SetupsAssumption
<1>3. BoardOK
  BY <1>1, <1>2 DEF BoardOK
<1>4. TransferOK
  <2>1. 0 \in 0 .. Len(emitted) /\ 0 \in 0 .. BLTWords
    BY <1>2, BufferSize
  <2>2. taken \in 0 .. Len(emitted) /\ pending \in 0 .. BLTWords /\ count \in 0 .. BLTWords
    BY <1>1, <2>1, Zenon
  <2>3. pending <= count /\ pending <= taken
    BY <1>1
  <2>4. phase \in Phases /\ gEnd \in BOOLEAN
    BY <1>1 DEF Phases
  <2>. QED
    BY <1>1, <2>2, <2>3, <2>4, Zenon DEF TransferOK
<1>5. BufferOK
  BY <1>1, NoWordsType, BufferSize DEF BufferOK
<1>. QED
  BY <1>3, <1>4, <1>5 DEF BoardInv

LEMMA EmitBoard ==
  ASSUME BoardInv, Emit
  PROVE  BoardInv' /\ Fetched' = Fetched /\ UNCHANGED setup
<1>1. PICK n \in 0 .. MaxBurst : \E contents \in [1 .. n -> Kinds] :
        emitted' = emitted \o Emitted(contents) /\ Len(emitted') <= setup.words
  BY DEF Emit
<1>0. PICK contents \in [1 .. n -> Kinds] :
        emitted' = emitted \o Emitted(contents) /\ Len(emitted') <= setup.words
  BY <1>1
<1> DEFINE e == Emitted(contents)
<1>2. n \in Nat /\ Len(emitted) \in Nat /\ emitted \in Seq(TDCEvents)
  BY BoundsAssumption, Setup DEF BoardInv, BoardOK
<1>3. e \in Seq(TDCEvents) /\ Len(e) \in Nat /\ \A i \in 1 .. Len(e) : e[i] \in Given(Len(emitted) + i)
  BY <1>2, EmittedGiven, LenProperties DEF BoardInv
<1>4. UNCHANGED <<setup, taken, buffer, count, pending, phase, gEnd>> /\ phase = "idle" /\ taken = Len(emitted)
  BY DEF Emit, Phase, fetchVars
<1> HIDE DEF e
<1>5. /\ emitted' \in Seq(TDCEvents) /\ Len(emitted') = Len(emitted) + Len(e)
      /\ \A i \in 1 .. Len(emitted') : emitted'[i] = IF i <= Len(emitted) THEN emitted[i] ELSE e[i - Len(emitted)]
  BY <1>0, <1>2, <1>3, ConcatProperties DEF e
<1>6. BoardOK'
  <2>1. ASSUME NEW i \in 1 .. Len(emitted') PROVE emitted'[i] \in Given(i)
    <3>1. CASE i <= Len(emitted)
      BY <1>2, <1>5, <3>1 DEF BoardInv, BoardOK
    <3>2. CASE ~(i <= Len(emitted))
      <4>1. i - Len(emitted) \in 1 .. Len(e) /\ Len(emitted) + (i - Len(emitted)) = i
        BY <1>2, <1>3, <1>5, <3>2
      <4>. QED
        BY <1>3, <1>5, <3>2, <4>1
    <3>. QED
      BY <3>1, <3>2
  <2>. QED
    BY <1>0, <1>4, <1>5, <2>1 DEF BoardInv, BoardOK
<1>7. TransferOK'
  BY <1>2, <1>3, <1>4, <1>5 DEF BoardInv, TransferOK
<1>8. BufferOK'
  <2>1. pending = 0 /\ count = 0 /\ taken - pending = Len(emitted)
    BY <1>2, <1>4 DEF BoardInv, TransferOK
  <2>2. \A k \in 1 .. taken - pending : emitted'[k] = emitted[k]
    BY <1>2, <1>3, <1>5, <2>1
  <2>. QED
    BY <1>4, <2>1, <2>2 DEF BoardInv, BufferOK, Buffer
<1>9. Fetched' = Fetched
  <2>1. pending = 0 /\ taken - pending = Len(emitted)
    BY <1>2, <1>4 DEF BoardInv, TransferOK
  <2>2. Fetched = SubSeq(emitted, 1, Len(emitted)) /\ Fetched' = SubSeq(emitted', 1, Len(emitted))
    BY <1>4, <2>1 DEF Fetched
  <2>3. SubSeq(emitted', 1, Len(emitted)) = emitted /\ SubSeq(emitted, 1, Len(emitted)) = emitted
    BY <1>0, <1>2, <1>3, SubSeqFull, SubSeqOfConcat1 DEF e
  <2>. QED
    BY <2>2, <2>3
<1>. QED
  BY <1>4, <1>6, <1>7, <1>8, <1>9 DEF BoardInv

(* The blocks of a transfer: the words that are left, then fillers, over   *)
(* what earlier calls left in the buffer.                                  *)
LEMMA TransferBoard ==
  ASSUME BoardInv, Transfer
  PROVE  BoardInv' /\ Fetched' = Fetched /\ UNCHANGED setup
<1> DEFINE n == Min2(Len(emitted) - taken, BLTWords)
           total == IF setup.fills THEN BLTWords ELSE n
<1>1. /\ UNCHANGED <<setup, emitted, gEnd>> /\ phase' = "transferred" /\ phase = "idle"
      /\ taken' = taken + n /\ pending' = n /\ count' = total
      /\ buffer' = [i \in Buffer |->
             CASE i <= n -> emitted[taken + i]
               [] i \in n + 1 .. total -> Mark("Filler")
               [] OTHER -> IF i = 1 THEN ZeroWord ELSE buffer[i]]
  BY DEF Transfer, Phase
<1>2. Len(emitted) \in Nat /\ BLTWords \in Nat /\ setup.fills \in BOOLEAN /\ emitted \in Seq(TDCEvents)
  BY Setup, BufferSize DEF BoardInv, BoardOK
<1>3. taken \in 0 .. Len(emitted) /\ pending = 0 /\ count = 0
  BY <1>1 DEF BoardInv, TransferOK
<1>4. n \in Nat /\ n <= BLTWords /\ taken + n <= Len(emitted)
  BY <1>2, <1>3 DEF Min2
<1>5. total \in Nat /\ n <= total /\ total <= BLTWords
  BY <1>2, <1>4
<1> HIDE DEF n, total
<1>6. BoardOK'
  BY <1>1 DEF BoardInv, BoardOK
<1>7. TransferOK'
  BY <1>1, <1>2, <1>3, <1>4, <1>5 DEF BoardInv, TransferOK, Phases
<1>8. ASSUME NEW i \in Buffer
      PROVE  /\ i <= n => buffer'[i] = emitted[taken + i]
             /\ i \in n + 1 .. total => buffer'[i] = Mark("Filler")
             /\ i > total => buffer'[i] = IF i = 1 THEN ZeroWord ELSE buffer[i]
  <2>1. i \in Nat
    BY BufferSize
  <2>. QED
    BY <1>1, <1>4, <1>5, <2>1
<1>9. BufferOK'
  <2>1. ASSUME NEW i \in Buffer PROVE buffer'[i] \in TDCEvents
    <3>1. i \in Nat /\ i >= 1
      BY BufferSize
    <3>2. CASE i <= n
      <4>1. taken + i \in 1 .. Len(emitted)
        BY <1>2, <1>3, <1>4, <3>1, <3>2
      <4>2. emitted[taken + i] \in TDCEvents
        BY <1>2, <4>1, ElementOfSeq
      <4>. QED
        BY <1>8, <3>2, <4>2
    <3>3. CASE ~(i <= n) /\ i <= total
      BY <1>4, <1>5, <1>8, <3>1, <3>3, ZeroType
    <3>4. CASE i > total
      BY <1>8, <3>4, ZeroType DEF BoardInv, BufferOK
    <3>. QED
      BY <1>4, <1>5, <3>1, <3>2, <3>3, <3>4
  <2>2. buffer' \in [Buffer -> TDCEvents]
    BY <1>1, <2>1
  <2>3. 1 .. n \subseteq Buffer /\ n + 1 .. total \subseteq Buffer
    BY <1>4, <1>5, BufferSize
  <2>4. taken' - pending' = taken
    BY <1>1, <1>3, <1>4
  <2>5. \A i \in 1 .. n : buffer'[i] = emitted[taken + i]
    BY <1>8, <2>3
  <2>6. \A i \in n + 1 .. total : buffer'[i] = Mark("Filler")
    BY <1>8, <2>3
  <2>7. ASSUME NEW i \in Buffer, i > total
        PROVE  \/ buffer'[i] = ZeroWord
               \/ buffer'[i] = Mark("Filler")
               \/ \E k \in 1 .. taken : buffer'[i] = emitted[k]
    <3>1. i \in Nat /\ i > 0 /\ taken - pending = taken
      BY <1>3, BufferSize
    <3>2. \/ buffer[i] = ZeroWord
          \/ buffer[i] = Mark("Filler")
          \/ \E k \in 1 .. taken : buffer[i] = emitted[k]
      BY <1>3, <3>1 DEF BoardInv, BufferOK
    <3>3. buffer'[i] = IF i = 1 THEN ZeroWord ELSE buffer[i]
      BY <1>8, <2>7
    <3>. QED
      BY <3>2, <3>3
  <2>. QED
    BY <1>1, <2>2, <2>4, <2>5, <2>6, <2>7, SMTT(40) DEF BufferOK, Buffer
<1>10. Fetched' = Fetched
  BY <1>1, <1>3, <1>4 DEF Fetched
<1>. QED
  BY <1>1, <1>6, <1>7, <1>9, <1>10 DEF BoardInv

(* The end of a call: what was transferred is stored.                      *)
LEMMA StoreBoard ==
  ASSUME BoardInv, phase = "transferred", phase' = "idle", pending' = 0, count' = 0,
         UNCHANGED <<setup, emitted, taken, buffer, gEnd>>
  PROVE  BoardInv'
<1>1. Len(emitted) \in Nat /\ taken \in 0 .. Len(emitted) /\ pending \in 0 .. taken
      /\ count \in Nat /\ pending <= count
  BY Setup DEF BoardInv, TransferOK
<1>2. BoardOK' /\ TransferOK'
  BY <1>1, BufferSize DEF BoardInv, BoardOK, TransferOK, Phases
<1>3. ASSUME NEW i \in Buffer
      PROVE  \/ buffer[i] = ZeroWord
             \/ buffer[i] = Mark("Filler")
             \/ \E k \in 1 .. taken : buffer[i] = emitted[k]
  <2>1. i \in Nat /\ i >= 1
    BY BufferSize
  <2>2. CASE i <= pending
    <3>1. i \in 1 .. pending /\ taken - pending + i \in 1 .. taken
      BY <1>1, <2>1, <2>2
    <3>2. buffer[i] = emitted[taken - pending + i]
      BY <3>1 DEF BoardInv, BufferOK
    <3>. QED
      BY <3>1, <3>2
  <2>3. CASE ~(i <= pending) /\ i <= count
    BY <1>1, <2>1, <2>3 DEF BoardInv, BufferOK
  <2>4. CASE i > count
    <3>1. \/ buffer[i] = ZeroWord
          \/ buffer[i] = Mark("Filler")
          \/ \E k \in 1 .. taken - pending : buffer[i] = emitted[k]
      BY <2>4 DEF BoardInv, BufferOK
    <3>2. 1 .. taken - pending \subseteq 1 .. taken
      BY <1>1
    <3>. QED
      BY <3>1, <3>2
  <2>. QED
    BY <1>1, <2>1, <2>2, <2>3, <2>4
<1>4. taken' - pending' = taken
  BY <1>1
<1>5. BufferOK'
  BY <1>1, <1>3, <1>4 DEF BoardInv, BufferOK, Buffer
<1>. QED
  BY <1>2, <1>5 DEF BoardInv

(* The acquisition ends: the words of an interrupted transfer are given    *)
(* up.                                                                     *)
LEMMA StopBoard ==
  ASSUME BoardInv, Stop, UNCHANGED <<setup, gEnd>>
  PROVE  BoardInv' /\ Fetched' = Fetched
<1>1. Len(emitted) \in Nat /\ taken \in 0 .. Len(emitted) /\ pending \in 0 .. taken
      /\ emitted \in Seq(TDCEvents) /\ taken - pending \in 0 .. Len(emitted)
  BY Setup DEF BoardInv, TransferOK, BoardOK
<1> DEFINE m == taken - pending
<1>2. phase' = "stopped" /\ emitted' = SubSeq(emitted, 1, m) /\ taken' = m /\ buffer' = NoWords
      /\ count' = 0 /\ pending' = 0
  BY DEF Stop
<1>3. m \in Nat /\ m <= Len(emitted)
  BY <1>1
<1> HIDE DEF m
<1>4. /\ emitted' \in Seq(TDCEvents) /\ Len(emitted') = m
      /\ \A i \in 1 .. m : emitted'[i] = emitted[i]
  <2>1. \A i \in 1 .. m : emitted[i] \in TDCEvents
    BY <1>1, <1>3
  <2>. QED
    BY <1>1, <1>2, <1>3, <2>1, SubSeqProperties
<1>5. BoardOK'
  <2>1. setup.words \in Nat /\ Len(emitted) <= setup.words
    BY Setup DEF BoardInv, BoardOK
  <2>. QED
    BY <1>1, <1>3, <1>4, <2>1, SMTT(40) DEF BoardInv, BoardOK
<1>6. TransferOK'
  BY <1>2, <1>3, <1>4, BufferSize DEF BoardInv, TransferOK, Phases
<1>7. BufferOK'
  BY <1>2, NoWordsType, BufferSize DEF BufferOK, Buffer, NoWords
<1>8. Fetched' = Fetched
  <2>1. Fetched' = SubSeq(emitted', 1, m) /\ Fetched = emitted'
    BY <1>2, <1>3 DEF Fetched, m
  <2>2. SubSeq(emitted', 1, m) = emitted'
    BY <1>4, SubSeqFull
  <2>. QED
    BY <2>1, <2>2
<1>. QED
  BY <1>5, <1>6, <1>7, <1>8 DEF BoardInv

LEMMA SameBoard ==
  ASSUME BoardInv, UNCHANGED <<setup, emitted, fetchVars, gEnd>>
  PROVE  BoardInv' /\ Fetched' = Fetched
BY DEF BoardInv, BoardOK, TransferOK, BufferOK, Fetched, fetchVars, Buffer

LEMMA AbortBoard ==
  ASSUME BoardInv, Abort
  PROVE  BoardInv' /\ Fetched' = Fetched
BY DEF Abort, BoardInv, BoardOK, TransferOK, BufferOK, Fetched, fetchVars, Buffer

-----------------------------------------------------------------------------
(* More about the words that are kept.                                     *)
LEMMA OnlyInSet ==
  ASSUME NEW W, NEW S, NEW s \in Seq(W)
  PROVE  /\ Only(s, S) \in Seq(W \cap S)
         /\ \A v : Contains(Only(s, S), v) <=> Contains(s, v) /\ v \in S
<1> DEFINE r == Only(s, S)
<1>1. PICK f : Places(s, S, r, f)
  BY OnlyPlaces
<1>2. r \in Seq(W) /\ Len(r) \in Nat /\ Len(s) \in Nat
  BY OnlyType, LenProperties
<1> HIDE DEF r
<1>3. \A k \in 1 .. Len(r) : r[k] \in W /\ r[k] \in S /\ f[k] \in 1 .. Len(s) /\ r[k] = s[f[k]]
  BY <1>1, <1>2, ElementOfSeq DEF Places
<1>4. r \in Seq(W \cap S)
  BY <1>2, <1>3
<1>5. ASSUME NEW v, Contains(r, v) PROVE Contains(s, v) /\ v \in S
  BY <1>3, <1>5 DEF Contains
<1>6. ASSUME NEW v \in S, Contains(s, v) PROVE Contains(r, v)
  <2>1. PICK i \in 1 .. Len(s) : s[i] = v
    BY <1>6 DEF Contains
  <2>2. PICK k \in 1 .. Len(r) : f[k] = i
    BY <1>1, <2>1 DEF Places
  <2>. QED
    BY <1>3, <2>1, <2>2 DEF Contains
<1>. QED
  BY <1>4, <1>5, <1>6 DEF r

LEMMA OnlyNone ==
  ASSUME NEW W, NEW S, NEW s \in Seq(W), \A i \in 1 .. Len(s) : s[i] \notin S
  PROVE  Only(s, S) = <<>>
<1> DEFINE r == Only(s, S)
<1>1. PICK f : Places(s, S, r, f)
  BY OnlyPlaces
<1>2. r \in Seq(W) /\ Len(r) \in Nat
  BY OnlyType, LenProperties
<1> HIDE DEF r
<1>3. ASSUME Len(r) # 0 PROVE FALSE
  <2>1. 1 \in 1 .. Len(r)
    BY <1>2, <1>3
  <2>2. f[1] \in 1 .. Len(s) /\ r[1] = s[f[1]] /\ r[1] \in S
    BY <1>1, <2>1 DEF Places
  <2>. QED
    BY <2>2
<1>. QED
  BY <1>2, <1>3, EmptySeq DEF r

LEMMA OnlyDistinct ==
  ASSUME NEW W, NEW S, NEW s \in Seq(W), Distinct(s)
  PROVE  Distinct(Only(s, S))
<1> DEFINE r == Only(s, S)
<1>1. PICK f : Places(s, S, r, f)
  BY OnlyPlaces
<1>2. r \in Seq(W) /\ Len(r) \in Nat
  BY OnlyType, LenProperties
<1> HIDE DEF r
<1>3. ASSUME NEW i \in 1 .. Len(r), NEW j \in 1 .. Len(r), r[i] = r[j] PROVE i = j
  <2>1. f[i] \in 1 .. Len(s) /\ f[j] \in 1 .. Len(s) /\ s[f[i]] = s[f[j]]
    BY <1>1, <1>3 DEF Places
  <2>2. f[i] = f[j]
    BY <2>1 DEF Distinct
  <2>3. (i < j => f[i] < f[j]) /\ (j < i => f[j] < f[i])
    BY <1>1 DEF Places
  <2>4. ~(i < j) /\ ~(j < i)
    BY <2>1, <2>2, <2>3
  <2>. QED
    BY <1>2, <2>4
<1>. QED
  BY <1>3 DEF Distinct, r
-----------------------------------------------------------------------------
(* No two words of a board are the same.                                   *)
LEMMA NoWrap ==
  ASSUME NEW i \in Nat, NEW j \in Nat, NEW n \in Nat, i < j, j <= n, n * TimeStep < 2 ^ 21
  PROVE  Time(i) % 2 ^ 21 # Time(j) % 2 ^ 21
<1>1. TimeStep \in Nat /\ TimeStep > 0 /\ StartTime \in Nat
  BY BoundsAssumption
<1>2. PICK d \in Nat : j = i + d /\ d > 0
  <2>1. j - i \in Nat /\ j = i + (j - i) /\ j - i > 0
    OBVIOUS
  <2>. QED
    BY <2>1
<1>3. PICK x \in Nat : Time(i) = x
  BY TimeType
<1> DEFINE p == i * TimeStep
           q == d * TimeStep
<1>4. p \in Nat /\ q \in Nat /\ (i + d) * TimeStep = p + q
  BY <1>1
<1>5. q > 0
  BY <1>1, <1>2
<1>6. q < 2 ^ 21
  <2>1. PICK e \in Nat : n = d + e
    <3>1. n - d \in Nat /\ n = d + (n - d)
      BY <1>2
    <3>. QED
      BY <3>1
  <2>2. n * TimeStep = q + e * TimeStep /\ e * TimeStep \in Nat
    BY <1>1, <2>1
  <2> DEFINE y == e * TimeStep
             z == n * TimeStep
  <2>3. z = q + y /\ y \in Nat /\ z < 2 ^ 21
    BY <2>2
  <2> HIDE DEF q, y, z
  <2>. QED
    BY <1>4, <2>3, SMT
<1>7. Time(j) = x + q
  <2>1. Time(i) = StartTime + p /\ Time(j) = StartTime + (p + q)
    BY <1>2, <1>4 DEF Time
  <2> HIDE DEF p, q
  <2>. QED
    BY <1>1, <1>3, <1>4, <2>1
<1> HIDE DEF p, q
<1>. QED
  BY <1>3, <1>4, <1>5, <1>6, <1>7, SMT

LEMMA BoardDistinct ==
  ASSUME BoardOK
  PROVE  Distinct(emitted)
<1>1. setup.words \in Nat /\ Len(emitted) \in Nat /\ Len(emitted) <= setup.words
      /\ setup.words * TimeStep < 2 ^ 21
  BY Setup, TimesAssumption DEF BoardOK
<1>2. ASSUME NEW i \in 1 .. Len(emitted), NEW j \in 1 .. Len(emitted), i < j, emitted[i] = emitted[j]
      PROVE  FALSE
  <2>1. emitted[i] \in Given(i) /\ emitted[i] \in Given(j)
    BY <1>2 DEF BoardOK
  <2> DEFINE w == emitted[i]
             a == Time(i) % 2 ^ 21
             b == Time(j) % 2 ^ 21
  <2>2. w.bits = (IF IsEdge(w) THEN a ELSE i) /\ w.bits = (IF IsEdge(w) THEN b ELSE j)
    BY <2>1 DEF Given
  <2>3. a # b
    BY <1>1, <1>2, NoWrap
  <2> HIDE DEF a, b, w
  <2>. QED
    BY <1>1, <1>2, <2>2, <2>3
<1>3. \A i, j \in 1 .. Len(emitted) : emitted[i] = emitted[j] => ~(i < j) /\ ~(j < i)
  BY <1>2
<1>. QED
  BY <1>1, <1>3 DEF Distinct
-----------------------------------------------------------------------------
(* What a transfer brought, after what was stored.                         *)
Brought == SubSeq(emitted, taken - pending + 1, taken)

LEMMA BroughtWords ==
  ASSUME BoardInv
  PROVE  /\ Brought \in Seq(TDCEvents) /\ Fetched \in Seq(TDCEvents)
         /\ Len(Brought) = pending /\ Len(Fetched) = taken - pending
         /\ \A i \in 1 .. pending : /\ Brought[i] = emitted[taken - pending + i]
                                    /\ Brought[i] \in FileWords /\ Brought[i].type # "Trigger"
         /\ \A i \in 1 .. taken - pending : /\ Fetched[i] = emitted[i]
                                            /\ Fetched[i] \in FileWords /\ Fetched[i].type # "Trigger"
         /\ Fetched \o Brought = SubSeq(emitted, 1, taken)
<1>1. Len(emitted) \in Nat /\ taken \in 0 .. Len(emitted) /\ pending \in 0 .. taken
      /\ emitted \in Seq(TDCEvents)
  BY Setup DEF BoardInv, TransferOK, BoardOK
<1>2. \A i \in 1 .. Len(emitted) : emitted[i] \in TDCEvents /\ emitted[i] \in FileWords /\ emitted[i].type # "Trigger"
  BY <1>1, GivenInFiles, ElementOfSeq DEF BoardInv, BoardOK
<1>3. \A i \in taken - pending + 1 .. taken : i \in 1 .. Len(emitted)
  BY <1>1
<1>4. \A i \in 1 .. taken - pending : i \in 1 .. Len(emitted)
  BY <1>1
<1>5. /\ Brought \in Seq(TDCEvents) /\ Len(Brought) = pending
      /\ \A i \in 1 .. pending : Brought[i] = emitted[taken - pending + i]
  <2> DEFINE m == taken - pending + 1
  <2>1. m \in Int /\ taken \in Int /\ (IF m <= taken THEN taken - m + 1 ELSE 0) = pending
        /\ taken - m + 1 = pending /\ \A i \in 1 .. pending : m + i - 1 = taken - pending + i
    BY <1>1
  <2>2. /\ SubSeq(emitted, m, taken) \in Seq(TDCEvents)
        /\ Len(SubSeq(emitted, m, taken)) = IF m <= taken THEN taken - m + 1 ELSE 0
        /\ \A i \in 1 .. taken - m + 1 : SubSeq(emitted, m, taken)[i] = emitted[m + i - 1]
    BY <1>2, <1>3, <2>1, SubSeqProperties
  <2>3. Brought = SubSeq(emitted, m, taken)
    BY DEF Brought
  <2> HIDE DEF m
  <2>. QED
    BY <2>1, <2>2, <2>3
<1>6. /\ Fetched \in Seq(TDCEvents) /\ Len(Fetched) = taken - pending
      /\ \A i \in 1 .. taken - pending : Fetched[i] = emitted[i]
  <2> DEFINE n == taken - pending
  <2>1. n \in Nat
    BY <1>1
  <2>2. Fetched = SubSeq(emitted, 1, n)
    BY DEF Fetched
  <2>3. \A i \in 1 .. n : emitted[i] \in TDCEvents
    BY <1>2, <1>4
  <2> HIDE DEF n
  <2>4. /\ Fetched \in Seq(TDCEvents) /\ Len(Fetched) = n
        /\ \A i \in 1 .. n : Fetched[i] = emitted[i]
    BY <2>1, <2>2, <2>3, SubSeqProperties
  <2>. QED
    BY <2>4 DEF n
<1>7. Fetched \o Brought = SubSeq(emitted, 1, taken)
  <2>1. 1 \in 1 .. Len(emitted) + 1 /\ taken - pending \in 1 - 1 .. Len(emitted)
        /\ taken \in taken - pending .. Len(emitted)
    BY <1>1
  <2>. QED
    BY <1>1, <2>1, ConcatAdjacentSubSeq DEF Fetched, Brought
<1>8. \A i \in 1 .. pending : taken - pending + i \in 1 .. Len(emitted)
  BY <1>1
<1>. QED
  BY <1>2, <1>4, <1>5, <1>6, <1>7, <1>8

-----------------------------------------------------------------------------
(* What FetchEvents() makes of the buffer.                                 *)
NotFiller == {w \in TDCEvents : w.type # "Filler"}
NotTrigger == {w \in TDCEvents : w.type # "Trigger"}

(* The part of the buffer that FetchEvents() looks at.                     *)
LEMMA BufferCut ==
  ASSUME BoardInv, NEW n \in Nat, n >= pending, n <= 4 * BLTWords
  PROVE  /\ SubSeq(buffer, pending + 1, n) \in Seq(TDCEvents)
         /\ Len(SubSeq(buffer, pending + 1, n)) = n - pending
         /\ \A i \in 1 .. n - pending : SubSeq(buffer, pending + 1, n)[i] = buffer[pending + i]
         /\ SubSeq(buffer, 1, n) = Brought \o SubSeq(buffer, pending + 1, n)
<1>1. /\ buffer \in Seq(TDCEvents) /\ Len(buffer) = 4 * BLTWords /\ 4 * BLTWords \in Nat
      /\ \A i \in 1 .. 4 * BLTWords : buffer[i] \in TDCEvents
  BY BufferSize DEF BoardInv, BufferOK
<1>2. pending \in Nat /\ pending <= n
  BY BufferSize DEF BoardInv, TransferOK
<1>3. /\ SubSeq(buffer, pending + 1, n) \in Seq(TDCEvents)
      /\ Len(SubSeq(buffer, pending + 1, n)) = n - pending
      /\ \A i \in 1 .. n - pending : SubSeq(buffer, pending + 1, n)[i] = buffer[pending + i]
  <2> DEFINE m == pending + 1
  <2>1. m \in Int /\ n \in Int /\ (IF m <= n THEN n - m + 1 ELSE 0) = n - pending
        /\ n - m + 1 = n - pending /\ \A i \in 1 .. n - pending : m + i - 1 = pending + i
    BY <1>2
  <2>2. \A i \in m .. n : buffer[i] \in TDCEvents
    BY <1>1, <1>2
  <2> HIDE DEF m
  <2>3. /\ SubSeq(buffer, m, n) \in Seq(TDCEvents)
        /\ Len(SubSeq(buffer, m, n)) = IF m <= n THEN n - m + 1 ELSE 0
        /\ \A i \in 1 .. n - m + 1 : SubSeq(buffer, m, n)[i] = buffer[m + i - 1]
    BY <2>1, <2>2, SubSeqProperties
  <2>4. /\ SubSeq(buffer, m, n) \in Seq(TDCEvents)
        /\ Len(SubSeq(buffer, m, n)) = n - pending
        /\ \A i \in 1 .. n - pending : SubSeq(buffer, m, n)[i] = buffer[pending + i]
    BY <2>1, <2>3
  <2>. QED
    BY <2>4 DEF m
<1>4. SubSeq(buffer, 1, n) = SubSeq(buffer, 1, pending) \o SubSeq(buffer, pending + 1, n)
  <2>1. 1 \in 1 .. Len(buffer) + 1 /\ pending \in 1 - 1 .. Len(buffer) /\ n \in pending .. Len(buffer)
    BY <1>1, <1>2
  <2>. QED
    BY <1>1, <2>1, ConcatAdjacentSubSeq
<1>5. SubSeq(buffer, 1, pending) = Brought
  <2> DEFINE b == SubSeq(buffer, 1, pending)
  <2>1. /\ b \in Seq(TDCEvents) /\ Len(b) = pending
        /\ \A i \in 1 .. pending : b[i] = buffer[i]
    <3>1. \A i \in 1 .. pending : buffer[i] \in TDCEvents
      BY <1>1, <1>2
    <3>. QED
      BY <1>2, <3>1, SubSeqProperties
  <2> HIDE DEF b
  <2>2. \A i \in 1 .. pending : b[i] = Brought[i]
    BY <2>1, BroughtWords DEF BoardInv, BufferOK
  <2>3. Brought \in Seq(TDCEvents) /\ Len(Brought) = Len(b)
    BY <2>1, BroughtWords
  <2>4. b = Brought
    BY <2>1, <2>2, <2>3, SeqEqual
  <2>. QED
    BY <2>4 DEF b
<1>. QED
  BY <1>3, <1>4, <1>5

(* In trigger matching the fillers are all that is cut off.                *)
LEMMA MatchingEvents ==
  ASSUME BoardInv, mode = "TRIG_MATCH"
  PROVE  Events = Brought
<1> DEFINE f == SubSeq(buffer, pending + 1, count)
<1>1. count \in Nat /\ pending \in Nat /\ count >= pending /\ count <= 4 * BLTWords
  BY BufferSize DEF BoardInv, TransferOK
<1>2. /\ f \in Seq(TDCEvents) /\ Len(f) = count - pending
      /\ \A i \in 1 .. count - pending : f[i] = buffer[pending + i]
      /\ SubSeq(buffer, 1, count) = Brought \o f
  BY <1>1, BufferCut
<1>3. Events = Only(Brought \o f, NotFiller)
  BY <1>2 DEF Events, Words, NotFiller
<1> HIDE DEF f
<1>4. Brought \in Seq(TDCEvents) /\ Events = Only(Brought, NotFiller) \o Only(f, NotFiller)
  <2>1. Brought \in Seq(TDCEvents)
    BY BroughtWords
  <2>2. Only(Brought \o f, NotFiller) = Only(Brought, NotFiller) \o Only(f, NotFiller)
    BY <1>2, <2>1, OnlyConcat
  <2>. QED
    BY <1>3, <2>1, <2>2
<1>5. Only(Brought, NotFiller) = Brought
  <2>1. \A i \in 1 .. Len(Brought) : Brought[i] \in NotFiller
    BY BroughtWords, ElementOfSeq DEF NotFiller, FileWords
  <2>. QED
    BY <1>4, <2>1, OnlyAll
<1>6. Only(f, NotFiller) = <<>>
  <2>1. ASSUME NEW i \in 1 .. Len(f) PROVE f[i] \notin NotFiller
    <3>1. i \in 1 .. count - pending /\ pending + i \in pending + 1 .. count
      BY <1>1, <1>2
    <3>2. f[i] = Mark("Filler")
      BY <1>2, <3>1 DEF BoardInv, BufferOK
    <3>. QED
      BY <3>2 DEF NotFiller, Mark, Word
  <2>. QED
    BY <1>2, <2>1, OnlyNone
<1>. QED
  BY <1>4, <1>5, <1>6, ConcatEmptySeq

(* In continuous storage the zeroes are cut off; words that an earlier     *)
(* call has stored may follow.                                             *)
LEMMA StorageEvents ==
  ASSUME BoardInv, mode # "TRIG_MATCH"
  PROVE  \E rest \in Seq(TDCEvents) :
           /\ Events = Only(Brought, NotZero) \o rest
           /\ \A i \in 1 .. Len(rest) : rest[i] \in NotZero /\ Contains(Fetched, rest[i])
<1> DEFINE n == WordSize * count
           g == SubSeq(buffer, pending + 1, n)
           kept == Only(g, NotZero)
           rest == Only(kept, NotFiller)
<1>1. count \in Nat /\ pending \in Nat /\ taken - pending \in Nat /\ n \in Nat /\ n >= pending
      /\ n <= 4 * BLTWords
  <2>1. taken \in Nat /\ pending \in 0 .. taken
    BY Setup DEF BoardInv, TransferOK
  <2>2. count \in Nat /\ count <= BLTWords /\ pending <= count
    BY BufferSize DEF BoardInv, TransferOK
  <2>3. BLTWords \in Nat /\ n = 4 * count
    BY BufferSize DEF WordSize
  <2>. QED
    BY <2>1, <2>2, <2>3
<1>2. /\ g \in Seq(TDCEvents) /\ Len(g) = n - pending
      /\ \A i \in 1 .. n - pending : g[i] = buffer[pending + i]
      /\ SubSeq(buffer, 1, n) = Brought \o g
  BY <1>1, BufferCut
<1>3. Events = Only(Only(Brought \o g, NotZero), NotFiller)
  BY <1>2 DEF Events, Words, NotFiller
<1> HIDE DEF g
<1>4. Brought \in Seq(TDCEvents) /\ Only(Brought \o g, NotZero) = Only(Brought, NotZero) \o kept
  BY <1>2, BroughtWords, OnlyConcat, SMTT(40)
<1>5. Only(Brought, NotZero) \in Seq(TDCEvents) /\ kept \in Seq(TDCEvents)
  BY <1>2, <1>4, OnlyType
<1>6. Events = Only(Only(Brought, NotZero), NotFiller) \o rest
  <2> DEFINE o == Only(Brought, NotZero)
  <2>1. Only(o \o kept, NotFiller) = Only(o, NotFiller) \o rest
    <3> HIDE DEF o, kept
    <3>. QED
      BY <1>5, OnlyConcat DEF o
  <2>. QED
    BY <1>3, <1>4, <2>1
<1>7. Only(Only(Brought, NotZero), NotFiller) = Only(Brought, NotZero)
  <2> DEFINE o == Only(Brought, NotZero)
  <2>1. ASSUME NEW i \in 1 .. Len(o) PROVE o[i] \in NotFiller
    <3>1. Contains(o, o[i])
      BY DEF Contains
    <3>2. Contains(Brought, o[i])
      <4> HIDE DEF o
      <4>1. \A v : Contains(o, v) => Contains(Brought, v)
        BY <1>4, OnlyInSet DEF o
      <4>. QED
        BY <3>1, <4>1
    <3> HIDE DEF o
    <3>. QED
      BY <3>2, BroughtWords, ElementOfSeq DEF Contains, NotFiller, FileWords
  <2>. QED
    BY <1>5, <2>1, OnlyAll
<1>8. rest \in Seq(TDCEvents)
  BY <1>5, OnlyType
<1>9. ASSUME NEW i \in 1 .. Len(rest) PROVE rest[i] \in NotZero /\ Contains(Fetched, rest[i])
  <2>1. Contains(rest, rest[i])
    BY DEF Contains
  <2> HIDE DEF rest, kept
  <2>2. \A v : Contains(rest, v) => Contains(kept, v) /\ v \in NotFiller
    BY <1>5, OnlyInSet DEF rest
  <2>3. \A v : Contains(kept, v) => Contains(g, v) /\ v \in NotZero
    BY <1>2, OnlyInSet DEF kept
  <2>4. rest[i] \in NotZero /\ rest[i] \in NotFiller /\ Contains(g, rest[i])
    BY <2>1, <2>2, <2>3
  <2>5. PICK j \in 1 .. Len(g) : g[j] = rest[i]
    BY <2>4 DEF Contains
  <2>6. j \in 1 .. n - pending /\ pending + j \in 1 .. 4 * BLTWords /\ pending + j > pending
    <3>1. 4 * BLTWords \in Nat
      BY BufferSize
    <3> HIDE DEF n
    <3>. QED
      BY <1>1, <1>2, <2>5, <3>1
  <2>7. rest[i] = buffer[pending + j]
    BY <1>2, <2>5, <2>6
  <2>8. rest[i] # ZeroWord /\ rest[i] # Mark("Filler")
    BY <2>4 DEF NotZero, NotFiller, Mark, Word
  <2>9. ~(pending + j <= count)
    <3>1. pending + j <= count => pending + j \in pending + 1 .. count
      BY <1>1, <2>6
    <3>. QED
      BY <2>7, <2>8, <3>1 DEF BoardInv, BufferOK
  <2>10. pending + j > count /\ pending + j \in Buffer
    BY <1>1, <2>6, <2>9, BufferSize
  <2>11. PICK k \in 1 .. taken - pending : rest[i] = emitted[k]
    BY <2>7, <2>8, <2>10 DEF BoardInv, BufferOK
  <2>12. Fetched[k] = emitted[k] /\ Len(Fetched) = taken - pending
    BY <2>11, BroughtWords
  <2>. QED
    BY <2>4, <2>11, <2>12 DEF Contains
<1>. QED
  BY <1>6, <1>7, <1>8, <1>9

LEMMA EventsInFiles ==
  ASSUME BoardInv
  PROVE  Events \in Seq(FileWords) /\ \A i \in 1 .. Len(Events) : Events[i] \in NotTrigger
<1>0. Brought \in Seq(TDCEvents) /\ Fetched \in Seq(TDCEvents) /\ Len(Brought) = pending
      /\ pending \in Nat /\ taken - pending = Len(Fetched)
  BY BroughtWords, LenProperties
<1>1. \A v : Contains(Brought, v) \/ Contains(Fetched, v) => v \in FileWords /\ v \in NotTrigger
  BY <1>0, BroughtWords, ElementOfSeq DEF Contains, NotTrigger
<1>2. CASE mode = "TRIG_MATCH"
  <2>1. Events = Brought
    BY <1>2, MatchingEvents
  <2>2. \A i \in 1 .. Len(Brought) : Brought[i] \in FileWords /\ Brought[i] \in NotTrigger
    BY <1>1 DEF Contains
  <2>3. Brought \in Seq(FileWords)
    BY <1>0, <2>2
  <2>. QED
    BY <2>1, <2>2, <2>3
<1>3. CASE mode # "TRIG_MATCH"
  <2>1. PICK rest \in Seq(TDCEvents) :
           /\ Events = Only(Brought, NotZero) \o rest
           /\ \A i \in 1 .. Len(rest) : rest[i] \in NotZero /\ Contains(Fetched, rest[i])
    BY <1>3, StorageEvents
  <2> DEFINE o == Only(Brought, NotZero)
  <2>2. o \in Seq(TDCEvents) /\ \A v : Contains(o, v) => Contains(Brought, v)
    BY <1>0, OnlyType, OnlyInSet
  <2> HIDE DEF o
  <2>3. \A i \in 1 .. Len(o) : Contains(o, o[i])
    BY DEF Contains
  <2>4. \A i \in 1 .. Len(o) : o[i] \in FileWords /\ o[i] \in NotTrigger
    BY <1>1, <2>2, <2>3
  <2>5. \A i \in 1 .. Len(rest) : rest[i] \in FileWords /\ rest[i] \in NotTrigger
    BY <1>1, <2>1
  <2>6. o \in Seq(FileWords) /\ rest \in Seq(FileWords)
    BY <2>2, <2>4, <2>5, SeqOfSubset
  <2>7. Len(o) \in Nat /\ Len(rest) \in Nat
    BY <2>6, LenProperties
  <2>8. /\ o \o rest \in Seq(FileWords) /\ Len(o \o rest) = Len(o) + Len(rest)
        /\ \A i \in 1 .. Len(o) + Len(rest) : (o \o rest)[i] = IF i <= Len(o) THEN o[i] ELSE rest[i - Len(o)]
    BY <2>6, ConcatProperties
  <2>9. \A i \in 1 .. Len(o \o rest) : (o \o rest)[i] \in NotTrigger
    BY <2>4, <2>5, <2>7, <2>8
  <2>. QED
    BY <2>1, <2>8, <2>9 DEF o
<1>. QED
  BY <1>2, <1>3

-----------------------------------------------------------------------------
(* Writing to the files.                                                   *)
LEMMA FilesWords ==
  ASSUME FilesOK
  PROVE  /\ files \in Seq(Seq(FileWords)) /\ files # <<>> /\ Len(files) \in Nat
         /\ FlattenSeq(files) \in Seq(FileWords) /\ Stored \in Seq(FileWords)
         /\ Stored = Only(FlattenSeq(files), NotTrigger)
<1>1. files \in Seq(Seq(FileWords)) /\ Len(files) \in 1 .. MaxCuts + 1
  BY DEF FilesOK
<1>2. files # <<>> /\ Len(files) \in Nat
  BY <1>1, EmptySeq, LenProperties
<1>3. FlattenSeq(files) \in Seq(FileWords)
  BY <1>1, FlattenType
<1>4. Stored = Only(FlattenSeq(files), NotTrigger)
  BY DEF Stored, NotTrigger
<1>. QED
  BY <1>1, <1>2, <1>3, <1>4, OnlyType

(* ToFile() adds words to the last file, FileAdded opens a new one.        *)
LEMMA Written ==
  ASSUME FilesOK, NEW s \in Seq(FileWords), ToFile(s)
  PROVE  FilesOK' /\ Len(files') = Len(files) /\ Stored' = Stored \o Only(s, NotTrigger)
<1>1. files' = [files EXCEPT ![Len(files)] = @ \o s]
  BY DEF ToFile
<1>2. files' \in Seq(Seq(FileWords)) /\ Len(files') = Len(files)
      /\ FlattenSeq(files') = FlattenSeq(files) \o s
  BY <1>1, FilesWords, FlattenToFile
<1>3. Stored' = Only(FlattenSeq(files'), NotTrigger)
  BY DEF Stored, NotTrigger
<1>4. Stored' = Only(FlattenSeq(files), NotTrigger) \o Only(s, NotTrigger)
  BY <1>2, <1>3, FilesWords, OnlyConcat
<1>. QED
  BY <1>2, <1>4, FilesWords DEF FilesOK

LEMMA FileAdded ==
  ASSUME FilesOK, files' = Append(files, <<>>), Cuts < MaxCuts
  PROVE  FilesOK' /\ Len(files') = Len(files) + 1 /\ Stored' = Stored
<1> DEFINE all == FlattenSeq(files)
           T == {i \in DOMAIN all : all[i].type = "Trigger"}
<1>1. all \in Seq(FileWords) /\ Len(all) \in Nat /\ DOMAIN all = 1 .. Len(all)
  BY FilesWords, LenProperties
<1>2. Cardinality(T) \in Nat
  <2>1. IsFiniteSet(1 .. Len(all))
    BY <1>1, FS_Interval
  <2>2. T \subseteq 1 .. Len(all)
    BY <1>1
  <2> HIDE DEF T, all
  <2>. QED
    BY <2>1, <2>2, FS_Subset, FS_CardinalityType
<1>3. Cuts = Len(files) - 1 + Cardinality(T)
  BY DEF Cuts
<1> HIDE DEF T, all
<1>4. Len(files) < MaxCuts + 1 /\ MaxCuts \in Nat /\ Len(files) \in Nat
  BY <1>2, <1>3, FilesWords, BoundsAssumption, SMTT(40)
<1>5. <<>> \in Seq(FileWords) /\ files \in Seq(Seq(FileWords))
  BY FilesWords, EmptySeq
<1>6. files' \in Seq(Seq(FileWords)) /\ Len(files') = Len(files) + 1
  BY <1>5, AppendProperties
<1>7. FlattenSeq(files') = all
  BY <1>1, <1>5, FlattenAppend, ConcatEmptySeq DEF all
<1>. QED
  BY <1>4, <1>6, <1>7 DEF FilesOK, Stored, all
-----------------------------------------------------------------------------
(* Recorded: a step stores the words of a transfer, or changes nothing of  *)
(* them.                                                                   *)
LEMMA SameRecorded ==
  ASSUME Recorded, Stored' = Stored, Fetched' = Fetched, setup' = setup
  PROVE  Recorded'
BY Zenon DEF Recorded, mode

(* The words of a transfer are new, those that may follow them old.        *)
LEMMA StoreRecorded ==
  ASSUME BoardInv, FilesOK, Recorded, ToFile(Events), pending' = 0, UNCHANGED <<setup, emitted, taken>>
  PROVE  FilesOK' /\ Recorded' /\ Len(files') = Len(files)
<1>1. Events \in Seq(FileWords) /\ Only(Events, NotTrigger) = Events
  BY EventsInFiles, OnlyAll
<1>2. FilesOK' /\ Stored' = Stored \o Events /\ Len(files') = Len(files)
  BY <1>1, Written
<1>3. Fetched' = Fetched \o Brought
  <2>1. taken \in Nat
    BY Setup DEF BoardInv, TransferOK
  <2>2. Fetched' = SubSeq(emitted, 1, taken)
    BY <2>1 DEF Fetched
  <2>. QED
    BY <2>2, BroughtWords
<1>4. CASE mode = "TRIG_MATCH"
  <2>1. Events = Brought /\ Stored = Fetched
    BY <1>4, MatchingEvents DEF Recorded
  <2>2. Stored' = Fetched'
    BY <1>2, <1>3, <2>1
  <2>3. mode' = "TRIG_MATCH"
    BY <1>4 DEF mode
  <2>. QED
    BY <1>2, <2>2, <2>3 DEF Recorded
<1>5. CASE mode # "TRIG_MATCH"
  <2> DEFINE new == Only(Brought, NotZero)
             old == Only(Fetched, NotZero)
  <2>1. PICK rest \in Seq(TDCEvents) :
           /\ Events = new \o rest
           /\ \A i \in 1 .. Len(rest) : rest[i] \in NotZero /\ Contains(Fetched, rest[i])
    BY <1>5, StorageEvents
  <2>2. /\ Brought \in Seq(TDCEvents) /\ Fetched \in Seq(TDCEvents) /\ Stored \in Seq(TDCEvents)
        /\ new \in Seq(TDCEvents)
    <3>1. Stored \in Seq(TDCEvents)
      <4>1. FileWords \subseteq TDCEvents /\ Stored \in Seq(FileWords)
        BY FilesWords DEF FileWords
      <4>. QED
        BY <4>1
    <3>. QED
      BY <3>1, BroughtWords, OnlyType
  <2>3. FirstOccurrences(Stored) = old
    BY <1>5 DEF Recorded
  <2>4. Only(Fetched', NotZero) = old \o new
    BY <1>3, <2>2, OnlyConcat
  <2>5. \A v : Contains(new, v) => Contains(Brought, v)
    BY <2>2, OnlyInSet
  <2>6. \A v : Contains(old, v) <=> Contains(Fetched, v) /\ v \in NotZero
    BY <2>2, OnlyInSet
  <2>7. \A v : Contains(Stored, v) <=> Contains(old, v)
    BY <2>2, <2>3, FirstsContain
  <2>8. Distinct(new)
    <3>1. ASSUME NEW i \in 1 .. Len(Brought), NEW j \in 1 .. Len(Brought), Brought[i] = Brought[j]
          PROVE  i = j
      <4>1. taken \in 0 .. Len(emitted) /\ pending \in 0 .. taken /\ Len(emitted) \in Nat
            /\ Len(Brought) = pending
        BY Setup, BroughtWords DEF BoardInv, TransferOK
      <4>2. taken - pending + i \in 1 .. Len(emitted) /\ taken - pending + j \in 1 .. Len(emitted)
        BY <4>1
      <4>3. emitted[taken - pending + i] = emitted[taken - pending + j]
        BY <3>1, <4>1, BroughtWords
      <4>4. taken - pending + i = taken - pending + j
        BY <4>2, <4>3, BoardDistinct DEF Distinct, BoardInv
      <4>. QED
        BY <4>1, <4>4
    <3>2. Distinct(Brought)
      BY <3>1 DEF Distinct
    <3>. QED
      BY <2>2, <3>2, OnlyDistinct
  <2>9. ASSUME NEW i \in 1 .. Len(new) PROVE ~Contains(Stored, new[i])
    <3> SUFFICES ASSUME Contains(Stored, new[i]) PROVE FALSE
      OBVIOUS
    <3>1. Contains(new, new[i])
      BY DEF Contains
    <3> HIDE DEF new, old
    <3>2. Contains(Brought, new[i]) /\ Contains(Fetched, new[i])
      BY <2>5, <2>6, <2>7, <3>1
    <3>3. PICK j \in 1 .. Len(Brought), k \in 1 .. Len(Fetched) : Brought[j] = new[i] /\ Fetched[k] = new[i]
      BY <3>2 DEF Contains
    <3>4. taken \in 0 .. Len(emitted) /\ pending \in 0 .. taken /\ Len(emitted) \in Nat
          /\ Len(Brought) = pending /\ Len(Fetched) = taken - pending
      BY Setup, BroughtWords DEF BoardInv, TransferOK
    <3>5. taken - pending + j \in 1 .. Len(emitted) /\ k \in 1 .. Len(emitted) /\ k # taken - pending + j
      BY <3>3, <3>4
    <3>6. emitted[taken - pending + j] = emitted[k]
      BY <3>3, <3>4, BroughtWords
    <3>. QED
      BY <3>5, <3>6, BoardDistinct DEF Distinct, BoardInv
  <2> HIDE DEF new, old
  <2>10. FirstOccurrences(Stored \o new) = old \o new
    BY <2>2, <2>3, <2>8, <2>9, FirstsOfNew
  <2>11. Stored \o new \in Seq(TDCEvents) /\ Stored' = (Stored \o new) \o rest
    <3>1. Stored \o new \in Seq(TDCEvents)
      BY <2>2, ConcatProperties
    <3>2. (Stored \o new) \o rest = Stored \o (new \o rest)
      BY <2>2, ConcatAssociative, SMTT(40)
    <3>. QED
      BY <1>2, <2>1, <3>1, <3>2
  <2>12. ASSUME NEW i \in 1 .. Len(rest) PROVE Contains(Stored \o new, rest[i])
    <3>1. Contains(Stored, rest[i])
      BY <2>1, <2>6, <2>7
    <3>2. PICK k \in 1 .. Len(Stored) : Stored[k] = rest[i]
      BY <3>1 DEF Contains
    <3>3. Len(Stored) \in Nat /\ Len(new) \in Nat
      BY <2>2, LenProperties
    <3>4. Len(Stored \o new) = Len(Stored) + Len(new)
          /\ \A j \in 1 .. Len(Stored) + Len(new) :
               (Stored \o new)[j] = IF j <= Len(Stored) THEN Stored[j] ELSE new[j - Len(Stored)]
      BY <2>2, ConcatProperties
    <3>5. k \in 1 .. Len(Stored \o new) /\ (Stored \o new)[k] = rest[i]
      BY <3>2, <3>3, <3>4
    <3>. QED
      BY <3>5 DEF Contains
  <2>13. FirstOccurrences(Stored') = old \o new
    BY <2>1, <2>10, <2>11, <2>12, FirstsOfOld
  <2>14. mode' = mode
    BY DEF mode
  <2>. QED
    BY <1>2, <1>5, <2>4, <2>13, <2>14 DEF Recorded
<1>. QED
  BY <1>4, <1>5
-----------------------------------------------------------------------------
(* The inductive invariant of the readout.                                 *)
FetchInv == BoardInv /\ FilesOK /\ Recorded

LEMMA InitFetch ==
  ASSUME Init
  PROVE  FetchInv
<1>1. BoardInv
  BY InitBoard
<1>2. files = << <<>> >> /\ emitted = <<>> /\ taken = 0 /\ pending = 0
  BY DEF Init
<1>3. <<>> \in Seq(FileWords)
  BY EmptySeq
<1>4. files \in Seq(Seq(FileWords)) /\ Len(files) = 1
  BY <1>2, <1>3, EmptySeq
<1>5. FilesOK
  BY <1>4, BoundsAssumption DEF FilesOK
<1>6. Stored = <<>>
  <2>1. FlattenSeq(files) = <<>>
    BY <1>2, <1>3, FlattenOne
  <2>. QED
    BY <2>1, OnlyEmpty DEF Stored
<1>7. Fetched = <<>>
  BY <1>2, BroughtWords, <1>1, EmptySeq
<1>. QED
  BY <1>1, <1>5, <1>6, <1>7, OnlyEmpty, FirstsEmpty DEF FetchInv, Recorded

(* Every step; a file that a monitor reads does not change any more.       *)
LEMMA NextFetch ==
  ASSUME FetchInv, [Next]_vars
  PROVE  FetchInv' /\ setup' = setup /\ Len(files') >= Len(files)
         /\ (phase = "stopped" => files' = files /\ phase' = "stopped")
<1>0. BoardInv /\ FilesOK /\ Recorded /\ Len(files) \in Nat
  BY FilesWords DEF FetchInv
<1> SUFFICES /\ BoardInv' /\ FilesOK' /\ Recorded' /\ setup' = setup /\ Len(files') >= Len(files)
             /\ (phase = "stopped" => files' = files /\ phase' = "stopped")
  BY DEF FetchInv
<1>1. ASSUME BoardInv', Fetched' = Fetched, setup' = setup, files' = files,
             phase = "stopped" => phase' = "stopped"
      PROVE  /\ BoardInv' /\ FilesOK' /\ Recorded' /\ setup' = setup /\ Len(files') >= Len(files)
             /\ (phase = "stopped" => files' = files /\ phase' = "stopped")
  <2>1. FilesOK' /\ Stored' = Stored
    BY <1>0, <1>1 DEF FilesOK, Stored
  <2>. QED
    BY <1>0, <1>1, <2>1, SameRecorded
<1>2. CASE Emit
  BY <1>0, <1>1, <1>2, EmitBoard DEF Emit, Phase
<1>3. CASE Transfer
  BY <1>0, <1>1, <1>3, TransferBoard DEF Transfer, Phase
<1>4. CASE Collect
  <2>0. phase = "transferred" /\ UNCHANGED <<setup, gEnd>>
    BY <1>4 DEF Collect, Phase
  <2>1. CASE Stop /\ UNCHANGED files
    BY <1>0, <1>1, <2>0, <2>1, StopBoard
  <2>2. CASE /\ phase' = "idle" /\ pending' = 0 /\ count' = 0 /\ ToFile(Events)
             /\ UNCHANGED <<emitted, taken, buffer>>
    <3>1. BoardInv'
      BY <1>0, <2>0, <2>2, StoreBoard
    <3>2. FilesOK' /\ Recorded' /\ Len(files') = Len(files)
      BY <1>0, <2>0, <2>2, StoreRecorded
    <3>. QED
      BY <1>0, <2>0, <3>1, <3>2
  <2>. QED
    BY <1>4, <2>1, <2>2 DEF Collect
<1>5. CASE StopReadout
  BY <1>0, <1>1, <1>5, StopBoard DEF StopReadout, Phase
<1>6. CASE Abort
  BY <1>0, <1>1, <1>6, AbortBoard DEF Abort, fetchVars
<1>7. CASE MarkTrigger
  <2>1. UNCHANGED <<setup, emitted, fetchVars, gEnd>> /\ phase = "idle" /\ ToFile(<<Mark("Trigger")>>)
    BY <1>7 DEF MarkTrigger, Phase
  <2>2. BoardInv' /\ Fetched' = Fetched
    BY <1>0, <2>1, SameBoard
  <2>3. <<Mark("Trigger")>> \in Seq(FileWords) /\ <<Mark("Trigger")>> \in Seq(TDCEvents)
    BY ZeroType DEF FileWords
  <2>4. Only(<<Mark("Trigger")>>, NotTrigger) = <<>>
    <3>1. \A i \in 1 .. Len(<<Mark("Trigger")>>) : <<Mark("Trigger")>>[i] \notin NotTrigger
      BY DEF NotTrigger, Mark, Word
    <3>. QED
      BY <2>3, <3>1, OnlyNone
  <2>5. FilesOK' /\ Stored' = Stored /\ Len(files') = Len(files)
    <3>1. FilesOK' /\ Len(files') = Len(files) /\ Stored' = Stored \o Only(<<Mark("Trigger")>>, NotTrigger)
      BY <1>0, <2>1, <2>3, Written
    <3>2. Stored \in Seq(FileWords)
      BY <1>0, FilesWords
    <3>. QED
      BY <2>4, <3>1, <3>2, ConcatEmptySeq
  <2>. QED
    BY <1>0, <2>1, <2>2, <2>5, SameRecorded
<1>8. CASE ChangeFile
  <2>1. UNCHANGED <<setup, emitted, fetchVars, gEnd>> /\ phase = "idle" /\ Cuts < MaxCuts
        /\ files' = Append(files, <<>>)
    BY <1>8 DEF ChangeFile, Phase
  <2>2. BoardInv' /\ Fetched' = Fetched
    BY <1>0, <2>1, SameBoard
  <2>3. FilesOK' /\ Len(files') = Len(files) + 1 /\ Stored' = Stored
    BY <1>0, <2>1, FileAdded
  <2>. QED
    BY <1>0, <2>1, <2>2, <2>3, SameRecorded
<1>9. CASE Monitor
  <2>1. UNCHANGED <<setup, emitted, fetchVars, gEnd, files>>
    BY <1>9 DEF Monitor, OpenFile, NextMeasurement, SavePlots
  <2>. QED
    BY <1>0, <1>1, <2>1, SameBoard DEF fetchVars
<1>10. CASE UNCHANGED vars
  BY <1>0, <1>1, <1>10, SameBoard DEF vars, fetchVars
<1>. QED
  BY <1>2, <1>3, <1>4, <1>5, <1>6, <1>7, <1>8, <1>9, <1>10 DEF Next, Fetch

-----------------------------------------------------------------------------
(* What GetNextMeasurement() returns.                                      *)
(* EndsIn are the ends of the events of a file, SoundHit what PairsSound   *)
(* asks of a hit, for any file.                                            *)
EndsIn(m, file, c) ==
  IF m = "TRIG_MATCH" THEN {i \in DOMAIN file : file[i].type = "GlobalTrailer"}
  ELSE {i \in DOMAIN file : c = 0 /\ file[i].type = "Trigger"} \cup {Len(file)}

SoundHit(m, file, c, hit) ==
  \E i, j \in DOMAIN file :
      /\ i < j
      /\ hit = <<file[i], file[j]>>
      /\ IsLeading(file[i]) /\ file[i].ch = c
      /\ IsTrailing(file[j]) /\ file[j].ch = c
      /\ \A k \in i + 1 .. j - 1 : ~(IsLeading(file[k]) /\ file[k].ch = c)
      /\ EndsIn(m, file, c) \cap (i .. j - 1) = {}

(* The words collected, and where they were in the file.                   *)
Gathered(m, c, file, pos, n, words) ==
  /\ words \in Seq(FileWords)
  /\ \E g \in [1 .. Len(words) -> pos + 1 .. n] :
       /\ \A k \in 1 .. Len(words) : words[k] = file[g[k]] /\ Collects(m, words[k], c)
       /\ \A j, k \in 1 .. Len(words) : j < k => g[j] < g[k]
       /\ \A i \in pos + 1 .. n : Collects(m, file[i], c) => \E k \in 1 .. Len(words) : g[k] = i

LEMMA CollectedPlaces ==
  ASSUME NEW m, NEW c, NEW file \in Seq(FileWords), NEW pos \in 0 .. Len(file), NEW n \in pos + 1 .. Len(file)
  PROVE  Gathered(m, c, file, pos, n, Collected(m, file, pos, n, c))
<1> DEFINE S == {w \in TDCEvents : Collects(m, w, c)}
           s == SubSeq(file, pos + 1, n)
           words == Collected(m, file, pos, n, c)
<1>1. /\ Len(file) \in Nat /\ pos \in Nat /\ n \in Nat /\ pos < n /\ n <= Len(file)
      /\ \A i \in 1 .. Len(file) : file[i] \in FileWords /\ file[i] \in TDCEvents
  BY LenProperties, ElementOfSeq DEF FileWords
<1>2. s \in Seq(FileWords) /\ Len(s) = n - pos /\ \A i \in 1 .. n - pos : s[i] = file[pos + i]
  <2> DEFINE a == pos + 1
  <2>1. a \in Int /\ n \in Int /\ (IF a <= n THEN n - a + 1 ELSE 0) = n - pos
        /\ n - a + 1 = n - pos /\ \A i \in 1 .. n - pos : a + i - 1 = pos + i
    BY <1>1
  <2>2. \A i \in a .. n : file[i] \in FileWords
    BY <1>1
  <2> HIDE DEF a
  <2>3. /\ SubSeq(file, a, n) \in Seq(FileWords)
        /\ Len(SubSeq(file, a, n)) = IF a <= n THEN n - a + 1 ELSE 0
        /\ \A i \in 1 .. n - a + 1 : SubSeq(file, a, n)[i] = file[a + i - 1]
    BY <2>1, <2>2, SubSeqProperties
  <2>4. /\ SubSeq(file, a, n) \in Seq(FileWords) /\ Len(SubSeq(file, a, n)) = n - pos
        /\ \A i \in 1 .. n - pos : SubSeq(file, a, n)[i] = file[pos + i]
    BY <2>1, <2>3
  <2>. QED
    BY <2>4 DEF a
<1>3. words = Only(s, S)
  BY DEF Collected
<1> HIDE DEF s, words
<1>4. words \in Seq(FileWords) /\ Len(words) \in Nat
  BY <1>2, <1>3, OnlyType, LenProperties
<1>5. PICK f : Places(s, S, words, f)
  BY <1>2, <1>3, OnlyPlaces
<1>6. /\ f \in [1 .. Len(words) -> 1 .. n - pos]
      /\ \A k \in 1 .. Len(words) : words[k] = s[f[k]] /\ words[k] \in S
      /\ \A j, k \in 1 .. Len(words) : j < k => f[j] < f[k]
      /\ \A i \in 1 .. n - pos : s[i] \in S => \E k \in 1 .. Len(words) : f[k] = i
  BY <1>2, <1>5 DEF Places
<1> DEFINE g == [k \in 1 .. Len(words) |-> pos + f[k]]
<1>7. g \in [1 .. Len(words) -> pos + 1 .. n]
  BY <1>1, <1>6
<1>8. \A k \in 1 .. Len(words) : g[k] = pos + f[k] /\ f[k] \in 1 .. n - pos
  BY <1>6
<1> HIDE DEF g
<1>9. ASSUME NEW k \in 1 .. Len(words) PROVE words[k] = file[g[k]] /\ Collects(m, words[k], c)
  BY <1>2, <1>6, <1>8
<1>10. ASSUME NEW j \in 1 .. Len(words), NEW k \in 1 .. Len(words), j < k PROVE g[j] < g[k]
  <2>1. f[j] < f[k] /\ f[j] \in 1 .. n - pos /\ f[k] \in 1 .. n - pos /\ g[j] = pos + f[j] /\ g[k] = pos + f[k]
    BY <1>6, <1>8, <1>10
  <2>. QED
    BY <1>1, <2>1
<1>11. ASSUME NEW i \in pos + 1 .. n, Collects(m, file[i], c) PROVE \E k \in 1 .. Len(words) : g[k] = i
  <2>1. i - pos \in 1 .. n - pos /\ pos + (i - pos) = i /\ i \in 1 .. Len(file)
    BY <1>1
  <2>2. s[i - pos] = file[i]
    BY <1>2, <2>1
  <2>3. s[i - pos] \in S
    BY <1>1, <1>11, <2>1, <2>2
  <2>4. PICK k \in 1 .. Len(words) : f[k] = i - pos
    BY <1>6, <2>1, <2>3
  <2>. QED
    BY <1>8, <2>1, <2>4
<1>. QED
  BY <1>4, <1>7, <1>9, <1>10, <1>11 DEF words, Gathered

(* The first stop ends the search: a hit is a leading edge and the         *)
(* trailing one that ends it, with no end of an event between them.        *)
LEMMA HitsSound ==
  ASSUME NEW m, NEW c \in Nat, NEW file \in Seq(FileWords), NEW pos \in 0 .. Len(file),
         NEW n \in pos + 1 .. Len(file),
         \A i \in pos + 1 .. n - 1 : ~StopsAt(m, file, pos, i, c),
         m \in AcquisitionModes
  PROVE  LET hits == SetEventsCollection(Collected(m, file, pos, n, c)) IN
         /\ hits \in Seq(Edges \X Edges)
         /\ \A k \in 1 .. Len(hits) : SoundHit(m, file, c, hits[k])
<1> DEFINE words == Collected(m, file, pos, n, c)
           hits == SetEventsCollection(words)
<1>1. /\ words \in Seq(FileWords) /\ Len(words) \in Nat
      /\ \E g \in [1 .. Len(words) -> pos + 1 .. n] :
              /\ \A k \in 1 .. Len(words) : words[k] = file[g[k]] /\ Collects(m, words[k], c)
              /\ \A j, k \in 1 .. Len(words) : j < k => g[j] < g[k]
              /\ \A i \in pos + 1 .. n : Collects(m, file[i], c) => \E k \in 1 .. Len(words) : g[k] = i
  <2>1. Gathered(m, c, file, pos, n, words)
    BY CollectedPlaces
  <2> HIDE DEF words
  <2>. QED
    BY <2>1, LenProperties DEF Gathered
<1> HIDE DEF words
<1>2. PICK g \in [1 .. Len(words) -> pos + 1 .. n] :
              /\ \A k \in 1 .. Len(words) : words[k] = file[g[k]] /\ Collects(m, words[k], c)
              /\ \A j, k \in 1 .. Len(words) : j < k => g[j] < g[k]
              /\ \A i \in pos + 1 .. n : Collects(m, file[i], c) => \E k \in 1 .. Len(words) : g[k] = i
  BY <1>1
<1>3. hits = Paired(words).hits
  BY HitsOfPaired
<1>4. hits \in Seq(FileWords \X FileWords) /\ Len(hits) \in Nat
  <2>1. Paired(words) \in Pairings(FileWords)
    BY <1>1, PairedType
  <2>2. Paired(words).hits \in Seq(FileWords \X FileWords)
    BY <2>1 DEF Pairings
  <2>. QED
    BY <1>3, <2>2, LenProperties
<1> HIDE DEF hits
<1>5. ASSUME NEW k \in 1 .. Len(hits) PROVE hits[k] \in Edges \X Edges /\ SoundHit(m, file, c, hits[k])
  <2>1. Hit(words, hits[k], Len(words))
    BY <1>1, <1>3, PairedHits DEF PairedInv
  <2>2. PICK i, j \in 1 .. Len(words) : i < j /\ hits[k] = <<words[i], words[j]>>
           /\ IsTrailing(words[j]) /\ InUse(words, i, j - 1)
    BY <2>1 DEF Hit
  <2> DEFINE a == g[i]
             b == g[j]
  <2>3. /\ a \in pos + 1 .. n /\ b \in pos + 1 .. n /\ a < b
        /\ words[i] = file[a] /\ words[j] = file[b] /\ Collects(m, words[i], c) /\ Collects(m, words[j], c)
    BY <1>2, <2>2
  <2>4. IsLeading(words[i]) /\ \A x \in i + 1 .. j - 1 : ~IsLeading(words[x])
    BY <2>2 DEF InUse
  <2>5. words[i] \in FileWords /\ words[j] \in FileWords
    BY <1>1, ElementOfSeq
  <2>6. IsEdge(words[i]) /\ IsEdge(words[j])
    BY <2>2, <2>4 DEF IsLeading, IsTrailing
  <2>7. words[i].ch = c /\ words[j].ch = c
    BY <2>3, <2>6 DEF Collects, GetChannelId
  <2>8. Len(file) \in Nat /\ pos \in Nat /\ n \in Nat /\ n <= Len(file) /\ DOMAIN file = 1 .. Len(file)
    BY LenProperties
  <2>9. a \in DOMAIN file /\ b \in DOMAIN file
    BY <2>3, <2>8, SMTT(40)
  <2>10. ASSUME NEW x \in a + 1 .. b - 1, IsLeading(file[x]), file[x].ch = c PROVE FALSE
    <3>0. a \in Nat /\ b \in Nat /\ pos < a /\ b <= n
      BY <2>3, <2>8, SMTT(40)
    <3>1. x \in pos + 1 .. n
      <4> HIDE DEF a, b
      <4>. QED
        BY <2>8, <3>0
    <3>2. Collects(m, file[x], c)
      BY <2>10 DEF Collects, GetChannelId, IsLeading
    <3>3. PICK y \in 1 .. Len(words) : g[y] = x
      BY <1>2, <3>1, <3>2
    <3>4. a < g[y] /\ g[y] < b /\ a \in Int /\ b \in Int /\ g[y] \in Int
      <4>1. x \in Int /\ a < x /\ x < b
        <5> HIDE DEF a, b
        <5>. QED
          BY <3>0
      <4>. QED
        BY <3>0, <3>3, <4>1
    <3>5. ~(y < i) /\ y # i /\ ~(j < y) /\ y # j
      <4>1. /\ y < i => g[y] < g[i]
            /\ j < y => g[j] < g[y]
        BY <1>2
      <4>2. ~(g[y] < a) /\ ~(b < g[y]) /\ g[y] # a /\ g[y] # b
        <5> HIDE DEF a, b
        <5>. QED
          BY <3>4
      <4>. QED
        BY <4>1, <4>2
    <3>6. y \in i + 1 .. j - 1
      BY <1>1, <3>5
    <3>7. words[y] = file[x]
      BY <1>2, <3>3
    <3>. QED
      BY <2>4, <2>10, <3>6, <3>7
  <2>11. ASSUME NEW x \in EndsIn(m, file, c), x \in a .. b - 1 PROVE FALSE
    <3>1. x \in pos + 1 .. n - 1 /\ x # Len(file) /\ x \in Int
      <4>1. x \in a .. b - 1
        BY <2>11
      <4> HIDE DEF a, b
      <4>. QED
        <5>1. a \in Nat /\ b \in Nat /\ pos < a /\ b <= n
          BY <2>3, <2>8
        <5>2. x \in Int /\ a <= x /\ x <= b - 1
          BY <4>1, <5>1
        <5>3. pos \in Nat /\ n \in Nat /\ Len(file) \in Nat /\ n <= Len(file)
          BY <2>8
        <5> HIDE DEF a, b
        <5>4. pos + 1 <= x /\ x <= n - 1 /\ x < Len(file)
          BY <5>1, <5>2, <5>3
        <5>. QED
          BY <5>2, <5>3, <5>4
    <3>2. ~StopsAt(m, file, pos, x, c)
      BY <3>1
    <3>3. CASE m = "TRIG_MATCH"
      <4>1. file[x].type = "GlobalTrailer"
        BY <2>11, <3>3 DEF EndsIn
      <4>. QED
        BY <3>2, <3>3, <4>1 DEF StopsAt, Collects, IsEdge
    <3>4. CASE m = "CONT_STORAGE"
      <4>1. file[x].type = "Trigger" /\ c = 0
        BY <2>11, <3>1, <3>4 DEF EndsIn
      <4>. QED
        BY <3>2, <3>4, <4>1 DEF StopsAt, Collects, IsEdge, GetChannelId
    <3>. QED
      BY <3>3, <3>4 DEF AcquisitionModes
  <2>12. SoundHit(m, file, c, hits[k])
    <3>1. EndsIn(m, file, c) \cap (a .. b - 1) = {}
      BY <2>11
    <3>2. \A x \in a + 1 .. b - 1 : ~(IsLeading(file[x]) /\ file[x].ch = c)
      BY <2>10
    <3> HIDE DEF a, b
    <3>. QED
      BY <2>2, <2>3, <2>4, <2>7, <2>9, <3>1, <3>2 DEF SoundHit
  <2>. QED
    BY <2>2, <2>5, <2>6, <2>12 DEF Edges
<1>6. hits \in Seq(Edges \X Edges)
  <2> DEFINE P == Edges \X Edges
  <2>1. \A k \in 1 .. Len(hits) : hits[k] \in P
    BY <1>5
  <2> HIDE DEF P
  <2>2. hits \in Seq(P)
    BY <1>4, <2>1
  <2>. QED
    BY <2>2 DEF P
<1>. QED
  BY <1>5, <1>6 DEF hits, words

-----------------------------------------------------------------------------
(* A search goes on up to position n.                                      *)
PassesBy(m, f, p, n, c) == \A i \in p + 1 .. n : ~StopsAt(m, f, p, i, c)

(* Where GetNextMeasurement() stops, and what it returns.                  *)
Answer(m, c, f, p, r) ==
  \/ r.result = "eof" /\ PassesBy(m, f, p, Len(f), c)
  \/ \E n \in p + 1 .. Len(f) :
       /\ PassesBy(m, f, p, n - 1, c) /\ StopsAt(m, f, p, n, c) /\ r.pos = n
       /\ \/ r.result = "error" /\ Has(Collected(m, f, p, n, c), IsError)
          \/ r.result = "measurement" /\ r.hits = SetEventsCollection(Collected(m, f, p, n, c))

LEMMA Searched ==
  ASSUME NEW m, NEW c, NEW f \in Seq(FileWords), NEW p \in 0 .. Len(f)
  PROVE  Answer(m, c, f, p, GetNextMeasurement(m, f, p, c))
<1> DEFINE stops == {n \in p + 1 .. Len(f) : StopsAt(m, f, p, n, c)}
           n == CHOOSE i \in stops : \A k \in stops : i <= k
           words == Collected(m, f, p, n, c)
           r == GetNextMeasurement(m, f, p, c)
<1>1. Len(f) \in Nat /\ p \in Nat
  BY LenProperties
<1>2. CASE stops = {}
  <2>1. r = [result |-> "eof", pos |-> Len(f), hits |-> <<>>]
    BY <1>2 DEF GetNextMeasurement
  <2>2. PassesBy(m, f, p, Len(f), c)
    BY <1>2 DEF PassesBy
  <2> HIDE DEF r
  <2>. QED
    BY <2>1, <2>2 DEF Answer, r
<1>3. CASE stops # {}
  <2>1. n \in stops /\ \A k \in stops : n <= k
    <3>1. stops \in SUBSET Nat
      BY <1>1
    <3> HIDE DEF stops
    <3>. QED
      BY <1>3, <3>1, First
  <2>2. r = IF Has(words, IsError)
            THEN [result |-> "error", pos |-> n, hits |-> <<>>]
            ELSE [result |-> "measurement", pos |-> n, hits |-> SetEventsCollection(words)]
    BY <1>3 DEF GetNextMeasurement
  <2>3. n \in p + 1 .. Len(f) /\ StopsAt(m, f, p, n, c)
    BY <2>1
  <2>4. PassesBy(m, f, p, n - 1, c)
    <3> SUFFICES ASSUME NEW i \in p + 1 .. n - 1 PROVE ~StopsAt(m, f, p, i, c)
      BY DEF PassesBy
    <3>1. n \in Int /\ n <= Len(f)
      BY <1>1, <2>3
    <3>2. i \in p + 1 .. Len(f) /\ ~(n <= i)
      <4> HIDE DEF n
      <4>. QED
        BY <1>1, <2>3, <3>1
    <3>3. i \notin stops
      BY <2>1, <3>2
    <3>. QED
      BY <3>2, <3>3
  <2>5. /\ r.pos = n
        /\ \/ r.result = "error" /\ Has(words, IsError)
           \/ r.result = "measurement" /\ r.hits = SetEventsCollection(words)
    <3> HIDE DEF r, n, words
    <3>. QED
      BY <2>2
  <2> HIDE DEF n, stops, r
  <2>. QED
    BY <2>3, <2>4, <2>5 DEF Answer, r
<1>. QED
  BY <1>2, <1>3

(* What JobInv needs to know of it.                                        *)
Result(m, c, file, r) ==
  \/ r.result = "eof"
  \/ /\ r.result = "error" /\ r.pos \in 0 .. Len(file)
     /\ \E i \in DOMAIN file : IsError(file[i]) /\ Collects(m, file[i], c)
  \/ /\ r.result = "measurement" /\ r.pos \in 0 .. Len(file)
     /\ r.hits \in Seq(Edges \X Edges)
     /\ \A k \in 1 .. Len(r.hits) : SoundHit(m, file, c, r.hits[k])

(* Such a result: hits of the channel, or none when an error word or the   *)
(* end of the file comes first.                                            *)
LEMMA Measured ==
  ASSUME NEW m \in AcquisitionModes, NEW c \in Nat, NEW f \in Seq(FileWords), NEW p \in 0 .. Len(f), NEW r,
         Answer(m, c, f, p, r)
  PROVE  Result(m, c, f, r)
<1>1. CASE r.result = "eof" /\ PassesBy(m, f, p, Len(f), c)
  BY <1>1 DEF Result
<1>2. ASSUME NEW n \in p + 1 .. Len(f), PassesBy(m, f, p, n - 1, c), StopsAt(m, f, p, n, c), r.pos = n,
             \/ r.result = "error" /\ Has(Collected(m, f, p, n, c), IsError)
             \/ r.result = "measurement" /\ r.hits = SetEventsCollection(Collected(m, f, p, n, c))
      PROVE  Result(m, c, f, r)
  <2> DEFINE words == Collected(m, f, p, n, c)
  <2>0. n \in 0 .. Len(f) /\ DOMAIN f = 1 .. Len(f) /\ p \in Nat /\ Len(f) \in Nat
    BY LenProperties
  <2>1. CASE r.result = "error" /\ Has(words, IsError)
    <3>1. Gathered(m, c, f, p, n, words)
      BY CollectedPlaces
    <3> HIDE DEF words
    <3>2. PICK k \in DOMAIN words : IsError(words[k])
      BY <2>1 DEF Has
    <3>3. DOMAIN words = 1 .. Len(words)
      BY <3>1, LenProperties DEF Gathered
    <3>4. PICK i \in p + 1 .. n : words[k] = f[i] /\ Collects(m, words[k], c)
      BY <3>1, <3>2, <3>3 DEF Gathered
    <3>5. i \in DOMAIN f
      BY <2>0, <3>4
    <3>6. IsError(f[i]) /\ Collects(m, f[i], c)
      BY <3>2, <3>4
    <3>. QED
      BY <1>2, <2>0, <2>1, <3>5, <3>6 DEF Result
  <2>2. CASE r.result = "measurement" /\ r.hits = SetEventsCollection(words)
    <3>1. \A i \in p + 1 .. n - 1 : ~StopsAt(m, f, p, i, c)
      BY <1>2 DEF PassesBy
    <3>2. /\ SetEventsCollection(words) \in Seq(Edges \X Edges)
          /\ \A k \in 1 .. Len(SetEventsCollection(words)) : SoundHit(m, f, c, SetEventsCollection(words)[k])
      BY <3>1, HitsSound
    <3> HIDE DEF words
    <3>. QED
      BY <1>2, <2>0, <2>2, <3>2 DEF Result
  <2>. QED
    BY <1>2, <2>1, <2>2
<1>. QED
  BY <1>1, <1>2 DEF Answer

-----------------------------------------------------------------------------
(* The monitor.                                                            *)
JobInv == JobOK /\ LeftOutForErrors /\ PairsSound

LEMMA IdleType ==
  ASSUME NEW n \in Nat
  PROVE  Idle(n) \in Jobs
<1>1. <<>> \in Seq(Edges \X Edges)
  BY EmptySeq
<1>. QED
  BY <1>1 DEF Idle, Jobs

LEMMA InitJob ==
  ASSUME Init
  PROVE  JobInv
<1>1. job = Idle(0) /\ files = << <<>> >> /\ setup \in Setups
  BY DEF Init
<1>2. job \in Jobs /\ job.file = 0 /\ job.ch = 0 /\ ~job.busy
  BY <1>1, IdleType DEF Idle
<1>3. setup.channels \in Nat /\ Len(files) = 1
  BY <1>1, SetupsAssumption
<1>4. JobOK
  BY <1>2, <1>3 DEF JobOK
<1>. QED
  BY <1>2, <1>4 DEF JobInv, LeftOutForErrors, PairsSound

(* PairsSound in terms of SoundHit.                                        *)
LEMMA PairsAreHits ==
  PairsSound <=> (job.busy => \A c \in Channels : \A k \in DOMAIN job.hits[c] :
                                SoundHit(mode, File, c, job.hits[c][k]))
BY Zenon DEF PairsSound, SoundHit, Ends, EndsIn, File

(* Steps that leave the job and its file as they are.                      *)
LEMMA SameJob ==
  ASSUME FetchInv, JobInv, UNCHANGED <<setup, job>>, Len(files') >= Len(files), Len(files') \in Nat,
         phase = "stopped" => files' = files /\ phase' = "stopped"
  PROVE  JobInv'
<1>1. JobOK /\ job.file \in 0 .. Len(files) /\ Len(files) \in Nat
  BY FilesWords DEF FetchInv, JobInv, JobOK
<1>2. CASE phase = "stopped"
  <2>1. UNCHANGED <<setup, job, files, phase>>
    BY <1>2
  <2>2. JobOK'
    BY <2>1 DEF JobInv, JobOK, Closed, Jobs, Channels
  <2>3. LeftOutForErrors'
    BY <2>1 DEF JobInv, LeftOutForErrors, File, mode
  <2>4. PairsSound'
    <3>1. Channels' = Channels /\ File' = File /\ \A c : Ends(c)' = Ends(c)
      BY <2>1 DEF Channels, File, Ends, mode
    <3>. QED
      BY <2>1, <3>1 DEF JobInv, PairsSound
  <2>. QED
    BY <2>2, <2>3, <2>4 DEF JobInv
<1>3. CASE phase # "stopped"
  <2>1. ~job.busy /\ ~(job.ch > 0) /\ job.ch \in 0 .. setup.channels
    BY <1>1, <1>3 DEF JobOK, Closed
  <2>2. job.file \in 0 .. Len(files')
    BY <1>1
  <2>3. setup.channels \in Nat
    BY Setup DEF FetchInv, BoardInv
  <2>4. 0 .. job.ch - 1 = {}
    BY <2>1, <2>3
  <2>5. JobOK'
    BY <1>1, <2>1, <2>2 DEF JobOK, Jobs, Channels
  <2>. QED
    BY <2>1, <2>4, <2>5 DEF JobInv, LeftOutForErrors, PairsSound
<1>. QED
  BY <1>2, <1>3

(* The actions of the monitor.                                             *)
LEMMA OpenJob ==
  ASSUME FetchInv, JobInv, OpenFile
  PROVE  JobInv'
<1>1. /\ UNCHANGED <<setup, phase, files>> /\ Closed(job.file + 1) /\ job.file \in Nat
      /\ \/ job' = [Idle(job.file + 1) EXCEPT !.busy = TRUE]
         \/ job' = Idle(job.file + 1)
  BY DEF OpenFile, fetchVars, JobInv, JobOK, Jobs
<1>2. files \in Seq(Seq(FileWords)) /\ Len(files) \in Nat /\ DOMAIN files = 1 .. Len(files)
      /\ setup.channels \in Nat
  BY FilesWords, LenProperties, Setup DEF FetchInv, BoardInv
<1>3. Idle(job.file + 1) \in Jobs /\ Jobs' = Jobs
  BY <1>1, IdleType DEF Jobs, Channels
<1>4. /\ job' \in Jobs /\ job'.file = job.file + 1 /\ job'.ch = 0 /\ job'.pos = 0
      /\ job'.hits = [c \in Channels |-> <<>>]
  <2> DEFINE a == Idle(job.file + 1)
  <2>1. a = [file |-> job.file + 1, busy |-> FALSE, pos |-> 0, ch |-> 0,
             hits |-> [c \in Channels |-> <<>>], num |-> [c \in Channels |-> 0], drawn |-> {}]
    BY DEF Idle
  <2>2. a \in Jobs
    BY <1>3
  <2>3. CASE job' = a
    BY <2>1, <2>2, <2>3
  <2>4. CASE job' = [a EXCEPT !.busy = TRUE]
    <3>1. job'.file = a.file /\ job'.ch = a.ch /\ job'.pos = a.pos /\ job'.hits = a.hits
      BY <2>1, <2>4
    <3>2. job' \in Jobs
      BY <2>2, <2>4 DEF Jobs
    <3>. QED
      BY <2>1, <3>1, <3>2
  <2>. QED
    BY <1>1, <2>3, <2>4
<1>5. job'.file \in 1 .. Len(files)
  BY <1>1, <1>2, <1>4 DEF Closed
<1>6. files[job'.file] \in Seq(FileWords)
  BY <1>2, <1>5, ElementOfSeq
<1>7. Len(files[job'.file]) \in Nat
  BY <1>6, LenProperties
<1>8. JobOK'
  BY <1>1, <1>2, <1>3, <1>4, <1>5, <1>7 DEF JobOK, Closed
<1>9. LeftOutForErrors'
  BY <1>4 DEF LeftOutForErrors
<1>10. PairsSound'
  <2>1. \A c \in Channels' : job'.hits[c] = <<>>
    BY <1>1, <1>4 DEF Channels
  <2>2. DOMAIN <<>> = {}
    OBVIOUS
  <2>. QED
    BY <2>1, <2>2, Zenon DEF PairsSound
<1>. QED
  BY <1>8, <1>9, <1>10 DEF JobInv

LEMMA SaveJob ==
  ASSUME FetchInv, JobInv, SavePlots
  PROVE  JobInv'
<1>1. UNCHANGED <<setup, phase, files>> /\ job' = [job EXCEPT !.busy = FALSE] /\ job.busy /\ job \in Jobs
  BY DEF SavePlots, fetchVars, JobInv, JobOK
<1>2. /\ job' \in Jobs /\ ~job'.busy /\ job'.file = job.file /\ job'.ch = job.ch
      /\ job'.drawn = job.drawn
  BY <1>1 DEF Jobs
<1>3. JobOK'
  BY <1>1, <1>2 DEF JobInv, JobOK, Closed, Jobs, Channels
<1>4. LeftOutForErrors'
  BY <1>1, <1>2 DEF JobInv, LeftOutForErrors, File, mode
<1>5. PairsSound'
  BY <1>2 DEF PairsSound
<1>. QED
  BY <1>3, <1>4, <1>5 DEF JobInv

-----------------------------------------------------------------------------
(* What a search changes in the job of the monitor.                        *)
LEMMA AfterJob ==
  ASSUME job \in Jobs, job.busy, job.ch \in Channels, NEW r, job' = After(r)
  PROVE  LET c == job.ch IN
         /\ r.result = "eof" =>
              /\ job' \in Jobs /\ job'.busy /\ job'.file = job.file /\ job'.ch = c + 1 /\ job'.pos = 0
              /\ job'.hits = job.hits /\ job'.drawn = job.drawn \cup {c}
         /\ r.result = "error" /\ r.pos \in Nat =>
              /\ job' \in Jobs /\ job'.busy /\ job'.file = job.file /\ job'.ch = c + 1 /\ job'.pos = r.pos
              /\ job'.hits = job.hits /\ job'.drawn = job.drawn
         /\ r.result = "measurement" /\ r.pos \in Nat /\ r.hits \in Seq(Edges \X Edges) =>
              /\ job' \in Jobs /\ job'.busy /\ job'.file = job.file /\ job'.ch = c /\ job'.pos = r.pos
              /\ job'.drawn = job.drawn /\ job.hits[c] \in Seq(Edges \X Edges)
              /\ job'.hits[c] = job.hits[c] \o r.hits
              /\ \A d \in Channels : d # c => job'.hits[d] = job.hits[d]
<1> DEFINE c == job.ch
           P == Edges \X Edges
           A == Seq(P)
           H == [Channels -> A]
           N == [Channels -> Nat]
           next == c + 1
<1>1. Jobs = [file : Nat, busy : BOOLEAN, pos : Nat, ch : Nat, hits : H, num : N, drawn : SUBSET Channels]
  BY DEF Jobs
<1>2. c \in Nat /\ next \in Nat /\ c \in Channels
  BY <1>1
<1>3. CASE r.result = "eof"
  <2> DEFINE drawn == job.drawn \cup {c}
  <2>1. drawn \in SUBSET Channels
    BY <1>1, <1>2
  <2>2. job' = [job EXCEPT !.pos = 0, !.ch = next, !.drawn = drawn]
    BY <1>3 DEF After
  <2>3. next \in Nat /\ 0 \in Nat
    BY <1>2
  <2> HIDE DEF H, N, next, drawn, c
  <2>5. job' \in Jobs
    BY <1>1, <2>1, <2>2, <2>3
  <2>4. /\ job'.busy /\ job'.file = job.file /\ job'.ch = next /\ job'.pos = 0
        /\ job'.hits = job.hits /\ job'.drawn = drawn
    BY <1>1, <2>2
  <2>. QED
    BY <1>3, <2>4, <2>5 DEF next, drawn, c
<1>4. CASE r.result = "error" /\ r.pos \in Nat
  <2>1. job' = [job EXCEPT !.pos = r.pos, !.ch = next]
    BY <1>4 DEF After
  <2> HIDE DEF H, N, next
  <2>2. job' \in Jobs
    BY <1>1, <1>2, <1>4, <2>1
  <2>3. /\ job'.busy /\ job'.file = job.file /\ job'.ch = next /\ job'.pos = r.pos
        /\ job'.hits = job.hits /\ job'.drawn = job.drawn
    BY <1>1, <2>1
  <2>. QED
    BY <1>4, <2>2, <2>3 DEF next
<1>5. CASE r.result = "measurement" /\ r.pos \in Nat /\ r.hits \in Seq(P)
  <2> DEFINE x == job.hits[c] \o r.hits
             h == [job.hits EXCEPT ![c] = x]
             num == [job.num EXCEPT ![c] = IF r.hits = <<>> THEN @ ELSE @ + 1]
  <2>1. job.hits \in H /\ job.num \in N /\ r.hits \in A
    BY <1>1, <1>5
  <2>2. job' = [job EXCEPT !.pos = r.pos, !.hits = h, !.num = num]
    BY <1>1, <1>5 DEF After
  <2> HIDE DEF A
  <2>3. job.hits[c] \in A
    BY <1>2, <2>1
  <2>4. x \in A
    BY <2>1, <2>3, ConcatProperties DEF A
  <2>5. num \in N
    BY <1>2, <2>1
  <2> HIDE DEF x, N, num
  <2>6. h \in H /\ h[c] = x /\ \A d \in Channels : d # c => h[d] = job.hits[d]
    BY <1>2, <2>1, <2>4
  <2> HIDE DEF H, h
  <2>7. /\ job' \in Jobs /\ job'.busy /\ job'.file = job.file /\ job'.ch = c /\ job'.pos = r.pos
        /\ job'.hits = h /\ job'.drawn = job.drawn
    BY <1>1, <1>5, <2>2, <2>5, <2>6
  <2>. QED
    BY <1>5, <2>3, <2>6, <2>7 DEF x, A
<1>. QED
  BY <1>3, <1>4, <1>5

LEMMA MeasureJob ==
  ASSUME FetchInv, JobInv, NextMeasurement
  PROVE  JobInv'
<1>1. /\ UNCHANGED <<setup, phase, files>> /\ job.busy /\ job \in Jobs
      /\ job.ch < setup.channels
  BY DEF NextMeasurement, fetchVars, JobInv, JobOK
<1>2. PICK r : r = GetNextMeasurement(mode, files[job.file], job.pos, job.ch) /\ job' = After(r)
  BY DEF NextMeasurement
<1>3. /\ files \in Seq(Seq(FileWords)) /\ Len(files) \in Nat /\ DOMAIN files = 1 .. Len(files)
      /\ setup.channels \in Nat /\ mode \in AcquisitionModes
  BY FilesWords, LenProperties, Setup DEF FetchInv, BoardInv, mode
<1>4. job.file \in DOMAIN files /\ phase = "stopped"
  BY <1>1 DEF JobInv, JobOK, Closed
<1>5. File \in Seq(FileWords) /\ DOMAIN File = 1 .. Len(File) /\ job.pos \in 0 .. Len(File) /\ Len(File) \in Nat
  BY <1>1, <1>3, <1>4, ElementOfSeq, LenProperties DEF JobInv, JobOK, File
<1> DEFINE c == job.ch
<1>6. c \in Nat /\ c \in Channels
  BY <1>1, <1>3 DEF Jobs, Channels
<1>7. Result(mode, c, File, r)
  <2>1. Answer(mode, c, File, job.pos, r)
    BY <1>2, <1>5, Searched DEF File
  <2>. QED
    BY <1>3, <1>5, <1>6, <2>1, Measured
<1>8. Jobs' = Jobs /\ Channels' = Channels /\ mode' = mode
  BY <1>1 DEF Jobs, Channels, mode
<1>9. ASSUME job' \in Jobs, job'.busy, job'.file = job.file, job'.ch \in 0 .. setup.channels,
             job'.pos \in 0 .. Len(File)
      PROVE  JobOK' /\ File' = File
  BY <1>1, <1>4, <1>8, <1>9 DEF JobInv, JobOK, Closed, File
<1>10. ASSUME job'.hits = job.hits, File' = File, job'.busy PROVE PairsSound'
  <2>1. \A d : Ends(d)' = Ends(d)
    BY <1>8, <1>10 DEF Ends
  <2>. QED
    BY <1>1, <1>8, <1>10, <2>1 DEF JobInv, PairsSound
<1>11. c + 1 \in 0 .. setup.channels /\ 0 \in 0 .. Len(File)
  BY <1>1, <1>3, <1>5, <1>6, SMTT(40)
<1>12. 0 .. (c + 1) - 1 = (0 .. c - 1) \cup {c}
  BY <1>6
<1>13. CASE r.result = "eof"
  <2>1. /\ job' \in Jobs /\ job'.busy /\ job'.file = job.file /\ job'.ch = c + 1 /\ job'.pos = 0
        /\ job'.hits = job.hits /\ job'.drawn = job.drawn \cup {c}
    BY <1>1, <1>2, <1>6, <1>13, AfterJob
  <2>2. JobOK' /\ File' = File
    BY <1>9, <1>11, <2>1
  <2>3. LeftOutForErrors'
    BY <1>8, <1>12, <2>1, <2>2 DEF JobInv, LeftOutForErrors
  <2>. QED
    BY <1>10, <2>1, <2>2, <2>3 DEF JobInv
<1>14. CASE r.result = "error"
  <2>1. r.pos \in 0 .. Len(File) /\ \E i \in DOMAIN File : IsError(File[i]) /\ Collects(mode, File[i], c)
    BY <1>7, <1>14 DEF Result
  <2>2. r.pos \in Nat
    BY <1>5, <2>1
  <2>3. /\ job' \in Jobs /\ job'.busy /\ job'.file = job.file /\ job'.ch = c + 1 /\ job'.pos = r.pos
        /\ job'.hits = job.hits /\ job'.drawn = job.drawn
    BY <1>1, <1>2, <1>6, <1>14, <2>2, AfterJob
  <2>4. JobOK' /\ File' = File
    BY <1>9, <1>11, <2>1, <2>3
  <2>5. Has(File, IsError) /\ (mode = "CONT_STORAGE" => c = 0)
    <3>1. PICK i \in DOMAIN File : IsError(File[i]) /\ Collects(mode, File[i], c)
      BY <2>1
    <3>2. Has(File, IsError)
      BY <3>1 DEF Has
    <3>3. mode = "CONT_STORAGE" => c = 0
      BY <3>1 DEF Collects, GetChannelId, IsError, IsEdge
    <3>. QED
      BY <3>2, <3>3
  <2>6. LeftOutForErrors'
    BY <1>8, <1>12, <2>3, <2>4, <2>5 DEF JobInv, LeftOutForErrors
  <2>. QED
    BY <1>10, <2>3, <2>4, <2>6 DEF JobInv
<1>15. CASE r.result = "measurement"
  <2>1. /\ r.pos \in 0 .. Len(File) /\ r.hits \in Seq(Edges \X Edges)
        /\ \A k \in 1 .. Len(r.hits) : SoundHit(mode, File, c, r.hits[k])
    BY <1>7, <1>15 DEF Result
  <2>2. r.pos \in Nat
    BY <1>5, <2>1, SMTT(60)
  <2> DEFINE P == Edges \X Edges
             old == job.hits[c]
             h == job'.hits
  <2>3. /\ job' \in Jobs /\ job'.busy /\ job'.file = job.file /\ job'.ch = c /\ job'.pos = r.pos
        /\ job'.drawn = job.drawn /\ old \in Seq(P) /\ h[c] = old \o r.hits
        /\ \A d \in Channels : d # c => h[d] = job.hits[d]
    BY <1>1, <1>2, <1>6, <1>15, <2>1, <2>2, AfterJob, ZenonT(60)
  <2>4. JobOK' /\ File' = File
    BY <1>1, <1>9, <2>1, <2>3 DEF JobInv, JobOK
  <2>5. LeftOutForErrors'
    BY <1>8, <2>3, <2>4 DEF JobInv, LeftOutForErrors
  <2>6. ASSUME NEW d \in Channels, NEW k \in DOMAIN h[d]
         PROVE  SoundHit(mode, File, d, h[d][k])
    <3>1. \A x \in Channels : \A y \in DOMAIN job.hits[x] : SoundHit(mode, File, x, job.hits[x][y])
      BY <1>1, PairsAreHits DEF JobInv
    <3> HIDE DEF P, h
    <3>2. CASE d # c
      BY <2>3, <2>6, <3>1, <3>2
    <3>3. CASE d = c
      <4>1. old \in Seq(P) /\ r.hits \in Seq(P)
        BY <2>1, <2>3 DEF P
      <4> HIDE DEF old
      <4>2. Len(old) \in Nat /\ Len(r.hits) \in Nat /\ DOMAIN old = 1 .. Len(old)
        BY <4>1, LenProperties
      <4>3. /\ old \o r.hits \in Seq(P) /\ Len(old \o r.hits) = Len(old) + Len(r.hits)
            /\ \A i \in 1 .. Len(old) + Len(r.hits) : (old \o r.hits)[i] =
                 IF i <= Len(old) THEN old[i] ELSE r.hits[i - Len(old)]
        BY <4>1, ConcatProperties
      <4>4. DOMAIN (old \o r.hits) = 1 .. Len(old) + Len(r.hits)
        BY <4>3, LenProperties
      <4>5. k \in 1 .. Len(old) + Len(r.hits) /\ h[c] = old \o r.hits
        BY <2>3, <2>6, <3>3, <4>4
      <4>6. h[c][k] = IF k <= Len(old) THEN old[k] ELSE r.hits[k - Len(old)]
        BY <4>3, <4>5
      <4>7. CASE k <= Len(old)
        <5>1. k \in DOMAIN old
          BY <4>2, <4>5, <4>7
        <5>2. SoundHit(mode, File, c, old[k])
          BY <1>6, <3>1, <5>1 DEF old
        <5>. QED
          BY <3>3, <4>6, <4>7, <5>2
      <4>8. CASE ~(k <= Len(old))
        <5>1. k - Len(old) \in 1 .. Len(r.hits)
          BY <4>2, <4>5, <4>8
        <5>2. SoundHit(mode, File, c, r.hits[k - Len(old)])
          BY <2>1, <5>1
        <5>. QED
          BY <3>3, <4>6, <4>8, <5>2
      <4>. QED
        BY <4>7, <4>8
    <3>. QED
      BY <3>2, <3>3
  <2>7. PairsSound'
    <3>1. \A d \in Channels : \A k \in DOMAIN job'.hits[d] : SoundHit(mode, File, d, job'.hits[d][k])
      BY <2>6
    <3>2. PairsSound' <=> (job'.busy => \A d \in Channels' : \A k \in DOMAIN job'.hits[d] :
                                         SoundHit(mode', File', d, job'.hits[d][k]))
      BY Zenon DEF PairsSound, SoundHit, Ends, EndsIn, File
    <3>. QED
      BY <1>8, <2>4, <3>1, <3>2, Zenon
  <2>. QED
    BY <2>4, <2>5, <2>7 DEF JobInv
<1>. QED
  BY <1>7, <1>13, <1>14, <1>15 DEF Result

-----------------------------------------------------------------------------
(* Two times of 21 bits, cut to 19.                                        *)
LEMMA Width ==
  ASSUME NEW l \in Nat, NEW t \in Nat, l < 2 ^ 21, t < 2 ^ 21, (t - l) % 2 ^ 21 < 2 ^ 16
  PROVE  GetToT(l % 2 ^ 19, t % 2 ^ 19) = (t - l) % 2 ^ 21
<1> DEFINE a == l % 524288
           b == t % 524288
           w == (t - l) % 2097152
<1>1. w < 65536 /\ w \in Nat
  BY SMT
<1>2. a \in Nat /\ b \in Nat /\ a < 524288 /\ b < 524288
  BY SMT
<1>3. GetToT(a, b) = ((IF b - a < 0 \/ b - a > 2097152 THEN b + 2097152 ELSE b) - a) % 65536
  BY SMT DEF GetToT
<1>4. PICK u, v \in Int : l = 524288 * u + a /\ t = 524288 * v + b
  <2>1. l = 524288 * (l \div 524288) + a /\ t = 524288 * (t \div 524288) + b
    BY SMT
  <2>. QED
    BY <2>1, SMT
<1>5. PICK k \in Int : t - l = 2097152 * k + w
  <2>1. t - l = 2097152 * ((t - l) \div 2097152) + w
    BY SMT
  <2>. QED
    BY <2>1, SMT
<1> HIDE DEF a, b, w
<1>6. b - a = 65536 * (32 * k - 8 * v + 8 * u) + w
  BY <1>1, <1>2, <1>4, <1>5, SMT
<1>7. GetToT(a, b) = w
  BY <1>1, <1>2, <1>3, <1>6, SMT
<1>. QED
  BY <1>7, SMT DEF a, b, w

(* The widths of WidthsRight are those of edges of the file.               *)
LEMMA WidthsOfHits ==
  ASSUME JobOK
  PROVE  WidthsRight
<1> SUFFICES ASSUME NEW c \in Channels, NEW k \in DOMAIN job.hits[c],
                    (job.hits[c][k][2].bits - job.hits[c][k][1].bits) % 2 ^ 21 < 2 ^ 16
             PROVE  GetToT(GetTime(job.hits[c][k][1]), GetTime(job.hits[c][k][2]))
                      = (job.hits[c][k][2].bits - job.hits[c][k][1].bits) % 2 ^ 21
  BY DEF WidthsRight
<1>1. job.hits[c][k] \in Edges \X Edges
  <2> DEFINE P == Edges \X Edges
             A == Seq(P)
  <2>1. job.hits \in [Channels -> A]
    BY DEF JobOK, Jobs
  <2> HIDE DEF A, P
  <2>2. job.hits[c] \in A
    BY <2>1
  <2>3. job.hits[c][k] \in P
    <3>1. k \in 1 .. Len(job.hits[c])
      BY <2>2, LenProperties DEF A
    <3>. QED
      BY <2>2, <3>1, ElementOfSeq DEF A
  <2>. QED
    BY <2>3 DEF P
<1> DEFINE lead == job.hits[c][k][1]
           trail == job.hits[c][k][2]
<1>2. lead \in Edges /\ trail \in Edges
  BY <1>1
<1>3. (trail.bits - lead.bits) % 2 ^ 21 < 2 ^ 16
  OBVIOUS
<1> HIDE DEF lead, trail
<1>4. /\ lead.bits \in Nat /\ lead.bits < 2 ^ 21 /\ GetTime(lead) = lead.bits % 2 ^ 19
      /\ trail.bits \in Nat /\ trail.bits < 2 ^ 21 /\ GetTime(trail) = trail.bits % 2 ^ 19
  BY <1>2 DEF Edges, FileWords, TDCEvents, GetTime
<1>5. GetToT(GetTime(lead), GetTime(trail)) = (trail.bits - lead.bits) % 2 ^ 21
  BY <1>3, <1>4, Width
<1>. QED
  BY <1>5 DEF lead, trail

LEMMA TypeOfInv ==
  ASSUME FetchInv, JobInv
  PROVE  TypeOK
<1>1. setup \in Setups /\ taken \in 0 .. Len(emitted) /\ phase \in Phases /\ gEnd \in BOOLEAN
      /\ {count, pending} \subseteq 0 .. BLTWords
  BY DEF FetchInv, BoardInv, BoardOK, TransferOK
<1>2. Len(files) \in 1 .. MaxCuts + 1
  BY DEF FetchInv, FilesOK
<1>3. ASSUME NEW n \in DOMAIN files, NEW i \in DOMAIN files[n]
      PROVE  files[n][i].type \in EventTypes \ {"Filler"}
  <2>1. files \in Seq(Seq(FileWords)) /\ n \in 1 .. Len(files)
    BY FilesWords, LenProperties DEF FetchInv
  <2>2. files[n] \in Seq(FileWords)
    BY <2>1, ElementOfSeq
  <2>3. files[n][i] \in FileWords
    BY <2>2, LenProperties, ElementOfSeq
  <2>. QED
    BY <2>3 DEF FileWords, TDCEvents
<1>4. /\ job.file \in 0 .. Len(files) /\ job.ch \in 0 .. setup.channels
      /\ job.busy => Closed(job.file) /\ job.pos \in 0 .. Len(files[job.file])
  BY DEF JobInv, JobOK
<1>. QED
  BY <1>1, <1>2, <1>3, <1>4 DEF TypeOK

(* Every step of the readout and of the monitor.                           *)
LEMMA NextJob ==
  ASSUME FetchInv, JobInv, [Next]_vars
  PROVE  JobInv'
<1>1. FetchInv' /\ setup' = setup /\ Len(files') >= Len(files)
      /\ (phase = "stopped" => files' = files /\ phase' = "stopped")
  BY NextFetch
<1>2. Len(files') \in Nat
  <2>1. FilesOK'
    BY <1>1 DEF FetchInv
  <2>. QED
    BY <2>1, LenProperties DEF FilesOK
<1>3. CASE UNCHANGED job
  BY <1>1, <1>2, <1>3, SameJob
<1>4. CASE Emit \/ Fetch \/ Abort \/ MarkTrigger \/ ChangeFile \/ UNCHANGED vars
  BY <1>3, <1>4 DEF Fetch, Emit, Transfer, Collect, StopReadout, Abort, MarkTrigger, ChangeFile, vars
<1>5. CASE Monitor
  BY <1>5, OpenJob, MeasureJob, SaveJob DEF Monitor
<1>. QED
  BY <1>4, <1>5 DEF Next
-----------------------------------------------------------------------------
(***************************************************************************)
(* Whatever the sizes of the transfers, the words of the board, the        *)
(* changes of file and the moment of the stop, FetchEvents() and ppsFetch  *)
(* put every word that was transferred into the files, in order.           *)
(***************************************************************************)
THEOREM RecordedCorrect == Spec => []Recorded
<1>1. Init => FetchInv
  BY InitFetch
<1>2. FetchInv /\ [Next]_vars => FetchInv'
  BY NextFetch
<1>3. FetchInv => Recorded
  BY DEF FetchInv
<1>. QED
  BY <1>1, <1>2, <1>3, PTL DEF Spec

(***************************************************************************)
(* The invariant of the readout and of the monitor that reads its files.   *)
(***************************************************************************)
THEOREM ReadoutInv == Spec => [](FetchInv /\ JobInv)
<1>1. Init => FetchInv /\ JobInv
  BY InitFetch, InitJob
<1>2. FetchInv /\ JobInv /\ [Next]_vars => (FetchInv /\ JobInv)'
  BY NextFetch, NextJob
<1>. QED
  BY <1>1, <1>2, PTL DEF Spec

(***************************************************************************)
(* The states of the readout are as FetchEvents() and the monitor expect:  *)
(* a monitor reads closed files within their length, without fillers.      *)
(***************************************************************************)
THEOREM TypeCorrect == Spec => []TypeOK
<1>1. FetchInv /\ JobInv => TypeOK
  BY TypeOfInv
<1>. QED
  BY <1>1, ReadoutInv, PTL

(***************************************************************************)
(* A channel is left out by GetNextMeasurement() only for an error word of *)
(* the file, in continuous storage only channel 0.                         *)
(***************************************************************************)
THEOREM LeftOutCorrect == Spec => []LeftOutForErrors
<1>1. JobInv => LeftOutForErrors
  BY DEF JobInv
<1>. QED
  BY <1>1, ReadoutInv, PTL

(***************************************************************************)
(* Each hit of SetEventsCollection() is a leading edge of the file and the *)
(* trailing one that ends it, in one event.                                *)
(***************************************************************************)
THEOREM PairsCorrect == Spec => []PairsSound
<1>1. JobInv => PairsSound
  BY DEF JobInv
<1>. QED
  BY <1>1, ReadoutInv, PTL

(***************************************************************************)
(* GetToT() gives the width of each hit of less than 2^16 units.           *)
(***************************************************************************)
THEOREM WidthsCorrect == Spec => []WidthsRight
<1>1. JobInv => WidthsRight
  BY WidthsOfHits DEF JobInv
<1>. QED
  BY <1>1, ReadoutInv, PTL
=============================================================================
