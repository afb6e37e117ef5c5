-------------------------- MODULE CallbacksProofs --------------------------
(***************************************************************************)
(* The theorems about jQuery's lists of callbacks, Deferred and when, for  *)
(* any number of callbacks and calls, and before them the lemmas about     *)
(* sequences.  First, what a firing list has still to call (ListGood);     *)
(* then, that values come in order (ValueGood); last, what Deferred        *)
(* promises: how far each list is with all that it has to call (Stage),    *)
(* which lists close which (Closing), and what when() has counted.         *)
(***************************************************************************)
EXTENDS Callbacks, FiniteSetTheorems, SequenceTheorems, WellFoundedInduction, TLAPS

(***************************************************************************)
(* Lists.  What a loop leaves of an array is known by induction over the   *)
(* elements it has seen: there would be a least number of them for which   *)
(* it is not true.                                                         *)
(***************************************************************************)
LEMMA LeastNat ==
    ASSUME NEW T, T \subseteq Nat, T # {}
    PROVE  \E m \in T : \A k \in T : m <= k
<1> DEFINE Less == {ss \in Nat \X Nat : ss[1] < ss[2]}
<1>1. IsWellFoundedOn(Less, Nat)
  BY NatLessThanWellFounded DEF OpToRel
<1> HIDE DEF Less
<1>2. PICK m \in T : \A k \in T : <<k, m>> \notin Less
  BY <1>1, WFMin
<1>3. \A k \in T : ~(k < m)
  BY <1>2 DEF Less
<1> QED BY <1>3

\* What holds of nothing, and of n when it holds of one less, holds of all.
LEMMA Reaches ==
    ASSUME NEW n \in Nat, NEW T, 0 \in T, \A i \in 1..n : i - 1 \in T => i \in T
    PROVE  \A i \in 0..n : i \in T
<1> DEFINE Bad == {i \in 0..n : i \notin T}
<1>1. SUFFICES ASSUME Bad # {} PROVE FALSE
  OBVIOUS
<1>2. Bad \subseteq Nat
  OBVIOUS
<1>3. PICK m \in Bad : \A k \in Bad : m <= k
  <2> HIDE DEF Bad
  <2> QED BY <1>1, <1>2, LeastNat
<1>4. m \in 1..n /\ m - 1 \in 0..n /\ ~(m <= m - 1)
  BY <1>3
<1>5. m - 1 \in T
  BY <1>3, <1>4
<1> QED BY <1>3, <1>4, <1>5

\* What the loop has kept after each of the elements of s.
Loop(g, s, keep) ==
    g = [i \in 0..Len(s) |->
            IF i = 0 THEN <<>>
            ELSE IF s[i] \in keep THEN Append(g[i - 1], s[i])
            ELSE g[i - 1]]

LEMMA LoopFacts ==
    ASSUME NEW S, NEW s \in Seq(S), NEW keep, NEW g, Loop(g, s, keep)
    PROVE  /\ g[0] = <<>>
           /\ \A i \in 1..Len(s) :
                 /\ s[i] \in keep => g[i] = Append(g[i - 1], s[i])
                 /\ s[i] \notin keep => g[i] = g[i - 1]
           /\ \A i \in 0..Len(s) : g[i] \in Seq(S)
<1> DEFINE n == Len(s)
           e(i) == IF i = 0 THEN <<>>
                   ELSE IF s[i] \in keep THEN Append(g[i - 1], s[i]) ELSE g[i - 1]
<1>1. n \in Nat /\ \A i \in 1..n : s[i] \in S
  OBVIOUS
<1>2. g = [i \in 0..n |-> e(i)]
  BY DEF Loop
<1> HIDE DEF n
<1>3. \A i \in 0..n : g[i] = e(i)
  BY <1>2, Zenon
<1>4. g[0] = <<>>
  BY <1>1, <1>3
<1>5. \A i \in 1..n : i \in 0..n /\ i # 0
  BY <1>1
<1>6. \A i \in 1..n : /\ s[i] \in keep => g[i] = Append(g[i - 1], s[i])
                      /\ s[i] \notin keep => g[i] = g[i - 1]
  BY <1>3, <1>5, Zenon
<1> DEFINE T == {i \in 0..n : g[i] \in Seq(S)}
<1>7. 0 \in T
  <2>1. 0 \in 0..n /\ <<>> \in Seq(S)
    BY <1>1
  <2> QED BY <1>4, <2>1
<1>8. ASSUME NEW i \in 1..n, i - 1 \in T PROVE i \in T
  <2>1. i \in 0..n /\ s[i] \in S /\ g[i - 1] \in Seq(S)
    BY <1>1, <1>5, <1>8
  <2>2. Append(g[i - 1], s[i]) \in Seq(S)
    BY <2>1
  <2> QED BY <1>6, <2>1, <2>2
<1>9. \A i \in 0..n : i \in T
  <2> HIDE DEF T
  <2> QED BY <1>1, <1>7, <1>8, Reaches
<1> QED BY <1>4, <1>6, <1>9 DEF n

LEMMA LoopExists ==
    ASSUME NEW S, NEW s \in Seq(S), NEW keep
    PROVE  \E g : Loop(g, s, keep)
<1> DEFINE n == Len(s)
           Upto(g, m) == g = [i \in 0..m |-> IF i = 0 THEN <<>>
                                 ELSE IF s[i] \in keep THEN Append(g[i - 1], s[i])
                                 ELSE g[i - 1]]
           T == {m \in 0..n : \E g : Upto(g, m)}
<1>1. n \in Nat
  OBVIOUS
<1> HIDE DEF n
<1>2. 0 \in T
  <2> DEFINE g == [i \in 0..0 |-> <<>>]
  <2>1. g = [i \in 0..0 |-> IF i = 0 THEN <<>>
                            ELSE IF s[i] \in keep THEN Append(g[i - 1], s[i])
                            ELSE g[i - 1]]
    OBVIOUS
  <2>2. Upto(g, 0)
    BY <2>1
  <2>3. 0 \in 0..n
    BY <1>1
  <2> QED BY <2>2, <2>3
<1>3. ASSUME NEW m \in 1..n, m - 1 \in T PROVE m \in T
  <2>1. PICK f : Upto(f, m - 1)
    BY <1>3
  <2> DEFINE top == IF s[m] \in keep THEN Append(f[m - 1], s[m]) ELSE f[m - 1]
             g == [i \in 0..m |-> IF i = m THEN top ELSE f[i]]
             e(h, i) == IF i = 0 THEN <<>>
                        ELSE IF s[i] \in keep THEN Append(h[i - 1], s[i])
                        ELSE h[i - 1]
  <2>2. /\ m \in Nat /\ m # 0 /\ m \in 0..m /\ m - 1 \in 0..(m - 1)
        /\ \A i \in 0..(m - 1) : i \in 0..m /\ i # m
        /\ \A i \in 0..m : i = m \/ i \in 0..(m - 1)
        /\ \A i \in 0..(m - 1) : i # 0 => i - 1 \in 0..(m - 1)
    BY <1>1
  <2>3. \A i \in 0..(m - 1) : g[i] = f[i]
    BY <2>2, Zenon
  <2>4. g[m] = top
    BY <2>2
  <2>5. f = [i \in 0..(m - 1) |-> e(f, i)]
    BY <2>1
  <2>6. \A i \in 0..(m - 1) : f[i] = e(f, i)
    <3> HIDE DEF e
    <3> QED BY <2>5, Zenon
  <2>7. g = [i \in 0..m |-> g[i]]
    OBVIOUS
  <2> HIDE DEF g, top
  <2>8. \A i \in 0..(m - 1) : g[i] = e(g, i)
    <3> TAKE i \in 0..(m - 1)
    <3>1. CASE i = 0
      BY <2>3, <2>6, <3>1
    <3>2. CASE i # 0
      <4>1. g[i - 1] = f[i - 1]
        BY <2>2, <2>3, <3>2
      <4> QED BY <2>3, <2>6, <3>2, <4>1, Zenon
    <3> QED BY <3>1, <3>2
  <2>9. g[m] = e(g, m)
    <3>1. g[m - 1] = f[m - 1]
      BY <2>2, <2>3
    <3> QED BY <2>2, <2>4, <3>1, Zenon DEF top
  <2>10. \A i \in 0..m : g[i] = e(g, i)
    <3> HIDE DEF e
    <3> QED BY <2>2, <2>8, <2>9
  <2>11. g = [i \in 0..m |-> e(g, i)]
    <3> HIDE DEF e
    <3> QED BY <2>7, <2>10, Zenon
  <2>12. Upto(g, m)
    BY <2>11
  <2>13. m \in 0..n
    BY <1>1
  <2> QED BY <2>12, <2>13
<1>4. \A i \in 0..n : i \in T
  <2> HIDE DEF T
  <2> QED BY <1>1, <1>2, <1>3, Reaches
<1>5. n \in T
  <2> HIDE DEF T
  <2> QED BY <1>1, <1>4
<1> QED BY <1>5 DEF Loop, n

LEMMA KeptIsLoop ==
    ASSUME NEW S, NEW s \in Seq(S), NEW keep
    PROVE  \E g : Loop(g, s, keep) /\ Kept(s, keep) = g[Len(s)]
<1> DEFINE g == CHOOSE f : Loop(f, s, keep)
<1>1. Loop(g, s, keep)
  BY LoopExists
<1>2. Kept(s, keep) = g[Len(s)]
  BY DEF Kept, Loop
<1> QED BY <1>1, <1>2

\* The loop over a longer array has kept as much after the same elements.
LEMMA LoopAgrees ==
    ASSUME NEW S, NEW s \in Seq(S), NEW t \in Seq(S), NEW keep, NEW g, NEW h,
           Loop(g, s, keep), Loop(h, t, keep), Len(s) <= Len(t),
           \A i \in 1..Len(s) : s[i] = t[i]
    PROVE  \A i \in 0..Len(s) : g[i] = h[i]
<1> DEFINE n == Len(s)
           T == {i \in 0..n : g[i] = h[i]}
<1>1. n \in Nat /\ Len(t) \in Nat /\ \A i \in 1..n : i \in 1..Len(t)
  OBVIOUS
<1>2. 0 \in T
  BY <1>1, LoopFacts
<1>3. ASSUME NEW i \in 1..n, i - 1 \in T PROVE i \in T
  <2>1. /\ s[i] \in keep => g[i] = Append(g[i - 1], s[i])
        /\ s[i] \notin keep => g[i] = g[i - 1]
    BY LoopFacts
  <2>2. /\ t[i] \in keep => h[i] = Append(h[i - 1], t[i])
        /\ t[i] \notin keep => h[i] = h[i - 1]
    BY <1>1, LoopFacts
  <2>3. i \in 0..n /\ g[i - 1] = h[i - 1]
    BY <1>1, <1>3
  <2> QED BY <2>1, <2>2, <2>3
<1> HIDE DEF T
<1>4. \A i \in 0..n : i \in T
  BY <1>1, <1>2, <1>3, Reaches
<1> QED BY <1>4 DEF T

LEMMA KeptEmpty ==
    ASSUME NEW keep
    PROVE  Kept(<<>>, keep) = <<>>
<1>1. PICK s \in Seq(Nat) : s = <<>>
  <2>1. <<>> \in Seq(Nat)
    OBVIOUS
  <2> QED BY <2>1, Zenon
<1>2. PICK g : Loop(g, s, keep) /\ Kept(s, keep) = g[Len(s)]
  BY KeptIsLoop
<1>3. g[0] = <<>>
  BY <1>2, LoopFacts
<1>4. Len(s) = 0
  BY <1>1
<1> QED BY <1>1, <1>2, <1>3, <1>4

LEMMA KeptTyped ==
    ASSUME NEW S, NEW s \in Seq(S), NEW keep
    PROVE  Kept(s, keep) \in Seq(S)
<1>1. PICK g : Loop(g, s, keep) /\ Kept(s, keep) = g[Len(s)]
  BY KeptIsLoop
<1>2. Len(s) \in 0..Len(s)
  OBVIOUS
<1> QED BY <1>1, <1>2, LoopFacts

LEMMA KeptAppend ==
    ASSUME NEW S, NEW s \in Seq(S), NEW x \in S, NEW keep
    PROVE  /\ x \in keep => Kept(Append(s, x), keep) = Append(Kept(s, keep), x)
           /\ x \notin keep => Kept(Append(s, x), keep) = Kept(s, keep)
<1>1. PICK t \in Seq(S) : t = Append(s, x)
  BY AppendProperties
<1>2. /\ Len(t) = Len(s) + 1 /\ Len(s) \in Nat /\ t[Len(t)] = x
      /\ \A i \in 1..Len(s) : s[i] = t[i]
  BY <1>1
<1>3. PICK g : Loop(g, s, keep) /\ Kept(s, keep) = g[Len(s)]
  BY KeptIsLoop
<1>4. PICK h : Loop(h, t, keep) /\ Kept(t, keep) = h[Len(t)]
  BY KeptIsLoop
<1>5. h[Len(s)] = g[Len(s)]
  BY <1>2, <1>3, <1>4, LoopAgrees
<1>6. /\ x \in keep => h[Len(t)] = Append(h[Len(s)], x)
      /\ x \notin keep => h[Len(t)] = h[Len(s)]
  <2>1. Len(t) \in 1..Len(t) /\ Len(t) - 1 = Len(s)
    BY <1>2
  <2> QED BY <1>2, <1>4, <2>1, LoopFacts
<1>7. g[Len(s)] \in Seq(S)
  BY <1>2, <1>3, LoopFacts
<1> QED BY <1>1, <1>3, <1>4, <1>5, <1>6, <1>7

\* The last element of a list that has one.
LEMMA Unappended ==
    ASSUME NEW S, NEW s \in Seq(S), Len(s) # 0
    PROVE  /\ s[Len(s)] \in S
           /\ \E t \in Seq(S) : /\ s = Append(t, s[Len(s)]) /\ Len(t) = Len(s) - 1
                                /\ \A i \in 1..Len(t) : t[i] = s[i]
<1>1. Len(s) \in Nat /\ Len(s) \in 1..Len(s) /\ Len(s) - 1 \in Nat
  OBVIOUS
<1>2. PICK t : t = SubSeq(s, 1, Len(s) - 1)
  OBVIOUS
<1>3. t \in Seq(S) /\ Len(t) = Len(s) - 1 /\ \A i \in 1..Len(t) : t[i] = s[i]
  <2>1. PICK n \in Nat : n = Len(s) - 1 /\ n \in Int /\ \A i \in 1..n : s[i] \in S
    BY <1>1
  <2>2. t = SubSeq(s, 1, n)
    BY <1>2, <2>1
  <2>3. t \in Seq(S)
    BY <2>1, <2>2, SubSeqProperties
  <2>4. Len(t) = n
    BY <2>1, <2>2, SubSeqProperties
  <2>5. \A i \in 1..(n - 1 + 1) : t[i] = s[1 + i - 1]
    BY <2>1, <2>2, SubSeqProperties
  <2>6. \A i \in 1..n : i \in 1..(n - 1 + 1) /\ 1 + i - 1 = i
    BY <2>1
  <2> QED BY <2>1, <2>3, <2>4, <2>5, <2>6
<1>4. s[Len(s)] \in S
  BY <1>1
<1>5. PICK u : u = Append(t, s[Len(s)])
  OBVIOUS
<1>6. /\ u \in Seq(S) /\ Len(u) = Len(s) /\ u[Len(s)] = s[Len(s)]
      /\ \A i \in 1..(Len(s) - 1) : u[i] = s[i]
  BY <1>1, <1>3, <1>4, <1>5, AppendProperties
<1>7. \A i \in 1..Len(s) : i = Len(s) \/ i \in 1..(Len(s) - 1)
  BY <1>1
<1>8. u = s
  BY <1>6, <1>7, SeqEqual
<1> QED BY <1>3, <1>4, <1>5, <1>8

LEMMA ConcatFacts ==
    ASSUME NEW S, NEW s \in Seq(S), NEW t \in Seq(S), NEW c, c = s \o t
    PROVE  /\ c \in Seq(S) /\ Len(c) = Len(s) + Len(t)
           /\ \A i \in 1..Len(s) : c[i] = s[i]
           /\ \A i \in 1..Len(t) : c[Len(s) + i] = t[i]
OBVIOUS

LEMMA ConcatAppend ==
    ASSUME NEW S, NEW s \in Seq(S), NEW t \in Seq(S), NEW x \in S
    PROVE  s \o Append(t, x) = Append(s \o t, x)
<1>1. PICK one \in Seq(S) : one = <<x>>
  <2>1. <<x>> \in Seq(S)
    OBVIOUS
  <2> QED BY <2>1, Zenon
<1>2. PICK st \in Seq(S) : st = s \o t
  BY ConcatProperties, Zenon
<1>3. Append(t, x) = t \o one /\ Append(st, x) = st \o one
  BY <1>1, AppendIsConcat
<1>4. (s \o t) \o one = s \o (t \o one)
  BY ConcatAssociative
<1> QED BY <1>2, <1>3, <1>4

LEMMA KeptConcat ==
    ASSUME NEW S, NEW s \in Seq(S), NEW t \in Seq(S), NEW keep
    PROVE  Kept(s \o t, keep) = Kept(s, keep) \o Kept(t, keep)
<1> DEFINE T == {n \in Nat : \A u \in Seq(S) : Len(u) = n =>
                    Kept(s \o u, keep) = Kept(s, keep) \o Kept(u, keep)}
<1>0. Kept(s, keep) \in Seq(S)
  BY KeptTyped
<1>1. 0 \in T
  <2>1. ASSUME NEW u \in Seq(S), Len(u) = 0
        PROVE  Kept(s \o u, keep) = Kept(s, keep) \o Kept(u, keep)
    <3>1. u = <<>>
      BY <2>1, EmptySeq
    <3>2. s \o <<>> = s /\ Kept(s, keep) \o <<>> = Kept(s, keep)
      BY <1>0, ConcatEmptySeq
    <3> QED BY <3>1, <3>2, KeptEmpty
  <2> QED BY <2>1
<1>2. ASSUME NEW n \in 1..Len(t), n - 1 \in T PROVE n \in T
  <2>1. ASSUME NEW u \in Seq(S), Len(u) = n
        PROVE  Kept(s \o u, keep) = Kept(s, keep) \o Kept(u, keep)
    <3>1. PICK x \in S : x = u[n]
      BY <2>1
    <3>2. PICK v \in Seq(S) : u = Append(v, x) /\ Len(v) = n - 1
      <4>1. Len(u) # 0
        BY <1>2, <2>1
      <4> QED BY <2>1, <3>1, <4>1, Unappended
    <3>3. PICK sv \in Seq(S) : sv = s \o v
      BY ConcatProperties, Zenon
    <3>4. s \o u = Append(sv, x)
      BY <3>2, <3>3, ConcatAppend
    <3>5. PICK kv \in Seq(S) : kv = Kept(v, keep)
      BY KeptTyped
    <3>6. Kept(sv, keep) = Kept(s, keep) \o kv
      BY <1>2, <3>2, <3>3, <3>5
    <3>7. Kept(s, keep) \o Append(kv, x) = Append(Kept(s, keep) \o kv, x)
      BY <1>0, <3>5, ConcatAppend
    <3>8. CASE x \in keep
      <4>1. Kept(u, keep) = Append(kv, x)
        BY <3>2, <3>5, <3>8, KeptAppend
      <4>2. Kept(s \o u, keep) = Append(Kept(sv, keep), x)
        BY <3>4, <3>8, KeptAppend
      <4> QED BY <3>6, <3>7, <4>1, <4>2
    <3>9. CASE x \notin keep
      <4>1. Kept(u, keep) = kv /\ Kept(s \o u, keep) = Kept(sv, keep)
        BY <3>2, <3>4, <3>5, <3>9, KeptAppend
      <4> QED BY <3>6, <4>1
    <3> QED BY <3>8, <3>9
  <2> QED BY <2>1
<1>3. \A i \in 0..Len(t) : i \in T
  <2> HIDE DEF T
  <2>1. Len(t) \in Nat
    OBVIOUS
  <2> QED BY <1>1, <1>2, <2>1, Reaches
<1>4. Len(t) \in T
  <2> HIDE DEF T
  <2> QED BY <1>3
<1> QED BY <1>4

\* Where the elements are that the loop takes out.
GoneOf(s, keep) == {i \in 1..Len(s) : s[i] \notin keep}

LEMMA KeptLength ==
    ASSUME NEW S, NEW s \in Seq(S), NEW keep
    PROVE  /\ IsFiniteSet(GoneOf(s, keep))
           /\ Cardinality(GoneOf(s, keep)) \in 0..Len(s)
           /\ Len(Kept(s, keep)) = Len(s) - Cardinality(GoneOf(s, keep))
<1> DEFINE Gone(u) == GoneOf(u, keep)
           T == {n \in Nat : \A u \in Seq(S) : Len(u) = n =>
                    /\ IsFiniteSet(Gone(u)) /\ Cardinality(Gone(u)) \in 0..n
                    /\ Len(Kept(u, keep)) = n - Cardinality(Gone(u))}
<1>1. 0 \in T
  <2>1. ASSUME NEW u \in Seq(S), Len(u) = 0
        PROVE  /\ IsFiniteSet(Gone(u)) /\ Cardinality(Gone(u)) \in 0..0
               /\ Len(Kept(u, keep)) = 0 - Cardinality(Gone(u))
    <3>1. u = <<>> /\ Gone(u) = {}
      BY <2>1, EmptySeq DEF GoneOf
    <3> QED BY <3>1, KeptEmpty, FS_EmptySet
  <2> QED BY <2>1
<1>2. ASSUME NEW n \in 1..Len(s), n - 1 \in T PROVE n \in T
  <2>1. ASSUME NEW u \in Seq(S), Len(u) = n
        PROVE  /\ IsFiniteSet(Gone(u)) /\ Cardinality(Gone(u)) \in 0..n
               /\ Len(Kept(u, keep)) = n - Cardinality(Gone(u))
    <3>1. PICK x \in S : x = u[n]
      BY <2>1
    <3>2. PICK v \in Seq(S) : /\ u = Append(v, x) /\ Len(v) = n - 1
                              /\ \A i \in 1..Len(v) : v[i] = u[i]
      <4>1. Len(u) # 0
        BY <1>2, <2>1
      <4> QED BY <2>1, <3>1, <4>1, Unappended
    <3>3. n \in Nat /\ n - 1 \in Nat /\ n \notin 1..(n - 1) /\ \A i \in 1..n : i = n \/ i \in 1..(n - 1)
      BY <1>2
    <3>4. PICK m \in 0..(n - 1) : /\ IsFiniteSet(Gone(v)) /\ Cardinality(Gone(v)) = m
                                  /\ Len(Kept(v, keep)) = n - 1 - m
      BY <1>2, <3>2
    <3>5. Kept(v, keep) \in Seq(S)
      BY KeptTyped
    <3>6. CASE x \in keep
      <4>1. Gone(u) = Gone(v)
        BY <2>1, <3>1, <3>2, <3>3, <3>6 DEF GoneOf
      <4>2. Len(Kept(u, keep)) = Len(Kept(v, keep)) + 1
        BY <3>2, <3>5, <3>6, KeptAppend
      <4> QED BY <3>3, <3>4, <4>1, <4>2
    <3>7. CASE x \notin keep
      <4>1. Gone(u) = Gone(v) \cup {n} /\ n \notin Gone(v)
        BY <2>1, <3>1, <3>2, <3>3, <3>7 DEF GoneOf
      <4>2. Len(Kept(u, keep)) = Len(Kept(v, keep))
        BY <3>2, <3>7, KeptAppend
      <4>3. IsFiniteSet(Gone(u)) /\ Cardinality(Gone(u)) = m + 1
        <5> QED BY <3>4, <4>1, FS_AddElement
      <4>4. m + 1 \in 0..n /\ n - 1 - m = n - (m + 1)
        BY <3>3
      <4> QED BY <3>4, <4>2, <4>3, <4>4
    <3> QED BY <3>6, <3>7
  <2> QED BY <2>1
<1>3. \A i \in 0..Len(s) : i \in T
  <2> HIDE DEF T
  <2>1. Len(s) \in Nat
    OBVIOUS
  <2> QED BY <1>1, <1>2, <2>1, Reaches
<1>4. Len(s) \in T
  <2> HIDE DEF T
  <2> QED BY <1>3
<1> QED BY <1>4

\* Where the elements come from, in their order.
Embeds(at, k, s, keep) ==
    /\ at \in [1..Len(k) -> 1..Len(s)]
    /\ \A i, j \in 1..Len(k) : i < j => at[i] < at[j]
    /\ \A i \in 1..Len(k) : k[i] = s[at[i]] /\ k[i] \in keep
    /\ \A j \in 1..Len(s) : s[j] \in keep => \E i \in 1..Len(k) : at[i] = j

LEMMA KeptEmbeds ==
    ASSUME NEW S, NEW s \in Seq(S), NEW keep
    PROVE  \E at : Embeds(at, Kept(s, keep), s, keep)
<1> DEFINE T == {n \in Nat : \A u \in Seq(S) : Len(u) = n =>
                    \E at : Embeds(at, Kept(u, keep), u, keep)}
<1>1. 0 \in T
  <2>1. ASSUME NEW u \in Seq(S), Len(u) = 0
        PROVE  \E at : Embeds(at, Kept(u, keep), u, keep)
    <3>1. u = <<>>
      BY <2>1, EmptySeq
    <3>2. Kept(u, keep) = <<>>
      BY <3>1, KeptEmpty
    <3>3. Embeds([i \in 1..0 |-> 1], <<>>, u, keep)
      BY <2>1 DEF Embeds
    <3> QED BY <3>2, <3>3
  <2> QED BY <2>1
<1>2. ASSUME NEW n \in 1..Len(s), n - 1 \in T PROVE n \in T
  <2>1. ASSUME NEW u \in Seq(S), Len(u) = n
        PROVE  \E at : Embeds(at, Kept(u, keep), u, keep)
    <3>1. PICK x \in S : x = u[n]
      BY <2>1
    <3>2. PICK v \in Seq(S) : /\ u = Append(v, x) /\ Len(v) = n - 1
                              /\ \A i \in 1..Len(v) : v[i] = u[i]
      <4>1. Len(u) # 0
        BY <1>2, <2>1
      <4> QED BY <2>1, <3>1, <4>1, Unappended
    <3>3. /\ n \in Nat /\ n - 1 \in Nat /\ n \in 1..n
          /\ \A i \in 1..(n - 1) : i \in 1..n /\ i < n
          /\ \A i \in 1..n : i = n \/ i \in 1..(n - 1)
      BY <1>2
    <3>4. PICK at : Embeds(at, Kept(v, keep), v, keep)
      BY <1>2, <3>2
    <3>5. PICK kv \in Seq(S) : kv = Kept(v, keep)
      BY KeptTyped
    <3>6. PICK m \in Nat : m = Len(kv)
      OBVIOUS
    <3>7. /\ \A i \in 1..m : at[i] \in 1..(n - 1) /\ kv[i] = v[at[i]] /\ kv[i] \in keep
          /\ \A i, j \in 1..m : i < j => at[i] < at[j]
          /\ \A j \in 1..(n - 1) : v[j] \in keep => \E i \in 1..m : at[i] = j
          /\ at \in [1..m -> 1..(n - 1)]
      BY <3>2, <3>4, <3>5, <3>6 DEF Embeds
    <3>8. \A i \in 1..(n - 1) : v[i] = u[i]
      BY <3>2
    <3>9. CASE x \notin keep
      <4>1. Kept(u, keep) = kv
        BY <3>2, <3>5, <3>9, KeptAppend
      <4>2. Embeds(at, kv, u, keep)
        <5>1. at \in [1..Len(kv) -> 1..Len(u)]
          BY <2>1, <3>3, <3>6, <3>7
        <5>2. \A j \in 1..Len(u) : u[j] \in keep => \E i \in 1..Len(kv) : at[i] = j
          BY <2>1, <3>1, <3>3, <3>6, <3>7, <3>8, <3>9
        <5>3. \A i \in 1..Len(kv) : kv[i] = u[at[i]] /\ kv[i] \in keep
          BY <3>6, <3>7, <3>8
        <5> QED BY <3>6, <3>7, <5>1, <5>2, <5>3 DEF Embeds
      <4> QED BY <4>1, <4>2
    <3>10. CASE x \in keep
      <4>1. PICK k \in Seq(S) : k = Append(kv, x)
        BY AppendProperties
      <4>2. Kept(u, keep) = k
        BY <3>2, <3>5, <3>10, <4>1, KeptAppend
      <4>3. Len(k) = m + 1 /\ k[m + 1] = x /\ \A i \in 1..m : k[i] = kv[i]
        BY <3>6, <4>1, AppendProperties
      <4> DEFINE to == [i \in 1..(m + 1) |-> IF i = m + 1 THEN n ELSE at[i]]
      <4>4. /\ to[m + 1] = n
            /\ \A i \in 1..m : to[i] = at[i]
            /\ \A i \in 1..(m + 1) : i = m + 1 \/ i \in 1..m
            /\ \A i \in 1..m : i \in 1..(m + 1)
            /\ m + 1 \in 1..(m + 1)
        BY <3>6
      <4>5. to \in [1..(m + 1) -> 1..n]
        BY <3>3, <3>7
      <4> HIDE DEF to
      <4>6. \A i, j \in 1..(m + 1) : i < j => to[i] < to[j]
        <5> TAKE i \in 1..(m + 1), j \in 1..(m + 1)
        <5> HAVE i < j
        <5>1. i \in 1..m /\ at[i] \in 1..(n - 1)
          BY <3>7, <4>4
        <5>2. CASE j = m + 1
          BY <3>3, <4>4, <5>1, <5>2
        <5>3. CASE j # m + 1
          BY <3>7, <4>4, <5>1, <5>3
        <5> QED BY <5>2, <5>3
      <4>7. \A i \in 1..(m + 1) : k[i] = u[to[i]] /\ k[i] \in keep
        <5> TAKE i \in 1..(m + 1)
        <5>1. CASE i = m + 1
          BY <3>1, <3>10, <4>3, <4>4, <5>1
        <5>2. CASE i # m + 1
          <6>1. i \in 1..m /\ at[i] \in 1..(n - 1)
            BY <3>7, <4>4, <5>2
          <6> QED BY <3>7, <3>8, <4>3, <4>4, <6>1
        <5> QED BY <5>1, <5>2
      <4>8. \A j \in 1..n : u[j] \in keep => \E i \in 1..(m + 1) : to[i] = j
        BY <3>3, <3>7, <3>8, <4>4
      <4>9. Embeds(to, k, u, keep)
        BY <2>1, <4>3, <4>5, <4>6, <4>7, <4>8 DEF Embeds
      <4> QED BY <4>2, <4>9
    <3> QED BY <3>9, <3>10
  <2> QED BY <2>1
<1>3. \A i \in 0..Len(s) : i \in T
  <2> HIDE DEF T
  <2>1. Len(s) \in Nat
    OBVIOUS
  <2> QED BY <1>1, <1>2, <2>1, Reaches
<1>4. Len(s) \in T
  <2> HIDE DEF T
  <2> QED BY <1>3
<1> QED BY <1>4

\* A list in two parts.
IsSplit(b, d, x, y) ==
    /\ x = SubSeq(b, 1, d) /\ y = SubSeq(b, d + 1, Len(b)) /\ b = x \o y
    /\ Len(x) = d /\ Len(y) = Len(b) - d
    /\ \A i \in 1..d : x[i] = b[i]
    /\ \A i \in 1..(Len(b) - d) : y[i] = b[d + i]

LEMMA SplitFacts ==
    ASSUME NEW S, NEW b \in Seq(S), NEW d \in Nat, d <= Len(b)
    PROVE  \E x, y \in Seq(S) : IsSplit(b, d, x, y)
<1>1. PICK n \in Nat : n = Len(b) /\ d <= n
  OBVIOUS
<1>2. PICK x : x = SubSeq(b, 1, d)
  OBVIOUS
<1>3. x \in Seq(S) /\ Len(x) = d /\ \A i \in 1..d : x[i] = b[i]
  <2>1. \A i \in 1..d : b[i] \in S /\ i \in 1..(d - 1 + 1) /\ 1 + i - 1 = i
    BY <1>1
  <2>2. x \in Seq(S)
    BY <1>2, <2>1, SubSeqProperties
  <2>3. Len(x) = d
    BY <1>2, <2>1, SubSeqProperties
  <2>4. \A i \in 1..(d - 1 + 1) : x[i] = b[1 + i - 1]
    BY <1>2, <2>1, SubSeqProperties
  <2> QED BY <2>1, <2>2, <2>3, <2>4
<1>4. PICK y : y = SubSeq(b, d + 1, n)
  OBVIOUS
<1>5. y \in Seq(S) /\ Len(y) = n - d /\ \A i \in 1..(n - d) : y[i] = b[d + i]
  <2>1. /\ d + 1 \in Int /\ n \in Int
        /\ \A i \in (d + 1)..n : b[i] \in S
        /\ \A i \in 1..(n - d) : i \in 1..(n - (d + 1) + 1) /\ d + 1 + i - 1 = d + i
    BY <1>1
  <2>2. y \in Seq(S)
    BY <1>4, <2>1, SubSeqProperties
  <2>3. Len(y) = IF d + 1 <= n THEN n - (d + 1) + 1 ELSE 0
    BY <1>4, <2>1, SubSeqProperties
  <2>4. \A i \in 1..(n - (d + 1) + 1) : y[i] = b[d + 1 + i - 1]
    BY <1>4, <2>1, SubSeqProperties
  <2>5. Len(y) = n - d
    BY <1>1, <2>3
  <2> QED BY <2>1, <2>2, <2>4, <2>5
<1>6. b = x \o y
  <2>1. 1 \in 1..(n + 1) /\ d \in (1 - 1)..n /\ n \in d..n
    BY <1>1
  <2>2. SubSeq(b, 1, d) \o SubSeq(b, d + 1, n) = SubSeq(b, 1, n)
    BY <1>1, <2>1, ConcatAdjacentSubSeq
  <2> QED BY <1>1, <1>2, <1>4, <2>2, SubSeqFull
<1> QED BY <1>1, <1>2, <1>3, <1>4, <1>5, <1>6 DEF IsSplit

LEMMA KeptSplit ==
    \A S : \A x, y \in Seq(S) : \A b, d, keep :
        IsSplit(b, d, x, y) => Kept(b, keep) = Kept(x, keep) \o Kept(y, keep)
<1> TAKE S
<1> TAKE x, y \in Seq(S)
<1> TAKE b, d, keep
<1> HAVE IsSplit(b, d, x, y)
<1>1. Kept(x \o y, keep) = Kept(x, keep) \o Kept(y, keep)
  BY KeptConcat
<1> QED BY <1>1 DEF IsSplit

\* FlattenSeq of the community modules is a loop, too.
Joins(g, seqs) ==
    g = [i \in 1..Len(seqs) |-> IF i = 1 THEN seqs[i] ELSE g[i - 1] \o seqs[i]]

LEMMA JoinsExists ==
    ASSUME NEW seqs, NEW n \in Nat, n = Len(seqs)
    PROVE  \E g : Joins(g, seqs)
<1> DEFINE Upto(g, m) == g = [i \in 1..m |-> IF i = 1 THEN seqs[i] ELSE g[i - 1] \o seqs[i]]
           T == {m \in 0..n : \E g : Upto(g, m)}
<1>1. 0 \in T
  <2> DEFINE g == [i \in 1..0 |-> <<>>]
  <2>1. g = [i \in 1..0 |-> IF i = 1 THEN seqs[i] ELSE g[i - 1] \o seqs[i]]
    OBVIOUS
  <2>2. Upto(g, 0)
    BY <2>1
  <2>3. 0 \in 0..n
    OBVIOUS
  <2> QED BY <2>2, <2>3
<1>2. ASSUME NEW m \in 1..n, m - 1 \in T PROVE m \in T
  <2>1. PICK f : Upto(f, m - 1)
    BY <1>2
  <2> DEFINE top == IF m = 1 THEN seqs[m] ELSE f[m - 1] \o seqs[m]
             g == [i \in 1..m |-> IF i = m THEN top ELSE f[i]]
             e(h, i) == IF i = 1 THEN seqs[i] ELSE h[i - 1] \o seqs[i]
  <2>2. /\ m \in 1..m /\ (m # 1 => m - 1 \in 1..(m - 1))
        /\ \A i \in 1..(m - 1) : i \in 1..m /\ i # m
        /\ \A i \in 1..m : i = m \/ i \in 1..(m - 1)
        /\ \A i \in 1..(m - 1) : i # 1 => i - 1 \in 1..(m - 1)
    OBVIOUS
  <2>3. \A i \in 1..(m - 1) : g[i] = f[i]
    BY <2>2, Zenon
  <2>4. g[m] = top
    BY <2>2
  <2>5. f = [i \in 1..(m - 1) |-> e(f, i)]
    BY <2>1
  <2>6. \A i \in 1..(m - 1) : f[i] = e(f, i)
    <3> HIDE DEF e
    <3> QED BY <2>5, Zenon
  <2>7. g = [i \in 1..m |-> g[i]]
    OBVIOUS
  <2> HIDE DEF g, top
  <2>8. \A i \in 1..(m - 1) : g[i] = e(g, i)
    <3> TAKE i \in 1..(m - 1)
    <3>1. CASE i = 1
      BY <2>3, <2>6, <3>1, Zenon
    <3>2. CASE i # 1
      <4>1. g[i - 1] = f[i - 1]
        BY <2>2, <2>3, <3>2
      <4> QED BY <2>3, <2>6, <3>2, <4>1, Zenon
    <3> QED BY <3>1, <3>2
  <2>9. g[m] = e(g, m)
    <3>1. CASE m = 1
      BY <2>4, <3>1, Zenon DEF top
    <3>2. CASE m # 1
      <4>1. g[m - 1] = f[m - 1]
        BY <2>2, <2>3, <3>2
      <4> QED BY <2>4, <3>2, <4>1, Zenon DEF top
    <3> QED BY <3>1, <3>2
  <2>10. \A i \in 1..m : g[i] = e(g, i)
    <3> HIDE DEF e
    <3> QED BY <2>2, <2>8, <2>9
  <2>11. g = [i \in 1..m |-> e(g, i)]
    <3> HIDE DEF e
    <3> QED BY <2>7, <2>10, Zenon
  <2>12. Upto(g, m)
    BY <2>11
  <2>13. m \in 0..n
    OBVIOUS
  <2> QED BY <2>12, <2>13
<1>3. \A i \in 0..n : i \in T
  <2> HIDE DEF T
  <2> QED BY <1>1, <1>2, Reaches
<1>4. n \in T
  <2> HIDE DEF T
  <2> QED BY <1>3
<1> QED BY <1>4 DEF Joins

\* within[i]: what the first i of the sequences may make.
LEMMA FlattenStays ==
    ASSUME NEW seqs, NEW n \in Nat, n = Len(seqs), n # 0, NEW within, seqs[1] \in within[1],
           \A i \in 2..n : \A s \in within[i - 1] : s \o seqs[i] \in within[i]
    PROVE  FlattenSeq(seqs) \in within[n]
<1> DEFINE g == CHOOSE f : Joins(f, seqs)
           e(i) == IF i = 1 THEN seqs[i] ELSE g[i - 1] \o seqs[i]
<1>1. Joins(g, seqs)
  BY JoinsExists
<1>2. FlattenSeq(seqs) = g[n]
  BY DEF FlattenSeq, Joins
<1> HIDE DEF g
<1>3. g = [i \in 1..n |-> e(i)]
  BY <1>1 DEF Joins
<1>4. \A i \in 1..n : g[i] = e(i)
  <2> HIDE DEF e
  <2> QED BY <1>3, Zenon
<1> DEFINE T == {i \in Nat : i >= 1 => g[i] \in within[i]}
<1>5. 0 \in T
  OBVIOUS
<1>6. ASSUME NEW i \in 1..n, i - 1 \in T PROVE i \in T
  <2>1. CASE i = 1
    BY <1>4, <2>1
  <2>2. CASE i # 1
    <3>1. i \in 2..n /\ i - 1 >= 1
      BY <2>2
    <3>2. g[i] = g[i - 1] \o seqs[i]
      BY <1>4, <2>2
    <3>3. g[i - 1] \in within[i - 1]
      BY <1>6, <3>1
    <3>4. g[i] \in within[i]
      BY <3>1, <3>2, <3>3, Zenon
    <3> QED BY <3>4
  <2> QED BY <2>1, <2>2
<1>7. \A i \in 0..n : i \in T
  <2> HIDE DEF T
  <2> QED BY <1>5, <1>6, Reaches
<1>8. n \in T
  <2> HIDE DEF T
  <2> QED BY <1>7
<1> QED BY <1>2, <1>8

-----------------------------------------------------------------------------
(***************************************************************************)
(* Callbacks.  Each list that fires is on the stack once, and what it has  *)
(* left to call is what follows the callback at its index, or the one that *)
(* is running if one is (ListGood).  Only what is on top of the stack      *)
(* calls, and what it calls changes its own list, or one other.            *)
(***************************************************************************)
\* d is what is left of s after its first p elements.
RestOf(s, p, d) == p \in 0..Len(s) /\ d = SubSeq(s, p + 1, Len(s))

LEMMA RestSplits ==
    ASSUME NEW S, NEW s \in Seq(S), NEW p, NEW d, RestOf(s, p, d)
    PROVE  /\ d \in Seq(S)
           /\ \E x \in Seq(S) : IsSplit(s, p, x, d)
<1>1. p \in Nat /\ p <= Len(s)
  BY DEF RestOf
<1>2. PICK x, y \in Seq(S) : IsSplit(s, p, x, y)
  BY <1>1, SplitFacts
<1>3. y = d
  BY <1>2 DEF IsSplit, RestOf
<1> QED BY <1>2, <1>3

LEMMA RestAll ==
    ASSUME NEW S, NEW s \in Seq(S)
    PROVE  RestOf(s, 0, s)
<1>1. s = SubSeq(s, 1, Len(s))
  BY SubSeqFull
<1>2. 0 \in 0..Len(s)
  OBVIOUS
<1> QED BY <1>1, <1>2 DEF RestOf

LEMMA RestNone ==
    ASSUME NEW S, NEW s \in Seq(S)
    PROVE  /\ RestOf(s, Len(s), <<>>)
           /\ \A d : RestOf(s, Len(s), d) => d = <<>>
<1>1. Len(s) \in 0..Len(s) /\ Len(s) + 1 \in Int /\ Len(s) \in Int /\ Len(s) < Len(s) + 1
  OBVIOUS
<1>2. SubSeq(s, Len(s) + 1, Len(s)) = <<>>
  BY <1>1, SubSeqEmpty
<1> QED BY <1>1, <1>2 DEF RestOf

\* A list in two parts, of which the second one is the rest.
LEMMA RestAfter ==
    ASSUME NEW S, NEW x \in Seq(S), NEW y \in Seq(S), NEW s, s = x \o y
    PROVE  RestOf(s, Len(x), y)
<1>1. /\ s \in Seq(S) /\ Len(s) = Len(x) + Len(y)
      /\ \A i \in 1..Len(y) : s[Len(x) + i] = y[i]
  BY ConcatFacts
<1>2. Len(x) \in Nat /\ Len(y) \in Nat
  OBVIOUS
<1>3. PICK u, v \in Seq(S) : IsSplit(s, Len(x), u, v)
  <2>1. Len(x) <= Len(s)
    BY <1>1, <1>2
  <2> QED BY <1>1, <1>2, <2>1, SplitFacts
<1>4. /\ v = SubSeq(s, Len(x) + 1, Len(s)) /\ Len(v) = Len(y)
      /\ \A i \in 1..Len(y) : v[i] = s[Len(x) + i]
  <2>1. Len(s) - Len(x) = Len(y)
    BY <1>1, <1>2
  <2> QED BY <1>3, <2>1 DEF IsSplit
<1>5. v = y
  BY <1>1, <1>4, SeqEqual
<1> QED BY <1>1, <1>2, <1>4, <1>5 DEF RestOf

LEMMA RestNext ==
    ASSUME NEW S, NEW s \in Seq(S), NEW p, NEW d, RestOf(s, p, d), p < Len(s)
    PROVE  RestOf(s, p + 1, AfterFirst(d)) /\ AfterFirst(d) \in Seq(S)
<1>1. PICK n \in Nat : n = Len(s)
  OBVIOUS
<1>2. p \in 0..n /\ p + 1 \in 1..n /\ p + 1 \in 0..n /\ p + 1 \in Nat /\ p + 1 <= n
  BY <1>1 DEF RestOf
<1>3. PICK x \in Seq(S) : IsSplit(s, p, x, d)
  BY RestSplits
<1>4. d \in Seq(S) /\ Len(d) = n - p /\ d # <<>>
  <2>1. d \in Seq(S)
    BY RestSplits
  <2>2. Len(d) = n - p
    BY <1>1, <1>3 DEF IsSplit
  <2>3. n - p # 0
    BY <1>2
  <2> QED BY <2>1, <2>2, <2>3, EmptySeq
<1>5. AfterFirst(d) = Tail(d)
  BY <1>4, TailIsSubSeq DEF AfterFirst
<1>6. Tail(d) = SubSeq(s, p + 1 + 1, n)
  <2>1. d = SubSeq(s, p + 1, n)
    BY <1>1 DEF RestOf
  <2>2. n \in (p + 1)..n
    BY <1>2
  <2> QED BY <1>1, <1>2, <2>1, <2>2, HeadTailOfSubSeq
<1>7. Tail(d) \in Seq(S)
  BY <1>4, HeadTailProperties
<1> QED BY <1>1, <1>2, <1>5, <1>6, <1>7 DEF RestOf

LEMMA RestAppend ==
    ASSUME NEW S, NEW s \in Seq(S), NEW p, NEW d, RestOf(s, p, d), NEW a \in S
    PROVE  RestOf(Append(s, a), p, Append(d, a))
<1>1. PICK x \in Seq(S) : IsSplit(s, p, x, d)
  BY RestSplits
<1>2. d \in Seq(S) /\ s = x \o d /\ Len(x) = p
  BY <1>1, RestSplits DEF IsSplit
<1>3. Append(s, a) = x \o Append(d, a)
  BY <1>2, ConcatAppend
<1>4. Append(d, a) \in Seq(S)
  BY <1>2, AppendProperties
<1> QED BY <1>2, <1>3, <1>4, RestAfter

\* Kept looks at the elements of the list only.
LEMMA KeptAgrees ==
    ASSUME NEW S, NEW s \in Seq(S), NEW k, NEW m, \A i \in 1..Len(s) : s[i] \in k <=> s[i] \in m
    PROVE  Kept(s, k) = Kept(s, m)
<1>1. PICK g : Loop(g, s, k) /\ Kept(s, k) = g[Len(s)]
  BY KeptIsLoop
<1>2. PICK h : Loop(h, s, m) /\ Kept(s, m) = h[Len(s)]
  BY KeptIsLoop
<1>3. PICK n \in Nat : n = Len(s)
  OBVIOUS
<1>4. /\ g[0] = <<>> /\ h[0] = <<>>
      /\ \A i \in 1..n : s[i] \in k => g[i] = Append(g[i - 1], s[i])
      /\ \A i \in 1..n : s[i] \notin k => g[i] = g[i - 1]
      /\ \A i \in 1..n : s[i] \in m => h[i] = Append(h[i - 1], s[i])
      /\ \A i \in 1..n : s[i] \notin m => h[i] = h[i - 1]
  <2>1. /\ g[0] = <<>>
        /\ \A i \in 1..Len(s) : /\ s[i] \in k => g[i] = Append(g[i - 1], s[i])
                                /\ s[i] \notin k => g[i] = g[i - 1]
    BY <1>1, LoopFacts
  <2>2. /\ h[0] = <<>>
        /\ \A i \in 1..Len(s) : /\ s[i] \in m => h[i] = Append(h[i - 1], s[i])
                                /\ s[i] \notin m => h[i] = h[i - 1]
    BY <1>2, LoopFacts
  <2> QED BY <1>3, <2>1, <2>2
<1> DEFINE T == {i \in 0..n : g[i] = h[i]}
<1>5. 0 \in T
  BY <1>3, <1>4
<1>6. ASSUME NEW i \in 1..n, i - 1 \in T PROVE i \in T
  <2>1. s[i] \in k <=> s[i] \in m
    BY <1>3
  <2>2. g[i - 1] = h[i - 1] /\ i \in 0..n
    BY <1>6
  <2>3. g[i] = h[i]
    BY <1>4, <2>1, <2>2, Zenon
  <2> QED BY <2>2, <2>3
<1>7. \A i \in 0..n : i \in T
  <2> HIDE DEF T
  <2> QED BY <1>5, <1>6, Reaches
<1>8. n \in 0..n
  OBVIOUS
<1> QED BY <1>1, <1>2, <1>3, <1>7, <1>8

Without(s, fn) == Kept(s, ToSet(s) \ {fn})

\* Where fn is among the first p elements of s.
PlacesOf(fn, s, p) == {i \in DOMAIN s : s[i] = fn /\ i <= p}

\* What is left of the rest is the rest of what is left.
LEMMA RestKept ==
    ASSUME NEW S, NEW s \in Seq(S), NEW p, NEW d, RestOf(s, p, d), NEW fn
    PROVE  /\ Without(s, fn) \in Seq(S)
           /\ RestOf(Without(s, fn), p - Cardinality(PlacesOf(fn, s, p)), Without(d, fn))
           /\ Len(Without(s, fn)) = Len(s) - Cardinality(PlacesOf(fn, s, Len(s)))
<1> DEFINE keep == ToSet(s) \ {fn}
<1>1. PICK x \in Seq(S) : IsSplit(s, p, x, d)
  BY RestSplits
<1>2. PICK n \in Nat : n = Len(s) /\ DOMAIN s = 1..n /\ p \in 0..n
  BY LenProperties DEF RestOf
<1>3. /\ d \in Seq(S) /\ Len(x) = p /\ Len(d) = n - p
      /\ \A i \in 1..p : x[i] = s[i]
      /\ \A i \in 1..(n - p) : d[i] = s[p + i]
  BY <1>1, <1>2, RestSplits DEF IsSplit
<1>4. \A i \in 1..n : s[i] \in keep <=> s[i] # fn
  BY <1>2 DEF ToSet
<1>5. PlacesOf(fn, s, n) = GoneOf(s, keep)
  BY <1>2, <1>4 DEF GoneOf, PlacesOf
<1>6. PlacesOf(fn, s, p) = GoneOf(x, keep)
  <2>1. \A i \in 1..n : i <= p <=> i \in 1..p
    BY <1>2
  <2>2. \A i \in 1..p : i \in 1..n
    BY <1>2
  <2> HIDE DEF keep
  <2> QED BY <1>2, <1>3, <1>4, <2>1, <2>2 DEF GoneOf, PlacesOf
<1>7. Kept(d, ToSet(d) \ {fn}) = Kept(d, keep)
  <2>1. DOMAIN d = 1..Len(d)
    BY <1>3, LenProperties
  <2>2. \A i \in 1..Len(d) : d[i] \in ToSet(d) \ {fn} <=> d[i] # fn
    BY <2>1 DEF ToSet
  <2>3. \A i \in 1..Len(d) : d[i] \in keep <=> d[i] # fn
    <3>1. \A i \in 1..(n - p) : p + i \in 1..n
      BY <1>2
    <3> HIDE DEF keep
    <3> QED BY <1>3, <1>4, <3>1
  <2> HIDE DEF keep
  <2> QED BY <1>3, <2>2, <2>3, KeptAgrees
<1> HIDE DEF keep
<1>8. /\ Kept(s, keep) = Kept(x, keep) \o Kept(d, keep)
      /\ Kept(x, keep) \in Seq(S) /\ Kept(d, keep) \in Seq(S) /\ Kept(s, keep) \in Seq(S)
  BY <1>1, <1>3, KeptSplit, KeptTyped
<1>9. RestOf(Kept(s, keep), Len(Kept(x, keep)), Kept(d, keep))
  BY <1>8, RestAfter
<1>10. Len(Kept(x, keep)) = p - Cardinality(GoneOf(x, keep))
  BY <1>3, KeptLength
<1>11. Len(Kept(s, keep)) = n - Cardinality(GoneOf(s, keep))
  BY <1>2, KeptLength
<1> QED BY <1>2, <1>5, <1>6, <1>7, <1>8, <1>9, <1>10, <1>11 DEF keep, Without

\* The stack: a function of a script runs on top of the list that called it,
\* and no list fires inside itself.
StackSound(cs, ids) ==
    /\ cs \in Seq(ids \cup {User})
    /\ \A i \in 1..Len(cs) : cs[i] = User => i > 1 /\ cs[i - 1] \in ids
    /\ \A i, j \in 1..Len(cs) : i < j /\ cs[i] = cs[j] => cs[i] = User

IsFiring(id, cs) == \E i \in 1..Len(cs) : cs[i] = id

InCall(id, cs) == \E i \in 2..Len(cs) : cs[i] = User /\ cs[i - 1] = id

\* t is cs with a on top.
Grows(cs, t, a) ==
    /\ Len(t) = Len(cs) + 1 /\ t[Len(cs) + 1] = a
    /\ \A i \in 1..Len(cs) : t[i] = cs[i]

LEMMA AppendGrows ==
    ASSUME NEW S, NEW cs \in Seq(S), NEW a \in S
    PROVE  Append(cs, a) \in Seq(S) /\ Grows(cs, Append(cs, a), a)
BY AppendProperties DEF Grows

LEMMA FrontGrows ==
    ASSUME NEW S, NEW t \in Seq(S), t # <<>>
    PROVE  /\ Front(t) \in Seq(S) /\ Grows(Front(t), t, Last(t))
           /\ Last(t) \in S
<1>1. PICK n \in Nat : n = Len(t) /\ n # 0
  BY EmptySeq
<1>2. PICK u \in Seq(S) : t = Append(u, t[n]) /\ Len(u) = n - 1 /\ \A i \in 1..Len(u) : u[i] = t[i]
  BY <1>1, Unappended
<1>3. t[n] \in S /\ Last(t) = t[n]
  BY <1>1, Unappended DEF Last
<1>4. Front(t) = u
  <2>1. Front(t) = SubSeq(t, 1, n - 1)
    BY <1>1 DEF Front
  <2>2. n - 1 \in Nat /\ n - 1 <= Len(t)
    BY <1>1
  <2>3. PICK x, y \in Seq(S) : IsSplit(t, n - 1, x, y)
    BY <2>2, SplitFacts
  <2>4. x = Front(t) /\ Len(x) = n - 1 /\ \A i \in 1..(n - 1) : x[i] = t[i]
    BY <2>1, <2>3 DEF IsSplit
  <2>5. x = u
    BY <1>2, <2>4, SeqEqual
  <2> QED BY <2>4, <2>5
<1>5. n = Len(u) + 1
  BY <1>1, <1>2
<1> QED BY <1>1, <1>2, <1>3, <1>4, <1>5 DEF Grows

LEMMA GrowsIndex ==
    ASSUME NEW S, NEW cs \in Seq(S), NEW t \in Seq(S), NEW a, Grows(cs, t, a)
    PROVE  \E n \in Nat :
              /\ n = Len(cs) /\ n + 1 = Len(t)
              /\ t[n + 1] = a
              /\ \A i \in 1..n : t[i] = cs[i] /\ i \in 1..(n + 1) /\ i # n + 1
              /\ \A i \in 2..n : t[i - 1] = cs[i - 1] /\ i \in 1..n
              /\ \A i \in 1..(n + 1) : i = n + 1 \/ i \in 1..n
              /\ \A i \in 2..(n + 1) : i = n + 1 \/ i \in 2..n
              /\ n + 1 \in 1..(n + 1)
BY DEF Grows

\* A list starts to fire.
LEMMA LoopStarts ==
    ASSUME NEW ids, User \notin ids, NEW cs, StackSound(cs, ids), NEW id \in ids,
           ~IsFiring(id, cs), NEW t, t = Append(cs, id)
    PROVE  /\ StackSound(t, ids)
           /\ \A x \in ids : IsFiring(x, t) <=> IsFiring(x, cs) \/ x = id
           /\ \A x \in ids : InCall(x, t) <=> InCall(x, cs)
<1>1. cs \in Seq(ids \cup {User}) /\ t \in Seq(ids \cup {User}) /\ Grows(cs, t, id)
  BY AppendGrows DEF StackSound
<1>2. PICK n \in Nat :
        /\ n = Len(cs) /\ n + 1 = Len(t)
        /\ t[n + 1] = id
        /\ \A i \in 1..n : t[i] = cs[i] /\ i \in 1..(n + 1) /\ i # n + 1
        /\ \A i \in 2..n : t[i - 1] = cs[i - 1] /\ i \in 1..n
        /\ \A i \in 1..(n + 1) : i = n + 1 \/ i \in 1..n
        /\ \A i \in 2..(n + 1) : i = n + 1 \/ i \in 2..n
        /\ n + 1 \in 1..(n + 1)
  BY <1>1, GrowsIndex
<1>3. /\ \A i \in 1..n : cs[i] = User => i > 1 /\ cs[i - 1] \in ids
      /\ \A i, j \in 1..n : i < j /\ cs[i] = cs[j] => cs[i] = User
  BY <1>2 DEF StackSound
<1>4. \A i \in 1..n : cs[i] # id
  BY <1>2 DEF IsFiring
<1>5. \A i \in 1..Len(t) : t[i] = User => i > 1 /\ t[i - 1] \in ids
  <2>1. \A i \in 1..n : i > 1 => i \in 2..n
    OBVIOUS
  <2> QED BY <1>2, <1>3, <2>1
<1>6. \A i, j \in 1..Len(t) : i < j /\ t[i] = t[j] => t[i] = User
  <2> SUFFICES ASSUME NEW i \in 1..(n + 1), NEW j \in 1..(n + 1), i < j, t[i] = t[j]
               PROVE  t[i] = User
    BY <1>2
  <2>1. i \in 1..n
    OBVIOUS
  <2>2. CASE j = n + 1
    BY <1>2, <1>4, <2>1, <2>2
  <2>3. CASE j # n + 1
    BY <1>2, <1>3, <2>1, <2>3
  <2> QED BY <2>2, <2>3
<1>7. \A x \in ids : IsFiring(x, t) <=> IsFiring(x, cs) \/ x = id
  BY <1>2 DEF IsFiring
<1>8. \A x \in ids : InCall(x, t) <=> InCall(x, cs)
  BY <1>2 DEF InCall
<1> QED BY <1>1, <1>5, <1>6, <1>7, <1>8 DEF StackSound

\* The list on top of the stack calls a function of a script.
LEMMA CallStarts ==
    ASSUME NEW ids, User \notin ids, NEW cs, StackSound(cs, ids), cs # <<>>,
           Last(cs) \in ids, NEW t, t = Append(cs, User)
    PROVE  /\ StackSound(t, ids)
           /\ \A x \in ids : IsFiring(x, t) <=> IsFiring(x, cs)
           /\ \A x \in ids : InCall(x, t) <=> InCall(x, cs) \/ x = Last(cs)
<1>1. cs \in Seq(ids \cup {User}) /\ t \in Seq(ids \cup {User}) /\ Grows(cs, t, User)
  BY AppendGrows DEF StackSound
<1>2. PICK n \in Nat :
        /\ n = Len(cs) /\ n + 1 = Len(t)
        /\ t[n + 1] = User
        /\ \A i \in 1..n : t[i] = cs[i] /\ i \in 1..(n + 1) /\ i # n + 1
        /\ \A i \in 2..n : t[i - 1] = cs[i - 1] /\ i \in 1..n
        /\ \A i \in 1..(n + 1) : i = n + 1 \/ i \in 1..n
        /\ \A i \in 2..(n + 1) : i = n + 1 \/ i \in 2..n
        /\ n + 1 \in 1..(n + 1)
  BY <1>1, GrowsIndex
<1>3. /\ \A i \in 1..n : cs[i] = User => i > 1 /\ cs[i - 1] \in ids
      /\ \A i, j \in 1..n : i < j /\ cs[i] = cs[j] => cs[i] = User
  BY <1>2 DEF StackSound
<1>4. n # 0 /\ cs[n] = Last(cs)
  BY <1>1, <1>2, EmptySeq DEF Last
<1>5. /\ n \in 1..n /\ n + 1 > 1 /\ n + 1 - 1 = n /\ t[n] = cs[n]
      /\ n + 1 \in 2..(n + 1)
      /\ \A i \in 2..n : i \in 2..(n + 1)
  BY <1>2, <1>4
<1>6. \A i \in 1..Len(t) : t[i] = User => i > 1 /\ t[i - 1] \in ids
  <2>1. \A i \in 1..n : i > 1 => i \in 2..n
    OBVIOUS
  <2> QED BY <1>2, <1>3, <1>4, <1>5, <2>1
<1>7. \A i, j \in 1..Len(t) : i < j /\ t[i] = t[j] => t[i] = User
  <2> SUFFICES ASSUME NEW i \in 1..(n + 1), NEW j \in 1..(n + 1), i < j, t[i] = t[j]
               PROVE  t[i] = User
    BY <1>2
  <2>1. i \in 1..n
    OBVIOUS
  <2>2. CASE j = n + 1
    BY <1>2, <2>2
  <2>3. CASE j # n + 1
    BY <1>2, <1>3, <2>1, <2>3
  <2> QED BY <2>2, <2>3
<1>8. \A x \in ids : IsFiring(x, t) <=> IsFiring(x, cs)
  BY <1>2 DEF IsFiring
<1>9. ASSUME NEW x \in ids PROVE InCall(x, t) <=> InCall(x, cs) \/ x = Last(cs)
  <2>1. ASSUME InCall(x, t) PROVE InCall(x, cs) \/ x = Last(cs)
    <3>1. PICK i \in 2..(n + 1) : t[i] = User /\ t[i - 1] = x
      BY <1>2, <2>1 DEF InCall
    <3>2. CASE i = n + 1
      <4>1. i - 1 = n
        BY <3>2
      <4>2. t[n] = x
        BY <3>1, <4>1
      <4> QED BY <1>4, <1>5, <4>2
    <3>3. CASE i # n + 1
      BY <1>2, <3>1, <3>3 DEF InCall
    <3> QED BY <3>2, <3>3
  <2>2. ASSUME InCall(x, cs) PROVE InCall(x, t)
    BY <1>2, <1>5, <2>2 DEF InCall
  <2>3. ASSUME x = Last(cs) PROVE InCall(x, t)
    BY <1>2, <1>4, <1>5, <2>3 DEF InCall
  <2> QED BY <2>1, <2>2, <2>3
<1> QED BY <1>1, <1>6, <1>7, <1>8, <1>9 DEF StackSound

\* What is under the top of a stack.
LEMMA UnderTop ==
    ASSUME NEW ids, NEW t, StackSound(t, ids), t # <<>>
    PROVE  StackSound(Front(t), ids)
<1>1. /\ t \in Seq(ids \cup {User}) /\ Front(t) \in Seq(ids \cup {User})
      /\ Grows(Front(t), t, Last(t))
  BY FrontGrows DEF StackSound
<1> DEFINE cs == Front(t)
<1> HIDE DEF cs
<1>2. PICK n \in Nat :
        /\ n = Len(cs) /\ n + 1 = Len(t)
        /\ \A i \in 1..n : t[i] = cs[i] /\ i \in 1..(n + 1) /\ i # n + 1
        /\ \A i \in 2..n : t[i - 1] = cs[i - 1] /\ i \in 1..n
  BY <1>1, GrowsIndex DEF cs
<1>3. /\ \A i \in 1..(n + 1) : t[i] = User => i > 1 /\ t[i - 1] \in ids
      /\ \A i, j \in 1..(n + 1) : i < j /\ t[i] = t[j] => t[i] = User
  BY <1>2 DEF StackSound
<1>4. \A i \in 1..n : cs[i] = User => i > 1 /\ cs[i - 1] \in ids
  <2>1. \A i \in 1..n : i > 1 => i \in 2..n
    OBVIOUS
  <2> QED BY <1>2, <1>3, <2>1
<1>5. \A i, j \in 1..n : i < j /\ cs[i] = cs[j] => cs[i] = User
  BY <1>2, <1>3
<1> QED BY <1>1, <1>2, <1>4, <1>5 DEF StackSound, cs

\* A list has fired, or is about to call something.
LEMMA ListOnTop ==
    ASSUME NEW ids, User \notin ids, NEW t, StackSound(t, ids), t # <<>>, Last(t) \in ids,
           NEW cs, cs = Front(t)
    PROVE  /\ IsFiring(Last(t), t) /\ ~InCall(Last(t), t)
           /\ \A x \in ids : IsFiring(x, cs) <=> IsFiring(x, t) /\ x # Last(t)
           /\ \A x \in ids : InCall(x, cs) <=> InCall(x, t)
<1>1. /\ t \in Seq(ids \cup {User}) /\ cs \in Seq(ids \cup {User})
      /\ Grows(cs, t, Last(t))
  BY FrontGrows DEF StackSound
<1>2. PICK n \in Nat :
        /\ n = Len(cs) /\ n + 1 = Len(t)
        /\ t[n + 1] = Last(t)
        /\ \A i \in 1..n : t[i] = cs[i] /\ i \in 1..(n + 1) /\ i # n + 1
        /\ \A i \in 2..n : t[i - 1] = cs[i - 1] /\ i \in 1..n
        /\ \A i \in 1..(n + 1) : i = n + 1 \/ i \in 1..n
        /\ \A i \in 2..(n + 1) : i = n + 1 \/ i \in 2..n
        /\ n + 1 \in 1..(n + 1)
  BY <1>1, GrowsIndex
<1>3. \A i, j \in 1..(n + 1) : i < j /\ t[i] = t[j] => t[i] = User
  BY <1>2 DEF StackSound
<1>4. \A i \in 1..n : i < n + 1 /\ t[i] # Last(t)
  <2>1. \A i \in 1..n : i < n + 1
    OBVIOUS
  <2>2. Last(t) # User
    OBVIOUS
  <2> QED BY <1>2, <1>3, <2>1, <2>2
<1>5. IsFiring(Last(t), t)
  BY <1>2 DEF IsFiring
<1>6. ~InCall(Last(t), t)
  <2>1. \A i \in 2..(n + 1) : i - 1 \in 1..n
    OBVIOUS
  <2> QED BY <1>2, <1>4, <2>1 DEF InCall
<1>7. \A x \in ids : IsFiring(x, cs) <=> IsFiring(x, t) /\ x # Last(t)
  BY <1>2, <1>4 DEF IsFiring
<1>8. \A x \in ids : InCall(x, cs) <=> InCall(x, t)
  BY <1>2 DEF InCall
<1> QED BY <1>5, <1>6, <1>7, <1>8

\* A function of a script is running.
LEMMA ScriptOnTop ==
    ASSUME NEW ids, User \notin ids, NEW t, StackSound(t, ids), t # <<>>, Last(t) = User,
           NEW cs, cs = Front(t)
    PROVE  /\ t[Len(t) - 1] \in ids /\ cs # <<>> /\ Last(cs) = t[Len(t) - 1]
           /\ InCall(t[Len(t) - 1], t)
           /\ \A x \in ids : IsFiring(x, cs) <=> IsFiring(x, t)
           /\ \A x \in ids : InCall(x, cs) <=> InCall(x, t) /\ x # t[Len(t) - 1]
<1>1. /\ t \in Seq(ids \cup {User}) /\ cs \in Seq(ids \cup {User})
      /\ Grows(cs, t, Last(t)) /\ StackSound(cs, ids)
  BY FrontGrows, UnderTop DEF StackSound
<1>2. PICK n \in Nat :
        /\ n = Len(cs) /\ n + 1 = Len(t)
        /\ t[n + 1] = User
        /\ \A i \in 1..n : t[i] = cs[i] /\ i \in 1..(n + 1) /\ i # n + 1
        /\ \A i \in 2..n : t[i - 1] = cs[i - 1] /\ i \in 1..n
        /\ \A i \in 1..(n + 1) : i = n + 1 \/ i \in 1..n
        /\ \A i \in 2..(n + 1) : i = n + 1 \/ i \in 2..n
        /\ n + 1 \in 1..(n + 1)
  BY <1>1, GrowsIndex
<1>3. n + 1 > 1 /\ t[n + 1 - 1] \in ids
  BY <1>2 DEF StackSound
<1>4. n # 0 /\ n + 1 - 1 = n /\ Len(t) - 1 = n /\ n \in 1..n
  BY <1>2, <1>3
<1>5. cs # <<>> /\ Last(cs) = cs[n] /\ cs[n] = t[n] /\ t[n] \in ids
  BY <1>1, <1>2, <1>3, <1>4, EmptySeq DEF Last
<1>6. t = Append(cs, User)
  <2>1. Append(cs, User) \in Seq(ids \cup {User}) /\ Grows(cs, Append(cs, User), User)
    BY <1>1, AppendGrows
  <2>2. PICK u \in Seq(ids \cup {User}) : u = Append(cs, User)
    BY <2>1
  <2>3. Len(u) = n + 1 /\ u[n + 1] = User /\ \A i \in 1..n : u[i] = cs[i]
    BY <1>2, <2>1, <2>2 DEF Grows
  <2>4. Len(u) = Len(t) /\ \A i \in 1..Len(t) : t[i] = u[i]
    BY <1>2, <2>3
  <2>5. t = u
    BY <1>1, <2>4, SeqEqual
  <2> QED BY <2>2, <2>5
<1>7. /\ \A x \in ids : IsFiring(x, t) <=> IsFiring(x, cs)
      /\ \A x \in ids : InCall(x, t) <=> InCall(x, cs) \/ x = Last(cs)
  <2>1. Last(cs) \in ids
    BY <1>5
  <2> QED BY <1>1, <1>5, <1>6, <2>1, CallStarts
<1>8. ~InCall(Last(cs), cs)
  BY <1>1, <1>5, ListOnTop
<1> QED BY <1>4, <1>5, <1>7, <1>8

\* A list that may hold the callbacks cb.
ListOf(cb) ==
    [flags : SUBSET Flag, list : Seq(cb), alive : BOOLEAN, stack : Seq(Int),
     open : BOOLEAN, memory : Int, firing : BOOLEAN, index : Int, length : Int,
     args : Int]

\* The loop of l goes on behind the first next callbacks, and has d to call.
Fits(l, d, next) ==
    /\ ~l.alive => l.list = <<>> /\ d = <<>>
    /\ ~l.firing => d = <<>>
    /\ l.alive /\ l.firing => l.length = Len(l.list) /\ RestOf(l.list, next, d)

\* m is l, or l that starts to fire with what it holds.
Restarts(l, m) ==
    /\ m.list = l.list /\ m.alive = l.alive
    /\ \/ m.firing = l.firing /\ m.index = l.index /\ m.length = l.length
       \/ ~l.firing /\ m.firing /\ m.index = 0 /\ m.length = Len(m.list)

\* m is l, perhaps closed.
Closes(l, m) ==
    /\ m.firing = l.firing
    /\ \/ ~m.alive /\ m.list = <<>>
       \/ m.alive = l.alive /\ m.list = l.list /\ m.index = l.index /\ m.length = l.length

LEMMA Starts ==
    ASSUME NEW cb, NEW l \in ListOf(cb), NEW value \in Int, NEW from \in Int,
           NEW m, m = StartFire(l, value, from)
    PROVE  /\ m \in ListOf(cb) /\ m.list = l.list /\ m.alive = l.alive
           /\ m.firing /\ m.index = from /\ m.length = Len(l.list)
<1>1. Len(l.list) \in Int
  <2>1. l.list \in Seq(cb)
    BY DEF ListOf
  <2> QED BY <2>1
<1>2. (IF "memory" \in l.flags THEN value ELSE Halted) \in Int
  BY DEF Halted
<1> QED BY <1>1, <1>2 DEF StartFire, ListOf

LEMMA FireFacts ==
    ASSUME NEW cb, NEW l \in ListOf(cb), NEW value \in Int, NEW m, m = FireWith(l, value)
    PROVE  m \in ListOf(cb) /\ Restarts(l, m)
<1>1. CASE ~l.open \/ (l.open /\ l.firing /\ "once" \in l.flags)
           \/ (l.open /\ ~l.firing /\ "once" \in l.flags /\ l.memory # NoValue)
  <2>1. m = l
    BY <1>1, Zenon DEF FireWith
  <2> QED BY <2>1 DEF Restarts
<1>2. CASE l.open /\ l.firing /\ "once" \notin l.flags
  <2>1. m = [l EXCEPT !.stack = Append(@, value)]
    BY <1>2, Zenon DEF FireWith
  <2>2. Append(l.stack, value) \in Seq(Int)
    BY AppendProperties DEF ListOf
  <2> QED BY <2>1, <2>2 DEF Restarts, ListOf
<1>3. CASE l.open /\ ~l.firing /\ ~("once" \in l.flags /\ l.memory # NoValue)
  <2>1. m = StartFire(l, value, 0)
    BY <1>3, Zenon DEF FireWith
  <2> QED BY <1>3, <2>1, Starts DEF Restarts
<1> QED BY <1>1, <1>2, <1>3

LEMMA DisableFacts ==
    ASSUME NEW cb, NEW l \in ListOf(cb), NEW m, m = Disable(l)
    PROVE  m \in ListOf(cb) /\ m.firing = l.firing /\ ~m.alive /\ m.list = <<>>
<1>1. <<>> \in Seq(cb) /\ <<>> \in Seq(Int) /\ NoValue \in Int
  BY DEF NoValue
<1> QED BY <1>1 DEF Disable, ListOf

LEMMA CloseFacts ==
    ASSUME NEW cb, NEW l \in ListOf(cb), NEW m, m \in {Disable(l), Lock(l)}
    PROVE  m \in ListOf(cb) /\ Closes(l, m)
<1>1. CASE m = Disable(l)
  BY <1>1, DisableFacts DEF Closes
<1>2. CASE m = [l EXCEPT !.stack = <<>>, !.open = FALSE]
  <2>1. <<>> \in Seq(Int)
    OBVIOUS
  <2> QED BY <1>2, <2>1 DEF Closes, ListOf
<1> QED BY <1>1, <1>2, Zenon DEF Lock

LEMMA EmptyFacts ==
    ASSUME NEW cb, NEW l \in ListOf(cb), NEW m, m = Empty(l)
    PROVE  m \in ListOf(cb) /\ m.firing = l.firing /\ m.alive /\ m.list = <<>>
<1>1. <<>> \in Seq(cb)
  OBVIOUS
<1> QED BY <1>1 DEF Empty, ListOf

LEMMA AddIs ==
    ASSUME NEW l, l.alive, NEW fn, NEW m, m = AddTo(l, fn)
    PROVE  \E a : /\ a = l \/ a = [l EXCEPT !.list = Append(@, fn)]
                  /\ m = IF l.firing THEN [a EXCEPT !.length = Len(a.list)]
                         ELSE IF l.memory \in {NoValue, Halted} THEN a
                         ELSE StartFire(a, l.memory, Len(l.list))
<1> DEFINE a == IF "unique" \in l.flags /\ Has(l, fn) THEN l
                ELSE [l EXCEPT !.list = Append(@, fn)]
<1>1. m = IF l.firing THEN [a EXCEPT !.length = Len(a.list)]
          ELSE IF l.memory \in {NoValue, Halted} THEN a
          ELSE StartFire(a, l.memory, Len(l.list))
  BY Zenon DEF AddTo
<1>2. a = l \/ a = [l EXCEPT !.list = Append(@, fn)]
  OBVIOUS
<1> HIDE DEF a
<1> QED BY <1>1, <1>2

LEMMA AddToFacts ==
    ASSUME NEW cb, NEW l \in ListOf(cb), NEW fn \in cb, NEW m, m = AddTo(l, fn)
    PROVE  /\ m \in ListOf(cb)
           /\ ~l.alive => m = l
           /\ m.alive = l.alive
           /\ m.list = l.list \/ m.list = Append(l.list, fn)
           /\ l.alive /\ l.firing => m.firing /\ m.index = l.index /\ m.length = Len(m.list)
           /\ l.alive /\ ~l.firing /\ m.firing =>
                m.index = Len(l.list) /\ m.length = Len(m.list)
<1>1. CASE ~l.alive
  <2>1. m = l
    BY <1>1, Zenon DEF AddTo
  <2> QED BY <1>1, <2>1
<1>2. CASE l.alive
  <2>1. l.list \in Seq(cb) /\ Append(l.list, fn) \in Seq(cb)
    BY AppendProperties DEF ListOf
  <2>2. PICK a : /\ a = l \/ a = [l EXCEPT !.list = Append(@, fn)]
                 /\ m = IF l.firing THEN [a EXCEPT !.length = Len(a.list)]
                        ELSE IF l.memory \in {NoValue, Halted} THEN a
                        ELSE StartFire(a, l.memory, Len(l.list))
    BY <1>2, AddIs
  <2>3. /\ a \in ListOf(cb) /\ a.alive = l.alive /\ a.firing = l.firing /\ a.index = l.index
        /\ a.list = l.list \/ a.list = Append(l.list, fn)
    BY <2>1, <2>2 DEF ListOf
  <2>4. Len(a.list) \in Int /\ Len(l.list) \in Int /\ l.memory \in Int
    <3>1. a.list \in Seq(cb)
      BY <2>3 DEF ListOf
    <3> QED BY <2>1, <3>1 DEF ListOf
  <2>5. CASE l.firing
    <3>1. m = [a EXCEPT !.length = Len(a.list)]
      BY <2>2, <2>5
    <3> QED BY <1>2, <2>3, <2>4, <2>5, <3>1 DEF ListOf
  <2>6. CASE ~l.firing /\ l.memory \in {NoValue, Halted}
    <3>1. m = a
      BY <2>2, <2>6
    <3> QED BY <1>2, <2>3, <2>6, <3>1
  <2>7. CASE ~l.firing /\ l.memory \notin {NoValue, Halted}
    <3>1. m = StartFire(a, l.memory, Len(l.list))
      BY <2>2, <2>7
    <3>2. /\ m \in ListOf(cb) /\ m.list = a.list /\ m.alive = a.alive
          /\ m.firing /\ m.index = Len(l.list) /\ m.length = Len(a.list)
      BY <2>3, <2>4, <3>1, Starts
    <3> QED BY <1>2, <2>3, <2>7, <3>2
  <2> QED BY <2>5, <2>6, <2>7
<1> QED BY <1>1, <1>2 DEF ListOf

LEMMA EndFacts ==
    ASSUME NEW cb, NEW l \in ListOf(cb), ~l.alive => l.list = <<>>, NEW m, m = EndFire(l)
    PROVE  /\ m \in ListOf(cb)
           /\ ~m.alive => ~m.firing /\ m.list = <<>>
           /\ m.firing => m.index = 0 /\ m.length = Len(m.list)
<1> DEFINE quiet == [l EXCEPT !.firing = FALSE]
<1>1. /\ quiet \in ListOf(cb) /\ quiet.list = l.list /\ quiet.alive = l.alive
      /\ ~quiet.firing /\ quiet.stack = l.stack
  BY DEF ListOf
<1>2. \/ m = quiet /\ (~l.alive \/ l.alive)
      \/ l.alive /\ l.stack # <<>>
           /\ m = StartFire([quiet EXCEPT !.stack = Tail(@)], Head(l.stack), 0)
      \/ m = Disable(quiet)
      \/ l.alive /\ m = [quiet EXCEPT !.list = <<>>]
  BY Zenon DEF EndFire
<1> HIDE DEF quiet
<1>3. CASE m = quiet
  BY <1>1, <1>3
<1>4. CASE l.alive /\ l.stack # <<>>
           /\ m = StartFire([quiet EXCEPT !.stack = Tail(@)], Head(l.stack), 0)
  <2>1. l.stack \in Seq(Int)
    BY DEF ListOf
  <2>2. Tail(l.stack) \in Seq(Int) /\ Head(l.stack) \in Int
    BY <1>4, <2>1, HeadTailProperties
  <2>3. PICK q : q = [quiet EXCEPT !.stack = Tail(@)]
    OBVIOUS
  <2>4. q \in ListOf(cb) /\ q.alive = l.alive /\ q.list = l.list
    BY <1>1, <2>2, <2>3 DEF ListOf
  <2>5. m = StartFire(q, Head(l.stack), 0) /\ 0 \in Int
    BY <1>4, <2>3
  <2>6. /\ m \in ListOf(cb) /\ m.list = q.list /\ m.alive = q.alive
        /\ m.firing /\ m.index = 0 /\ m.length = Len(q.list)
    BY <2>2, <2>4, <2>5, Starts
  <2> QED BY <1>4, <2>4, <2>6
<1>5. CASE m = Disable(quiet)
  BY <1>1, <1>5, DisableFacts
<1>6. CASE l.alive /\ m = [quiet EXCEPT !.list = <<>>]
  <2>1. <<>> \in Seq(cb)
    OBVIOUS
  <2> QED BY <1>1, <1>6, <2>1 DEF ListOf
<1> QED BY <1>2, <1>3, <1>4, <1>5, <1>6

\* The loop of l, which is calling the callback at its index, goes on behind it.
LEMMA RemoveFromFacts ==
    ASSUME NEW cb, NEW l \in ListOf(cb), NEW d, NEW fn, Fits(l, d, l.index + 1),
           fn \in ToSet(l.list), l.firing, NEW m, m = RemoveFrom(l, fn)
    PROVE  /\ m \in ListOf(cb) /\ m.firing
           /\ Fits(m, Without(d, fn), m.index + 1)
<1>1. l.list \in Seq(cb)
  BY DEF ListOf
<1>2. PICK n \in Nat : n = Len(l.list) /\ DOMAIN l.list = 1..n
  BY <1>1, LenProperties
<1>3. l.alive
  <2>1. l.list # <<>>
    BY <1>1, <1>2 DEF ToSet
  <2> QED BY <2>1 DEF Fits, ListOf
<1>4. l.length = n /\ RestOf(l.list, l.index + 1, d) /\ l.index \in Int
  BY <1>2, <1>3 DEF Fits, ListOf
<1>p. PICK p \in Int : p = l.index + 1 /\ l.index = p - 1
  BY <1>4
<1> DEFINE gone == PlacesOf(fn, l.list, n)
           early == PlacesOf(fn, l.list, p)
           rest == Without(l.list, fn)
<1>5. /\ rest \in Seq(cb)
      /\ RestOf(rest, p - Cardinality(early), Without(d, fn))
      /\ Len(rest) = n - Cardinality(gone)
  <2>1. RestOf(l.list, p, d)
    BY <1>4, <1>p
  <2>2. /\ Without(l.list, fn) \in Seq(cb)
        /\ RestOf(Without(l.list, fn), p - Cardinality(PlacesOf(fn, l.list, p)), Without(d, fn))
        /\ Len(Without(l.list, fn))
              = Len(l.list) - Cardinality(PlacesOf(fn, l.list, Len(l.list)))
    BY <1>1, <2>1, RestKept
  <2> QED BY <1>2, <2>2
<1>6. Cardinality(early) \in Int /\ Cardinality(gone) \in Int
  <2>1. IsFiniteSet(1..n)
    BY FS_Interval
  <2>2. gone \subseteq 1..n /\ early \subseteq 1..n
    BY <1>2 DEF PlacesOf
  <2> HIDE DEF gone, early
  <2>3. IsFiniteSet(gone) /\ IsFiniteSet(early)
    BY <2>1, <2>2, FS_Subset
  <2>4. Cardinality(gone) \in Nat /\ Cardinality(early) \in Nat
    BY <2>3, FS_CardinalityType
  <2> QED BY <2>4
<1>7. PICK g : g = {i \in DOMAIN l.list : l.list[i] = fn}
  OBVIOUS
<1>8. PICK c : c = {i \in g : i - 1 <= l.length}
  OBVIOUS
<1>9. PICK e : e = {i \in c : i - 1 <= l.index}
  OBVIOUS
<1>10. c = gone /\ e = early
  BY <1>2, <1>4, <1>p, <1>7, <1>8, <1>9 DEF PlacesOf
<1>11. PICK r : r = [l EXCEPT !.list = rest]
  OBVIOUS
<1>12. m = [r EXCEPT !.length = @ - Cardinality(c), !.index = @ - Cardinality(e)]
  <2>1. /\ m = [r EXCEPT !.length = r.length - Cardinality(c),
                         !.index = r.index - Cardinality({i \in c : i - 1 <= r.index})]
        /\ r.index = l.index
    <3>1. r.index = l.index /\ r = [l EXCEPT !.list = Kept(l.list, ToSet(l.list) \ {fn})]
      BY <1>11 DEF ListOf, Without
    <3> QED BY <1>7, <1>8, <3>1, Zenon DEF RemoveFrom
  <2> QED BY <1>9, <2>1
<1> HIDE DEF gone, rest, early
<1>13. /\ r \in ListOf(cb) /\ r.list = rest /\ r.alive /\ r.firing
       /\ r.index = l.index /\ r.length = n
  BY <1>3, <1>4, <1>5, <1>11 DEF ListOf
<1>14. /\ m \in ListOf(cb) /\ m.list = rest /\ m.alive /\ m.firing
       /\ m.length = n - Cardinality(gone) /\ m.index = l.index - Cardinality(early)
  <2>1. n - Cardinality(gone) \in Int /\ l.index - Cardinality(early) \in Int
    BY <1>4, <1>6
  <2>2. m = [r EXCEPT !.length = n - Cardinality(gone), !.index = l.index - Cardinality(early)]
    BY <1>10, <1>12, <1>13
  <2> QED BY <1>13, <2>1, <2>2 DEF ListOf
<1>15. m.index + 1 = p - Cardinality(early)
  BY <1>p, <1>6, <1>14
<1> QED BY <1>5, <1>14, <1>15 DEF Fits

\* What may be in a list: functions of scripts, and what Deferred and when put
\* there, which never calls the list that it is in, and fires those of when only.
CallbacksFor(s, id) ==
    ({"script"} \X Nat) \cup ({"settle"} \X Deferreds \X {"resolved", "rejected"})
    \cup ({"disable", "lock"} \X (Layout(s) \ {id}))
    \cup ({"fire", "count"} \X {x \in Layout(s) \ {id} : x[1] = "w"})

Maps(f, D) == DOMAIN f = D /\ f = [x \in D |-> f[x]]

Changes(f, g, D, id, v) ==
    Maps(g, D) /\ g[id] = v /\ \A x \in D : x # id => g[x] = f[x]

\* A list that fires is on the stack, and has left to call what follows the
\* callback at its index, which is the one that is running if one is.
ListGood(cb, l, d, id, cs) ==
    /\ l \in ListOf(cb) /\ d \in Seq(cb)
    /\ l.firing <=> IsFiring(id, cs)
    /\ InCall(id, cs) => Fits(l, d, l.index + 1)
    /\ ~InCall(id, cs) => Fits(l, d, l.index)

GoodLists(s, ls, du, cs) ==
    /\ Maps(ls, Layout(s)) /\ Maps(du, Layout(s))
    /\ StackSound(cs, Layout(s))
    /\ \A id \in Layout(s) : ListGood(CallbacksFor(s, id), ls[id], du[id], id, cs)

\* The inductive invariant.
CallbacksInv ==
    /\ ops \in Nat /\ broken \in BOOLEAN
    /\ ~broken => GoodLists(script, lists, due, calls)

Same(x, cs, t) ==
    /\ IsFiring(x, t) <=> IsFiring(x, cs)
    /\ InCall(x, t) <=> InCall(x, cs)

LEMMA UserIsNoList == \A s : User \notin Layout(s)
<1> TAKE s
<1>1. Layout(s) = {"d"} \X Kind \/ Layout(s) = Deferreds \X Kind \/ Layout(s) = {<<"list", "fire">>}
  BY Zenon DEF Layout
<1>2. \A a, b : <<a, b>> # User
  BY DEF User
<1> QED BY <1>1, <1>2

LEMMA ExceptChanges ==
    ASSUME NEW D, NEW f, Maps(f, D), NEW id \in D, NEW v, NEW g, g = [f EXCEPT ![id] = v]
    PROVE  Changes(f, g, D, id, v)
BY DEF Maps, Changes

LEMMA NoneChanges ==
    ASSUME NEW D, NEW f, Maps(f, D), NEW id \in D, NEW v, v = f[id]
    PROVE  Changes(f, f, D, id, v)
BY DEF Maps, Changes

LEMMA OneChanges ==
    ASSUME NEW s, NEW ls, NEW du, NEW cs, GoodLists(s, ls, du, cs), NEW id \in Layout(s),
           NEW k, NEW l, Changes(ls, k, Layout(s), id, l),
           NEW e, NEW d, Changes(du, e, Layout(s), id, d),
           NEW t, StackSound(t, Layout(s)), \A x \in Layout(s) : x # id => Same(x, cs, t),
           ListGood(CallbacksFor(s, id), l, d, id, t)
    PROVE  GoodLists(s, k, e, t)
<1>1. ASSUME NEW x \in Layout(s), x # id
      PROVE  ListGood(CallbacksFor(s, x), k[x], e[x], x, t)
  <2>1. k[x] = ls[x] /\ e[x] = du[x] /\ Same(x, cs, t)
    BY <1>1 DEF Changes
  <2>2. ListGood(CallbacksFor(s, x), ls[x], du[x], x, cs)
    BY DEF GoodLists
  <2> QED BY <2>1, <2>2 DEF ListGood, Same
<1>2. k[id] = l /\ e[id] = d /\ Maps(k, Layout(s)) /\ Maps(e, Layout(s))
  BY DEF Changes
<1>3. \A x \in Layout(s) : ListGood(CallbacksFor(s, x), k[x], e[x], x, t)
  BY <1>1, <1>2
<1> QED BY <1>2, <1>3 DEF GoodLists

LEMMA InCallIsOnStack ==
    ASSUME NEW S, NEW cs \in Seq(S), NEW id, InCall(id, cs)
    PROVE  IsFiring(id, cs) /\ cs # <<>>
<1>1. PICK i \in 2..Len(cs) : cs[i - 1] = id
  BY DEF InCall
<1>2. i - 1 \in 1..Len(cs) /\ Len(cs) # 0
  BY <1>1
<1> QED BY <1>1, <1>2 DEF IsFiring

\* A list whose loop is started goes on top of the stack.
LEMMA StartsOnTop ==
    ASSUME NEW ids, User \notin ids, NEW cs, StackSound(cs, ids), NEW id \in ids,
           ~IsFiring(id, cs), NEW t, t = Append(cs, id)
    PROVE  /\ StackSound(t, ids)
           /\ \A x \in ids : x # id => Same(x, cs, t)
           /\ IsFiring(id, t) /\ ~InCall(id, t) /\ ~InCall(id, cs)
<1>1. /\ StackSound(t, ids)
      /\ \A x \in ids : IsFiring(x, t) <=> IsFiring(x, cs) \/ x = id
      /\ \A x \in ids : InCall(x, t) <=> InCall(x, cs)
  BY LoopStarts
<1>2. ~InCall(id, cs)
  BY InCallIsOnStack DEF StackSound
<1> QED BY <1>1, <1>2 DEF Same

\* Lists that start to fire, or go on as before.
LEMMA RestartFits ==
    ASSUME NEW ids, User \notin ids, NEW cs, StackSound(cs, ids), NEW id \in ids,
           NEW cb, NEW l, NEW d, ListGood(cb, l, d, id, cs),
           NEW m \in ListOf(cb), Restarts(l, m), NEW t, NEW e,
           m.firing /\ ~l.firing => t = Append(cs, id) /\ e = m.list,
           ~(m.firing /\ ~l.firing) => t = cs /\ e = d
    PROVE  /\ StackSound(t, ids) /\ \A x \in ids : x # id => Same(x, cs, t)
           /\ ListGood(cb, m, e, id, t)
<1>1. CASE m.firing /\ ~l.firing
  <2>1. ~IsFiring(id, cs) /\ t = Append(cs, id) /\ e = m.list
    BY <1>1 DEF ListGood
  <2>2. /\ StackSound(t, ids) /\ \A x \in ids : x # id => Same(x, cs, t)
        /\ IsFiring(id, t) /\ ~InCall(id, t) /\ ~InCall(id, cs)
    BY <2>1, StartsOnTop
  <2>3. m.list = l.list /\ m.alive = l.alive /\ m.index = 0 /\ m.length = Len(m.list)
    BY <1>1 DEF Restarts
  <2>4. m.list \in Seq(cb)
    BY DEF ListOf
  <2>5. RestOf(m.list, 0, m.list)
    BY <2>4, RestAll
  <2>6. ~l.alive => l.list = <<>>
    BY <2>2 DEF ListGood, Fits
  <2>7. Fits(m, e, m.index)
    BY <1>1, <2>1, <2>3, <2>5, <2>6 DEF Fits
  <2> QED BY <1>1, <2>1, <2>2, <2>4, <2>7 DEF ListGood
<1>2. CASE ~(m.firing /\ ~l.firing)
  <2>1. t = cs /\ e = d
    BY <1>2
  <2>2. /\ m.list = l.list /\ m.alive = l.alive /\ m.firing = l.firing
        /\ m.index = l.index /\ m.length = l.length
    BY <1>2 DEF Restarts
  <2>3. \A x \in ids : Same(x, cs, t)
    BY <2>1 DEF Same
  <2>4. ListGood(cb, m, e, id, t)
    BY <2>1, <2>2 DEF ListGood, Fits
  <2> QED BY <2>1, <2>3, <2>4
<1> QED BY <1>1, <1>2

\* A function is added to a list, which may have to call it at once.
LEMMA AddFits ==
    ASSUME NEW ids, User \notin ids, NEW cs, StackSound(cs, ids), NEW id \in ids,
           NEW cb, NEW l, NEW d, ListGood(cb, l, d, id, cs), NEW fn \in cb,
           NEW m, m = AddTo(l, fn), NEW t, NEW e,
           m.firing /\ ~l.firing => t = Append(cs, id),
           ~(m.firing /\ ~l.firing) => t = cs,
           Len(m.list) > Len(l.list) /\ m.firing => e = Append(d, fn),
           ~(Len(m.list) > Len(l.list) /\ m.firing) => e = d
    PROVE  /\ StackSound(t, ids) /\ \A x \in ids : x # id => Same(x, cs, t)
           /\ ListGood(cb, m, e, id, t)
<1>1. /\ l \in ListOf(cb) /\ d \in Seq(cb) /\ l.list \in Seq(cb)
      /\ Append(d, fn) \in Seq(cb) /\ Append(l.list, fn) \in Seq(cb)
      /\ Len(Append(l.list, fn)) = Len(l.list) + 1
  <2>1. l \in ListOf(cb) /\ d \in Seq(cb)
    BY DEF ListGood
  <2>2. l.list \in Seq(cb)
    BY <2>1 DEF ListOf
  <2> QED BY <2>1, <2>2, AppendProperties
<1>2. /\ m \in ListOf(cb)
      /\ ~l.alive => m = l
      /\ m.alive = l.alive
      /\ m.list = l.list \/ m.list = Append(l.list, fn)
      /\ l.alive /\ l.firing => m.firing /\ m.index = l.index /\ m.length = Len(m.list)
      /\ l.alive /\ ~l.firing /\ m.firing => m.index = Len(l.list) /\ m.length = Len(m.list)
  <2>1. l \in ListOf(cb) /\ fn \in cb /\ m = AddTo(l, fn)
    BY <1>1
  <2>2. m \in ListOf(cb) /\ (~l.alive => m = l)
    BY <2>1, AddToFacts
  <2>3. m.alive = l.alive
    BY <2>1, AddToFacts
  <2>4. m.list = l.list \/ m.list = Append(l.list, fn)
    BY <2>1, AddToFacts
  <2>5. l.alive /\ l.firing => m.firing /\ m.index = l.index /\ m.length = Len(m.list)
    BY <2>1, AddToFacts
  <2>6. l.alive /\ ~l.firing /\ m.firing => m.index = Len(l.list) /\ m.length = Len(m.list)
    BY <2>1, AddToFacts
  <2> QED BY <2>2, <2>3, <2>4, <2>5, <2>6
<1>3. Len(l.list) \in Nat /\ Len(Append(l.list, fn)) > Len(l.list) /\ ~(Len(l.list) > Len(l.list))
  BY <1>1
<1>4. e \in Seq(cb) /\ m.list \in Seq(cb)
  BY <1>1, <1>2
<1>5. \A x \in ids : Same(x, cs, cs)
  BY DEF Same
\* What is left of the longer list, if d is left of the shorter one.
<1>6. \A p : RestOf(l.list, p, d) /\ m.firing => RestOf(m.list, p, e)
  <2> SUFFICES ASSUME NEW p, RestOf(l.list, p, d), m.firing PROVE RestOf(m.list, p, e)
    OBVIOUS
  <2>1. CASE m.list = l.list
    BY <1>3, <2>1
  <2>2. CASE m.list = Append(l.list, fn)
    <3>1. e = Append(d, fn)
      BY <1>3, <2>2
    <3> QED BY <1>1, <2>2, <3>1, RestAppend
  <2> QED BY <1>2, <2>1, <2>2
<1>7. CASE ~l.alive
  <2>1. m = l /\ t = cs /\ e = d
    BY <1>2, <1>3, <1>7
  <2> QED BY <1>5, <2>1
<1>8. CASE l.alive /\ l.firing
  <2>1. m.firing /\ m.alive /\ m.index = l.index /\ m.length = Len(m.list) /\ t = cs
    BY <1>2, <1>8
  <2>2. /\ InCall(id, cs) => RestOf(l.list, l.index + 1, d)
        /\ ~InCall(id, cs) => RestOf(l.list, l.index, d)
    BY <1>8 DEF ListGood, Fits
  <2>3. /\ InCall(id, cs) => RestOf(m.list, m.index + 1, e)
        /\ ~InCall(id, cs) => RestOf(m.list, m.index, e)
    BY <1>6, <2>1, <2>2
  <2>4. IsFiring(id, cs)
    BY <1>8 DEF ListGood
  <2>5. ListGood(cb, m, e, id, t)
    BY <1>2, <1>4, <2>1, <2>3, <2>4 DEF ListGood, Fits
  <2> QED BY <1>5, <2>1, <2>5
<1>9. CASE l.alive /\ ~l.firing /\ ~m.firing
  <2>1. t = cs /\ e = d /\ m.alive
    BY <1>2, <1>9
  <2>2. ~IsFiring(id, cs) /\ d = <<>>
    BY <1>9 DEF ListGood, Fits
  <2>3. ListGood(cb, m, e, id, t)
    BY <1>2, <1>4, <1>9, <2>1, <2>2 DEF ListGood, Fits
  <2> QED BY <1>5, <2>1, <2>3
<1>10. CASE l.alive /\ ~l.firing /\ m.firing
  <2>1. t = Append(cs, id) /\ m.alive /\ m.index = Len(l.list) /\ m.length = Len(m.list)
    BY <1>2, <1>10
  <2>2. ~IsFiring(id, cs) /\ d = <<>>
    BY <1>10 DEF ListGood, Fits
  <2>3. /\ StackSound(t, ids) /\ \A x \in ids : x # id => Same(x, cs, t)
        /\ IsFiring(id, t) /\ ~InCall(id, t)
    BY <2>1, <2>2, StartsOnTop
  <2>4. RestOf(l.list, Len(l.list), d)
    BY <1>1, <2>2, RestNone
  <2>5. RestOf(m.list, m.index, e)
    BY <1>6, <1>10, <2>1, <2>4
  <2>6. ListGood(cb, m, e, id, t)
    BY <1>2, <1>4, <1>10, <2>1, <2>3, <2>5 DEF ListGood, Fits
  <2> QED BY <2>3, <2>6
<1> QED BY <1>7, <1>8, <1>9, <1>10

\* A list is closed, or stays as it is.
LEMMA CloseFits ==
    ASSUME NEW cs, NEW id, NEW cb, NEW l, NEW d, ListGood(cb, l, d, id, cs),
           NEW m \in ListOf(cb), Closes(l, m), NEW e,
           ~m.alive => e = <<>>, m.alive => e = d
    PROVE  ListGood(cb, m, e, id, cs)
<1>1. e \in Seq(cb)
  <2>1. <<>> \in Seq(cb)
    OBVIOUS
  <2> QED BY <2>1 DEF ListGood, ListOf
<1>2. CASE ~m.alive /\ m.list = <<>>
  BY <1>1, <1>2 DEF ListGood, Fits, Closes
<1>3. CASE /\ m.alive = l.alive /\ m.list = l.list /\ m.index = l.index
           /\ m.length = l.length
  <2>1. e = d
    BY <1>3 DEF ListGood, Fits
  <2> QED BY <1>1, <1>3, <2>1 DEF ListGood, Fits, Closes
<1> QED BY <1>2, <1>3 DEF Closes

GoodNow == GoodLists(script, lists, due, calls)

LEMMA GoodFacts ==
    ASSUME GoodNow, NEW id \in DOMAIN lists
    PROVE  /\ id \in Layout(script) /\ User \notin Layout(script)
           /\ Maps(lists, Layout(script)) /\ Maps(due, Layout(script))
           /\ StackSound(calls, Layout(script))
           /\ ListGood(CallbacksFor(script, id), lists[id], due[id], id, calls)
           /\ lists[id] \in ListOf(CallbacksFor(script, id))
<1>1. id \in Layout(script) /\ User \notin Layout(script)
  BY UserIsNoList DEF GoodNow, GoodLists, Maps
<1> QED BY <1>1 DEF GoodNow, GoodLists, ListGood

LEMMA AddsGood ==
    ASSUME ops \in Nat, GoodNow, NEW id \in DOMAIN lists, ScriptAdds(id)
    PROVE  GoodNow'
<1>1. PICK ids : ids = Layout(script) /\ ids = Layout(script')
  BY DEF ScriptAdds
<1>2. /\ id \in ids /\ User \notin ids
      /\ Maps(lists, ids) /\ Maps(due, ids) /\ StackSound(calls, ids)
      /\ ListGood(CallbacksFor(script, id), lists[id], due[id], id, calls)
  BY <1>1, GoodFacts
<1>3. PICK n \in Nat :
        LET fn == Script(n)
            l == AddTo(lists[id], fn)
        IN  /\ lists' = [lists EXCEPT ![id] = l]
            /\ calls' = IF l.firing /\ ~lists[id].firing THEN Append(calls, id) ELSE calls
            /\ due' = IF Len(l.list) > Len(lists[id].list) /\ l.firing
                      THEN [due EXCEPT ![id] = Append(@, fn)] ELSE due
  <2>1. ops' \in Nat
    BY DEF ScriptAdds, Count
  <2>2. \A n : n \in (IF script = "list" THEN 1..ops' ELSE {ops'}) => n \in Nat
    BY <2>1
  <2> QED BY <2>2, Zenon DEF ScriptAdds
<1>4. PICK fn, m : fn = Script(n) /\ m = AddTo(lists[id], fn)
  OBVIOUS
<1>5. /\ lists' = [lists EXCEPT ![id] = m]
      /\ calls' = IF m.firing /\ ~lists[id].firing THEN Append(calls, id) ELSE calls
      /\ due' = IF Len(m.list) > Len(lists[id].list) /\ m.firing
                THEN [due EXCEPT ![id] = Append(due[id], fn)] ELSE due
  BY <1>3, <1>4, Zenon
<1>6. fn \in CallbacksFor(script, id)
  BY <1>4 DEF Script, CallbacksFor
<1>7. PICK e : /\ Changes(due, due', ids, id, e)
               /\ Len(m.list) > Len(lists[id].list) /\ m.firing => e = Append(due[id], fn)
               /\ ~(Len(m.list) > Len(lists[id].list) /\ m.firing) => e = due[id]
  <2>1. CASE Len(m.list) > Len(lists[id].list) /\ m.firing
    <3>1. Changes(due, due', ids, id, Append(due[id], fn))
      BY <1>2, <1>5, <2>1, ExceptChanges
    <3> QED BY <2>1, <3>1
  <2>2. CASE ~(Len(m.list) > Len(lists[id].list) /\ m.firing)
    <3>1. Changes(due, due', ids, id, due[id])
      BY <1>2, <1>5, <2>2, NoneChanges
    <3> QED BY <2>2, <3>1
  <2> QED BY <2>1, <2>2
<1>8. Changes(lists, lists', ids, id, m)
  BY <1>2, <1>5, ExceptChanges
<1>9. /\ m.firing /\ ~lists[id].firing => calls' = Append(calls, id)
      /\ ~(m.firing /\ ~lists[id].firing) => calls' = calls
  BY <1>5
<1>10. /\ StackSound(calls', ids) /\ \A x \in ids : x # id => Same(x, calls, calls')
       /\ ListGood(CallbacksFor(script, id), m, e, id, calls')
  <2>1. PICK cb, l, d, cs, t : /\ cb = CallbacksFor(script, id) /\ l = lists[id] /\ d = due[id]
                               /\ cs = calls /\ t = calls'
    OBVIOUS
  <2>2. /\ StackSound(cs, ids) /\ ListGood(cb, l, d, id, cs) /\ fn \in cb /\ m = AddTo(l, fn)
        /\ m.firing /\ ~l.firing => t = Append(cs, id)
        /\ ~(m.firing /\ ~l.firing) => t = cs
        /\ Len(m.list) > Len(l.list) /\ m.firing => e = Append(d, fn)
        /\ ~(Len(m.list) > Len(l.list) /\ m.firing) => e = d
    BY <1>2, <1>4, <1>6, <1>7, <1>9, <2>1
  <2>3. /\ StackSound(t, ids) /\ \A x \in ids : x # id => Same(x, cs, t)
        /\ ListGood(cb, m, e, id, t)
    BY <1>2, <2>2, AddFits
  <2> QED BY <2>1, <2>3
<1>11. GoodLists(script, lists', due', calls')
  BY <1>1, <1>2, <1>7, <1>8, <1>10, OneChanges DEF GoodNow
<1> QED BY <1>11 DEF GoodNow, ScriptAdds

\* A list that starts to fire, or not, is put back.
LEMMA PutGood ==
    ASSUME GoodNow, NEW id \in DOMAIN lists, NEW m \in ListOf(CallbacksFor(script, id)),
           Restarts(lists[id], m), Put(id, m, calls)
    PROVE  GoodLists(script, lists', due', calls')
<1>1. PICK ids : ids = Layout(script)
  OBVIOUS
<1>2. /\ id \in ids /\ User \notin ids
      /\ Maps(lists, ids) /\ Maps(due, ids) /\ StackSound(calls, ids)
      /\ ListGood(CallbacksFor(script, id), lists[id], due[id], id, calls)
  BY <1>1, GoodFacts
<1>3. /\ lists' = [lists EXCEPT ![id] = m]
      /\ m.firing /\ ~lists[id].firing =>
            /\ calls' = Append(calls, id)
            /\ due' = [due EXCEPT ![id] = SubSeq(m.list, m.index + 1, m.length)]
      /\ ~(m.firing /\ ~lists[id].firing) => calls' = calls /\ due' = due
  BY DEF Put
<1>4. PICK e : /\ Changes(due, due', ids, id, e)
               /\ m.firing /\ ~lists[id].firing => e = m.list
               /\ ~(m.firing /\ ~lists[id].firing) => e = due[id]
  <2>1. CASE m.firing /\ ~lists[id].firing
    <3>1. m.index = 0 /\ m.length = Len(m.list) /\ m.list \in Seq(CallbacksFor(script, id))
      BY <2>1 DEF Restarts, ListOf
    <3>2. m.list = SubSeq(m.list, 1, Len(m.list)) /\ 0 + 1 = 1
      BY <3>1, SubSeqFull
    <3>3. due' = [due EXCEPT ![id] = m.list]
      BY <1>3, <2>1, <3>1, <3>2
    <3>4. Changes(due, due', ids, id, m.list)
      BY <1>2, <3>3, ExceptChanges
    <3> QED BY <2>1, <3>4
  <2>2. CASE ~(m.firing /\ ~lists[id].firing)
    <3>1. Changes(due, due', ids, id, due[id])
      BY <1>2, <1>3, <2>2, NoneChanges
    <3> QED BY <2>2, <3>1
  <2> QED BY <2>1, <2>2
<1>5. Changes(lists, lists', ids, id, m)
  BY <1>2, <1>3, ExceptChanges
<1>6. /\ m.firing /\ ~lists[id].firing => calls' = Append(calls, id) /\ e = m.list
      /\ ~(m.firing /\ ~lists[id].firing) => calls' = calls /\ e = due[id]
  BY <1>3, <1>4
<1>7. /\ StackSound(calls', ids) /\ \A x \in ids : x # id => Same(x, calls, calls')
      /\ ListGood(CallbacksFor(script, id), m, e, id, calls')
  BY <1>2, <1>6, RestartFits
<1> QED BY <1>1, <1>2, <1>4, <1>5, <1>7, OneChanges DEF GoodNow

LEMMA FiresGood ==
    ASSUME ops \in Nat, GoodNow, NEW id \in DOMAIN lists, ScriptFires(id)
    PROVE  GoodNow'
<1>1. PICK m : m = FireWith(lists[id], ops')
  OBVIOUS
<1>2. ops' \in Int
  BY DEF ScriptFires, Count
<1>3. m \in ListOf(CallbacksFor(script, id)) /\ Restarts(lists[id], m)
  BY <1>1, <1>2, GoodFacts, FireFacts
<1>4. Put(id, m, calls)
  BY <1>1, Zenon DEF ScriptFires
<1>5. GoodLists(script, lists', due', calls')
  BY <1>3, <1>4, PutGood
<1> QED BY <1>5 DEF GoodNow, ScriptFires

\* Only a script with one list removes: it is in call if it is firing.
LEMMA RemovesGood ==
    ASSUME GoodNow, NEW id \in DOMAIN lists, ScriptRemoves(id)
    PROVE  GoodNow'
<1>1. PICK ids : ids = Layout(script)
  OBVIOUS
<1>2. /\ id \in ids /\ User \notin ids
      /\ Maps(lists, ids) /\ Maps(due, ids) /\ StackSound(calls, ids)
      /\ ListGood(CallbacksFor(script, id), lists[id], due[id], id, calls)
      /\ lists[id] \in ListOf(CallbacksFor(script, id))
  BY <1>1, GoodFacts
<1>3. PICK fn \in ToSet(lists[id].list) :
        /\ lists' = [lists EXCEPT ![id] = RemoveFrom(lists[id], fn)]
        /\ due' = [due EXCEPT ![id] = Without(due[id], fn)]
  BY DEF ScriptRemoves, Without
<1>4. PICK cb, l, d, m, e :
        /\ cb = CallbacksFor(script, id) /\ l = lists[id] /\ d = due[id]
        /\ m = RemoveFrom(l, fn) /\ e = Without(d, fn)
  OBVIOUS
<1>5. ListGood(cb, m, e, id, calls)
  <2>1. /\ l \in ListOf(cb) /\ fn \in ToSet(l.list) /\ ListGood(cb, l, d, id, calls)
        /\ d \in Seq(cb)
    BY <1>2, <1>3, <1>4 DEF ListGood
  <2>2. e \in Seq(cb)
    BY <1>4, <2>1, KeptTyped DEF Without
  <2>3. CASE l.firing
    <3>1. IsFiring(id, calls)
      BY <2>1, <2>3 DEF ListGood
    <3>2. calls # <<>>
      BY <1>2, <3>1 DEF IsFiring, StackSound
    <3>3. Last(calls) = User
      BY <3>2 DEF ScriptRemoves, Count, ScriptRuns
    <3>4. InCall(calls[Len(calls) - 1], calls) /\ calls[Len(calls) - 1] \in ids
      BY <1>2, <3>2, <3>3, ScriptOnTop
    <3>5. ids = {<<"list", "fire">>}
      BY <1>1, Zenon DEF ScriptRemoves, Layout
    <3>6. InCall(id, calls)
      BY <1>2, <3>4, <3>5, Zenon
    <3>7. Fits(l, d, l.index + 1)
      BY <2>1, <3>6 DEF ListGood
    <3>8. m \in ListOf(cb) /\ m.firing /\ Fits(m, e, m.index + 1)
      BY <1>4, <2>1, <2>3, <3>7, RemoveFromFacts
    <3> QED BY <2>2, <3>1, <3>6, <3>8 DEF ListGood
  <2>4. CASE ~l.firing
    <3>1. m = [l EXCEPT !.list = Kept(@, ToSet(@) \ {fn})]
      BY <1>4, <2>4, Zenon DEF RemoveFrom
    <3>2. l.list \in Seq(cb)
      BY <2>1 DEF ListOf
    <3>3. Kept(l.list, ToSet(l.list) \ {fn}) \in Seq(cb)
      BY <3>2, KeptTyped
    <3>4. m \in ListOf(cb) /\ ~m.firing /\ m.alive = l.alive
      BY <2>1, <2>4, <3>1, <3>3 DEF ListOf
    <3>5. l.list # <<>>
      BY <2>1, <3>2 DEF ToSet
    <3>6. l.alive /\ d = <<>>
      BY <2>1, <2>4, <3>5 DEF ListGood, Fits
    <3>7. e = <<>>
      BY <1>4, <3>6, KeptEmpty DEF Without
    <3>8. Fits(m, e, m.index) /\ Fits(m, e, m.index + 1)
      BY <3>4, <3>6, <3>7 DEF Fits
    <3>9. ~IsFiring(id, calls)
      BY <2>1, <2>4 DEF ListGood
    <3> QED BY <2>2, <3>4, <3>8, <3>9 DEF ListGood
  <2> QED BY <2>3, <2>4
<1>6. Changes(lists, lists', ids, id, m) /\ Changes(due, due', ids, id, e)
  BY <1>2, <1>3, <1>4, ExceptChanges
<1>7. GoodLists(script, lists', due', calls)
  <2>1. \A x \in ids : Same(x, calls, calls)
    BY DEF Same
  <2> QED BY <1>1, <1>2, <1>4, <1>5, <1>6, <2>1, OneChanges DEF GoodNow
<1> QED BY <1>7 DEF GoodNow, ScriptRemoves

\* A list that fires is not emptied, unless it is broken.
LEMMA EmptiesGood ==
    ASSUME GoodNow, NEW id \in DOMAIN lists, ScriptEmpties(id), ~broken'
    PROVE  GoodNow'
<1>1. PICK ids : ids = Layout(script)
  OBVIOUS
<1>2. /\ id \in ids
      /\ Maps(lists, ids) /\ Maps(due, ids) /\ StackSound(calls, ids)
      /\ ListGood(CallbacksFor(script, id), lists[id], due[id], id, calls)
      /\ lists[id] \in ListOf(CallbacksFor(script, id))
  BY <1>1, GoodFacts
<1>3. ~lists[id].firing
  BY DEF ScriptEmpties
<1>4. PICK m : m = Empty(lists[id])
  OBVIOUS
<1>5. /\ m \in ListOf(CallbacksFor(script, id)) /\ ~m.firing /\ m.alive /\ m.list = <<>>
  BY <1>2, <1>3, <1>4, EmptyFacts
<1>6. ListGood(CallbacksFor(script, id), m, <<>>, id, calls)
  <2>1. ~IsFiring(id, calls)
    BY <1>2, <1>3 DEF ListGood
  <2>2. <<>> \in Seq(CallbacksFor(script, id))
    OBVIOUS
  <2> QED BY <1>5, <2>1, <2>2 DEF ListGood, Fits
<1>7. Changes(lists, lists', ids, id, m) /\ Changes(due, due', ids, id, <<>>)
  <2>1. lists' = [lists EXCEPT ![id] = m] /\ due' = [due EXCEPT ![id] = <<>>]
    BY <1>4 DEF ScriptEmpties
  <2> QED BY <1>2, <2>1, ExceptChanges
<1>8. GoodLists(script, lists', due', calls)
  <2>1. \A x \in ids : Same(x, calls, calls)
    BY DEF Same
  <2> QED BY <1>1, <1>2, <1>6, <1>7, <2>1, OneChanges DEF GoodNow
<1> QED BY <1>8 DEF GoodNow, ScriptEmpties

LEMMA ClosesGood ==
    ASSUME GoodNow, NEW id \in DOMAIN lists, ScriptCloses(id)
    PROVE  GoodNow'
<1>1. PICK ids : ids = Layout(script)
  OBVIOUS
<1>2. /\ id \in ids
      /\ Maps(lists, ids) /\ Maps(due, ids) /\ StackSound(calls, ids)
      /\ ListGood(CallbacksFor(script, id), lists[id], due[id], id, calls)
      /\ lists[id] \in ListOf(CallbacksFor(script, id))
  BY <1>1, GoodFacts
<1>3. PICK m \in {Disable(lists[id]), Lock(lists[id])} :
        /\ lists' = [lists EXCEPT ![id] = m]
        /\ due' = IF m.alive THEN due ELSE [due EXCEPT ![id] = <<>>]
  BY Zenon DEF ScriptCloses
<1>4. m \in ListOf(CallbacksFor(script, id)) /\ Closes(lists[id], m)
  BY <1>2, CloseFacts
<1>5. PICK e : /\ Changes(due, due', ids, id, e)
               /\ ~m.alive => e = <<>>
               /\ m.alive => e = due[id]
  <2>1. CASE m.alive
    BY <1>2, <1>3, <2>1, NoneChanges
  <2>2. CASE ~m.alive
    <3>1. Changes(due, due', ids, id, <<>>)
      BY <1>2, <1>3, <2>2, ExceptChanges
    <3> QED BY <2>2, <3>1
  <2> QED BY <2>1, <2>2
<1>6. Changes(lists, lists', ids, id, m)
  BY <1>2, <1>3, ExceptChanges
<1>7. ListGood(CallbacksFor(script, id), m, e, id, calls)
  BY <1>2, <1>4, <1>5, CloseFits
<1>8. GoodLists(script, lists', due', calls)
  <2>1. \A x \in ids : Same(x, calls, calls)
    BY DEF Same
  <2> QED BY <1>1, <1>2, <1>5, <1>6, <1>7, <2>1, OneChanges DEF GoodNow
<1> QED BY <1>8 DEF GoodNow, ScriptCloses

\* The list on top of the stack, and what it has to call.
LEMMA TopFacts ==
    ASSUME GoodNow, NEW id \in DOMAIN lists, calls # <<>>, Last(calls) = id
    PROVE  /\ IsFiring(id, calls) /\ ~InCall(id, calls) /\ lists[id].firing
           /\ lists[id].list \in Seq(CallbacksFor(script, id))
           /\ lists[id].index \in Int
           /\ Fits(lists[id], due[id], lists[id].index)
           /\ due[id] \in Seq(CallbacksFor(script, id))
<1>1. IsFiring(id, calls) /\ ~InCall(id, calls)
  BY GoodFacts, ListOnTop
<1>2. /\ ListGood(CallbacksFor(script, id), lists[id], due[id], id, calls)
      /\ lists[id] \in ListOf(CallbacksFor(script, id))
  BY GoodFacts
<1> QED BY <1>1, <1>2 DEF ListGood, ListOf

\* What MoreToCall says of it.
LEMMA MoreFacts ==
    ASSUME GoodNow, NEW id \in DOMAIN lists, calls # <<>>, Last(calls) = id,
           MoreToCall(lists[id])
    PROVE  /\ lists[id].alive /\ lists[id].length = Len(lists[id].list)
           /\ lists[id].index < Len(lists[id].list)
           /\ lists[id].index + 1 \in 1..Len(lists[id].list)
           /\ RestOf(lists[id].list, lists[id].index + 1, AfterFirst(due[id]))
           /\ AfterFirst(due[id]) \in Seq(CallbacksFor(script, id))
<1>1. PICK cb, l, d : cb = CallbacksFor(script, id) /\ l = lists[id] /\ d = due[id]
  OBVIOUS
<1>2. l.firing /\ l.list \in Seq(cb) /\ l.index \in Int /\ Fits(l, d, l.index) /\ d \in Seq(cb)
  BY <1>1, TopFacts
<1>3. l.alive /\ l.index < l.length
  BY <1>1 DEF MoreToCall
<1>4. l.length = Len(l.list) /\ RestOf(l.list, l.index, d)
  BY <1>2, <1>3 DEF Fits
<1>5. RestOf(l.list, l.index + 1, AfterFirst(d)) /\ AfterFirst(d) \in Seq(cb)
  BY <1>2, <1>3, <1>4, RestNext
<1>6. l.index + 1 \in 1..Len(l.list)
  BY <1>2, <1>3, <1>4 DEF RestOf
<1> QED BY <1>1, <1>3, <1>4, <1>5, <1>6

LEMMA CallScriptGood ==
    ASSUME GoodNow, NEW id \in DOMAIN lists, CallScript(id), ~broken'
    PROVE  GoodNow'
<1>1. PICK ids : ids = Layout(script)
  OBVIOUS
<1>2. /\ id \in ids /\ User \notin ids
      /\ Maps(lists, ids) /\ Maps(due, ids) /\ StackSound(calls, ids)
      /\ ListGood(CallbacksFor(script, id), lists[id], due[id], id, calls)
      /\ lists[id] \in ListOf(CallbacksFor(script, id))
  BY <1>1, GoodFacts
<1>3. calls # <<>> /\ Last(calls) = id /\ MoreToCall(lists[id])
  BY DEF CallScript
<1>4. calls' = Append(calls, User) /\ due' = [due EXCEPT ![id] = AfterFirst(due[id])]
  BY DEF CallScript
<1>5. /\ lists[id].alive /\ lists[id].length = Len(lists[id].list)
      /\ RestOf(lists[id].list, lists[id].index + 1, AfterFirst(due[id]))
      /\ AfterFirst(due[id]) \in Seq(CallbacksFor(script, id))
  BY <1>3, MoreFacts
<1>6. lists[id].firing
  BY <1>3, TopFacts
<1>7. /\ StackSound(calls', ids)
      /\ \A x \in ids : IsFiring(x, calls') <=> IsFiring(x, calls)
      /\ \A x \in ids : InCall(x, calls') <=> InCall(x, calls) \/ x = Last(calls)
  BY <1>2, <1>3, <1>4, CallStarts
<1>8. \A x \in ids : x # id => Same(x, calls, calls')
  BY <1>3, <1>7 DEF Same
<1>9. ListGood(CallbacksFor(script, id), lists[id], AfterFirst(due[id]), id, calls')
  <2>1. InCall(id, calls') /\ (IsFiring(id, calls') <=> IsFiring(id, calls))
    BY <1>2, <1>3, <1>7
  <2>2. Fits(lists[id], AfterFirst(due[id]), lists[id].index + 1)
    BY <1>5, <1>6 DEF Fits
  <2> QED BY <1>2, <1>5, <2>1, <2>2 DEF ListGood
<1>10. /\ Changes(lists, lists, ids, id, lists[id])
       /\ Changes(due, due', ids, id, AfterFirst(due[id]))
  BY <1>2, <1>4, ExceptChanges, NoneChanges
<1>11. GoodLists(script, lists, due', calls')
  BY <1>1, <1>2, <1>7, <1>8, <1>9, <1>10, OneChanges DEF GoodNow
<1> QED BY <1>11 DEF GoodNow, CallScript

\* The end of a loop; stack is what is below the functions of scripts, with
\* the list on top.
LEMMA EndGood ==
    ASSUME NEW s, NEW ls, NEW du, NEW cs, NEW id \in Layout(s),
           GoodLists(s, ls, du, cs), cs # <<>>, Last(cs) = id,
           NEW l \in ListOf(CallbacksFor(s, id)), ~l.alive => l.list = <<>>,
           NEW m, m = EndFire(l),
           NEW k, Changes(ls, k, Layout(s), id, m),
           NEW e, NEW d, Changes(du, e, Layout(s), id, d),
           d = (IF m.firing THEN m.list ELSE <<>>),
           NEW t, t = (IF m.firing THEN cs ELSE Front(cs))
    PROVE  GoodLists(s, k, e, t)
<1>1. PICK ids : ids = Layout(s)
  OBVIOUS
<1>2. User \notin ids /\ id \in ids /\ StackSound(cs, ids)
  BY <1>1, UserIsNoList DEF GoodLists
<1>3. /\ m \in ListOf(CallbacksFor(s, id))
      /\ ~m.alive => ~m.firing /\ m.list = <<>>
      /\ m.firing => m.index = 0 /\ m.length = Len(m.list)
  BY EndFacts
<1>4. PICK low : low = Front(cs)
  OBVIOUS
<1>5. /\ IsFiring(id, cs) /\ ~InCall(id, cs)
      /\ \A x \in ids : IsFiring(x, low) <=> IsFiring(x, cs) /\ x # id
      /\ \A x \in ids : InCall(x, low) <=> InCall(x, cs)
      /\ StackSound(low, ids)
  BY <1>2, <1>4, ListOnTop, UnderTop
<1>6. m.list \in Seq(CallbacksFor(s, id)) /\ <<>> \in Seq(CallbacksFor(s, id))
  <2>1. <<>> \in Seq(CallbacksFor(s, id))
    OBVIOUS
  <2> QED BY <1>3, <2>1 DEF ListOf
<1>7. CASE m.firing
  <2>1. t = cs /\ d = m.list
    BY <1>7
  <2>2. \A x \in ids : Same(x, cs, t)
    BY <2>1 DEF Same
  <2>3. RestOf(m.list, 0, m.list)
    BY <1>6, RestAll
  <2>4. Fits(m, d, m.index)
    BY <1>3, <1>7, <2>1, <2>3 DEF Fits
  <2>5. ListGood(CallbacksFor(s, id), m, d, id, t)
    BY <1>3, <1>5, <1>6, <1>7, <2>1, <2>4 DEF ListGood
  <2> QED BY <1>1, <1>2, <2>1, <2>2, <2>5, OneChanges
<1>8. CASE ~m.firing
  <2>1. t = low /\ d = <<>>
    BY <1>4, <1>8
  <2>2. \A x \in ids : x # id => Same(x, cs, t)
    BY <1>5, <2>1 DEF Same
  <2>3. Fits(m, d, m.index)
    BY <1>3, <1>8, <2>1 DEF Fits
  <2>4. ~IsFiring(id, t) /\ ~InCall(id, t)
    BY <1>2, <1>5, <2>1
  <2>5. ListGood(CallbacksFor(s, id), m, d, id, t)
    BY <1>3, <1>6, <1>8, <2>1, <2>3, <2>4 DEF ListGood
  <2>6. StackSound(t, ids)
    BY <1>5, <2>1
  <2> QED BY <1>1, <1>2, <2>2, <2>5, <2>6, OneChanges
<1> QED BY <1>7, <1>8

LEMMA EndLoopGood ==
    ASSUME GoodNow, NEW id \in DOMAIN lists, EndLoop(id)
    PROVE  GoodNow'
<1>1. /\ id \in Layout(script)
      /\ Maps(lists, Layout(script)) /\ Maps(due, Layout(script))
      /\ lists[id] \in ListOf(CallbacksFor(script, id))
  BY GoodFacts
<1>2. calls # <<>> /\ Last(calls) = id /\ ~MoreToCall(lists[id])
  BY DEF EndLoop
<1>3. PICK l, m : l = lists[id] /\ m = EndFire(l)
  OBVIOUS
<1>4. l.firing /\ Fits(l, due[id], l.index) /\ l.list \in Seq(CallbacksFor(script, id)) /\ l.index \in Int
  BY <1>2, <1>3, TopFacts
<1>5. due[id] = <<>>
  <2>1. CASE l.alive
    <3>1. l.length = Len(l.list) /\ RestOf(l.list, l.index, due[id]) /\ ~(l.index < l.length)
      BY <1>2, <1>3, <1>4, <2>1 DEF Fits, MoreToCall
    <3>2. l.index = Len(l.list)
      BY <1>4, <3>1 DEF RestOf
    <3>3. RestOf(l.list, Len(l.list), due[id])
      BY <3>1, <3>2
    <3> QED BY <1>4, <3>3, RestNone
  <2>2. CASE ~l.alive
    BY <1>4, <2>2 DEF Fits
  <2> QED BY <2>1, <2>2
<1>6. /\ lists' = [lists EXCEPT ![id] = m] /\ lists'[id] = m
      /\ calls' = (IF m.firing THEN calls ELSE Front(calls))
      /\ due' = [due EXCEPT ![id] = IF m.firing THEN m.list ELSE <<>>]
  <2>1. lists' = [lists EXCEPT ![id] = m]
    BY <1>3 DEF EndLoop
  <2>2. lists'[id] = m
    BY <1>1, <2>1 DEF Maps
  <2>3. due' = [due EXCEPT ![id] = IF m.firing THEN m.list ELSE due[id]]
    BY <2>2, Zenon DEF EndLoop
  <2> QED BY <1>5, <2>1, <2>2, <2>3 DEF EndLoop
<1>7. PICK d : d = (IF m.firing THEN m.list ELSE <<>>)
  OBVIOUS
<1>8. /\ Changes(lists, lists', Layout(script), id, m)
      /\ Changes(due, due', Layout(script), id, d)
  BY <1>1, <1>6, <1>7, ExceptChanges
<1>9. ~l.alive => l.list = <<>>
  BY <1>4 DEF Fits
<1>10. GoodLists(script, lists', due', calls')
  <2>1. GoodLists(script, lists, due, calls) /\ l \in ListOf(CallbacksFor(script, id))
    BY <1>1, <1>3 DEF GoodNow
  <2> QED BY <1>1, <1>2, <1>3, <1>6, <1>7, <1>8, <1>9, <2>1, EndGood
<1> QED BY <1>10 DEF GoodNow, EndLoop

LEMMA AdvanceFacts ==
    ASSUME NEW cb, NEW l \in ListOf(cb)
    PROVE  /\ Advance(l) \in ListOf(cb) /\ Advance(l).index = l.index + 1
           /\ Advance(l).list = l.list /\ Advance(l).alive = l.alive
           /\ Advance(l).firing = l.firing /\ Advance(l).length = l.length
<1>1. PICK a, n : n = l.index + 1 /\ a = [l EXCEPT !.index = n]
  OBVIOUS
<1>2. n \in Int
  BY <1>1 DEF ListOf
<1>3. Advance(l) = a
  BY <1>1 DEF Advance
<1> QED BY <1>1, <1>2, <1>3 DEF ListOf

\* One function of a script less on the stack.
LEMMA BackInLoop ==
    ASSUME GoodNow, calls # <<>>, Last(calls) = User, NEW id, id = calls[Len(calls) - 1],
           NEW k, k = [lists EXCEPT ![id] = Advance(@)]
    PROVE  /\ id \in DOMAIN lists /\ Front(calls) # <<>> /\ Last(Front(calls)) = id
           /\ GoodLists(script, k, due, Front(calls))
<1>1. PICK ids, low : ids = Layout(script) /\ low = Front(calls)
  OBVIOUS
<1>2. User \notin ids /\ StackSound(calls, ids) /\ Maps(lists, ids) /\ Maps(due, ids)
  BY <1>1, UserIsNoList DEF GoodNow, GoodLists
<1>3. /\ id \in ids /\ low # <<>> /\ Last(low) = id /\ InCall(id, calls)
      /\ \A x \in ids : IsFiring(x, low) <=> IsFiring(x, calls)
      /\ \A x \in ids : InCall(x, low) <=> InCall(x, calls) /\ x # id
      /\ StackSound(low, ids)
  BY <1>1, <1>2, ScriptOnTop, UnderTop
<1>4. id \in DOMAIN lists
  BY <1>2, <1>3 DEF Maps
<1>5. PICK cb, l, d : cb = CallbacksFor(script, id) /\ l = lists[id] /\ d = due[id]
  OBVIOUS
<1>6. ListGood(cb, l, d, id, calls)
  BY <1>4, <1>5, GoodFacts
<1>7. ListGood(cb, Advance(l), d, id, low)
  <2>1. /\ Advance(l) \in ListOf(cb) /\ Advance(l).index = l.index + 1
        /\ Advance(l).list = l.list /\ Advance(l).alive = l.alive
        /\ Advance(l).firing = l.firing /\ Advance(l).length = l.length
    BY <1>6, AdvanceFacts DEF ListGood
  <2>2. Fits(l, d, l.index + 1)
    BY <1>3, <1>6 DEF ListGood
  <2>3. Fits(Advance(l), d, Advance(l).index)
    BY <2>1, <2>2 DEF Fits
  <2>4. ~InCall(id, low) /\ (IsFiring(id, low) <=> IsFiring(id, calls))
    BY <1>3
  <2> QED BY <1>6, <2>1, <2>3, <2>4 DEF ListGood
<1>8. Changes(lists, k, ids, id, Advance(l)) /\ Changes(due, due, ids, id, d)
  BY <1>2, <1>3, <1>5, ExceptChanges, NoneChanges
<1>9. \A x \in ids : x # id => Same(x, calls, low)
  BY <1>3 DEF Same
<1>10. GoodLists(script, k, due, low)
  BY <1>1, <1>3, <1>5, <1>7, <1>8, <1>9, OneChanges DEF GoodNow
<1> QED BY <1>1, <1>3, <1>4, <1>10

LEMMA ReturnGood ==
    ASSUME GoodNow, Return
    PROVE  GoodNow'
<1>1. PICK id, k : id = calls[Len(calls) - 1] /\ k = [lists EXCEPT ![id] = Advance(@)]
  OBVIOUS
<1>2. calls # <<>> /\ Last(calls) = User /\ script' = script
  BY DEF Return
<1>3. /\ id \in DOMAIN lists /\ Front(calls) # <<>> /\ Last(Front(calls)) = id
      /\ GoodLists(script, k, due, Front(calls))
  BY <1>1, <1>2, BackInLoop
<1>4. \/ lists' = k /\ calls' = Front(calls) /\ due' = due
      \/ /\ lists' = [lists EXCEPT ![id] = EndFire([lists[id] EXCEPT !.memory = Halted])]
         /\ calls' = IF lists'[id].firing THEN Front(calls) ELSE Front(Front(calls))
         /\ due' = [due EXCEPT ![id] = IF lists'[id].firing THEN lists'[id].list ELSE <<>>]
  BY <1>1, Zenon DEF Return
<1>5. CASE lists' = k /\ calls' = Front(calls) /\ due' = due
  BY <1>2, <1>3, <1>5 DEF GoodNow
<1>6. CASE /\ lists' = [lists EXCEPT ![id] = EndFire([lists[id] EXCEPT !.memory = Halted])]
           /\ calls' = IF lists'[id].firing THEN Front(calls) ELSE Front(Front(calls))
           /\ due' = [due EXCEPT ![id] = IF lists'[id].firing THEN lists'[id].list ELSE <<>>]
  <2>1. PICK ids, l, m : /\ ids = Layout(script) /\ l = [lists[id] EXCEPT !.memory = Halted]
                         /\ m = EndFire(l)
    OBVIOUS
  <2>2. /\ id \in ids /\ Maps(lists, ids) /\ Maps(due, ids)
        /\ lists[id] \in ListOf(CallbacksFor(script, id))
        /\ ListGood(CallbacksFor(script, id), lists[id], due[id], id, calls)
    BY <1>3, <2>1, GoodFacts
  <2>3. /\ l \in ListOf(CallbacksFor(script, id)) /\ l.alive = lists[id].alive
        /\ l.list = lists[id].list
    <3>1. PICK o \in ListOf(CallbacksFor(script, id)) : o = lists[id]
      BY <2>2
    <3>2. l = [o EXCEPT !.memory = Halted] /\ Halted \in Int
      BY <2>1, <3>1 DEF Halted
    <3>3. l \in ListOf(CallbacksFor(script, id)) /\ l.alive = o.alive /\ l.list = o.list
      BY <3>2 DEF ListOf
    <3> QED BY <3>1, <3>3
  <2>4. ~l.alive => l.list = <<>>
    BY <2>2, <2>3 DEF ListGood, Fits
  <2>5. lists' = [lists EXCEPT ![id] = m]
    BY <1>6, <2>1
  <2>6. Changes(lists, lists', ids, id, m)
    BY <2>2, <2>5, ExceptChanges
  <2>7. Changes(k, lists', ids, id, m)
    BY <1>1, <2>2, <2>6 DEF Changes, Maps
  <2>8. lists'[id] = m
    BY <2>6 DEF Changes
  <2>9. PICK d : d = (IF m.firing THEN m.list ELSE <<>>)
    OBVIOUS
  <2>10. due' = [due EXCEPT ![id] = d]
    <3>1. PICK v : v = (IF lists'[id].firing THEN lists'[id].list ELSE <<>>)
      OBVIOUS
    <3>2. due' = [due EXCEPT ![id] = v]
      BY <1>6, <3>1
    <3>3. v = d
      BY <2>8, <2>9, <3>1
    <3> QED BY <3>2, <3>3
  <2>11. Changes(due, due', ids, id, d)
    BY <2>2, <2>10, ExceptChanges
  <2>12. PICK cs : cs = Front(calls)
    OBVIOUS
  <2>13. calls' = (IF m.firing THEN cs ELSE Front(cs))
    <3>1. calls' = (IF m.firing THEN Front(calls) ELSE Front(Front(calls)))
      BY <1>6, <2>8, Zenon
    <3> QED BY <2>12, <3>1, Zenon
  <2>14. GoodLists(script, k, due, cs) /\ cs # <<>> /\ Last(cs) = id
    BY <1>3, <2>12
  <2>15. GoodLists(script, lists', due', calls')
    BY <2>1, <2>2, <2>3, <2>4, <2>7, <2>9, <2>11, <2>13, <2>14, EndGood
  <2> QED BY <1>2, <2>15 DEF GoodNow
<1> QED BY <1>4, <1>5, <1>6

\* A callback of Deferred or when closes a list or fires it.
LEMMA BecomesGood ==
    ASSUME NEW s, NEW ls, NEW du, NEW cs, GoodLists(s, ls, du, cs), NEW id \in Layout(s),
           NEW m \in ListOf(CallbacksFor(s, id)), Restarts(ls[id], m) \/ Closes(ls[id], m),
           NEW k, k = [ls EXCEPT ![id] = m],
           NEW t, m.firing /\ ~ls[id].firing => t = Append(cs, id),
           ~(m.firing /\ ~ls[id].firing) => t = cs,
           NEW v, ~m.alive => v = <<>>,
           m.alive /\ m.firing /\ ~ls[id].firing => v = m.list,
           m.alive /\ ~(m.firing /\ ~ls[id].firing) => v = du[id],
           NEW e, e = [du EXCEPT ![id] = v]
    PROVE  GoodLists(s, k, e, t)
<1>1. PICK ids, cb, l, d : /\ ids = Layout(s) /\ cb = CallbacksFor(s, id)
                           /\ l = ls[id] /\ d = du[id]
  OBVIOUS
<1>2. /\ User \notin ids /\ id \in ids /\ StackSound(cs, ids) /\ Maps(ls, ids) /\ Maps(du, ids)
      /\ ListGood(cb, l, d, id, cs)
  BY <1>1, UserIsNoList DEF GoodLists
<1>3. Changes(ls, k, ids, id, m) /\ Changes(du, e, ids, id, v)
  BY <1>2, ExceptChanges
<1>4. /\ m.firing /\ ~l.firing => t = Append(cs, id)
      /\ ~(m.firing /\ ~l.firing) => t = cs
      /\ ~m.alive => v = <<>>
      /\ m.alive /\ m.firing /\ ~l.firing => v = m.list
      /\ m.alive /\ ~(m.firing /\ ~l.firing) => v = d
      /\ m \in ListOf(cb)
  BY <1>1
<1>5. CASE Restarts(l, m)
  <2>1. ~l.alive => l.list = <<>> /\ d = <<>>
    BY <1>2 DEF ListGood, Fits
  <2>2. m.alive = l.alive /\ m.list = l.list
    BY <1>5 DEF Restarts
  <2>3. /\ m.firing /\ ~l.firing => t = Append(cs, id) /\ v = m.list
        /\ ~(m.firing /\ ~l.firing) => t = cs /\ v = d
    BY <1>4, <2>1, <2>2
  <2>4. /\ StackSound(t, ids) /\ \A x \in ids : x # id => Same(x, cs, t)
        /\ ListGood(cb, m, v, id, t)
    BY <1>2, <1>4, <1>5, <2>3, RestartFits
  <2> QED BY <1>1, <1>3, <2>4, OneChanges
<1>6. CASE Closes(l, m)
  <2>1. t = cs /\ (~m.alive => v = <<>>) /\ (m.alive => v = d)
    BY <1>4, <1>6 DEF Closes
  <2>2. ListGood(cb, m, v, id, t)
    BY <1>2, <1>4, <1>6, <2>1, CloseFits
  <2>3. \A x \in ids : Same(x, cs, t)
    BY <2>1 DEF Same
  <2> QED BY <1>1, <1>2, <1>3, <2>1, <2>2, <2>3, OneChanges
<1> QED BY <1>1, <1>5, <1>6

\* What CallInternal does: the loop of list id goes on, and another list, or
\* the same one, becomes l.
BecomesIn(id, other, l) ==
    LET starts == l.firing /\ ~lists[other].firing
    IN  /\ lists' = [[lists EXCEPT ![id] = Advance(@)] EXCEPT ![other] = l]
        /\ calls' = IF starts THEN Append(calls, other) ELSE calls
        /\ due' = [[due EXCEPT ![id] = AfterFirst(@)] EXCEPT
                       ![other] = CASE ~l.alive -> <<>>
                                    [] l.alive /\ starts -> l.list
                                    [] OTHER -> @]

LEMMA InternalKinds ==
    ASSUME NEW s, NEW id, NEW fn \in CallbacksFor(s, id), ~IsScript(fn)
    PROVE  \/ fn[1] = "settle"
           \/ fn[1] \in {"disable", "lock"} /\ fn[2] \in Layout(s) /\ fn[2] # id
           \/ fn[1] \in {"fire", "count"} /\ fn[2] \in Layout(s) /\ fn[2] # id /\ fn[2][1] = "w"
<1>1. CASE fn \in {"script"} \X Nat
  BY <1>1 DEF IsScript
<1>2. CASE fn \in {"settle"} \X Deferreds \X {"resolved", "rejected"}
  BY <1>2
<1>3. CASE fn \in {"disable", "lock"} \X (Layout(s) \ {id})
  BY <1>3
<1>4. CASE fn \in {"fire", "count"} \X {x \in Layout(s) \ {id} : x[1] = "w"}
  BY <1>4
<1> QED BY <1>1, <1>2, <1>3, <1>4 DEF CallbacksFor

LEMMA InternalFacts ==
    ASSUME NEW id \in DOMAIN lists, CallInternal(id), NEW fn,
           fn = lists[id].list[lists[id].index + 1],
           fn \in CallbacksFor(script, id)
    PROVE  \/ BecomesIn(id, id, [lists EXCEPT ![id] = Advance(@)][id])
           \/ /\ fn[2] \in Layout(script) /\ fn[2] # id
              /\ \/ BecomesIn(id, fn[2], Disable(lists[fn[2]]))
                 \/ BecomesIn(id, fn[2], Lock(lists[fn[2]]))
                 \/ /\ fn[2][1] = "w"
                    /\ BecomesIn(id, fn[2], FireWith(lists[fn[2]], lists[id].args))
<1>1. ~IsScript(fn)
  BY DEF CallInternal
<1>2. \/ fn[1] = "settle"
      \/ fn[1] \in {"disable", "lock"} /\ fn[2] \in Layout(script) /\ fn[2] # id
      \/ fn[1] \in {"fire", "count"} /\ fn[2] \in Layout(script) /\ fn[2] # id /\ fn[2][1] = "w"
  BY <1>1, InternalKinds
<1>3. CASE fn[1] = "settle"
  BY <1>3 DEF CallInternal, BecomesIn
<1>4. CASE fn[1] = "disable" /\ fn[2] \in Layout(script) /\ fn[2] # id
  <2>1. BecomesIn(id, fn[2], Disable(lists[fn[2]]))
    BY <1>4 DEF CallInternal, BecomesIn
  <2> QED BY <1>4, <2>1
<1>5. CASE fn[1] = "lock" /\ fn[2] \in Layout(script) /\ fn[2] # id
  <2>1. BecomesIn(id, fn[2], Lock(lists[fn[2]]))
    BY <1>5 DEF CallInternal, BecomesIn
  <2> QED BY <1>5, <2>1
<1>6. CASE fn[1] = "fire" /\ fn[2] \in Layout(script) /\ fn[2] # id /\ fn[2][1] = "w"
  <2>1. BecomesIn(id, fn[2], FireWith(lists[fn[2]], lists[id].args))
    BY <1>6 DEF CallInternal, BecomesIn
  <2> QED BY <1>6, <2>1
<1>7. CASE fn[1] = "count" /\ fn[2] \in Layout(script) /\ fn[2] # id /\ fn[2][1] = "w"
  <2>1. CASE count = 1
    <3>1. BecomesIn(id, fn[2], FireWith(lists[fn[2]], lists[id].args))
      BY <1>7, <2>1 DEF CallInternal, BecomesIn
    <3> QED BY <1>7, <3>1
  <2>2. CASE count # 1
    BY <1>7, <2>2 DEF CallInternal, BecomesIn
  <2> QED BY <2>1, <2>2
<1> QED BY <1>2, <1>3, <1>4, <1>5, <1>6, <1>7

LEMMA InternalGood ==
    ASSUME GoodNow, NEW id \in DOMAIN lists, CallInternal(id)
    PROVE  GoodNow'
<1>1. PICK ids, k, e : /\ ids = Layout(script)
                       /\ k = [lists EXCEPT ![id] = Advance(@)]
                       /\ e = [due EXCEPT ![id] = AfterFirst(@)]
  OBVIOUS
<1>2. /\ id \in ids /\ Maps(lists, ids) /\ Maps(due, ids) /\ StackSound(calls, ids)
      /\ lists[id] \in ListOf(CallbacksFor(script, id))
  BY <1>1, GoodFacts
<1>3. calls # <<>> /\ Last(calls) = id /\ MoreToCall(lists[id]) /\ script' = script
  BY DEF CallInternal
<1>4. /\ IsFiring(id, calls) /\ ~InCall(id, calls) /\ lists[id].firing
      /\ lists[id].list \in Seq(CallbacksFor(script, id))
  BY <1>3, TopFacts
<1>5. /\ lists[id].alive /\ lists[id].length = Len(lists[id].list)
      /\ lists[id].index + 1 \in 1..Len(lists[id].list)
      /\ RestOf(lists[id].list, lists[id].index + 1, AfterFirst(due[id]))
      /\ AfterFirst(due[id]) \in Seq(CallbacksFor(script, id))
  BY <1>3, MoreFacts
<1>6. PICK m : m = Advance(lists[id])
  OBVIOUS
<1>7. /\ m \in ListOf(CallbacksFor(script, id)) /\ m.index = lists[id].index + 1
      /\ m.list = lists[id].list /\ m.alive = lists[id].alive
      /\ m.firing = lists[id].firing /\ m.length = lists[id].length
  BY <1>2, <1>6, AdvanceFacts
<1>8. ListGood(CallbacksFor(script, id), m, AfterFirst(due[id]), id, calls)
  <2>1. Fits(m, AfterFirst(due[id]), m.index)
    BY <1>4, <1>5, <1>7 DEF Fits
  <2> QED BY <1>4, <1>5, <1>7, <2>1 DEF ListGood
<1>9. Changes(lists, k, ids, id, m) /\ Changes(due, e, ids, id, AfterFirst(due[id]))
  BY <1>1, <1>2, <1>6, ExceptChanges
<1>10. GoodLists(script, k, e, calls)
  <2>1. \A x \in ids : Same(x, calls, calls)
    BY DEF Same
  <2> QED BY <1>1, <1>2, <1>8, <1>9, <2>1, OneChanges DEF GoodNow
<1>11. PICK fn : fn = lists[id].list[lists[id].index + 1]
  OBVIOUS
<1>12. fn \in CallbacksFor(script, id)
  BY <1>4, <1>5, <1>11, ElementOfSeq
<1>13. k[id] = m /\ \A x \in ids : x # id => k[x] = lists[x]
  BY <1>9 DEF Changes
<1>14. \A x \in ids : k[x] \in ListOf(CallbacksFor(script, x)) /\ k[x].firing = lists[x].firing
  <2>1. \A x \in ids : ListGood(CallbacksFor(script, x), k[x], e[x], x, calls)
    BY <1>1, <1>10 DEF GoodLists
  <2> QED BY <1>7, <1>13, <2>1 DEF ListGood
<1>15. \A x \in ids : (x # id => k[x] = lists[x])
  BY <1>13
<1>16. PICK other, l :
         /\ other \in ids /\ l \in ListOf(CallbacksFor(script, other))
         /\ BecomesIn(id, other, l)
         /\ Restarts(k[other], l) \/ Closes(k[other], l)
  <2>1. CASE BecomesIn(id, id, [lists EXCEPT ![id] = Advance(@)][id])
    <3>1. BecomesIn(id, id, k[id])
      BY <1>1, <2>1
    <3>2. k[id] \in ListOf(CallbacksFor(script, id)) /\ Restarts(k[id], k[id])
      BY <1>2, <1>14 DEF Restarts
    <3> QED BY <1>2, <3>1, <3>2
  <2>2. CASE fn[2] \in ids /\ fn[2] # id /\ BecomesIn(id, fn[2], Disable(lists[fn[2]]))
    <3>1. PICK other, l : other = fn[2] /\ l = Disable(lists[other])
      OBVIOUS
    <3>2. other \in ids /\ k[other] = lists[other] /\ BecomesIn(id, other, l)
      BY <1>15, <2>2, <3>1
    <3>3. lists[other] \in ListOf(CallbacksFor(script, other))
      BY <1>14, <3>2
    <3>4. l \in ListOf(CallbacksFor(script, other)) /\ Closes(lists[other], l)
      BY <3>1, <3>3, CloseFacts
    <3> QED BY <3>2, <3>4
  <2>3. CASE fn[2] \in ids /\ fn[2] # id /\ BecomesIn(id, fn[2], Lock(lists[fn[2]]))
    <3>1. PICK other, l : other = fn[2] /\ l = Lock(lists[other])
      OBVIOUS
    <3>2. other \in ids /\ k[other] = lists[other] /\ BecomesIn(id, other, l)
      BY <1>15, <2>3, <3>1
    <3>3. lists[other] \in ListOf(CallbacksFor(script, other))
      BY <1>14, <3>2
    <3>4. l \in ListOf(CallbacksFor(script, other)) /\ Closes(lists[other], l)
      BY <3>1, <3>3, CloseFacts
    <3> QED BY <3>2, <3>4
  <2>4. CASE /\ fn[2] \in ids /\ fn[2] # id
             /\ BecomesIn(id, fn[2], FireWith(lists[fn[2]], lists[id].args))
    <3>1. PICK other, l : other = fn[2] /\ l = FireWith(lists[other], lists[id].args)
      OBVIOUS
    <3>2. other \in ids /\ k[other] = lists[other] /\ BecomesIn(id, other, l)
      BY <1>15, <2>4, <3>1
    <3>3. lists[other] \in ListOf(CallbacksFor(script, other)) /\ lists[id].args \in Int
      BY <1>2, <1>14, <3>2 DEF ListOf
    <3>4. l \in ListOf(CallbacksFor(script, other)) /\ Restarts(lists[other], l)
      BY <3>1, <3>3, FireFacts
    <3> QED BY <3>2, <3>4
  <2> QED BY <1>1, <1>11, <1>12, <2>1, <2>2, <2>3, <2>4, InternalFacts
<1>17. PICK v : v = CASE ~l.alive -> <<>>
                      [] l.alive /\ l.firing /\ ~lists[other].firing -> l.list
                      [] OTHER -> e[other]
  OBVIOUS
<1>18. lists' = [k EXCEPT ![other] = l] /\ due' = [e EXCEPT ![other] = v]
  <2>1. lists' = [k EXCEPT ![other] = l]
    BY <1>1, <1>16 DEF BecomesIn
  <2>2. due' = [[due EXCEPT ![id] = AfterFirst(@)] EXCEPT
                   ![other] = CASE ~l.alive -> <<>>
                                [] l.alive /\ l.firing /\ ~lists[other].firing -> l.list
                                [] OTHER -> @]
    BY <1>16, Zenon DEF BecomesIn
  <2>3. due' = [e EXCEPT ![other] = CASE ~l.alive -> <<>>
                                      [] l.alive /\ l.firing /\ ~lists[other].firing -> l.list
                                      [] OTHER -> e[other]]
    BY <1>1, <2>2, Zenon
  <2>4. due' = [e EXCEPT ![other] = v]
    BY <1>17, <2>3, Zenon
  <2> QED BY <2>1, <2>4
<1>19. /\ l.firing /\ ~k[other].firing => calls' = Append(calls, other)
       /\ ~(l.firing /\ ~k[other].firing) => calls' = calls
  BY <1>14, <1>16 DEF BecomesIn
<1>20. /\ ~l.alive => v = <<>>
       /\ l.alive /\ l.firing /\ ~k[other].firing => v = l.list
       /\ l.alive /\ ~(l.firing /\ ~k[other].firing) => v = e[other]
  <2>1. lists[other].firing = k[other].firing
    BY <1>14, <1>16
  <2>2. CASE ~l.alive
    BY <1>17, <2>2
  <2>3. CASE l.alive /\ l.firing /\ ~lists[other].firing
    BY <1>17, <2>1, <2>3
  <2>4. CASE l.alive /\ ~(l.firing /\ ~lists[other].firing)
    BY <1>17, <2>1, <2>4
  <2> QED BY <2>1, <2>2, <2>3, <2>4
<1>21. GoodLists(script, lists', due', calls')
  <2>1. PICK s, cs, t, n, q : /\ s = script /\ cs = calls /\ t = calls'
                              /\ n = lists' /\ q = due'
    OBVIOUS
  <2>2. /\ GoodLists(s, k, e, cs) /\ other \in Layout(s)
        /\ l \in ListOf(CallbacksFor(s, other))
        /\ Restarts(k[other], l) \/ Closes(k[other], l)
        /\ n = [k EXCEPT ![other] = l] /\ q = [e EXCEPT ![other] = v]
    BY <1>1, <1>10, <1>16, <1>18, <2>1
  <2>3. /\ l.firing /\ ~k[other].firing => t = Append(cs, other)
        /\ ~(l.firing /\ ~k[other].firing) => t = cs
    BY <1>19, <2>1
  <2>4. GoodLists(s, n, q, t)
    BY <1>20, <2>2, <2>3, BecomesGood
  <2> QED BY <2>1, <2>4
<1> QED BY <1>3, <1>21 DEF GoodNow

LEMMA NewFacts ==
    ASSUME NEW cb, NEW flags, flags \in SUBSET Flag, NEW l, NEW s \in Seq(cb),
           l = [NewList(flags) EXCEPT !.list = s]
    PROVE  /\ l \in ListOf(cb) /\ l.alive /\ ~l.firing /\ l.list = s
<1>1. <<>> \in Seq(Int) /\ NoValue \in Int /\ 0 \in Int
  BY DEF NoValue
<1> QED BY <1>1 DEF NewList, ListOf

LEMMA NewDeferredFacts ==
    ASSUME NEW s \in {"deferred", "when"}, NEW id \in Layout(s), NEW l,
           l = NewDeferredList(s, id)
    PROVE  l \in ListOf(CallbacksFor(s, id)) /\ l.alive /\ ~l.firing
<1>1. PICK cb : cb = CallbacksFor(s, id)
  OBVIOUS
<1>2. PICK d, kind : id = <<d, kind>> /\ d \in Deferreds /\ kind \in Kind /\ id[1] = d /\ id[2] = kind
  <2>1. Layout(s) = {"d"} \X Kind \/ Layout(s) = Deferreds \X Kind
    BY Zenon DEF Layout
  <2>2. id \in Deferreds \X Kind
    BY <2>1 DEF Deferreds
  <2> QED BY <2>2
<1>3. \A k \in Kind : <<d, k>> \in Layout(s)
  <2>1. CASE s = "deferred"
    <3>1. Layout(s) = {"d"} \X Kind
      BY <2>1 DEF Layout
    <3> QED BY <1>2, <3>1
  <2>2. CASE s = "when"
    <3>1. Layout(s) = Deferreds \X Kind
      BY <2>2 DEF Layout
    <3> QED BY <1>2, <3>1
  <2> QED BY <2>1, <2>2
<1>4. WhenAdds(s, id) \in Seq(cb)
  <2>1. CASE s # "when" \/ id[1] = "w"
    <3>1. WhenAdds(s, id) = <<>>
      BY <2>1, Zenon DEF WhenAdds
    <3> QED BY <3>1
  <2>2. CASE s = "when" /\ id[1] # "w"
    <3>1. Layout(s) = Deferreds \X Kind
      BY <2>2 DEF Layout
    <3>2. \A k \in Kind : <<"w", k>> \in Layout(s) \ {id} /\ <<"w", k>>[1] = "w"
      BY <1>2, <2>2, <3>1 DEF Deferreds
    <3>3. /\ CountingDown \in cb
          /\ Firing(<<"w", "fail">>) \in cb /\ Firing(<<"w", "progress">>) \in cb
      BY <1>1, <3>2 DEF CountingDown, Firing, CallbacksFor, Kind
    <3>4. /\ kind = "done" => WhenAdds(s, id) = <<CountingDown>>
          /\ kind = "fail" => WhenAdds(s, id) = <<Firing(<<"w", "fail">>)>>
          /\ kind = "progress" => WhenAdds(s, id) = <<Firing(<<"w", "progress">>)>>
      BY <1>2, <2>2 DEF WhenAdds
    <3>5. \A a \in cb : <<a>> \in Seq(cb)
      OBVIOUS
    <3> QED BY <1>2, <3>3, <3>4, <3>5 DEF Kind
  <2> QED BY <2>1, <2>2
<1>5. CASE kind = "done"
  <2>1. l = [NewList({"once", "memory"}) EXCEPT !.list =
                <<Settle(d, "resolved"), Disabling(<<d, "fail">>), Locking(d)>> \o WhenAdds(s, id)]
    BY <1>2, <1>5 DEF NewDeferredList
  <2>2. <<d, "fail">> \in Layout(s) \ {id} /\ <<d, "progress">> \in Layout(s) \ {id}
    BY <1>2, <1>3, <1>5 DEF Kind
  <2>3. Settle(d, "resolved") \in cb /\ Disabling(<<d, "fail">>) \in cb /\ Locking(d) \in cb
    BY <1>1, <1>2, <2>2 DEF Settle, Disabling, Locking, CallbacksFor
  <2>4. <<Settle(d, "resolved"), Disabling(<<d, "fail">>), Locking(d)>> \in Seq(cb)
    BY <2>3
  <2>5. <<Settle(d, "resolved"), Disabling(<<d, "fail">>), Locking(d)>> \o WhenAdds(s, id) \in Seq(cb)
    BY <1>4, <2>4, ConcatProperties
  <2>6. {"once", "memory"} \in SUBSET Flag
    BY DEF Flag
  <2> QED BY <1>1, <2>1, <2>5, <2>6, NewFacts
<1>6. CASE kind = "fail"
  <2>1. l = [NewList({"once", "memory"}) EXCEPT !.list =
                <<Settle(d, "rejected"), Disabling(<<d, "done">>), Locking(d)>> \o WhenAdds(s, id)]
    BY <1>2, <1>6 DEF NewDeferredList
  <2>2. <<d, "done">> \in Layout(s) \ {id} /\ <<d, "progress">> \in Layout(s) \ {id}
    BY <1>2, <1>3, <1>6 DEF Kind
  <2>3. Settle(d, "rejected") \in cb /\ Disabling(<<d, "done">>) \in cb /\ Locking(d) \in cb
    BY <1>1, <1>2, <2>2 DEF Settle, Disabling, Locking, CallbacksFor
  <2>4. <<Settle(d, "rejected"), Disabling(<<d, "done">>), Locking(d)>> \in Seq(cb)
    BY <2>3
  <2>5. <<Settle(d, "rejected"), Disabling(<<d, "done">>), Locking(d)>> \o WhenAdds(s, id) \in Seq(cb)
    BY <1>4, <2>4, ConcatProperties
  <2>6. {"once", "memory"} \in SUBSET Flag
    BY DEF Flag
  <2> QED BY <1>1, <2>1, <2>5, <2>6, NewFacts
<1>7. CASE kind = "progress"
  <2>1. l = [NewList({"memory"}) EXCEPT !.list = WhenAdds(s, id)]
    BY <1>2, <1>7 DEF NewDeferredList
  <2>2. {"memory"} \in SUBSET Flag
    BY DEF Flag
  <2> QED BY <1>1, <1>4, <2>1, <2>2, NewFacts
<1> QED BY <1>2, <1>5, <1>6, <1>7 DEF Kind

LEMMA CallbacksStart == ListInit => CallbacksInv
<1> SUFFICES ASSUME ListInit PROVE CallbacksInv
  OBVIOUS
<1>1. PICK ids : ids = Layout(script)
  OBVIOUS
<1>2. calls = <<>> /\ ops \in Nat /\ broken \in BOOLEAN
  BY DEF ListInit
<1>3. due = [id \in ids |-> <<>>]
  BY <1>1 DEF ListInit
<1>4. PICK flags : /\ flags \in SUBSET Flag
                   /\ lists = [id \in ids |->
                                IF script \in {"deferred", "when"}
                                THEN NewDeferredList(script, id) ELSE NewList(flags)]
  BY <1>1 DEF ListInit
<1>5. Maps(lists, ids) /\ Maps(due, ids)
  BY <1>3, <1>4 DEF Maps
<1>6. StackSound(calls, ids)
  <2>1. <<>> \in Seq(ids \cup {User}) /\ Len(<<>>) = 0
    OBVIOUS
  <2> QED BY <1>2, <2>1 DEF StackSound
<1>7. ASSUME NEW id \in ids
      PROVE  ListGood(CallbacksFor(script, id), lists[id], due[id], id, calls)
  <2>1. PICK l : l = lists[id]
    OBVIOUS
  <2>2. l \in ListOf(CallbacksFor(script, id)) /\ l.alive /\ ~l.firing
    <3>1. CASE script \in {"deferred", "when"}
      <4>1. l = NewDeferredList(script, id)
        BY <1>4, <2>1, <3>1
      <4> QED BY <1>1, <3>1, <4>1, NewDeferredFacts
    <3>2. CASE script \notin {"deferred", "when"}
      <4>1. l = NewList(flags)
        BY <1>4, <2>1, <3>2
      <4>2. <<>> \in Seq(CallbacksFor(script, id)) /\ <<>> \in Seq(Int) /\ NoValue \in Int /\ 0 \in Int
        BY DEF NoValue
      <4> QED BY <1>4, <4>1, <4>2 DEF NewList, ListOf
    <3> QED BY <3>1, <3>2
  <2>3. due[id] = <<>> /\ <<>> \in Seq(CallbacksFor(script, id))
    BY <1>3
  <2>4. ~IsFiring(id, calls)
    BY <1>2 DEF IsFiring
  <2>5. Fits(l, <<>>, l.index) /\ Fits(l, <<>>, l.index + 1)
    BY <2>2 DEF Fits
  <2> QED BY <2>1, <2>2, <2>3, <2>4, <2>5 DEF ListGood
<1> QED BY <1>1, <1>2, <1>5, <1>6, <1>7 DEF CallbacksInv, GoodLists

LEMMA CallbacksStep == CallbacksInv /\ [ListNext]_listVars => CallbacksInv'
<1> SUFFICES ASSUME CallbacksInv, [ListNext]_listVars PROVE CallbacksInv'
  OBVIOUS
<1>1. CASE UNCHANGED listVars
  BY <1>1 DEF CallbacksInv, listVars
<1>2. CASE ListNext
  <2>1. ops' \in Nat /\ broken' \in BOOLEAN /\ (broken => broken')
    <3>1. CASE \E id \in DOMAIN lists :
                  ScriptAdds(id) \/ ScriptFires(id) \/ ScriptRemoves(id) \/ ScriptCloses(id)
      BY <3>1 DEF CallbacksInv, ScriptAdds, ScriptFires, ScriptRemoves, ScriptCloses, Count
    <3>2. CASE \E id \in DOMAIN lists : ScriptEmpties(id)
      BY <3>2 DEF CallbacksInv, ScriptEmpties, Count
    <3>3. CASE \E id \in DOMAIN lists : CallScript(id)
      BY <3>3 DEF CallbacksInv, CallScript
    <3>4. CASE \E id \in DOMAIN lists : CallInternal(id)
      <4>1. ops' = ops /\ broken' = broken
        BY <3>4 DEF CallInternal
      <4> QED BY <4>1 DEF CallbacksInv
    <3>5. CASE \E id \in DOMAIN lists : EndLoop(id)
      BY <3>5 DEF CallbacksInv, EndLoop
    <3>6. CASE Return
      BY <3>6, Zenon DEF CallbacksInv, Return
    <3>7. CASE Throw
      BY <3>7 DEF CallbacksInv, Throw
    <3> QED BY <1>2, <3>1, <3>2, <3>3, <3>4, <3>5, <3>6, <3>7, Zenon DEF ListNext
  <2>2. ASSUME ~broken' PROVE GoodNow'
    <3>1. GoodNow /\ ops \in Nat
      BY <2>1, <2>2 DEF CallbacksInv, GoodNow
    <3>2. CASE Return
      BY <3>1, <3>2, ReturnGood
    <3>3. CASE Throw
      BY <2>2, <3>3 DEF Throw
    <3>4. ASSUME NEW id \in DOMAIN lists,
                 \/ ScriptAdds(id) \/ ScriptFires(id) \/ ScriptRemoves(id)
                 \/ ScriptEmpties(id) \/ ScriptCloses(id)
                 \/ CallScript(id) \/ CallInternal(id) \/ EndLoop(id)
          PROVE  GoodNow'
      BY <2>2, <3>1, <3>4, AddsGood, FiresGood, RemovesGood, EmptiesGood, ClosesGood,
         CallScriptGood, InternalGood, EndLoopGood, Zenon
    <3> QED BY <1>2, <3>2, <3>3, <3>4, Zenon DEF ListNext
  <2>3. ~broken' => GoodLists(script', lists', due', calls')
    BY <2>2 DEF GoodNow
  <2> QED BY <2>1, <2>3 DEF CallbacksInv
<1> QED BY <1>1, <1>2

LEMMA CallbacksImply == CallbacksInv => LoopCallsWhatIsDue
<1> SUFFICES ASSUME CallbacksInv, NEW id \in DOMAIN lists,
                    lists[id].firing, lists[id].alive, ~broken
             PROVE  LET l == lists[id]
                        inCall == \E i \in 2..Len(calls) : calls[i] = User /\ calls[i - 1] = id
                        next == l.index + IF inCall THEN 2 ELSE 1
                    IN  due[id] = SubSeq(l.list, next, l.length) /\ l.length = Len(l.list)
  BY Zenon DEF LoopCallsWhatIsDue
<1>1. PICK l, d : l = lists[id] /\ d = due[id]
  OBVIOUS
<1>2. ListGood(CallbacksFor(script, id), l, d, id, calls)
  BY <1>1, GoodFacts DEF CallbacksInv, GoodNow
<1>3. l.index \in Int
  BY <1>2 DEF ListGood, ListOf
<1>4. CASE InCall(id, calls)
  <2>1. l.length = Len(l.list) /\ d = SubSeq(l.list, l.index + 1 + 1, l.length)
    BY <1>1, <1>2, <1>4 DEF ListGood, Fits, RestOf
  <2>2. l.index + 1 + 1 = l.index + 2
    BY <1>3
  <2> QED BY <1>1, <1>4, <2>1, <2>2 DEF InCall
<1>5. CASE ~InCall(id, calls)
  <2>1. l.length = Len(l.list) /\ d = SubSeq(l.list, l.index + 1, l.length)
    BY <1>1, <1>2, <1>5 DEF ListGood, Fits, RestOf
  <2> QED BY <1>1, <1>5, <2>1 DEF InCall
<1> QED BY <1>4, <1>5

\* However many functions of scripts add and remove functions of the list that
\* calls them, and fire it or another list, a loop of fire() has those left to
\* call that were in its list or were added since and were not removed.
THEOREM CallsWhatIsDue == ListSpec => []LoopCallsWhatIsDue
<1>1. ListSpec => []CallbacksInv
  BY CallbacksStart, CallbacksStep, PTL DEF ListSpec
<1> QED BY <1>1, CallbacksImply, PTL

(***************************************************************************)
(* The values that a list is fired with, whether something broke or not.   *)
(***************************************************************************)
\* Up to the value o: what waits to be fired is not older than what is fired,
\* nothing waits at a list that does not fire or can be fired once only, and
\* what is remembered is what was fired last.
ValueGood(l, o) ==
    /\ l.args <= o
    /\ l.memory \in {NoValue, Halted, l.args}
    /\ \A i \in 1..Len(l.stack) : l.args <= l.stack[i] /\ l.stack[i] <= o
    /\ \A i, j \in 1..Len(l.stack) : i < j => l.stack[i] <= l.stack[j]
    /\ ~l.firing \/ ~l.open \/ "once" \in l.flags => l.stack = <<>>
    /\ ~l.alive => ~l.open

\* Not older than l.
NotOlder(l, m, o) == ValueGood(m, o) /\ l.args <= m.args

LEMMA StartsNotOlder ==
    ASSUME NEW cb, NEW l \in ListOf(cb), NEW o \in Int, NEW value \in Int, NEW from \in Int,
           l.args <= value, value <= o,
           \A i \in 1..Len(l.stack) : value <= l.stack[i] /\ l.stack[i] <= o,
           \A i, j \in 1..Len(l.stack) : i < j => l.stack[i] <= l.stack[j],
           ~l.open \/ "once" \in l.flags => l.stack = <<>>, ~l.alive => ~l.open,
           NEW m, m = StartFire(l, value, from)
    PROVE  NotOlder(l, m, o)
<1>1. l.list \in Seq(cb) /\ l.stack \in Seq(Int) /\ l.args \in Int
  BY DEF ListOf
<1>2. PICK n, mem : n = Len(l.list) /\ mem = (IF "memory" \in l.flags THEN value ELSE Halted)
  OBVIOUS
<1>3. n \in Int /\ mem \in {value, Halted} /\ mem \in Int
  BY <1>1, <1>2 DEF Halted
<1>4. m = [l EXCEPT !.memory = mem, !.firing = TRUE, !.index = from, !.length = n, !.args = value]
  BY <1>2 DEF StartFire
<1>5. /\ m.memory = mem /\ m.firing /\ m.args = value /\ m.stack = l.stack
      /\ m.open = l.open /\ m.alive = l.alive /\ m.flags = l.flags
  BY <1>4 DEF ListOf
<1> QED BY <1>1, <1>3, <1>5 DEF NotOlder, ValueGood

\* What does not touch the values.
LEMMA SameNotOlder ==
    ASSUME NEW cb, NEW l \in ListOf(cb), NEW o \in Int, ValueGood(l, o), NEW m,
           m.args = l.args, m.memory \in {NoValue, Halted, l.memory},
           ~m.alive => ~m.open,
           \/ m.stack = <<>>
           \/ /\ m.stack = l.stack /\ m.firing = l.firing /\ m.open = l.open
              /\ m.flags = l.flags
    PROVE  NotOlder(l, m, o)
<1>1. l.args \in Int
  BY DEF ListOf
<1>2. m.memory \in {NoValue, Halted, m.args}
  BY DEF ValueGood
<1>3. CASE m.stack = <<>>
  <2>1. \A i \in 1..Len(m.stack) : FALSE
    BY <1>3
  <2> QED BY <1>1, <1>2, <1>3, <2>1 DEF NotOlder, ValueGood
<1>4. CASE /\ m.stack = l.stack /\ m.firing = l.firing /\ m.open = l.open
           /\ m.flags = l.flags
  BY <1>1, <1>2, <1>4 DEF NotOlder, ValueGood
<1> QED BY <1>3, <1>4

LEMMA FireNotOlder ==
    ASSUME NEW cb, NEW l \in ListOf(cb), NEW o \in Int, ValueGood(l, o),
           NEW value \in Int, o <= value, NEW m, m = FireWith(l, value)
    PROVE  NotOlder(l, m, value)
<1>1. l.args \in Int /\ l.stack \in Seq(Int)
  BY DEF ListOf
<1>2. ValueGood(l, value)
  <2>1. PICK k : k = l.stack /\ k \in Seq(Int)
    BY <1>1
  <2>2. PICK n \in Nat, a \in Int :
                n = Len(k) /\ a = l.args /\ \A i \in 1..n : k[i] \in Int
    BY <1>1, <2>1
  <2>3. /\ a <= o /\ \A i \in 1..n : a <= k[i] /\ k[i] <= o
        /\ l.memory \in {NoValue, Halted, l.args}
        /\ \A i, j \in 1..n : i < j => k[i] <= k[j]
        /\ ~l.firing \/ ~l.open \/ "once" \in l.flags => k = <<>>
        /\ ~l.alive => ~l.open
    BY <2>1, <2>2, Zenon DEF ValueGood
  <2>4. a <= value /\ \A i \in 1..n : k[i] <= value
    BY <2>3, <2>2
  <2> QED BY <2>1, <2>3, <2>4, <2>2, Zenon DEF ValueGood
<1>3. CASE ~l.open \/ (l.open /\ l.firing /\ "once" \in l.flags)
           \/ (l.open /\ ~l.firing /\ "once" \in l.flags /\ l.memory # NoValue)
  <2>1. m = l
    BY <1>3, Zenon DEF FireWith
  <2> QED BY <1>1, <1>2, <2>1 DEF NotOlder
<1>4. CASE l.open /\ l.firing /\ "once" \notin l.flags
  <2>1. m = [l EXCEPT !.stack = Append(@, value)]
    BY <1>4, Zenon DEF FireWith
  <2>2. PICK n \in Nat, s \in Seq(Int) : n = Len(l.stack) /\ s = Append(l.stack, value)
    <3>1. Append(l.stack, value) \in Seq(Int) /\ Len(l.stack) \in Nat
      BY <1>1, AppendProperties
    <3> QED BY <3>1
  <2>3. Len(s) = n + 1 /\ s[n + 1] = value /\ \A i \in 1..n : s[i] = l.stack[i] /\ l.stack[i] \in Int
    BY <1>1, <2>2, AppendProperties
  <2>4. m = [l EXCEPT !.stack = s]
    BY <2>1, <2>2
  <2>5. /\ m.stack = s /\ m.args = l.args /\ m.memory = l.memory /\ m.firing = l.firing
        /\ m.open = l.open /\ m.alive = l.alive /\ m.flags = l.flags
    BY <2>2, <2>4 DEF ListOf
  <2>6. \A i \in 1..(n + 1) : i = n + 1 \/ i \in 1..n
    OBVIOUS
  <2>7. /\ l.args <= value /\ l.memory \in {NoValue, Halted, l.args}
        /\ \A i \in 1..n : l.args <= l.stack[i] /\ l.stack[i] <= value
        /\ \A i, j \in 1..n : i < j => l.stack[i] <= l.stack[j]
        /\ ~l.alive => ~l.open
    BY <1>2, <2>2 DEF ValueGood
  <2>8. \A i \in 1..(n + 1) : l.args <= s[i] /\ s[i] <= value
    <3> SUFFICES ASSUME NEW i \in 1..(n + 1) PROVE l.args <= s[i] /\ s[i] <= value
      OBVIOUS
    <3>1. CASE i = n + 1
      BY <1>1, <2>3, <2>7, <3>1
    <3>2. CASE i \in 1..n
      BY <2>3, <2>7, <3>2
    <3> QED BY <2>6, <3>1, <3>2
  <2>9. \A i, j \in 1..(n + 1) : i < j => s[i] <= s[j]
    <3> SUFFICES ASSUME NEW i \in 1..(n + 1), NEW j \in 1..(n + 1), i < j PROVE s[i] <= s[j]
      OBVIOUS
    <3>1. i \in 1..n
      OBVIOUS
    <3>2. CASE j = n + 1
      BY <2>3, <2>7, <3>1, <3>2
    <3>3. CASE j # n + 1
      <4>1. j \in 1..n
        BY <3>3
      <4> QED BY <2>3, <2>7, <3>1, <4>1
    <3> QED BY <3>2, <3>3
  <2>10. /\ m.args <= value /\ m.memory \in {NoValue, Halted, m.args}
         /\ ~(~m.firing \/ ~m.open \/ "once" \in m.flags) /\ m.alive = l.alive
    BY <1>4, <2>5, <2>7
  <2> QED BY <1>1, <2>3, <2>5, <2>7, <2>8, <2>9, <2>10 DEF NotOlder, ValueGood
<1>5. CASE l.open /\ ~l.firing /\ ~("once" \in l.flags /\ l.memory # NoValue)
  <2>1. m = StartFire(l, value, 0)
    BY <1>5, Zenon DEF FireWith
  <2>2. l.stack = <<>> /\ \A i \in 1..Len(l.stack) : FALSE
    BY <1>5 DEF ValueGood
  <2>3. l.args <= value /\ value <= value /\ 0 \in Int
    BY <1>1, <1>2 DEF ValueGood
  <2>4. ~l.alive => ~l.open
    BY <1>2 DEF ValueGood
  <2>5. /\ \A i \in 1..Len(l.stack) : value <= l.stack[i] /\ l.stack[i] <= value
        /\ \A i, j \in 1..Len(l.stack) : i < j => l.stack[i] <= l.stack[j]
    BY <2>2
  <2> QED BY <2>1, <2>2, <2>3, <2>4, <2>5, StartsNotOlder
<1> QED BY <1>3, <1>4, <1>5

\* m goes on where l is, or starts to fire.
Goes(l, m) ==
    \/ m.firing = l.firing /\ m.index = l.index
    \/ ~l.firing /\ m.firing /\ m.index >= 0

LEMMA AddNotOlder ==
    ASSUME NEW cb, NEW l \in ListOf(cb), NEW fn \in cb, NEW m, m = AddTo(l, fn)
    PROVE  /\ Goes(l, m)
           /\ \A o \in Int : ValueGood(l, o) => NotOlder(l, m, o)
<1>1. CASE ~l.alive
  <2>1. m = l
    BY <1>1, Zenon DEF AddTo
  <2> QED BY <2>1, SameNotOlder DEF Goes, ValueGood
<1>2. CASE l.alive
  <2>1. /\ l.list \in Seq(cb) /\ Append(l.list, fn) \in Seq(cb) /\ l.memory \in Int
        /\ Len(l.list) \in Nat /\ l.args \in Int
    BY AppendProperties DEF ListOf
  <2>2. PICK a : /\ a = l \/ a = [l EXCEPT !.list = Append(@, fn)]
                 /\ m = IF l.firing THEN [a EXCEPT !.length = Len(a.list)]
                        ELSE IF l.memory \in {NoValue, Halted} THEN a
                        ELSE StartFire(a, l.memory, Len(l.list))
    BY <1>2, AddIs
  <2>3. /\ a \in ListOf(cb) /\ a.alive = l.alive /\ a.firing = l.firing /\ a.index = l.index
        /\ a.stack = l.stack /\ a.args = l.args /\ a.memory = l.memory /\ a.open = l.open
        /\ a.flags = l.flags
    BY <2>1, <2>2 DEF ListOf
  <2>4. CASE l.firing \/ l.memory \in {NoValue, Halted}
    <3>1. PICK n : n = Len(a.list)
      OBVIOUS
    <3>2. m = a \/ m = [a EXCEPT !.length = n]
      BY <2>2, <2>4, <3>1
    <3>3. /\ m.alive = l.alive /\ m.firing = l.firing /\ m.index = l.index
          /\ m.stack = l.stack /\ m.args = l.args /\ m.memory = l.memory /\ m.open = l.open
          /\ m.flags = l.flags
      BY <2>3, <3>2 DEF ListOf
    <3>4. ASSUME NEW o \in Int, ValueGood(l, o) PROVE NotOlder(l, m, o)
      <4>1. ~m.alive => ~m.open
        BY <3>3, <3>4 DEF ValueGood
      <4> QED BY <3>3, <3>4, <4>1, SameNotOlder
    <3> QED BY <3>3, <3>4 DEF Goes
  <2>5. CASE ~l.firing /\ l.memory \notin {NoValue, Halted}
    <3>1. m = StartFire(a, l.memory, Len(l.list))
      BY <2>2, <2>5
    <3>2. m.firing /\ m.index = Len(l.list)
      <4>1. Len(l.list) \in Int
        BY <2>1
      <4> QED BY <2>1, <2>3, <3>1, <4>1, Starts
    <3>3. ASSUME NEW o \in Int, ValueGood(l, o) PROVE NotOlder(l, m, o)
      <4>1. /\ l.args <= o /\ l.memory = l.args /\ a.stack = <<>> /\ (~a.alive => ~a.open)
        BY <2>3, <2>5, <3>3 DEF ValueGood
      <4>2. /\ \A i \in 1..Len(a.stack) : l.memory <= a.stack[i] /\ a.stack[i] <= o
            /\ \A i, j \in 1..Len(a.stack) : i < j => a.stack[i] <= a.stack[j]
        BY <4>1
      <4>3. a.args <= l.memory /\ l.memory <= o /\ Len(l.list) \in Int
        BY <2>1, <2>3, <4>1
      <4>4. NotOlder(a, m, o)
        BY <2>1, <2>3, <3>1, <4>1, <4>2, <4>3, StartsNotOlder
      <4> QED BY <2>3, <4>4 DEF NotOlder
    <3>4. m.index >= 0
      BY <2>1, <3>2
    <3>5. Goes(l, m)
      BY <2>5, <3>2, <3>4 DEF Goes
    <3> QED BY <3>3, <3>5
  <2> QED BY <2>4, <2>5
<1> QED BY <1>1, <1>2 DEF ListOf

LEMMA CloseNotOlder ==
    ASSUME NEW cb, NEW l \in ListOf(cb), NEW m, m \in {Disable(l), Lock(l), Empty(l)}
    PROVE  /\ m \in ListOf(cb) /\ Goes(l, m) /\ m.firing = l.firing
           /\ (~l.alive => l.list = <<>>) => (~m.alive => m.list = <<>>)
           /\ \A o \in Int : ValueGood(l, o) => NotOlder(l, m, o)
<1>1. <<>> \in Seq(cb) /\ <<>> \in Seq(Int) /\ NoValue \in Int
  BY DEF NoValue
<1>2. \/ m = [l EXCEPT !.list = <<>>, !.alive = FALSE, !.stack = <<>>, !.open = FALSE,
                       !.memory = NoValue]
      \/ m = [l EXCEPT !.stack = <<>>, !.open = FALSE]
      \/ m = [l EXCEPT !.list = <<>>, !.alive = TRUE]
  BY Zenon DEF Lock, Disable, Empty
<1>3. /\ m \in ListOf(cb) /\ m.firing = l.firing /\ m.index = l.index /\ m.args = l.args
      /\ m.memory \in {NoValue, l.memory}
      /\ (~l.alive => l.list = <<>>) => (~m.alive => m.list = <<>>)
      /\ \/ m.stack = <<>> /\ ~m.open
         \/ /\ m.stack = l.stack /\ m.open = l.open /\ m.flags = l.flags /\ m.alive
  BY <1>1, <1>2 DEF ListOf
<1>4. ASSUME NEW o \in Int, ValueGood(l, o) PROVE NotOlder(l, m, o)
  <2>1. /\ m.memory \in {NoValue, Halted, l.memory} /\ (~m.alive => ~m.open)
        /\ \/ m.stack = <<>>
           \/ m.stack = l.stack /\ m.firing = l.firing /\ m.open = l.open /\ m.flags = l.flags
    BY <1>3
  <2> QED BY <1>3, <1>4, <2>1, SameNotOlder
<1> QED BY <1>3, <1>4 DEF Goes

LEMMA EndNotOlder ==
    ASSUME NEW cb, NEW l \in ListOf(cb), NEW m, m = EndFire(l)
    PROVE  /\ m.firing => m.index = 0
           /\ ~m.firing => m.index = l.index
           /\ \A o \in Int : ValueGood(l, o) => NotOlder(l, m, o)
<1>1. PICK quiet : quiet = [l EXCEPT !.firing = FALSE]
  OBVIOUS
<1>2. /\ quiet \in ListOf(cb) /\ quiet.list = l.list /\ quiet.alive = l.alive
      /\ ~quiet.firing /\ quiet.stack = l.stack /\ quiet.index = l.index /\ quiet.args = l.args
      /\ quiet.memory = l.memory /\ quiet.open = l.open /\ quiet.flags = l.flags
  BY <1>1 DEF ListOf
<1>3. /\ l.stack \in Seq(Int) /\ l.args \in Int /\ l.memory \in Int /\ <<>> \in Seq(cb)
      /\ <<>> \in Seq(Int)
  BY DEF ListOf
<1>4. \/ m = quiet /\ (~l.alive \/ l.stack = <<>>)
      \/ /\ "once" \notin l.flags /\ l.stack # <<>>
         /\ m = StartFire([quiet EXCEPT !.stack = Tail(@)], Head(l.stack), 0)
      \/ m = Disable(quiet)
      \/ "once" \in l.flags /\ m = [quiet EXCEPT !.list = <<>>]
  BY <1>1, Zenon DEF EndFire
<1>5. CASE \/ m = quiet /\ (~l.alive \/ l.stack = <<>>)
           \/ m = Disable(quiet)
           \/ "once" \in l.flags /\ m = [quiet EXCEPT !.list = <<>>]
  <2>1. /\ ~m.firing /\ m.index = l.index /\ m.args = l.args
        /\ m.memory \in {NoValue, Halted, l.memory}
        /\ \/ ~m.alive /\ ~m.open /\ m.stack = <<>>
           \/ /\ m.alive = l.alive /\ m.open = l.open /\ m.stack = l.stack
              /\ l.stack = <<>> \/ ~l.alive \/ "once" \in l.flags
    <3>1. CASE m = quiet /\ (~l.alive \/ l.stack = <<>>)
      BY <1>2, <3>1
    <3>2. CASE m = Disable(quiet)
      <4>1. m = [quiet EXCEPT !.list = <<>>, !.alive = FALSE, !.stack = <<>>, !.open = FALSE,
                              !.memory = NoValue]
        BY <3>2 DEF Disable
      <4> QED BY <1>2, <4>1 DEF ListOf
    <3>3. CASE "once" \in l.flags /\ m = [quiet EXCEPT !.list = <<>>]
      BY <1>2, <3>3 DEF ListOf
    <3> QED BY <1>5, <3>1, <3>2, <3>3
  <2>2. ASSUME NEW o \in Int, ValueGood(l, o) PROVE NotOlder(l, m, o)
    <3>1. /\ ~l.alive => ~l.open
          /\ ~l.open \/ "once" \in l.flags => l.stack = <<>>
      BY <2>2 DEF ValueGood
    <3>2. m.stack = <<>> /\ (~m.alive => ~m.open)
      BY <2>1, <3>1
    <3> QED BY <2>1, <2>2, <3>2, SameNotOlder
  <2> QED BY <2>1, <2>2
<1>6. CASE /\ "once" \notin l.flags /\ l.stack # <<>>
           /\ m = StartFire([quiet EXCEPT !.stack = Tail(@)], Head(l.stack), 0)
  <2>1. PICK n \in Nat, h \in Int, r \in Seq(Int) :
          n = Len(l.stack) /\ h = Head(l.stack) /\ r = Tail(l.stack)
    <3>1. Head(l.stack) \in Int /\ Tail(l.stack) \in Seq(Int) /\ Len(l.stack) \in Nat
      BY <1>3, <1>6, HeadTailProperties
    <3> QED BY <3>1
  <2>2. /\ h = l.stack[1] /\ Len(r) = n - 1 /\ 1 \in 1..n
        /\ \A i \in 1..(n - 1) : r[i] = l.stack[i + 1] /\ i + 1 \in 1..n /\ 1 < i + 1
    BY <1>3, <1>6, <2>1, HeadTailProperties
  <2>3. PICK q : q = [quiet EXCEPT !.stack = r]
    OBVIOUS
  <2>4. /\ q \in ListOf(cb) /\ q.alive = l.alive /\ q.args = l.args /\ q.stack = r
        /\ q.open = l.open /\ q.flags = l.flags
    BY <1>2, <2>1, <2>3 DEF ListOf
  <2>5. m = StartFire(q, h, 0) /\ 0 \in Int
    BY <1>2, <1>6, <2>1, <2>3
  <2>6. m.firing /\ m.index = 0
    BY <2>1, <2>4, <2>5, Starts
  <2>7. ASSUME NEW o \in Int, ValueGood(l, o) PROVE NotOlder(l, m, o)
    <3>1. /\ \A i \in 1..n : l.args <= l.stack[i] /\ l.stack[i] <= o
          /\ \A i, j \in 1..n : i < j => l.stack[i] <= l.stack[j]
          /\ ~l.open \/ "once" \in l.flags => l.stack = <<>>
          /\ ~l.alive => ~l.open
      BY <2>1, <2>7 DEF ValueGood
    <3>2. q.args <= h /\ h <= o
      BY <2>2, <2>4, <3>1
    <3>3. \A i \in 1..(n - 1) : h <= r[i] /\ r[i] <= o
      BY <2>2, <3>1
    <3>4. \A i, j \in 1..(n - 1) : i < j => r[i] <= r[j]
      <4> SUFFICES ASSUME NEW i \in 1..(n - 1), NEW j \in 1..(n - 1), i < j
                   PROVE  r[i] <= r[j]
        OBVIOUS
      <4>1. i + 1 \in 1..n /\ j + 1 \in 1..n /\ i + 1 < j + 1
        BY <2>2
      <4> QED BY <2>2, <3>1, <4>1
    <3>5. /\ \A i \in 1..Len(q.stack) : h <= q.stack[i] /\ q.stack[i] <= o
          /\ \A i, j \in 1..Len(q.stack) : i < j => q.stack[i] <= q.stack[j]
      BY <2>2, <2>4, <3>3, <3>4
    <3>6. ~q.open \/ "once" \in q.flags => q.stack = <<>>
      BY <1>6, <2>4, <3>1
    <3>7. ~q.alive => ~q.open
      BY <2>4, <3>1
    <3>8. NotOlder(q, m, o)
      BY <2>1, <2>4, <2>5, <3>2, <3>5, <3>6, <3>7, StartsNotOlder
    <3> QED BY <2>4, <3>8 DEF NotOlder
  <2> QED BY <2>6, <2>7
<1> QED BY <1>4, <1>5, <1>6

LEMMA AdvanceNotOlder ==
    ASSUME NEW cb, NEW l \in ListOf(cb)
    PROVE  /\ Advance(l).args = l.args
           /\ \A o \in Int : ValueGood(l, o) => NotOlder(l, Advance(l), o)
<1>1. PICK a, n : n = l.index + 1 /\ a = [l EXCEPT !.index = n]
  OBVIOUS
<1>2. Advance(l) = a
  BY <1>1 DEF Advance
<1>3. /\ a.alive = l.alive /\ a.firing = l.firing
      /\ a.stack = l.stack /\ a.args = l.args /\ a.memory = l.memory /\ a.open = l.open
      /\ a.flags = l.flags
  BY <1>1 DEF ListOf
<1>4. ASSUME NEW o \in Int, ValueGood(l, o) PROVE NotOlder(l, a, o)
  <2>1. ~a.alive => ~a.open
    BY <1>3, <1>4 DEF ValueGood
  <2> QED BY <1>3, <1>4, <2>1, SameNotOlder
<1> QED BY <1>2, <1>3, <1>4

LEMMA FireGoes ==
    ASSUME NEW cb, NEW l \in ListOf(cb), NEW value \in Int, NEW m, m = FireWith(l, value)
    PROVE  Goes(l, m)
<1>1. Restarts(l, m)
  BY FireFacts
<1>2. 0 >= 0
  OBVIOUS
<1> QED BY <1>1, <1>2 DEF Restarts, Goes

LEMMA HaltedNotOlder ==
    ASSUME NEW cb, NEW l \in ListOf(cb), NEW m, m = [l EXCEPT !.memory = Halted]
    PROVE  /\ m \in ListOf(cb) /\ m.index = l.index /\ m.firing = l.firing
           /\ m.alive = l.alive /\ m.list = l.list
           /\ \A o \in Int : ValueGood(l, o) => NotOlder(l, m, o)
<1>1. Halted \in Int
  BY DEF Halted
<1>2. /\ m \in ListOf(cb) /\ m.index = l.index /\ m.firing = l.firing
      /\ m.alive = l.alive /\ m.list = l.list /\ m.memory = Halted /\ m.args = l.args
      /\ m.stack = l.stack /\ m.open = l.open /\ m.flags = l.flags
  BY <1>1 DEF ListOf
<1>3. ASSUME NEW o \in Int, ValueGood(l, o) PROVE NotOlder(l, m, o)
  <2>1. ~m.alive => ~m.open
    BY <1>2, <1>3 DEF ValueGood
  <2> QED BY <1>2, <1>3, <2>1, SameNotOlder
<1> QED BY <1>2, <1>3

\* The index of a list goes down by the callbacks before it that are removed.
LEMMA RemoveNotOlder ==
    ASSUME NEW cb, NEW l \in ListOf(cb), l.index >= -1, NEW fn, NEW m, m = RemoveFrom(l, fn)
    PROVE  /\ m \in ListOf(cb) /\ m.firing = l.firing /\ m.alive = l.alive
           /\ m.index >= -1
           /\ ~l.firing => m.index = l.index
           /\ \A o \in Int : ValueGood(l, o) => NotOlder(l, m, o)
<1>1. l.list \in Seq(cb) /\ l.index \in Int /\ l.length \in Int
  BY DEF ListOf
<1>2. PICK n \in Nat, i \in Int, h \in Int : /\ n = Len(l.list) /\ DOMAIN l.list = 1..n
                                             /\ i = l.index /\ h = l.length
  <2>1. Len(l.list) \in Nat /\ DOMAIN l.list = 1..Len(l.list)
    BY <1>1, LenProperties
  <2> QED BY <1>1, <2>1
<1>3. PICK r : r = Without(l.list, fn) /\ r \in Seq(cb)
  <2>1. Without(l.list, fn) \in Seq(cb)
    BY <1>1, KeptTyped DEF Without
  <2> QED BY <2>1
<1>4. PICK g, c, e : /\ g = {x \in DOMAIN l.list : l.list[x] = fn}
                     /\ c = {x \in g : x - 1 <= h}
                     /\ e = {x \in c : x - 1 <= i}
  OBVIOUS
<1>5. PICK a, b : a = Cardinality(c) /\ b = Cardinality(e)
  OBVIOUS
<1>6. a \in Nat /\ b \in Nat /\ b <= i + 1
  <2>1. IsFiniteSet(1..n) /\ g \subseteq 1..n /\ c \subseteq 1..n /\ e \subseteq 1..n
    <3>1. IsFiniteSet(1..n)
      BY FS_Interval
    <3>2. g \subseteq 1..n
      BY <1>2, <1>4
    <3> QED BY <1>4, <3>1, <3>2
  <2>2. IsFiniteSet(c) /\ IsFiniteSet(e)
    BY <2>1, FS_Subset
  <2>3. a \in Nat /\ b \in Nat
    BY <1>5, <2>2, FS_CardinalityType
  <2>4. e \subseteq 1..(i + 1)
    <3>1. \A x \in e : x \in 1..n /\ x - 1 <= i
      BY <1>4, <2>1
    <3> QED BY <3>1
  <2>5. IsFiniteSet(1..(i + 1)) /\ Cardinality(1..(i + 1)) = i + 1
    <3>1. i + 1 >= 0 /\ i + 1 \in Int /\ 1 \in Int
      BY <1>2
    <3>2. Cardinality(1..(i + 1)) = IF 1 > i + 1 THEN 0 ELSE i + 1 - 1 + 1
      BY <3>1, FS_Interval
    <3>3. IsFiniteSet(1..(i + 1))
      BY <3>1, FS_Interval
    <3> QED BY <3>1, <3>2, <3>3
  <2>6. b <= Cardinality(1..(i + 1))
    BY <1>5, <2>4, <2>5, FS_Subset
  <2> QED BY <2>3, <2>5, <2>6
<1>7. PICK q : q = [l EXCEPT !.list = r]
  OBVIOUS
<1>8. /\ q \in ListOf(cb) /\ q.index = i /\ q.length = h /\ q.firing = l.firing
      /\ q.alive = l.alive /\ q.stack = l.stack /\ q.args = l.args /\ q.memory = l.memory
      /\ q.open = l.open /\ q.flags = l.flags
  BY <1>2, <1>3, <1>7 DEF ListOf
<1>9. \/ l.firing /\ m = [q EXCEPT !.length = h - a, !.index = i - b]
      \/ ~l.firing /\ m = q
  <2>1. \/ l.firing /\ m = [q EXCEPT !.length = q.length - Cardinality(c),
                                     !.index = q.index - Cardinality({x \in c : x - 1 <= q.index})]
        \/ ~l.firing /\ m = q
    <3>1. q = [l EXCEPT !.list = Kept(l.list, ToSet(l.list) \ {fn})]
      BY <1>3, <1>7 DEF Without
    <3>2. c = {x \in g : x - 1 <= l.length}
      BY <1>2, <1>4
    <3>3. g = {x \in DOMAIN l.list : l.list[x] = fn}
      BY <1>4
    <3> QED BY <3>1, <3>2, <3>3, Zenon DEF RemoveFrom
  <2>2. e = {x \in c : x - 1 <= q.index}
    BY <1>4, <1>8
  <2> QED BY <1>5, <1>8, <2>1, <2>2, Zenon
<1>10. h - a \in Int /\ i - b \in Int /\ i - b >= -1
  BY <1>6
<1>11. /\ m \in ListOf(cb) /\ m.index \in {i, i - b} /\ m.firing = l.firing
       /\ m.alive = l.alive /\ m.stack = l.stack /\ m.args = l.args /\ m.memory = l.memory
       /\ m.open = l.open /\ m.flags = l.flags /\ (~l.firing => m.index = i)
  BY <1>8, <1>9, <1>10 DEF ListOf
<1>12. ASSUME NEW o \in Int, ValueGood(l, o) PROVE NotOlder(l, m, o)
  <2>1. ~m.alive => ~m.open
    BY <1>11, <1>12 DEF ValueGood
  <2> QED BY <1>11, <1>12, <2>1, SameNotOlder
<1>13. m.index >= -1
  BY <1>2, <1>10, <1>11
<1> QED BY <1>2, <1>11, <1>12, <1>13

\* The part of the invariant of the values that is about one list, with the
\* value o of the latest call of a script.
ValuesFit(cb, l, r, id, cs, o) ==
    /\ l \in ListOf(cb) /\ r \in Seq([fn : cb, value : Int])
    /\ ~l.alive => l.list = <<>>
    /\ l.index >= -1
    /\ IsFiring(id, cs) => l.firing
    /\ IsFiring(id, cs) /\ ~InCall(id, cs) => l.index >= 0
    /\ id[1] # "w" => ValueGood(l, o) /\ (r # <<>> => Last(r).value <= l.args)

ValuesGood(s, ls, rs, cs, o) ==
    /\ Maps(ls, Layout(s)) /\ Maps(rs, Layout(s))
    /\ StackSound(cs, Layout(s))
    /\ \A id \in Layout(s) : ValuesFit(CallbacksFor(s, id), ls[id], rs[id], id, cs, o)

LEMMA LaterGood ==
    ASSUME NEW cb, NEW l \in ListOf(cb), NEW o \in Int, NEW p \in Int, o <= p, ValueGood(l, o)
    PROVE  ValueGood(l, p)
<1>1. l.args \in Int /\ l.stack \in Seq(Int)
  BY DEF ListOf
<1>2. \A i \in 1..Len(l.stack) : l.stack[i] \in Int
  BY <1>1
<1>3. \A i \in 1..Len(l.stack) : l.args <= l.stack[i] /\ l.stack[i] <= p
  BY <1>2 DEF ValueGood
<1> QED BY <1>1, <1>3 DEF ValueGood

LEMMA OneFits ==
    ASSUME NEW s, NEW ls, NEW rs, NEW cs, NEW o \in Int, ValuesGood(s, ls, rs, cs, o),
           NEW id \in Layout(s), NEW p \in Int, o <= p,
           NEW k, NEW l, Changes(ls, k, Layout(s), id, l),
           NEW q, NEW r, Changes(rs, q, Layout(s), id, r),
           NEW t, StackSound(t, Layout(s)), \A x \in Layout(s) : x # id => Same(x, cs, t),
           ValuesFit(CallbacksFor(s, id), l, r, id, t, p)
    PROVE  ValuesGood(s, k, q, t, p)
<1>1. ASSUME NEW x \in Layout(s), x # id
      PROVE  ValuesFit(CallbacksFor(s, x), k[x], q[x], x, t, p)
  <2>1. k[x] = ls[x] /\ q[x] = rs[x] /\ Same(x, cs, t)
    BY <1>1 DEF Changes
  <2>2. ValuesFit(CallbacksFor(s, x), ls[x], rs[x], x, cs, o)
    BY DEF ValuesGood
  <2>3. PICK cb, a, b : cb = CallbacksFor(s, x) /\ a = ls[x] /\ b = rs[x]
    OBVIOUS
  <2>4. a \in ListOf(cb) /\ (x[1] # "w" => ValueGood(a, o))
    BY <2>2, <2>3 DEF ValuesFit
  <2>5. x[1] # "w" => ValueGood(a, p)
    BY <2>4, LaterGood
  <2>6. ValuesFit(cb, a, b, x, t, p)
    BY <2>1, <2>2, <2>3, <2>5 DEF ValuesFit, Same
  <2> QED BY <2>1, <2>3, <2>6
<1>2. k[id] = l /\ q[id] = r /\ Maps(k, Layout(s)) /\ Maps(q, Layout(s))
  BY DEF Changes
<1>3. \A x \in Layout(s) : ValuesFit(CallbacksFor(s, x), k[x], q[x], x, t, p)
  BY <1>1, <1>2
<1> QED BY <1>2, <1>3 DEF ValuesGood

\* What a method of a list does to the values.
LEMMA OneGoes ==
    ASSUME NEW s, NEW ls, NEW rs, NEW cs, NEW o \in Int, ValuesGood(s, ls, rs, cs, o),
           NEW id \in Layout(s), NEW p \in Int, o <= p,
           NEW l, l = ls[id], NEW m \in ListOf(CallbacksFor(s, id)), Goes(l, m),
           ~m.alive => m.list = <<>>,
           id[1] # "w" => NotOlder(l, m, p),
           NEW k, k = [ls EXCEPT ![id] = m],
           NEW t, t = (IF m.firing /\ ~l.firing THEN Append(cs, id) ELSE cs)
    PROVE  ValuesGood(s, k, rs, t, p)
<1>1. PICK ids, cb, r : ids = Layout(s) /\ cb = CallbacksFor(s, id) /\ r = rs[id]
  OBVIOUS
<1>2. /\ User \notin ids /\ id \in ids /\ StackSound(cs, ids) /\ Maps(ls, ids) /\ Maps(rs, ids)
      /\ ValuesFit(cb, l, r, id, cs, o)
  BY <1>1, UserIsNoList DEF ValuesGood
<1>3. Changes(ls, k, ids, id, m) /\ Changes(rs, rs, ids, id, r)
  BY <1>1, <1>2, ExceptChanges, NoneChanges
<1>4. id[1] # "w" => ValueGood(m, p) /\ (r # <<>> => Last(r).value <= m.args)
  <2> SUFFICES ASSUME id[1] # "w" PROVE ValueGood(m, p) /\ (r # <<>> => Last(r).value <= m.args)
    OBVIOUS
  <2>1. ValueGood(m, p) /\ l.args <= m.args
    BY DEF NotOlder
  <2>2. ASSUME r # <<>> PROVE Last(r).value <= m.args
    <3>1. r \in Seq([fn : cb, value : Int]) /\ Last(r).value <= l.args
      BY <1>2, <2>2 DEF ValuesFit
    <3>2. Last(r) \in [fn : cb, value : Int]
      BY <2>2, <3>1, FrontGrows
    <3>3. PICK v \in Int : v = Last(r).value
      BY <3>2
    <3>4. l.args \in Int /\ m.args \in Int
      BY <1>1, <1>2 DEF ValuesFit, ListOf
    <3> QED BY <2>1, <3>1, <3>3, <3>4
  <2> QED BY <2>1, <2>2
<1>5. CASE m.firing /\ ~l.firing
  <2>1. t = Append(cs, id) /\ ~IsFiring(id, cs) /\ m.index >= 0
    BY <1>2, <1>5 DEF ValuesFit, Goes
  <2>2. /\ StackSound(t, ids) /\ \A x \in ids : x # id => Same(x, cs, t)
        /\ IsFiring(id, t) /\ ~InCall(id, t) /\ ~InCall(id, cs)
    BY <1>2, <2>1, StartsOnTop
  <2>3. m.index >= -1
    <3>1. m.index \in Int
      BY DEF ListOf
    <3> QED BY <2>1, <3>1
  <2>4. ValuesFit(cb, m, r, id, t, p)
    BY <1>1, <1>2, <1>4, <1>5, <2>1, <2>3 DEF ValuesFit
  <2> QED BY <1>1, <1>3, <2>2, <2>4, OneFits
<1>6. CASE ~(m.firing /\ ~l.firing)
  <2>1. t = cs /\ m.firing = l.firing /\ m.index = l.index
    BY <1>6 DEF Goes
  <2>2. \A x \in ids : Same(x, cs, t)
    BY <2>1 DEF Same
  <2>3. ValuesFit(cb, m, r, id, t, p)
    BY <1>1, <1>2, <1>4, <2>1 DEF ValuesFit
  <2> QED BY <1>1, <1>2, <1>3, <2>1, <2>2, <2>3, OneFits
<1> QED BY <1>5, <1>6

\* The inductive invariant of the values.
ValuesInv ==
    /\ ops \in Nat
    /\ ValuesGood(script, lists, ran, calls, ops)

LEMMA ValuesFacts ==
    ASSUME ValuesInv, NEW id \in DOMAIN lists
    PROVE  /\ id \in Layout(script) /\ User \notin Layout(script)
           /\ Maps(lists, Layout(script)) /\ Maps(ran, Layout(script))
           /\ StackSound(calls, Layout(script))
           /\ ValuesFit(CallbacksFor(script, id), lists[id], ran[id], id, calls, ops)
           /\ lists[id] \in ListOf(CallbacksFor(script, id))
<1>1. id \in Layout(script) /\ User \notin Layout(script)
  BY UserIsNoList DEF ValuesInv, ValuesGood, Maps
<1> QED BY <1>1 DEF ValuesInv, ValuesGood, ValuesFit

\* A script calls a method of a list.
LEMMA MethodFits ==
    ASSUME ValuesInv, NEW id \in DOMAIN lists, ops' = ops + 1, script' = script, ran' = ran,
           NEW l, l = lists[id], NEW m \in ListOf(CallbacksFor(script, id)), Goes(l, m),
           (~l.alive => l.list = <<>>) => (~m.alive => m.list = <<>>),
           \A o \in Int : ValueGood(l, o) /\ ops <= o /\ o = ops' => NotOlder(l, m, o),
           lists' = [lists EXCEPT ![id] = m],
           calls' = (IF m.firing /\ ~l.firing THEN Append(calls, id) ELSE calls)
    PROVE  ValuesInv'
<1>1. PICK s, ls, rs, cs, k, t : /\ s = script /\ ls = lists /\ rs = ran /\ cs = calls
                                 /\ k = lists' /\ t = calls'
  OBVIOUS
<1>2. PICK o \in Int, p \in Int : o = ops /\ p = ops' /\ o <= p /\ p \in Nat
  BY DEF ValuesInv
<1>3. /\ ValuesGood(s, ls, rs, cs, o) /\ id \in Layout(s) /\ l = ls[id]
      /\ m \in ListOf(CallbacksFor(s, id)) /\ k = [ls EXCEPT ![id] = m]
      /\ t = (IF m.firing /\ ~l.firing THEN Append(cs, id) ELSE cs)
  BY <1>1, <1>2, ValuesFacts DEF ValuesInv
<1>4. ValuesFit(CallbacksFor(s, id), l, rs[id], id, cs, o)
  BY <1>3 DEF ValuesGood
<1>5. ~m.alive => m.list = <<>>
  BY <1>4 DEF ValuesFit
<1>6. id[1] # "w" => NotOlder(l, m, p)
  <2>1. id[1] # "w" => ValueGood(l, p)
    BY <1>2, <1>4, LaterGood DEF ValuesFit
  <2> QED BY <1>2, <2>1
<1>7. ValuesGood(s, k, rs, t, p)
  BY <1>2, <1>3, <1>5, <1>6, OneGoes
<1> QED BY <1>1, <1>2, <1>7 DEF ValuesInv

LEMMA AddsFit ==
    ASSUME ValuesInv, NEW id \in DOMAIN lists, ScriptAdds(id)
    PROVE  ValuesInv'
<1>1. PICK n \in Nat :
        LET fn == Script(n)
            l == AddTo(lists[id], fn)
        IN  /\ lists' = [lists EXCEPT ![id] = l]
            /\ calls' = IF l.firing /\ ~lists[id].firing THEN Append(calls, id) ELSE calls
  <2>1. ops' \in Nat
    BY DEF ScriptAdds, Count, ValuesInv
  <2>2. \A n : n \in (IF script = "list" THEN 1..ops' ELSE {ops'}) => n \in Nat
    BY <2>1
  <2> QED BY <2>2, Zenon DEF ScriptAdds
<1>2. PICK l, fn, m : l = lists[id] /\ fn = Script(n) /\ m = AddTo(l, fn)
  OBVIOUS
<1>3. /\ lists' = [lists EXCEPT ![id] = m]
      /\ calls' = (IF m.firing /\ ~l.firing THEN Append(calls, id) ELSE calls)
  BY <1>1, <1>2, Zenon
<1>4. fn \in CallbacksFor(script, id) /\ l \in ListOf(CallbacksFor(script, id))
  BY <1>2, ValuesFacts DEF Script, CallbacksFor
<1>5. m \in ListOf(CallbacksFor(script, id)) /\ (~l.alive => m = l) /\ m.alive = l.alive
  BY <1>2, <1>4, AddToFacts
<1>6. /\ Goes(l, m)
      /\ \A o \in Int : ValueGood(l, o) => NotOlder(l, m, o)
  BY <1>2, <1>4, AddNotOlder
<1>7. (~l.alive => l.list = <<>>) => (~m.alive => m.list = <<>>)
  BY <1>5
<1>8. ops' = ops + 1 /\ script' = script /\ ran' = ran
  BY DEF ScriptAdds, Count
<1> QED BY <1>2, <1>3, <1>5, <1>6, <1>7, <1>8, MethodFits

LEMMA FiresFit ==
    ASSUME ValuesInv, NEW id \in DOMAIN lists, ScriptFires(id)
    PROVE  ValuesInv'
<1>1. PICK l, m, p : l = lists[id] /\ p = ops' /\ m = FireWith(l, p)
  OBVIOUS
<1>2. p \in Int /\ ops \in Int /\ ops' = ops + 1 /\ script' = script /\ ran' = ran
  BY <1>1 DEF ScriptFires, Count, ValuesInv
<1>3. l \in ListOf(CallbacksFor(script, id))
  BY <1>1, ValuesFacts
<1>4. m \in ListOf(CallbacksFor(script, id)) /\ Restarts(l, m) /\ Goes(l, m)
  BY <1>1, <1>2, <1>3, FireFacts, FireGoes
<1>5. ValueGood(l, p) => NotOlder(l, m, p)
  BY <1>1, <1>2, <1>3, FireNotOlder
<1>6. Put(id, m, calls)
  BY <1>1, Zenon DEF ScriptFires
<1>7. /\ lists' = [lists EXCEPT ![id] = m]
      /\ calls' = (IF m.firing /\ ~l.firing THEN Append(calls, id) ELSE calls)
  BY <1>1, <1>6 DEF Put
<1>8. \A o \in Int : ValueGood(l, o) /\ ops <= o /\ o = ops' => NotOlder(l, m, o)
  BY <1>1, <1>5
<1>9. (~l.alive => l.list = <<>>) => (~m.alive => m.list = <<>>)
  BY <1>4 DEF Restarts
<1> QED BY <1>1, <1>2, <1>4, <1>7, <1>8, <1>9, MethodFits

LEMMA EmptiesFit ==
    ASSUME ValuesInv, NEW id \in DOMAIN lists, ScriptEmpties(id)
    PROVE  ValuesInv'
<1>1. PICK l, m : l = lists[id] /\ m = Empty(l)
  OBVIOUS
<1>2. l \in ListOf(CallbacksFor(script, id))
  BY <1>1, ValuesFacts
<1>3. /\ m \in ListOf(CallbacksFor(script, id)) /\ Goes(l, m) /\ m.firing = l.firing
      /\ (~l.alive => l.list = <<>>) => (~m.alive => m.list = <<>>)
      /\ \A o \in Int : ValueGood(l, o) => NotOlder(l, m, o)
  BY <1>1, <1>2, CloseNotOlder
<1>4. /\ lists' = [lists EXCEPT ![id] = m] /\ calls' = calls
      /\ ops' = ops + 1 /\ script' = script /\ ran' = ran
  BY <1>1 DEF ScriptEmpties, Count
<1> QED BY <1>1, <1>3, <1>4, MethodFits

LEMMA ClosesFit ==
    ASSUME ValuesInv, NEW id \in DOMAIN lists, ScriptCloses(id)
    PROVE  ValuesInv'
<1>1. PICK l : l = lists[id]
  OBVIOUS
<1>2. PICK m \in {Disable(l), Lock(l)} : lists' = [lists EXCEPT ![id] = m]
  BY <1>1, Zenon DEF ScriptCloses
<1>3. l \in ListOf(CallbacksFor(script, id))
  BY <1>1, ValuesFacts
<1>4. /\ m \in ListOf(CallbacksFor(script, id)) /\ Goes(l, m) /\ m.firing = l.firing
      /\ (~l.alive => l.list = <<>>) => (~m.alive => m.list = <<>>)
      /\ \A o \in Int : ValueGood(l, o) => NotOlder(l, m, o)
  BY <1>2, <1>3, CloseNotOlder
<1>5. calls' = calls /\ ops' = ops + 1 /\ script' = script /\ ran' = ran
  BY DEF ScriptCloses, Count
<1> QED BY <1>1, <1>2, <1>4, <1>5, MethodFits

\* Only a script with one list removes: it is in call if it is on the stack.
LEMMA RemovesFit ==
    ASSUME ValuesInv, NEW id \in DOMAIN lists, ScriptRemoves(id)
    PROVE  ValuesInv'
<1>1. PICK s, ls, rs, cs, k, t, l, r : /\ s = script /\ ls = lists /\ rs = ran /\ cs = calls
                                       /\ k = lists' /\ t = calls' /\ l = ls[id] /\ r = rs[id]
  OBVIOUS
<1>2. PICK o \in Int, p \in Int : o = ops /\ p = ops' /\ o <= p /\ p \in Nat
  BY DEF ValuesInv, ScriptRemoves, Count
<1>3. PICK fn, m : /\ fn \in ToSet(l.list) /\ m = RemoveFrom(l, fn) /\ k = [ls EXCEPT ![id] = m]
  BY <1>1 DEF ScriptRemoves
<1>4. s = "list" /\ t = cs /\ script' = s /\ ran' = rs /\ (cs # <<>> => Last(cs) = User)
  BY <1>1 DEF ScriptRemoves, Count, ScriptRuns
<1>5. PICK ids, cb : ids = Layout(s) /\ cb = CallbacksFor(s, id)
  OBVIOUS
<1>6. /\ id \in ids /\ User \notin ids /\ Maps(ls, ids) /\ Maps(rs, ids) /\ StackSound(cs, ids)
      /\ ValuesFit(cb, l, r, id, cs, o)
  BY <1>1, <1>2, <1>5, ValuesFacts
<1>7. /\ m \in ListOf(cb) /\ m.firing = l.firing /\ m.alive = l.alive
      /\ m.index >= -1
      /\ \A x \in Int : ValueGood(l, x) => NotOlder(l, m, x)
  BY <1>3, <1>6, RemoveNotOlder DEF ValuesFit
<1>8. l.alive
  <2>1. l.list \in Seq(cb)
    BY <1>6 DEF ValuesFit, ListOf
  <2>2. l.list # <<>>
    BY <1>3, <2>1 DEF ToSet
  <2> QED BY <1>6, <2>2 DEF ValuesFit
<1>9. IsFiring(id, cs) => InCall(id, cs)
  <2> SUFFICES ASSUME IsFiring(id, cs) PROVE InCall(id, cs)
    OBVIOUS
  <2>1. cs # <<>>
    BY <1>6 DEF IsFiring, StackSound
  <2>2. Last(cs) = User
    BY <1>4, <2>1
  <2>3. InCall(cs[Len(cs) - 1], cs) /\ cs[Len(cs) - 1] \in ids
    BY <1>6, <2>1, <2>2, ScriptOnTop
  <2>4. ids = {<<"list", "fire">>}
    BY <1>4, <1>5, Zenon DEF Layout
  <2> QED BY <1>6, <2>3, <2>4, Zenon
<1>10. id[1] # "w" => ValueGood(m, p) /\ (r # <<>> => Last(r).value <= m.args)
  <2>1. id[1] # "w" => ValueGood(l, o) /\ (r # <<>> => Last(r).value <= l.args)
    BY <1>6 DEF ValuesFit
  <2>2. id[1] # "w" => NotOlder(l, m, p)
    BY <1>2, <1>6, <1>7, <2>1, LaterGood DEF ValuesFit
  <2>3. l \in ListOf(cb) /\ r \in Seq([fn : cb, value : Int])
    BY <1>6 DEF ValuesFit
  <2>4. l.args \in Int /\ m.args \in Int
    BY <1>7, <2>3 DEF ListOf
  <2>5. r # <<>> => Last(r) \in [fn : cb, value : Int]
    BY <2>3, FrontGrows
  <2>6. PICK v : v = Last(r).value
    OBVIOUS
  <2>7. r # <<>> => v \in Int
    BY <2>5, <2>6
  <2> QED BY <2>1, <2>2, <2>4, <2>6, <2>7 DEF NotOlder
<1>11. ValuesFit(cb, m, r, id, t, p)
  BY <1>4, <1>6, <1>7, <1>8, <1>9, <1>10 DEF ValuesFit
<1>12. Changes(ls, k, ids, id, m) /\ Changes(rs, rs, ids, id, r)
  BY <1>1, <1>3, <1>6, ExceptChanges, NoneChanges
<1>13. StackSound(t, ids) /\ \A x \in ids : Same(x, cs, t)
  BY <1>4, <1>6 DEF Same
<1>14. ValuesGood(s, ls, rs, cs, o)
  BY <1>1, <1>2 DEF ValuesInv
<1>15. ValuesGood(s, k, rs, t, p)
  BY <1>2, <1>5, <1>6, <1>11, <1>12, <1>13, <1>14, OneFits
<1> QED BY <1>1, <1>2, <1>4, <1>15 DEF ValuesInv

LEMMA LastRun ==
    ASSUME NEW S, NEW r \in Seq(S), NEW a \in S, NEW q, q = Append(r, a)
    PROVE  q \in Seq(S) /\ q # <<>> /\ Last(q) = a
<1>1. PICK n \in Nat : n = Len(r)
  OBVIOUS
<1>2. q \in Seq(S) /\ Len(q) = n + 1 /\ q[n + 1] = a
  BY <1>1, AppendProperties
<1>3. q # <<>>
  BY <1>2, EmptySeq
<1> QED BY <1>2, <1>3 DEF Last

\* Nothing is on the stack any more.
LEMMA AllLeft ==
    ASSUME ValuesInv, calls' = <<>>, UNCHANGED <<script, lists, ops, ran>>
    PROVE  ValuesInv'
<1>1. PICK ids, t : ids = Layout(script) /\ t = calls' /\ t = <<>>
  OBVIOUS
<1>2. StackSound(t, ids) /\ \A id \in ids : ~IsFiring(id, t)
  BY <1>1 DEF StackSound, IsFiring
<1>3. ASSUME NEW id \in ids
      PROVE  ValuesFit(CallbacksFor(script, id), lists[id], ran[id], id, t, ops)
  BY <1>1, <1>2 DEF ValuesInv, ValuesGood, ValuesFit
<1>4. ValuesGood(script, lists, ran, t, ops)
  BY <1>1, <1>2, <1>3 DEF ValuesInv, ValuesGood
<1> QED BY <1>1, <1>4 DEF ValuesInv

\* The list on top of the stack, and what it calls next.
LEMMA NextCall ==
    ASSUME ValuesInv, NEW id \in DOMAIN lists, calls # <<>>, Last(calls) = id
    PROVE  /\ IsFiring(id, calls) /\ ~InCall(id, calls) /\ lists[id].firing
           /\ lists[id].index >= 0 /\ lists[id].index \in Int
           /\ lists[id].index < Len(lists[id].list) =>
                lists[id].list[lists[id].index + 1] \in CallbacksFor(script, id)
<1>1. PICK cb, l, r : cb = CallbacksFor(script, id) /\ l = lists[id] /\ r = ran[id]
  OBVIOUS
<1>2. IsFiring(id, calls) /\ ~InCall(id, calls)
  BY ValuesFacts, ListOnTop
<1>3. ValuesFit(cb, l, r, id, calls, ops)
  BY <1>1, ValuesFacts
<1>4. l.firing /\ l.index >= 0 /\ l.index \in Int /\ l.list \in Seq(cb)
  BY <1>2, <1>3 DEF ValuesFit, ListOf
<1>5. ASSUME l.index < Len(l.list) PROVE l.list[l.index + 1] \in cb
  <2>1. PICK i \in Int : i = l.index + 1
    BY <1>4
  <2>2. i \in 1..Len(l.list)
    BY <1>4, <1>5, <2>1
  <2>3. l.list[i] \in cb
    BY <1>4, <2>2, ElementOfSeq
  <2> QED BY <2>1, <2>3
<1> QED BY <1>1, <1>2, <1>4, <1>5

LEMMA CallScriptFits ==
    ASSUME ValuesInv, NEW id \in DOMAIN lists, CallScript(id)
    PROVE  ValuesInv'
<1>1. calls # <<>> /\ Last(calls) = id /\ UNCHANGED <<script, lists, ops>>
  BY DEF CallScript
<1>2. CASE ~(lists[id].index < Len(lists[id].list))
  <2>1. calls' = <<>> /\ ran' = ran
    BY <1>2 DEF CallScript
  <2> QED BY <1>1, <2>1, AllLeft
<1>3. CASE lists[id].index < Len(lists[id].list)
  <2>1. PICK fn, run, r, l : /\ fn = lists[id].list[lists[id].index + 1] /\ l = lists[id]
                             /\ run = [fn |-> fn, value |-> l.args] /\ r = Append(ran[id], run)
    OBVIOUS
  <2>2. calls' = Append(calls, User) /\ ran' = [ran EXCEPT ![id] = r]
    BY <1>3, <2>1 DEF CallScript
  <2>3. PICK s, ls, rs, cs, q, t : /\ s = script /\ ls = lists /\ rs = ran /\ cs = calls
                                   /\ q = ran' /\ t = calls'
    OBVIOUS
  <2>4. PICK ids, cb, o : ids = Layout(s) /\ cb = CallbacksFor(s, id) /\ o = ops /\ o \in Int
    BY DEF ValuesInv
  <2>5. /\ id \in ids /\ User \notin ids /\ Maps(ls, ids) /\ Maps(rs, ids) /\ StackSound(cs, ids)
        /\ ValuesFit(cb, l, rs[id], id, cs, o) /\ cs # <<>> /\ Last(cs) = id
        /\ l \in ListOf(cb)
    BY <1>1, <2>1, <2>3, <2>4, ValuesFacts
  <2>6. fn \in cb /\ l.firing
    BY <1>1, <1>3, <2>1, <2>3, <2>4, NextCall
  <2>7. /\ StackSound(t, ids)
        /\ \A x \in ids : IsFiring(x, t) <=> IsFiring(x, cs)
        /\ \A x \in ids : InCall(x, t) <=> InCall(x, cs) \/ x = Last(cs)
    BY <2>2, <2>3, <2>5, CallStarts
  <2>8. \A x \in ids : x # id => Same(x, cs, t)
    BY <2>5, <2>7 DEF Same
  <2>9. r \in Seq([fn : cb, value : Int]) /\ Last(r).value = l.args
    <3>1. l.args \in Int
      BY <2>5 DEF ListOf
    <3>2. run \in [fn : cb, value : Int] /\ run.value = l.args
      BY <2>1, <2>6, <3>1
    <3>3. rs[id] \in Seq([fn : cb, value : Int])
      BY <2>5 DEF ValuesFit
    <3>4. r = Append(rs[id], run)
      BY <2>1, <2>3
    <3>5. r \in Seq([fn : cb, value : Int]) /\ Last(r) = run
      <4>1. PICK S, p : S = [fn : cb, value : Int] /\ p = rs[id]
        OBVIOUS
      <4>2. run \in S /\ p \in Seq(S) /\ r = Append(p, run)
        BY <3>2, <3>3, <3>4, <4>1
      <4>3. r \in Seq(S) /\ Last(r) = run
        BY <4>2, LastRun
      <4> QED BY <4>1, <4>3
    <3> QED BY <3>2, <3>5
  <2>10. InCall(id, t) /\ (IsFiring(id, t) <=> IsFiring(id, cs))
    BY <2>5, <2>7
  <2>11. ValuesFit(cb, l, r, id, t, o)
    <3>1. l.args \in Int
      BY <2>5 DEF ListOf
    <3>2. Last(r).value <= l.args
      <4>1. PICK a \in Int : a = l.args
        BY <3>1
      <4>2. a <= a
        OBVIOUS
      <4> QED BY <2>9, <4>1, <4>2
    <3> QED BY <2>5, <2>9, <2>10, <3>2 DEF ValuesFit
  <2>12. Changes(ls, ls, ids, id, l) /\ Changes(rs, q, ids, id, r)
    BY <2>1, <2>2, <2>3, <2>5, ExceptChanges, NoneChanges
  <2>13. ValuesGood(s, ls, rs, cs, o)
    BY <2>3, <2>4 DEF ValuesInv
  <2>14. ValuesGood(s, ls, q, t, o)
    <3>1. o <= o /\ o \in Int
      BY <2>4
    <3> QED BY <2>4, <2>5, <2>7, <2>8, <2>11, <2>12, <2>13, <3>1, OneFits
  <2> QED BY <1>1, <2>3, <2>4, <2>14 DEF ValuesInv
<1> QED BY <1>2, <1>3

\* The loop of a list ends; cs is the stack with the list on top.
LEMMA EndFits ==
    ASSUME NEW s, NEW ls, NEW rs, NEW cs, NEW o \in Int, ValuesGood(s, ls, rs, cs, o),
           NEW id \in Layout(s), cs # <<>>, Last(cs) = id,
           NEW l \in ListOf(CallbacksFor(s, id)), ~l.alive => l.list = <<>>, l.index >= -1,
           id[1] # "w" => NotOlder(ls[id], l, o),
           NEW m, m = EndFire(l),
           NEW k, Changes(ls, k, Layout(s), id, m),
           NEW t, t = (IF m.firing THEN cs ELSE Front(cs))
    PROVE  ValuesGood(s, k, rs, t, o)
<1>1. PICK ids, cb, r, low : ids = Layout(s) /\ cb = CallbacksFor(s, id) /\ r = rs[id] /\ low = Front(cs)
  OBVIOUS
<1>2. /\ User \notin ids /\ id \in ids /\ StackSound(cs, ids) /\ Maps(ls, ids) /\ Maps(rs, ids)
      /\ ValuesFit(cb, ls[id], r, id, cs, o) /\ l \in ListOf(cb)
  BY <1>1, UserIsNoList DEF ValuesGood
<1>3. /\ m \in ListOf(cb)
      /\ ~m.alive => m.list = <<>>
      /\ m.firing => m.index = 0
      /\ ~m.firing => m.index = l.index
      /\ \A x \in Int : ValueGood(l, x) => NotOlder(l, m, x)
  BY <1>2, EndFacts, EndNotOlder
<1>4. /\ IsFiring(id, cs) /\ ~InCall(id, cs)
      /\ \A x \in ids : IsFiring(x, low) <=> IsFiring(x, cs) /\ x # id
      /\ \A x \in ids : InCall(x, low) <=> InCall(x, cs)
      /\ StackSound(low, ids)
  BY <1>1, <1>2, ListOnTop, UnderTop
<1>5. id[1] # "w" => ValueGood(m, o) /\ (r # <<>> => Last(r).value <= m.args)
  <2> SUFFICES ASSUME id[1] # "w" PROVE ValueGood(m, o) /\ (r # <<>> => Last(r).value <= m.args)
    OBVIOUS
  <2>1. ValueGood(l, o) /\ ls[id].args <= l.args
    BY DEF NotOlder
  <2>2. ValueGood(m, o) /\ l.args <= m.args
    BY <1>3, <2>1 DEF NotOlder
  <2>3. ASSUME r # <<>> PROVE Last(r).value <= m.args
    <3>1. r \in Seq([fn : cb, value : Int]) /\ Last(r).value <= ls[id].args
      BY <1>2, <2>3 DEF ValuesFit
    <3>2. Last(r) \in [fn : cb, value : Int]
      BY <2>3, <3>1, FrontGrows
    <3>3. PICK v \in Int : v = Last(r).value
      BY <3>2
    <3>4. PICK a, b, c : a = ls[id].args /\ b = l.args /\ c = m.args
      OBVIOUS
    <3>5. a \in Int /\ b \in Int /\ c \in Int
      <4>1. ls[id] \in ListOf(cb)
        BY <1>2 DEF ValuesFit
      <4> QED BY <1>2, <1>3, <3>4, <4>1 DEF ListOf
    <3>6. v <= a /\ a <= b /\ b <= c
      BY <2>1, <2>2, <3>1, <3>3, <3>4
    <3>7. v <= c
      BY <3>5, <3>6
    <3> QED BY <3>3, <3>4, <3>7
  <2> QED BY <2>2, <2>3
<1>6. Changes(rs, rs, ids, id, r) /\ o <= o
  BY <1>1, <1>2, NoneChanges
<1>7. r \in Seq([fn : cb, value : Int])
  BY <1>2 DEF ValuesFit
<1>8. CASE m.firing
  <2>1. t = cs /\ m.index = 0
    BY <1>3, <1>8
  <2>2. \A x \in ids : Same(x, cs, t)
    BY <2>1 DEF Same
  <2>3. m.index >= 0 /\ m.index >= -1
    BY <2>1
  <2>4. ValuesFit(cb, m, r, id, t, o)
    BY <1>3, <1>5, <1>7, <1>8, <2>3 DEF ValuesFit
  <2> QED BY <1>1, <1>2, <1>6, <2>1, <2>2, <2>4, OneFits
<1>9. CASE ~m.firing
  <2>1. t = low /\ m.index = l.index
    BY <1>1, <1>3, <1>9
  <2>2. \A x \in ids : x # id => Same(x, cs, t)
    BY <1>4, <2>1 DEF Same
  <2>3. ~IsFiring(id, t)
    BY <1>2, <1>4, <2>1
  <2>4. ValuesFit(cb, m, r, id, t, o)
    BY <1>3, <1>5, <1>7, <2>1, <2>3 DEF ValuesFit
  <2>5. StackSound(t, ids)
    BY <1>4, <2>1
  <2> QED BY <1>1, <1>2, <1>6, <2>2, <2>4, <2>5, OneFits
<1> QED BY <1>8, <1>9

LEMMA EndLoopFits ==
    ASSUME ValuesInv, NEW id \in DOMAIN lists, EndLoop(id)
    PROVE  ValuesInv'
<1>1. PICK s, ls, rs, cs, k, t, l, m : /\ s = script /\ ls = lists /\ rs = ran /\ cs = calls
                                       /\ k = lists' /\ t = calls' /\ l = ls[id] /\ m = EndFire(l)
  OBVIOUS
<1>2. PICK o \in Int : o = ops
  BY DEF ValuesInv
<1>3. /\ cs # <<>> /\ Last(cs) = id /\ script' = s /\ ops' = o /\ ran' = rs
      /\ k = [ls EXCEPT ![id] = m] /\ t = (IF k[id].firing THEN cs ELSE Front(cs))
  BY <1>1, <1>2 DEF EndLoop
<1>4. PICK ids, cb : ids = Layout(s) /\ cb = CallbacksFor(s, id)
  OBVIOUS
<1>5. /\ id \in ids /\ Maps(ls, ids) /\ ValuesFit(cb, l, rs[id], id, cs, o)
      /\ ValuesGood(s, ls, rs, cs, o)
  BY <1>1, <1>2, <1>4, ValuesFacts DEF ValuesInv
<1>6. Changes(ls, k, ids, id, m)
  BY <1>3, <1>5, ExceptChanges
<1>7. t = (IF m.firing THEN cs ELSE Front(cs))
  BY <1>3, <1>6 DEF Changes
<1>8. l \in ListOf(cb) /\ (~l.alive => l.list = <<>>) /\ l.index >= -1
  BY <1>5 DEF ValuesFit
<1>9. id[1] # "w" => NotOlder(ls[id], l, o)
  <2>1. l.args \in Int
    BY <1>8 DEF ListOf
  <2>2. PICK a \in Int : a = l.args
    BY <2>1
  <2>3. a <= a
    OBVIOUS
  <2> QED BY <1>1, <1>5, <2>2, <2>3 DEF ValuesFit, NotOlder
<1>10. ValuesGood(s, k, rs, t, o)
  BY <1>1, <1>3, <1>4, <1>5, <1>6, <1>7, <1>8, <1>9, EndFits
<1> QED BY <1>1, <1>2, <1>3, <1>10 DEF ValuesInv

\* The loop of a list goes on: behind a function of a script, or behind a
\* callback of Deferred or when.
LEMMA AdvanceFits ==
    ASSUME ValuesInv, NEW id \in DOMAIN lists, NEW k, k = [lists EXCEPT ![id] = Advance(@)],
           NEW t,
           \/ t = calls /\ calls # <<>> /\ Last(calls) = id
           \/ t = Front(calls) /\ calls # <<>> /\ Last(calls) = User /\ id = calls[Len(calls) - 1]
    PROVE  ValuesGood(script, k, ran, t, ops)
<1>1. PICK s, ls, rs, cs, l, m : /\ s = script /\ ls = lists /\ rs = ran /\ cs = calls
                                 /\ l = ls[id] /\ m = Advance(l)
  OBVIOUS
<1>2. PICK o \in Int : o = ops
  BY DEF ValuesInv
<1>3. PICK ids, cb, r : ids = Layout(s) /\ cb = CallbacksFor(s, id) /\ r = rs[id]
  OBVIOUS
<1>4. /\ id \in ids /\ User \notin ids /\ Maps(ls, ids) /\ Maps(rs, ids) /\ StackSound(cs, ids)
      /\ ValuesFit(cb, l, r, id, cs, o)
      /\ ValuesGood(s, ls, rs, cs, o)
  BY <1>1, <1>2, <1>3, ValuesFacts DEF ValuesInv
<1>5. l \in ListOf(cb) /\ r \in Seq([fn : cb, value : Int])
  BY <1>4 DEF ValuesFit
<1>6. /\ m \in ListOf(cb) /\ m.index = l.index + 1 /\ m.list = l.list /\ m.alive = l.alive
      /\ m.firing = l.firing /\ m.args = l.args
      /\ \A x \in Int : ValueGood(l, x) => NotOlder(l, m, x)
  BY <1>1, <1>5, AdvanceFacts, AdvanceNotOlder
<1>7. /\ StackSound(t, ids) /\ \A x \in ids : x # id => Same(x, cs, t)
      /\ IsFiring(id, t) => IsFiring(id, cs)
  <2>1. CASE t = calls
    BY <1>1, <1>4, <2>1 DEF Same
  <2>2. CASE t = Front(cs) /\ cs # <<>> /\ Last(cs) = User /\ id = cs[Len(cs) - 1]
    <3>1. /\ \A x \in ids : IsFiring(x, t) <=> IsFiring(x, cs)
          /\ \A x \in ids : InCall(x, t) <=> InCall(x, cs) /\ x # id
      BY <1>4, <2>2, ScriptOnTop
    <3>2. StackSound(t, ids)
      BY <1>4, <2>2, UnderTop
    <3> QED BY <1>4, <3>1, <3>2 DEF Same
  <2> QED BY <1>1, <2>1, <2>2
<1>8. m.index >= -1 /\ m.index >= 0
  <2>1. l.index >= -1 /\ l.index \in Int
    BY <1>4, <1>5 DEF ValuesFit, ListOf
  <2>2. PICK i \in Int : i = l.index /\ i >= -1
    BY <2>1
  <2>3. i + 1 >= 0 /\ i + 1 >= -1
    BY <2>2
  <2> QED BY <1>6, <2>2, <2>3
<1>9. id[1] # "w" => ValueGood(m, o) /\ (r # <<>> => Last(r).value <= m.args)
  BY <1>4, <1>6 DEF ValuesFit, NotOlder
<1>10. ValuesFit(cb, m, r, id, t, o)
  BY <1>4, <1>5, <1>6, <1>7, <1>8, <1>9 DEF ValuesFit
<1>11. Changes(ls, k, ids, id, m) /\ Changes(rs, rs, ids, id, r)
  BY <1>1, <1>3, <1>4, ExceptChanges, NoneChanges
<1>12. ValuesGood(s, k, rs, t, o)
  <2>1. o <= o
    OBVIOUS
  <2> QED BY <1>3, <1>4, <1>7, <1>10, <1>11, <2>1, OneFits
<1> QED BY <1>1, <1>2, <1>12

LEMMA ReturnFits ==
    ASSUME ValuesInv, Return
    PROVE  ValuesInv'
<1>1. PICK id, k, cs : /\ id = calls[Len(calls) - 1] /\ k = [lists EXCEPT ![id] = Advance(@)]
                       /\ cs = Front(calls)
  OBVIOUS
<1>2. calls # <<>> /\ Last(calls) = User /\ script' = script /\ ops' = ops /\ ran' = ran
  BY DEF Return
<1>3. PICK ids : ids = Layout(script)
  OBVIOUS
<1>4. /\ id \in DOMAIN lists /\ id \in ids /\ cs # <<>> /\ Last(cs) = id
  <2>1. User \notin ids /\ StackSound(calls, ids) /\ Maps(lists, ids)
    BY <1>3, UserIsNoList DEF ValuesInv, ValuesGood
  <2>2. id \in ids /\ cs # <<>> /\ Last(cs) = id
    BY <1>1, <1>2, <2>1, ScriptOnTop
  <2> QED BY <2>1, <2>2 DEF Maps
<1>5. ValuesGood(script, k, ran, cs, ops)
  BY <1>1, <1>2, <1>4, AdvanceFits
<1>6. \/ lists' = k /\ calls' = cs
      \/ /\ lists' = [lists EXCEPT ![id] = EndFire([lists[id] EXCEPT !.memory = Halted])]
         /\ calls' = IF lists'[id].firing THEN cs ELSE Front(cs)
  BY <1>1, Zenon DEF Return
<1>7. CASE lists' = k /\ calls' = cs
  BY <1>2, <1>5, <1>7 DEF ValuesInv
<1>8. CASE /\ lists' = [lists EXCEPT ![id] = EndFire([lists[id] EXCEPT !.memory = Halted])]
           /\ calls' = IF lists'[id].firing THEN cs ELSE Front(cs)
  <2>1. PICK s, rs, n, t, old, l, m, cb :
          /\ s = script /\ rs = ran /\ n = lists' /\ t = calls' /\ old = lists[id]
          /\ l = [old EXCEPT !.memory = Halted] /\ m = EndFire(l) /\ cb = CallbacksFor(s, id)
    OBVIOUS
  <2>2. PICK o \in Int : o = ops
    BY DEF ValuesInv
  <2>3. /\ Maps(lists, ids) /\ ValuesFit(cb, old, rs[id], id, calls, o) /\ old \in ListOf(cb)
    BY <1>3, <1>4, <2>1, <2>2, ValuesFacts
  <2>4. /\ l \in ListOf(cb) /\ l.index = old.index
        /\ l.alive = old.alive /\ l.list = old.list
        /\ \A x \in Int : ValueGood(old, x) => NotOlder(old, l, x)
    BY <2>1, <2>3, HaltedNotOlder
  <2>5. k[id] = Advance(old) /\ k[id].args = old.args
    <3>1. k[id] = Advance(old)
      BY <1>1, <1>4, <2>1
    <3> QED BY <2>3, <3>1, AdvanceNotOlder
  <2>6. id[1] # "w" => NotOlder(k[id], l, o)
    BY <2>3, <2>4, <2>5 DEF ValuesFit, NotOlder
  <2>7. (~l.alive => l.list = <<>>) /\ l.index >= -1
    BY <2>3, <2>4 DEF ValuesFit
  <2>8. n = [lists EXCEPT ![id] = m]
    BY <1>8, <2>1
  <2>9. Changes(lists, n, ids, id, m)
    BY <1>4, <2>3, <2>8, ExceptChanges
  <2>10. Changes(k, n, ids, id, m)
    BY <1>1, <2>3, <2>9 DEF Changes, Maps
  <2>11. t = (IF m.firing THEN cs ELSE Front(cs))
    <3>1. n[id] = m
      BY <2>9 DEF Changes
    <3> QED BY <1>8, <2>1, <3>1
  <2>12. ValuesGood(s, k, rs, cs, o) /\ id \in Layout(s)
    BY <1>3, <1>4, <1>5, <2>1, <2>2
  <2>13. Changes(k, n, Layout(s), id, m) /\ l \in ListOf(CallbacksFor(s, id)) /\ m = EndFire(l)
    BY <1>3, <2>1, <2>4, <2>10
  <2>14. ValuesGood(s, n, rs, t, o)
    BY <1>4, <2>6, <2>7, <2>11, <2>12, <2>13, EndFits
  <2> QED BY <1>2, <2>1, <2>2, <2>14 DEF ValuesInv
<1> QED BY <1>6, <1>7, <1>8

LEMMA InternalFits ==
    ASSUME ValuesInv, NEW id \in DOMAIN lists, CallInternal(id)
    PROVE  ValuesInv'
<1>1. PICK k : k = [lists EXCEPT ![id] = Advance(@)]
  OBVIOUS
<1>2. PICK s, rs, cs, n, t : /\ s = script /\ rs = ran /\ cs = calls /\ n = lists' /\ t = calls'
  OBVIOUS
<1>3. PICK o \in Int : o = ops
  BY DEF ValuesInv
<1>4. /\ cs # <<>> /\ Last(cs) = id /\ script' = s /\ ops' = o /\ ran' = rs
      /\ lists[id].index < Len(lists[id].list)
  BY <1>2, <1>3 DEF CallInternal
<1>5. ValuesGood(s, k, rs, cs, o)
  BY <1>1, <1>2, <1>3, <1>4, AdvanceFits
<1>6. PICK ids : ids = Layout(s)
  OBVIOUS
<1>7. id \in ids /\ Maps(lists, ids)
  BY <1>2, <1>6, ValuesFacts
<1>8. PICK fn : fn = lists[id].list[lists[id].index + 1] /\ fn \in CallbacksFor(script, id)
  BY <1>2, <1>4, NextCall
<1>9. Changes(lists, k, ids, id, Advance(lists[id]))
  BY <1>1, <1>7, ExceptChanges
<1>10. \A x \in ids : lists[x].firing = k[x].firing /\ lists[x] \in ListOf(CallbacksFor(s, x))
  <2>1. \A x \in ids : lists[x] \in ListOf(CallbacksFor(s, x))
    BY <1>2, <1>6 DEF ValuesInv, ValuesGood, ValuesFit
  <2>2. k[id].firing = lists[id].firing
    BY <1>7, <1>9, <2>1, AdvanceFacts DEF Changes
  <2> QED BY <1>9, <2>1, <2>2 DEF Changes
<1>11. \A x \in ids : /\ ValuesFit(CallbacksFor(s, x), k[x], rs[x], x, cs, o)
                      /\ k[x] \in ListOf(CallbacksFor(s, x))
  BY <1>5, <1>6 DEF ValuesGood, ValuesFit
<1>12. PICK other, l, m :
         /\ other \in ids /\ l = k[other] /\ m \in ListOf(CallbacksFor(s, other))
         /\ BecomesIn(id, other, m) /\ Goes(l, m)
         /\ (~l.alive => l.list = <<>>) => (~m.alive => m.list = <<>>)
         /\ other[1] # "w" => \A x \in Int : ValueGood(l, x) => NotOlder(l, m, x)
  <2>1. CASE BecomesIn(id, id, [lists EXCEPT ![id] = Advance(@)][id])
    <3>1. PICK l : l = k[id]
      OBVIOUS
    <3>2. BecomesIn(id, id, l) /\ l \in ListOf(CallbacksFor(s, id)) /\ Goes(l, l)
      BY <1>1, <1>7, <1>11, <2>1, <3>1 DEF Goes
    <3>3. ASSUME NEW x \in Int, ValueGood(l, x) PROVE NotOlder(l, l, x)
      <4>1. PICK a \in Int : a = l.args
        BY <3>2 DEF ListOf
      <4>2. a <= a
        OBVIOUS
      <4> QED BY <3>3, <4>1, <4>2 DEF NotOlder
    <3> QED BY <1>7, <3>1, <3>2, <3>3
  <2>2. CASE /\ fn[2] \in ids /\ fn[2] # id
             /\ \/ BecomesIn(id, fn[2], Disable(lists[fn[2]]))
                \/ BecomesIn(id, fn[2], Lock(lists[fn[2]]))
    <3>1. PICK other, l : other = fn[2] /\ l = lists[other]
      OBVIOUS
    <3>2. other \in ids /\ l = k[other] /\ l \in ListOf(CallbacksFor(s, other))
      BY <1>9, <1>10, <2>2, <3>1 DEF Changes
    <3>3. PICK m : m \in {Disable(l), Lock(l), Empty(l)} /\ BecomesIn(id, other, m)
      BY <2>2, <3>1
    <3>4. /\ m \in ListOf(CallbacksFor(s, other)) /\ Goes(l, m)
          /\ (~l.alive => l.list = <<>>) => (~m.alive => m.list = <<>>)
          /\ \A x \in Int : ValueGood(l, x) => NotOlder(l, m, x)
      <4>1. PICK cb : cb = CallbacksFor(s, other)
        OBVIOUS
      <4>2. l \in ListOf(cb) /\ m \in {Disable(l), Lock(l), Empty(l)}
        BY <3>2, <3>3, <4>1
      <4>3. /\ m \in ListOf(cb) /\ Goes(l, m)
            /\ (~l.alive => l.list = <<>>) => (~m.alive => m.list = <<>>)
            /\ \A x \in Int : ValueGood(l, x) => NotOlder(l, m, x)
        BY <4>2, CloseNotOlder, Zenon
      <4> QED BY <4>1, <4>3
    <3> QED BY <3>2, <3>3, <3>4
  <2>3. CASE /\ fn[2] \in ids /\ fn[2] # id /\ fn[2][1] = "w"
             /\ BecomesIn(id, fn[2], FireWith(lists[fn[2]], lists[id].args))
    <3>1. PICK other, l, v : other = fn[2] /\ l = lists[other] /\ v = lists[id].args
      OBVIOUS
    <3>2. other \in ids /\ l = k[other] /\ l \in ListOf(CallbacksFor(s, other)) /\ other[1] = "w"
      BY <1>9, <1>10, <2>3, <3>1 DEF Changes
    <3>3. v \in Int
      BY <1>7, <1>10, <3>1 DEF ListOf
    <3>4. PICK m : m = FireWith(l, v) /\ BecomesIn(id, other, m)
      BY <2>3, <3>1
    <3>5. m \in ListOf(CallbacksFor(s, other)) /\ Restarts(l, m) /\ Goes(l, m)
      BY <3>2, <3>3, <3>4, FireFacts, FireGoes
    <3>6. (~l.alive => l.list = <<>>) => (~m.alive => m.list = <<>>)
      BY <3>5 DEF Restarts
    <3> QED BY <3>2, <3>4, <3>5, <3>6
  <2> QED BY <1>2, <1>6, <1>8, <2>1, <2>2, <2>3, InternalFacts
<1>13. n = [k EXCEPT ![other] = m] /\ t = (IF m.firing /\ ~l.firing THEN Append(cs, other) ELSE cs)
  <2>1. n = [[lists EXCEPT ![id] = Advance(@)] EXCEPT ![other] = m]
    BY <1>2, <1>12 DEF BecomesIn
  <2>2. t = (IF m.firing /\ ~lists[other].firing THEN Append(cs, other) ELSE cs)
    BY <1>2, <1>12 DEF BecomesIn
  <2> QED BY <1>1, <1>10, <1>12, <2>1, <2>2
<1>14. ValuesFit(CallbacksFor(s, other), l, rs[other], other, cs, o)
  BY <1>11, <1>12
<1>15. /\ ~m.alive => m.list = <<>>
       /\ other[1] # "w" => NotOlder(l, m, o)
  BY <1>12, <1>14 DEF ValuesFit
<1>16. ValuesGood(s, n, rs, t, o)
  <2>1. o <= o
    OBVIOUS
  <2> QED BY <1>5, <1>6, <1>12, <1>13, <1>15, <2>1, OneGoes
<1> QED BY <1>2, <1>3, <1>4, <1>16 DEF ValuesInv

LEMMA ValuesStart == ListInit => ValuesInv
<1> SUFFICES ASSUME ListInit PROVE ValuesInv
  OBVIOUS
<1>1. PICK ids : ids = Layout(script)
  OBVIOUS
<1>2. calls = <<>> /\ ops = 0 /\ 0 \in Int /\ 0 \in Nat
  BY DEF ListInit
<1>3. ran = [id \in ids |-> <<>>]
  BY <1>1 DEF ListInit
<1>4. PICK flags : /\ flags \in SUBSET Flag
                   /\ lists = [id \in ids |->
                                IF script \in {"deferred", "when"}
                                THEN NewDeferredList(script, id) ELSE NewList(flags)]
  BY <1>1 DEF ListInit
<1>5. Maps(lists, ids) /\ Maps(ran, ids)
  BY <1>3, <1>4 DEF Maps
<1>6. StackSound(calls, ids)
  <2>1. <<>> \in Seq(ids \cup {User}) /\ Len(<<>>) = 0
    OBVIOUS
  <2> QED BY <1>2, <2>1 DEF StackSound
<1>7. ASSUME NEW id \in ids
      PROVE  ValuesFit(CallbacksFor(script, id), lists[id], ran[id], id, calls, 0)
  <2>1. PICK l, cb : l = lists[id] /\ cb = CallbacksFor(script, id)
    OBVIOUS
  <2>2. /\ l \in ListOf(cb) /\ l.alive /\ l.index = 0 /\ l.args = NoValue /\ l.memory = NoValue
        /\ l.stack = <<>>
    <3>1. CASE script \in {"deferred", "when"}
      <4>1. l = NewDeferredList(script, id)
        BY <1>4, <2>1, <3>1
      <4>2. l \in ListOf(cb) /\ l.alive
        BY <1>1, <2>1, <3>1, <4>1, NewDeferredFacts
      <4>3. id[2] \in Kind
        <5>1. Layout(script) = {"d"} \X Kind \/ Layout(script) = Deferreds \X Kind
          BY <3>1, Zenon DEF Layout
        <5> QED BY <1>1, <5>1
      <4>4. \E f, q : l = [NewList(f) EXCEPT !.list = q]
        BY <4>1, <4>3 DEF NewDeferredList, Kind
      <4> QED BY <4>2, <4>4 DEF NewList
    <3>2. CASE script \notin {"deferred", "when"}
      <4>1. l = NewList(flags)
        BY <1>4, <2>1, <3>2
      <4>2. <<>> \in Seq(cb) /\ <<>> \in Seq(Int) /\ NoValue \in Int /\ 0 \in Int
        BY DEF NoValue
      <4> QED BY <1>4, <4>1, <4>2 DEF NewList, ListOf
    <3> QED BY <3>1, <3>2
  <2>3. ran[id] = <<>> /\ <<>> \in Seq([fn : cb, value : Int])
    BY <1>3
  <2>4. ~IsFiring(id, calls)
    BY <1>2 DEF IsFiring
  <2>5. ValueGood(l, 0)
    BY <2>2 DEF ValueGood, NoValue
  <2>6. l.index >= -1
    BY <2>2
  <2> QED BY <2>1, <2>2, <2>3, <2>4, <2>5, <2>6 DEF ValuesFit
<1> QED BY <1>1, <1>2, <1>5, <1>6, <1>7 DEF ValuesInv, ValuesGood

LEMMA ValuesStep == ValuesInv /\ [ListNext]_listVars => ValuesInv'
<1> SUFFICES ASSUME ValuesInv, [ListNext]_listVars PROVE ValuesInv'
  OBVIOUS
<1>1. CASE UNCHANGED listVars
  BY <1>1 DEF ValuesInv, listVars
<1>2. CASE Return
  BY <1>2, ReturnFits
<1>3. CASE Throw
  <2>1. calls' = <<>> /\ UNCHANGED <<script, lists, ops, ran>>
    BY <1>3 DEF Throw
  <2> QED BY <2>1, AllLeft
<1>4. ASSUME NEW id \in DOMAIN lists,
             \/ ScriptAdds(id) \/ ScriptFires(id) \/ ScriptRemoves(id)
             \/ ScriptEmpties(id) \/ ScriptCloses(id)
             \/ CallScript(id) \/ CallInternal(id) \/ EndLoop(id)
      PROVE  ValuesInv'
  BY <1>4, AddsFit, FiresFit, RemovesFit, EmptiesFit, ClosesFit, CallScriptFits,
     InternalFits, EndLoopFits, Zenon
<1> QED BY <1>1, <1>2, <1>3, <1>4, Zenon DEF ListNext

LEMMA ValuesImply ==
    ASSUME ValuesInv, [ListNext]_listVars, NEW id \in DOMAIN lists,
           id[1] # "w", ran'[id] # ran[id], ran[id] # <<>>
    PROVE  Last(ran[id]).value <= Last(ran'[id]).value
<1>1. PICK x \in DOMAIN lists : CallScript(x)
  <2>1. CASE UNCHANGED listVars
    BY <2>1 DEF listVars
  <2>2. CASE Return
    BY <2>2, Zenon DEF Return
  <2>3. CASE Throw
    BY <2>3 DEF Throw
  <2>4. ASSUME NEW x \in DOMAIN lists,
               \/ ScriptAdds(x) \/ ScriptFires(x) \/ ScriptRemoves(x)
               \/ ScriptEmpties(x) \/ ScriptCloses(x)
        PROVE  FALSE
    BY <2>4 DEF ScriptAdds, ScriptFires, ScriptRemoves, ScriptEmpties, ScriptCloses
  <2>5. ASSUME NEW x \in DOMAIN lists, CallInternal(x) PROVE FALSE
    BY <2>5 DEF CallInternal
  <2>6. ASSUME NEW x \in DOMAIN lists, EndLoop(x) PROVE FALSE
    BY <2>6 DEF EndLoop
  <2> QED BY <2>1, <2>2, <2>3, <2>4, <2>5, <2>6, Zenon DEF ListNext
<1>2. PICK l, cb, fn : /\ l = lists[x] /\ cb = CallbacksFor(script, x)
                       /\ fn = l.list[l.index + 1]
  OBVIOUS
<1>3. PICK run, r : run = [fn |-> fn, value |-> l.args] /\ r = Append(ran[x], run)
  OBVIOUS
<1>4. ran' = [ran EXCEPT ![x] = r] /\ fn \in cb
  <2>1. calls # <<>> /\ Last(calls) = x
    BY <1>1 DEF CallScript
  <2>2. lists[x].index < Len(lists[x].list)
    BY <1>1 DEF CallScript
  <2>3. fn \in cb
    BY <1>2, <2>1, <2>2, NextCall
  <2> QED BY <1>1, <1>2, <1>3, <2>2, <2>3 DEF CallScript
<1>5. id = x /\ ran'[x] = r
  BY <1>4, ValuesFacts DEF Maps
<1>6. ValuesFit(cb, l, ran[x], x, calls, ops)
  BY <1>2, ValuesFacts
<1>7. Last(ran[x]).value <= l.args
  BY <1>5, <1>6 DEF ValuesFit
<1>8. Last(r) = run
  <2>1. PICK S, p : S = [fn : cb, value : Int] /\ p = ran[x]
    OBVIOUS
  <2>2. l.args \in Int
    BY <1>6 DEF ValuesFit, ListOf
  <2>3. run \in S /\ p \in Seq(S) /\ r = Append(p, run)
    BY <1>3, <1>4, <1>6, <2>1, <2>2 DEF ValuesFit
  <2> QED BY <2>3, LastRun
<1> QED BY <1>3, <1>5, <1>7, <1>8

\* Whatever the functions of scripts call, throw or empty, a list that is not
\* one of when() calls nothing with an older value than before.
THEOREM ValuesInOrder == ListSpec => ValuesDoNotMix
<1>1. ListSpec => []ValuesInv
  BY ValuesStart, ValuesStep, PTL DEF ListSpec
<1>2. ValuesInv /\ [ListNext]_listVars =>
        [\A id \in DOMAIN lists :
           id[1] # "w" /\ ran'[id] # ran[id] /\ ran[id] # <<>>
              => Last(ran[id]).value <= Last(ran'[id]).value]_listVars
  BY ValuesImply
<1> QED BY <1>1, <1>2, PTL DEF ListSpec, ValuesDoNotMix

(***************************************************************************)
(* The promise.  For each list that is for an outcome, k counts the        *)
(* callbacks that it has called: those that it held at first, and then     *)
(* those that were added.                                                  *)
(***************************************************************************)
HasDeferreds(s) == s \in {"deferred", "when"}

\* The lists for the outcomes, and what they hold at first.
OutcomeLists(s) == {id \in Layout(s) : id[2] \in {"done", "fail"}}
Opposite(id) == <<id[1], IF id[2] = "done" THEN "fail" ELSE "done">>
First(s, id) == NewDeferredList(s, id).list

\* All that a list has to call.
Whole(s, id, a) == First(s, id) \o a

Started(l) == l.memory # NoValue

\* A list with the callbacks w in all, of which k have been called: not fired
\* yet, closed by the other outcome, firing, or between two firings.
Untold(l, w, k) ==
    /\ l.alive /\ l.open /\ ~l.firing /\ l.memory = NoValue
    /\ l.list = w /\ k = 0

Closed(l, k) ==
    /\ ~l.alive /\ ~l.open /\ ~l.firing /\ l.memory = NoValue
    /\ l.list = <<>> /\ k = 0

\* s is what w ends with, behind n others.
EndsWith(w, s, n) ==
    /\ n \in Nat /\ Len(w) = n + Len(s)
    /\ \A i \in 1..Len(s) : s[i] = w[n + i]

Telling(l, w, k, id, cs) ==
    /\ l.alive /\ l.open /\ l.firing /\ l.memory = l.args /\ l.args > 0
    /\ l.length = Len(l.list)
    /\ \E n : /\ EndsWith(w, l.list, n)
              /\ IsFiring(id, cs) /\ InCall(id, cs) => k = n + l.index + 1
              /\ IsFiring(id, cs) /\ ~InCall(id, cs) => k = n + l.index

Told(l, w, k) ==
    /\ l.alive /\ l.open /\ ~l.firing /\ l.memory = l.args /\ l.args > 0
    /\ l.list = <<>> /\ k = Len(w)

Stage(l, w, k, id, cs) ==
    /\ l.flags = {"once", "memory"} /\ k \in 0..Len(w)
    /\ \/ Untold(l, w, k) \/ Closed(l, k) \/ Telling(l, w, k, id, cs) \/ Told(l, w, k)

\* r is what has been called of the functions a, after f others, with the value.
CalledOf(r, a, f, k, value) ==
    /\ Len(r) = IF k <= f THEN 0 ELSE k - f
    /\ \A j \in 1..Len(r) : r[j].fn = a[j] /\ r[j].value = value

Keeps(s, id, l, a, r, k, cs) ==
    /\ a \in Seq({"script"} \X Nat)
    /\ Stage(l, First(s, id) \o a, k, id, cs)
    /\ CalledOf(r, a, Len(First(s, id)), k, l.args)

\* What the list for progress holds.
Forwarding(l) ==
    \A i \in 1..Len(l.list) : IsScript(l.list[i]) \/ l.list[i] = Firing(<<"w", "progress">>)

AllKeep(s, ls, ad, rn, q, cs) ==
    /\ q \in [OutcomeLists(s) -> Nat] /\ Maps(ad, Layout(s))
    /\ \A id \in Layout(s) : "stopOnFalse" \notin ls[id].flags
    /\ \A id \in OutcomeLists(s) : Keeps(s, id, ls[id], ad[id], rn[id], q[id], cs)
    /\ \A id \in Layout(s) : id[2] = "progress" => Forwarding(ls[id])

\* A list that is fired closes the one for the other outcome, with its second
\* callback; before that no script runs.
AllClosed(s, ls) ==
    \A id \in OutcomeLists(s) : Started(ls[id]) => ~ls[Opposite(id)].alive

Closing(s, ls, q, cs) ==
    \A id \in OutcomeLists(s) :
        Started(ls[id]) =>
           \/ ~ls[Opposite(id)].alive
           \/ ~Started(ls[Opposite(id)]) /\ cs # <<>> /\ Last(cs) = id /\ q[id] < 2

ClosedByOther(s, ls) ==
    \A id \in OutcomeLists(s) : ~ls[id].alive => Started(ls[Opposite(id)])

OutcomeOf(id) == IF id[2] = "done" THEN "resolved" ELSE "rejected"

OutcomesAgree(s, oc, q) ==
    \A id \in OutcomeLists(s) :
        /\ q[id] > 0 => oc[id[1]] = OutcomeOf(id)
        /\ q[id] = 0 /\ q[Opposite(id)] = 0 => oc[id[1]] = "pending"

\* when(): how many of its arguments have counted down, and whom it tells.
Counted(q, x) == IF q[<<x, "done">>] > 3 THEN 1 ELSE 0

WhenCounts(ls, n, q) ==
    /\ n = 2 - Counted(q, "d") - Counted(q, "e")
    /\ Started(ls[<<"w", "done">>]) <=> n = 0
    /\ Started(ls[<<"w", "fail">>]) <=> q[<<"d", "fail">>] > 3 \/ q[<<"e", "fail">>] > 3

Settled(s, ls, oc, n, q, cs) ==
    /\ Closing(s, ls, q, cs) /\ ClosedByOther(s, ls)
    /\ Maps(oc, Deferreds) /\ OutcomesAgree(s, oc, q)
    /\ s = "when" => WhenCounts(ls, n, q)

\* A list at a stage, which may be firing or not.
Staged(cb, l, w, k, id, ids, cs) ==
    /\ l \in ListOf(cb) /\ w \in Seq(cb) /\ Stage(l, w, k, id, cs)
    /\ id \in ids /\ User \notin ids /\ StackSound(cs, ids)
    /\ IsFiring(id, cs) => l.firing

\* A list that is about to call or to end.
Atop(cb, l, w, k, id, cs) ==
    /\ l \in ListOf(cb) /\ w \in Seq(cb) /\ Stage(l, w, k, id, cs)
    /\ IsFiring(id, cs) /\ ~InCall(id, cs) /\ l.firing

\* Neither fired nor closed.
Alike(l, m) == m.args = l.args /\ (Started(m) <=> Started(l)) /\ m.alive = l.alive

\* b is a, with fn behind it.
Appended(a, fn, b) == b = Append(a, fn)

\* A list that starts to fire goes on the stack.
Pushed(l, m, id, cs, t) == t = IF m.firing /\ ~l.firing THEN Append(cs, id) ELSE cs

Promises(q) ==
    /\ AllKeep(script, lists, added, ran, q, calls)
    /\ Settled(script, lists, outcome, count, q, calls)

\* The inductive invariant.
PromiseInv ==
    /\ ValuesInv
    /\ HasDeferreds(script) => \E q : Promises(q)

LEMMA StageAdd ==
    ASSUME NEW cb, NEW l, NEW w, NEW k, NEW id, NEW ids, NEW cs, Staged(cb, l, w, k, id, ids, cs),
           NEW fn \in cb, NEW m, m = AddTo(l, fn), NEW x \in Seq(cb), Grows(w, x, fn),
           NEW t, Pushed(l, m, id, cs, t)
    PROVE  Stage(m, x, k, id, t) /\ Alike(l, m)
<1> SUFFICES ASSUME l \in ListOf(cb), w \in Seq(cb), id \in ids, User \notin ids,
                    StackSound(cs, ids), Stage(l, w, k, id, cs), IsFiring(id, cs) => l.firing
             PROVE  Stage(m, x, k, id, t) /\ Alike(l, m)
  BY DEF Staged
<1>0. t = (IF m.firing /\ ~l.firing THEN Append(cs, id) ELSE cs)
  BY DEF Pushed
<1>1. /\ x \in Seq(cb) /\ Len(x) = Len(w) + 1 /\ x[Len(w) + 1] = fn
      /\ \A i \in 1..Len(w) : x[i] = w[i]
  BY DEF Grows
<1>2. PICK n \in Nat : n = Len(w) /\ Len(x) = n + 1 /\ k \in 0..n /\ k \in 0..(n + 1)
  <2>1. PICK n \in Nat : n = Len(w)
    OBVIOUS
  <2>2. k \in 0..n
    BY <2>1 DEF Stage
  <2>3. k \in 0..(n + 1)
    BY <2>2
  <2> QED BY <1>1, <2>1, <2>2, <2>3
<1>3. l.flags = {"once", "memory"} /\ "unique" \notin l.flags
  BY DEF Stage
<1>4. CASE Closed(l, k)
  <2>1. m = l
    BY <1>4, Zenon DEF AddTo, Closed
  <2>2. t = cs
    BY <1>0, <2>1
  <2> QED BY <1>2, <1>4, <2>1, <2>2 DEF Stage, Alike
<1>5. ASSUME l.alive
      PROVE  \E a : /\ a = [l EXCEPT !.list = Append(@, fn)]
                    /\ m = IF l.firing THEN [a EXCEPT !.length = Len(a.list)]
                           ELSE IF l.memory \in {NoValue, Halted} THEN a
                           ELSE StartFire(a, l.memory, Len(l.list))
  <2> DEFINE a == IF "unique" \in l.flags /\ Has(l, fn) THEN l
                  ELSE [l EXCEPT !.list = Append(@, fn)]
  <2>1. m = IF l.firing THEN [a EXCEPT !.length = Len(a.list)]
            ELSE IF l.memory \in {NoValue, Halted} THEN a
            ELSE StartFire(a, l.memory, Len(l.list))
    BY <1>5, Zenon DEF AddTo
  <2>2. a = [l EXCEPT !.list = Append(@, fn)]
    BY <1>3
  <2> HIDE DEF a
  <2> QED BY <2>1, <2>2
<1>6. l.list \in Seq(cb) /\ Append(l.list, fn) \in Seq(cb) /\ l.args \in Int /\ l.memory \in Int
  BY AppendProperties DEF ListOf
<1>7. PICK h \in Nat, y \in Seq(cb) : /\ h = Len(l.list) /\ y = Append(l.list, fn) /\ Len(y) = h + 1
                          /\ y[h + 1] = fn /\ \A i \in 1..h : y[i] = l.list[i]
  <2>1. PICK y \in Seq(cb) : y = Append(l.list, fn)
    BY <1>6
  <2>2. PICK h \in Nat : h = Len(l.list)
    BY <1>6
  <2>3. Len(y) = h + 1 /\ y[h + 1] = fn /\ \A i \in 1..h : y[i] = l.list[i]
    BY <1>6, <2>1, <2>2, AppendProperties
  <2> QED BY <2>1, <2>2, <2>3
<1>11. x = Append(w, fn)
  <2>0. PICK z \in Seq(cb) : z = Append(w, fn)
    BY AppendProperties
  <2>1. /\ Len(z) = n + 1 /\ z[n + 1] = fn
        /\ \A i \in 1..n : z[i] = w[i]
    BY <1>2, <2>0, AppendProperties
  <2>2. Len(x) = n + 1 /\ Len(z) = n + 1 /\ \A i \in 1..(n + 1) : i = n + 1 \/ i \in 1..n
    BY <1>2, <2>1
  <2>3. \A i \in 1..(n + 1) : x[i] = z[i]
    <3>1. x[n + 1] = fn /\ \A i \in 1..n : x[i] = w[i]
      BY <1>1, <1>2
    <3> QED BY <2>1, <2>2, <3>1
  <2>4. x = z
    BY <2>2, <2>3, SeqEqual
  <2> QED BY <2>0, <2>4
<1>8. CASE Untold(l, w, k)
  <2>1. m = [l EXCEPT !.list = y]
    BY <1>5, <1>7, <1>8 DEF Untold
  <2>2. /\ m.alive = l.alive /\ m.open = l.open /\ m.firing = l.firing /\ m.memory = l.memory
        /\ m.list = x /\ m.args = l.args /\ m.flags = l.flags
    BY <1>7, <1>8, <1>11, <2>1 DEF ListOf, Untold
  <2>3. t = cs
    BY <1>0, <1>8, <2>2 DEF Untold
  <2> QED BY <1>2, <1>3, <1>8, <2>2, <2>3 DEF Stage, Untold, Closed, Started, Alike
<1>9. CASE Told(l, w, k)
  <2>1. PICK a : /\ a = [l EXCEPT !.list = y]
                 /\ m = StartFire(a, l.memory, Len(l.list))
    <3>1. l.memory \notin {NoValue, Halted}
      BY <1>6, <1>9 DEF Told, NoValue, Halted
    <3>2. l.alive /\ ~l.firing
      BY <1>9 DEF Told
    <3> QED BY <1>5, <1>7, <3>1, <3>2
  <2>2. /\ a.alive = l.alive /\ a.open = l.open /\ a.flags = l.flags /\ a.list = y /\ a \in ListOf(cb)
    BY <1>6, <1>7, <2>1 DEF ListOf
  <2>3. h = 0 /\ l.list = <<>> /\ k = n
    BY <1>2, <1>7, <1>9 DEF Told
  <2>4. PICK v \in Int : v = l.memory /\ v = l.args /\ v > 0
    BY <1>6, <1>9 DEF Told
  <2>5. /\ m.memory = v /\ m.args = v /\ m.firing /\ m.index = 0 /\ m.length = Len(y)
        /\ m.list = y /\ m.alive = l.alive /\ m.open = l.open /\ m.flags = l.flags
    <3>1. "memory" \in a.flags /\ Len(l.list) = 0
      BY <1>3, <1>7, <2>2, <2>3
    <3>2. m = [a EXCEPT !.memory = v, !.firing = TRUE, !.index = 0, !.length = Len(y), !.args = v]
      BY <2>1, <2>2, <2>4, <3>1 DEF StartFire
    <3> QED BY <2>2, <3>2 DEF ListOf
  <2>6. t = Append(cs, id) /\ ~IsFiring(id, cs)
    BY <1>0, <1>9, <2>5 DEF Told
  <2>7. IsFiring(id, t) /\ ~InCall(id, t)
    BY <2>6, StartsOnTop
  <2>8. EndsWith(x, m.list, n)
    <3>1. Len(x) = n + Len(y) /\ y[1] = x[n + 1] /\ Len(y) = 1
      BY <1>1, <1>2, <1>7, <2>3
    <3> QED BY <2>5, <3>1 DEF EndsWith
  <2>9. k = n + m.index
    BY <2>3, <2>5
  <2>10. Telling(m, x, k, id, t)
    BY <1>9, <2>4, <2>5, <2>7, <2>8, <2>9 DEF Telling, Told
  <2>11. Started(m) /\ Started(l) /\ ~Closed(l, k)
    BY <1>9, <2>4, <2>5 DEF Started, NoValue, Told, Closed
  <2> QED BY <1>2, <1>3, <2>4, <2>5, <2>10, <2>11 DEF Stage, Alike
<1>10. CASE Telling(l, w, k, id, cs)
  <2>1. PICK a : /\ a = [l EXCEPT !.list = y] /\ m = [a EXCEPT !.length = Len(a.list)]
    BY <1>5, <1>7, <1>10 DEF Telling
  <2>2. /\ m.alive = l.alive /\ m.open = l.open /\ m.firing = l.firing /\ m.memory = l.memory
        /\ m.list = y /\ m.args = l.args /\ m.flags = l.flags /\ m.length = Len(y)
        /\ m.index = l.index
    BY <2>1 DEF ListOf
  <2>3. t = cs
    BY <1>0, <2>2
  <2>4. PICK o : /\ EndsWith(w, l.list, o)
                 /\ IsFiring(id, cs) /\ InCall(id, cs) => k = o + l.index + 1
                 /\ IsFiring(id, cs) /\ ~InCall(id, cs) => k = o + l.index
    BY <1>10 DEF Telling
  <2>5. EndsWith(x, y, o)
    <3>1. /\ o \in Nat /\ n = o + h /\ \A i \in 1..h : l.list[i] = w[o + i]
      BY <1>2, <1>7, <2>4 DEF EndsWith
    <3>2. \A i \in 1..h : o + i \in 1..n
      BY <3>1
    <3>3. o + (h + 1) = n + 1 /\ \A i \in 1..(h + 1) : i = h + 1 \/ i \in 1..h
      BY <3>1
    <3>4. \A i \in 1..(h + 1) : y[i] = x[o + i]
      BY <1>1, <1>2, <1>7, <3>1, <3>2, <3>3
    <3>5. Len(x) = o + Len(y)
      BY <1>2, <1>7, <3>1
    <3> QED BY <1>7, <3>1, <3>4, <3>5 DEF EndsWith
  <2>6. Telling(m, x, k, id, t)
    BY <1>10, <2>2, <2>3, <2>4, <2>5 DEF Telling
  <2>7. ~Closed(l, k) /\ (Started(m) <=> Started(l))
    BY <1>10, <2>2 DEF Telling, Closed, Started
  <2> QED BY <1>2, <1>3, <2>2, <2>6, <2>7 DEF Stage, Alike
<1> QED BY <1>4, <1>8, <1>9, <1>10 DEF Stage

LEMMA StageFire ==
    ASSUME NEW cb, NEW l, NEW w, NEW k, NEW id, NEW ids, NEW cs, Staged(cb, l, w, k, id, ids, cs),
           NEW v \in Int, v > 0, NEW m, m = FireWith(l, v), NEW t, Pushed(l, m, id, cs, t)
    PROVE  /\ Stage(m, w, k, id, t)
           /\ \/ m = l /\ t = cs /\ ~Untold(l, w, k)
              \/ Untold(l, w, k) /\ Started(m) /\ m.alive /\ k = 0 /\ t = Append(cs, id)
<1> SUFFICES ASSUME l \in ListOf(cb), w \in Seq(cb), id \in ids, User \notin ids,
                    StackSound(cs, ids), Stage(l, w, k, id, cs), IsFiring(id, cs) => l.firing
             PROVE  /\ Stage(m, w, k, id, t)
                    /\ \/ m = l /\ t = cs /\ ~Untold(l, w, k)
                       \/ /\ Untold(l, w, k) /\ Started(m) /\ m.alive /\ k = 0
                          /\ t = Append(cs, id)
  BY DEF Staged
<1>0. t = (IF m.firing /\ ~l.firing THEN Append(cs, id) ELSE cs)
  BY DEF Pushed
<1>1. "once" \in l.flags /\ l.flags = {"once", "memory"} /\ "memory" \in l.flags
  BY DEF Stage
<1>2. CASE ~Untold(l, w, k)
  <2>1. \/ ~l.open
        \/ l.open /\ l.firing
        \/ l.open /\ ~l.firing /\ l.memory # NoValue
    <3>1. CASE Told(l, w, k)
      <4>1. l.memory > 0 /\ l.open /\ ~l.firing
        BY <3>1 DEF Told
      <4> QED BY <4>1 DEF NoValue
    <3>2. CASE Closed(l, k)
      BY <3>2 DEF Closed
    <3>3. CASE Telling(l, w, k, id, cs)
      BY <3>3 DEF Telling
    <3> QED BY <1>2, <3>1, <3>2, <3>3 DEF Stage
  <2>2. m = l
    BY <1>1, <2>1, Zenon DEF FireWith
  <2> QED BY <1>0, <1>2, <2>2
<1>3. CASE Untold(l, w, k)
  <2>1. m = StartFire(l, v, 0)
    <3>1. l.open /\ ~l.firing /\ l.memory = NoValue
      BY <1>3 DEF Untold
    <3> QED BY <3>1, Zenon DEF FireWith
  <2>2. m = [l EXCEPT !.memory = v, !.firing = TRUE, !.index = 0, !.length = Len(l.list), !.args = v]
    BY <1>1, <2>1 DEF StartFire
  <2>3. /\ m.memory = v /\ m.firing /\ m.index = 0 /\ m.length = Len(l.list) /\ m.args = v
        /\ m.alive = l.alive /\ m.open = l.open /\ m.list = l.list /\ m.flags = l.flags
    BY <2>2 DEF ListOf
  <2>4. t = Append(cs, id) /\ ~IsFiring(id, cs) /\ k = 0 /\ l.list = w /\ l.alive /\ l.open
    BY <1>0, <1>3, <2>3 DEF Untold
  <2>5. IsFiring(id, t) /\ ~InCall(id, t)
    BY <2>4, StartsOnTop
  <2>6. EndsWith(w, m.list, 0)
    <3>1. PICK n \in Nat : n = Len(w)
      OBVIOUS
    <3>2. n = 0 + n /\ \A i \in 1..n : 0 + i = i
      OBVIOUS
    <3> QED BY <2>3, <2>4, <3>1, <3>2 DEF EndsWith
  <2>7. k = 0 + m.index
    BY <2>3, <2>4
  <2>8. Telling(m, w, k, id, t)
    BY <2>3, <2>4, <2>5, <2>6, <2>7 DEF Telling
  <2>9. Started(m)
    BY <2>3 DEF Started, NoValue
  <2>10. Stage(m, w, k, id, t)
    BY <1>1, <2>3, <2>8 DEF Stage
  <2> QED BY <1>3, <2>3, <2>4, <2>9, <2>10
<1> QED BY <1>2, <1>3

\* Another list starts, ends, calls or is called back.
LEMMA StageSame ==
    ASSUME NEW l, NEW w, NEW k, NEW id, NEW cs, Stage(l, w, k, id, cs),
           NEW t, Same(id, cs, t) \/ ~IsFiring(id, t)
    PROVE  Stage(l, w, k, id, t)
<1>1. ASSUME Telling(l, w, k, id, cs) PROVE Telling(l, w, k, id, t)
  BY <1>1 DEF Telling, Same
<1> QED BY <1>1 DEF Stage

\* A list that is about to call or to end.
LEMMA StageTop ==
    ASSUME NEW cb, NEW l, NEW w, NEW k, NEW id, NEW cs, Atop(cb, l, w, k, id, cs)
    PROVE  /\ l.alive /\ l.length = Len(l.list)
           /\ l.args > 0 /\ Started(l) /\ Telling(l, w, k, id, cs)
           /\ MoreToCall(l) => /\ k < Len(w) /\ l.index < Len(l.list)
                               /\ (l.index >= 0 => l.list[l.index + 1] = w[k + 1])
           /\ ~MoreToCall(l) => k = Len(w)
<1> SUFFICES ASSUME l \in ListOf(cb), w \in Seq(cb), Stage(l, w, k, id, cs), IsFiring(id, cs),
                    ~InCall(id, cs), l.firing
             PROVE  /\ l.alive /\ l.length = Len(l.list)
                    /\ l.args > 0 /\ Started(l) /\ Telling(l, w, k, id, cs)
                    /\ MoreToCall(l) => /\ k < Len(w) /\ l.index < Len(l.list)
                                        /\ (l.index >= 0 => l.list[l.index + 1] = w[k + 1])
                    /\ ~MoreToCall(l) => k = Len(w)
  BY DEF Atop
<1>1. Telling(l, w, k, id, cs)
  BY DEF Stage, Untold, Closed, Told
<1>2. PICK n : EndsWith(w, l.list, n) /\ k = n + l.index
  BY <1>1 DEF Telling
<1>3. l.list \in Seq(cb) /\ l.index \in Int
  BY DEF ListOf
<1>4. PICK i \in Int, h \in Nat, m \in Nat : i = l.index /\ h = Len(l.list) /\ m = Len(w)
  BY <1>3
<1>5. n \in Nat /\ m = n + h /\ k = n + i /\ \A j \in 1..h : l.list[j] = w[n + j]
  BY <1>2, <1>4 DEF EndsWith
<1>6. l.alive /\ l.length = h /\ l.args > 0 /\ l.memory = l.args
  BY <1>1, <1>4 DEF Telling
<1>7. Started(l)
  BY <1>6 DEF Started, NoValue
<1>8. MoreToCall(l) <=> i < h
  BY <1>4, <1>6 DEF MoreToCall
<1>9. k \in 0..m
  BY <1>4 DEF Stage
<1>10. ASSUME i < h PROVE k < m /\ (i >= 0 => l.list[i + 1] = w[k + 1])
  <2>1. k < m
    BY <1>5, <1>10
  <2>2. ASSUME i >= 0 PROVE l.list[i + 1] = w[k + 1]
    <3>1. i + 1 \in 1..h /\ n + (i + 1) = k + 1
      BY <1>5, <1>10, <2>2
    <3>2. l.list[i + 1] = w[n + (i + 1)]
      BY <1>5, <3>1
    <3> QED BY <3>1, <3>2
  <2> QED BY <2>1, <2>2
<1>11. ASSUME ~(i < h) PROVE k = m
  BY <1>5, <1>9, <1>11
<1> QED BY <1>1, <1>4, <1>6, <1>7, <1>8, <1>10, <1>11

\* A list calls a function of a script.
LEMMA StageCall ==
    ASSUME NEW cb, NEW l, NEW w, NEW k, NEW id, NEW cs, Atop(cb, l, w, k, id, cs), MoreToCall(l),
           NEW t, IsFiring(id, t), InCall(id, t)
    PROVE  Stage(l, w, k + 1, id, t)
<1> SUFFICES ASSUME l \in ListOf(cb), w \in Seq(cb), Stage(l, w, k, id, cs), IsFiring(id, cs),
                    ~InCall(id, cs), l.firing
             PROVE  Stage(l, w, k + 1, id, t)
  BY DEF Atop
<1>1. Telling(l, w, k, id, cs) /\ k < Len(w)
  BY StageTop
<1>2. PICK n : EndsWith(w, l.list, n) /\ k = n + l.index
  BY <1>1 DEF Telling
<1>3. PICK i \in Int, m \in Nat : i = l.index /\ m = Len(w)
  BY DEF ListOf
<1>4. n \in Nat /\ k = n + i /\ k \in 0..m
  BY <1>2, <1>3 DEF EndsWith, Stage
<1>5. k + 1 = n + i + 1 /\ k + 1 \in 0..m
  BY <1>1, <1>3, <1>4
<1>6. Telling(l, w, k + 1, id, t)
  BY <1>1, <1>2, <1>3, <1>5 DEF Telling
<1> QED BY <1>3, <1>5, <1>6 DEF Stage

\* The function returns.
LEMMA StageBack ==
    ASSUME NEW cb, NEW l \in ListOf(cb), NEW w \in Seq(cb), NEW k, NEW id, NEW cs,
           Stage(l, w, k, id, cs), IsFiring(id, cs), InCall(id, cs), l.firing,
           NEW t, ~InCall(id, t)
    PROVE  Stage(Advance(l), w, k, id, t)
<1>1. Telling(l, w, k, id, cs)
  BY DEF Stage, Untold, Closed, Told
<1>2. PICK n : EndsWith(w, l.list, n) /\ k = n + l.index + 1
  BY <1>1 DEF Telling
<1>3. PICK i \in Int, p \in Int : i = l.index /\ p = i + 1
  BY DEF ListOf
<1>4. n \in Nat /\ k = n + p
  BY <1>2, <1>3 DEF EndsWith
<1>5. PICK m : m = [l EXCEPT !.index = p]
  OBVIOUS
<1>6. Advance(l) = m
  BY <1>3, <1>5 DEF Advance
<1>7. /\ m.flags = l.flags /\ m.alive = l.alive /\ m.open = l.open /\ m.firing = l.firing
      /\ m.memory = l.memory /\ m.args = l.args /\ m.list = l.list /\ m.length = l.length
      /\ m.index = p
  BY <1>5 DEF ListOf
<1>8. Telling(m, w, k, id, t)
  BY <1>1, <1>2, <1>4, <1>7 DEF Telling
<1> QED BY <1>6, <1>7, <1>8 DEF Stage

\* A callback of Deferred's or when's has been called.
LEMMA StageNext ==
    ASSUME NEW cb, NEW l, NEW w, NEW k, NEW id, NEW cs, Atop(cb, l, w, k, id, cs), MoreToCall(l)
    PROVE  Stage(Advance(l), w, k + 1, id, cs)
<1> SUFFICES ASSUME l \in ListOf(cb), w \in Seq(cb), Stage(l, w, k, id, cs), IsFiring(id, cs),
                    ~InCall(id, cs), l.firing
             PROVE  Stage(Advance(l), w, k + 1, id, cs)
  BY DEF Atop
<1>1. Telling(l, w, k, id, cs) /\ k < Len(w)
  BY StageTop
<1>2. PICK n : EndsWith(w, l.list, n) /\ k = n + l.index
  BY <1>1 DEF Telling
<1>3. PICK i \in Int, p \in Int, x \in Nat : i = l.index /\ p = i + 1 /\ x = Len(w)
  BY DEF ListOf
<1>4. n \in Nat /\ k = n + i /\ k \in 0..x
  BY <1>2, <1>3 DEF EndsWith, Stage
<1>5. PICK j : j = k + 1 /\ j = n + p /\ j \in 0..x
  <2>1. k + 1 = n + p /\ k + 1 \in 0..x
    BY <1>1, <1>3, <1>4
  <2> QED BY <2>1
<1>6. PICK m : m = [l EXCEPT !.index = p]
  OBVIOUS
<1>7. Advance(l) = m
  BY <1>3, <1>6 DEF Advance
<1>8. /\ m.flags = l.flags /\ m.alive = l.alive /\ m.open = l.open /\ m.firing = l.firing
      /\ m.memory = l.memory /\ m.args = l.args /\ m.list = l.list /\ m.length = l.length
      /\ m.index = p
  BY <1>6 DEF ListOf
<1>9. Telling(m, w, j, id, cs)
  BY <1>1, <1>2, <1>5, <1>8 DEF Telling
<1> QED BY <1>3, <1>5, <1>7, <1>8, <1>9 DEF Stage

\* All have been called.
LEMMA StageEnd ==
    ASSUME NEW cb, NEW l, NEW w, NEW k, NEW id, NEW cs, Atop(cb, l, w, k, id, cs), ~MoreToCall(l),
           NEW m, m = EndFire(l), NEW t
    PROVE  Stage(m, w, k, id, t) /\ ~m.firing /\ Alike(l, m)
<1> SUFFICES ASSUME l \in ListOf(cb), w \in Seq(cb), Stage(l, w, k, id, cs), IsFiring(id, cs),
                    ~InCall(id, cs), l.firing
             PROVE  Stage(m, w, k, id, t) /\ ~m.firing /\ Alike(l, m)
  BY DEF Atop
<1>1. Telling(l, w, k, id, cs) /\ k = Len(w)
  BY StageTop
<1>2. l.alive /\ l.open /\ l.memory = l.args /\ l.args > 0 /\ l.flags = {"once", "memory"}
  BY <1>1 DEF Telling, Stage
<1>3. l.memory # Halted /\ "once" \in l.flags
  <2>1. PICK a \in Int : a = l.memory /\ a > 0
    BY <1>2 DEF ListOf
  <2> QED BY <1>2, <2>1 DEF Halted
<1>4. m = [[l EXCEPT !.firing = FALSE] EXCEPT !.list = <<>>]
  <2>1. PICK quiet : quiet = [l EXCEPT !.firing = FALSE]
    OBVIOUS
  <2>2. quiet.alive = l.alive
    BY <2>1 DEF ListOf
  <2>3. m = [quiet EXCEPT !.list = <<>>]
    BY <1>2, <1>3, <2>1, <2>2, Zenon DEF EndFire
  <2> QED BY <2>1, <2>3
<1>5. /\ m.flags = l.flags /\ m.alive = l.alive /\ m.open = l.open /\ ~m.firing
      /\ m.memory = l.memory /\ m.args = l.args /\ m.list = <<>>
  BY <1>4 DEF ListOf
<1>6. Told(m, w, k)
  BY <1>1, <1>2, <1>5 DEF Told
<1> QED BY <1>5, <1>6 DEF Stage, Started, Alike

\* The other list closes this one, which has not been fired.
LEMMA StageDisable ==
    ASSUME NEW cb, NEW l \in ListOf(cb), NEW w, NEW k, NEW id, NEW cs,
           Stage(l, w, k, id, cs), ~Started(l), NEW m, m = Disable(l)
    PROVE  /\ Stage(m, w, k, id, cs) /\ ~Started(m) /\ ~m.alive /\ m.firing = l.firing
           /\ m.args = l.args
<1>1. Untold(l, w, k) \/ Closed(l, k)
  <2>1. CASE Telling(l, w, k, id, cs)
    BY <2>1 DEF Telling, Started, NoValue
  <2>2. CASE Told(l, w, k)
    BY <2>2 DEF Told, Started, NoValue
  <2> QED BY <2>1, <2>2 DEF Stage
<1>2. k = 0 /\ ~l.firing
  BY <1>1 DEF Untold, Closed
<1>3. m = [l EXCEPT !.list = <<>>, !.alive = FALSE, !.stack = <<>>, !.open = FALSE,
                    !.memory = NoValue]
  BY DEF Disable
<1>4. /\ m.flags = l.flags /\ ~m.alive /\ ~m.open /\ m.firing = l.firing
      /\ m.memory = NoValue /\ m.args = l.args /\ m.list = <<>>
  BY <1>3 DEF ListOf
<1>5. Closed(m, k)
  BY <1>2, <1>4 DEF Closed
<1> QED BY <1>4, <1>5 DEF Stage, Started

\* What has been fired tells whether anything was called.
LEMMA StageFacts ==
    ASSUME NEW cb, NEW l \in ListOf(cb), NEW w \in Seq(cb), NEW k, NEW id, NEW cs,
           Stage(l, w, k, id, cs)
    PROVE  /\ k \in Nat /\ k <= Len(w)
           /\ k > 0 => Started(l)
           /\ Started(l) => l.alive /\ l.args > 0
           /\ Started(l) => (l.firing \/ k = Len(w))
           /\ k = 0 \/ Started(l)
           /\ Untold(l, w, k) <=> l.alive /\ ~Started(l)
<1>1. Len(w) \in Nat /\ k \in 0..Len(w)
  BY DEF Stage
<1>2. CASE Untold(l, w, k)
  BY <1>1, <1>2 DEF Untold, Started
<1>3. CASE Closed(l, k)
  BY <1>1, <1>3 DEF Untold, Closed, Started
<1>4. CASE Telling(l, w, k, id, cs)
  BY <1>1, <1>4 DEF Telling, Untold, Started, NoValue
<1>5. CASE Told(l, w, k)
  BY <1>1, <1>5 DEF Told, Untold, Started, NoValue
<1> QED BY <1>2, <1>3, <1>4, <1>5 DEF Stage

\* The lists of Deferreds.
LEMMA OutcomeFacts ==
    ASSUME NEW s, HasDeferreds(s), NEW id \in OutcomeLists(s), NEW o, o = Opposite(id)
    PROVE  /\ id \in Layout(s) /\ id[1] \in Deferreds /\ id[2] \in {"done", "fail"}
           /\ id = <<id[1], id[2]>>
           /\ o \in OutcomeLists(s) /\ o # id /\ o[1] = id[1] /\ Opposite(o) = id
           /\ OutcomeOf(o) # OutcomeOf(id)
           /\ \A x \in OutcomeLists(s) : x[1] = id[1] => x = id \/ x = o
           /\ <<id[1], "progress">> \in Layout(s) /\ <<id[1], "progress">> \notin OutcomeLists(s)
<1>1. PICK D : Layout(s) = D \X Kind /\ D \in SUBSET Deferreds
  <2>1. CASE s = "deferred"
    <3>1. Layout(s) = {"d"} \X Kind /\ {"d"} \in SUBSET Deferreds
      BY <2>1 DEF Layout, Deferreds
    <3> QED BY <3>1
  <2>2. CASE s = "when"
    <3>1. Layout(s) = Deferreds \X Kind /\ Deferreds \in SUBSET Deferreds
      BY <2>2 DEF Layout
    <3> QED BY <3>1
  <2> QED BY <2>1, <2>2 DEF HasDeferreds
<1>2. \A x \in OutcomeLists(s) : \E d \in D : x = <<d, "done">> \/ x = <<d, "fail">>
  BY <1>1 DEF OutcomeLists, Kind
<1>3. \A d \in D : /\ <<d, "done">> \in OutcomeLists(s) /\ <<d, "fail">> \in OutcomeLists(s)
                   /\ <<d, "progress">> \in Layout(s) /\ <<d, "progress">> \notin OutcomeLists(s)
  BY <1>1 DEF OutcomeLists, Kind
<1>4. PICK d \in D : id = <<d, "done">> \/ id = <<d, "fail">>
  BY <1>2
<1>5. /\ id = <<d, "done">> => o = <<d, "fail">>
      /\ id = <<d, "fail">> => o = <<d, "done">>
  BY DEF Opposite
<1>6. CASE id = <<d, "done">>
  <2>1. \A x \in OutcomeLists(s) : x[1] = id[1] => x = id \/ x = o
    BY <1>2, <1>5, <1>6
  <2>2. Opposite(o) = id /\ OutcomeOf(o) # OutcomeOf(id)
    BY <1>5, <1>6 DEF Opposite, OutcomeOf
  <2>3. id \in Layout(s)
    BY DEF OutcomeLists
  <2> QED BY <1>1, <1>3, <1>5, <1>6, <2>1, <2>2, <2>3
<1>7. CASE id = <<d, "fail">>
  <2>1. \A x \in OutcomeLists(s) : x[1] = id[1] => x = id \/ x = o
    BY <1>2, <1>5, <1>7
  <2>2. Opposite(o) = id /\ OutcomeOf(o) # OutcomeOf(id)
    BY <1>5, <1>7 DEF Opposite, OutcomeOf
  <2>3. id \in Layout(s)
    BY DEF OutcomeLists
  <2> QED BY <1>1, <1>3, <1>5, <1>7, <2>1, <2>2, <2>3
<1> QED BY <1>4, <1>6, <1>7

\* Whatever a Deferred's list holds, it is for an outcome or for progress.
LEMMA DeferredKinds ==
    ASSUME NEW s, HasDeferreds(s), NEW id \in Layout(s)
    PROVE  /\ id \in OutcomeLists(s) \/ id[2] = "progress"
           /\ id[2] = "progress" => id \notin OutcomeLists(s)
<1>1. id[2] \in Kind
  BY DEF Layout, HasDeferreds
<1> QED BY <1>1 DEF Kind, OutcomeLists

\* What the list for an outcome holds at first.
LEMMA FirstFacts ==
    ASSUME NEW s, HasDeferreds(s), NEW id \in OutcomeLists(s), NEW f, f = First(s, id)
    PROVE  /\ f \in Seq(CallbacksFor(s, id))
           /\ Len(f) = IF s = "when" /\ id[1] # "w" THEN 4 ELSE 3
           /\ f[1] = Settle(id[1], OutcomeOf(id))
           /\ f[2] = Disabling(Opposite(id))
           /\ f[3] = Locking(id[1])
           /\ s = "when" /\ id[1] # "w" /\ id[2] = "done" => f[4] = CountingDown
           /\ s = "when" /\ id[1] # "w" /\ id[2] = "fail" => f[4] = Firing(<<"w", "fail">>)
<1>1. PICK l : l = NewDeferredList(s, id)
  OBVIOUS
<1>2. id \in Layout(s) /\ id[2] \in {"done", "fail"} /\ id = <<id[1], id[2]>>
  BY OutcomeFacts
<1>3. f \in Seq(CallbacksFor(s, id))
  <2>1. l \in ListOf(CallbacksFor(s, id))
    BY <1>1, <1>2, NewDeferredFacts DEF HasDeferreds
  <2>2. l.list \in Seq(CallbacksFor(s, id))
    BY <2>1 DEF ListOf
  <2> QED BY <1>1, <2>2 DEF First
<1>4. PICK d, wa : d = id[1] /\ wa = WhenAdds(s, id)
  OBVIOUS
<1>5. f = <<Settle(d, OutcomeOf(id)), Disabling(Opposite(id)), Locking(d)>> \o wa
  <2>1. CASE id[2] = "done"
    <3>1. l = [NewList({"once", "memory"}) EXCEPT !.list =
                  <<Settle(d, "resolved"), Disabling(<<d, "fail">>), Locking(d)>> \o wa]
      BY <1>1, <1>4, <2>1 DEF NewDeferredList
    <3>2. l.list = <<Settle(d, "resolved"), Disabling(<<d, "fail">>), Locking(d)>> \o wa
      BY <3>1 DEF NewList
    <3>3. OutcomeOf(id) = "resolved" /\ Opposite(id) = <<d, "fail">>
      BY <1>4, <2>1 DEF OutcomeOf, Opposite
    <3> QED BY <1>1, <3>2, <3>3 DEF First
  <2>2. CASE id[2] = "fail"
    <3>1. l = [NewList({"once", "memory"}) EXCEPT !.list =
                  <<Settle(d, "rejected"), Disabling(<<d, "done">>), Locking(d)>> \o wa]
      BY <1>1, <1>4, <2>2 DEF NewDeferredList
    <3>2. l.list = <<Settle(d, "rejected"), Disabling(<<d, "done">>), Locking(d)>> \o wa
      BY <3>1 DEF NewList
    <3>3. OutcomeOf(id) = "rejected" /\ Opposite(id) = <<d, "done">>
      BY <1>4, <2>2 DEF OutcomeOf, Opposite
    <3> QED BY <1>1, <3>2, <3>3 DEF First
  <2> QED BY <1>2, <2>1, <2>2
<1>6. PICK A, B, C : A = Settle(d, OutcomeOf(id)) /\ B = Disabling(Opposite(id)) /\ C = Locking(d)
  OBVIOUS
<1>7. f = <<A, B, C>> \o wa
  BY <1>5, <1>6
<1>8. CASE ~(s = "when" /\ id[1] # "w")
  <2>1. wa = <<>>
    BY <1>4, <1>8, Zenon DEF WhenAdds
  <2>2. f = <<A, B, C>>
    <3>1. <<A, B, C>> \in Seq({A, B, C})
      OBVIOUS
    <3> QED BY <1>7, <2>1, <3>1, ConcatEmptySeq
  <2> QED BY <1>3, <1>4, <1>6, <1>8, <2>2
<1>9. CASE s = "when" /\ id[1] # "w"
  <2>1. /\ id[2] = "done" => wa = <<CountingDown>>
        /\ id[2] = "fail" => wa = <<Firing(<<"w", "fail">>)>>
    BY <1>4, <1>9 DEF WhenAdds
  <2>2. PICK E : wa = <<E>>
    BY <1>2, <2>1
  <2>3. /\ id[2] = "done" => E = CountingDown
        /\ id[2] = "fail" => E = Firing(<<"w", "fail">>)
    BY <2>1, <2>2
  <2>4. Len(f) = 4 /\ f[1] = A /\ f[2] = B /\ f[3] = C /\ f[4] = E
    <3>1. PICK S : S = {A, B, C, E}
      OBVIOUS
    <3>2. <<A, B, C>> \in Seq(S) /\ <<E>> \in Seq(S)
      BY <3>1
    <3> QED BY <1>7, <2>2, <3>2
  <2> QED BY <1>3, <1>4, <1>6, <1>9, <2>3, <2>4
<1> QED BY <1>8, <1>9

\* Of all its callbacks, the k-th.
LEMMA CalledNext ==
    ASSUME NEW s, HasDeferreds(s), NEW id \in OutcomeLists(s), NEW a \in Seq({"script"} \X Nat),
           NEW w, w = Whole(s, id, a), NEW k \in Nat, k < Len(w), NEW f \in Nat,
           f = Len(First(s, id))
    PROVE  /\ w \in Seq(CallbacksFor(s, id)) /\ Len(w) = f + Len(a)
           /\ k < f => w[k + 1] = First(s, id)[k + 1] /\ ~IsScript(w[k + 1])
           /\ k >= f => w[k + 1] = a[k - f + 1] /\ IsScript(w[k + 1]) /\ k - f < Len(a)
<1>1. PICK g, cb : g = First(s, id) /\ cb = CallbacksFor(s, id)
  OBVIOUS
<1>2. /\ g \in Seq(cb) /\ f = (IF s = "when" /\ id[1] # "w" THEN 4 ELSE 3)
      /\ g[1] = Settle(id[1], OutcomeOf(id)) /\ g[2] = Disabling(Opposite(id))
      /\ g[3] = Locking(id[1])
      /\ s = "when" /\ id[1] # "w" /\ id[2] = "done" => g[4] = CountingDown
      /\ s = "when" /\ id[1] # "w" /\ id[2] = "fail" => g[4] = Firing(<<"w", "fail">>)
      /\ id[2] \in {"done", "fail"}
  <2>1. id[2] \in {"done", "fail"}
    BY OutcomeFacts
  <2>2. f = Len(g)
    BY <1>1
  <2>3. /\ g \in Seq(cb) /\ Len(g) = (IF s = "when" /\ id[1] # "w" THEN 4 ELSE 3)
        /\ g[1] = Settle(id[1], OutcomeOf(id)) /\ g[2] = Disabling(Opposite(id))
        /\ g[3] = Locking(id[1])
        /\ s = "when" /\ id[1] # "w" /\ id[2] = "done" => g[4] = CountingDown
        /\ s = "when" /\ id[1] # "w" /\ id[2] = "fail" => g[4] = Firing(<<"w", "fail">>)
    BY <1>1, FirstFacts, Zenon
  <2> QED BY <2>1, <2>2, <2>3, Zenon
<1>3. a \in Seq(cb)
  <2>1. ({"script"} \X Nat) \subseteq cb
    BY <1>1 DEF CallbacksFor
  <2> QED BY <2>1
<1>4. /\ w \in Seq(cb) /\ Len(w) = Len(g) + Len(a)
      /\ \A i \in 1..Len(g) : w[i] = g[i]
      /\ \A i \in 1..Len(a) : w[Len(g) + i] = a[i]
  <2>1. w = g \o a /\ g \in Seq(cb)
    BY <1>1, <1>2 DEF Whole
  <2> QED BY <1>3, <2>1, ConcatFacts
<1>5. PICK m \in Nat : m = Len(a)
  OBVIOUS
<1>6. Len(w) = f + m /\ f = Len(g) /\ k < f + m
  BY <1>1, <1>4, <1>5
<1>7. ASSUME k < f PROVE w[k + 1] = g[k + 1] /\ ~IsScript(w[k + 1])
  <2>1. w[k + 1] = g[k + 1]
    BY <1>4, <1>6, <1>7
  <2>2. \A i \in 1..f : ~IsScript(g[i])
    <3>1. /\ ~IsScript(g[1]) /\ ~IsScript(g[2]) /\ ~IsScript(g[3])
          /\ f = 4 => ~IsScript(g[4])
      BY <1>2 DEF IsScript, Settle, Disabling, Locking, CountingDown, Firing
    <3> QED BY <1>2, <3>1
  <2> QED BY <1>7, <2>1, <2>2
<1>8. ASSUME k >= f PROVE w[k + 1] = a[k - f + 1] /\ IsScript(w[k + 1]) /\ k - f < m
  <2>1. PICK j \in 1..m : j = k - f + 1 /\ f + j = k + 1
    <3>1. k - f + 1 \in 1..m /\ f + (k - f + 1) = k + 1
      BY <1>6, <1>8
    <3> QED BY <3>1
  <2>2. w[k + 1] = a[j]
    BY <1>4, <1>5, <1>6, <2>1
  <2>3. a[j] \in {"script"} \X Nat
    BY <1>5
  <2> QED BY <1>6, <1>8, <2>1, <2>2, <2>3 DEF IsScript
<1> QED BY <1>1, <1>4, <1>5, <1>6, <1>7, <1>8

\* One list changes, and what it has called; the others do not notice.
LEMMA OneKeeps ==
    ASSUME NEW s, HasDeferreds(s), NEW ls, NEW ad, NEW rn, NEW q, NEW cs,
           AllKeep(s, ls, ad, rn, q, cs), NEW id \in Layout(s),
           NEW k, NEW l, Changes(ls, k, Layout(s), id, l), "stopOnFalse" \notin l.flags,
           NEW b, NEW a, Changes(ad, b, Layout(s), id, a),
           NEW r, NEW c, Changes(rn, r, Layout(s), id, c),
           NEW p \in [OutcomeLists(s) -> Nat], \A x \in OutcomeLists(s) : x # id => p[x] = q[x],
           NEW t, \A x \in OutcomeLists(s) : x # id => Same(x, cs, t),
           id \in OutcomeLists(s) => Keeps(s, id, l, a, c, p[id], t),
           id[2] = "progress" => Forwarding(l)
    PROVE  AllKeep(s, k, b, r, p, t)
<1>1. k[id] = l /\ b[id] = a /\ r[id] = c /\ Maps(b, Layout(s))
  BY DEF Changes
<1>2. ASSUME NEW x \in OutcomeLists(s), x # id
      PROVE  Keeps(s, x, k[x], b[x], r[x], p[x], t)
  <2>1. x \in Layout(s) /\ Keeps(s, x, ls[x], ad[x], rn[x], q[x], cs) /\ Same(x, cs, t)
    BY <1>2 DEF AllKeep, OutcomeLists
  <2>2. k[x] = ls[x] /\ b[x] = ad[x] /\ r[x] = rn[x] /\ p[x] = q[x]
    BY <1>2, <2>1 DEF Changes
  <2>3. PICK y, w, j : y = ls[x] /\ w = First(s, x) \o ad[x] /\ j = q[x]
    OBVIOUS
  <2>4. Stage(y, w, j, x, t)
    BY <2>1, <2>3, StageSame DEF Keeps
  <2> QED BY <2>1, <2>2, <2>3, <2>4 DEF Keeps
<1>3. \A x \in OutcomeLists(s) : Keeps(s, x, k[x], b[x], r[x], p[x], t)
  BY <1>1, <1>2
<1>4. \A x \in Layout(s) : "stopOnFalse" \notin k[x].flags
  BY <1>1 DEF Changes, AllKeep
<1>5. \A x \in Layout(s) : x[2] = "progress" => Forwarding(k[x])
  BY <1>1 DEF Changes, AllKeep
<1> QED BY <1>1, <1>3, <1>4, <1>5 DEF AllKeep

\* Only the stack changes.
LEMMA StackKeeps ==
    ASSUME NEW s, NEW ls, NEW ad, NEW rn, NEW q, NEW cs, AllKeep(s, ls, ad, rn, q, cs),
           NEW t, \A x \in OutcomeLists(s) : Same(x, cs, t) \/ ~IsFiring(x, t)
    PROVE  AllKeep(s, ls, ad, rn, q, t)
<1>1. ASSUME NEW x \in OutcomeLists(s)
      PROVE  Keeps(s, x, ls[x], ad[x], rn[x], q[x], t)
  <2>1. Keeps(s, x, ls[x], ad[x], rn[x], q[x], cs) /\ (Same(x, cs, t) \/ ~IsFiring(x, t))
    BY DEF AllKeep
  <2>2. PICK y, w, j : y = ls[x] /\ w = First(s, x) \o ad[x] /\ j = q[x]
    OBVIOUS
  <2>3. Stage(y, w, j, x, t)
    BY <2>1, <2>2, StageSame DEF Keeps
  <2> QED BY <2>1, <2>2, <2>3 DEF Keeps
<1> QED BY <1>1 DEF AllKeep

LEMMA KeepFacts ==
    ASSUME NEW s, HasDeferreds(s), NEW ls, NEW ad, NEW rn, NEW q, NEW cs,
           AllKeep(s, ls, ad, rn, q, cs), NEW id \in OutcomeLists(s),
           NEW l \in ListOf(CallbacksFor(s, id)), l = ls[id],
           NEW w, w = First(s, id) \o ad[id]
    PROVE  /\ w \in Seq(CallbacksFor(s, id)) /\ ad[id] \in Seq({"script"} \X Nat)
           /\ Len(First(s, id)) \in {3, 4} /\ Len(w) = Len(First(s, id)) + Len(ad[id])
           /\ Stage(l, w, q[id], id, cs) /\ q[id] \in Nat
           /\ CalledOf(rn[id], ad[id], Len(First(s, id)), q[id], l.args)
           /\ q[id] <= Len(w) /\ (q[id] > 0 => Started(l))
           /\ Started(l) => l.alive /\ l.args > 0
           /\ Started(l) => (l.firing \/ q[id] = Len(w))
           /\ q[id] = 0 \/ Started(l)
           /\ Untold(l, w, q[id]) <=> l.alive /\ ~Started(l)
<1>1. PICK a, r, k, f, cb : /\ a = ad[id] /\ r = rn[id] /\ k = q[id] /\ f = First(s, id)
                            /\ cb = CallbacksFor(s, id)
  OBVIOUS
<1>2. Keeps(s, id, l, a, r, k, cs) /\ k \in Nat
  BY <1>1 DEF AllKeep
<1>3. /\ a \in Seq({"script"} \X Nat) /\ Stage(l, w, k, id, cs) /\ CalledOf(r, a, Len(f), k, l.args)
  BY <1>1, <1>2 DEF Keeps
<1>4. f \in Seq(cb) /\ Len(f) \in {3, 4}
  <2>1. f \in Seq(cb) /\ Len(f) = (IF s = "when" /\ id[1] # "w" THEN 4 ELSE 3)
    BY <1>1, FirstFacts, Zenon
  <2> QED BY <2>1
<1>5. a \in Seq(cb)
  <2>1. ({"script"} \X Nat) \subseteq cb
    BY <1>1 DEF CallbacksFor
  <2> QED BY <1>3, <2>1
<1>6. w \in Seq(cb) /\ Len(w) = Len(f) + Len(a)
  <2>1. w = f \o a
    BY <1>1
  <2>2. f \in Seq(cb) /\ a \in Seq(cb)
    BY <1>4, <1>5
  <2>3. (f \o a) \in Seq(cb) /\ Len(f \o a) = Len(f) + Len(a)
    BY <2>2
  <2> QED BY <2>1, <2>3
<1>7. l \in ListOf(cb)
  BY <1>1
<1>8. /\ k \in Nat /\ k <= Len(w)
      /\ k > 0 => Started(l)
      /\ Started(l) => l.alive /\ l.args > 0
      /\ Started(l) => (l.firing \/ k = Len(w))
      /\ k = 0 \/ Started(l)
      /\ Untold(l, w, k) <=> l.alive /\ ~Started(l)
  <2>1. l \in ListOf(cb) /\ w \in Seq(cb) /\ Stage(l, w, k, id, cs)
    BY <1>3, <1>6, <1>7
  <2>2. k \in Nat /\ k <= Len(w)
    BY <2>1, StageFacts, Zenon
  <2>3. k > 0 => Started(l)
    BY <2>1, StageFacts, Zenon
  <2>4. Untold(l, w, k) <=> l.alive /\ ~Started(l)
    BY <2>1, StageFacts, Zenon
  <2>5. Started(l) => l.alive /\ l.args > 0
    BY <2>1, StageFacts, Zenon
  <2>6. Started(l) => (l.firing \/ k = Len(w))
    BY <2>1, StageFacts, Zenon
  <2>7. k = 0 \/ Started(l)
    BY <2>2, <2>3
  <2> QED BY <2>2, <2>3, <2>4, <2>5, <2>6, <2>7
<1> QED BY <1>1, <1>2, <1>3, <1>4, <1>6, <1>8

\* Unless a list is about to call its first or second callback.
LEMMA ClosedNow ==
    ASSUME NEW s, NEW ls, NEW q, NEW cs, Closing(s, ls, q, cs),
           cs # <<>> /\ Last(cs) \in OutcomeLists(s) => ~(q[Last(cs)] < 2)
    PROVE  AllClosed(s, ls)
BY DEF Closing, AllClosed

\* Nothing is fired or closed.
LEMMA SettledAlike ==
    ASSUME NEW s, NEW ls, NEW oc, NEW n, NEW q, NEW cs, Settled(s, ls, oc, n, q, cs),
           AllClosed(s, ls), HasDeferreds(s), NEW k, NEW t,
           \A x \in OutcomeLists(s) : /\ Started(k[x]) <=> Started(ls[x])
                                      /\ k[x].alive = ls[x].alive
    PROVE  Settled(s, k, oc, n, q, t)
<1>1. \A x \in OutcomeLists(s) : Opposite(x) \in OutcomeLists(s)
  BY OutcomeFacts
<1>2. Closing(s, k, q, t)
  BY <1>1 DEF AllClosed, Closing
<1>3. ClosedByOther(s, k)
  BY <1>1 DEF Settled, ClosedByOther
<1>4. ASSUME s = "when" PROVE WhenCounts(k, n, q)
  <2>1. <<"w", "done">> \in OutcomeLists(s) /\ <<"w", "fail">> \in OutcomeLists(s)
    BY <1>4 DEF OutcomeLists, Layout, Deferreds, Kind
  <2> QED BY <1>4, <2>1 DEF Settled, WhenCounts
<1> QED BY <1>2, <1>3, <1>4 DEF Settled

LEMMA WhenLists ==
    /\ HasDeferreds("when")
    /\ \A d \in Deferreds : /\ <<d, "done">> \in OutcomeLists("when")
                            /\ <<d, "fail">> \in OutcomeLists("when")
                            /\ Opposite(<<d, "done">>) = <<d, "fail">>
                            /\ Opposite(<<d, "fail">>) = <<d, "done">>
BY DEF HasDeferreds, OutcomeLists, Layout, Kind, Opposite

\* Of the list id, one more is called.
OneMoreCalled(s, q, id, p) ==
    /\ q \in [OutcomeLists(s) -> Nat] /\ p \in [OutcomeLists(s) -> Nat]
    /\ p[id] = q[id] + 1 /\ \A x \in OutcomeLists(s) : x # id => p[x] = q[x]

\* A later callback than the first one is called.
LEMMA CallsAgree ==
    ASSUME NEW s, HasDeferreds(s), NEW ls, NEW oc, NEW q,
           OutcomesAgree(s, oc, q), AllClosed(s, ls), NEW id \in OutcomeLists(s), q[id] >= 1,
           NEW p, OneMoreCalled(s, q, id, p), NEW t
    PROVE  Closing(s, ls, p, t) /\ OutcomesAgree(s, oc, p)
<1>1. PICK c \in Nat : c = q[id] /\ c >= 1 /\ c + 1 > 0
  BY DEF OneMoreCalled
<1>2. \A x \in OutcomeLists(s) : /\ x # id => p[x] = q[x]
                                 /\ x = id => p[x] = c + 1 /\ q[x] = c
  BY <1>1 DEF OneMoreCalled
<1>3. Closing(s, ls, p, t)
  BY DEF AllClosed, Closing
<1>4. \A x \in OutcomeLists(s) : p[x] > 0 <=> q[x] > 0
  BY <1>1, <1>2
<1>5. \A x \in OutcomeLists(s) : p[x] \in Nat /\ q[x] \in Nat
  BY DEF OneMoreCalled
<1>6. \A x \in OutcomeLists(s) : Opposite(x) \in OutcomeLists(s)
  BY OutcomeFacts
<1>7. \A x \in OutcomeLists(s) : p[x] = 0 <=> q[x] = 0
  BY <1>4, <1>5
<1> QED BY <1>3, <1>4, <1>6, <1>7 DEF OutcomesAgree

\* What is called is not the fourth callback of an argument of when().
LEMMA CountsAgree ==
    ASSUME NEW ls, NEW n, NEW q, WhenCounts(ls, n, q),
           NEW id \in OutcomeLists("when"), id[1] # "w" => q[id] # 3,
           NEW p, OneMoreCalled("when", q, id, p),
           NEW k, \A x \in OutcomeLists("when") : Started(k[x]) <=> Started(ls[x])
    PROVE  WhenCounts(k, n, p)
<1>1. PICK c \in Nat : c = q[id]
  BY DEF OneMoreCalled
<1>2. \A x \in OutcomeLists("when") : /\ x # id => p[x] = q[x]
                                      /\ x = id => p[x] = c + 1 /\ q[x] = c
  BY <1>1 DEF OneMoreCalled
<1>3. \A d \in {"d", "e", "w"} : /\ <<d, "done">> \in OutcomeLists("when")
                                 /\ <<d, "fail">> \in OutcomeLists("when")
  BY WhenLists DEF Deferreds
<1>4. \A d \in {"d", "e"} : <<d, "done">>[1] # "w" /\ <<d, "fail">>[1] # "w"
  OBVIOUS
<1>5. \A x \in OutcomeLists("when") : x[1] # "w" => (p[x] > 3 <=> q[x] > 3)
  BY <1>1, <1>2
<1>6. \A d \in {"d", "e"} : /\ p[<<d, "done">>] > 3 <=> q[<<d, "done">>] > 3
                            /\ p[<<d, "fail">>] > 3 <=> q[<<d, "fail">>] > 3
  BY <1>3, <1>4, <1>5
<1>7. Counted(p, "d") = Counted(q, "d") /\ Counted(p, "e") = Counted(q, "e")
  BY <1>6 DEF Counted
<1> QED BY <1>3, <1>6, <1>7 DEF WhenCounts

\* The k-th callback of list id, behind the first three, or four, is called.
LEMMA SettledCalls ==
    ASSUME NEW s, HasDeferreds(s), NEW ls, NEW oc, NEW n, NEW q,
           NEW cs, Settled(s, ls, oc, n, q, cs),
           AllClosed(s, ls), NEW id \in OutcomeLists(s), q[id] >= 2,
           s = "when" /\ id[1] # "w" => q[id] # 3,
           NEW p, OneMoreCalled(s, q, id, p), NEW t
    PROVE  Settled(s, ls, oc, n, p, t)
<1>1. OutcomesAgree(s, oc, q) /\ q[id] >= 1
  <2>1. q[id] \in Nat
    BY DEF OneMoreCalled
  <2> QED BY <2>1 DEF Settled
<1>2. Closing(s, ls, p, t) /\ OutcomesAgree(s, oc, p)
  BY <1>1, CallsAgree
<1>3. ASSUME s = "when" PROVE WhenCounts(ls, n, p)
  BY <1>3, CountsAgree DEF Settled
<1> QED BY <1>2, <1>3 DEF Settled

\* Nothing has been called: the value does not matter.
LEMMA CalledNone ==
    ASSUME NEW r, NEW a, NEW f \in Nat, NEW v, CalledOf(r, a, f, 0, v), NEW b, NEW u
    PROVE  CalledOf(r, b, f, 0, u)
<1>1. Len(r) = 0
  BY DEF CalledOf
<1> QED BY <1>1 DEF CalledOf

LEMMA CalledAdds ==
    ASSUME NEW S, NEW r, NEW a \in Seq(S), NEW f \in Nat, NEW k \in Nat, NEW v,
           CalledOf(r, a, f, k, v), k <= f + Len(a), NEW fn \in S
    PROVE  CalledOf(r, Append(a, fn), f, k, v)
<1>1. PICK h \in Nat, j \in Nat : h = Len(r) /\ j = Len(a) /\ h <= j
  <2>1. PICK j \in Nat : j = Len(a)
    OBVIOUS
  <2>2. PICK h : h = (IF k <= f THEN 0 ELSE k - f)
    OBVIOUS
  <2>3. h \in Nat /\ h <= j
    BY <2>1, <2>2
  <2> QED BY <2>1, <2>2, <2>3 DEF CalledOf
<1>2. PICK b : b = Append(a, fn)
  OBVIOUS
<1>3. \A i \in 1..j : b[i] = a[i]
  BY <1>1, <1>2, AppendProperties
<1>4. \A i \in 1..h : i \in 1..j
  BY <1>1
<1> QED BY <1>1, <1>2, <1>3, <1>4 DEF CalledOf

\* A callback of Deferred's or when's.
LEMMA CalledInside ==
    ASSUME NEW r, NEW a, NEW f \in Nat, NEW k \in Nat, k < f, NEW v, CalledOf(r, a, f, k, v)
    PROVE  CalledOf(r, a, f, k + 1, v)
<1>1. Len(r) = 0
  BY DEF CalledOf
<1>2. k + 1 <= f
  OBVIOUS
<1> QED BY <1>1, <1>2 DEF CalledOf

\* A function of a script.
LEMMA CalledMore ==
    ASSUME NEW S, NEW r \in Seq(S), NEW a, NEW f \in Nat, NEW k \in Nat, k >= f, NEW v,
           CalledOf(r, a, f, k, v), NEW run \in S, run.fn = a[k - f + 1], run.value = v,
           NEW c, c = Append(r, run)
    PROVE  CalledOf(c, a, f, k + 1, v)
<1>1. PICK h \in Nat : h = k - f
  OBVIOUS
<1>2. Len(r) = h
  BY <1>1 DEF CalledOf
<1>3. Len(c) = h + 1 /\ c[h + 1] = run /\ \A i \in 1..h : c[i] = r[i]
  BY <1>2, AppendProperties
<1>4. ~(k + 1 <= f) /\ k + 1 - f = h + 1 /\ k - f + 1 = h + 1
  BY <1>1
<1>5. \A i \in 1..(h + 1) : i = h + 1 \/ i \in 1..h
  BY <1>1
<1>6. \A i \in 1..h : r[i].fn = a[i] /\ r[i].value = v
  BY <1>2 DEF CalledOf
<1>7. \A i \in 1..Len(c) : c[i].fn = a[i] /\ c[i].value = v
  BY <1>3, <1>4, <1>5, <1>6
<1> QED BY <1>3, <1>4, <1>7 DEF CalledOf

\* Not both outcomes.
LEMMA OnlyOne ==
    ASSUME NEW s, HasDeferreds(s), NEW ls, \A x \in OutcomeLists(s) : Started(ls[x]) => ls[x].alive,
           NEW q, NEW cs, Closing(s, ls, q, cs), NEW id \in OutcomeLists(s), Started(ls[id]),
           NEW o, o = Opposite(id)
    PROVE  ~Started(ls[o])
<1>1. o \in OutcomeLists(s)
  BY OutcomeFacts
<1> QED BY <1>1 DEF Closing

LEMMA Opposites ==
    ASSUME NEW s, HasDeferreds(s)
    PROVE  \A x \in OutcomeLists(s) :
              /\ x[1] \in Deferreds /\ Opposite(x) \in OutcomeLists(s) /\ Opposite(x) # x
              /\ Opposite(x)[1] = x[1] /\ Opposite(Opposite(x)) = x
              /\ \A y \in OutcomeLists(s) : y[1] = x[1] => y = x \/ y = Opposite(x)
<1>1. ASSUME NEW x \in OutcomeLists(s), NEW o, o = Opposite(x)
      PROVE  /\ x[1] \in Deferreds /\ o \in OutcomeLists(s) /\ o # x
             /\ o[1] = x[1] /\ Opposite(o) = x
             /\ \A y \in OutcomeLists(s) : y[1] = x[1] => y = x \/ y = o
  BY <1>1, OutcomeFacts
<1> QED BY <1>1

OnTop(id, cs) == cs # <<>> /\ Last(cs) = id

\* A list starts to fire.
LEMMA SettledStarts ==
    ASSUME NEW s, HasDeferreds(s), NEW ls, NEW q, AllClosed(s, ls), ClosedByOther(s, ls),
           NEW id \in OutcomeLists(s), ls[id].alive, ~Started(ls[id]), ~(q[id] > 0), q[id] \in Nat,
           NEW k, NEW m, Changes(ls, k, Layout(s), id, m), Started(m), m.alive,
           NEW t, OnTop(id, t)
    PROVE  Closing(s, k, q, t) /\ ClosedByOther(s, k)
<1>1. k[id] = m /\ \A x \in OutcomeLists(s) : x # id => k[x] = ls[x]
  BY DEF Changes, OutcomeLists
<1>2. \A x \in OutcomeLists(s) : /\ Opposite(x) \in OutcomeLists(s) /\ Opposite(x) # x
                                 /\ Opposite(Opposite(x)) = x
  BY OutcomeFacts
<1>3. ASSUME NEW x \in OutcomeLists(s), Started(k[x])
      PROVE  \/ ~k[Opposite(x)].alive
             \/ ~Started(k[Opposite(x)]) /\ t # <<>> /\ Last(t) = x /\ q[x] < 2
  <2>1. PICK o \in OutcomeLists(s) : o = Opposite(x) /\ o # x /\ Opposite(o) = x
    BY <1>2
  <2>2. CASE x = id
    <3>1. ~Started(ls[o])
      BY <2>1, <2>2 DEF AllClosed
    <3>2. ~Started(k[o])
      BY <1>1, <2>1, <2>2, <3>1
    <3>3. q[x] < 2
      BY <2>2
    <3> QED BY <2>1, <2>2, <3>2, <3>3 DEF OnTop
  <2>3. CASE x # id
    <3>1. Started(ls[x])
      BY <1>1, <1>3, <2>3
    <3>2. ~ls[o].alive
      BY <2>1, <3>1 DEF AllClosed
    <3> QED BY <1>1, <2>1, <3>2
  <2> QED BY <2>2, <2>3
<1>4. ASSUME NEW x \in OutcomeLists(s), ~k[x].alive
      PROVE  Started(k[Opposite(x)])
  <2>1. x # id /\ ~ls[x].alive
    BY <1>1, <1>4
  <2>2. Started(ls[Opposite(x)])
    BY <2>1 DEF ClosedByOther
  <2> QED BY <1>1, <1>2, <2>2
<1> QED BY <1>3, <1>4 DEF Closing, ClosedByOther

\* The first callback of a list settles its Deferred.
LEMMA SettledFirst ==
    ASSUME NEW s, HasDeferreds(s), NEW ls, NEW oc, NEW n, NEW q,
           NEW cs, Settled(s, ls, oc, n, q, cs),
           \A x \in OutcomeLists(s) : /\ Started(ls[x]) => ls[x].alive
                                      /\ q[x] > 0 => Started(ls[x]),
           NEW id \in OutcomeLists(s), Started(ls[id]), q[id] = 0, cs # <<>>, Last(cs) = id,
           NEW p, OneMoreCalled(s, q, id, p),
           NEW b, b = [oc EXCEPT ![id[1]] = OutcomeOf(id)]
    PROVE  Settled(s, ls, b, n, p, cs)
<1>1. \A x \in OutcomeLists(s) : /\ x # id => p[x] = q[x]
                                 /\ x = id => p[x] = 1
                                 /\ q[x] \in Nat
  BY DEF OneMoreCalled
<1>2. PICK o \in OutcomeLists(s) : o = Opposite(id) /\ o # id
  BY OutcomeFacts
<1>3. Closing(s, ls, q, cs)
  BY DEF Settled
<1>4. ~Started(ls[o]) /\ q[o] = 0
  <2>1. ~Started(ls[o])
    BY <1>2, <1>3, OnlyOne
  <2> QED BY <1>1, <2>1
<1>5. Closing(s, ls, p, cs)
  BY <1>1, <1>3 DEF Closing
<1>6. Maps(b, Deferreds) /\ b[id[1]] = OutcomeOf(id) /\ \A d \in Deferreds : d # id[1] => b[d] = oc[d]
  <2>1. id[1] \in Deferreds
    BY OutcomeFacts
  <2> QED BY <2>1 DEF Settled, Maps
<1>7. OutcomesAgree(s, b, p)
  <2>1. ASSUME NEW x \in OutcomeLists(s)
        PROVE  /\ p[x] > 0 => b[x[1]] = OutcomeOf(x)
               /\ p[x] = 0 /\ p[Opposite(x)] = 0 => b[x[1]] = "pending"
    <3>1. /\ x[1] \in Deferreds /\ Opposite(x) \in OutcomeLists(s)
          /\ Opposite(x)[1] = x[1] /\ Opposite(Opposite(x)) = x
      BY Opposites
    <3>2. CASE x = id
      <4>1. p[x] = 1 /\ b[x[1]] = OutcomeOf(x)
        BY <1>1, <1>6, <3>2
      <4> QED BY <4>1
    <3>3. CASE x = o
      <4>1. Opposite(x) = id
        BY <1>2, <3>3, OutcomeFacts
      <4>2. p[x] = 0 /\ p[Opposite(x)] = 1
        BY <1>1, <1>2, <1>4, <3>3, <4>1
      <4> QED BY <4>2
    <3>4. CASE x # id /\ x # o
      <4>1. x[1] # id[1]
        <5>1. \A y \in OutcomeLists(s) : y[1] = id[1] => y = id \/ y = o
          BY <1>2, Opposites
        <5> QED BY <3>4, <5>1
      <4>2. b[x[1]] = oc[x[1]]
        BY <1>6, <3>1, <4>1
      <4>3. Opposite(x) # id
        BY <3>1, <4>1
      <4>4. p[x] = q[x] /\ p[Opposite(x)] = q[Opposite(x)]
        BY <1>1, <3>1, <3>4, <4>3
      <4> QED BY <4>2, <4>4 DEF Settled, OutcomesAgree
    <3> QED BY <3>2, <3>3, <3>4
  <2> QED BY <2>1 DEF OutcomesAgree
<1>8. ASSUME s = "when" PROVE WhenCounts(ls, n, p)
  <2>1. WhenCounts(ls, n, q) /\ id \in OutcomeLists("when") /\ OneMoreCalled("when", q, id, p)
    BY <1>8 DEF Settled
  <2>2. \A x \in OutcomeLists("when") : Started(ls[x]) <=> Started(ls[x])
    OBVIOUS
  <2>3. q[id] # 3
    OBVIOUS
  <2> QED BY <2>1, <2>2, <2>3, CountsAgree, Zenon
<1> QED BY <1>5, <1>6, <1>7, <1>8 DEF Settled

Sound(s, ls, q) ==
    /\ q \in [OutcomeLists(s) -> Nat]
    /\ \A x \in OutcomeLists(s) : /\ Started(ls[x]) => ls[x].alive
                                  /\ q[x] > 0 => Started(ls[x])

\* The second callback of a list closes the one for the other outcome.
LEMMA SettledCloses ==
    ASSUME NEW s, HasDeferreds(s), NEW ls, NEW oc, NEW n, NEW q, Sound(s, ls, q),
           NEW cs, Settled(s, ls, oc, n, q, cs),
           NEW id \in OutcomeLists(s), Started(ls[id]), q[id] = 1, cs # <<>>, Last(cs) = id,
           NEW o, o = Opposite(id), NEW k, NEW m, Changes(ls, k, Layout(s), o, m),
           ~Started(m), ~m.alive, NEW p, OneMoreCalled(s, q, id, p)
    PROVE  Settled(s, k, oc, n, p, cs)
<1>1. q \in [OutcomeLists(s) -> Nat] /\ \A x \in OutcomeLists(s) : Started(ls[x]) => ls[x].alive
  BY DEF Sound
<1>2. o \in OutcomeLists(s) /\ o # id /\ Opposite(o) = id
  BY Opposites
<1>3. ~Started(ls[o])
  BY <1>1, OnlyOne DEF Settled
<1>4. /\ k[o] = m /\ \A x \in OutcomeLists(s) : x # o => k[x] = ls[x]
      /\ \A x \in OutcomeLists(s) : Started(k[x]) <=> Started(ls[x])
  <2>1. k[o] = m /\ \A x \in OutcomeLists(s) : x # o => k[x] = ls[x]
    BY DEF Changes, OutcomeLists
  <2> QED BY <1>3, <2>1
<1>5. AllClosed(s, k)
  <2>1. ASSUME NEW x \in OutcomeLists(s), Started(k[x]) PROVE ~k[Opposite(x)].alive
    <3>1. x # o /\ Started(ls[x])
      BY <1>3, <1>4, <2>1
    <3>2. CASE x = id
      BY <1>4, <3>2
    <3>3. CASE x # id
      <4>1. ~ls[Opposite(x)].alive
        BY <3>1, <3>3 DEF Settled, Closing
      <4>2. Opposite(x) \in OutcomeLists(s) /\ Opposite(x) # o
        BY <1>2, <3>3, Opposites
      <4> QED BY <1>4, <4>1, <4>2
    <3> QED BY <3>2, <3>3
  <2> QED BY <2>1 DEF AllClosed
<1>6. ClosedByOther(s, k)
  <2>1. ASSUME NEW x \in OutcomeLists(s), ~k[x].alive PROVE Started(k[Opposite(x)])
    <3>1. CASE x = o
      BY <1>2, <1>4, <3>1
    <3>2. CASE x # o
      BY <1>4, <2>1, <3>2, Opposites DEF Settled, ClosedByOther
    <3> QED BY <3>1, <3>2
  <2> QED BY <2>1 DEF ClosedByOther
<1>7. q[id] >= 1 /\ OutcomesAgree(s, oc, q)
  BY DEF Settled
<1>8. Closing(s, k, p, cs) /\ OutcomesAgree(s, oc, p)
  BY <1>1, <1>5, <1>7, CallsAgree
<1>9. ASSUME s = "when" PROVE WhenCounts(k, n, p)
  <2>1. WhenCounts(ls, n, q) /\ id \in OutcomeLists("when") /\ OneMoreCalled("when", q, id, p)
    BY <1>1, <1>9 DEF Settled
  <2>2. \A x \in OutcomeLists("when") : Started(k[x]) <=> Started(ls[x])
    BY <1>4, <1>9
  <2>3. q[id] # 3
    OBVIOUS
  <2> QED BY <1>7, <2>1, <2>2, <2>3, CountsAgree, Zenon
<1> QED BY <1>6, <1>8, <1>9 DEF Settled

\* An argument of when() calls its fourth callback.
LEMMA Countdown ==
    ASSUME NEW q, NEW d \in {"d", "e"},
           NEW kind \in {"done", "fail"}, NEW id, id = <<d, kind>>, q[id] = 3,
           NEW p, OneMoreCalled("when", q, id, p)
    PROVE  \E e \in {"d", "e"} :
              /\ {"d", "e"} = {d, e} /\ e # d
              /\ Counted(q, "d") + Counted(q, "e") = Counted(q, d) + Counted(q, e)
              /\ Counted(p, "d") + Counted(p, "e") = Counted(p, d) + Counted(p, e)
              /\ Counted(p, e) = Counted(q, e) /\ Counted(q, e) \in {0, 1}
              /\ kind = "done" => Counted(q, d) = 0 /\ Counted(p, d) = 1
              /\ kind = "fail" => Counted(p, d) = Counted(q, d)
              /\ Counted(q, d) \in {0, 1}
              /\ p[<<e, "fail">>] = q[<<e, "fail">>]
              /\ kind = "done" => p[<<d, "fail">>] = q[<<d, "fail">>]
              /\ kind = "fail" => p[<<d, "fail">>] > 3
<1>1. PICK e \in {"d", "e"} : {"d", "e"} = {d, e} /\ e # d
  OBVIOUS
<1>2. \A x \in {"d", "e"} : \A y \in {"done", "fail"} :
         /\ <<x, y>> \in OutcomeLists("when")
         /\ <<x, y>> # <<d, kind>> => p[<<x, y>>] = q[<<x, y>>]
         /\ <<x, y>> = <<d, kind>> => p[<<x, y>>] = 4 /\ q[<<x, y>>] = 3
  <2>1. \A x \in {"d", "e"} : \A y \in {"done", "fail"} : <<x, y>> \in OutcomeLists("when")
    BY WhenLists DEF Deferreds
  <2>2. id \in OutcomeLists("when")
    BY <2>1
  <2>3. p[id] = 4 /\ q[id] = 3 /\ \A x \in OutcomeLists("when") : x # id => p[x] = q[x]
    BY <2>2 DEF OneMoreCalled
  <2> QED BY <2>1, <2>2, <2>3
<1>3. p[<<e, "fail">>] = q[<<e, "fail">>] /\ p[<<e, "done">>] = q[<<e, "done">>]
  BY <1>1, <1>2
<1>4. Counted(p, e) = Counted(q, e) /\ Counted(q, e) \in {0, 1} /\ Counted(q, d) \in {0, 1}
  BY <1>3 DEF Counted
<1>5. ASSUME kind = "done"
      PROVE  p[<<d, "fail">>] = q[<<d, "fail">>] /\ Counted(q, d) = 0 /\ Counted(p, d) = 1
  BY <1>2, <1>5 DEF Counted
<1>6. ASSUME kind = "fail" PROVE Counted(p, d) = Counted(q, d) /\ p[<<d, "fail">>] > 3
  BY <1>2, <1>6 DEF Counted
<1>7. /\ Counted(q, "d") + Counted(q, "e") = Counted(q, d) + Counted(q, e)
      /\ Counted(p, "d") + Counted(p, "e") = Counted(p, d) + Counted(p, e)
  <2>1. CASE d = "d"
    BY <1>1, <2>1
  <2>2. CASE d = "e"
    <3>1. e = "d"
      BY <1>1, <2>2
    <3>2. PICK a, b, u, v : /\ a = Counted(q, "d") /\ b = Counted(q, "e")
                            /\ u = Counted(p, "d") /\ v = Counted(p, "e")
      OBVIOUS
    <3>3. a \in Int /\ b \in Int /\ u \in Int /\ v \in Int
      BY <3>2 DEF Counted
    <3>4. a + b = b + a /\ u + v = v + u
      BY <3>3
    <3> QED BY <2>2, <3>1, <3>2, <3>4
  <2> QED BY <2>1, <2>2
<1> QED BY <1>1, <1>3, <1>4, <1>5, <1>6, <1>7

\* The list that it fires has not been closed.
LEMMA CanResolve ==
    ASSUME NEW ls, NEW q, Sound("when", ls, q), AllClosed("when", ls), ClosedByOther("when", ls),
           NEW n, WhenCounts(ls, n, q), n = 1, NEW d \in {"d", "e"}, q[<<d, "done">>] = 3,
           Started(ls[<<d, "done">>])
    PROVE  ls[<<"w", "done">>].alive /\ ~Started(ls[<<"w", "done">>])
<1>1. \A x \in {"d", "e", "w"} : /\ <<x, "done">> \in OutcomeLists("when")
                                 /\ <<x, "fail">> \in OutcomeLists("when")
                                 /\ Opposite(<<x, "done">>) = <<x, "fail">>
                                 /\ Opposite(<<x, "fail">>) = <<x, "done">>
  BY WhenLists DEF Deferreds
<1>2. PICK e \in {"d", "e"} : {"d", "e"} = {d, e} /\ e # d
  OBVIOUS
<1>3. \A x \in OutcomeLists("when") : q[x] \in Nat /\ (q[x] > 0 => Started(ls[x]))
  BY DEF Sound
<1>4. ~(q[<<d, "done">>] > 3)
  OBVIOUS
<1>5. q[<<e, "done">>] > 3
  <2>1. Counted(q, d) = 0
    BY <1>4 DEF Counted
  <2>2. n = 2 - Counted(q, "d") - Counted(q, "e")
    BY DEF WhenCounts
  <2>3. CASE Counted(q, e) = 0
    BY <1>2, <2>1, <2>2, <2>3
  <2> QED BY <2>3 DEF Counted
<1>6. Started(ls[<<e, "done">>])
  BY <1>1, <1>3, <1>5
<1>7. ASSUME NEW x \in {"d", "e"}, Started(ls[<<x, "done">>]) PROVE ~(q[<<x, "fail">>] > 3)
  <2>1. ~ls[<<x, "fail">>].alive
    BY <1>1, <1>7 DEF AllClosed
  <2>2. ~Started(ls[<<x, "fail">>])
    BY <1>1, <2>1 DEF Sound
  <2> QED BY <1>1, <1>3, <2>2
<1>8. ~Started(ls[<<"w", "fail">>])
  BY <1>2, <1>6, <1>7 DEF WhenCounts
<1> QED BY <1>1, <1>8 DEF ClosedByOther, WhenCounts

LEMMA CanReject ==
    ASSUME NEW ls, NEW q, Sound("when", ls, q), AllClosed("when", ls), ClosedByOther("when", ls),
           NEW n, WhenCounts(ls, n, q), NEW d \in {"d", "e"}, Started(ls[<<d, "fail">>])
    PROVE  ls[<<"w", "fail">>].alive
<1>1. \A x \in {"d", "e", "w"} : /\ <<x, "done">> \in OutcomeLists("when")
                                 /\ <<x, "fail">> \in OutcomeLists("when")
                                 /\ Opposite(<<x, "done">>) = <<x, "fail">>
                                 /\ Opposite(<<x, "fail">>) = <<x, "done">>
  BY WhenLists DEF Deferreds
<1>2. ~Started(ls[<<d, "done">>])
  <2>1. ~ls[<<d, "done">>].alive
    BY <1>1 DEF AllClosed
  <2> QED BY <1>1, <2>1 DEF Sound
<1>3. ~(q[<<d, "done">>] > 3)
  <2>1. q[<<d, "done">>] \in Nat
    BY <1>1 DEF Sound
  <2> QED BY <1>1, <1>2, <2>1 DEF Sound
<1>4. n # 0
  <2>1. Counted(q, d) = 0 /\ \A x \in {"d", "e"} : Counted(q, x) \in {0, 1}
    BY <1>3 DEF Counted
  <2>2. n = 2 - Counted(q, "d") - Counted(q, "e")
    BY DEF WhenCounts
  <2> QED BY <2>1, <2>2
<1>5. ~Started(ls[<<"w", "done">>])
  BY <1>4 DEF WhenCounts
<1> QED BY <1>1, <1>5 DEF ClosedByOther

\* It fires a list of when()'s own Deferred.
LEMMA SettledFires ==
    ASSUME NEW s, HasDeferreds(s), NEW ls, NEW oc, NEW n, NEW q, Sound(s, ls, q), NEW cs,
           Settled(s, ls, oc, n, q, cs), AllClosed(s, ls),
           NEW id \in OutcomeLists(s), q[id] >= 1, NEW p, OneMoreCalled(s, q, id, p),
           NEW o \in OutcomeLists(s), o # id, ls[o].alive, ~Started(ls[o]),
           NEW k, NEW m, Changes(ls, k, Layout(s), o, m), Started(m), m.alive,
           NEW t, OnTop(o, t)
    PROVE  Closing(s, k, p, t) /\ ClosedByOther(s, k) /\ OutcomesAgree(s, oc, p)
<1>1. q \in [OutcomeLists(s) -> Nat] /\ (q[o] > 0 => Started(ls[o]))
  BY DEF Sound
<1>2. ~(p[o] > 0) /\ p[o] \in Nat
  <2>1. q[o] \in Nat /\ p[o] = q[o]
    BY DEF OneMoreCalled
  <2> QED BY <1>1, <2>1
<1>3. OutcomesAgree(s, oc, p)
  BY <1>1, CallsAgree DEF Settled
<1>4. ClosedByOther(s, ls)
  BY DEF Settled
<1>5. Closing(s, k, p, t) /\ ClosedByOther(s, k)
  BY <1>2, <1>4, SettledStarts, Zenon
<1> QED BY <1>3, <1>5

LEMMA SettledCounts ==
    ASSUME NEW ls, NEW oc, NEW n, NEW q, Sound("when", ls, q), NEW cs,
           Settled("when", ls, oc, n, q, cs), AllClosed("when", ls),
           NEW d \in {"d", "e"}, NEW id, id = <<d, "done">>, q[id] = 3,
           NEW p, OneMoreCalled("when", q, id, p), NEW t,
           NEW k, NEW m,
           \/ n # 1 /\ k = ls
           \/ /\ n = 1 /\ Changes(ls, k, Layout("when"), <<"w", "done">>, m)
              /\ Started(m) /\ m.alive /\ OnTop(<<"w", "done">>, t)
    PROVE  Settled("when", k, oc, n - 1, p, t)
<1>1. PICK w, wf : w = <<"w", "done">> /\ wf = <<"w", "fail">>
  OBVIOUS
<1>2. /\ HasDeferreds("when") /\ id \in OutcomeLists("when") /\ w \in OutcomeLists("when") /\ w # id
      /\ wf \in OutcomeLists("when") /\ wf # w
  BY <1>1, WhenLists DEF Deferreds
<1>3. /\ WhenCounts(ls, n, q) /\ ClosedByOther("when", ls) /\ Maps(oc, Deferreds)
      /\ OutcomesAgree("when", oc, q)
  BY DEF Settled
<1>4. q \in [OutcomeLists("when") -> Nat] /\ q[id] >= 1
  BY DEF Sound
<1>5. PICK e \in {"d", "e"} :
        /\ {"d", "e"} = {d, e} /\ e # d
        /\ Counted(q, "d") + Counted(q, "e") = Counted(q, d) + Counted(q, e)
        /\ Counted(p, "d") + Counted(p, "e") = Counted(p, d) + Counted(p, e)
        /\ Counted(p, e) = Counted(q, e) /\ Counted(q, e) \in {0, 1}
        /\ Counted(q, d) = 0 /\ Counted(p, d) = 1
        /\ p[<<e, "fail">>] = q[<<e, "fail">>] /\ p[<<d, "fail">>] = q[<<d, "fail">>]
  <2>1. PICK kind \in {"done", "fail"} : kind = "done"
    OBVIOUS
  <2>2. id = <<d, kind>>
    BY <2>1
  <2> QED BY <2>1, <2>2, Countdown
<1>6. PICK c \in {0, 1} : c = Counted(q, e) /\ n = 2 - c /\ n - 1 = 2 - (1 + c)
  <2>1. PICK c \in {0, 1} : c = Counted(q, e)
    BY <1>5
  <2>2. PICK a, b : a = Counted(q, "d") /\ b = Counted(q, "e") /\ a \in Int /\ b \in Int
    BY DEF Counted
  <2>3. n = 2 - a - b /\ a + b = 0 + c
    BY <1>3, <1>5, <2>1, <2>2 DEF WhenCounts
  <2>4. n = 2 - c /\ n - 1 = 2 - (1 + c)
    BY <2>2, <2>3
  <2> QED BY <2>1, <2>4
<1>7. n - 1 = 2 - Counted(p, "d") - Counted(p, "e")
  <2>1. PICK a, b : a = Counted(p, "d") /\ b = Counted(p, "e") /\ a \in Int /\ b \in Int
    BY DEF Counted
  <2>2. a + b = 1 + c
    BY <1>5, <1>6, <2>1
  <2> QED BY <1>6, <2>1, <2>2
<1>8. p[<<"d", "fail">>] > 3 <=> q[<<"d", "fail">>] > 3
  BY <1>5
<1>9. p[<<"e", "fail">>] > 3 <=> q[<<"e", "fail">>] > 3
  BY <1>5
<1>10. CASE n # 1 /\ k = ls
  <2>1. n - 1 # 0 /\ n # 0
    BY <1>6, <1>10
  <2>2. WhenCounts(ls, n - 1, p)
    BY <1>3, <1>7, <1>8, <1>9, <2>1 DEF WhenCounts
  <2>3. Closing("when", ls, p, t) /\ OutcomesAgree("when", oc, p)
    BY <1>2, <1>3, <1>4, CallsAgree
  <2> QED BY <1>3, <1>10, <2>2, <2>3 DEF Settled
<1>11. CASE /\ n = 1 /\ Changes(ls, k, Layout("when"), w, m)
            /\ Started(m) /\ m.alive /\ OnTop(w, t)
  <2>1. Started(ls[id])
    BY <1>2 DEF Sound
  <2>2. ls[w].alive /\ ~Started(ls[w])
    BY <1>1, <1>3, <1>11, <2>1, CanResolve
  <2>3. Closing("when", k, p, t) /\ ClosedByOther("when", k) /\ OutcomesAgree("when", oc, p)
    BY <1>2, <1>4, <1>11, <2>2, SettledFires, Zenon
  <2>4. k[w] = m /\ k[wf] = ls[wf]
    BY <1>2, <1>11 DEF Changes, OutcomeLists
  <2>5. n - 1 = 0
    BY <1>11
  <2>6. WhenCounts(k, n - 1, p)
    BY <1>1, <1>3, <1>7, <1>8, <1>9, <1>11, <2>4, <2>5 DEF WhenCounts
  <2> QED BY <1>3, <2>3, <2>6 DEF Settled
<1> QED BY <1>1, <1>10, <1>11

LEMMA SettledRejects ==
    ASSUME NEW ls, NEW oc, NEW n, NEW q, Sound("when", ls, q), NEW cs,
           Settled("when", ls, oc, n, q, cs), AllClosed("when", ls),
           NEW d \in {"d", "e"}, NEW id, id = <<d, "fail">>, q[id] = 3,
           NEW p, OneMoreCalled("when", q, id, p), NEW t,
           NEW k, NEW m,
           \/ Started(ls[<<"w", "fail">>]) /\ k = ls
           \/ /\ ~Started(ls[<<"w", "fail">>])
              /\ Changes(ls, k, Layout("when"), <<"w", "fail">>, m)
              /\ Started(m) /\ m.alive /\ OnTop(<<"w", "fail">>, t)
    PROVE  Settled("when", k, oc, n, p, t)
<1>1. PICK w, wd : w = <<"w", "fail">> /\ wd = <<"w", "done">>
  OBVIOUS
<1>2. /\ HasDeferreds("when") /\ id \in OutcomeLists("when") /\ w \in OutcomeLists("when") /\ w # id
      /\ wd \in OutcomeLists("when") /\ wd # w
  BY <1>1, WhenLists DEF Deferreds
<1>3. /\ WhenCounts(ls, n, q) /\ ClosedByOther("when", ls) /\ Maps(oc, Deferreds)
      /\ OutcomesAgree("when", oc, q)
  BY DEF Settled
<1>4. q \in [OutcomeLists("when") -> Nat] /\ q[id] >= 1
  BY DEF Sound
<1>5. PICK e \in {"d", "e"} :
        /\ {"d", "e"} = {d, e} /\ e # d
        /\ Counted(p, e) = Counted(q, e) /\ Counted(p, d) = Counted(q, d)
        /\ p[<<d, "fail">>] > 3
  <2>1. PICK kind \in {"done", "fail"} : kind = "fail"
    OBVIOUS
  <2>2. id = <<d, kind>>
    BY <2>1
  <2> QED BY <2>1, <2>2, Countdown
<1>6. Counted(p, "d") = Counted(q, "d") /\ Counted(p, "e") = Counted(q, "e")
  BY <1>5
<1>7. p[<<"d", "fail">>] > 3 \/ p[<<"e", "fail">>] > 3
  BY <1>5
<1>8. CASE Started(ls[w]) /\ k = ls
  <2>1. WhenCounts(ls, n, p)
    BY <1>1, <1>3, <1>6, <1>7, <1>8 DEF WhenCounts
  <2>2. Closing("when", ls, p, t) /\ OutcomesAgree("when", oc, p)
    BY <1>2, <1>3, <1>4, CallsAgree
  <2> QED BY <1>3, <1>8, <2>1, <2>2 DEF Settled
<1>9. CASE /\ ~Started(ls[w]) /\ Changes(ls, k, Layout("when"), w, m)
           /\ Started(m) /\ m.alive /\ OnTop(w, t)
  <2>1. Started(ls[id])
    BY <1>2 DEF Sound
  <2>2. ls[w].alive
    BY <1>1, <1>3, <2>1, CanReject
  <2>3. Closing("when", k, p, t) /\ ClosedByOther("when", k) /\ OutcomesAgree("when", oc, p)
    BY <1>2, <1>4, <1>9, <2>2, SettledFires, Zenon
  <2>4. k[w] = m /\ k[wd] = ls[wd]
    BY <1>2, <1>9 DEF Changes, OutcomeLists
  <2>5. WhenCounts(k, n, p)
    BY <1>1, <1>3, <1>6, <1>7, <1>9, <2>4 DEF WhenCounts
  <2> QED BY <1>3, <2>3, <2>5 DEF Settled
<1> QED BY <1>1, <1>8, <1>9

\* Whatever is called, a list holds what it held, or nothing.
SameKind(l, m) == m.flags = l.flags /\ (m.list = l.list \/ m.list = <<>>)

LEMMA StartHolds ==
    ASSUME NEW cb, NEW l \in ListOf(cb), NEW st \in Seq(Int), NEW x, NEW v, NEW from,
           x = [l EXCEPT !.firing = FALSE, !.stack = st] \/ x = l, NEW m, m = StartFire(x, v, from)
    PROVE  SameKind(l, m)
<1>1. x.flags = l.flags /\ x.list = l.list /\ DOMAIN x = DOMAIN l
  BY DEF ListOf
<1>2. PICK mem, len : m = [x EXCEPT !.memory = mem, !.firing = TRUE, !.index = from,
                                    !.length = len, !.args = v]
  BY DEF StartFire
<1>3. m.flags = x.flags /\ m.list = x.list
  BY <1>2 DEF ListOf
<1> QED BY <1>1, <1>3 DEF SameKind

LEMMA KindStays ==
    ASSUME NEW cb, NEW l \in ListOf(cb), NEW v, NEW m,
           \/ m = FireWith(l, v)
           \/ m = EndFire(l)
           \/ m = Disable(l)
           \/ m = Lock(l)
           \/ m = Advance(l)
    PROVE  SameKind(l, m)
<1>1. ASSUME m = [l EXCEPT !.list = <<>>, !.alive = FALSE, !.stack = <<>>, !.open = FALSE,
                           !.memory = NoValue]
      PROVE  SameKind(l, m)
  BY <1>1 DEF SameKind, ListOf
<1>2. CASE m = Disable(l)
  BY <1>1, <1>2 DEF Disable
<1>3. CASE m = Lock(l)
  <2>1. m = Disable(l) \/ m = [l EXCEPT !.stack = <<>>, !.open = FALSE]
    BY <1>3, Zenon DEF Lock
  <2>2. CASE m = [l EXCEPT !.stack = <<>>, !.open = FALSE]
    BY <2>2 DEF SameKind, ListOf
  <2> QED BY <1>2, <2>1, <2>2
<1>4. CASE m = Advance(l)
  BY <1>4 DEF Advance, SameKind, ListOf
<1>5. l.stack \in Seq(Int)
  BY DEF ListOf
<1>6. CASE m = FireWith(l, v)
  <2>1. \/ m = l
        \/ m = [l EXCEPT !.stack = Append(@, v)]
        \/ m = StartFire(l, v, 0)
    BY <1>6, Zenon DEF FireWith
  <2>2. CASE m = [l EXCEPT !.stack = Append(@, v)]
    BY <2>2 DEF SameKind, ListOf
  <2>3. CASE m = StartFire(l, v, 0)
    BY <1>5, <2>3, StartHolds
  <2> QED BY <2>1, <2>2, <2>3 DEF SameKind
<1>7. CASE m = EndFire(l)
  <2>1. PICK quiet : quiet = [l EXCEPT !.firing = FALSE]
    OBVIOUS
  <2>2. quiet.flags = l.flags /\ quiet.list = l.list /\ quiet.stack = l.stack
    BY <2>1 DEF ListOf
  <2>3. \/ m = quiet
        \/ /\ quiet.stack # <<>>
           /\ m = StartFire([quiet EXCEPT !.stack = Tail(@)], Head(l.stack), 0)
        \/ m = Disable(quiet)
        \/ m = [quiet EXCEPT !.list = <<>>]
    BY <1>7, <2>1, <2>2, Zenon DEF EndFire
  <2>4. CASE m = quiet
    BY <2>2, <2>4 DEF SameKind
  <2>5. CASE /\ quiet.stack # <<>>
             /\ m = StartFire([quiet EXCEPT !.stack = Tail(@)], Head(l.stack), 0)
    <3>1. PICK st : st = Tail(l.stack) /\ st \in Seq(Int)
      <4>1. PICK u \in Seq(Int) : u = l.stack /\ u # <<>>
        BY <1>5, <2>2, <2>5
      <4>2. Tail(u) \in Seq(Int)
        BY <4>1, HeadTailProperties
      <4> QED BY <4>1, <4>2
    <3>2. PICK x : x = [quiet EXCEPT !.stack = Tail(@)]
      OBVIOUS
    <3>3. x = [quiet EXCEPT !.stack = st]
      BY <2>2, <3>1, <3>2
    <3>4. x = [l EXCEPT !.firing = FALSE, !.stack = st]
      BY <2>1, <3>3 DEF ListOf
    <3>5. PICK v2 : v2 = Head(l.stack)
      OBVIOUS
    <3>6. m = StartFire(x, v2, 0)
      BY <2>5, <3>2, <3>5
    <3> QED BY <3>1, <3>4, <3>6, StartHolds
  <2>6. CASE m = Disable(quiet)
    BY <2>1, <2>2, <2>6 DEF Disable, SameKind, ListOf
  <2>7. CASE m = [quiet EXCEPT !.list = <<>>]
    BY <2>1, <2>2, <2>7 DEF SameKind, ListOf
  <2> QED BY <2>3, <2>4, <2>5, <2>6, <2>7
<1> QED BY <1>2, <1>3, <1>4, <1>6, <1>7

LEMMA ForwardingStays ==
    ASSUME NEW l, NEW m, SameKind(l, m), Forwarding(l), "stopOnFalse" \notin l.flags
    PROVE  Forwarding(m) /\ "stopOnFalse" \notin m.flags
<1>1. CASE m.list = <<>>
  <2>1. Forwarding(m)
    BY <1>1 DEF Forwarding
  <2> QED BY <2>1 DEF SameKind
<1>2. CASE m.list = l.list
  BY <1>2 DEF SameKind, Forwarding
<1> QED BY <1>1, <1>2 DEF SameKind

LEMMA AddForwards ==
    ASSUME NEW cb, NEW l \in ListOf(cb), NEW fn \in cb, IsScript(fn), NEW m, m = AddTo(l, fn),
           Forwarding(l), "stopOnFalse" \notin l.flags
    PROVE  Forwarding(m) /\ "stopOnFalse" \notin m.flags
<1>1. CASE ~l.alive
  <2>1. m = l
    BY <1>1, Zenon DEF AddTo
  <2> QED BY <2>1
<1>2. CASE l.alive
  <2>1. PICK a : /\ a = l \/ a = [l EXCEPT !.list = Append(@, fn)]
                 /\ m = IF l.firing THEN [a EXCEPT !.length = Len(a.list)]
                        ELSE IF l.memory \in {NoValue, Halted} THEN a
                        ELSE StartFire(a, l.memory, Len(l.list))
    BY <1>2, AddIs
  <2>2. l.list \in Seq(cb) /\ Append(l.list, fn) \in Seq(cb)
    BY AppendProperties DEF ListOf
  <2>3. /\ a \in ListOf(cb) /\ a.flags = l.flags
        /\ a.list = l.list \/ a.list = Append(l.list, fn)
    BY <2>1, <2>2 DEF ListOf
  <2>4. PICK x \in Seq(cb) : x = Append(l.list, fn)
    BY <2>2
  <2>5. PICK h \in Nat : /\ h = Len(l.list)
                         /\ \A i \in 1..Len(x) : x[i] = fn \/ (i \in 1..h /\ x[i] = l.list[i])
    <3>0. PICK h \in Nat : h = Len(l.list)
      BY <2>2
    <3>1. Len(x) = h + 1 /\ x[h + 1] = fn /\ \A i \in 1..h : x[i] = l.list[i]
      BY <2>2, <2>4, <3>0, AppendProperties
    <3>2. \A i \in 1..(h + 1) : i = h + 1 \/ i \in 1..h
      OBVIOUS
    <3> QED BY <3>0, <3>1, <3>2
  <2>6. Forwarding(a)
    <3>1. CASE a.list = x
      <4>1. \A i \in 1..Len(x) : IsScript(x[i]) \/ x[i] = Firing(<<"w", "progress">>)
        BY <2>4, <2>5 DEF Forwarding
      <4> QED BY <3>1, <4>1 DEF Forwarding
    <3>2. CASE a.list = l.list
      BY <3>2 DEF Forwarding
    <3> QED BY <2>3, <2>4, <3>1, <3>2
  <2>7. SameKind(a, m)
    <3>1. CASE m = [a EXCEPT !.length = Len(a.list)]
      BY <2>3, <3>1 DEF SameKind, ListOf
    <3>2. CASE m = StartFire(a, l.memory, Len(l.list))
      <4>1. <<>> \in Seq(Int)
        OBVIOUS
      <4> QED BY <2>3, <3>2, <4>1, StartHolds
    <3> QED BY <2>1, <3>1, <3>2 DEF SameKind
  <2> QED BY <2>3, <2>6, <2>7, ForwardingStays
<1> QED BY <1>1, <1>2

PromisesOf(s, ls, ad, rn, oc, n, q, cs) ==
    AllKeep(s, ls, ad, rn, q, cs) /\ Settled(s, ls, oc, n, q, cs)

\* What the invariant says of a list that may be fired.
LEMMA ListFacts ==
    ASSUME NEW s, NEW ls, NEW rn, NEW cs, NEW o, ValuesGood(s, ls, rn, cs, o),
           NEW id \in Layout(s), NEW l, l = ls[id], NEW cb, cb = CallbacksFor(s, id)
    PROVE  /\ l \in ListOf(cb) /\ Maps(ls, Layout(s)) /\ Maps(rn, Layout(s))
           /\ StackSound(cs, Layout(s)) /\ User \notin Layout(s)
           /\ IsFiring(id, cs) => l.firing
           /\ IsFiring(id, cs) /\ ~InCall(id, cs) => l.index >= 0
           /\ rn[id] \in Seq([fn : cb, value : Int])
  BY UserIsNoList DEF ValuesGood, ValuesFit

LEMMA KeepSound ==
    ASSUME NEW s, HasDeferreds(s), NEW ls, NEW rn, NEW cs, NEW o, ValuesGood(s, ls, rn, cs, o),
           NEW ad, NEW q, AllKeep(s, ls, ad, rn, q, cs)
    PROVE  Sound(s, ls, q)
<1>1. ASSUME NEW x \in OutcomeLists(s)
      PROVE  (Started(ls[x]) => ls[x].alive) /\ (q[x] > 0 => Started(ls[x]))
  <2>1. PICK l, cb, w : l = ls[x] /\ cb = CallbacksFor(s, x) /\ w = First(s, x) \o ad[x]
    OBVIOUS
  <2>2. x \in Layout(s)
    BY DEF OutcomeLists
  <2>3. l \in ListOf(CallbacksFor(s, x))
    BY <2>1, <2>2, ListFacts
  <2> QED BY <2>1, <2>3, KeepFacts
<1> QED BY <1>1 DEF Sound, AllKeep

\* Of one list, nothing that matters to the other ones changes.
LEMMA OneAlike ==
    ASSUME NEW s, HasDeferreds(s), NEW ls, NEW oc, NEW n, NEW q, NEW cs,
           Settled(s, ls, oc, n, q, cs), AllClosed(s, ls), NEW id \in Layout(s),
           NEW k, NEW m, Changes(ls, k, Layout(s), id, m),
           id \in OutcomeLists(s) => (Started(m) <=> Started(ls[id])) /\ m.alive = ls[id].alive,
           NEW t
    PROVE  Settled(s, k, oc, n, q, t)
<1>1. \A x \in OutcomeLists(s) : /\ Started(k[x]) <=> Started(ls[x])
                                 /\ k[x].alive = ls[x].alive
  <2>1. ASSUME NEW x \in OutcomeLists(s)
        PROVE  (Started(k[x]) <=> Started(ls[x])) /\ k[x].alive = ls[x].alive
    <3>1. x \in Layout(s)
      BY DEF OutcomeLists
    <3>2. CASE x = id
      BY <3>2 DEF Changes
    <3>3. CASE x # id
      <4>1. k[x] = ls[x]
        BY <3>1, <3>3 DEF Changes
      <4> QED BY <4>1
    <3> QED BY <3>2, <3>3
  <2> QED BY <2>1
<1> QED BY <1>1, SettledAlike

LEMMA ScriptsClosed ==
    ASSUME NEW s, NEW ls, NEW oc, NEW n, NEW q, NEW cs, Settled(s, ls, oc, n, q, cs),
           cs # <<>> => Last(cs) = User
    PROVE  AllClosed(s, ls)
<1>1. User \notin OutcomeLists(s)
  BY UserIsNoList DEF OutcomeLists
<1> QED BY <1>1, ClosedNow DEF Settled

\* A function of a script is added behind all others.
LEMMA FirstAppend ==
    ASSUME NEW s, HasDeferreds(s), NEW id \in OutcomeLists(s),
           NEW a \in Seq({"script"} \X Nat), NEW fn \in {"script"} \X Nat
    PROVE  First(s, id) \o Append(a, fn) = Append(First(s, id) \o a, fn)
<1>1. PICK f, cb : f = First(s, id) /\ cb = CallbacksFor(s, id)
  OBVIOUS
<1>2. f \in Seq(cb)
  BY <1>1, FirstFacts
<1>3. a \in Seq(cb) /\ fn \in cb
  <2>1. ({"script"} \X Nat) \subseteq cb
    BY <1>1 DEF CallbacksFor
  <2> QED BY <2>1
<1>4. f \o Append(a, fn) = Append(f \o a, fn)
  BY <1>2, <1>3, ConcatAppend
<1> QED BY <1>1, <1>4

LEMMA WholeFacts ==
    ASSUME NEW s, HasDeferreds(s), NEW id \in OutcomeLists(s), NEW l, NEW a, NEW r, NEW k, NEW cs,
           Keeps(s, id, l, a, r, k, cs), NEW f, f = First(s, id), NEW w, w = Whole(s, id, a)
    PROVE  /\ w \in Seq(CallbacksFor(s, id)) /\ a \in Seq({"script"} \X Nat)
           /\ f \in Seq(CallbacksFor(s, id)) /\ Len(f) \in {3, 4} /\ Len(w) = Len(f) + Len(a)
           /\ Stage(l, w, k, id, cs) /\ CalledOf(r, a, Len(f), k, l.args)
           /\ k \in Nat /\ k <= Len(f) + Len(a) /\ "stopOnFalse" \notin l.flags
<1>1. PICK cb : cb = CallbacksFor(s, id)
  OBVIOUS
<1>2. a \in Seq({"script"} \X Nat) /\ Stage(l, w, k, id, cs) /\ CalledOf(r, a, Len(f), k, l.args)
  BY DEF Keeps, Whole
<1>3. f \in Seq(cb) /\ Len(f) \in {3, 4}
  <2>1. f \in Seq(cb) /\ Len(f) = (IF s = "when" /\ id[1] # "w" THEN 4 ELSE 3)
    BY <1>1, FirstFacts, Zenon
  <2> QED BY <2>1
<1>4. a \in Seq(cb)
  <2>1. ({"script"} \X Nat) \subseteq cb
    BY <1>1 DEF CallbacksFor
  <2> QED BY <1>2, <2>1
<1>5. w \in Seq(cb) /\ Len(w) = Len(f) + Len(a)
  <2>1. w = f \o a
    BY DEF Whole
  <2> QED BY <1>3, <1>4, <2>1
<1>6. k \in Nat /\ k <= Len(w) /\ "stopOnFalse" \notin l.flags
  BY <1>2, <1>5 DEF Stage
<1> QED BY <1>1, <1>2, <1>3, <1>5, <1>6

\* All that the invariants say of the list for an outcome.
OneKept(s, id, l, a, r, c, cs) ==
    /\ HasDeferreds(s) /\ id \in OutcomeLists(s) /\ l \in ListOf(CallbacksFor(s, id))
    /\ StackSound(cs, Layout(s)) /\ (IsFiring(id, cs) => l.firing)
    /\ r \in Seq([fn : CallbacksFor(s, id), value : Int])
    /\ Keeps(s, id, l, a, r, c, cs)

LEMMA KeptFacts ==
    ASSUME NEW s, NEW id, NEW l, NEW a, NEW r, NEW c, NEW cs, OneKept(s, id, l, a, r, c, cs),
           NEW f, f = First(s, id), NEW w, w = Whole(s, id, a)
    PROVE  /\ Staged(CallbacksFor(s, id), l, w, c, id, Layout(s), cs)
           /\ a \in Seq({"script"} \X Nat)
           /\ f \in Seq(CallbacksFor(s, id)) /\ Len(f) \in {3, 4} /\ Len(w) = Len(f) + Len(a)
           /\ CalledOf(r, a, Len(f), c, l.args)
           /\ c \in Nat /\ c <= Len(f) + Len(a) /\ "stopOnFalse" \notin l.flags
           /\ IsFiring(id, cs) /\ ~InCall(id, cs) => Atop(CallbacksFor(s, id), l, w, c, id, cs)
<1>1. PICK cb : cb = CallbacksFor(s, id)
  OBVIOUS
<1>2. /\ HasDeferreds(s) /\ id \in OutcomeLists(s) /\ l \in ListOf(cb)
      /\ StackSound(cs, Layout(s)) /\ (IsFiring(id, cs) => l.firing)
      /\ Keeps(s, id, l, a, r, c, cs)
  BY <1>1 DEF OneKept
<1>3. id \in Layout(s) /\ User \notin Layout(s)
  BY <1>2, UserIsNoList DEF OutcomeLists
<1>4. /\ w \in Seq(CallbacksFor(s, id)) /\ a \in Seq({"script"} \X Nat)
      /\ f \in Seq(CallbacksFor(s, id)) /\ Len(f) \in {3, 4} /\ Len(w) = Len(f) + Len(a)
      /\ Stage(l, w, c, id, cs) /\ CalledOf(r, a, Len(f), c, l.args)
      /\ c \in Nat /\ c <= Len(f) + Len(a) /\ "stopOnFalse" \notin l.flags
  BY <1>2, WholeFacts
<1> QED BY <1>1, <1>2, <1>3, <1>4 DEF Staged, Atop

LEMMA AddsToKept ==
    ASSUME NEW s, NEW id, NEW l, NEW a, NEW r, NEW c, NEW cs, OneKept(s, id, l, a, r, c, cs),
           NEW fn \in {"script"} \X Nat, NEW m, m = AddTo(l, fn), NEW x, Appended(a, fn, x),
           NEW t, Pushed(l, m, id, cs, t)
    PROVE  Keeps(s, id, m, x, r, c, t) /\ "stopOnFalse" \notin m.flags /\ Alike(l, m)
<1>1. PICK f, w, v, cb : /\ f = First(s, id) /\ w = Whole(s, id, a) /\ v = f \o x
                         /\ cb = CallbacksFor(s, id)
  OBVIOUS
<1>2. /\ Staged(cb, l, w, c, id, Layout(s), cs) /\ a \in Seq({"script"} \X Nat)
      /\ Len(f) \in {3, 4} /\ CalledOf(r, a, Len(f), c, l.args) /\ c \in Nat
      /\ c <= Len(f) + Len(a)
  BY <1>1, KeptFacts
<1>3. fn \in cb
  BY <1>1 DEF CallbacksFor
<1>4. v \in Seq(cb) /\ Grows(w, v, fn)
  <2>1. HasDeferreds(s) /\ id \in OutcomeLists(s)
    BY DEF OneKept
  <2>2. f \o Append(a, fn) = Append(f \o a, fn)
    BY <1>1, <1>2, <2>1, FirstAppend
  <2>3. v = Append(w, fn) /\ w \in Seq(cb)
    <3>1. x = Append(a, fn)
      BY DEF Appended
    <3>2. v = f \o Append(a, fn)
      BY <1>1, <3>1
    <3> QED BY <1>1, <1>2, <2>2, <3>2 DEF Staged, Whole
  <2> QED BY <1>3, <2>3, AppendGrows
<1>5. Stage(m, v, c, id, t) /\ Alike(l, m)
  BY <1>2, <1>3, <1>4, StageAdd
<1>6. x \in Seq({"script"} \X Nat)
  BY <1>2, AppendProperties DEF Appended
<1>7. CalledOf(r, x, Len(f), c, m.args)
  <2>1. PICK h \in Nat : h = Len(f)
    <3>1. Len(f) \in Nat
      BY <1>2
    <3> QED BY <3>1
  <2>2. CalledOf(r, x, h, c, l.args)
    BY <1>2, <2>1, CalledAdds DEF Appended
  <2> QED BY <1>5, <2>1, <2>2 DEF Alike
<1>8. Keeps(s, id, m, x, r, c, t)
  BY <1>1, <1>5, <1>6, <1>7 DEF Keeps
<1>9. "stopOnFalse" \notin m.flags
  BY <1>5 DEF Stage
<1> QED BY <1>5, <1>8, <1>9

LEMMA OneFacts ==
    ASSUME NEW s, HasDeferreds(s), NEW ls, NEW ad, NEW rn, NEW q, NEW cs, NEW o,
           ValuesGood(s, ls, rn, cs, o), AllKeep(s, ls, ad, rn, q, cs), NEW id \in OutcomeLists(s)
    PROVE  OneKept(s, id, ls[id], ad[id], rn[id], q[id], cs)
<1>1. id \in Layout(s)
  BY DEF OutcomeLists
<1>2. Keeps(s, id, ls[id], ad[id], rn[id], q[id], cs)
  BY DEF AllKeep
<1> QED BY <1>1, <1>2, ListFacts DEF OneKept

\* The invariants, of lists and what they have called.
Held(s, ls, ad, rn, oc, n, q, cs) ==
    /\ HasDeferreds(s) /\ \E o : ValuesGood(s, ls, rn, cs, o)
    /\ AllKeep(s, ls, ad, rn, q, cs) /\ Settled(s, ls, oc, n, q, cs)

LEMMA HeldFacts ==
    ASSUME NEW s, NEW ls, NEW ad, NEW rn, NEW oc, NEW n, NEW q, NEW cs,
           Held(s, ls, ad, rn, oc, n, q, cs), NEW id \in Layout(s)
    PROVE  /\ HasDeferreds(s) /\ AllKeep(s, ls, ad, rn, q, cs) /\ Settled(s, ls, oc, n, q, cs)
           /\ Maps(ls, Layout(s)) /\ Maps(rn, Layout(s)) /\ Maps(ad, Layout(s))
           /\ StackSound(cs, Layout(s)) /\ User \notin Layout(s)
           /\ q \in [OutcomeLists(s) -> Nat] /\ Sound(s, ls, q)
           /\ ls[id] \in ListOf(CallbacksFor(s, id))
           /\ IsFiring(id, cs) => ls[id].firing
           /\ IsFiring(id, cs) /\ ~InCall(id, cs) => ls[id].index >= 0
           /\ "stopOnFalse" \notin ls[id].flags
           /\ id \in OutcomeLists(s) => OneKept(s, id, ls[id], ad[id], rn[id], q[id], cs)
           /\ id \in OutcomeLists(s) <=> id[2] # "progress"
           /\ id[2] = "progress" => Forwarding(ls[id])
<1>1. /\ HasDeferreds(s) /\ AllKeep(s, ls, ad, rn, q, cs) /\ Settled(s, ls, oc, n, q, cs)
  BY DEF Held
<1>2. PICK o : ValuesGood(s, ls, rn, cs, o)
  BY DEF Held
<1>3. PICK l : l = ls[id]
  OBVIOUS
<1>4. /\ l \in ListOf(CallbacksFor(s, id)) /\ Maps(ls, Layout(s)) /\ Maps(rn, Layout(s))
      /\ StackSound(cs, Layout(s)) /\ User \notin Layout(s)
      /\ IsFiring(id, cs) => l.firing
      /\ IsFiring(id, cs) /\ ~InCall(id, cs) => l.index >= 0
  BY <1>2, <1>3, ListFacts
<1>5. Sound(s, ls, q)
  BY <1>1, <1>2, KeepSound
<1>6. Maps(ad, Layout(s)) /\ q \in [OutcomeLists(s) -> Nat] /\ "stopOnFalse" \notin ls[id].flags
  BY <1>1 DEF AllKeep
<1>7. id \in OutcomeLists(s) => OneKept(s, id, ls[id], ad[id], rn[id], q[id], cs)
  BY <1>1, <1>2, OneFacts
<1>8. id \in OutcomeLists(s) <=> id[2] # "progress"
  BY <1>1, DeferredKinds
<1>9. id[2] = "progress" => Forwarding(ls[id])
  BY <1>1 DEF AllKeep
<1> QED BY <1>1, <1>3, <1>4, <1>5, <1>6, <1>7, <1>8, <1>9

\* Who else is called does not change.
LEMMA PushedSame ==
    ASSUME NEW ids, User \notin ids, NEW cs, StackSound(cs, ids), NEW id \in ids,
           NEW l, NEW m, IsFiring(id, cs) => l.firing, NEW t, Pushed(l, m, id, cs, t)
    PROVE  \A y \in ids : y # id => Same(y, cs, t)
<1>1. CASE m.firing /\ ~l.firing
  <2>1. ~IsFiring(id, cs) /\ t = Append(cs, id)
    BY <1>1 DEF Pushed
  <2> QED BY <2>1, StartsOnTop
<1>2. CASE ~(m.firing /\ ~l.firing)
  BY <1>2 DEF Same, Pushed
<1> QED BY <1>1, <1>2

LEMMA AddKeeps ==
    ASSUME NEW s, NEW ls, NEW ad, NEW rn, NEW oc, NEW n, NEW q, NEW cs,
           Held(s, ls, ad, rn, oc, n, q, cs),
           cs # <<>> => Last(cs) = User, NEW id \in Layout(s), NEW fn \in {"script"} \X Nat,
           NEW l, l = ls[id], NEW m, m = AddTo(l, fn), NEW k, Changes(ls, k, Layout(s), id, m),
           NEW t, Pushed(l, m, id, cs, t),
           NEW x, Appended(ad[id], fn, x), NEW b, Changes(ad, b, Layout(s), id, x)
    PROVE  PromisesOf(s, k, b, rn, oc, n, q, t)
<1>1. PICK a, r, c : a = ad[id] /\ r = rn[id] /\ c = q[id]
  OBVIOUS
<1>2. /\ l \in ListOf(CallbacksFor(s, id)) /\ Maps(rn, Layout(s)) /\ StackSound(cs, Layout(s))
      /\ User \notin Layout(s) /\ (IsFiring(id, cs) => l.firing)
      /\ q \in [OutcomeLists(s) -> Nat]
  BY HeldFacts
<1>3. HasDeferreds(s) /\ AllKeep(s, ls, ad, rn, q, cs) /\ Settled(s, ls, oc, n, q, cs)
  BY HeldFacts
<1>4. AllClosed(s, ls)
  BY <1>3, ScriptsClosed
<1>5. Changes(rn, rn, Layout(s), id, r)
  BY <1>1, <1>2, NoneChanges
<1>6. \A y \in OutcomeLists(s) : y # id => Same(y, cs, t)
  BY <1>2, PushedSame DEF OutcomeLists
<1>7. /\ id \in OutcomeLists(s) => Keeps(s, id, m, x, r, q[id], t) /\ Alike(l, m)
      /\ id[2] = "progress" => Forwarding(m)
      /\ "stopOnFalse" \notin m.flags
  <2>1. CASE id \in OutcomeLists(s)
    <3>1. OneKept(s, id, l, a, r, c, cs) /\ id[2] # "progress"
      BY <1>1, <2>1, HeldFacts
    <3>2. Appended(a, fn, x)
      BY <1>1
    <3>3. Keeps(s, id, m, x, r, c, t) /\ "stopOnFalse" \notin m.flags /\ Alike(l, m)
      BY <3>1, <3>2, AddsToKept
    <3> QED BY <1>1, <3>1, <3>3
  <2>2. CASE id \notin OutcomeLists(s)
    <3>1. Forwarding(l) /\ "stopOnFalse" \notin l.flags
      BY <2>2, HeldFacts
    <3>2. fn \in CallbacksFor(s, id) /\ IsScript(fn)
      BY DEF CallbacksFor, IsScript
    <3> QED BY <1>2, <2>2, <3>1, <3>2, AddForwards
  <2> QED BY <2>1, <2>2
<1>8. AllKeep(s, k, b, rn, q, t)
  <2>1. \A y \in OutcomeLists(s) : y # id => q[y] = q[y]
    OBVIOUS
  <2> QED BY <1>2, <1>3, <1>5, <1>6, <1>7, <2>1, OneKeeps
<1>9. Settled(s, k, oc, n, q, t)
  BY <1>3, <1>4, <1>7, OneAlike DEF Alike
<1> QED BY <1>8, <1>9 DEF PromisesOf

\* A list is fired, for the first time or in vain.
Fires(l, m, c, id, cs, t) ==
    \/ m = l /\ t = cs /\ (Started(l) \/ ~l.alive)
    \/ l.alive /\ ~Started(l) /\ Started(m) /\ m.alive /\ c = 0 /\ OnTop(id, t)

LEMMA FiresKept ==
    ASSUME NEW s, NEW id, NEW l, NEW a, NEW r, NEW c, NEW cs, OneKept(s, id, l, a, r, c, cs),
           NEW v \in Int, v > 0, NEW m, m = FireWith(l, v), NEW t, Pushed(l, m, id, cs, t)
    PROVE  Keeps(s, id, m, a, r, c, t) /\ "stopOnFalse" \notin m.flags /\ Fires(l, m, c, id, cs, t)
<1>1. PICK f, w, cb : f = First(s, id) /\ w = Whole(s, id, a) /\ cb = CallbacksFor(s, id)
  OBVIOUS
<1>2. /\ Staged(cb, l, w, c, id, Layout(s), cs) /\ a \in Seq({"script"} \X Nat)
      /\ Len(f) \in {3, 4} /\ CalledOf(r, a, Len(f), c, l.args) /\ c \in Nat
  BY <1>1, KeptFacts
<1>3. /\ Stage(m, w, c, id, t)
      /\ \/ m = l /\ t = cs /\ ~Untold(l, w, c)
         \/ Untold(l, w, c) /\ Started(m) /\ m.alive /\ c = 0 /\ t = Append(cs, id)
  BY <1>2, StageFire
<1>4. Untold(l, w, c) <=> l.alive /\ ~Started(l)
  <2>1. l \in ListOf(cb) /\ w \in Seq(cb) /\ Stage(l, w, c, id, cs)
    BY <1>2 DEF Staged
  <2> QED BY <2>1, StageFacts
<1>5. CalledOf(r, a, Len(f), c, m.args)
  <2>1. CASE m = l
    BY <1>2, <2>1
  <2>2. CASE c = 0
    <3>1. Len(f) \in Nat /\ CalledOf(r, a, Len(f), 0, l.args)
      BY <1>2, <2>2
    <3>2. CalledOf(r, a, Len(f), 0, m.args)
      BY <3>1, CalledNone
    <3> QED BY <2>2, <3>2
  <2> QED BY <1>3, <2>1, <2>2
<1>6. Fires(l, m, c, id, cs, t)
  <2>1. CASE m = l /\ t = cs /\ ~Untold(l, w, c)
    BY <1>4, <2>1 DEF Fires
  <2>2. CASE Untold(l, w, c) /\ Started(m) /\ m.alive /\ c = 0 /\ t = Append(cs, id)
    <3>1. PICK S : S = Layout(s) \cup {User}
      OBVIOUS
    <3>2. cs \in Seq(S) /\ id \in S
      BY <1>2, <3>1 DEF Staged, StackSound
    <3>3. OnTop(id, t)
      BY <2>2, <3>2, LastRun DEF OnTop
    <3> QED BY <1>4, <2>2, <3>3 DEF Fires
  <2> QED BY <1>3, <2>1, <2>2
<1>7. Keeps(s, id, m, a, r, c, t)
  BY <1>1, <1>2, <1>3, <1>5 DEF Keeps, Whole
<1> QED BY <1>3, <1>6, <1>7 DEF Stage

\* Outcomes and the counter do not notice that a list of an argument is fired.
LEMMA SettledFiresOne ==
    ASSUME NEW s, HasDeferreds(s), NEW ls, NEW oc, NEW n, NEW q, NEW cs,
           Settled(s, ls, oc, n, q, cs), AllClosed(s, ls), Sound(s, ls, q),
           NEW id \in OutcomeLists(s), id[1] # "w", NEW l, l = ls[id],
           NEW m, NEW c, c = q[id], NEW t, Fires(l, m, c, id, cs, t),
           NEW k, Changes(ls, k, Layout(s), id, m)
    PROVE  Settled(s, k, oc, n, q, t)
<1>1. id \in Layout(s)
  BY DEF OutcomeLists
<1>2. CASE m = l /\ t = cs
  BY <1>1, <1>2, OneAlike
<1>3. CASE l.alive /\ ~Started(l) /\ Started(m) /\ m.alive /\ c = 0 /\ OnTop(id, t)
  <2>1. ~(q[id] > 0) /\ q[id] \in Nat /\ ClosedByOther(s, ls)
    BY <1>3 DEF Sound, Settled
  <2>2. Closing(s, k, q, t) /\ ClosedByOther(s, k)
    BY <1>3, <2>1, SettledStarts
  <2>3. s = "when" => WhenCounts(k, n, q)
    <3> SUFFICES ASSUME s = "when" PROVE WhenCounts(k, n, q)
      OBVIOUS
    <3>1. WhenCounts(ls, n, q)
      BY DEF Settled
    <3>2. <<"w", "done">> \in Layout(s) /\ <<"w", "fail">> \in Layout(s)
      BY WhenLists DEF OutcomeLists, Deferreds
    <3>3. <<"w", "done">> # id /\ <<"w", "fail">> # id
      OBVIOUS
    <3>4. k[<<"w", "done">>] = ls[<<"w", "done">>] /\ k[<<"w", "fail">>] = ls[<<"w", "fail">>]
      BY <3>2, <3>3 DEF Changes
    <3> QED BY <3>1, <3>4 DEF WhenCounts
  <2> QED BY <2>2, <2>3 DEF Settled
<1> QED BY <1>2, <1>3 DEF Fires

LEMMA FireKeeps ==
    ASSUME NEW s, NEW ls, NEW ad, NEW rn, NEW oc, NEW n, NEW q, NEW cs,
           Held(s, ls, ad, rn, oc, n, q, cs),
           cs # <<>> => Last(cs) = User, NEW id \in Layout(s), id[1] # "w", NEW v \in Int, v > 0,
           NEW l, l = ls[id], NEW m, m = FireWith(l, v), NEW k, Changes(ls, k, Layout(s), id, m),
           NEW t, Pushed(l, m, id, cs, t)
    PROVE  PromisesOf(s, k, ad, rn, oc, n, q, t)
<1>1. PICK a, r, c : a = ad[id] /\ r = rn[id] /\ c = q[id]
  OBVIOUS
<1>2. /\ l \in ListOf(CallbacksFor(s, id)) /\ Maps(rn, Layout(s)) /\ StackSound(cs, Layout(s))
      /\ User \notin Layout(s) /\ (IsFiring(id, cs) => l.firing)
      /\ q \in [OutcomeLists(s) -> Nat] /\ Maps(ad, Layout(s)) /\ Sound(s, ls, q)
  BY HeldFacts
<1>3. HasDeferreds(s) /\ AllKeep(s, ls, ad, rn, q, cs) /\ Settled(s, ls, oc, n, q, cs)
  BY HeldFacts
<1>4. AllClosed(s, ls)
  BY <1>3, ScriptsClosed
<1>5. Changes(rn, rn, Layout(s), id, r) /\ Changes(ad, ad, Layout(s), id, a)
  BY <1>1, <1>2, NoneChanges
<1>6. \A y \in OutcomeLists(s) : y # id => Same(y, cs, t)
  BY <1>2, PushedSame DEF OutcomeLists
<1>7. /\ id \in OutcomeLists(s) => Keeps(s, id, m, a, r, q[id], t) /\ Fires(l, m, c, id, cs, t)
      /\ id[2] = "progress" => Forwarding(m)
      /\ "stopOnFalse" \notin m.flags
  <2>1. CASE id \in OutcomeLists(s)
    <3>1. OneKept(s, id, l, a, r, c, cs) /\ id[2] # "progress"
      BY <1>1, <2>1, HeldFacts
    <3>2. /\ Keeps(s, id, m, a, r, c, t) /\ "stopOnFalse" \notin m.flags
          /\ Fires(l, m, c, id, cs, t)
      BY <3>1, FiresKept
    <3> QED BY <1>1, <3>1, <3>2
  <2>2. CASE id \notin OutcomeLists(s)
    <3>1. Forwarding(l) /\ "stopOnFalse" \notin l.flags
      BY <2>2, HeldFacts
    <3>2. SameKind(l, m)
      BY <1>2, KindStays
    <3> QED BY <2>2, <3>1, <3>2, ForwardingStays
  <2> QED BY <2>1, <2>2
<1>8. AllKeep(s, k, ad, rn, q, t)
  <2>1. \A y \in OutcomeLists(s) : y # id => q[y] = q[y]
    OBVIOUS
  <2> QED BY <1>2, <1>3, <1>5, <1>6, <1>7, <2>1, OneKeeps
<1>9. Settled(s, k, oc, n, q, t)
  <2>1. CASE id \in OutcomeLists(s)
    BY <1>1, <1>2, <1>3, <1>4, <1>7, <2>1, SettledFiresOne
  <2>2. CASE id \notin OutcomeLists(s)
    BY <1>3, <1>4, <2>2, OneAlike
  <2> QED BY <2>1, <2>2
<1> QED BY <1>8, <1>9 DEF PromisesOf

\* The next callback of a list, and where it comes from.
NextOf(l, fn) == l.index < Len(l.list) /\ fn = l.list[l.index + 1]

LEMMA NextKept ==
    ASSUME NEW s, NEW id, NEW l, NEW a, NEW r, NEW c, NEW cs, OneKept(s, id, l, a, r, c, cs),
           IsFiring(id, cs), ~InCall(id, cs), l.index >= 0, MoreToCall(l),
           NEW f, f = Len(First(s, id))
    PROVE  /\ l.index < Len(l.list) /\ Started(l) /\ l.alive /\ l.args > 0
           /\ f \in {3, 4} /\ c \in Nat
           /\ \A fn : NextOf(l, fn) =>
                 /\ fn \in CallbacksFor(s, id)
                 /\ c < f => fn = First(s, id)[c + 1] /\ ~IsScript(fn)
                 /\ c >= f => fn = a[c - f + 1] /\ IsScript(fn)
<1>1. PICK w, cb : w = Whole(s, id, a) /\ cb = CallbacksFor(s, id)
  OBVIOUS
<1>2. /\ Atop(cb, l, w, c, id, cs) /\ a \in Seq({"script"} \X Nat)
      /\ f \in {3, 4} /\ c \in Nat
  BY <1>1, KeptFacts
<1>3. /\ l.alive /\ l.args > 0 /\ Started(l) /\ c < Len(w) /\ l.index < Len(l.list)
      /\ l.list[l.index + 1] = w[c + 1]
  BY <1>2, StageTop
<1>4. f \in Nat
  BY <1>2
<1>5. /\ w \in Seq(cb)
      /\ c < f => w[c + 1] = First(s, id)[c + 1] /\ ~IsScript(w[c + 1])
      /\ c >= f => w[c + 1] = a[c - f + 1] /\ IsScript(w[c + 1])
  <2>1. HasDeferreds(s) /\ id \in OutcomeLists(s)
    BY DEF OneKept
  <2>2. w = Whole(s, id, a) /\ a \in Seq({"script"} \X Nat) /\ c \in Nat /\ c < Len(w)
    BY <1>1, <1>2, <1>3
  <2>3. w \in Seq(CallbacksFor(s, id))
    BY <1>4, <2>1, <2>2, CalledNext
  <2>4. c < f => w[c + 1] = First(s, id)[c + 1] /\ ~IsScript(w[c + 1])
    BY <1>4, <2>1, <2>2, CalledNext
  <2>5. c >= f => w[c + 1] = a[c - f + 1] /\ IsScript(w[c + 1])
    BY <1>4, <2>1, <2>2, CalledNext
  <2> QED BY <1>1, <2>3, <2>4, <2>5
<1>6. w[c + 1] \in cb
  <2>1. PICK n \in Nat : n = Len(w)
    BY <1>5
  <2>2. c + 1 \in 1..n
    BY <1>2, <1>3, <2>1
  <2> QED BY <1>5, <2>1, <2>2, ElementOfSeq
<1>7. ASSUME NEW fn, NextOf(l, fn)
      PROVE  /\ fn \in CallbacksFor(s, id)
             /\ c < f => fn = First(s, id)[c + 1] /\ ~IsScript(fn)
             /\ c >= f => fn = a[c - f + 1] /\ IsScript(fn)
  <2>1. fn = w[c + 1]
    BY <1>3, <1>7 DEF NextOf
  <2> QED BY <1>1, <1>5, <1>6, <2>1
<1> QED BY <1>2, <1>3, <1>7

LEMMA CallsKept ==
    ASSUME NEW s, NEW id, NEW l, NEW a, NEW r, NEW c, NEW cs, OneKept(s, id, l, a, r, c, cs),
           IsFiring(id, cs), ~InCall(id, cs), l.index >= 0, MoreToCall(l),
           NEW fn, NextOf(l, fn), IsScript(fn),
           NEW run, run = [fn |-> fn, value |-> l.args], NEW y, Appended(r, run, y),
           NEW t, IsFiring(id, t), InCall(id, t), NEW d, d = c + 1
    PROVE  Keeps(s, id, l, a, y, d, t) /\ c \in Nat /\ c >= Len(First(s, id))
<1>1. PICK f, w, cb, S : /\ f = First(s, id) /\ w = Whole(s, id, a) /\ cb = CallbacksFor(s, id)
                         /\ S = [fn : cb, value : Int]
  OBVIOUS
<1>2. PICK h \in Nat : h = Len(f) /\ h \in {3, 4}
  <2>1. Len(f) \in {3, 4}
    BY <1>1, KeptFacts
  <2> QED BY <2>1
<1>3. /\ Atop(cb, l, w, c, id, cs) /\ a \in Seq({"script"} \X Nat)
      /\ CalledOf(r, a, h, c, l.args) /\ c \in Nat
  BY <1>1, <1>2, KeptFacts
<1>4. fn \in cb /\ c >= h /\ fn = a[c - h + 1]
  BY <1>1, <1>2, <1>3, NextKept
<1>5. run \in S /\ r \in Seq(S) /\ run.fn = a[c - h + 1] /\ run.value = l.args
  <2>1. l.args \in Int
    BY <1>3 DEF Atop, ListOf
  <2> QED BY <1>1, <1>4, <2>1 DEF OneKept
<1>6. CalledOf(y, a, h, d, l.args)
  <2>1. y = Append(r, run)
    BY DEF Appended
  <2> QED BY <1>3, <1>4, <1>5, <2>1, CalledMore
<1>7. Stage(l, w, d, id, t)
  BY <1>3, StageCall
<1> QED BY <1>1, <1>2, <1>3, <1>4, <1>6, <1>7 DEF Keeps, Whole

\* Of one list, one more is called.
LEMMA MoreExists ==
    ASSUME NEW s, NEW q \in [OutcomeLists(s) -> Nat], NEW id \in OutcomeLists(s)
    PROVE  \E p : OneMoreCalled(s, q, id, p)
<1>1. PICK p : p = [q EXCEPT ![id] = q[id] + 1]
  OBVIOUS
<1> QED BY <1>1 DEF OneMoreCalled

LEMMA CallKeeps ==
    ASSUME NEW s, NEW ls, NEW ad, NEW rn, NEW oc, NEW n, NEW q, NEW cs,
           Held(s, ls, ad, rn, oc, n, q, cs), NEW id \in Layout(s), OnTop(id, cs),
           NEW l, l = ls[id], MoreToCall(l), NEW fn, NextOf(l, fn), IsScript(fn),
           NEW run, run = [fn |-> fn, value |-> l.args], NEW y, Appended(rn[id], run, y),
           NEW z, Changes(rn, z, Layout(s), id, y), NEW t, t = Append(cs, User)
    PROVE  \E p : PromisesOf(s, ls, ad, z, oc, n, p, t)
<1>1. PICK a, r, c : a = ad[id] /\ r = rn[id] /\ c = q[id]
  OBVIOUS
<1>2. /\ Maps(ls, Layout(s)) /\ Maps(rn, Layout(s)) /\ StackSound(cs, Layout(s))
      /\ User \notin Layout(s) /\ q \in [OutcomeLists(s) -> Nat] /\ Maps(ad, Layout(s))
  BY HeldFacts
<1>3. HasDeferreds(s) /\ AllKeep(s, ls, ad, rn, q, cs) /\ Settled(s, ls, oc, n, q, cs)
  BY HeldFacts
<1>4. Changes(ls, ls, Layout(s), id, l) /\ Changes(ad, ad, Layout(s), id, a)
  BY <1>1, <1>2, NoneChanges
<1>5. cs # <<>> /\ Last(cs) = id
  BY DEF OnTop
<1>6. IsFiring(id, cs) /\ ~InCall(id, cs)
  BY <1>2, <1>5, ListOnTop
<1>7. l.index >= 0 /\ "stopOnFalse" \notin l.flags
  BY <1>6, HeldFacts
<1>8. /\ \A x \in Layout(s) : IsFiring(x, t) <=> IsFiring(x, cs)
      /\ \A x \in Layout(s) : InCall(x, t) <=> InCall(x, cs) \/ x = id
  BY <1>2, <1>5, CallStarts
<1>9. \A x \in OutcomeLists(s) : x # id => Same(x, cs, t)
  BY <1>8 DEF Same, OutcomeLists
<1>10. CASE id \in OutcomeLists(s)
  <2>1. OneKept(s, id, l, a, r, c, cs) /\ id[2] # "progress"
    BY <1>1, <1>10, HeldFacts
  <2>2. IsFiring(id, t) /\ InCall(id, t)
    BY <1>6, <1>8
  <2>3. PICK d : d = c + 1
    OBVIOUS
  <2>4. Appended(r, run, y)
    BY <1>1
  <2>5. Keeps(s, id, l, a, y, d, t) /\ c \in Nat /\ c >= Len(First(s, id))
    BY <1>6, <1>7, <2>1, <2>2, <2>3, <2>4, CallsKept
  <2>6. PICK p : OneMoreCalled(s, q, id, p)
    BY <1>2, <1>10, MoreExists
  <2>7. AllKeep(s, ls, ad, z, p, t)
    <3>1. /\ p \in [OutcomeLists(s) -> Nat] /\ Keeps(s, id, l, a, y, p[id], t)
          /\ \A x \in OutcomeLists(s) : x # id => p[x] = q[x]
      BY <1>1, <2>3, <2>5, <2>6 DEF OneMoreCalled
    <3> QED BY <1>3, <1>4, <1>7, <1>9, <2>1, <3>1, OneKeeps
  <2>8. Len(First(s, id)) = (IF s = "when" /\ id[1] # "w" THEN 4 ELSE 3)
    BY <1>3, <1>10, FirstFacts, Zenon
  <2>9. q[id] >= 2 /\ ~(q[id] < 2) /\ (s = "when" /\ id[1] # "w" => q[id] # 3)
    BY <1>1, <2>5, <2>8
  <2>10. AllClosed(s, ls)
    <3>1. Closing(s, ls, q, cs)
      BY <1>3 DEF Settled
    <3>2. cs # <<>> /\ Last(cs) \in OutcomeLists(s) => ~(q[Last(cs)] < 2)
      BY <1>5, <2>9
    <3> QED BY <3>1, <3>2, ClosedNow
  <2>11. Settled(s, ls, oc, n, p, t)
    BY <1>3, <1>10, <2>6, <2>9, <2>10, SettledCalls
  <2> QED BY <2>7, <2>11 DEF PromisesOf
<1>11. CASE id \notin OutcomeLists(s)
  <2>1. Forwarding(l)
    BY <1>11, HeldFacts
  <2>2. AllKeep(s, ls, ad, z, q, t)
    <3>1. \A x \in OutcomeLists(s) : x # id => q[x] = q[x]
      OBVIOUS
    <3> QED BY <1>2, <1>3, <1>4, <1>7, <1>9, <1>11, <2>1, <3>1, OneKeeps
  <2>3. AllClosed(s, ls)
    BY <1>3, <1>5, <1>11, ClosedNow DEF Settled
  <2>4. Settled(s, ls, oc, n, q, t)
    BY <1>3, <1>4, <1>11, <2>3, OneAlike
  <2> QED BY <2>2, <2>4 DEF PromisesOf
<1> QED BY <1>10, <1>11

LEMMA AdvanceAlike ==
    ASSUME NEW cb, NEW l \in ListOf(cb)
    PROVE  Alike(l, Advance(l)) /\ Advance(l).flags = l.flags
  BY DEF Advance, Alike, ListOf, Started

\* A function of a script returns.
LEMMA BackKept ==
    ASSUME NEW s, NEW id, NEW l, NEW a, NEW r, NEW c, NEW cs, OneKept(s, id, l, a, r, c, cs),
           IsFiring(id, cs), InCall(id, cs), NEW t, ~InCall(id, t), NEW m, m = Advance(l)
    PROVE  Keeps(s, id, m, a, r, c, t)
<1>1. PICK f, w, cb : f = First(s, id) /\ w = Whole(s, id, a) /\ cb = CallbacksFor(s, id)
  OBVIOUS
<1>2. /\ Staged(cb, l, w, c, id, Layout(s), cs) /\ a \in Seq({"script"} \X Nat)
      /\ CalledOf(r, a, Len(f), c, l.args)
  BY <1>1, KeptFacts
<1>3. l \in ListOf(cb) /\ w \in Seq(cb) /\ Stage(l, w, c, id, cs) /\ l.firing
  BY <1>2 DEF Staged
<1>4. Stage(m, w, c, id, t)
  BY <1>3, StageBack
<1>5. m.args = l.args
  BY <1>3, AdvanceAlike DEF Alike
<1> QED BY <1>1, <1>2, <1>4, <1>5 DEF Keeps, Whole

LEMMA BackKeeps ==
    ASSUME NEW s, NEW ls, NEW ad, NEW rn, NEW oc, NEW n, NEW q, NEW cs,
           Held(s, ls, ad, rn, oc, n, q, cs), cs # <<>>, Last(cs) = User,
           NEW id \in Layout(s), id = cs[Len(cs) - 1],
           NEW l, l = ls[id], NEW m, m = Advance(l), NEW k, Changes(ls, k, Layout(s), id, m),
           NEW t, t = Front(cs)
    PROVE  PromisesOf(s, k, ad, rn, oc, n, q, t)
<1>1. PICK a, r, c : a = ad[id] /\ r = rn[id] /\ c = q[id]
  OBVIOUS
<1>2. /\ l \in ListOf(CallbacksFor(s, id)) /\ Maps(rn, Layout(s)) /\ StackSound(cs, Layout(s))
      /\ User \notin Layout(s)
      /\ q \in [OutcomeLists(s) -> Nat] /\ Maps(ad, Layout(s)) /\ "stopOnFalse" \notin l.flags
  BY HeldFacts
<1>3. HasDeferreds(s) /\ AllKeep(s, ls, ad, rn, q, cs) /\ Settled(s, ls, oc, n, q, cs)
  BY HeldFacts
<1>4. AllClosed(s, ls)
  BY <1>3, ScriptsClosed
<1>5. Changes(rn, rn, Layout(s), id, r) /\ Changes(ad, ad, Layout(s), id, a)
  BY <1>1, <1>2, NoneChanges
<1>6. /\ InCall(id, cs)
      /\ \A x \in Layout(s) : IsFiring(x, t) <=> IsFiring(x, cs)
      /\ \A x \in Layout(s) : InCall(x, t) <=> InCall(x, cs) /\ x # id
  BY <1>2, ScriptOnTop
<1>7. IsFiring(id, cs) /\ ~InCall(id, t)
  BY <1>2, <1>6, InCallIsOnStack DEF StackSound
<1>8. \A y \in OutcomeLists(s) : y # id => Same(y, cs, t)
  BY <1>6 DEF Same, OutcomeLists
<1>9. Alike(l, m) /\ m.flags = l.flags
  BY <1>2, AdvanceAlike
<1>10. /\ id \in OutcomeLists(s) => Keeps(s, id, m, a, r, q[id], t)
       /\ id[2] = "progress" => Forwarding(m)
  <2>1. CASE id \in OutcomeLists(s)
    <3>1. OneKept(s, id, l, a, r, c, cs) /\ id[2] # "progress"
      BY <1>1, <2>1, HeldFacts
    <3>2. Keeps(s, id, m, a, r, c, t)
      BY <1>6, <1>7, <3>1, BackKept
    <3> QED BY <1>1, <3>1, <3>2
  <2>2. CASE id \notin OutcomeLists(s)
    <3>1. Forwarding(l)
      BY <2>2, HeldFacts
    <3>2. SameKind(l, m)
      BY <1>2, KindStays
    <3> QED BY <1>2, <2>2, <3>1, <3>2, ForwardingStays
  <2> QED BY <2>1, <2>2
<1>11. AllKeep(s, k, ad, rn, q, t)
  <2>1. (\A y \in OutcomeLists(s) : y # id => q[y] = q[y]) /\ "stopOnFalse" \notin m.flags
    BY <1>2, <1>9
  <2> QED BY <1>2, <1>3, <1>5, <1>8, <1>10, <2>1, OneKeeps
<1>12. Settled(s, k, oc, n, q, t)
  BY <1>3, <1>4, <1>9, OneAlike DEF Alike
<1> QED BY <1>11, <1>12 DEF PromisesOf

\* The loop of a list ends.
LEMMA EndKept ==
    ASSUME NEW s, NEW id, NEW l, NEW a, NEW r, NEW c, NEW cs, OneKept(s, id, l, a, r, c, cs),
           IsFiring(id, cs), ~InCall(id, cs), ~MoreToCall(l), NEW m, m = EndFire(l), NEW t
    PROVE  /\ Keeps(s, id, m, a, r, c, t) /\ Alike(l, m) /\ "stopOnFalse" \notin m.flags
           /\ ~(c < 2)
<1>1. PICK f, w, cb : f = First(s, id) /\ w = Whole(s, id, a) /\ cb = CallbacksFor(s, id)
  OBVIOUS
<1>2. /\ Atop(cb, l, w, c, id, cs) /\ a \in Seq({"script"} \X Nat)
      /\ CalledOf(r, a, Len(f), c, l.args) /\ Len(f) \in {3, 4} /\ Len(w) = Len(f) + Len(a)
  BY <1>1, KeptFacts
<1>3. Stage(m, w, c, id, t) /\ Alike(l, m)
  BY <1>2, StageEnd
<1>4. c = Len(w)
  <2>1. Atop(cb, l, w, c, id, cs) /\ ~MoreToCall(l)
    BY <1>2
  <2>2. ~MoreToCall(l) => c = Len(w)
    BY <2>1, StageTop
  <2> QED BY <2>1, <2>2
<1>5. ~(c < 2)
  <2>1. PICK n \in Nat : n = Len(a)
    BY <1>2
  <2>2. PICK h \in {3, 4} : h = Len(f)
    BY <1>2
  <2>3. c = h + n
    BY <1>2, <1>4, <2>1, <2>2
  <2> QED BY <2>3
<1>6. Keeps(s, id, m, a, r, c, t)
  BY <1>1, <1>2, <1>3 DEF Keeps, Whole, Alike
<1> QED BY <1>3, <1>5, <1>6 DEF Stage

LEMMA EndKeeps ==
    ASSUME NEW s, NEW ls, NEW ad, NEW rn, NEW oc, NEW n, NEW q, NEW cs,
           Held(s, ls, ad, rn, oc, n, q, cs), NEW id \in Layout(s), OnTop(id, cs),
           NEW l, l = ls[id], ~MoreToCall(l), NEW m, m = EndFire(l),
           NEW k, Changes(ls, k, Layout(s), id, m), NEW t, t = cs \/ t = Front(cs)
    PROVE  PromisesOf(s, k, ad, rn, oc, n, q, t)
<1>1. PICK a, r, c : a = ad[id] /\ r = rn[id] /\ c = q[id]
  OBVIOUS
<1>2. /\ l \in ListOf(CallbacksFor(s, id)) /\ Maps(rn, Layout(s)) /\ StackSound(cs, Layout(s))
      /\ User \notin Layout(s)
      /\ q \in [OutcomeLists(s) -> Nat] /\ Maps(ad, Layout(s)) /\ "stopOnFalse" \notin l.flags
  BY HeldFacts
<1>3. HasDeferreds(s) /\ AllKeep(s, ls, ad, rn, q, cs) /\ Settled(s, ls, oc, n, q, cs)
  BY HeldFacts
<1>4. cs # <<>> /\ Last(cs) = id /\ Closing(s, ls, q, cs)
  BY <1>3 DEF OnTop, Settled
<1>5. Changes(rn, rn, Layout(s), id, r) /\ Changes(ad, ad, Layout(s), id, a)
  BY <1>1, <1>2, NoneChanges
<1>6. /\ IsFiring(id, cs) /\ ~InCall(id, cs)
      /\ \A x \in Layout(s) : IsFiring(x, Front(cs)) <=> IsFiring(x, cs) /\ x # id
      /\ \A x \in Layout(s) : InCall(x, Front(cs)) <=> InCall(x, cs)
  BY <1>2, <1>4, ListOnTop
<1>7. \A y \in OutcomeLists(s) : y # id => Same(y, cs, t)
  BY <1>6 DEF Same, OutcomeLists
<1>8. /\ id \in OutcomeLists(s) =>
           Keeps(s, id, m, a, r, q[id], t) /\ Alike(l, m) /\ ~(q[id] < 2)
      /\ id[2] = "progress" => Forwarding(m)
      /\ "stopOnFalse" \notin m.flags
  <2>1. CASE id \in OutcomeLists(s)
    <3>1. OneKept(s, id, l, a, r, c, cs) /\ id[2] # "progress"
      BY <1>1, <2>1, HeldFacts
    <3>2. Keeps(s, id, m, a, r, c, t) /\ Alike(l, m) /\ "stopOnFalse" \notin m.flags /\ ~(c < 2)
      BY <1>6, <3>1, EndKept
    <3> QED BY <1>1, <3>1, <3>2
  <2>2. CASE id \notin OutcomeLists(s)
    <3>1. Forwarding(l)
      BY <2>2, HeldFacts
    <3>2. SameKind(l, m)
      BY <1>2, KindStays
    <3> QED BY <1>2, <2>2, <3>1, <3>2, ForwardingStays
  <2> QED BY <2>1, <2>2
<1>9. AllClosed(s, ls)
  <2>1. cs # <<>> /\ Last(cs) \in OutcomeLists(s) => ~(q[Last(cs)] < 2)
    BY <1>4, <1>8
  <2> QED BY <1>4, <2>1, ClosedNow
<1>10. AllKeep(s, k, ad, rn, q, t)
  <2>1. \A y \in OutcomeLists(s) : y # id => q[y] = q[y]
    OBVIOUS
  <2> QED BY <1>2, <1>3, <1>5, <1>7, <1>8, <2>1, OneKeeps
<1>11. Settled(s, k, oc, n, q, t)
  BY <1>3, <1>8, <1>9, OneAlike DEF Alike
<1> QED BY <1>10, <1>11 DEF PromisesOf

\* Every loop is left.
LEMMA LeaveKeeps ==
    ASSUME NEW s, NEW ls, NEW ad, NEW rn, NEW oc, NEW n, NEW q, NEW cs, NEW id \in Layout(s),
           Held(s, ls, ad, rn, oc, n, q, cs), AllClosed(s, ls)
    PROVE  PromisesOf(s, ls, ad, rn, oc, n, q, <<>>)
<1>1. HasDeferreds(s) /\ AllKeep(s, ls, ad, rn, q, cs) /\ Settled(s, ls, oc, n, q, cs)
  BY HeldFacts
<1>2. PICK t : t = <<>>
  OBVIOUS
<1>3. \A x \in OutcomeLists(s) : ~IsFiring(x, t)
  BY <1>2 DEF IsFiring
<1>4. AllKeep(s, ls, ad, rn, q, t)
  BY <1>1, <1>3, StackKeeps
<1>5. \A x \in OutcomeLists(s) : (Started(ls[x]) <=> Started(ls[x])) /\ ls[x].alive = ls[x].alive
  OBVIOUS
<1>6. Settled(s, ls, oc, n, q, t)
  BY <1>1, <1>5, SettledAlike
<1> QED BY <1>2, <1>4, <1>6 DEF PromisesOf

\* The lists k, which are fired and closed as the lists ls are.
AllAlike(s, ls, k) ==
    \A x \in OutcomeLists(s) : (Started(k[x]) <=> Started(ls[x])) /\ k[x].alive = ls[x].alive

LEMMA SettledStays ==
    ASSUME NEW s, HasDeferreds(s), NEW ls, NEW oc, NEW n, NEW q, NEW cs,
           Settled(s, ls, oc, n, q, cs), Sound(s, ls, q), NEW k, AllAlike(s, ls, k)
    PROVE  /\ Settled(s, k, oc, n, q, cs) /\ Sound(s, k, q)
           /\ AllClosed(s, ls) => AllClosed(s, k)
<1>1. \A x \in OutcomeLists(s) : Opposite(x) \in OutcomeLists(s)
  BY Opposites
<1>2. Closing(s, k, q, cs)
  BY <1>1 DEF Closing, AllAlike, Settled
<1>3. ClosedByOther(s, k)
  BY <1>1 DEF ClosedByOther, AllAlike, Settled
<1>4. AllClosed(s, ls) => AllClosed(s, k)
  BY <1>1 DEF AllClosed, AllAlike
<1>5. ASSUME s = "when" PROVE WhenCounts(k, n, q)
  <2>1. <<"w", "done">> \in OutcomeLists(s) /\ <<"w", "fail">> \in OutcomeLists(s)
    BY <1>5, WhenLists DEF Deferreds
  <2>2. /\ Started(k[<<"w", "done">>]) <=> Started(ls[<<"w", "done">>])
        /\ Started(k[<<"w", "fail">>]) <=> Started(ls[<<"w", "fail">>])
    BY <2>1 DEF AllAlike
  <2>3. WhenCounts(ls, n, q)
    BY <1>5 DEF Settled
  <2> QED BY <2>2, <2>3 DEF WhenCounts
<1>6. Sound(s, k, q)
  BY DEF Sound, AllAlike
<1> QED BY <1>2, <1>3, <1>4, <1>5, <1>6 DEF Settled

LEMMA ChangesAlike ==
    ASSUME NEW s, NEW ls, NEW id \in Layout(s), NEW k, NEW m, Changes(ls, k, Layout(s), id, m),
           id \in OutcomeLists(s) => Alike(ls[id], m)
    PROVE  AllAlike(s, ls, k)
<1>1. ASSUME NEW x \in OutcomeLists(s)
      PROVE  (Started(k[x]) <=> Started(ls[x])) /\ k[x].alive = ls[x].alive
  <2>1. x \in Layout(s)
    BY DEF OutcomeLists
  <2>2. CASE x = id
    BY <2>2 DEF Changes, Alike
  <2>3. CASE x # id
    <3>1. k[x] = ls[x]
      BY <2>1, <2>3 DEF Changes
    <3> QED BY <3>1
  <2> QED BY <2>2, <2>3
<1> QED BY <1>1 DEF AllAlike

\* A callback of Deferred's or when's is called.
LEMMA InsideKept ==
    ASSUME NEW s, NEW id, NEW l, NEW a, NEW r, NEW c, NEW cs, OneKept(s, id, l, a, r, c, cs),
           IsFiring(id, cs), ~InCall(id, cs), MoreToCall(l), c < Len(First(s, id)),
           NEW m, m = Advance(l), NEW d, d = c + 1
    PROVE  Keeps(s, id, m, a, r, d, cs)
<1>1. PICK f, w, cb : f = First(s, id) /\ w = Whole(s, id, a) /\ cb = CallbacksFor(s, id)
  OBVIOUS
<1>2. PICK h \in Nat : h = Len(f)
  <2>1. Len(f) \in {3, 4}
    BY <1>1, KeptFacts
  <2> QED BY <2>1
<1>3. /\ Atop(cb, l, w, c, id, cs) /\ a \in Seq({"script"} \X Nat)
      /\ CalledOf(r, a, h, c, l.args) /\ c \in Nat
  BY <1>1, <1>2, KeptFacts
<1>4. Stage(m, w, d, id, cs)
  BY <1>3, StageNext
<1>5. m.args = l.args
  <2>1. l \in ListOf(cb)
    BY <1>3 DEF Atop
  <2> QED BY <2>1, AdvanceAlike DEF Alike
<1>6. CalledOf(r, a, h, d, m.args)
  <2>1. c < h
    BY <1>1, <1>2
  <2> QED BY <1>3, <1>5, <2>1, CalledInside
<1> QED BY <1>1, <1>2, <1>3, <1>4, <1>6 DEF Keeps, Whole

\* What is known when a list has called one of them, but for what that does.
Inside(s, ls, ad, rn, oc, n, q, p, cs) ==
    /\ HasDeferreds(s) /\ Maps(ls, Layout(s)) /\ Maps(rn, Layout(s)) /\ Maps(ad, Layout(s))
    /\ StackSound(cs, Layout(s)) /\ q \in [OutcomeLists(s) -> Nat]
    /\ p \in [OutcomeLists(s) -> Nat]
    /\ AllKeep(s, ls, ad, rn, p, cs) /\ Settled(s, ls, oc, n, q, cs) /\ Sound(s, ls, q)
    /\ \A x \in Layout(s) : /\ ls[x] \in ListOf(CallbacksFor(s, x))
                            /\ IsFiring(x, cs) => ls[x].firing
                            /\ rn[x] \in Seq([fn : CallbacksFor(s, x), value : Int])
                            /\ "stopOnFalse" \notin ls[x].flags

LEMMA InsideAgain ==
    ASSUME NEW s, NEW ls, NEW ad, NEW rn, NEW oc, NEW n, NEW q, NEW cs,
           Held(s, ls, ad, rn, oc, n, q, cs), NEW id \in Layout(s), NEW l, l = ls[id],
           NEW m, m = Advance(l), NEW k, Changes(ls, k, Layout(s), id, m),
           NEW p, AllKeep(s, k, ad, rn, p, cs), p \in [OutcomeLists(s) -> Nat]
    PROVE  Inside(s, k, ad, rn, oc, n, q, p, cs)
<1>1. /\ HasDeferreds(s) /\ Settled(s, ls, oc, n, q, cs) /\ Maps(rn, Layout(s))
      /\ Maps(ad, Layout(s)) /\ Maps(k, Layout(s)) /\ StackSound(cs, Layout(s))
      /\ q \in [OutcomeLists(s) -> Nat] /\ Sound(s, ls, q)
      /\ l \in ListOf(CallbacksFor(s, id))
  BY HeldFacts DEF Changes
<1>2. Alike(l, m) /\ m.flags = l.flags /\ m.firing = l.firing /\ m \in ListOf(CallbacksFor(s, id))
  BY <1>1, AdvanceAlike, AdvanceFacts
<1>3. AllAlike(s, ls, k)
  BY <1>2, ChangesAlike
<1>4. Settled(s, k, oc, n, q, cs) /\ Sound(s, k, q)
  BY <1>1, <1>3, SettledStays
<1>5. ASSUME NEW x \in Layout(s)
      PROVE  /\ k[x] \in ListOf(CallbacksFor(s, x))
             /\ IsFiring(x, cs) => k[x].firing
             /\ rn[x] \in Seq([fn : CallbacksFor(s, x), value : Int])
             /\ "stopOnFalse" \notin k[x].flags
  <2>1. PICK y, cb : y = ls[x] /\ cb = CallbacksFor(s, x)
    OBVIOUS
  <2>2. y \in ListOf(cb) /\ (IsFiring(x, cs) => y.firing) /\ "stopOnFalse" \notin y.flags
    BY <2>1, HeldFacts
  <2>3. rn[x] \in Seq([fn : cb, value : Int])
    BY <2>1, ListFacts DEF Held
  <2>4. CASE x = id
    BY <1>2, <2>1, <2>2, <2>3, <2>4 DEF Changes
  <2>5. CASE x # id
    <3>1. k[x] = y
      BY <2>1, <2>5 DEF Changes
    <3> QED BY <2>1, <2>2, <2>3, <3>1
  <2> QED BY <2>4, <2>5
<1> QED BY <1>1, <1>4, <1>5 DEF Inside

\* The list for an outcome calls one of them.
\* The loop of l, which is list id, is about to call fn and goes on as m.
Takes(s, ls, k, id, l, m, fn, cs) ==
    /\ OnTop(id, cs) /\ l = ls[id] /\ MoreToCall(l) /\ NextOf(l, fn) /\ ~IsScript(fn)
    /\ m = Advance(l) /\ Changes(ls, k, Layout(s), id, m)

LEMMA InsideStarts ==
    ASSUME NEW s, NEW ls, NEW ad, NEW rn, NEW oc, NEW n, NEW q, NEW cs,
           Held(s, ls, ad, rn, oc, n, q, cs), NEW id \in OutcomeLists(s),
           NEW l, NEW fn, NEW m, NEW k, Takes(s, ls, k, id, l, m, fn, cs)
    PROVE  /\ q[id] \in Nat /\ q[id] < Len(First(s, id)) /\ fn = First(s, id)[q[id] + 1]
           /\ Started(m) /\ m.alive /\ m.args > 0 /\ m.args = l.args
           /\ \E p : OneMoreCalled(s, q, id, p) /\ Inside(s, k, ad, rn, oc, n, q, p, cs)
<1>0. /\ OnTop(id, cs) /\ l = ls[id] /\ MoreToCall(l) /\ NextOf(l, fn) /\ ~IsScript(fn)
      /\ m = Advance(l) /\ Changes(ls, k, Layout(s), id, m)
  BY DEF Takes
<1>1. PICK a, r, c : a = ad[id] /\ r = rn[id] /\ c = q[id]
  OBVIOUS
<1>2. id \in Layout(s)
  BY DEF OutcomeLists
<1>3. /\ l \in ListOf(CallbacksFor(s, id)) /\ Maps(rn, Layout(s)) /\ StackSound(cs, Layout(s))
      /\ User \notin Layout(s)
      /\ q \in [OutcomeLists(s) -> Nat] /\ Maps(ad, Layout(s)) /\ "stopOnFalse" \notin l.flags
      /\ HasDeferreds(s) /\ AllKeep(s, ls, ad, rn, q, cs)
      /\ OneKept(s, id, l, a, r, c, cs) /\ id[2] # "progress"
  BY <1>0, <1>1, <1>2, HeldFacts
<1>4. IsFiring(id, cs) /\ ~InCall(id, cs)
  BY <1>0, <1>2, <1>3, ListOnTop DEF OnTop
<1>5. l.index >= 0
  BY <1>0, <1>2, <1>4, HeldFacts
<1>6. PICK f : f = Len(First(s, id))
  OBVIOUS
<1>7. /\ Started(l) /\ l.alive /\ l.args > 0 /\ f \in {3, 4} /\ c \in Nat
      /\ c < f => fn = First(s, id)[c + 1]
      /\ c >= f => IsScript(fn)
  BY <1>0, <1>3, <1>4, <1>5, <1>6, NextKept
<1>8. c < f
  BY <1>0, <1>7
<1>9. PICK d : d = c + 1
  OBVIOUS
<1>10. Keeps(s, id, m, a, r, d, cs)
  BY <1>0, <1>3, <1>4, <1>6, <1>8, <1>9, InsideKept
<1>11. Alike(l, m) /\ m.flags = l.flags
  BY <1>0, <1>3, AdvanceAlike
<1>12. PICK p : OneMoreCalled(s, q, id, p)
  BY <1>0, <1>3, MoreExists
<1>13. AllKeep(s, k, ad, rn, p, cs)
  <2>1. Changes(rn, rn, Layout(s), id, r) /\ Changes(ad, ad, Layout(s), id, a)
    BY <1>0, <1>1, <1>2, <1>3, NoneChanges
  <2>2. /\ p \in [OutcomeLists(s) -> Nat] /\ Keeps(s, id, m, a, r, p[id], cs)
        /\ \A x \in OutcomeLists(s) : x # id => p[x] = q[x]
    BY <1>0, <1>1, <1>9, <1>10, <1>12 DEF OneMoreCalled
  <2>3. \A x \in OutcomeLists(s) : x # id => Same(x, cs, cs)
    BY DEF Same
  <2>4. "stopOnFalse" \notin m.flags
    BY <1>0, <1>3, <1>11
  <2> QED BY <1>0, <1>2, <1>3, <2>1, <2>2, <2>3, <2>4, OneKeeps
<1>14. Inside(s, k, ad, rn, oc, n, q, p, cs)
  <2>1. p \in [OutcomeLists(s) -> Nat]
    BY <1>0, <1>12 DEF OneMoreCalled
  <2> QED BY <1>0, <1>2, <1>13, <2>1, InsideAgain
<1> QED BY <1>0, <1>1, <1>6, <1>7, <1>8, <1>11, <1>12, <1>14 DEF Alike

\* Another list becomes m, and may start to fire.
LEMMA InsideOther ==
    ASSUME NEW s, NEW ls, NEW ad, NEW rn, NEW oc, NEW n, NEW q, NEW p, NEW cs,
           Inside(s, ls, ad, rn, oc, n, q, p, cs), NEW o \in Layout(s),
           NEW l, l = ls[o], NEW m, "stopOnFalse" \notin m.flags,
           NEW k, Changes(ls, k, Layout(s), o, m), NEW t, Pushed(l, m, o, cs, t),
           o \in OutcomeLists(s) => Keeps(s, o, m, ad[o], rn[o], p[o], t),
           o[2] = "progress" => Forwarding(m)
    PROVE  AllKeep(s, k, ad, rn, p, t)
<1>1. PICK a, r : a = ad[o] /\ r = rn[o]
  OBVIOUS
<1>2. /\ HasDeferreds(s) /\ Maps(rn, Layout(s)) /\ Maps(ad, Layout(s))
      /\ StackSound(cs, Layout(s)) /\ User \notin Layout(s) /\ (IsFiring(o, cs) => l.firing)
      /\ p \in [OutcomeLists(s) -> Nat] /\ AllKeep(s, ls, ad, rn, p, cs)
  BY UserIsNoList DEF Inside
<1>3. Changes(rn, rn, Layout(s), o, r) /\ Changes(ad, ad, Layout(s), o, a)
  BY <1>1, <1>2, NoneChanges
<1>4. \A y \in OutcomeLists(s) : y # o => Same(y, cs, t)
  BY <1>2, PushedSame DEF OutcomeLists
<1>5. o \in OutcomeLists(s) => Keeps(s, o, m, a, r, p[o], t)
  BY <1>1
<1>6. \A y \in OutcomeLists(s) : y # o => p[y] = p[y]
  OBVIOUS
<1> QED BY <1>2, <1>3, <1>4, <1>5, <1>6, OneKeeps

LEMMA InsideOne ==
    ASSUME NEW s, NEW ls, NEW ad, NEW rn, NEW oc, NEW n, NEW q, NEW p, NEW cs,
           Inside(s, ls, ad, rn, oc, n, q, p, cs), NEW o \in OutcomeLists(s)
    PROVE  OneKept(s, o, ls[o], ad[o], rn[o], p[o], cs)
<1>1. o \in Layout(s)
  BY DEF OutcomeLists
<1> QED BY <1>1 DEF Inside, OneKept, AllKeep

\* The first callback settles the Deferred.
LEMMA SettleKeeps ==
    ASSUME NEW s, NEW ls, NEW ad, NEW rn, NEW oc, NEW n, NEW q, NEW p, NEW cs,
           Inside(s, ls, ad, rn, oc, n, q, p, cs), NEW id \in OutcomeLists(s), OnTop(id, cs),
           Started(ls[id]), OneMoreCalled(s, q, id, p), q[id] = 0,
           NEW b, b = [oc EXCEPT ![id[1]] = OutcomeOf(id)]
    PROVE  PromisesOf(s, ls, ad, rn, b, n, p, cs)
<1>1. /\ HasDeferreds(s) /\ Settled(s, ls, oc, n, q, cs) /\ AllKeep(s, ls, ad, rn, p, cs)
      /\ \A x \in OutcomeLists(s) : (Started(ls[x]) => ls[x].alive) /\ (q[x] > 0 => Started(ls[x]))
  BY DEF Inside, Sound
<1>2. Settled(s, ls, b, n, p, cs)
  BY <1>1, SettledFirst DEF OnTop
<1> QED BY <1>1, <1>2 DEF PromisesOf

\* The second one closes the list for the other outcome.
LEMMA DisableKept ==
    ASSUME NEW s, NEW o, NEW l, NEW a, NEW r, NEW c, NEW cs, OneKept(s, o, l, a, r, c, cs),
           ~Started(l), NEW m, m = Disable(l)
    PROVE  /\ Keeps(s, o, m, a, r, c, cs) /\ "stopOnFalse" \notin m.flags
           /\ ~Started(m) /\ ~m.alive /\ m.firing = l.firing
<1>1. PICK f, w, cb : f = First(s, o) /\ w = Whole(s, o, a) /\ cb = CallbacksFor(s, o)
  OBVIOUS
<1>2. /\ Staged(cb, l, w, c, o, Layout(s), cs) /\ a \in Seq({"script"} \X Nat)
      /\ CalledOf(r, a, Len(f), c, l.args)
  BY <1>1, KeptFacts
<1>3. l \in ListOf(cb) /\ Stage(l, w, c, o, cs)
  BY <1>2 DEF Staged
<1>4. /\ Stage(m, w, c, o, cs) /\ ~Started(m) /\ ~m.alive /\ m.firing = l.firing
      /\ m.args = l.args
  BY <1>3, StageDisable
<1>5. Keeps(s, o, m, a, r, c, cs)
  BY <1>1, <1>2, <1>4 DEF Keeps, Whole
<1> QED BY <1>4, <1>5 DEF Stage

LEMMA DisableKeeps ==
    ASSUME NEW s, NEW ls, NEW ad, NEW rn, NEW oc, NEW n, NEW q, NEW p, NEW cs,
           Inside(s, ls, ad, rn, oc, n, q, p, cs), NEW id \in OutcomeLists(s), OnTop(id, cs),
           Started(ls[id]), OneMoreCalled(s, q, id, p), q[id] = 1, NEW o, o = Opposite(id),
           NEW l, l = ls[o], NEW m, m = Disable(l),
           NEW k, Changes(ls, k, Layout(s), o, m), NEW t, Pushed(l, m, o, cs, t)
    PROVE  PromisesOf(s, k, ad, rn, oc, n, p, t)
<1>1. /\ HasDeferreds(s) /\ Settled(s, ls, oc, n, q, cs) /\ Sound(s, ls, q)
      /\ \A x \in OutcomeLists(s) : Started(ls[x]) => ls[x].alive
      /\ Closing(s, ls, q, cs)
  BY DEF Inside, Sound, Settled
<1>2. o \in OutcomeLists(s) /\ o # id /\ o \in Layout(s)
  BY <1>1, Opposites DEF OutcomeLists
<1>3. ~Started(l)
  BY <1>1, OnlyOne
<1>4. PICK a, r, c : a = ad[o] /\ r = rn[o] /\ c = p[o]
  OBVIOUS
<1>5. OneKept(s, o, l, a, r, c, cs)
  BY <1>2, <1>4, InsideOne
<1>6. /\ Keeps(s, o, m, a, r, c, cs) /\ "stopOnFalse" \notin m.flags
      /\ ~Started(m) /\ ~m.alive /\ m.firing = l.firing
  BY <1>3, <1>5, DisableKept
<1>7. t = cs
  BY <1>6 DEF Pushed
<1>8. AllKeep(s, k, ad, rn, p, t)
  <2>1. o[2] # "progress"
    BY <1>1, <1>2, DeferredKinds
  <2>2. o \in OutcomeLists(s) => Keeps(s, o, m, ad[o], rn[o], p[o], t)
    BY <1>4, <1>6, <1>7
  <2> QED BY <1>2, <1>6, <2>1, <2>2, InsideOther
<1>9. Settled(s, k, oc, n, p, cs)
  BY <1>1, <1>6, SettledCloses DEF OnTop
<1> QED BY <1>7, <1>8, <1>9 DEF PromisesOf

\* The third one, or one of a list for progress, changes a list for progress.
LEMMA ProgressKeeps ==
    ASSUME NEW s, NEW ls, NEW ad, NEW rn, NEW oc, NEW n, NEW q, NEW p, NEW cs,
           Inside(s, ls, ad, rn, oc, n, q, p, cs), NEW o \in Layout(s), o[2] = "progress",
           NEW l, l = ls[o], NEW m, SameKind(l, m), NEW k, Changes(ls, k, Layout(s), o, m),
           NEW t, Pushed(l, m, o, cs, t), AllClosed(s, ls), Settled(s, ls, oc, n, p, cs)
    PROVE  PromisesOf(s, k, ad, rn, oc, n, p, t)
<1>1. /\ HasDeferreds(s) /\ AllKeep(s, ls, ad, rn, p, cs) /\ "stopOnFalse" \notin l.flags
  BY DEF Inside
<1>2. o \notin OutcomeLists(s) /\ Forwarding(l)
  BY <1>1, DeferredKinds DEF AllKeep
<1>3. Forwarding(m) /\ "stopOnFalse" \notin m.flags
  BY <1>1, <1>2, ForwardingStays
<1>4. AllKeep(s, k, ad, rn, p, t)
  BY <1>2, <1>3, InsideOther
<1>5. Settled(s, k, oc, n, p, t)
  BY <1>1, <1>2, OneAlike
<1> QED BY <1>4, <1>5 DEF PromisesOf

LEMMA LockKeeps ==
    ASSUME NEW s, NEW ls, NEW ad, NEW rn, NEW oc, NEW n, NEW q, NEW p, NEW cs,
           Inside(s, ls, ad, rn, oc, n, q, p, cs), NEW id \in OutcomeLists(s), OnTop(id, cs),
           OneMoreCalled(s, q, id, p), q[id] = 2, NEW o, o = <<id[1], "progress">>,
           NEW l, l = ls[o], NEW m, m = Lock(l),
           NEW k, Changes(ls, k, Layout(s), o, m), NEW t, Pushed(l, m, o, cs, t)
    PROVE  PromisesOf(s, k, ad, rn, oc, n, p, t)
<1>1. HasDeferreds(s) /\ Settled(s, ls, oc, n, q, cs) /\ Closing(s, ls, q, cs)
  BY DEF Inside, Settled
<1>2. o \in Layout(s) /\ o[2] = "progress"
  <2>1. \E y : y = Opposite(id)
    OBVIOUS
  <2> QED BY <1>1, <2>1, OutcomeFacts
<1>3. AllClosed(s, ls)
  <2>1. cs # <<>> /\ Last(cs) \in OutcomeLists(s) => ~(q[Last(cs)] < 2)
    BY DEF OnTop
  <2> QED BY <1>1, <2>1, ClosedNow
<1>4. Settled(s, ls, oc, n, p, cs)
  <2>1. q[id] >= 2 /\ q[id] # 3
    OBVIOUS
  <2> QED BY <1>1, <1>3, <2>1, SettledCalls
<1>5. SameKind(l, m)
  <2>1. l \in ListOf(CallbacksFor(s, o))
    BY <1>2 DEF Inside
  <2> QED BY <2>1, KindStays
<1> QED BY <1>2, <1>3, <1>4, <1>5, ProgressKeeps

\* The fourth callback of an argument of when() that is resolved.
LEMMA CountKeeps ==
    ASSUME NEW ls, NEW ad, NEW rn, NEW oc, NEW n, NEW q, NEW p, NEW cs,
           Inside("when", ls, ad, rn, oc, n, q, p, cs), NEW d \in {"d", "e"},
           NEW id, id = <<d, "done">>, OnTop(id, cs), OneMoreCalled("when", q, id, p), q[id] = 3, n # 1
    PROVE  PromisesOf("when", ls, ad, rn, oc, n - 1, p, cs)
<1>1. /\ Settled("when", ls, oc, n, q, cs) /\ Sound("when", ls, q)
      /\ Closing("when", ls, q, cs) /\ AllKeep("when", ls, ad, rn, p, cs)
  BY DEF Inside, Settled
<1>2. AllClosed("when", ls)
  <2>1. cs # <<>> /\ Last(cs) \in OutcomeLists("when") => ~(q[Last(cs)] < 2)
    BY DEF OnTop
  <2> QED BY <1>1, <2>1, ClosedNow
<1>3. Settled("when", ls, oc, n - 1, p, cs)
  BY <1>1, <1>2, SettledCounts
<1> QED BY <1>1, <1>3 DEF PromisesOf

LEMMA ResolveKeeps ==
    ASSUME NEW ls, NEW ad, NEW rn, NEW oc, NEW n, NEW q, NEW p, NEW cs,
           Inside("when", ls, ad, rn, oc, n, q, p, cs), NEW d \in {"d", "e"},
           NEW id, id = <<d, "done">>, OnTop(id, cs), OneMoreCalled("when", q, id, p), q[id] = 3, n = 1,
           Started(ls[id]), NEW v \in Int, v > 0, NEW o, o = <<"w", "done">>,
           NEW l, l = ls[o], NEW m, m = FireWith(l, v),
           NEW k, Changes(ls, k, Layout("when"), o, m), NEW t, Pushed(l, m, o, cs, t)
    PROVE  PromisesOf("when", k, ad, rn, oc, n - 1, p, t)
<1>1. /\ Settled("when", ls, oc, n, q, cs) /\ Sound("when", ls, q)
      /\ Closing("when", ls, q, cs) /\ AllKeep("when", ls, ad, rn, p, cs)
      /\ ClosedByOther("when", ls) /\ WhenCounts(ls, n, q)
  BY DEF Inside, Settled
<1>2. AllClosed("when", ls)
  <2>1. cs # <<>> /\ Last(cs) \in OutcomeLists("when") => ~(q[Last(cs)] < 2)
    BY DEF OnTop
  <2> QED BY <1>1, <2>1, ClosedNow
<1>3. l.alive /\ ~Started(l)
  BY <1>1, <1>2, CanResolve
<1>4. o \in OutcomeLists("when") /\ o \in Layout("when")
  BY WhenLists DEF OutcomeLists, Deferreds
<1>5. PICK a, r, c : a = ad[o] /\ r = rn[o] /\ c = p[o]
  OBVIOUS
<1>6. OneKept("when", o, l, a, r, c, cs)
  BY <1>4, <1>5, InsideOne
<1>7. Keeps("when", o, m, a, r, c, t) /\ "stopOnFalse" \notin m.flags /\ Fires(l, m, c, o, cs, t)
  BY <1>6, FiresKept
<1>8. Started(m) /\ m.alive /\ OnTop(o, t)
  BY <1>3, <1>7 DEF Fires
<1>9. AllKeep("when", k, ad, rn, p, t)
  <2>1. o \in OutcomeLists("when") => Keeps("when", o, m, ad[o], rn[o], p[o], t)
    BY <1>5, <1>7
  <2>2. o[2] # "progress"
    OBVIOUS
  <2> QED BY <1>4, <1>7, <2>1, <2>2, InsideOther
<1>10. Settled("when", k, oc, n - 1, p, t)
  BY <1>1, <1>2, <1>8, SettledCounts
<1> QED BY <1>9, <1>10 DEF PromisesOf

\* The fourth callback of one that is rejected.
LEMMA RejectKeeps ==
    ASSUME NEW ls, NEW ad, NEW rn, NEW oc, NEW n, NEW q, NEW p, NEW cs,
           Inside("when", ls, ad, rn, oc, n, q, p, cs), NEW d \in {"d", "e"},
           NEW id, id = <<d, "fail">>, OnTop(id, cs), OneMoreCalled("when", q, id, p), q[id] = 3,
           Started(ls[id]), NEW v \in Int, v > 0, NEW o, o = <<"w", "fail">>,
           NEW l, l = ls[o], NEW m, m = FireWith(l, v),
           NEW k, Changes(ls, k, Layout("when"), o, m), NEW t, Pushed(l, m, o, cs, t)
    PROVE  PromisesOf("when", k, ad, rn, oc, n, p, t)
<1>1. /\ Settled("when", ls, oc, n, q, cs) /\ Sound("when", ls, q)
      /\ Closing("when", ls, q, cs) /\ AllKeep("when", ls, ad, rn, p, cs)
      /\ ClosedByOther("when", ls) /\ WhenCounts(ls, n, q) /\ Maps(ls, Layout("when"))
  BY DEF Inside, Settled
<1>2. AllClosed("when", ls)
  <2>1. cs # <<>> /\ Last(cs) \in OutcomeLists("when") => ~(q[Last(cs)] < 2)
    BY DEF OnTop
  <2> QED BY <1>1, <2>1, ClosedNow
<1>3. l.alive
  BY <1>1, <1>2, CanReject
<1>4. o \in OutcomeLists("when") /\ o \in Layout("when")
  BY WhenLists DEF OutcomeLists, Deferreds
<1>5. PICK a, r, c : a = ad[o] /\ r = rn[o] /\ c = p[o]
  OBVIOUS
<1>6. OneKept("when", o, l, a, r, c, cs)
  BY <1>4, <1>5, InsideOne
<1>7. Keeps("when", o, m, a, r, c, t) /\ "stopOnFalse" \notin m.flags /\ Fires(l, m, c, o, cs, t)
  BY <1>6, FiresKept
<1>8. AllKeep("when", k, ad, rn, p, t)
  <2>1. o \in OutcomeLists("when") => Keeps("when", o, m, ad[o], rn[o], p[o], t)
    BY <1>5, <1>7
  <2>2. o[2] # "progress"
    OBVIOUS
  <2> QED BY <1>4, <1>7, <2>1, <2>2, InsideOther
<1>9. Settled("when", k, oc, n, p, t)
  <2>1. CASE Started(l)
    <3>1. m = l
      BY <1>7, <2>1 DEF Fires
    <3>2. k = ls
      BY <1>1, <3>1 DEF Changes, Maps
    <3> QED BY <1>1, <1>2, <2>1, <3>2, SettledRejects
  <2>2. CASE ~Started(l)
    <3>1. Started(m) /\ m.alive /\ OnTop(o, t)
      BY <1>3, <1>7, <2>2 DEF Fires
    <3> QED BY <1>1, <1>2, <2>2, <3>1, SettledRejects
  <2> QED BY <2>1, <2>2
<1> QED BY <1>8, <1>9 DEF PromisesOf

\* A list for progress calls one of when()'s callbacks.
LEMMA ForwardStarts ==
    ASSUME NEW s, NEW ls, NEW ad, NEW rn, NEW oc, NEW n, NEW q, NEW cs,
           Held(s, ls, ad, rn, oc, n, q, cs), NEW id \in Layout(s), id[2] = "progress",
           NEW l, NEW fn, NEW m, NEW k, Takes(s, ls, k, id, l, m, fn, cs)
    PROVE  /\ fn = Firing(<<"w", "progress">>)
           /\ Inside(s, k, ad, rn, oc, n, q, q, cs) /\ AllClosed(s, k)
           /\ Settled(s, k, oc, n, q, cs)
<1>0. /\ OnTop(id, cs) /\ l = ls[id] /\ NextOf(l, fn) /\ ~IsScript(fn)
      /\ m = Advance(l) /\ Changes(ls, k, Layout(s), id, m)
  BY DEF Takes
<1>1. PICK a, r : a = ad[id] /\ r = rn[id]
  OBVIOUS
<1>2. /\ l \in ListOf(CallbacksFor(s, id)) /\ Maps(rn, Layout(s)) /\ StackSound(cs, Layout(s))
      /\ User \notin Layout(s)
      /\ q \in [OutcomeLists(s) -> Nat] /\ Maps(ad, Layout(s)) /\ "stopOnFalse" \notin l.flags
      /\ HasDeferreds(s) /\ AllKeep(s, ls, ad, rn, q, cs) /\ Settled(s, ls, oc, n, q, cs)
      /\ Sound(s, ls, q) /\ Forwarding(l) /\ id \notin OutcomeLists(s)
  BY <1>0, HeldFacts
<1>3. IsFiring(id, cs) /\ ~InCall(id, cs)
  BY <1>0, <1>2, ListOnTop DEF OnTop
<1>4. l.index >= 0
  BY <1>0, <1>3, HeldFacts
<1>5. fn = Firing(<<"w", "progress">>)
  <2>1. PICK i \in Int : i = l.index /\ i >= 0
    BY <1>0, <1>2, <1>4 DEF ListOf
  <2>2. PICK h \in Nat : h = Len(l.list)
    <3>1. l.list \in Seq(CallbacksFor(s, id))
      BY <1>0, <1>2 DEF ListOf
    <3> QED BY <3>1
  <2>3. i + 1 \in 1..h /\ fn = l.list[i + 1]
    BY <1>0, <2>1, <2>2 DEF NextOf
  <2> QED BY <1>0, <1>2, <2>2, <2>3 DEF Forwarding
<1>6. SameKind(l, m)
  BY <1>0, <1>2, KindStays
<1>7. Forwarding(m) /\ "stopOnFalse" \notin m.flags
  BY <1>0, <1>2, <1>6, ForwardingStays
<1>8. AllKeep(s, k, ad, rn, q, cs)
  <2>1. Changes(rn, rn, Layout(s), id, r) /\ Changes(ad, ad, Layout(s), id, a)
    BY <1>0, <1>1, <1>2, NoneChanges
  <2>2. \A x \in OutcomeLists(s) : x # id => Same(x, cs, cs) /\ q[x] = q[x]
    BY DEF Same
  <2> QED BY <1>0, <1>2, <1>7, <2>1, <2>2, OneKeeps
<1>9. Inside(s, k, ad, rn, oc, n, q, q, cs)
  BY <1>0, <1>2, <1>8, InsideAgain
<1>10. AllClosed(s, ls)
  BY <1>0, <1>2, ClosedNow DEF OnTop, Settled
<1>11. AllAlike(s, ls, k)
  BY <1>0, <1>2, ChangesAlike
<1>12. AllClosed(s, k) /\ Settled(s, k, oc, n, q, cs)
  BY <1>0, <1>2, <1>10, <1>11, SettledStays
<1> QED BY <1>0, <1>5, <1>9, <1>12

\* The loop of list id goes on, which makes k of the lists.
Onward(k, id) == k = [lists EXCEPT ![id] = Advance(@)]

\* The steps of the loop, as changes of one list after the other.
LEMMA BecomesTurns ==
    ASSUME NEW ids, Maps(lists, ids), NEW id \in ids, NEW other \in ids, NEW cb,
           lists[id] \in ListOf(cb), NEW k, Onward(k, id), NEW m, BecomesIn(id, other, m),
           NEW n, n = lists', NEW cs, cs = calls, NEW t, t = calls'
    PROVE  Changes(k, n, ids, other, m) /\ Pushed(k[other], m, other, cs, t)
<1>0. PICK a : a = Advance(lists[id])
  OBVIOUS
<1>1. k = [lists EXCEPT ![id] = Advance(@)] /\ Changes(lists, k, ids, id, a)
  BY <1>0, ExceptChanges DEF Onward
<1>2. Maps(k, ids) /\ k[id] = a /\ \A x \in ids : x # id => k[x] = lists[x]
  BY <1>1 DEF Changes
<1>3. k[other].firing = lists[other].firing
  BY <1>0, <1>2, AdvanceFacts
<1>4. n = [k EXCEPT ![other] = m]
  BY <1>1 DEF BecomesIn
<1>5. Changes(k, n, ids, other, m)
  BY <1>2, <1>4, ExceptChanges
<1>6. t = IF m.firing /\ ~lists[other].firing THEN Append(cs, other) ELSE cs
  BY DEF BecomesIn
<1> QED BY <1>3, <1>5, <1>6 DEF Pushed

LEMMA InternalTurns ==
    ASSUME NEW id \in DOMAIN lists, CallInternal(id), NEW fn,
           fn = lists[id].list[lists[id].index + 1]
    PROVE  /\ ~IsScript(fn) /\ OnTop(id, calls) /\ MoreToCall(lists[id]) /\ NextOf(lists[id], fn)
           /\ UNCHANGED <<script, added, ran>>
           /\ fn[1] = "settle" =>
                 /\ BecomesIn(id, id, [lists EXCEPT ![id] = Advance(@)][id])
                 /\ outcome' = [outcome EXCEPT ![fn[2]] = fn[3]] /\ count' = count
           /\ fn[1] = "disable" =>
                 /\ BecomesIn(id, fn[2], Disable(lists[fn[2]]))
                 /\ outcome' = outcome /\ count' = count
           /\ fn[1] = "lock" =>
                 /\ BecomesIn(id, fn[2], Lock(lists[fn[2]]))
                 /\ outcome' = outcome /\ count' = count
           /\ fn[1] = "fire" =>
                 /\ BecomesIn(id, fn[2], FireWith(lists[fn[2]], lists[id].args))
                 /\ outcome' = outcome /\ count' = count
           /\ fn[1] = "count" =>
                 /\ count = 1 => BecomesIn(id, fn[2], FireWith(lists[fn[2]], lists[id].args))
                 /\ count # 1 => BecomesIn(id, id, [lists EXCEPT ![id] = Advance(@)][id])
                 /\ outcome' = outcome /\ count' = count - 1
<1>1. /\ ~IsScript(fn) /\ OnTop(id, calls) /\ MoreToCall(lists[id]) /\ NextOf(lists[id], fn)
      /\ UNCHANGED <<script, added, ran>>
  BY DEF CallInternal, OnTop, NextOf
<1>2. ASSUME fn[1] = "settle"
      PROVE  /\ BecomesIn(id, id, [lists EXCEPT ![id] = Advance(@)][id])
             /\ outcome' = [outcome EXCEPT ![fn[2]] = fn[3]] /\ count' = count
  BY <1>2 DEF CallInternal, BecomesIn
<1>3. ASSUME fn[1] = "disable"
      PROVE  /\ BecomesIn(id, fn[2], Disable(lists[fn[2]]))
             /\ outcome' = outcome /\ count' = count
  BY <1>3 DEF CallInternal, BecomesIn
<1>4. ASSUME fn[1] = "lock"
      PROVE  /\ BecomesIn(id, fn[2], Lock(lists[fn[2]]))
             /\ outcome' = outcome /\ count' = count
  BY <1>4 DEF CallInternal, BecomesIn
<1>5. ASSUME fn[1] = "fire"
      PROVE  /\ BecomesIn(id, fn[2], FireWith(lists[fn[2]], lists[id].args))
             /\ outcome' = outcome /\ count' = count
  BY <1>5 DEF CallInternal, BecomesIn
<1>6. ASSUME fn[1] = "count", count = 1
      PROVE  /\ BecomesIn(id, fn[2], FireWith(lists[fn[2]], lists[id].args))
             /\ outcome' = outcome /\ count' = count - 1
  BY <1>6 DEF CallInternal, BecomesIn
<1>7. ASSUME fn[1] = "count", count # 1
      PROVE  /\ BecomesIn(id, id, [lists EXCEPT ![id] = Advance(@)][id])
             /\ outcome' = outcome /\ count' = count - 1
  BY <1>7 DEF CallInternal, BecomesIn
<1> QED BY <1>1, <1>2, <1>3, <1>4, <1>5, <1>6, <1>7, Zenon

\* q is the invariant's witness, in this state.
HeldNow(q) == Held(script, lists, added, ran, outcome, count, q, calls)

LEMMA NowFacts ==
    ASSUME ValuesInv, HasDeferreds(script), NEW q, Promises(q)
    PROVE  HeldNow(q)
BY DEF ValuesInv, HeldNow, Held, Promises

\* The state after a step.
LEMMA NowKept ==
    ASSUME script' = script, NEW s, s = script, NEW k, k = lists', NEW b, b = added',
           NEW z, z = ran', NEW oc, oc = outcome', NEW n, n = count', NEW t, t = calls',
           NEW p, PromisesOf(s, k, b, z, oc, n, p, t)
    PROVE  Promises(p)'
BY DEF Promises, PromisesOf

LEMMA TurnsSame ==
    ASSUME NEW ids, NEW k, Maps(k, ids), NEW id \in ids, NEW m, m = k[id], NEW n,
           Changes(k, n, ids, id, m), NEW cs, NEW t, Pushed(k[id], m, id, cs, t)
    PROVE  n = k /\ t = cs
<1>1. \A x \in ids : n[x] = k[x]
  BY DEF Changes
<1>2. n = k
  BY <1>1 DEF Changes, Maps
<1> QED BY <1>2 DEF Pushed

\* The step that calls a function of Deferred() or of when() in a list for an
\* outcome, whose first functions they are.
LEMMA OutcomeCalls ==
    ASSUME NEW q, HeldNow(q), NEW id \in OutcomeLists(script), CallInternal(id)
    PROVE  \E p : Promises(p)'
<1>1. PICK s, ls, ad, rn, oc, n, cs : /\ s = script /\ ls = lists /\ ad = added /\ rn = ran
                                      /\ oc = outcome /\ n = count /\ cs = calls
  OBVIOUS
<1>2. PICK nl, no, nn, t : nl = lists' /\ no = outcome' /\ nn = count' /\ t = calls'
  OBVIOUS
<1>3. Held(s, ls, ad, rn, oc, n, q, cs) /\ id \in OutcomeLists(s) /\ id \in Layout(s)
  BY <1>1 DEF HeldNow, OutcomeLists
<1>4. /\ HasDeferreds(s) /\ Maps(ls, Layout(s)) /\ User \notin Layout(s)
      /\ ls[id] \in ListOf(CallbacksFor(s, id)) /\ q \in [OutcomeLists(s) -> Nat]
  BY <1>3, HeldFacts
<1>5. id \in DOMAIN lists
  BY <1>1, <1>3, <1>4 DEF Maps
<1>6. PICK l, fn, m, k : /\ l = ls[id] /\ fn = lists[id].list[lists[id].index + 1]
                         /\ m = Advance(l) /\ k = [lists EXCEPT ![id] = Advance(@)]
  OBVIOUS
<1>7. /\ ~IsScript(fn) /\ OnTop(id, cs) /\ MoreToCall(l) /\ NextOf(l, fn)
      /\ UNCHANGED <<script, added, ran>>
      /\ fn[1] = "settle" =>
            /\ BecomesIn(id, id, k[id])
            /\ no = [oc EXCEPT ![fn[2]] = fn[3]] /\ nn = n
      /\ fn[1] = "disable" =>
            /\ BecomesIn(id, fn[2], Disable(ls[fn[2]])) /\ no = oc /\ nn = n
      /\ fn[1] = "lock" =>
            /\ BecomesIn(id, fn[2], Lock(ls[fn[2]])) /\ no = oc /\ nn = n
      /\ fn[1] = "fire" =>
            /\ BecomesIn(id, fn[2], FireWith(ls[fn[2]], l.args)) /\ no = oc /\ nn = n
      /\ fn[1] = "count" =>
            /\ n = 1 => BecomesIn(id, fn[2], FireWith(ls[fn[2]], l.args))
            /\ n # 1 => BecomesIn(id, id, k[id])
            /\ no = oc /\ nn = n - 1
  BY <1>1, <1>2, <1>5, <1>6, InternalTurns, Zenon
<1>8. Changes(ls, k, Layout(s), id, m) /\ Maps(k, Layout(s)) /\ k[id] = m
  <2>1. Changes(lists, k, Layout(s), id, m)
    BY <1>1, <1>3, <1>4, <1>6, ExceptChanges
  <2> QED BY <1>1, <2>1 DEF Changes
<1>9. \A x \in Layout(s) : x # id => k[x] = ls[x]
  BY <1>8 DEF Changes
<1>10. PICK f : f = First(s, id)
  OBVIOUS
<1>11. /\ q[id] \in Nat /\ q[id] < Len(f) /\ fn = f[q[id] + 1]
       /\ Started(m) /\ m.alive /\ m.args > 0 /\ m.args = l.args
       /\ \E p : OneMoreCalled(s, q, id, p) /\ Inside(s, k, ad, rn, oc, n, q, p, cs)
  <2>1. Takes(s, ls, k, id, l, m, fn, cs)
    BY <1>6, <1>7, <1>8 DEF Takes
  <2>3. /\ q[id] \in Nat /\ q[id] < Len(First(s, id)) /\ fn = First(s, id)[q[id] + 1]
        /\ Started(m) /\ m.alive /\ m.args > 0 /\ m.args = l.args
        /\ \E p : OneMoreCalled(s, q, id, p) /\ Inside(s, k, ad, rn, oc, n, q, p, cs)
    BY <1>3, <2>1, InsideStarts
  <2> QED BY <1>10, <2>3
<1>12. PICK p : OneMoreCalled(s, q, id, p) /\ Inside(s, k, ad, rn, oc, n, q, p, cs)
  BY <1>11
<1>13. /\ Len(f) = IF s = "when" /\ id[1] # "w" THEN 4 ELSE 3
       /\ f[1] = Settle(id[1], OutcomeOf(id))
       /\ f[2] = Disabling(Opposite(id))
       /\ f[3] = Locking(id[1])
       /\ s = "when" /\ id[1] # "w" /\ id[2] = "done" => f[4] = CountingDown
       /\ s = "when" /\ id[1] # "w" /\ id[2] = "fail" => f[4] = Firing(<<"w", "fail">>)
  BY <1>3, <1>4, <1>10, FirstFacts
<1>14. PICK o : o = Opposite(id)
  OBVIOUS
<1>15. /\ id[1] \in Deferreds /\ id[2] \in {"done", "fail"} /\ id = <<id[1], id[2]>>
       /\ o \in OutcomeLists(s) /\ o # id
       /\ <<id[1], "progress">> \in Layout(s) /\ <<id[1], "progress">> \notin OutcomeLists(s)
  BY <1>3, <1>4, <1>14, OutcomeFacts
<1>16. ASSUME NEW other \in Layout(s), NEW a, BecomesIn(id, other, a)
       PROVE  Changes(k, nl, Layout(s), other, a) /\ Pushed(k[other], a, other, cs, t)
  <2>1. PICK ids, cb : ids = Layout(s) /\ cb = CallbacksFor(s, id)
    OBVIOUS
  <2>2. Maps(lists, ids) /\ id \in ids /\ other \in ids /\ lists[id] \in ListOf(cb)
    BY <1>1, <1>3, <1>4, <2>1
  <2>3. nl = lists' /\ cs = calls /\ t = calls' /\ Onward(k, id)
    BY <1>1, <1>2, <1>6 DEF Onward
  <2>4. Changes(k, nl, ids, other, a) /\ Pushed(k[other], a, other, cs, t)
    BY <1>16, <2>2, <2>3, BecomesTurns
  <2> QED BY <2>1, <2>4
<1>17. ASSUME BecomesIn(id, id, k[id])
       PROVE  nl = k /\ t = cs
  <2>1. PICK a : a = k[id]
    OBVIOUS
  <2>2. Changes(k, nl, Layout(s), id, a) /\ Pushed(k[id], a, id, cs, t)
    BY <1>3, <1>16, <1>17, <2>1
  <2> QED BY <1>3, <1>8, <2>1, <2>2, TurnsSame
<1>18. Started(k[id])
  BY <1>8, <1>11
<1>19. SUFFICES PromisesOf(s, nl, ad, rn, no, nn, p, t)
  <2>1. script' = script /\ ad = added' /\ rn = ran'
    BY <1>1, <1>7
  <2> QED BY <1>1, <1>2, <1>19, <2>1, NowKept
<1>20. CASE q[id] = 0
  <2>1. fn[1] = "settle" /\ fn[2] = id[1] /\ fn[3] = OutcomeOf(id)
    BY <1>11, <1>13, <1>20 DEF Settle
  <2>2. PICK b : b = [oc EXCEPT ![id[1]] = OutcomeOf(id)]
    OBVIOUS
  <2>3. nl = k /\ t = cs /\ no = b /\ nn = n
    BY <1>7, <1>17, <2>1, <2>2
  <2>4. PromisesOf(s, k, ad, rn, b, n, p, cs)
    BY <1>3, <1>7, <1>12, <1>18, <1>20, <2>2, SettleKeeps
  <2> QED BY <2>3, <2>4
<1>21. CASE q[id] = 1
  <2>1. fn[1] = "disable" /\ fn[2] = o
    BY <1>11, <1>13, <1>14, <1>21 DEF Disabling
  <2>2. PICK a : a = Disable(ls[o])
    OBVIOUS
  <2>3. o \in Layout(s) /\ k[o] = ls[o]
    BY <1>9, <1>15 DEF OutcomeLists
  <2>4. Changes(k, nl, Layout(s), o, a) /\ Pushed(k[o], a, o, cs, t) /\ no = oc /\ nn = n
    BY <1>7, <1>16, <2>1, <2>2, <2>3
  <2>5. PICK x : x = k[o]
    OBVIOUS
  <2>6. PromisesOf(s, nl, ad, rn, oc, n, p, t)
    BY <1>3, <1>7, <1>12, <1>14, <1>18, <1>21, <2>2, <2>3, <2>4, <2>5, DisableKeeps
  <2> QED BY <2>4, <2>6
<1>22. CASE q[id] = 2
  <2>0. PICK y : y = <<id[1], "progress">>
    OBVIOUS
  <2>1. fn[1] = "lock" /\ fn[2] = y
    BY <1>11, <1>13, <1>22, <2>0 DEF Locking
  <2>2. PICK a : a = Lock(ls[y])
    OBVIOUS
  <2>3. y \in Layout(s) /\ k[y] = ls[y]
    BY <1>3, <1>9, <1>15, <2>0
  <2>4. Changes(k, nl, Layout(s), y, a) /\ Pushed(k[y], a, y, cs, t) /\ no = oc /\ nn = n
    BY <1>7, <1>16, <2>1, <2>2, <2>3
  <2>5. PICK x : x = k[y]
    OBVIOUS
  <2>6. PromisesOf(s, nl, ad, rn, oc, n, p, t)
    BY <1>3, <1>7, <1>12, <1>22, <2>0, <2>2, <2>3, <2>4, <2>5, LockKeeps
  <2> QED BY <2>4, <2>6
<1>23. CASE q[id] = 3
  <2>1. s = "when" /\ id[1] # "w" /\ id[1] \in {"d", "e"} /\ fn = f[4]
    BY <1>11, <1>13, <1>15, <1>23 DEF Deferreds
  <2>2. PICK d : d = id[1] /\ d \in {"d", "e"}
    BY <2>1
  <2>3. PICK v : v = l.args /\ v \in Int /\ v > 0
    BY <1>4, <1>6, <1>11 DEF ListOf
  <2>4. /\ HeldNow(q) /\ Inside("when", k, ad, rn, oc, n, q, p, cs) /\ OneMoreCalled("when", q, id, p)
    BY <1>12, <2>1
  <2>5. CASE id[2] = "done"
    <3>1. fn[1] = "count" /\ fn[2] = <<"w", "done">>
      BY <1>13, <2>1, <2>5 DEF CountingDown
    <3>2. id = <<d, "done">>
      BY <1>15, <2>2, <2>5
    <3>3. CASE n # 1
      <4>1. nl = k /\ t = cs /\ no = oc /\ nn = n - 1
        BY <1>7, <1>17, <3>1, <3>3
      <4>2. PromisesOf("when", k, ad, rn, oc, n - 1, p, cs)
        BY <1>7, <1>23, <2>2, <2>4, <3>2, <3>3, CountKeeps
      <4> QED BY <2>1, <4>1, <4>2
    <3>4. CASE n = 1
      <4>0. PICK y : y = <<"w", "done">>
        OBVIOUS
      <4>1. PICK a : a = FireWith(ls[y], v)
        OBVIOUS
      <4>2. y \in Layout(s) /\ y # id /\ k[y] = ls[y]
        <5>1. y \in Layout(s)
          BY <2>1, <4>0 DEF Layout, Deferreds, Kind
        <5>2. y # id
          BY <2>1, <4>0, <3>2, <2>2
        <5> QED BY <1>9, <5>1, <5>2
      <4>3. Changes(k, nl, Layout(s), y, a) /\ Pushed(k[y], a, y, cs, t) /\ no = oc /\ nn = n - 1
        BY <1>7, <1>16, <2>3, <3>1, <3>4, <4>0, <4>1, <4>2
      <4>4. PICK x : x = k[y]
        OBVIOUS
      <4>5. Changes(k, nl, Layout("when"), y, a)
        BY <2>1, <4>3
      <4>6. PromisesOf("when", nl, ad, rn, oc, n - 1, p, t)
        BY <1>7, <1>18, <1>23, <2>2, <2>3, <2>4, <3>2, <3>4, <4>0, <4>1, <4>2, <4>3, <4>4, <4>5,
           ResolveKeeps
      <4> QED BY <2>1, <4>3, <4>6
    <3> QED BY <3>3, <3>4
  <2>6. CASE id[2] = "fail"
    <3>1. fn[1] = "fire" /\ fn[2] = <<"w", "fail">>
      BY <1>13, <2>1, <2>6 DEF Firing
    <3>2. id = <<d, "fail">>
      BY <1>15, <2>2, <2>6
    <3>3. PICK y : y = <<"w", "fail">>
      OBVIOUS
    <3>4. PICK a : a = FireWith(ls[y], v)
      OBVIOUS
    <3>5. y \in Layout(s) /\ y # id /\ k[y] = ls[y]
      <4>1. y \in Layout(s)
        BY <2>1, <3>3 DEF Layout, Deferreds, Kind
      <4>2. y # id
        BY <2>1, <3>3, <3>2, <2>2
      <4> QED BY <1>9, <4>1, <4>2
    <3>6. Changes(k, nl, Layout(s), y, a) /\ Pushed(k[y], a, y, cs, t) /\ no = oc /\ nn = n
      BY <1>7, <1>16, <2>3, <3>1, <3>3, <3>4, <3>5
    <3>7. PICK x : x = k[y]
      OBVIOUS
    <3>8. Changes(k, nl, Layout("when"), y, a)
      BY <2>1, <3>6
    <3>9. PromisesOf("when", nl, ad, rn, oc, n, p, t)
      BY <1>7, <1>18, <1>23, <2>2, <2>3, <2>4, <3>2, <3>3, <3>4, <3>5, <3>6, <3>7, <3>8, RejectKeeps
    <3> QED BY <2>1, <3>6, <3>9
  <2> QED BY <1>15, <2>5, <2>6
<1>24. q[id] \in 0..3
  BY <1>11, <1>13
<1> QED BY <1>20, <1>21, <1>22, <1>23, <1>24

LEMMA ForwardCalls ==
    ASSUME ValuesInv, NEW q, HeldNow(q), NEW id \in Layout(script), id[2] = "progress",
           CallInternal(id)
    PROVE  \E p : Promises(p)'
<1>1. PICK s, ls, ad, rn, oc, n, cs : /\ s = script /\ ls = lists /\ ad = added /\ rn = ran
                                      /\ oc = outcome /\ n = count /\ cs = calls
  OBVIOUS
<1>2. PICK nl, no, nn, t : nl = lists' /\ no = outcome' /\ nn = count' /\ t = calls'
  OBVIOUS
<1>3. Held(s, ls, ad, rn, oc, n, q, cs) /\ id \in Layout(s)
  BY <1>1 DEF HeldNow
<1>4. /\ HasDeferreds(s) /\ Maps(ls, Layout(s)) /\ User \notin Layout(s)
      /\ ls[id] \in ListOf(CallbacksFor(s, id))
  BY <1>3, HeldFacts
<1>5. id \in DOMAIN lists
  BY <1>1, <1>3, <1>4 DEF Maps
<1>6. PICK l, fn, m, k : /\ l = ls[id] /\ fn = lists[id].list[lists[id].index + 1]
                         /\ m = Advance(l) /\ k = [lists EXCEPT ![id] = Advance(@)]
  OBVIOUS
<1>7. /\ ~IsScript(fn) /\ OnTop(id, cs) /\ MoreToCall(l) /\ NextOf(l, fn)
      /\ UNCHANGED <<script, added, ran>>
      /\ fn[1] = "fire" =>
            /\ BecomesIn(id, fn[2], FireWith(ls[fn[2]], l.args)) /\ no = oc /\ nn = n
  BY <1>1, <1>2, <1>5, <1>6, InternalTurns, Zenon
<1>8. Changes(ls, k, Layout(s), id, m)
  BY <1>1, <1>3, <1>4, <1>6, ExceptChanges
<1>9. \A x \in Layout(s) : x # id => k[x] = ls[x]
  BY <1>8 DEF Changes
<1>10. /\ fn = Firing(<<"w", "progress">>)
       /\ Inside(s, k, ad, rn, oc, n, q, q, cs) /\ AllClosed(s, k)
       /\ Settled(s, k, oc, n, q, cs)
  <2>1. Takes(s, ls, k, id, l, m, fn, cs)
    BY <1>6, <1>7, <1>8 DEF Takes
  <2>2. id[2] = "progress"
    OBVIOUS
  <2> QED BY <1>3, <2>1, <2>2, ForwardStarts
<1>11. PICK y : y = <<"w", "progress">>
  OBVIOUS
<1>12. fn[1] = "fire" /\ fn[2] = y /\ y[2] = "progress"
  BY <1>10, <1>11 DEF Firing
<1>13. y \in Layout(s) /\ y # id
  <2>1. fn \in CallbacksFor(s, id)
    <3>1. calls # <<>> /\ Last(calls) = id /\ lists[id].index < Len(lists[id].list)
      BY <1>1, <1>6, <1>7 DEF OnTop, NextOf
    <3> QED BY <1>1, <1>5, <1>6, <3>1, NextCall
  <2> QED BY <1>7, <1>12, <2>1, InternalKinds
<1>14. PICK v : v = l.args
  OBVIOUS
<1>15. PICK x, a : x = k[y] /\ a = FireWith(x, v)
  OBVIOUS
<1>16. x = ls[y] /\ x \in ListOf(CallbacksFor(s, y))
  BY <1>3, <1>9, <1>13, <1>15, HeldFacts
<1>17. SameKind(x, a)
  BY <1>15, <1>16, KindStays
<1>18. Changes(k, nl, Layout(s), y, a) /\ Pushed(k[y], a, y, cs, t)
  <2>1. PICK ids, cb : ids = Layout(s) /\ cb = CallbacksFor(s, id)
    OBVIOUS
  <2>2. Maps(lists, ids) /\ id \in ids /\ y \in ids /\ lists[id] \in ListOf(cb)
    BY <1>1, <1>3, <1>4, <1>13, <2>1
  <2>3. nl = lists' /\ cs = calls /\ t = calls' /\ Onward(k, id)
    BY <1>1, <1>2, <1>6 DEF Onward
  <2>4. BecomesIn(id, y, a)
    BY <1>7, <1>12, <1>14, <1>15, <1>16
  <2>5. Changes(k, nl, ids, y, a) /\ Pushed(k[y], a, y, cs, t)
    BY <2>2, <2>3, <2>4, BecomesTurns
  <2> QED BY <2>1, <2>5
<1>19. PromisesOf(s, nl, ad, rn, oc, n, q, t)
  BY <1>10, <1>12, <1>13, <1>15, <1>17, <1>18, ProgressKeeps
<1>20. script' = script /\ ad = added' /\ rn = ran' /\ oc = outcome' /\ n = count'
  BY <1>1, <1>2, <1>7, <1>12
<1> QED BY <1>1, <1>2, <1>19, <1>20, NowKept

LEMMA InternalKeeps ==
    ASSUME ValuesInv, NEW q, HeldNow(q), NEW id \in DOMAIN lists, CallInternal(id)
    PROVE  \E p : Promises(p)'
<1>1. id \in Layout(script)
  BY ValuesFacts
<1>2. HasDeferreds(script)
  BY DEF HeldNow, Held
<1>3. id \in OutcomeLists(script) \/ id[2] = "progress"
  BY <1>1, <1>2, DeferredKinds
<1> QED BY <1>1, <1>3, OutcomeCalls, ForwardCalls

LEMMA AddsKept ==
    ASSUME ValuesInv, NEW q, HeldNow(q), NEW id \in DOMAIN lists, ScriptAdds(id)
    PROVE  Promises(q)'
<1>1. PICK s, ls, ad, rn, oc, n, cs : /\ s = script /\ ls = lists /\ ad = added /\ rn = ran
                                      /\ oc = outcome /\ n = count /\ cs = calls
  OBVIOUS
<1>2. PICK k, b, t : k = lists' /\ b = added' /\ t = calls'
  OBVIOUS
<1>3. Held(s, ls, ad, rn, oc, n, q, cs) /\ id \in Layout(s)
  BY <1>1, ValuesFacts DEF HeldNow
<1>4. /\ HasDeferreds(s) /\ Maps(ls, Layout(s)) /\ Maps(ad, Layout(s))
  BY <1>3, HeldFacts
<1>5. s # "list" /\ ops \in Nat
  BY <1>4 DEF HasDeferreds, ValuesInv
<1>6. PICK fn : fn = Script(ops + 1)
  OBVIOUS
<1>7. fn \in {"script"} \X Nat
  BY <1>5, <1>6 DEF Script
<1>8. PICK l, m, x : l = ls[id] /\ m = AddTo(l, fn) /\ x = Append(ad[id], fn)
  OBVIOUS
<1>9. /\ k = [ls EXCEPT ![id] = m] /\ t = (IF m.firing /\ ~l.firing THEN Append(cs, id) ELSE cs)
      /\ b = [ad EXCEPT ![id] = x]
  <2>1. PICK i \in {ops'} :
           /\ lists' = [lists EXCEPT ![id] = AddTo(lists[id], Script(i))]
           /\ calls' = IF AddTo(lists[id], Script(i)).firing /\ ~lists[id].firing
                       THEN Append(calls, id) ELSE calls
           /\ added' = [added EXCEPT ![id] = Append(@, Script(i))]
    BY <1>1, <1>5 DEF ScriptAdds
  <2>2. i = ops + 1
    BY DEF ScriptAdds, Count
  <2> QED BY <1>1, <1>2, <1>6, <1>8, <2>1, <2>2
<1>10. Changes(ls, k, Layout(s), id, m) /\ Changes(ad, b, Layout(s), id, x)
  BY <1>3, <1>4, <1>9, ExceptChanges
<1>11. Pushed(l, m, id, cs, t) /\ Appended(ad[id], fn, x)
  BY <1>8, <1>9 DEF Pushed, Appended
<1>12. cs # <<>> => Last(cs) = User
  BY <1>1 DEF ScriptAdds, Count, ScriptRuns
<1>13. PromisesOf(s, k, b, rn, oc, n, q, t)
  BY <1>3, <1>7, <1>8, <1>10, <1>11, <1>12, AddKeeps
<1>14. script' = script /\ rn = ran' /\ oc = outcome' /\ n = count'
  BY <1>1 DEF ScriptAdds
<1> QED BY <1>1, <1>2, <1>13, <1>14, NowKept

LEMMA FiresKeep ==
    ASSUME ValuesInv, NEW q, HeldNow(q), NEW id \in DOMAIN lists, ScriptFires(id)
    PROVE  Promises(q)'
<1>1. PICK s, ls, ad, rn, oc, n, cs : /\ s = script /\ ls = lists /\ ad = added /\ rn = ran
                                      /\ oc = outcome /\ n = count /\ cs = calls
  OBVIOUS
<1>2. PICK k, t : k = lists' /\ t = calls'
  OBVIOUS
<1>3. Held(s, ls, ad, rn, oc, n, q, cs) /\ id \in Layout(s)
  BY <1>1, ValuesFacts DEF HeldNow
<1>4. Maps(ls, Layout(s))
  BY <1>3, HeldFacts
<1>5. PICK v \in Int : v = ops' /\ v > 0
  BY DEF ScriptFires, Count, ValuesInv
<1>6. PICK l, m : l = ls[id] /\ m = FireWith(l, v)
  OBVIOUS
<1>7. k = [ls EXCEPT ![id] = m] /\ t = (IF m.firing /\ ~l.firing THEN Append(cs, id) ELSE cs)
  BY <1>1, <1>2, <1>5, <1>6 DEF ScriptFires, Put
<1>8. Changes(ls, k, Layout(s), id, m)
  BY <1>3, <1>4, <1>7, ExceptChanges
<1>9. Pushed(l, m, id, cs, t)
  BY <1>7 DEF Pushed
<1>10. (cs # <<>> => Last(cs) = User) /\ id[1] # "w"
  BY <1>1 DEF ScriptFires, Count, ScriptRuns
<1>11. PromisesOf(s, k, ad, rn, oc, n, q, t)
  BY <1>3, <1>5, <1>6, <1>8, <1>9, <1>10, FireKeeps
<1>12. script' = script /\ ad = added' /\ rn = ran' /\ oc = outcome' /\ n = count'
  BY <1>1 DEF ScriptFires
<1> QED BY <1>1, <1>2, <1>11, <1>12, NowKept

LEMMA CallsKeep ==
    ASSUME ValuesInv, NEW q, HeldNow(q), NEW id \in DOMAIN lists, CallScript(id)
    PROVE  \E p : Promises(p)'
<1>1. PICK s, ls, ad, rn, oc, n, cs : /\ s = script /\ ls = lists /\ ad = added /\ rn = ran
                                      /\ oc = outcome /\ n = count /\ cs = calls
  OBVIOUS
<1>2. PICK z, t : z = ran' /\ t = calls'
  OBVIOUS
<1>3. Held(s, ls, ad, rn, oc, n, q, cs) /\ id \in Layout(s)
  BY <1>1, ValuesFacts DEF HeldNow
<1>4. /\ Maps(rn, Layout(s)) /\ HasDeferreds(s) /\ StackSound(cs, Layout(s))
      /\ User \notin Layout(s) /\ Settled(s, ls, oc, n, q, cs)
  BY <1>3, HeldFacts
<1>5. PICK l, fn : l = ls[id] /\ fn = l.list[l.index + 1]
  OBVIOUS
<1>6. OnTop(id, cs) /\ MoreToCall(l)
  BY <1>1, <1>5 DEF CallScript, OnTop
<1>7. /\ script' = script /\ ls = lists' /\ ad = added' /\ oc = outcome' /\ n = count'
  BY <1>1 DEF CallScript
<1>8. CASE l.index < Len(l.list)
  <2>1. PICK run, y : run = [fn |-> fn, value |-> l.args] /\ y = Append(rn[id], run)
    OBVIOUS
  <2>2. IsScript(fn) /\ t = Append(cs, User) /\ z = [rn EXCEPT ![id] = y]
    BY <1>1, <1>2, <1>5, <1>8, <2>1 DEF CallScript
  <2>3. Changes(rn, z, Layout(s), id, y)
    BY <1>3, <1>4, <2>2, ExceptChanges
  <2>4. NextOf(l, fn) /\ Appended(rn[id], run, y)
    BY <1>5, <1>8, <2>1 DEF NextOf, Appended
  <2>5. PICK p : PromisesOf(s, ls, ad, z, oc, n, p, t)
    BY <1>3, <1>5, <1>6, <2>1, <2>2, <2>3, <2>4, CallKeeps
  <2> QED BY <1>1, <1>2, <1>7, <2>5, NowKept
<1>9. CASE ~(l.index < Len(l.list))
  <2>1. t = <<>> /\ z = rn
    BY <1>1, <1>2, <1>5, <1>9 DEF CallScript
  <2>2. id \notin OutcomeLists(s)
    <3>1. SUFFICES ASSUME id \in OutcomeLists(s) PROVE FALSE
      OBVIOUS
    <3>2. PICK a, r, c : a = ad[id] /\ r = rn[id] /\ c = q[id]
      OBVIOUS
    <3>3. IsFiring(id, cs) /\ ~InCall(id, cs)
      BY <1>3, <1>4, <1>6, ListOnTop DEF OnTop
    <3>4. OneKept(s, id, l, a, r, c, cs) /\ l.index >= 0
      BY <1>3, <1>5, <3>1, <3>2, <3>3, HeldFacts
    <3>5. PICK f : f = Len(First(s, id))
      OBVIOUS
    <3>6. l.index < Len(l.list)
      BY <1>6, <3>3, <3>4, <3>5, NextKept
    <3> QED BY <1>9, <3>6
  <2>3. AllClosed(s, ls)
    <3>1. Closing(s, ls, q, cs)
      BY <1>4 DEF Settled
    <3> QED BY <1>6, <2>2, <3>1, ClosedNow DEF OnTop
  <2>4. PromisesOf(s, ls, ad, z, oc, n, q, t)
    BY <1>3, <2>1, <2>3, LeaveKeeps
  <2> QED BY <1>1, <1>2, <1>7, <2>4, NowKept
<1> QED BY <1>8, <1>9

LEMMA ReturnKeeps ==
    ASSUME NEW q, HeldNow(q), Return
    PROVE  Promises(q)'
<1>1. PICK s, ls, ad, rn, oc, n, cs : /\ s = script /\ ls = lists /\ ad = added /\ rn = ran
                                      /\ oc = outcome /\ n = count /\ cs = calls
  OBVIOUS
<1>2. PICK k, t : k = lists' /\ t = calls'
  OBVIOUS
<1>3. Held(s, ls, ad, rn, oc, n, q, cs)
  BY <1>1 DEF HeldNow
<1>4. cs # <<>> /\ Last(cs) = User
  BY <1>1 DEF Return
<1>5. PICK id : id = cs[Len(cs) - 1]
  OBVIOUS
<1>6. id \in Layout(s)
  <2>1. StackSound(cs, Layout(s)) /\ User \notin Layout(s)
    <3>1. PICK o : ValuesGood(s, ls, rn, cs, o)
      BY <1>3 DEF Held
    <3> QED BY <3>1, UserIsNoList DEF ValuesGood
  <2>2. PICK f : f = Front(cs)
    OBVIOUS
  <2> QED BY <1>4, <1>5, <2>1, <2>2, ScriptOnTop
<1>7. "stopOnFalse" \notin ls[id].flags /\ Maps(ls, Layout(s))
  BY <1>3, <1>6, HeldFacts
<1>8. PICK l, m : l = ls[id] /\ m = Advance(l)
  OBVIOUS
<1>9. k = [ls EXCEPT ![id] = m] /\ t = Front(cs)
  BY <1>1, <1>2, <1>5, <1>7, <1>8 DEF Return
<1>10. Changes(ls, k, Layout(s), id, m)
  BY <1>6, <1>7, <1>9, ExceptChanges
<1>11. PromisesOf(s, k, ad, rn, oc, n, q, t)
  BY <1>3, <1>4, <1>5, <1>6, <1>8, <1>9, <1>10, BackKeeps
<1>12. script' = script /\ ad = added' /\ rn = ran' /\ oc = outcome' /\ n = count'
  BY <1>1 DEF Return
<1> QED BY <1>1, <1>2, <1>11, <1>12, NowKept

LEMMA ThrowKeeps ==
    ASSUME NEW q, HeldNow(q), Throw
    PROVE  Promises(q)'
<1>1. PICK s, ls, ad, rn, oc, n, cs : /\ s = script /\ ls = lists /\ ad = added /\ rn = ran
                                      /\ oc = outcome /\ n = count /\ cs = calls
  OBVIOUS
<1>2. PICK t : t = calls' /\ t = <<>>
  BY DEF Throw
<1>3. Held(s, ls, ad, rn, oc, n, q, cs) /\ Settled(s, ls, oc, n, q, cs)
  BY <1>1 DEF HeldNow, Held
<1>4. cs # <<>> => Last(cs) = User
  BY <1>1 DEF Throw
<1>5. AllClosed(s, ls)
  BY <1>3, <1>4, ScriptsClosed
<1>6. <<"d", "done">> \in Layout(s)
  BY <1>3 DEF Held, HasDeferreds, Layout, Deferreds, Kind
<1>7. PromisesOf(s, ls, ad, rn, oc, n, q, t)
  BY <1>2, <1>3, <1>5, <1>6, LeaveKeeps
<1>8. /\ script' = script /\ ls = lists' /\ ad = added' /\ rn = ran' /\ oc = outcome'
      /\ n = count'
  BY <1>1 DEF Throw
<1> QED BY <1>1, <1>2, <1>7, <1>8, NowKept

LEMMA EndsKept ==
    ASSUME ValuesInv, NEW q, HeldNow(q), NEW id \in DOMAIN lists, EndLoop(id)
    PROVE  Promises(q)'
<1>1. PICK s, ls, ad, rn, oc, n, cs : /\ s = script /\ ls = lists /\ ad = added /\ rn = ran
                                      /\ oc = outcome /\ n = count /\ cs = calls
  OBVIOUS
<1>2. PICK k, t : k = lists' /\ t = calls'
  OBVIOUS
<1>3. Held(s, ls, ad, rn, oc, n, q, cs) /\ id \in Layout(s)
  BY <1>1, ValuesFacts DEF HeldNow
<1>4. Maps(ls, Layout(s))
  BY <1>3, HeldFacts
<1>5. PICK l, m : l = ls[id] /\ m = EndFire(l)
  OBVIOUS
<1>6. OnTop(id, cs) /\ ~MoreToCall(l)
  BY <1>1, <1>5 DEF EndLoop, OnTop
<1>7. k = [ls EXCEPT ![id] = m] /\ (t = cs \/ t = Front(cs))
  BY <1>1, <1>2, <1>5 DEF EndLoop
<1>8. Changes(ls, k, Layout(s), id, m)
  BY <1>3, <1>4, <1>7, ExceptChanges
<1>9. PromisesOf(s, k, ad, rn, oc, n, q, t)
  BY <1>3, <1>5, <1>6, <1>7, <1>8, EndKeeps
<1>10. script' = script /\ ad = added' /\ rn = ran' /\ oc = outcome' /\ n = count'
  BY <1>1 DEF EndLoop
<1> QED BY <1>1, <1>2, <1>9, <1>10, NowKept

LEMMA PromiseStep == PromiseInv /\ [ListNext]_listVars => PromiseInv'
<1> SUFFICES ASSUME PromiseInv, [ListNext]_listVars PROVE PromiseInv'
  OBVIOUS
<1>1. ValuesInv /\ ValuesInv' /\ script' = script
  <2>1. script' = script
    BY DEF ListNext, listVars, ScriptAdds, ScriptFires, ScriptRemoves, ScriptEmpties,
           ScriptCloses, CallScript, CallInternal, EndLoop, Return, Throw
  <2> QED BY <2>1, ValuesStep DEF PromiseInv
<1>2. SUFFICES ASSUME HasDeferreds(script) PROVE \E p : Promises(p)'
  BY <1>1 DEF PromiseInv
<1>3. PICK q : Promises(q)
  BY <1>2 DEF PromiseInv
<1>4. HeldNow(q)
  BY <1>1, <1>2, <1>3, NowFacts
<1>5. CASE UNCHANGED listVars
  <2>1. Promises(q)'
    BY <1>3, <1>5 DEF Promises, listVars
  <2> QED BY <2>1
<1>6. CASE Return
  BY <1>4, <1>6, ReturnKeeps
<1>7. CASE Throw
  BY <1>4, <1>7, ThrowKeeps
<1>8. ASSUME NEW id \in DOMAIN lists,
             \/ ScriptAdds(id) \/ ScriptFires(id) \/ CallScript(id) \/ CallInternal(id)
             \/ EndLoop(id)
      PROVE  \E p : Promises(p)'
  BY <1>1, <1>4, <1>8, AddsKept, FiresKeep, CallsKeep, InternalKeeps, EndsKept, Zenon
<1>9. ASSUME NEW id \in DOMAIN lists,
             ScriptRemoves(id) \/ ScriptEmpties(id) \/ ScriptCloses(id)
      PROVE  FALSE
  BY <1>2, <1>9 DEF ScriptRemoves, ScriptEmpties, ScriptCloses, HasDeferreds
<1> QED BY <1>5, <1>6, <1>7, <1>8, <1>9, Zenon DEF ListNext

LEMMA FirstLists ==
    ASSUME NEW s, HasDeferreds(s), NEW id \in Layout(s), NEW l, l = NewDeferredList(s, id)
    PROVE  /\ l.alive /\ l.open /\ ~l.firing /\ l.memory = NoValue /\ "stopOnFalse" \notin l.flags
           /\ id[2] # "progress" => l.flags = {"once", "memory"}
           /\ id[2] = "progress" => Forwarding(l)
<1>1. id[2] \in Kind
  <2>1. Layout(s) = {"d"} \X Kind \/ Layout(s) = Deferreds \X Kind
    BY Zenon DEF Layout, HasDeferreds
  <2> QED BY <2>1
<1>2. CASE id[2] = "done"
  <2>1. PICK y : l = [NewList({"once", "memory"}) EXCEPT !.list = y]
    BY <1>2 DEF NewDeferredList
  <2> QED BY <1>2, <2>1 DEF NewList
<1>3. CASE id[2] = "fail"
  <2>1. PICK y : l = [NewList({"once", "memory"}) EXCEPT !.list = y]
    BY <1>3 DEF NewDeferredList
  <2> QED BY <1>3, <2>1 DEF NewList
<1>4. CASE id[2] = "progress"
  <2>1. PICK y : y = WhenAdds(s, id) /\ l = [NewList({"memory"}) EXCEPT !.list = y]
    BY <1>4 DEF NewDeferredList
  <2>2. y = <<>> \/ y = <<Firing(<<"w", "progress">>)>>
    BY <1>4, <2>1 DEF WhenAdds
  <2>3. l.list = y
    BY <2>1 DEF NewList
  <2>4. Forwarding(l)
    BY <2>2, <2>3 DEF Forwarding
  <2> QED BY <1>4, <2>1, <2>4 DEF NewList
<1> QED BY <1>1, <1>2, <1>3, <1>4 DEF Kind

LEMMA PromiseStart == ListInit => PromiseInv
<1> SUFFICES ASSUME ListInit, HasDeferreds(script) PROVE \E q : Promises(q)
  BY ValuesStart DEF PromiseInv
<1>1. PICK s, ls : s = script /\ ls = lists
  OBVIOUS
<1>2. /\ HasDeferreds(s) /\ ls = [id \in Layout(s) |-> NewDeferredList(s, id)]
      /\ added = [id \in Layout(s) |-> <<>>] /\ ran = [id \in Layout(s) |-> <<>>]
  BY <1>1 DEF ListInit, HasDeferreds
<1>3. PICK q : q = [id \in OutcomeLists(s) |-> 0]
  OBVIOUS
<1>4. ASSUME NEW id \in Layout(s)
      PROVE  /\ ls[id].alive /\ ls[id].open /\ ~ls[id].firing /\ ls[id].memory = NoValue
             /\ "stopOnFalse" \notin ls[id].flags
             /\ id[2] # "progress" => ls[id].flags = {"once", "memory"}
             /\ id[2] = "progress" => Forwarding(ls[id])
  BY <1>2, FirstLists
<1>5. ASSUME NEW id \in OutcomeLists(s)
      PROVE  Keeps(s, id, ls[id], added[id], ran[id], q[id], calls)
  <2>1. id \in Layout(s) /\ id[2] # "progress" /\ q[id] = 0
    BY <1>3 DEF OutcomeLists
  <2>2. added[id] = <<>> /\ ran[id] = <<>> /\ ls[id].list = First(s, id)
    BY <1>2, <2>1 DEF First
  <2>3. PICK f, w : f = First(s, id) /\ w = f \o added[id]
    OBVIOUS
  <2>4. f \in Seq(CallbacksFor(s, id)) /\ Len(f) \in {3, 4}
    BY <1>2, <2>3, FirstFacts
  <2>5. w = f /\ added[id] \in Seq({"script"} \X Nat)
    BY <2>2, <2>3, <2>4
  <2>6. Stage(ls[id], w, q[id], id, calls)
    BY <1>4, <2>1, <2>2, <2>3, <2>4, <2>5 DEF Stage, Untold
  <2>7. CalledOf(ran[id], added[id], Len(f), q[id], ls[id].args)
    BY <2>1, <2>2, <2>4 DEF CalledOf
  <2> QED BY <2>3, <2>5, <2>6, <2>7 DEF Keeps
<1>6. AllKeep(s, ls, added, ran, q, calls)
  <2>1. q \in [OutcomeLists(s) -> Nat] /\ Maps(added, Layout(s))
    BY <1>2, <1>3 DEF Maps
  <2> QED BY <1>4, <1>5, <2>1 DEF AllKeep
<1>7. ASSUME NEW id \in OutcomeLists(s)
      PROVE  ~Started(ls[id]) /\ ls[id].alive /\ q[id] = 0 /\ id[1] \in Deferreds
  <2>1. id \in Layout(s)
    BY DEF OutcomeLists
  <2> QED BY <1>2, <1>3, <1>4, <2>1, OutcomeFacts DEF Started
<1>8. outcome = [d \in Deferreds |-> "pending"] /\ count = 2
  BY DEF ListInit
<1>9. s = "when" => WhenCounts(ls, count, q)
  <2>1. SUFFICES ASSUME s = "when" PROVE WhenCounts(ls, count, q)
    OBVIOUS
  <2>2. \A d \in Deferreds : /\ <<d, "done">> \in OutcomeLists(s) /\ <<d, "fail">> \in OutcomeLists(s)
    BY <2>1, WhenLists
  <2>3. \A d \in Deferreds : q[<<d, "done">>] = 0 /\ q[<<d, "fail">>] = 0
    BY <1>7, <2>2
  <2>4. Counted(q, "d") = 0 /\ Counted(q, "e") = 0
    BY <2>3 DEF Counted, Deferreds
  <2>5. ~Started(ls[<<"w", "done">>]) /\ ~Started(ls[<<"w", "fail">>])
    BY <1>7, <2>2 DEF Deferreds
  <2>6. q[<<"d", "fail">>] = 0 /\ q[<<"e", "fail">>] = 0
    BY <2>3 DEF Deferreds
  <2> QED BY <1>8, <2>4, <2>5, <2>6 DEF WhenCounts
<1>10. Settled(s, ls, outcome, count, q, calls)
  <2>1. Closing(s, ls, q, calls) /\ ClosedByOther(s, ls)
    BY <1>7 DEF Closing, ClosedByOther
  <2>2. OutcomesAgree(s, outcome, q) /\ Maps(outcome, Deferreds)
    BY <1>7, <1>8 DEF OutcomesAgree, Maps
  <2> QED BY <1>9, <2>1, <2>2 DEF Settled
<1> QED BY <1>1, <1>6, <1>10 DEF Promises

\* When no list fires, those that have been fired are those of the outcomes, and
\* they have called all that they hold.
LEMMA Finished ==
    ASSUME NEW s, NEW ls, NEW ad, NEW rn, NEW oc, NEW n, NEW q, NEW cs,
           Held(s, ls, ad, rn, oc, n, q, cs), NEW id \in OutcomeLists(s), ~ls[id].firing
    PROVE  /\ oc[id[1]] = OutcomeOf(id) <=> Started(ls[id])
           /\ q[id] > 0 <=> Started(ls[id])
           /\ Started(ls[id]) => q[id] = Len(First(s, id)) + Len(ad[id])
<1>0. id \in Layout(s)
  BY DEF OutcomeLists
<1>1. PICK l, a, r, c : l = ls[id] /\ a = ad[id] /\ r = rn[id] /\ c = q[id]
  OBVIOUS
<1>2. /\ OneKept(s, id, l, a, r, c, cs) /\ l \in ListOf(CallbacksFor(s, id)) /\ HasDeferreds(s)
      /\ Settled(s, ls, oc, n, q, cs) /\ Sound(s, ls, q)
  <2>1. HasDeferreds(s) /\ Settled(s, ls, oc, n, q, cs) /\ Sound(s, ls, q)
    BY <1>0, HeldFacts
  <2>2. ls[id] \in ListOf(CallbacksFor(s, id))
    BY <1>0, HeldFacts
  <2>3. OneKept(s, id, ls[id], ad[id], rn[id], q[id], cs)
    BY <1>0, HeldFacts
  <2> QED BY <1>1, <2>1, <2>2, <2>3
<1>3. PICK f, w : f = First(s, id) /\ w = Whole(s, id, a)
  OBVIOUS
<1>4. /\ Staged(CallbacksFor(s, id), l, w, c, id, Layout(s), cs)
      /\ Len(f) \in {3, 4} /\ Len(w) = Len(f) + Len(a) /\ c \in Nat /\ a \in Seq({"script"} \X Nat)
  BY <1>2, <1>3, KeptFacts
<1>5. Stage(l, w, c, id, cs) /\ w \in Seq(CallbacksFor(s, id))
  BY <1>4 DEF Staged
<1>6. (c > 0 => Started(l)) /\ (Started(l) => c = Len(w))
  BY <1>1, <1>2, <1>5, StageFacts
<1>7. PICK o : o = Opposite(id)
  OBVIOUS
<1>8. /\ o \in OutcomeLists(s) /\ o[1] = id[1] /\ OutcomeOf(o) # OutcomeOf(id)
      /\ id[1] \in Deferreds /\ Opposite(o) = id
  BY <1>2, <1>7, OutcomeFacts
<1>9. OutcomesAgree(s, oc, q)
  BY <1>2 DEF Settled
<1>10. PICK h \in Nat : h = Len(a)
  BY <1>4
<1>11. Started(l) => c > 0
  <2>1. PICK e \in {3, 4} : e = Len(f)
    BY <1>4
  <2>2. Len(w) = e + h
    BY <1>4, <1>10, <2>1
  <2>3. e + h > 0
    OBVIOUS
  <2> QED BY <1>6, <2>2, <2>3
<1>12. c > 0 => oc[id[1]] = OutcomeOf(id)
  BY <1>1, <1>9 DEF OutcomesAgree
<1>13. ASSUME ~(c > 0) PROVE oc[id[1]] # OutcomeOf(id)
  <2>1. c = 0
    BY <1>4, <1>13
  <2>2. q[o] \in Nat
    <3>1. q \in [OutcomeLists(s) -> Nat]
      BY <1>2 DEF Sound
    <3> QED BY <1>8, <3>1
  <2>3. CASE q[o] > 0
    <3>1. oc[o[1]] = OutcomeOf(o)
      BY <1>8, <1>9, <2>3 DEF OutcomesAgree
    <3> QED BY <1>8, <3>1
  <2>4. CASE q[o] = 0
    <3>1. oc[id[1]] = "pending"
      BY <1>1, <1>7, <1>9, <2>1, <2>4 DEF OutcomesAgree
    <3> QED BY <3>1 DEF OutcomeOf
  <2> QED BY <2>2, <2>3, <2>4
<1> QED BY <1>1, <1>3, <1>4, <1>6, <1>11, <1>12, <1>13

\* r is what has been called of the functions a, and g the functions of it.
CalledUpTo(r, a, f, c, v, g) ==
    /\ f \in Nat /\ c \in Nat /\ c <= f + Len(a) /\ CalledOf(r, a, f, c, v)
    /\ g = [i \in DOMAIN r |-> r[i].fn]

LEMMA CalledPrefix ==
    ASSUME NEW S, NEW r \in Seq(S), NEW T, NEW a \in Seq(T), NEW f, NEW c, NEW v, NEW g,
           CalledUpTo(r, a, f, c, v, g)
    PROVE  /\ IsPrefix(g, a) /\ (g # <<>> => c > 0)
           /\ c = f + Len(a) => g = a
<1>0. /\ f \in Nat /\ c \in Nat /\ c <= f + Len(a) /\ CalledOf(r, a, f, c, v)
      /\ g = [i \in DOMAIN r |-> r[i].fn]
  BY DEF CalledUpTo
<1>1. PICK h \in Nat : h = Len(a)
  OBVIOUS
<1>2. PICK k \in Nat : k = Len(r)
  OBVIOUS
<1>3. k = (IF c <= f THEN 0 ELSE c - f) /\ \A j \in 1..k : r[j].fn = a[j]
  BY <1>0, <1>2 DEF CalledOf
<1>4. k <= h /\ (k > 0 => c > 0) /\ (c = f + h => k = h)
  BY <1>0, <1>1, <1>3
<1>5. g = [i \in 1..k |-> r[i].fn]
  BY <1>0, <1>2
<1>6. \A j \in 1..k : g[j] = a[j] /\ a[j] \in T
  <2>1. \A j \in 1..k : j \in 1..h
    BY <1>4
  <2> QED BY <1>1, <1>3, <1>5, <2>1
<1>7. g \in Seq(T) /\ Len(g) = k
  BY <1>5, <1>6
<1>8. IsPrefix(g, a)
  <2>1. PICK x, y : x = SubSeq(g, 1, k) /\ y = SubSeq(a, 1, k)
    OBVIOUS
  <2>2. /\ x \in Seq(T) /\ y \in Seq(T) /\ Len(x) = k /\ Len(y) = k
        /\ \A j \in 1..k : x[j] = g[j] /\ y[j] = a[j]
    BY <1>1, <1>4, <1>7, <2>1
  <2>3. x = y
    BY <1>6, <2>2, SeqEqual
  <2> QED BY <1>1, <1>4, <1>7, <2>1, <2>3 DEF IsPrefix
<1>9. c = f + Len(a) => g = a
  <2>1. SUFFICES ASSUME k = h PROVE g = a
    BY <1>0, <1>1, <1>4
  <2> QED BY <1>1, <1>6, <1>7, <2>1, SeqEqual
<1>10. g # <<>> => c > 0
  <2>1. k = 0 => g = <<>>
    BY <1>7
  <2> QED BY <1>4, <2>1
<1> QED BY <1>8, <1>9, <1>10

LEMMA OneCalled ==
    ASSUME NEW s, NEW ls, NEW ad, NEW rn, NEW oc, NEW n, NEW q, NEW cs,
           Held(s, ls, ad, rn, oc, n, q, cs), NEW id \in OutcomeLists(s),
           NEW g, g = [i \in DOMAIN rn[id] |-> rn[id][i].fn]
    PROVE  /\ IsPrefix(g, ad[id])
           /\ g # <<>> => oc[id[1]] = OutcomeOf(id)
           /\ \A i, j \in DOMAIN rn[id] : rn[id][i].value = rn[id][j].value
           /\ ~ls[id].firing /\ oc[id[1]] = OutcomeOf(id) => g = ad[id]
<1>0. id \in Layout(s)
  BY DEF OutcomeLists
<1>1. PICK l, a, r, c : l = ls[id] /\ a = ad[id] /\ r = rn[id] /\ c = q[id]
  OBVIOUS
<1>2. OneKept(s, id, l, a, r, c, cs) /\ Settled(s, ls, oc, n, q, cs)
  <2>1. OneKept(s, id, ls[id], ad[id], rn[id], q[id], cs)
    BY <1>0, HeldFacts
  <2> QED BY <1>1, <2>1 DEF Held
<1>3. PICK f, w, v : f = First(s, id) /\ w = Whole(s, id, a) /\ v = l.args
  OBVIOUS
<1>4. /\ a \in Seq({"script"} \X Nat) /\ f \in Seq(CallbacksFor(s, id))
      /\ CalledOf(r, a, Len(f), c, l.args) /\ c \in Nat /\ c <= Len(f) + Len(a)
  BY <1>2, <1>3, KeptFacts
<1>5. PICK S : S = [fn : CallbacksFor(s, id), value : Int] /\ r \in Seq(S)
  BY <1>2 DEF OneKept
<1>6. PICK e \in Nat : e = Len(f)
  BY <1>4
<1>7. CalledOf(r, a, e, c, v) /\ CalledUpTo(r, a, e, c, v, g)
  BY <1>1, <1>3, <1>4, <1>6 DEF CalledUpTo
<1>8. /\ IsPrefix(g, a) /\ (g # <<>> => c > 0)
      /\ c = e + Len(a) => g = a
  <2>1. PICK T : a \in Seq(T)
    BY <1>4
  <2>2. r \in Seq(S)
    BY <1>5
  <2> QED BY <1>7, <2>1, <2>2, CalledPrefix
<1>9. c > 0 => oc[id[1]] = OutcomeOf(id)
  BY <1>1, <1>2 DEF Settled, OutcomesAgree
<1>10. \A i, j \in DOMAIN r : r[i].value = r[j].value
  <2>1. DOMAIN r = 1..Len(r)
    BY <1>5
  <2> QED BY <1>7, <2>1 DEF CalledOf
<1>11. ~l.firing /\ oc[id[1]] = OutcomeOf(id) => c = e + Len(a)
  <2>1. SUFFICES ASSUME ~ls[id].firing, oc[id[1]] = OutcomeOf(id)
                 PROVE  q[id] = Len(First(s, id)) + Len(ad[id])
    BY <1>1, <1>3, <1>6
  <2> QED BY <2>1, Finished
<1> QED BY <1>1, <1>8, <1>9, <1>10, <1>11

LEMMA AllAgree ==
    ASSUME NEW ls, NEW ad, NEW rn, NEW oc, NEW n, NEW q, NEW cs,
           Held("when", ls, ad, rn, oc, n, q, cs), \A id \in OutcomeLists("when") : ~ls[id].firing
    PROVE  /\ oc["w"] = "resolved" <=> \A d \in {"d", "e"} : oc[d] = "resolved"
           /\ oc["w"] = "rejected" <=> \E d \in {"d", "e"} : oc[d] = "rejected"
<1>1. ASSUME NEW d \in Deferreds, NEW kind \in {"done", "fail"}, NEW id, id = <<d, kind>>
      PROVE  /\ id \in OutcomeLists("when")
             /\ oc[d] = (IF kind = "done" THEN "resolved" ELSE "rejected") <=> Started(ls[id])
             /\ d # "w" => (q[id] > 3 <=> Started(ls[id]))
  <2>1. id \in OutcomeLists("when") /\ id \in Layout("when") /\ HasDeferreds("when")
    BY <1>1, WhenLists DEF OutcomeLists
  <2>2. /\ oc[id[1]] = OutcomeOf(id) <=> Started(ls[id])
        /\ q[id] > 0 <=> Started(ls[id])
        /\ Started(ls[id]) => q[id] = Len(First("when", id)) + Len(ad[id])
    BY <2>1, Finished
  <2>3. OutcomeOf(id) = (IF kind = "done" THEN "resolved" ELSE "rejected") /\ id[1] = d
    BY <1>1 DEF OutcomeOf
  <2>4. ASSUME d # "w" PROVE q[id] > 3 <=> Started(ls[id])
    <3>1. PICK f : f = First("when", id)
      OBVIOUS
    <3>2. Len(f) = 4
      BY <2>1, <2>3, <2>4, <3>1, FirstFacts
    <3>3. PICK h \in Nat : h = Len(ad[id])
      <4>1. OneKept("when", id, ls[id], ad[id], rn[id], q[id], cs)
        BY <2>1, HeldFacts
      <4>2. ad[id] \in Seq({"script"} \X Nat)
        BY <4>1 DEF OneKept, Keeps
      <4> QED BY <4>2
    <3>4. Started(ls[id]) => q[id] = 4 + h
      BY <2>2, <3>1, <3>2, <3>3
    <3>5. q[id] \in Nat
      <4>1. q \in [OutcomeLists("when") -> Nat]
        BY <2>1, HeldFacts
      <4> QED BY <2>1, <4>1
    <3> QED BY <2>2, <3>4, <3>5
  <2> QED BY <2>1, <2>2, <2>3, <2>4
<1>2. WhenCounts(ls, n, q)
  BY DEF Held, Settled
<1>3. ASSUME NEW d \in Deferreds
      PROVE  /\ oc[d] = "resolved" <=> Started(ls[<<d, "done">>])
             /\ oc[d] = "rejected" <=> Started(ls[<<d, "fail">>])
             /\ d # "w" => /\ q[<<d, "done">>] > 3 <=> Started(ls[<<d, "done">>])
                           /\ q[<<d, "fail">>] > 3 <=> Started(ls[<<d, "fail">>])
  BY <1>1
<1>4. Deferreds = {"d", "e", "w"}
  BY DEF Deferreds
<1>5. oc["w"] = "resolved" <=> n = 0
  BY <1>2, <1>3, <1>4 DEF WhenCounts
<1>6. n = 0 <=> q[<<"d", "done">>] > 3 /\ q[<<"e", "done">>] > 3
  <2>1. n = 2 - Counted(q, "d") - Counted(q, "e")
    BY <1>2 DEF WhenCounts
  <2> QED BY <2>1 DEF Counted
<1>7. oc["w"] = "rejected" <=> q[<<"d", "fail">>] > 3 \/ q[<<"e", "fail">>] > 3
  BY <1>2, <1>3, <1>4 DEF WhenCounts
<1>8. /\ oc["d"] = "resolved" <=> q[<<"d", "done">>] > 3
      /\ oc["e"] = "resolved" <=> q[<<"e", "done">>] > 3
      /\ oc["d"] = "rejected" <=> q[<<"d", "fail">>] > 3
      /\ oc["e"] = "rejected" <=> q[<<"e", "fail">>] > 3
  BY <1>3, <1>4
<1> QED BY <1>5, <1>6, <1>7, <1>8

LEMMA PromiseImply == PromiseInv /\ CallbacksInv => PromiseIsKept
<1> SUFFICES ASSUME PromiseInv, CallbacksInv PROVE PromiseIsKept
  OBVIOUS
<1>1. ValuesInv /\ Maps(lists, Layout(script))
  BY DEF PromiseInv, ValuesInv, ValuesGood
<1>2. ASSUME HasDeferreds(script) PROVE \E q : HeldNow(q)
  BY <1>1, <1>2, NowFacts DEF PromiseInv
<1>3. ASSUME calls = <<>>, ~broken, NEW id \in Layout(script) PROVE ~lists[id].firing
  <2>1. GoodLists(script, lists, due, calls)
    BY <1>3 DEF CallbacksInv
  <2>2. lists[id].firing <=> IsFiring(id, calls)
    BY <2>1 DEF GoodLists, ListGood
  <2>3. ~IsFiring(id, calls)
    BY <1>3 DEF IsFiring
  <2> QED BY <2>2, <2>3
<1>4. CalledAsSettled
  <2>1. SUFFICES ASSUME NEW id \in DOMAIN lists, id[2] \in {"done", "fail"}
                 PROVE  LET called == [i \in DOMAIN ran[id] |-> ran[id][i].fn]
                            settled == \/ id[2] = "done" /\ outcome[id[1]] = "resolved"
                                       \/ id[2] = "fail" /\ outcome[id[1]] = "rejected"
                        IN  /\ IsPrefix(called, added[id])
                            /\ called # <<>> => settled
                            /\ \A i, j \in DOMAIN ran[id] : ran[id][i].value = ran[id][j].value
                            /\ calls = <<>> /\ ~broken /\ settled => called = added[id]
    BY Zenon DEF CalledAsSettled
  <2> DEFINE g == [i \in DOMAIN ran[id] |-> ran[id][i].fn]
             settled == \/ id[2] = "done" /\ outcome[id[1]] = "resolved"
                        \/ id[2] = "fail" /\ outcome[id[1]] = "rejected"
  <2>2. id \in Layout(script)
    BY <1>1 DEF Maps
  <2>3. HasDeferreds(script)
    <3>1. SUFFICES ASSUME ~HasDeferreds(script) PROVE FALSE
      OBVIOUS
    <3>2. Layout(script) = {<<"list", "fire">>}
      BY <3>1, Zenon DEF Layout, HasDeferreds
    <3>3. id[2] = "fire"
      BY <2>2, <3>2
    <3> QED BY <2>1, <3>3
  <2>4. id \in OutcomeLists(script)
    BY <2>1, <2>2 DEF OutcomeLists
  <2>5. PICK q : Held(script, lists, added, ran, outcome, count, q, calls)
    BY <1>2, <2>3 DEF HeldNow
  <2>6. /\ IsPrefix(g, added[id])
        /\ g # <<>> => outcome[id[1]] = OutcomeOf(id)
        /\ \A i, j \in DOMAIN ran[id] : ran[id][i].value = ran[id][j].value
        /\ ~lists[id].firing /\ outcome[id[1]] = OutcomeOf(id) => g = added[id]
    BY <2>1, <2>4, <2>5, OneCalled
  <2>7. settled <=> outcome[id[1]] = OutcomeOf(id)
    BY <2>1 DEF OutcomeOf
  <2>8. calls = <<>> /\ ~broken => ~lists[id].firing
    BY <1>3, <2>2
  <2> HIDE DEF g, settled
  <2>9. /\ IsPrefix(g, added[id])
        /\ g # <<>> => settled
        /\ \A i, j \in DOMAIN ran[id] : ran[id][i].value = ran[id][j].value
        /\ calls = <<>> /\ ~broken /\ settled => g = added[id]
    BY <2>6, <2>7, <2>8
  <2> QED BY <2>9 DEF g, settled
<1>5. WhenAgrees
  <2>1. SUFFICES ASSUME script = "when", calls = <<>>, ~broken
                 PROVE  /\ outcome["w"] = "resolved" <=> \A d \in {"d", "e"} : outcome[d] = "resolved"
                        /\ outcome["w"] = "rejected" <=> \E d \in {"d", "e"} : outcome[d] = "rejected"
    BY DEF WhenAgrees
  <2>2. PICK q : Held("when", lists, added, ran, outcome, count, q, calls)
    BY <1>2, <2>1 DEF HeldNow, HasDeferreds
  <2>3. \A id \in OutcomeLists("when") : ~lists[id].firing
    BY <1>3, <2>1 DEF OutcomeLists
  <2> QED BY <2>2, <2>3, AllAgree
<1> QED BY <1>4, <1>5 DEF PromiseIsKept

\* Nobody who waits for a Deferred is told twice, told of both outcomes or
\* forgotten: whatever callbacks add, fire or throw, each list calls what was
\* added to it in that order, for the one outcome and with the one value, all of
\* it unless a callback threw, and when() ends as its arguments do.
THEOREM PromiseKept == ListSpec => []PromiseIsKept
<1>1. ListSpec => []PromiseInv
  BY PromiseStart, PromiseStep, PTL DEF ListSpec
<1>2. ListSpec => []CallbacksInv
  BY CallbacksStart, CallbacksStep, PTL DEF ListSpec
<1> QED BY <1>1, <1>2, PromiseImply, PTL
=============================================================================
