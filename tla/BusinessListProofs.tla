------------------------- MODULE BusinessListProofs -------------------------
(***************************************************************************)
(* checkBusinessList compares neighbours of the sorted list only; here it  *)
(* is proved for lists of every length over ports of every size that this  *)
(* is enough.                                                              *)
(***************************************************************************)
EXTENDS BusinessList, TLAPS

\* The answers of checkBusinessList so far are right.  The first conjunct says
\* of "started" what RefusedIsIllegal says of the two refusals.
IInv ==
    /\ TypeOK
    /\ UniqueNames /\ verdict = "started" => Legal
    /\ RefusedIsIllegal

\* Facts about numbers, for the first and last ports of ranges.
LEMMA LessThrough ==
    ASSUME NEW a \in Int, NEW b \in Int, NEW c \in Int, a < b, b <= c
    PROVE  a < c
OBVIOUS

LEMMA NotReached ==
    ASSUME NEW a \in Int, NEW b \in Int, ~(a >= b)
    PROVE  a < b
OBVIOUS

LEMMA Apart ==
    ASSUME NEW a \in Int, NEW b \in Int, NEW c \in Int, NEW d \in Int,
           b < c \/ d < a
    PROVE  (a..b) \cap (c..d) = {}
OBVIOUS

\* The shape of a list: the indices are 1..n and every entry has two numbers.
LEMMA ListShape ==
    ASSUME businesses \in BusinessLists
    PROVE  \E n \in 0..MaxBusinesses :
                /\ DOMAIN businesses = 1..n
                /\ \A i \in 1..n : /\ businesses[i].begin \in Int
                                   /\ businesses[i].end \in Int
                                   /\ businesses[i].end <= MaxPort
<1>1. PICK n \in 0..MaxBusinesses : businesses \in [1..n -> Entry]
  BY DEF BusinessLists
<1>2. DOMAIN businesses = 1..n
  BY <1>1
<1>3. \A i \in 1..n : businesses[i] \in Entry
  BY <1>1
<1> QED
  BY <1>2, <1>3, BusinessListAssumption DEF Entry

\* sorted is the list of businesses in the order of the permutation p of 1..n.
Orders(p, n, sorted) ==
    /\ Len(sorted) = n
    /\ \A i \in 1..n : sorted[i] = businesses[p[i]]
    /\ \A i, j \in 1..n : p[i] = p[j] => i = j
    /\ \A k \in 1..n : \E i \in 1..n : p[i] = k
    /\ \A i, j \in 1..n :
            i < j => businesses[p[i]].begin <= businesses[p[j]].begin

LEMMA SortedShape ==
    ASSUME NEW n \in Nat, DOMAIN businesses = 1..n,
           NEW sorted \in Sorted(businesses)
    PROVE  \E p \in [1..n -> 1..n] : Orders(p, n, sorted)
<1>1. PICK p \in Bijection(1..n, 1..n) :
            /\ \A i, j \in 1..n :
                    i < j => businesses[p[i]].begin <= businesses[p[j]].begin
            /\ sorted = [i \in 1..n |-> businesses[p[i]]]
  BY DEF Sorted
<1>2. p \in [1..n -> 1..n]
  BY DEF Bijection, Injection
<1>3. \A i, j \in 1..n : p[i] = p[j] => i = j
  BY <1>2 DEF Bijection, Injection, IsInjective
<1>4. \A k \in 1..n : \E i \in 1..n : p[i] = k
  BY DEF Bijection, Surjection
<1>5. DOMAIN sorted = 1..n /\ \A i \in 1..n : sorted[i] = businesses[p[i]]
  BY <1>1
<1>6. Len(sorted) = n
  <2>1. sorted \in Seq({businesses[p[i]] : i \in 1..n})
    BY <1>1
  <2> QED
    BY <1>5, <2>1
<1> QED
  BY <1>1, <1>2, <1>3, <1>4, <1>5, <1>6 DEF Orders

\* A range that is refused is illegal, whatever the names.
LEMMA BadRangeIsIllegal ==
    ASSUME businesses \in BusinessLists, BadRange(businesses)
    PROVE  ~Legal
<1>1. PICK n \in 0..MaxBusinesses :
            /\ DOMAIN businesses = 1..n
            /\ \A i \in 1..n : /\ businesses[i].begin \in Int
                               /\ businesses[i].end \in Int
                               /\ businesses[i].end <= MaxPort
  BY ListShape
<1>2. PICK i \in 1..n : Illegal(businesses[i])
  BY <1>1 DEF BadRange
<1> QED
  BY <1>1, <1>2, BusinessListAssumption DEF Illegal, Legal

\* Two neighbours that overlap in a sorted list share the first port of the
\* second, if the ranges are in order at all.
LEMMA OverlapIsIllegal ==
    ASSUME businesses \in BusinessLists,
           NEW sorted \in Sorted(businesses), Overlap(sorted)
    PROVE  ~Legal
<1>1. PICK n \in 0..MaxBusinesses :
            /\ DOMAIN businesses = 1..n
            /\ \A i \in 1..n : /\ businesses[i].begin \in Int
                               /\ businesses[i].end \in Int
                               /\ businesses[i].end <= MaxPort
  BY ListShape
<1>2. n \in Nat
  BY BusinessListAssumption
<1>3. PICK p \in [1..n -> 1..n] : Orders(p, n, sorted)
  BY <1>1, <1>2, SortedShape
<1> USE DEF Orders
<1>4. PICK i \in 1..(n - 1) : sorted[i].end >= sorted[i + 1].begin
  BY <1>3 DEF Overlap
<1>5. i \in 1..n /\ i + 1 \in 1..n /\ i < i + 1
  BY <1>2
<1> DEFINE a == p[i]
           b == p[i + 1]
<1>6. a \in 1..n /\ b \in 1..n /\ a # b
  BY <1>3, <1>5
<1>7. /\ businesses[a].begin <= businesses[b].begin
      /\ businesses[b].begin <= businesses[a].end
  <2>1. businesses[a].begin <= businesses[b].begin
    BY <1>3, <1>5
  <2>2. sorted[i].end = businesses[a].end /\ sorted[i + 1].begin = businesses[b].begin
    BY <1>3, <1>5
  <2>3. businesses[a].end \in Int /\ businesses[b].begin \in Int
    BY <1>1, <1>6
  <2> QED
    BY <1>4, <2>1, <2>2, <2>3
<1> HIDE DEF a, b
<1>8. SUFFICES ASSUME Legal PROVE FALSE
  OBVIOUS
<1>9. businesses[b].begin <= businesses[b].end
  BY <1>1, <1>6, <1>8 DEF Legal
<1>10. /\ businesses[b].begin \in businesses[a].begin..businesses[a].end
       /\ businesses[b].begin \in businesses[b].begin..businesses[b].end
  BY <1>1, <1>6, <1>7, <1>9
<1> QED
  BY <1>1, <1>6, <1>8, <1>10 DEF Legal

\* Without a bad range and without neighbours that overlap, a list of distinct
\* names is legal: between two entries of the sorted list the first ports only
\* grow, so the first of them ends before its neighbour, and so before the other.
LEMMA NeighboursSuffice ==
    ASSUME businesses \in BusinessLists, UniqueNames, ~BadRange(businesses),
           NEW sorted \in Sorted(businesses), ~Overlap(sorted)
    PROVE  Legal
<1>1. PICK n \in 0..MaxBusinesses :
            /\ DOMAIN businesses = 1..n
            /\ \A i \in 1..n : /\ businesses[i].begin \in Int
                               /\ businesses[i].end \in Int
                               /\ businesses[i].end <= MaxPort
  BY ListShape
<1>2. n \in Nat
  BY BusinessListAssumption
<1>3. PICK p \in [1..n -> 1..n] : Orders(p, n, sorted)
  BY <1>1, <1>2, SortedShape
<1> USE DEF Orders
<1>4. \A i \in 1..n : ~Illegal(businesses[i])
  <2>1. SUFFICES ASSUME NEW i \in 1..n PROVE ~Illegal(businesses[i])
    OBVIOUS
  <2>2. \A j \in 1..n : businesses[j].name = businesses[i].name => j <= i
    <3>1. SUFFICES ASSUME NEW j \in 1..n, businesses[j].name = businesses[i].name
                   PROVE  j <= i
      OBVIOUS
    <3>2. j = i
      BY <1>1, <3>1 DEF UniqueNames
    <3> QED
      BY <1>2, <3>2
  <2> QED
    BY <1>1, <2>2 DEF BadRange
<1>5. \A i \in 1..n : /\ MinPort <= businesses[i].begin
                      /\ businesses[i].begin <= businesses[i].end
                      /\ businesses[i].end <= MaxPort
  BY <1>1, <1>4, BusinessListAssumption DEF Illegal
<1>6. \A i \in 1..(n - 1) : businesses[p[i]].end < businesses[p[i + 1]].begin
  <2>1. SUFFICES ASSUME NEW i \in 1..(n - 1)
                 PROVE  businesses[p[i]].end < businesses[p[i + 1]].begin
    OBVIOUS
  <2>2. i \in 1..n /\ i + 1 \in 1..n
    BY <1>2
  <2>3. ~(sorted[i].end >= sorted[i + 1].begin)
    BY <1>3 DEF Overlap
  <2>4. p[i] \in 1..n /\ p[i + 1] \in 1..n
    BY <2>2
  <2>5. businesses[p[i]].end \in Int /\ businesses[p[i + 1]].begin \in Int
    BY <1>1, <2>4
  <2> QED
    <3>1. sorted[i] = businesses[p[i]] /\ sorted[i + 1] = businesses[p[i + 1]]
      BY <1>3, <2>2
    <3>2. ~(businesses[p[i]].end >= businesses[p[i + 1]].begin)
      BY <2>3, <3>1
    <3> QED
      BY <2>5, <3>2, NotReached
<1>7. ASSUME NEW i \in 1..n, NEW j \in 1..n, i < j
      PROVE  businesses[p[i]].end < businesses[p[j]].begin
  <2>1. i \in 1..(n - 1) /\ i + 1 \in 1..n
    BY <1>2, <1>7
  <2>2. p[i] \in 1..n /\ p[i + 1] \in 1..n /\ p[j] \in 1..n
    BY <2>1
  <2>3. /\ businesses[p[i]].end \in Int
        /\ businesses[p[i + 1]].begin \in Int
        /\ businesses[p[j]].begin \in Int
    BY <1>1, <2>2
  <2>4. businesses[p[i]].end < businesses[p[i + 1]].begin
    BY <1>6, <2>1
  <2>5. businesses[p[i + 1]].begin <= businesses[p[j]].begin
    <3>1. CASE j = i + 1
      BY <2>3, <3>1
    <3>2. CASE j # i + 1
      <4>1. i + 1 < j
        BY <1>2, <1>7, <3>2
      <4> QED
        BY <1>3, <2>1, <4>1
    <3> QED
      BY <3>1, <3>2
  <2> QED
    BY <2>3, <2>4, <2>5, LessThrough
<1>8. ASSUME NEW a \in 1..n, NEW b \in 1..n, a # b
      PROVE  (businesses[a].begin..businesses[a].end)
                \cap (businesses[b].begin..businesses[b].end) = {}
  <2>a. PICK i \in 1..n : p[i] = a
    BY <1>3
  <2>b. PICK j \in 1..n : p[j] = b
    BY <1>3
  <2>2. i < j \/ j < i
    BY <1>2, <1>8, <2>a, <2>b
  <2>3. businesses[a].end < businesses[b].begin \/ businesses[b].end < businesses[a].begin
    BY <1>7, <2>a, <2>b, <2>2
  <2>4. /\ businesses[a].begin \in Int /\ businesses[a].end \in Int
        /\ businesses[b].begin \in Int /\ businesses[b].end \in Int
    BY <1>1
  <2> QED
    BY <2>3, <2>4, Apart
<1> QED
  BY <1>1, <1>5, <1>8 DEF Legal

\* IInv is an invariant: the answer is given once, about a list that stays.
LEMMA Invariance == Spec => []IInv
<1>1. Init => IInv
  BY DEF Init, IInv, TypeOK, RefusedIsIllegal
<1>2. IInv /\ [Next]_vars => IInv'
  <2>1. SUFFICES ASSUME IInv, [Next]_vars PROVE IInv'
    OBVIOUS
  <2>2. businesses \in BusinessLists
    BY <2>1 DEF IInv, TypeOK
  <2>3. businesses' = businesses => (UniqueNames' <=> UniqueNames) /\ (Legal' <=> Legal)
    BY DEF UniqueNames, Legal
  <2>4. CASE CheckRanges
    BY <2>2, <2>3, <2>4, BadRangeIsIllegal
    DEF CheckRanges, IInv, TypeOK, RefusedIsIllegal
  <2>5. CASE CheckOverlap
    <3>1. PICK sorted \in Sorted(businesses) :
                verdict' = IF Overlap(sorted) THEN "overlap" ELSE "started"
      BY <2>5 DEF CheckOverlap
    <3>2. CASE Overlap(sorted)
      BY <2>2, <2>3, <2>5, <3>1, <3>2, OverlapIsIllegal
      DEF CheckOverlap, IInv, TypeOK, RefusedIsIllegal
    <3>3. CASE ~Overlap(sorted)
      BY <2>2, <2>3, <2>5, <3>1, <3>3, NeighboursSuffice
      DEF CheckOverlap, IInv, TypeOK, RefusedIsIllegal
    <3> QED
      BY <3>2, <3>3
  <2>6. CASE UNCHANGED vars
    BY <2>1, <2>3, <2>6 DEF vars, IInv, TypeOK, RefusedIsIllegal
  <2> QED
    BY <2>1, <2>4, <2>5, <2>6 DEF Next
<1> QED
  BY <1>1, <1>2, PTL DEF Spec

\* The check is exact on lists of distinct names, however long and over however
\* many ports.
THEOREM CheckIsExact == Spec => []StartsIffLegal
<1>1. IInv => StartsIffLegal
  BY DEF IInv, TypeOK, StartsIffLegal, RefusedIsIllegal
<1> QED
  BY <1>1, Invariance, PTL

\* No legal list is refused, with or without distinct names.
THEOREM LegalIsNotRefused == Spec => []RefusedIsIllegal
<1>1. IInv => RefusedIsIllegal
  BY DEF IInv
<1> QED
  BY <1>1, Invariance, PTL
=============================================================================
