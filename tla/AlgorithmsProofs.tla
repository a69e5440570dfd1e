-------------------------- MODULE AlgorithmsProofs --------------------------
(***************************************************************************)
(* What the functions of Algorithms return, for every argument: what is    *)
(* encoded, packed or written as an integer is read as it was, and what    *)
(* was cut off is noticed; integers sort by their bytes; alignment never   *)
(* leaves the overlap of the fingerprints, finds excerpts and tells where  *)
(* the two agree; queries are full; the results of the index that are kept *)
(* are the best.                                                           *)
(***************************************************************************)
EXTENDS Algorithms, FiniteSetTheorems, SequenceTheorems, NaturalsInduction,
        WellFoundedInduction, FunctionTheorems, TLAPS

-----------------------------------------------------------------------------
(* The least and the greatest of numbers                                    *)

\* A set of natural numbers has a least.
LEMMA Least ==
    ASSUME NEW S \in SUBSET Nat, S # {}
    PROVE  \E x \in S : \A y \in S : x <= y
<1> DEFINE R == {ss \in Nat \X Nat : ss[1] < ss[2]}
<1>1. IsWellFoundedOn(R, Nat)
  BY NatLessThanWellFounded, Zenon DEF OpToRel
<1>2. \A x, y \in Nat : <<y, x>> \in R <=> y < x
  OBVIOUS
<1> HIDE DEF R
<1>3. PICK x \in S : \A y \in S : ~(<<y, x>> \in R)
  BY <1>1, WFMin
<1>4. \A y \in S : ~(y < x)
  BY <1>2, <1>3
<1> QED
  BY <1>4

\* The least of some natural numbers.
LEMMA MinIsLeast ==
    ASSUME NEW S \in SUBSET Nat, S # {}
    PROVE  Min(S) \in S /\ \A y \in S : Min(S) <= y
BY Least DEF Min

\* The greatest of finitely many natural numbers.
LEMMA MaxIsGreatest ==
    ASSUME NEW m \in Nat, NEW S \in SUBSET (0..m), S # {}
    PROVE  Max(S) \in S /\ \A y \in S : Max(S) >= y
<1> DEFINE T == {m - x : x \in S}
<1>0. \A x \in S : x \in Nat /\ x <= m
  OBVIOUS
<1>1. T \in SUBSET Nat /\ T # {}
  <2>1. \A x \in S : m - x \in Nat
    BY <1>0
  <2> QED
    BY <2>1, Zenon
<1>2. PICK t \in T : \A y \in T : t <= y
  BY <1>1, Least
<1>3. PICK x \in S : t = m - x
  OBVIOUS
<1>4. \A y \in S : m - y \in T
  OBVIOUS
<1>5. \A y \in S : x >= y
  <2> SUFFICES ASSUME NEW y \in S PROVE x >= y
    OBVIOUS
  <2>1. m - x <= m - y
    BY <1>2, <1>3, <1>4
  <2> QED
    BY <1>0, <2>1
<1> QED
  BY <1>5 DEF Max

-----------------------------------------------------------------------------
(* Alignment                                                               *)

\* A pair is two hashes of which each is there: no more than the overlap has.
LEMMA PairsAreCounted ==
    ASSUME NEW S, NEW master \in Seq(S), NEW query \in Seq(S), NEW offset \in Int
    PROVE  /\ PairsAt(master, query, offset) \in Nat
           /\ offset \notin (1 - Len(query))..(Len(master) - 1) => PairsAt(master, query, offset) = 0
           /\ MaxOffset # 0 /\ offset \notin -MaxOffset..MaxOffset
              => PairsAt(master, query, offset) = 0
<1> DEFINE P == {i \in 1..Len(query) :
                    /\ i + offset \in 1..Len(master)
                    /\ Aligned(master[i + offset]) = Aligned(query[i])}
<1>1. Len(query) \in Nat /\ Len(master) \in Nat
  OBVIOUS
<1>2. Cardinality(P) \in Nat
  <2>1. IsFiniteSet(1..Len(query)) /\ P \subseteq 1..Len(query)
    BY <1>1, FS_Interval
  <2> HIDE DEF P
  <2>2. IsFiniteSet(P)
    BY <2>1, FS_Subset
  <2> QED
    BY <2>2, FS_CardinalityType
<1>3. ASSUME offset \notin (1 - Len(query))..(Len(master) - 1) PROVE Cardinality(P) = 0
  <2>1. P = {}
    BY <1>1, <1>3
  <2> QED
    BY <2>1, FS_EmptySet
<1>4. PairsAt(master, query, offset) =
        IF MaxOffset = 0 \/ offset \in -MaxOffset..MaxOffset THEN Cardinality(P) ELSE 0
  BY DEF PairsAt
<1> HIDE DEF P
<1> QED
  BY <1>2, <1>3, <1>4

\* The counts next to a peak that comes of smoothing are too high for it: where
\* there are no pairs and none on one side of it, there is no peak.
LEMMA PeaksHavePairs ==
    ASSUME NEW n \in Nat, NEW c \in [0..(n - 1) -> Nat], NEW i \in 0..(n - 1),
           c[i] = 0,
           \/ i = 0 \/ i = n - 1 \/ c[i - 1] = 0 \/ c[i + 1] = 0,
           GaussianFilter(c, n)[i] >= 20,
           i > 0 => GaussianFilter(c, n)[i - 1] <= GaussianFilter(c, n)[i],
           i < n - 1 => GaussianFilter(c, n)[i + 1] < GaussianFilter(c, n)[i]
    PROVE  FALSE
<1> DEFINE s == GaussianFilter(c, n)
<1>1. \A j \in 0..(n - 1) : s[j] = 3 * c[Reflect(j - 1, n)] + 4 * c[j] + 3 * c[Reflect(j + 1, n)]
  BY DEF GaussianFilter
<1>4. s[i] >= 20 /\ (i > 0 => s[i - 1] <= s[i]) /\ (i < n - 1 => s[i + 1] < s[i])
  OBVIOUS
<1> HIDE DEF s
<1>2. ASSUME NEW j \in 0..(n - 1)
      PROVE  Reflect(j - 1, n) \in 0..(n - 1) /\ Reflect(j + 1, n) \in 0..(n - 1)
  BY DEF Reflect
<1>3. ASSUME NEW j \in 0..(n - 1), NEW d \in Nat, d = c[j] PROVE s[j] \in Nat /\ s[j] >= 4 * d
  <2>1. PICK l \in 0..(n - 1), r \in 0..(n - 1) : l = Reflect(j - 1, n) /\ r = Reflect(j + 1, n)
    BY <1>2
  <2>2. PICK a \in Nat, b \in Nat : a = c[l] /\ b = c[r]
    OBVIOUS
  <2>3. s[j] = 3 * a + 4 * d + 3 * b
    BY <1>1, <1>3, <2>1, <2>2
  <2> QED
    BY <2>3
<1>5. CASE i = 0
  <2>1. Reflect(i - 1, n) = 0
    BY <1>5 DEF Reflect
  <2>2. CASE n = 1
    <3>1. Reflect(i + 1, n) = 0
      BY <1>5, <2>2 DEF Reflect
    <3>2. s[i] = 3 * 0 + 4 * 0 + 3 * 0
      BY <1>1, <1>5, <2>1, <3>1
    <3> QED
      BY <1>4, <3>2
  <2>3. CASE n # 1
    <3>1. Reflect(i + 1, n) = 1 /\ 1 \in 0..(n - 1) /\ i < n - 1
      BY <1>5, <2>3 DEF Reflect
    <3>2. PICK b \in Nat : b = c[1]
      BY <3>1
    <3>3. s[i] = 3 * 0 + 4 * 0 + 3 * b
      BY <1>1, <1>5, <2>1, <3>1, <3>2
    <3>4. s[1] >= 4 * b /\ s[1] \in Nat
      BY <1>3, <3>1, <3>2
    <3>5. s[1] < s[i]
      BY <1>4, <1>5, <3>1
    <3> QED
      BY <3>3, <3>4, <3>5
  <2> QED
    BY <2>2, <2>3
<1>6. CASE i # 0 /\ i = n - 1
  <2>1. Reflect(i + 1, n) = i /\ Reflect(i - 1, n) = i - 1 /\ i - 1 \in 0..(n - 1) /\ i > 0
    BY <1>6 DEF Reflect
  <2>2. PICK a \in Nat : a = c[i - 1]
    BY <2>1
  <2>3. s[i] = 3 * a + 4 * 0 + 3 * 0
    BY <1>1, <2>1, <2>2
  <2>4. s[i - 1] >= 4 * a /\ s[i - 1] \in Nat
    BY <1>3, <2>1, <2>2
  <2> QED
    BY <1>4, <2>1, <2>3, <2>4
<1>7. CASE i # 0 /\ i # n - 1
  <2>1. /\ Reflect(i + 1, n) = i + 1 /\ Reflect(i - 1, n) = i - 1
        /\ i - 1 \in 0..(n - 1) /\ i + 1 \in 0..(n - 1) /\ i > 0 /\ i < n - 1
    BY <1>7 DEF Reflect
  <2>2. PICK a \in Nat, b \in Nat : a = c[i - 1] /\ b = c[i + 1]
    BY <2>1
  <2>3. s[i] = 3 * a + 4 * 0 + 3 * b
    BY <1>1, <2>1, <2>2
  <2>4. /\ s[i - 1] >= 4 * a /\ s[i - 1] \in Nat
        /\ s[i + 1] >= 4 * b /\ s[i + 1] \in Nat
    BY <1>3, <2>1, <2>2
  <2>5. a = 0 \/ b = 0
    BY <1>7, <2>2
  <2> QED
    BY <1>4, <2>1, <2>3, <2>4, <2>5
<1> QED
  BY <1>5, <1>6, <1>7

\* A hit is a distance at which the fingerprints overlap, within the limit.
LEMMA HitsAreInRange ==
    ASSUME NEW S, NEW master \in Seq(S), NEW query \in Seq(S),
           NEW hit \in AlignFingerprints(master, query)
    PROVE  /\ hit.offset \in (1 - Len(query))..(Len(master) - 1)
           /\ MaxOffset # 0 => hit.offset \in -MaxOffset..MaxOffset
<1>1. PICK lm \in Nat, lq \in Nat : lm = Len(master) /\ lq = Len(query)
  OBVIOUS
<1> DEFINE n == lm + lq + 1
           c == [i \in 0..(n - 1) |-> PairsAt(master, query, i - lq)]
<1>2. PICK i \in 0..(n - 1) :
        /\ hit.offset = i - lq
        /\ GaussianFilter(c, n)[i] >= 20
        /\ i > 0 => GaussianFilter(c, n)[i - 1] <= GaussianFilter(c, n)[i]
        /\ i < n - 1 => GaussianFilter(c, n)[i + 1] < GaussianFilter(c, n)[i]
  <2> DEFINE s == GaussianFilter(c, n)
             at(i) == IF i \in 0..(n - 1) THEN s[i] ELSE 0
             peaks == {i \in 0..(n - 1) :
                          /\ s[i] >= 20
                          /\ \A j \in 0..(n - 1) : 10 * s[i] >= s[j]
                          /\ at(i - 1) <= s[i] /\ at(i + 1) < s[i]}
  <2>1. hit \in {[offset |-> i - lq, count |-> s[i]] : i \in peaks}
    BY <1>1 DEF AlignFingerprints, OffsetHits
  <2> HIDE DEF peaks, s
  <2>2. PICK i \in peaks : hit = [offset |-> i - lq, count |-> s[i]]
    BY <2>1
  <2>3. i \in 0..(n - 1) /\ s[i] >= 20 /\ at(i - 1) <= s[i] /\ at(i + 1) < s[i]
    BY <2>2 DEF peaks
  <2>4. (i > 0 => i - 1 \in 0..(n - 1)) /\ (i < n - 1 => i + 1 \in 0..(n - 1))
    BY <2>3
  <2>5. (i > 0 => s[i - 1] <= s[i]) /\ (i < n - 1 => s[i + 1] < s[i])
    BY <2>3, <2>4
  <2> QED
    BY <2>2, <2>3, <2>5 DEF s
<1>3. /\ n \in Nat /\ i - lq \in Int
      /\ \A j \in 0..(n - 1) : j - lq \in Int
  OBVIOUS
<1>4. c \in [0..(n - 1) -> Nat]
  BY <1>3, PairsAreCounted
<1>5. ASSUME NEW j \in 0..(n - 1) PROVE c[j] = PairsAt(master, query, j - lq)
  OBVIOUS
<1> HIDE DEF c
<1>6. i # 0 /\ i # n - 1
  <2>1. CASE i = 0 \/ i = n - 1
    <3>1. i - lq = 0 - lq \/ i - lq = lm
      BY <2>1
    <3>2. 0 - lq \notin (1 - lq)..(lm - 1) /\ lm \notin (1 - lq)..(lm - 1)
      OBVIOUS
    <3>3. i - lq \notin (1 - lq)..(lm - 1)
      BY <3>1, <3>2
    <3>4. i - lq \notin (1 - Len(query))..(Len(master) - 1)
      BY <1>1, <3>3
    <3>5. PairsAt(master, query, i - lq) = 0
      BY <1>3, <3>4, PairsAreCounted
    <3>6. c[i] = 0
      BY <1>5, <3>5
    <3> QED
      BY <1>2, <1>3, <1>4, <2>1, <3>6, PeaksHavePairs
  <2> QED
    BY <2>1
<1>7. ASSUME MaxOffset # 0 PROVE i - lq \in -MaxOffset..MaxOffset
  <2> SUFFICES ASSUME i - lq \notin -MaxOffset..MaxOffset PROVE FALSE
    OBVIOUS
  <2>1. MaxOffset \in Nat
    BY MatchingAssumption
  <2>2. c[i] = 0
    BY <1>3, <1>5, <1>7, PairsAreCounted
  <2>3. i - 1 \in 0..(n - 1) /\ i + 1 \in 0..(n - 1)
    BY <1>6
  <2>4. \/ (i - 1) - lq \notin -MaxOffset..MaxOffset
        \/ (i + 1) - lq \notin -MaxOffset..MaxOffset
    BY <2>1
  <2>5. c[i - 1] = 0 \/ c[i + 1] = 0
    BY <1>3, <1>5, <1>7, <2>3, <2>4, PairsAreCounted
  <2> QED
    BY <1>2, <1>3, <1>4, <2>2, <2>5, PeaksHavePairs
<1> QED
  BY <1>1, <1>2, <1>6, <1>7

-----------------------------------------------------------------------------
(* Arrays                                                                  *)

\* A number of a width, read as signed, is the number again as unsigned.
LEMMA SignedIsUnsignedAgain ==
    ASSUME NEW x \in 0..(WordSize - 1)
    PROVE  /\ Signed(x) \in -(WordSize \div 2)..(WordSize \div 2 - 1)
           /\ Signed(x) % WordSize = x
<1>1. WordSize \in Nat /\ WordSize > 1 /\ WordSize % 2 = 0
  BY VarintAssumption
<1>2. PICK h \in Nat : h = WordSize \div 2 /\ WordSize = 2 * h
  BY <1>1
<1>3. Signed(x) \in -h..(h - 1) /\ (Signed(x) = x \/ Signed(x) = x - WordSize)
  BY <1>1, <1>2 DEF Signed
<1>4. x % WordSize = x
  BY <1>1
<1>5. (x - WordSize) % WordSize = x
  BY <1>1
<1> QED
  BY <1>2, <1>3, <1>4, <1>5

\* What Value writes is read back by Scan, unless the array is empty.
LEMMA ArraysAreRead ==
    ASSUME NEW array \in Seq(0..(WordSize - 1))
    PROVE  scanString(Value(array)) =
             IF array = <<>> THEN [err |-> TRUE, result |-> <<>>]
             ELSE [err |-> FALSE, result |-> array]
<1> DEFINE text == Value(array)
<1>1. DOMAIN text = DOMAIN array /\ \A i \in DOMAIN array : text[i] = Signed(array[i])
  BY DEF Value
<1>2. CASE array = <<>>
  <2>1. text = <<>>
    BY <1>2 DEF Value
  <2>2. Split(text) = <<NoNumber>>
    BY <2>1 DEF Split
  <2>3. ~Parses(NoNumber)
    BY DEF Parses
  <2>4. ~(\A i \in DOMAIN Split(text) : Parses(Split(text)[i]))
    BY <2>2, <2>3
  <2> QED
    BY <1>2, <2>4 DEF scanString
<1>3. CASE array # <<>>
  <2>1. text # <<>>
    <3>1. PICK n \in Nat : DOMAIN array = 1..n /\ n = Len(array)
      OBVIOUS
    <3>2. n # 0
      BY <1>3, <3>1
    <3>3. 1 \in DOMAIN array
      BY <3>1, <3>2
    <3> QED
      BY <1>1, <3>3
  <2>2. Split(text) = text
    BY <2>1 DEF Split
  <2>3. ASSUME NEW i \in DOMAIN array PROVE Parses(text[i]) /\ text[i] % WordSize = array[i]
    <3>1. array[i] \in 0..(WordSize - 1)
      <4>1. \A S : \A s \in Seq(S) : \A k \in DOMAIN s : s[k] \in S
        OBVIOUS
      <4> QED
        BY <4>1, Zenon
    <3>2. Signed(array[i]) \in -(WordSize \div 2)..(WordSize \div 2 - 1)
      BY <3>1, SignedIsUnsignedAgain
    <3>3. Signed(array[i]) \in Int
      BY <3>2
    <3> QED
      BY <1>1, <3>1, <3>2, <3>3, SignedIsUnsignedAgain, VarintAssumption DEF Parses
  <2>4. [i \in DOMAIN text |-> text[i] % WordSize] = array
    BY <1>1, <2>3
  <2>5. \A i \in DOMAIN Split(text) : Parses(Split(text)[i])
    BY <1>1, <2>2, <2>3
  <2>6. scanString(text) = [err |-> FALSE, result |-> array]
    BY <2>4, <2>5 DEF scanString
  <2> QED
    BY <1>3, <2>6
<1> QED
  BY <1>2, <1>3

-----------------------------------------------------------------------------
(* What the index answers                                                  *)

\* Each document once, as the index answers.
Answers(results) ==
    /\ IsFiniteSet(results)
    /\ \A r \in results : r.hits \in Nat /\ r.id \in Nat
    /\ \A q, r \in results : q.id = r.id => q = r

\* All results, each at one place of s, those with more hits first.
BestFirst(s, n, results) ==
    /\ s \in [1..n -> results]
    /\ \A i, j \in 1..n : i # j => s[i] # s[j]
    /\ \A i, j \in 1..n : i < j => s[i].hits >= s[j].hits
    /\ \A r \in results : \E i \in 1..n : s[i] = r

\* The results with the given ids are the best.
Best(ids, results) ==
    LET chosen == {r \in results : r.id \in ids}
    IN  /\ \A r \in chosen, o \in results \ chosen : r.hits >= o.hits
        /\ ids # {} => \E r \in chosen : r.hits = Max({q.hits : q \in results})

\* The place of a result is the number of those before it.
LEMMA RanksAreOrdered ==
    ASSUME NEW results, Answers(results)
    PROVE  /\ \A r \in results : Rank(r, results) \in 0..(Cardinality(results) - 1)
           /\ \A q, r \in results : Before(q, r) => Rank(q, results) < Rank(r, results)
<1> DEFINE Ahead(r) == {q \in results : Before(q, r)}
<1> USE DEF Answers
<1>1. PICK n \in Nat : n = Cardinality(results)
  BY FS_CardinalityType
<1>2. ASSUME NEW r \in results
      PROVE  /\ Ahead(r) \subseteq results \ {r}
             /\ IsFiniteSet(Ahead(r)) /\ Rank(r, results) = Cardinality(Ahead(r))
             /\ Rank(r, results) \in 0..(n - 1)
  <2>1. Ahead(r) \subseteq results \ {r}
    BY DEF Before
  <2>2. IsFiniteSet(results \ {r}) /\ Cardinality(results \ {r}) = n - 1
    BY <1>1, FS_RemoveElement
  <2>3. IsFiniteSet(Ahead(r)) /\ Cardinality(Ahead(r)) <= Cardinality(results \ {r})
    BY <2>1, <2>2, FS_Subset
  <2>4. Cardinality(Ahead(r)) \in Nat
    BY <2>3, FS_CardinalityType
  <2> QED
    BY <1>1, <2>1, <2>2, <2>3, <2>4 DEF Rank
<1>3. ASSUME NEW q \in results, NEW r \in results, Before(q, r)
      PROVE  Rank(q, results) < Rank(r, results)
  <2>1. Ahead(q) \subseteq Ahead(r) /\ q \in Ahead(r) /\ q \notin Ahead(q)
    BY <1>3 DEF Before
  <2>2. Ahead(q) # Ahead(r)
    BY <2>1
  <2>3. Cardinality(Ahead(q)) # Cardinality(Ahead(r)) /\ Cardinality(Ahead(q)) <= Cardinality(Ahead(r))
    BY <1>2, <2>1, <2>2, FS_Subset
  <2>4. Rank(q, results) # Rank(r, results) /\ Rank(q, results) <= Rank(r, results)
    BY <1>2, <2>3
  <2>5. Rank(q, results) \in 0..(n - 1) /\ Rank(r, results) \in 0..(n - 1)
    BY <1>2
  <2> QED
    BY <2>4, <2>5
<1> QED
  BY <1>1, <1>2, <1>3

\* How many numbers there are from 0.
LEMMA IntervalFromZero ==
    ASSUME NEW n \in Nat
    PROVE  IsFiniteSet(0..(n - 1)) /\ Cardinality(0..(n - 1)) = n
<1>1. PICK m \in Int : m = n - 1
  OBVIOUS
<1>2. 0 \in Int
  OBVIOUS
<1>3. IsFiniteSet(0..m) /\ Cardinality(0..m) = IF 0 > m THEN 0 ELSE m - 0 + 1
  BY <1>2, FS_Interval, Zenon
<1> QED
  BY <1>1, <1>3

\* How many numbers there are from 1.
LEMMA IntervalFromOne ==
    ASSUME NEW n \in Nat
    PROVE  IsFiniteSet(1..n) /\ Cardinality(1..n) = n
<1>1. 1 \in Int /\ n \in Int
  OBVIOUS
<1>2. IsFiniteSet(1..n) /\ Cardinality(1..n) = IF 1 > n THEN 0 ELSE n - 1 + 1
  BY <1>1, FS_Interval, Zenon
<1> QED
  BY <1>2

\* Each place is taken by the result of its rank, and each result has one.
LEMMA SortedIsRanked ==
    ASSUME NEW results, Answers(results), NEW n \in Nat, n = Cardinality(results)
    PROVE  BestFirst(SortedResults(results), n, results)
<1> DEFINE f == [r \in results |-> Rank(r, results)]
           s == SortedResults(results)
<1> USE DEF Answers
<1>1. /\ \A r \in results : Rank(r, results) \in 0..(n - 1)
      /\ \A q, r \in results : Before(q, r) => Rank(q, results) < Rank(r, results)
  BY RanksAreOrdered
<1>2. \A q, r \in results : q # r => Before(q, r) \/ Before(r, q)
  BY DEF Before
<1>3. \A q, r \in results : Rank(q, results) = Rank(r, results) => q = r
  <2>1. \A r \in results : Rank(r, results) \in Int
    BY <1>1
  <2> QED
    BY <1>1, <1>2, <2>1
<1>4. f \in Injection(results, 0..(n - 1))
  <2>1. f \in [results -> 0..(n - 1)]
    BY <1>1
  <2>2. \A q, r \in results : f[q] = f[r] => q = r
    BY <1>3
  <2> HIDE DEF f
  <2> QED
    BY <2>1, <2>2 DEF Injection, IsInjective
<1>5. IsFiniteSet(0..(n - 1)) /\ Cardinality(0..(n - 1)) = n
  BY IntervalFromZero
<1>6. f \in Surjection(results, 0..(n - 1))
  BY <1>4, <1>5, FS_Injection
<1>7. ASSUME NEW i \in 1..n PROVE s[i] \in results /\ Rank(s[i], results) = i - 1
  <2>1. i - 1 \in 0..(n - 1)
    OBVIOUS
  <2>2. \E r \in results : f[r] = i - 1
    BY <1>6, <2>1 DEF Surjection
  <2>3. \E r \in results : Rank(r, results) = i - 1
    BY <2>2
  <2>4. s[i] = CHOOSE r \in results : Rank(r, results) = i - 1
    BY DEF SortedResults
  <2> QED
    BY <2>3, <2>4
<1>8. s \in [1..n -> results]
  <2>1. s = [i \in 1..n |-> CHOOSE r \in results : Rank(r, results) = i - 1]
    BY DEF SortedResults
  <2> HIDE DEF s
  <2> QED
    BY <1>7, <2>1
<1> HIDE DEF s
<1>9. \A i, j \in 1..n : i # j => s[i] # s[j]
  <2> SUFFICES ASSUME NEW i \in 1..n, NEW j \in 1..n, i # j, s[i] = s[j] PROVE FALSE
    OBVIOUS
  <2>1. i - 1 = j - 1
    BY <1>7
  <2> QED
    BY <2>1
<1>10. ASSUME NEW i \in 1..n, NEW j \in 1..n, i < j PROVE s[i].hits >= s[j].hits
  <2>1. PICK q \in results, r \in results : q = s[i] /\ r = s[j]
    BY <1>7
  <2>2. Rank(q, results) = i - 1 /\ Rank(r, results) = j - 1
    BY <1>7, <2>1
  <2>3. ~Before(r, q)
    BY <1>1, <1>10, <2>2
  <2>4. q.hits \in Nat /\ r.hits \in Nat
    OBVIOUS
  <2> QED
    BY <2>1, <2>3, <2>4 DEF Before
<1>11. ASSUME NEW r \in results PROVE \E i \in 1..n : s[i] = r
  <2>1. PICK k \in 0..(n - 1) : k = Rank(r, results)
    BY <1>1
  <2>2. k + 1 \in 1..n /\ (k + 1) - 1 = k
    OBVIOUS
  <2>3. s[k + 1] \in results /\ Rank(s[k + 1], results) = k
    BY <1>7, <2>2
  <2>4. s[k + 1] = r
    BY <1>3, <2>1, <2>3
  <2> QED
    BY <2>2, <2>4
<1> QED
  BY <1>8, <1>9, <1>10, <1>11 DEF s, BestFirst

PlacesAreBest(s, n, K, results) ==
    /\ Best({s[k].id : k \in K}, results)
    /\ {r \in results : r.id \in {s[k].id : k \in K}} = {s[k] : k \in K}
    /\ n > 0 => s[1].hits = Max({q.hits : q \in results})

\* What is kept of results in the order of their hits is the best of them, if
\* with each place the places before it are kept.
LEMMA FirstAreBest ==
    ASSUME NEW results, Answers(results), NEW n \in Nat, NEW s, BestFirst(s, n, results),
           NEW K \in SUBSET (1..n), \A k \in K : 1..k \subseteq K
    PROVE  PlacesAreBest(s, n, K, results)
<1> DEFINE ids == {s[k].id : k \in K}
           chosen == {r \in results : r.id \in ids}
<1> USE DEF Answers, BestFirst
<1>1. chosen = {s[k] : k \in K}
  <2>1. ASSUME NEW r \in chosen PROVE \E k \in K : r = s[k]
    <3>1. PICK k \in K : r.id = s[k].id
      OBVIOUS
    <3>2. r \in results /\ s[k] \in results
      OBVIOUS
    <3> QED
      BY <3>1, <3>2
  <2>2. ASSUME NEW k \in K PROVE s[k] \in chosen
    OBVIOUS
  <2> QED
    BY <2>1, <2>2
<1>2. ASSUME NEW r \in chosen, NEW o \in results \ chosen PROVE r.hits >= o.hits
  <2>1. PICK k \in K : r = s[k]
    BY <1>1
  <2>2. PICK j \in 1..n : o = s[j]
    OBVIOUS
  <2>3. j \notin K
    BY <1>1, <2>2
  <2>4. j \notin 1..k
    BY <2>3
  <2>5. k < j
    BY <2>4
  <2> QED
    BY <2>1, <2>2, <2>5
<1>3. ASSUME n > 0 PROVE s[1].hits = Max({q.hits : q \in results})
  <2> DEFINE H == {q.hits : q \in results}
  <2>1. 1 \in 1..n /\ s[1] \in results /\ s[1].hits \in Nat
    BY <1>3
  <2>2. ASSUME NEW h \in H PROVE h \in Nat /\ s[1].hits >= h
    <3>1. PICK q \in results : h = q.hits
      OBVIOUS
    <3>2. PICK j \in 1..n : q = s[j]
      OBVIOUS
    <3>3. j = 1 \/ 1 < j
      OBVIOUS
    <3> QED
      BY <2>1, <3>1, <3>2, <3>3
  <2>3. s[1].hits \in H
    BY <2>1
  <2> HIDE DEF H
  <2>4. PICK m \in Nat : m = s[1].hits
    BY <2>1
  <2>5. \A x \in H : x \in Nat /\ m >= x
    BY <2>2, <2>4
  <2>6. \A x \in H : (\A y \in H : x >= y) => x = m
    BY <2>3, <2>4, <2>5
  <2>7. Max(H) = m
    BY <2>3, <2>4, <2>5, <2>6 DEF Max
  <2> QED
    BY <2>4, <2>7 DEF H
<1>4. ASSUME ids # {} PROVE \E r \in chosen : r.hits = Max({q.hits : q \in results})
  <2>1. PICK k \in K : TRUE
    BY <1>4
  <2>2. k \in 1..n /\ 1 \in 1..k
    OBVIOUS
  <2>3. 1 \in K /\ n > 0
    BY <2>2
  <2> QED
    BY <1>1, <1>3, <2>3
<1> QED
  BY <1>1, <1>2, <1>3, <1>4 DEF Best, PlacesAreBest

KeepsFirst(kept, results, limit) ==
    \E m \in 1..Cardinality(results) :
        /\ limit = 0 \/ m <= limit
        /\ kept \in [1..m -> results] /\ Len(kept) = m
        /\ \A i \in 1..m : kept[i] = SortedResults(results)[i]

\* The filter keeps the first places: one at least, and no more than the limit.
LEMMA FilterKeepsFirst ==
    ASSUME NEW results, Answers(results), results # {}, NEW limit \in Nat
    PROVE  KeepsFirst(filterIndexSearchResults(results, limit), results, limit)
<1>0. PICK n \in Nat : n = Cardinality(results)
  BY FS_CardinalityType DEF Answers
<1> DEFINE sorted == SortedResults(results)
           threshold == (sorted[1].hits * 10 + 50) \div 100
           T == {r \in results : r.hits >= threshold}
           thresholdIndex == Cardinality(T)
           cut == IF limit = 0 \/ (Len(sorted) > limit /\ limit > thresholdIndex)
                  THEN thresholdIndex ELSE limit
<1>1. n # 0
  BY <1>0, FS_EmptySet DEF Answers
<1>2. sorted \in [1..n -> results]
  BY <1>0, SortedIsRanked DEF BestFirst
<1>3. sorted \in Seq(results) /\ Len(sorted) = n
  BY <1>2
<1>4. filterIndexSearchResults(results, limit) =
        IF cut > 0 /\ Len(sorted) > cut THEN SubSeq(sorted, 1, cut) ELSE sorted
  BY DEF filterIndexSearchResults
<1>5. thresholdIndex \in 1..n
  <2>1. sorted[1] \in results
    BY <1>1, <1>2
  <2>2. PICK h \in Nat : h = sorted[1].hits
    BY <2>1 DEF Answers
  <2>3. (h * 10 + 50) \div 100 <= h
    OBVIOUS
  <2>4. threshold <= sorted[1].hits
    BY <2>2, <2>3
  <2> HIDE DEF threshold, sorted
  <2>5. sorted[1] \in T /\ T \subseteq results
    BY <2>1, <2>2, <2>4
  <2> HIDE DEF T
  <2>6. IsFiniteSet(T) /\ Cardinality(T) <= n
    BY <1>0, <2>5, FS_Subset DEF Answers
  <2>7. Cardinality(T) \in Nat /\ Cardinality(T) # 0
    BY <2>5, <2>6, FS_CardinalityType, FS_EmptySet
  <2> QED
    BY <2>6, <2>7
<1> HIDE DEF sorted, thresholdIndex
<1>6. cut \in Nat /\ cut > 0
  BY <1>5
<1>7. PICK m \in 1..n : m = IF n > cut THEN cut ELSE n
  BY <1>1, <1>6
<1>8. limit = 0 \/ m <= limit
  BY <1>3, <1>5, <1>7
<1>9. filterIndexSearchResults(results, limit) = IF n > cut THEN SubSeq(sorted, 1, m) ELSE sorted
  BY <1>3, <1>4, <1>6, <1>7
<1>10. /\ SubSeq(sorted, 1, m) \in [1..m -> results] /\ Len(SubSeq(sorted, 1, m)) = m
       /\ \A i \in 1..m : SubSeq(sorted, 1, m)[i] = sorted[i]
  <2>1. m \in Nat /\ m > 0 /\ m <= Len(sorted)
    BY <1>3
  <2>2. /\ SubSeq(sorted, 1, m) \in Seq(results)
        /\ Len(SubSeq(sorted, 1, m)) = IF 1 <= m THEN m - 1 + 1 ELSE 0
        /\ \A i \in 1..(m - 1 + 1) : SubSeq(sorted, 1, m)[i] = sorted[1 + i - 1]
    BY <1>3, <2>1, SubSeqProperties
  <2>3. Len(SubSeq(sorted, 1, m)) = m
    BY <2>1, <2>2
  <2>4. \A i \in 1..m : SubSeq(sorted, 1, m)[i] = sorted[i]
    <3>1. \A i \in 1..m : i \in 1..(m - 1 + 1) /\ 1 + i - 1 = i
      BY <2>1
    <3> QED
      BY <2>2, <3>1
  <2>5. PICK t \in Seq(results) : t = SubSeq(sorted, 1, m)
    BY <2>2
  <2>6. t \in [1..m -> results]
    <3>1. t \in [1..Len(t) -> results]
      OBVIOUS
    <3> QED
      BY <2>3, <2>5, <3>1
  <2> QED
    BY <2>3, <2>4, <2>5, <2>6
<1> HIDE DEF cut
<1> QED
  BY <1>0, <1>2, <1>3, <1>7, <1>8, <1>9, <1>10 DEF sorted, KeepsFirst

\* Of no results it keeps none, if there is a limit.
LEMMA FilterKeepsNone ==
    ASSUME NEW limit \in Nat, limit # 0
    PROVE  filterIndexSearchResults({}, limit) = <<>>
<1> DEFINE sorted == SortedResults({})
<1>1. Cardinality({}) = 0
  BY FS_EmptySet
<1>2. sorted = <<>>
  BY <1>1 DEF SortedResults
<1>3. Len(sorted) = 0
  BY <1>2
<1> HIDE DEF sorted
<1>4. filterIndexSearchResults({}, limit) = sorted
  BY <1>3 DEF filterIndexSearchResults, sorted
<1> QED
  BY <1>2, <1>4

KeepsBest(kept, results, limit) ==
    /\ Best({r.id : r \in ToSet(kept)}, results)
    /\ Cardinality({r \in results : r.id \in {q.id : q \in ToSet(kept)}}) = Len(kept)
    /\ kept # <<>>
    /\ limit = 0 \/ Len(kept) <= limit

\* So what it keeps is the best, and each result once.
LEMMA FilterKeepsBest ==
    ASSUME NEW results, Answers(results), results # {}, NEW limit \in Nat
    PROVE  KeepsBest(filterIndexSearchResults(results, limit), results, limit)
<1>0. PICK kept : kept = filterIndexSearchResults(results, limit)
  OBVIOUS
<1> DEFINE ids == {r.id : r \in ToSet(kept)}
           chosen == {r \in results : r.id \in ids}
<1>1. PICK n \in Nat : n = Cardinality(results)
  BY FS_CardinalityType DEF Answers
<1>2. PICK m \in 1..n :
        /\ limit = 0 \/ m <= limit
        /\ kept \in [1..m -> results] /\ Len(kept) = m
        /\ \A i \in 1..m : kept[i] = SortedResults(results)[i]
  <2>1. KeepsFirst(kept, results, limit)
    BY <1>0, FilterKeepsFirst
  <2> QED
    BY <1>1, <2>1 DEF KeepsFirst
<1>3. PICK s : s = SortedResults(results) /\ BestFirst(s, n, results)
  BY <1>1, SortedIsRanked
<1>4. 1..m \in SUBSET (1..n) /\ \A k \in 1..m : 1..k \subseteq 1..m
  BY <1>2
<1>5. ToSet(kept) = {s[k] : k \in 1..m}
  <2>1. DOMAIN kept = 1..m /\ \A k \in 1..m : kept[k] = s[k]
    BY <1>2, <1>3
  <2>2. ToSet(kept) = {kept[k] : k \in 1..m}
    BY <2>1 DEF ToSet
  <2> QED
    BY <2>1, <2>2
<1>6. ids = {s[k].id : k \in 1..m}
  BY <1>5
<1>7. chosen = {s[k] : k \in 1..m} /\ Best(ids, results)
  <2> HIDE DEF ids
  <2>1. PICK K \in SUBSET (1..n) : K = 1..m /\ \A k \in K : 1..k \subseteq K
    BY <1>4
  <2>2. PlacesAreBest(s, n, K, results)
    BY <1>1, <1>3, <2>1, FirstAreBest
  <2> QED
    BY <1>6, <2>1, <2>2 DEF PlacesAreBest
<1> HIDE DEF ids
<1>8. Cardinality(chosen) = m
  <2>1. IsFiniteSet(1..m) /\ Cardinality(1..m) = m
    BY IntervalFromOne
  <2>2. kept \in [1..m -> chosen]
    BY <1>2, <1>3, <1>7 DEF BestFirst
  <2>3. kept \in Surjection(1..m, chosen)
    <3>1. \A f \in chosen : \E i \in 1..m : kept[i] = f
      BY <1>2, <1>3, <1>7
    <3> QED
      BY <2>2, <3>1 DEF Surjection
  <2>4. kept \in Injection(1..m, chosen)
    <3>1. \A i, j \in 1..m : kept[i] = kept[j] => i = j
      BY <1>2, <1>3, <1>4 DEF BestFirst
    <3> QED
      BY <2>2, <3>1 DEF Injection, IsInjective
  <2> QED
    BY <2>1, <2>3, <2>4, FS_Surjection
<1>9. kept # <<>>
  BY <1>2
<1> QED
  BY <1>0, <1>2, <1>7, <1>8, <1>9 DEF ids, KeepsBest

\* Of two places of a list sorted by hits the later has no more.
LEMMA LaterHasNoMore ==
    ASSUME NEW results, Answers(results), NEW n \in Nat, NEW s \in [1..n -> results],
           \A i \in 2..n : s[i - 1].hits >= s[i].hits
    PROVE  \A i, j \in 1..n : i < j => s[i].hits >= s[j].hits
<1> SUFFICES ASSUME NEW i \in 1..n, NEW j \in 1..n, i < j, ~(s[i].hits >= s[j].hits)
             PROVE  FALSE
  OBVIOUS
<1> DEFINE More == {k \in i..n : ~(s[i].hits >= s[k].hits)}
<1>1. More \in SUBSET Nat /\ More # {}
  OBVIOUS
<1>2. PICK k \in More : \A l \in More : k <= l
  BY <1>1, Least
<1>3. \A l \in 1..n : s[l].hits \in Nat
  BY DEF Answers
<1>4. k \in i..n /\ ~(s[i].hits >= s[k].hits)
  OBVIOUS
<1>5. k # i
  BY <1>3, <1>4
<1>6. k \in 2..n /\ k - 1 \in i..n /\ k - 1 \in 1..n /\ k \in 1..n /\ ~(k <= k - 1)
  BY <1>4, <1>5
<1>7. k - 1 \notin More
  BY <1>2, <1>6
<1>8. s[i].hits >= s[k - 1].hits /\ s[k - 1].hits >= s[k].hits
  BY <1>6, <1>7
<1> QED
  BY <1>3, <1>4, <1>6, <1>8

\* Whatever order sort.Slice leaves equal results in.
LEMMA SortedByHits ==
    ASSUME NEW results, Answers(results), NEW s \in Sorted(results),
           NEW n \in Nat, n = Cardinality(results)
    PROVE  BestFirst(s, n, results) /\ s \in Seq(results) /\ Len(s) = n
<1>1. s \in [1..n -> results] /\ \A i, j \in 1..n : i # j => s[i] # s[j]
  BY DEF Sorted, SetToSeqs
<1>2. s \in Seq(results) /\ Len(s) = n
  BY <1>1
<1>3. \A i \in 2..n : s[i - 1].hits >= s[i].hits
  BY <1>2 DEF Sorted
<1>4. \A i, j \in 1..n : i < j => s[i].hits >= s[j].hits
  BY <1>1, <1>3, LaterHasNoMore
<1>5. IsFiniteSet(1..n) /\ Cardinality(1..n) = n
  BY IntervalFromOne
<1>6. s \in Injection(1..n, results)
  BY <1>1 DEF Injection, IsInjective
<1>7. s \in Surjection(1..n, results)
  BY <1>5, <1>6, FS_Injection DEF Answers
<1>8. \A r \in results : \E i \in 1..n : s[i] = r
  BY <1>7 DEF Surjection
<1> QED
  BY <1>1, <1>2, <1>4, <1>8 DEF BestFirst

\* The candidates are the best, and each has its share of the hits of the best.
LEMMA CandidatesHaveTheirShare ==
    ASSUME NEW results, Answers(results), NEW ids \in GetCandidates(results)
    PROVE  /\ Best(ids, results)
           /\ \A r \in results : r.id \in ids =>
                 100 * r.hits > MinHitsPercent * Max({q.hits : q \in results}) - 100
<1>1. PICK s \in Sorted(results) : ids = Candidates(s)
  BY DEF GetCandidates
<1>2. PICK n \in Nat : n = Cardinality(results)
  BY FS_CardinalityType DEF Answers
<1>3. BestFirst(s, n, results) /\ s \in Seq(results) /\ Len(s) = n
  BY <1>2, SortedByHits
<1> DEFINE minHits == (s[1].hits * MinHitsPercent) \div 100
           Kept(i) == i <= MaxCandidates + 1 /\ s[i].hits >= minHits
           Leading == {k \in DOMAIN s : \A j \in 1..k : Kept(j)}
<1>4. ids = {} \/ (s # <<>> /\ ids = {s[i].id : i \in Leading})
  BY <1>1 DEF Candidates
<1>5. CASE ids = {}
  BY <1>5 DEF Best
<1>6. CASE s # <<>> /\ ids = {s[i].id : i \in Leading}
  <2>1. n > 0 /\ DOMAIN s = 1..n
    BY <1>3, <1>6
  <2>2. Leading \in SUBSET (1..n) /\ \A k \in Leading : 1..k \subseteq Leading
    BY <2>1
  <2>3. \A k \in Leading : s[k].hits >= minHits
    BY <2>1
  <2> HIDE DEF Leading
  <2>4. PICK K \in SUBSET (1..n) : K = Leading /\ \A k \in K : 1..k \subseteq K
    BY <2>2
  <2>5. PlacesAreBest(s, n, K, results)
    BY <1>3, <2>4, FirstAreBest
  <2>6. ids = {s[k].id : k \in K}
    BY <1>6, <2>4
  <2>7. Best(ids, results) /\ {r \in results : r.id \in ids} = {s[k] : k \in K}
    BY <2>5, <2>6 DEF PlacesAreBest
  <2>8. PICK best \in Nat : best = s[1].hits
    BY <1>3, <2>1 DEF BestFirst, Answers
  <2>9. best = Max({q.hits : q \in results})
    BY <2>1, <2>5, <2>8 DEF PlacesAreBest
  <2>10. ASSUME NEW r \in results, r.id \in ids
         PROVE  100 * r.hits > MinHitsPercent * best - 100
    <3>1. PICK k \in K : r = s[k]
      BY <2>7, <2>10
    <3>2. r.hits >= minHits
      BY <2>3, <2>4, <3>1
    <3>3. PICK h \in Nat : h = r.hits
      BY DEF Answers
    <3>4. PICK share \in Nat : share = best * MinHitsPercent /\ share = MinHitsPercent * best
      BY SearcherAssumption
    <3>5. h >= share \div 100
      BY <2>8, <3>2, <3>3, <3>4
    <3>6. 100 * h > share - 100
      BY <3>5
    <3> QED
      BY <3>3, <3>4, <3>6
  <2> QED
    BY <2>7, <2>9, <2>10
<1> QED
  BY <1>4, <1>5, <1>6

-----------------------------------------------------------------------------
(* Integers in groups of seven bits                                        *)

\* A number is made of a group of seven and a bit of it.
LEMMA Sevens ==
    /\ \A b \in Nat : \E g \in Nat, k \in 0..6 : g = b \div 7 /\ k = b % 7 /\ b = 7 * g + k
    /\ \A g \in Nat, k \in 0..6 : (7 * g + k) \div 7 = g /\ (7 * g + k) % 7 = k
<1>1. ASSUME NEW b \in Nat PROVE b \div 7 \in Nat /\ b % 7 \in 0..6 /\ b = (7 * (b \div 7)) + (b % 7)
  OBVIOUS
<1>2. ASSUME NEW g \in Nat, NEW k \in 0..6 PROVE (7 * g + k) \div 7 = g /\ (7 * g + k) % 7 = k
  OBVIOUS
<1> QED
  BY <1>1, <1>2

\* The groups of an integer: which there are, and what is in them.
LEMMA PutUvarintGroups ==
    ASSUME NEW x \in SUBSET (0..31)
    PROVE  \E n \in 1..5 :
              /\ Len(PutUvarint32(x)) = n /\ PutUvarint32(x) \in [1..n -> SUBSET (0..7)]
              /\ \A i \in 1..n : \A k \in 0..6 : k \in PutUvarint32(x)[i] <=> 7 * (i - 1) + k \in x
              /\ \A i \in 1..n : 7 \in PutUvarint32(x)[i] <=> i < n
              /\ \A b \in x : b <= 7 * n - 1
              /\ n > 1 => \E b \in x : b >= 7 * (n - 1)
<1> DEFINE last == IF x = {} THEN 0 ELSE Max(x) \div 7
           p == PutUvarint32(x)
<1>1. /\ last \in 0..4 /\ \A b \in x : b <= 7 * last + 6
      /\ last > 0 => \E b \in x : b >= 7 * last
  <2>1. CASE x = {}
    BY <2>1
  <2>2. CASE x # {}
    <3>1. PICK m \in 0..31 : m = Max(x) /\ m \in x /\ \A y \in x : m >= y
      BY <2>2, MaxIsGreatest
    <3>2. last = m \div 7
      BY <2>2, <3>1
    <3>3. m \div 7 \in 0..4 /\ m <= 7 * (m \div 7) + 6 /\ m >= 7 * (m \div 7)
      OBVIOUS
    <3>4. \A b \in x : b \in Int
      OBVIOUS
    <3> HIDE DEF last
    <3> QED
      BY <3>1, <3>2, <3>3, <3>4
  <2> QED
    BY <2>1, <2>2
<1>2. p = [i \in 1..(last + 1) |-> {k \in 0..6 : 7 * (i - 1) + k \in x} \cup (IF i <= last THEN {7} ELSE {})]
  BY DEF PutUvarint32
<1> HIDE DEF p, last
<1>3. PICK n \in 1..5 : n = last + 1
  BY <1>1
<1>4. /\ p \in [1..n -> SUBSET (0..7)]
      /\ \A i \in 1..n : p[i] = {k \in 0..6 : 7 * (i - 1) + k \in x} \cup (IF i <= last THEN {7} ELSE {})
  BY <1>2, <1>3
<1>5. Len(p) = n
  BY <1>4
<1>6. ASSUME NEW i \in 1..n
      PROVE  /\ \A k \in 0..6 : k \in p[i] <=> 7 * (i - 1) + k \in x
             /\ 7 \in p[i] <=> i < n
  <2>1. \A k \in 0..6 : k # 7
    OBVIOUS
  <2>2. i < n <=> i <= last
    BY <1>1, <1>3
  <2> QED
    BY <1>4, <2>1, <2>2
<1>7. (\A b \in x : b <= 7 * n - 1) /\ (n > 1 => \E b \in x : b >= 7 * (n - 1))
  <2>1. 7 * n - 1 = 7 * last + 6 /\ n - 1 = last /\ (n > 1 => last > 0)
    BY <1>1, <1>3
  <2> QED
    BY <1>1, <2>1
<1> QED
  BY <1>4, <1>5, <1>6, <1>7 DEF p

\* What PutUvarint32 writes is read by Uvarint32, whatever follows it.
LEMMA UvarintComesBack ==
    ASSUME NEW x \in SUBSET (0..31), NEW next \in Seq(SUBSET (0..7))
    PROVE  Uvarint32(PutUvarint32(x) \o next) = [x |-> x, n |-> Len(PutUvarint32(x))]
<1> DEFINE p == PutUvarint32(x)
           buf == p \o next
<1>1. PICK n \in 1..5 :
              /\ Len(p) = n /\ p \in [1..n -> SUBSET (0..7)]
              /\ \A i \in 1..n : \A k \in 0..6 : k \in p[i] <=> 7 * (i - 1) + k \in x
              /\ \A i \in 1..n : 7 \in p[i] <=> i < n
              /\ \A b \in x : b <= 7 * n - 1
  BY PutUvarintGroups
<1> HIDE DEF p
<1>2. DOMAIN buf = 1..(n + Len(next)) /\ Len(next) \in Nat /\ \A i \in 1..n : buf[i] = p[i]
  <2>1. p \in Seq(SUBSET (0..7))
    BY <1>1
  <2>2. Len(next) \in Nat /\ DOMAIN next = 1..Len(next)
    OBVIOUS
  <2>3. Len(buf) = n + Len(next) /\ \A i \in 1..n : buf[i] = p[i]
    <3>1. \A i \in 1..(Len(p) + Len(next)) : buf[i] = IF i <= Len(p) THEN p[i] ELSE next[i - Len(p)]
      BY <2>1, ConcatProperties
    <3>2. Len(buf) = Len(p) + Len(next)
      BY <2>1, ConcatProperties
    <3> QED
      BY <1>1, <2>2, <3>1, <3>2
  <2>4. buf \in Seq(SUBSET (0..7))
    BY <2>1, ConcatProperties
  <2> QED
    BY <2>2, <2>3, <2>4
<1> HIDE DEF buf
<1>3. Ends(buf) # {} /\ Min(Ends(buf)) = n
  <2>1. n \in Ends(buf)
    BY <1>1, <1>2 DEF Ends
  <2>2. \A i \in Ends(buf) : i >= n
    <3> SUFFICES ASSUME NEW i \in Ends(buf), i < n PROVE FALSE
      BY <1>2 DEF Ends
    <3>1. i \in 1..n
      BY <1>2 DEF Ends
    <3> QED
      BY <1>1, <1>2, <3>1 DEF Ends
  <2>3. Ends(buf) \in SUBSET Nat
    BY <1>2 DEF Ends
  <2>4. Min(Ends(buf)) \in Ends(buf) /\ Min(Ends(buf)) <= n
    BY <2>1, <2>3, MinIsLeast
  <2> QED
    BY <2>1, <2>2, <2>3, <2>4
<1>4. ~(n = 5 /\ buf[n] \cap (4..7) # {})
  <2> SUFFICES ASSUME n = 5, NEW k \in 4..7, k \in buf[5] PROVE FALSE
    OBVIOUS
  <2>0. 5 \in 1..n /\ ~(5 < n) /\ 7 * (5 - 1) + k = 28 + k
    OBVIOUS
  <2>1. k # 7
    BY <1>1, <1>2, <2>0
  <2>2. k \in 0..6
    BY <2>1
  <2>3. 28 + k \in x
    BY <1>1, <1>2, <2>0, <2>2
  <2>4. ~(28 + k \in 0..31)
    OBVIOUS
  <2> QED
    BY <2>3, <2>4
<1>5. Gathered(buf, n) = x
  <2>1. ASSUME NEW b \in 0..(7 * n - 1) PROVE b % 7 \in buf[(b \div 7) + 1] <=> b \in x
    <3>0. b \in Nat
      OBVIOUS
    <3>1. PICK g \in Nat, k \in 0..6 : g = b \div 7 /\ k = b % 7 /\ b = 7 * g + k
      BY <3>0, Sevens
    <3>2. g + 1 \in 1..n /\ (g + 1) - 1 = g
      BY <3>1
    <3>3. k \in p[g + 1] <=> 7 * g + k \in x
      BY <1>1, <3>2
    <3> QED
      BY <1>2, <3>1, <3>2, <3>3
  <2>2. \A b \in x : b \in 0..(7 * n - 1)
    BY <1>1
  <2> QED
    BY <2>1, <2>2 DEF Gathered
<1>6. Uvarint32(buf) = [x |-> Gathered(buf, n), n |-> n]
  BY <1>3, <1>4 DEF Uvarint32
<1> QED
  BY <1>1, <1>5, <1>6 DEF buf, p

\* No part of an integer is taken for one.
LEMMA UvarintCutHasNoEnd ==
    ASSUME NEW x \in SUBSET (0..31), NEW n \in 0..(Len(PutUvarint32(x)) - 1)
    PROVE  Uvarint32(SubSeq(PutUvarint32(x), 1, n)).n = 0
<1> DEFINE p == PutUvarint32(x)
           buf == SubSeq(p, 1, n)
<1>1. PICK m \in 1..5 : Len(p) = m /\ p \in [1..m -> SUBSET (0..7)]
                        /\ \A i \in 1..m : 7 \in p[i] <=> i < m
  BY PutUvarintGroups
<1> HIDE DEF p
<1>2. n \in Nat /\ n < m
  BY <1>1 DEF p
<1>3. DOMAIN buf = 1..n /\ \A i \in 1..n : buf[i] = p[i]
  <2>1. \A i \in 1..n : p[i] \in SUBSET (0..7)
    BY <1>1, <1>2
  <2>2. buf = [i \in 1..n |-> p[i]]
    BY <1>2
  <2> QED
    BY <2>2
<1> HIDE DEF buf
<1>4. Ends(buf) = {}
  <2> SUFFICES ASSUME NEW i \in Ends(buf) PROVE FALSE
    OBVIOUS
  <2>1. i \in 1..n /\ 7 \notin buf[i]
    BY <1>3 DEF Ends
  <2>2. i \in 1..m /\ i < m
    BY <1>2, <2>1
  <2> QED
    BY <1>1, <1>3, <2>1, <2>2
<1> QED
  BY <1>4 DEF Uvarint32, buf, p

\* What is read from any bytes has the groups the bytes have.
LEMMA UvarintIsWhatBytesSay ==
    ASSUME NEW buf \in Seq(SUBSET (0..7)), Uvarint32(buf).n > 0
    PROVE  LET r == Uvarint32(buf)
               again == PutUvarint32(r.x)
           IN  /\ r.n \in Len(again)..Len(buf)
               /\ \A i \in 1..r.n : buf[i] \ {7} = IF i <= Len(again) THEN again[i] \ {7} ELSE {}
<1> DEFINE n == Min(Ends(buf))
           x == Gathered(buf, n)
<1>1. Ends(buf) # {} /\ Ends(buf) \in SUBSET (1..Len(buf))
  BY DEF Uvarint32, Ends
<1>2. n \in 1..Len(buf) /\ n \in Nat /\ n # 0
  <2>1. Ends(buf) \in SUBSET Nat
    BY <1>1
  <2> QED
    BY <1>1, <2>1, MinIsLeast
<1>3. /\ n \in 1..5 /\ (n = 5 => buf[5] \cap (4..7) = {})
      /\ Uvarint32(buf) = [x |-> x, n |-> n]
  <2>1. CASE n > 5 \/ (n = 5 /\ buf[n] \cap (4..7) # {})
    <3>1. Uvarint32(buf).n = -n
      BY <1>1, <2>1 DEF Uvarint32
    <3> HIDE DEF n
    <3> QED
      BY <1>2, <3>1
  <2>2. CASE ~(n > 5 \/ (n = 5 /\ buf[n] \cap (4..7) # {}))
    <3>1. Uvarint32(buf) = [x |-> x, n |-> n]
      BY <1>1, <2>2 DEF Uvarint32
    <3> HIDE DEF n
    <3> QED
      BY <1>2, <2>2, <3>1
  <2> QED
    BY <2>1, <2>2
<1> HIDE DEF n
<1>4. \A i \in 1..n, k \in 0..6 : 7 * (i - 1) + k \in x <=> k \in buf[i]
  <2> SUFFICES ASSUME NEW i \in 1..n, NEW k \in 0..6 PROVE 7 * (i - 1) + k \in x <=> k \in buf[i]
    OBVIOUS
  <2>1. PICK g \in Nat : g = i - 1 /\ i = g + 1
    BY <1>2
  <2>2. (7 * g + k) \div 7 = g /\ (7 * g + k) % 7 = k
    BY <2>1, Sevens
  <2>3. 7 * g + k \in 0..(7 * n - 1)
    BY <1>3, <2>1
  <2>4. 7 * (i - 1) + k = 7 * g + k
    BY <2>1
  <2>5. PICK b \in 0..(7 * n - 1) : b = 7 * g + k
    BY <2>3
  <2>6. b \in x <=> b % 7 \in buf[(b \div 7) + 1]
    BY Zenon DEF Gathered
  <2>7. b % 7 = k /\ (b \div 7) + 1 = i
    BY <2>1, <2>2, <2>5
  <2> QED
    BY <2>4, <2>5, <2>6, <2>7, Zenon
<1>5. x \in SUBSET (0..31)
  <2> SUFFICES ASSUME NEW b \in x PROVE b \in 0..31
    OBVIOUS
  <2>1. b \in 0..(7 * n - 1) /\ b % 7 \in buf[(b \div 7) + 1]
    BY Zenon DEF Gathered
  <2>2. b \in Nat /\ b <= 7 * n - 1
    BY <1>3, <2>1
  <2>3. CASE n < 5
    BY <1>3, <2>2, <2>3
  <2>4. CASE n = 5
    <3>1. PICK g \in Nat, k \in 0..6 : g = b \div 7 /\ k = b % 7 /\ b = 7 * g + k
      BY <2>2, Sevens
    <3>2. CASE g = 4
      <4>1. k \in buf[5]
        <5>1. (b \div 7) + 1 = 5 /\ b % 7 = k
          BY <3>1, <3>2
        <5> QED
          BY <2>1, <5>1, Zenon
      <4>2. ~(k \in 4..7)
        BY <1>3, <2>4, <4>1
      <4> QED
        BY <3>1, <3>2, <4>2
    <3>3. CASE g # 4
      BY <2>2, <2>4, <3>1, <3>3
    <3> QED
      BY <3>2, <3>3
  <2>5. n < 5 \/ n = 5
    BY <1>3
  <2> QED
    BY <2>3, <2>4, <2>5, Zenon
<1> HIDE DEF x
<1> DEFINE p == PutUvarint32(x)
<1>6. PICK m \in 1..5 :
              /\ Len(p) = m /\ p \in [1..m -> SUBSET (0..7)]
              /\ \A i \in 1..m : \A k \in 0..6 : k \in p[i] <=> 7 * (i - 1) + k \in x
              /\ \A b \in x : b <= 7 * m - 1
              /\ m > 1 => \E b \in x : b >= 7 * (m - 1)
  BY <1>5, PutUvarintGroups
<1> HIDE DEF p
<1>7. m <= n
  <2> SUFFICES ASSUME m > n PROVE FALSE
    BY <1>3, <1>6
  <2>1. PICK b \in x : b >= 7 * (m - 1)
    BY <1>3, <1>6
  <2>2. b \in 0..(7 * n - 1)
    BY Zenon DEF x, Gathered
  <2>3. 7 * (m - 1) >= 7 * n
    BY <1>3, <1>6
  <2> QED
    BY <1>3, <1>6, <2>1, <2>2, <2>3
<1>8. ASSUME NEW i \in 1..n PROVE buf[i] \ {7} = IF i <= m THEN p[i] \ {7} ELSE {}
  <2>0. buf[i] \in SUBSET (0..7) /\ \A k \in 0..7 : k # 7 <=> k \in 0..6
    BY <1>2
  <2>1. CASE i <= m
    <3>1. i \in 1..m /\ p[i] \in SUBSET (0..7)
      BY <1>6, <2>1
    <3>2. \A k \in 0..6 : k \in p[i] <=> k \in buf[i]
      BY <1>4, <1>6, <3>1
    <3>3. \A k : k \in buf[i] \ {7} <=> k \in p[i] \ {7}
      BY <2>0, <3>1, <3>2, Zenon
    <3> QED
      BY <2>1, <3>3
  <2>2. CASE i > m
    <3>0. ~(i <= m)
      BY <1>6, <2>2
    <3> SUFFICES ASSUME NEW k \in buf[i] \ {7} PROVE FALSE
      BY <3>0
    <3>1. k \in 0..6
      BY <2>0
    <3>2. 7 * (i - 1) + k \in x
      BY <1>4, <3>1
    <3>3. 7 * (i - 1) + k <= 7 * m - 1
      BY <1>6, <3>2
    <3> QED
      BY <1>6, <2>2, <3>1, <3>3
  <2>3. i <= m \/ i > m
    BY <1>6
  <2> QED
    BY <2>1, <2>2, <2>3, Zenon
<1>9. n \in m..Len(buf)
  BY <1>2, <1>3, <1>6, <1>7
<1> QED
  BY <1>3, <1>6, <1>8, <1>9, SMTT(30) DEF p

-----------------------------------------------------------------------------
(* Integers with the length in the first byte *)

Word == [1..4 -> 0..255]

\* A number is made of its lowest byte and what is above it.
LEMMA ByteOf ==
    /\ \A n \in Nat : \E q \in Nat, r \in 0..255 : q = n \div 256 /\ r = n % 256 /\ n = 256 * q + r
    /\ \A q \in Nat, r \in 0..255 : (256 * q + r) \div 256 = q /\ (256 * q + r) % 256 = r
<1>1. ASSUME NEW n \in Nat PROVE n \div 256 \in Nat /\ n % 256 \in 0..255 /\ n = (256 * (n \div 256)) + (n % 256)
  OBVIOUS
<1>2. ASSUME NEW q \in Nat, NEW r \in 0..255 PROVE (256 * q + r) \div 256 = q /\ (256 * q + r) % 256 = r
  OBVIOUS
<1> QED
  BY <1>1, <1>2

\* The one place that needs the two limits.
LEMMA Limits32 ==
    /\ OfThree = 2292 /\ OfFour \in Nat /\ OfFour > OfThree
    /\ \A v \in OfThree..(OfFour - 1) : v - OfThree \in Nat /\ (v - OfThree) \div 256 \in 0..255
<1>1. OfThree = 2292 /\ OfFour \in Nat /\ OfFour > OfThree
  BY SMTT(30) DEF OfThree, OfFour
<1>2. ASSUME NEW v \in OfThree..(OfFour - 1)
      PROVE  v - OfThree \in Nat /\ (v - OfThree) \div 256 \in 0..255
  <2>1. PICK m \in Nat : m = v - OfThree /\ m <= 65535
    BY SMTT(30) DEF OfThree, OfFour
  <2>2. m \div 256 \in 0..255
    BY <2>1, SMT
  <2> QED
    BY <2>1, <2>2, SMT
<1> QED
  BY <1>1, <1>2, SMT

\* An integer of 32 bits is made of its four bytes.
LEMMA WordBytes ==
    ASSUME NEW x \in Word
    PROVE  /\ x[1] \in 0..255 /\ x[2] \in 0..255 /\ x[3] \in 0..255 /\ x[4] \in 0..255
           /\ x = <<x[1], x[2], x[3], x[4]>>
           /\ 256 * x[2] + x[3] \in Nat
           /\ Low(x) \in Nat /\ Low(x) = 256 * (256 * x[2] + x[3]) + x[4]
<1>1. x[1] \in 0..255 /\ x[2] \in 0..255 /\ x[3] \in 0..255 /\ x[4] \in 0..255
  BY DEF Word
<1>2. x = <<x[1], x[2], x[3], x[4]>>
  BY DEF Word
<1>3. PICK a \in Nat, b \in Nat, c \in Nat : a = x[2] /\ b = x[3] /\ c = x[4]
  <2>1. x[2] \in Nat /\ x[3] \in Nat /\ x[4] \in Nat
    BY <1>1
  <2> QED
    BY <2>1
<1>4. 256 * x[2] + x[3] \in Nat /\ Low(x) \in Nat /\ Low(x) = 256 * (256 * x[2] + x[3]) + x[4]
  <2>1. 256 * a + b \in Nat
    OBVIOUS
  <2>2. 256 * (256 * a + b) + c \in Nat
    BY <2>1
  <2> QED
    BY <1>3, <2>1, <2>2 DEF Low
<1> QED
  BY <1>1, <1>2, <1>3, <1>4

\* An integer with no first byte is its lower three.
LEMMA SmallIsWord ==
    ASSUME NEW x \in Word, x[1] = 0
    PROVE  Small(Low(x)) = x
<1>1. PICK q \in Nat : q = 256 * x[2] + x[3]
  BY WordBytes
<1>2. /\ x[2] \in Nat /\ x[3] \in 0..255 /\ x[4] \in 0..255
      /\ Low(x) = 256 * q + x[4]
  BY <1>1, WordBytes
<1>3. Low(x) \div 256 = q /\ Low(x) % 256 = x[4]
  <2>1. PICK b \in 0..255 : b = x[4]
    BY <1>2, Zenon
  <2>2. (256 * q + b) \div 256 = q /\ (256 * q + b) % 256 = b
    OBVIOUS
  <2> QED
    BY <1>2, <2>1, <2>2
<1>5. q \div 256 = x[2] /\ q % 256 = x[3]
  <2>1. PICK a \in Nat, b \in 0..255 : a = x[2] /\ b = x[3]
    <3>1. x[2] \in Nat /\ x[3] \in 0..255
      BY WordBytes
    <3> QED
      BY <3>1, Zenon
  <2>2. (256 * a + b) \div 256 = a /\ (256 * a + b) % 256 = b
    OBVIOUS
  <2> QED
    BY <1>1, <2>1, <2>2
<1>6. Small(Low(x)) = <<x[1], x[2], x[3], x[4]>>
  BY <1>2, <1>3, <1>5 DEF Small
<1> QED
  BY <1>6, WordBytes

\* The five forms.
SQLiteForm(x, p) ==
    \/ x[1] = 0 /\ Low(x) < 245 /\ p = <<Low(x)>>
    \/ /\ x[1] = 0 /\ Low(x) \in 245..(OfThree - 1)
       /\ \E q \in 0..7, r \in 0..255 : Low(x) = 244 + 256 * q + r /\ p = <<245 + q, r>>
    \/ /\ x[1] = 0 /\ Low(x) \in OfThree..(OfFour - 1)
       /\ \E q \in 0..255, r \in 0..255 : Low(x) = OfThree + 256 * q + r /\ p = <<253, q, r>>
    \/ x[1] = 0 /\ Low(x) >= OfFour /\ p = <<254, x[2], x[3], x[4]>>
    \/ x[1] > 0 /\ p = <<255, x[1], x[2], x[3], x[4]>>

\* PutSQLiteUvarint32 writes one of the five forms.
LEMMA SQLiteForms ==
    ASSUME NEW x \in Word
    PROVE  SQLiteForm(x, PutSQLiteUvarint32(x)) /\ PutSQLiteUvarint32(x) \in Seq(0..255)
<1> DEFINE p == PutSQLiteUvarint32(x)
           v == Low(x)
<1>1. /\ x[1] \in 0..255 /\ x[2] \in 0..255 /\ x[3] \in 0..255 /\ x[4] \in 0..255
      /\ v \in Nat
  BY WordBytes
<1>2. OfThree = 2292 /\ OfFour \in Nat /\ OfFour > OfThree
  BY Limits32
<1>3. p = CASE x[1] = 0 /\ v < 245   -> <<v>>
          [] x[1] = 0 /\ v \in 245..(OfThree - 1) -> <<(v - 244) \div 256 + 245, (v - 244) % 256>>
          [] x[1] = 0 /\ v \in OfThree..(OfFour - 1) ->
                <<253, (v - OfThree) \div 256, (v - OfThree) % 256>>
          [] x[1] = 0 /\ v >= OfFour -> <<254, x[2], x[3], x[4]>>
          [] OTHER -> <<255, x[1], x[2], x[3], x[4]>>
  BY DEF PutSQLiteUvarint32
<1> HIDE DEF p, v
<1>4. CASE x[1] = 0 /\ v < 245
  <2>0. ~(v \in 245..(OfThree - 1)) /\ ~(v \in OfThree..(OfFour - 1)) /\ ~(v >= OfFour) /\ v \in 0..255
    BY <1>1, <1>2, <1>4, SMTT(30)
  <2>1. p = <<v>> /\ v \in 0..255
    BY <1>3, <1>4, <2>0
  <2> QED
    BY <1>4, <2>1 DEF p, v, SQLiteForm
<1>5. CASE x[1] = 0 /\ v \in 245..(OfThree - 1)
  <2>0. ~(v < 245) /\ ~(v \in OfThree..(OfFour - 1)) /\ ~(v >= OfFour)
    BY <1>1, <1>2, <1>5
  <2>1. p = <<(v - 244) \div 256 + 245, (v - 244) % 256>>
    BY <1>3, <1>5, <2>0
  <2>2. v - 244 \in Nat /\ v - 244 <= 2047
    BY <1>2, <1>5
  <2>3. PICK m \in Nat : m = v - 244
    BY <2>2
  <2>4. PICK q \in Nat, r \in 0..255 : q = m \div 256 /\ r = m % 256 /\ m = 256 * q + r
    BY ByteOf
  <2>5. q \in 0..7 /\ v = 244 + 256 * q + r
    BY <1>1, <2>2, <2>3, <2>4
  <2>6. p = <<245 + q, r>> /\ 245 + q \in 0..255
    BY <2>1, <2>3, <2>4, <2>5
  <2>7. p \in Seq(0..255)
    BY <2>6
  <2>8. \E qq \in 0..7, rr \in 0..255 : v = 244 + 256 * qq + rr /\ p = <<245 + qq, rr>>
    BY <2>5, <2>6
  <2> QED
    BY <1>5, <2>7, <2>8, Zenon DEF p, v, SQLiteForm
<1>6. CASE x[1] = 0 /\ v \in OfThree..(OfFour - 1)
  <2>0. ~(v < 245) /\ ~(v \in 245..(OfThree - 1)) /\ ~(v >= OfFour)
    BY <1>1, <1>2, <1>6
  <2>1. p = <<253, (v - OfThree) \div 256, (v - OfThree) % 256>>
    BY <1>3, <1>6, <2>0
  <2>2. v - OfThree \in Nat /\ (v - OfThree) \div 256 \in 0..255
    BY <1>6, Limits32
  <2>3. PICK m \in Nat : m = v - OfThree
    BY <2>2
  <2>4. PICK q \in Nat, r \in 0..255 : q = m \div 256 /\ r = m % 256 /\ m = 256 * q + r
    BY ByteOf
  <2>5. q \in 0..255 /\ v = OfThree + 256 * q + r
    BY <1>1, <1>2, <2>2, <2>3, <2>4
  <2>6. p = <<253, q, r>>
    BY <2>1, <2>3, <2>4
  <2>7. p \in Seq(0..255)
    BY <2>5, <2>6
  <2>8. \E qq \in 0..255, rr \in 0..255 : v = OfThree + 256 * qq + rr /\ p = <<253, qq, rr>>
    BY <2>5, <2>6
  <2> QED
    BY <1>6, <2>7, <2>8, Zenon DEF p, v, SQLiteForm
<1>7. CASE x[1] = 0 /\ v >= OfFour
  <2>1. p = <<254, x[2], x[3], x[4]>>
    BY <1>1, <1>2, <1>3, <1>7
  <2> QED
    BY <1>1, <1>7, <2>1 DEF p, v, SQLiteForm
<1>8. CASE x[1] > 0
  <2>1. p = <<255, x[1], x[2], x[3], x[4]>>
    BY <1>1, <1>3, <1>8
  <2> QED
    BY <1>1, <1>8, <2>1 DEF p, v, SQLiteForm
<1>9. x[1] = 0 => v < 245 \/ v \in 245..(OfThree - 1) \/ v \in OfThree..(OfFour - 1) \/ v >= OfFour
  BY <1>1, <1>2
<1>10. x[1] = 0 \/ x[1] > 0
  BY <1>1
<1> HIDE DEF p
<1> QED
  BY <1>4, <1>5, <1>6, <1>7, <1>8, <1>9, <1>10, Zenon DEF p

\* What PutSQLiteUvarint32 writes is read by SQLiteUvarint32, whatever follows it.
LEMMA SQLiteComesBack ==
    ASSUME NEW x \in Word, NEW next \in Seq(0..255)
    PROVE  SQLiteUvarint32(PutSQLiteUvarint32(x) \o next) = [x |-> x, n |-> Len(PutSQLiteUvarint32(x))]
<1> DEFINE p == PutSQLiteUvarint32(x)
           v == Low(x)
           buf == p \o next
<1>1. /\ v \in Nat
      /\ x[1] \in 0..255 /\ x[2] \in 0..255 /\ x[3] \in 0..255 /\ x[4] \in 0..255
      /\ p \in Seq(0..255)
  BY SQLiteForms, WordBytes
<1>2. SQLiteForm(x, p)
  BY SQLiteForms
<1>3. x[1] = 0 => Small(v) = x
  BY SmallIsWord
<1>4. x = <<x[1], x[2], x[3], x[4]>>
  BY WordBytes
<1> HIDE DEF p, v
<1>5. /\ Len(buf) = Len(p) + Len(next) /\ Len(next) \in Nat /\ Len(p) \in Nat
      /\ \A i \in 1..Len(p) : buf[i] = p[i]
  <2>1. /\ Len(buf) = Len(p) + Len(next) /\ Len(next) \in Nat /\ Len(p) \in Nat
        /\ \A i \in 1..Len(p) + Len(next) : buf[i] = IF i <= Len(p) THEN p[i] ELSE next[i - Len(p)]
    BY <1>1, ConcatProperties
  <2> HIDE DEF buf
  <2> QED
    BY <2>1
<1>6. Len(p) > 0 => buf # <<>>
  BY <1>5
<1> HIDE DEF buf
<1>7. ASSUME Len(p) > 0, SQLiteLength(p[1]) = Len(p)
      PROVE  SQLiteUvarint32(buf) =
                [n |-> Len(p),
                 x |-> CASE p[1] <= 244 -> Small(p[1])
                  [] p[1] \in 245..252 -> Small(244 + 256 * (p[1] - 245) + buf[2])
                  [] p[1] = 253 -> Small(OfThree + 256 * buf[2] + buf[3])
                  [] p[1] = 254 -> <<0, buf[2], buf[3], buf[4]>>
                  [] OTHER -> <<buf[2], buf[3], buf[4], buf[5]>>]
  <2>1. buf[1] = p[1] /\ ~(Len(buf) < Len(p)) /\ buf # <<>>
    BY <1>5, <1>6, <1>7
  <2> QED
    BY <1>7, <2>1, SMTT(30) DEF SQLiteUvarint32
<1>8. CASE x[1] = 0 /\ v < 245 /\ p = <<v>>
  <2>1. /\ Len(p) = 1 /\ p[1] = v /\ v <= 244 /\ v # 253 /\ v # 254 /\ ~(v \in 245..252)
    BY <1>1, <1>8
  <2>2. SQLiteLength(p[1]) = 1
    BY <2>1 DEF SQLiteLength
  <2>3. SQLiteUvarint32(buf) = [n |-> 1, x |-> Small(v)]
    BY <1>7, <2>1, <2>2
  <2> QED
    BY <1>3, <1>8, <2>1, <2>3 DEF p, buf
<1>9. CASE /\ x[1] = 0 /\ v \in 245..(OfThree - 1)
           /\ \E q \in 0..7, r \in 0..255 : v = 244 + 256 * q + r /\ p = <<245 + q, r>>
  <2>1. PICK q \in 0..7, r \in 0..255 : v = 244 + 256 * q + r /\ p = <<245 + q, r>>
    BY <1>9
  <2>2. /\ Len(p) = 2 /\ p[1] = 245 + q /\ p[2] = r /\ p[1] \in 245..252 /\ ~(p[1] <= 244)
        /\ p[1] # 253 /\ p[1] # 254 /\ p[1] - 245 = q
    BY <2>1
  <2>3. SQLiteLength(p[1]) = 2
    BY <2>2 DEF SQLiteLength
  <2>4. buf[2] = r
    BY <1>5, <2>2
  <2>5. 244 + 256 * (p[1] - 245) + buf[2] = v
    BY <2>1, <2>2, <2>4
  <2>6. SQLiteUvarint32(buf) = [n |-> 2, x |-> Small(244 + 256 * (p[1] - 245) + buf[2])]
    BY <1>7, <2>2, <2>3
  <2> QED
    BY <1>3, <1>9, <2>2, <2>5, <2>6 DEF p, buf
<1>10. CASE /\ x[1] = 0 /\ v \in OfThree..(OfFour - 1)
            /\ \E q \in 0..255, r \in 0..255 : v = OfThree + 256 * q + r /\ p = <<253, q, r>>
  <2>1. PICK q \in 0..255, r \in 0..255 : v = OfThree + 256 * q + r /\ p = <<253, q, r>>
    BY <1>10
  <2>2. Len(p) = 3 /\ p[1] = 253 /\ p[2] = q /\ p[3] = r /\ ~(p[1] <= 244) /\ ~(p[1] \in 245..252)
    BY <2>1
  <2>3. SQLiteLength(p[1]) = 3
    BY <2>2 DEF SQLiteLength
  <2>4. buf[2] = q /\ buf[3] = r
    BY <1>5, <2>2
  <2>5. SQLiteUvarint32(buf) = [n |-> 3, x |-> Small(OfThree + 256 * buf[2] + buf[3])]
    BY <1>7, <2>2, <2>3
  <2> QED
    BY <1>3, <1>10, <2>1, <2>2, <2>4, <2>5 DEF p, buf
<1>11. CASE x[1] = 0 /\ v >= OfFour /\ p = <<254, x[2], x[3], x[4]>>
  <2>1. /\ Len(p) = 4 /\ p[1] = 254 /\ p[2] = x[2] /\ p[3] = x[3] /\ p[4] = x[4]
        /\ ~(p[1] <= 244) /\ ~(p[1] \in 245..252)
    BY <1>11
  <2>2. SQLiteLength(p[1]) = 4
    BY <2>1 DEF SQLiteLength
  <2>3. buf[2] = x[2] /\ buf[3] = x[3] /\ buf[4] = x[4]
    BY <1>5, <2>1
  <2>4. SQLiteUvarint32(buf) = [n |-> 4, x |-> <<0, buf[2], buf[3], buf[4]>>]
    BY <1>7, <2>1, <2>2
  <2> QED
    BY <1>4, <1>11, <2>1, <2>3, <2>4 DEF p, buf
<1>12. CASE x[1] > 0 /\ p = <<255, x[1], x[2], x[3], x[4]>>
  <2>1. /\ Len(p) = 5 /\ p[1] = 255 /\ p[2] = x[1] /\ p[3] = x[2] /\ p[4] = x[3] /\ p[5] = x[4]
        /\ ~(p[1] <= 244) /\ ~(p[1] \in 245..252)
    BY <1>12
  <2>2. SQLiteLength(p[1]) = 5
    BY <2>1 DEF SQLiteLength
  <2>3. buf[2] = x[1] /\ buf[3] = x[2] /\ buf[4] = x[3] /\ buf[5] = x[4]
    BY <1>5, <2>1
  <2>4. SQLiteUvarint32(buf) = [n |-> 5, x |-> <<buf[2], buf[3], buf[4], buf[5]>>]
    BY <1>7, <2>1, <2>2
  <2> QED
    BY <1>4, <2>1, <2>3, <2>4 DEF p, buf
<1> QED
  BY <1>2, <1>8, <1>9, <1>10, <1>11, <1>12 DEF SQLiteForm, v

\* Bytes of one length are compared at the first that differs.
LEMMA SoonerOfLength ==
    ASSUME NEW n \in Nat, NEW a, NEW b, Len(a) = n, Len(b) = n
    PROVE  Sooner(a, b) <=> \E i \in 1..n : (\A j \in 1..(i - 1) : a[j] = b[j]) /\ a[i] < b[i]
<1>1. ASSUME NEW i \in 1..n PROVE ~(i > Len(a)) /\ \A j \in 1..(i - 1) : j <= Len(a)
  OBVIOUS
<1> QED
  BY <1>1 DEF Sooner

\* Where the first bytes differ, they decide.
LEMMA SoonerAtFirst ==
    ASSUME NEW a, NEW b, Len(a) \in Nat \ {0}, Len(b) \in Nat \ {0}, a[1] # b[1]
    PROVE  Sooner(a, b) <=> a[1] < b[1]
<1>1. Len(a) \in Nat /\ Len(b) \in Nat /\ Len(a) > 0 /\ Len(b) > 0
  OBVIOUS
<1>2. ASSUME a[1] < b[1] PROVE Sooner(a, b)
  BY <1>1, <1>2 DEF Sooner
<1>3. ASSUME Sooner(a, b) PROVE a[1] < b[1]
  <2>1. PICK i \in 1..Len(b) :
           /\ \A j \in 1..(i - 1) : j <= Len(a) /\ a[j] = b[j]
           /\ i > Len(a) \/ a[i] < b[i]
    BY <1>3 DEF Sooner
  <2>2. i = 1
    <3> SUFFICES ASSUME i # 1 PROVE FALSE
      OBVIOUS
    <3>1. 1 \in 1..(i - 1)
      BY <1>1
    <3> QED
      BY <2>1, <3>1
  <2> QED
    BY <1>1, <2>1, <2>2
<1> QED
  BY <1>2, <1>3

\* The order of two to five bytes, spelled out.
LEMMA SoonerOfTwo ==
    ASSUME NEW a, NEW b, Len(a) = 2, Len(b) = 2
    PROVE  Sooner(a, b) <=>
              a[1] < b[1] \/ (a[1] = b[1] /\ (a[2] < b[2]))
<1> DEFINE Earlier(i) == (\A j \in 1..(i - 1) : a[j] = b[j]) /\ a[i] < b[i]
<1>1. Sooner(a, b) <=> \E i \in 1..2 : Earlier(i)
  BY SoonerOfLength
<1>2. Earlier(1) <=> a[1] < b[1]
  OBVIOUS
<1>3. Earlier(2) <=> a[1] = b[1] /\ a[2] < b[2]
  OBVIOUS
<1> HIDE DEF Earlier
<1>4. (\E i \in 1..2 : Earlier(i)) <=> Earlier(1) \/ Earlier(2)
  OBVIOUS
<1> QED
  BY <1>1, <1>2, <1>3, <1>4

\* Comparing the bytes of the third form.
LEMMA SoonerOfThree ==
    ASSUME NEW a, NEW b, Len(a) = 3, Len(b) = 3
    PROVE  Sooner(a, b) <=>
              a[1] < b[1] \/ (a[1] = b[1] /\ (a[2] < b[2] \/ (a[2] = b[2] /\ (a[3] < b[3]))))
<1> DEFINE Earlier(i) == (\A j \in 1..(i - 1) : a[j] = b[j]) /\ a[i] < b[i]
<1>1. Sooner(a, b) <=> \E i \in 1..3 : Earlier(i)
  BY SoonerOfLength
<1>2. Earlier(1) <=> a[1] < b[1]
  OBVIOUS
<1>3. Earlier(2) <=> a[1] = b[1] /\ a[2] < b[2]
  OBVIOUS
<1>4. Earlier(3) <=> a[1] = b[1] /\ a[2] = b[2] /\ a[3] < b[3]
  OBVIOUS
<1> HIDE DEF Earlier
<1>5. (\E i \in 1..3 : Earlier(i)) <=> Earlier(1) \/ Earlier(2) \/ Earlier(3)
  OBVIOUS
<1> QED
  BY <1>1, <1>2, <1>3, <1>4, <1>5

\* Comparing the bytes of the fourth form.
LEMMA SoonerOfFour ==
    ASSUME NEW a, NEW b, Len(a) = 4, Len(b) = 4
    PROVE  Sooner(a, b) <=>
              a[1] < b[1] \/ (a[1] = b[1] /\ (a[2] < b[2] \/ (a[2] = b[2] /\ (a[3] < b[3] \/ (a[3] = b[3] /\ (a[4] < b[4]))))))
<1> DEFINE Earlier(i) == (\A j \in 1..(i - 1) : a[j] = b[j]) /\ a[i] < b[i]
<1>1. Sooner(a, b) <=> \E i \in 1..4 : Earlier(i)
  BY SoonerOfLength
<1>2. Earlier(1) <=> a[1] < b[1]
  OBVIOUS
<1>3. Earlier(2) <=> a[1] = b[1] /\ a[2] < b[2]
  OBVIOUS
<1>4. Earlier(3) <=> a[1] = b[1] /\ a[2] = b[2] /\ a[3] < b[3]
  OBVIOUS
<1>5. Earlier(4) <=> a[1] = b[1] /\ a[2] = b[2] /\ a[3] = b[3] /\ a[4] < b[4]
  OBVIOUS
<1> HIDE DEF Earlier
<1>6. (\E i \in 1..4 : Earlier(i)) <=> Earlier(1) \/ Earlier(2) \/ Earlier(3) \/ Earlier(4)
  OBVIOUS
<1> QED
  BY <1>1, <1>2, <1>3, <1>4, <1>5, <1>6

\* Comparing the bytes of the fifth form.
LEMMA SoonerOfFive ==
    ASSUME NEW a, NEW b, Len(a) = 5, Len(b) = 5
    PROVE  Sooner(a, b) <=>
              a[1] < b[1] \/ (a[1] = b[1] /\ (a[2] < b[2] \/ (a[2] = b[2] /\ (a[3] < b[3] \/ (a[3] = b[3] /\ (a[4] < b[4] \/ (a[4] = b[4] /\ (a[5] < b[5]))))))))
<1> DEFINE Earlier(i) == (\A j \in 1..(i - 1) : a[j] = b[j]) /\ a[i] < b[i]
<1>1. Sooner(a, b) <=> \E i \in 1..5 : Earlier(i)
  BY SoonerOfLength
<1>2. Earlier(1) <=> a[1] < b[1]
  OBVIOUS
<1>3. Earlier(2) <=> a[1] = b[1] /\ a[2] < b[2]
  OBVIOUS
<1>4. Earlier(3) <=> a[1] = b[1] /\ a[2] = b[2] /\ a[3] < b[3]
  OBVIOUS
<1>5. Earlier(4) <=> a[1] = b[1] /\ a[2] = b[2] /\ a[3] = b[3] /\ a[4] < b[4]
  OBVIOUS
<1>6. Earlier(5) <=> a[1] = b[1] /\ a[2] = b[2] /\ a[3] = b[3] /\ a[4] = b[4] /\ a[5] < b[5]
  OBVIOUS
<1> HIDE DEF Earlier
<1>7. (\E i \in 1..5 : Earlier(i)) <=> Earlier(1) \/ Earlier(2) \/ Earlier(3) \/ Earlier(4) \/ Earlier(5)
  OBVIOUS
<1> QED
  BY <1>1, <1>2, <1>3, <1>4, <1>5, <1>6, <1>7

\* The order of integers.
LEMMA WordOrder ==
    ASSUME NEW x \in Word, NEW y \in Word
    PROVE  Sooner(x, y) <=> x[1] < y[1] \/ (x[1] = y[1] /\ Low(x) < Low(y))
<1>1. Sooner(x, y) <=>
        x[1] < y[1] \/ (x[1] = y[1] /\ (x[2] < y[2] \/ (x[2] = y[2] /\ (x[3] < y[3] \/ (x[3] = y[3] /\ (x[4] < y[4]))))))
  BY SoonerOfFour DEF Word
<1>2. PICK a \in Nat, b \in 0..255, c \in 0..255 : a = x[2] /\ b = x[3] /\ c = x[4]
  <2>1. x[2] \in Nat /\ x[3] \in 0..255 /\ x[4] \in 0..255
    BY WordBytes
  <2> QED
    BY <2>1, Zenon
<1>3. PICK d \in Nat, e \in 0..255, f \in 0..255 : d = y[2] /\ e = y[3] /\ f = y[4]
  <2>1. y[2] \in Nat /\ y[3] \in 0..255 /\ y[4] \in 0..255
    BY WordBytes
  <2> QED
    BY <2>1, Zenon
<1>4. PICK q \in Nat : q = 256 * a + b
  OBVIOUS
<1>5. PICK r \in Nat : r = 256 * d + e
  OBVIOUS
<1>6. Low(x) = 256 * q + c /\ Low(y) = 256 * r + f
  BY <1>2, <1>3, <1>4, <1>5 DEF Low
<1>7. Low(x) < Low(y) <=> q < r \/ (q = r /\ c < f)
  BY <1>6
<1>8. (q < r <=> a < d \/ (a = d /\ b < e)) /\ (q = r <=> a = d /\ b = e)
  BY <1>4, <1>5
<1> QED
  BY <1>1, <1>2, <1>3, <1>7, <1>8

\* The length, the first byte and the limits go together.
SQLiteClass(x, p) ==
    \/ Len(p) = 1 /\ p[1] = Low(x) /\ p[1] <= 244 /\ x[1] = 0 /\ Low(x) < 245
    \/ Len(p) = 2 /\ p[1] \in 245..252 /\ x[1] = 0 /\ Low(x) >= 245 /\ Low(x) < OfThree
    \/ Len(p) = 3 /\ p[1] = 253 /\ x[1] = 0 /\ Low(x) >= OfThree /\ Low(x) < OfFour
    \/ Len(p) = 4 /\ p[1] = 254 /\ x[1] = 0 /\ Low(x) >= OfFour
    \/ Len(p) = 5 /\ p[1] = 255 /\ x[1] > 0

\* The first byte and the length tell the forms apart.
LEMMA SQLiteClasses ==
    ASSUME NEW x \in Word, NEW p, SQLiteForm(x, p)
    PROVE  SQLiteClass(x, p)
<1>1. Low(x) \in Nat /\ OfThree = 2292 /\ OfFour \in Nat
  BY WordBytes, Limits32
<1>2. CASE x[1] = 0 /\ Low(x) < 245 /\ p = <<Low(x)>>
  <2>1. Len(p) = 1 /\ p[1] = Low(x)
    BY <1>2
  <2> QED
    BY <1>1, <1>2, <2>1 DEF SQLiteClass
<1>3. CASE /\ x[1] = 0 /\ Low(x) \in 245..(OfThree - 1)
           /\ \E q \in 0..7, r \in 0..255 : Low(x) = 244 + 256 * q + r /\ p = <<245 + q, r>>
  <2>1. PICK q \in 0..7, r \in 0..255 : p = <<245 + q, r>>
    BY <1>3
  <2>2. Len(p) = 2 /\ p[1] \in 245..252
    BY <2>1
  <2>3. Low(x) >= 245 /\ Low(x) < OfThree
    BY <1>1, <1>3
  <2> QED
    BY <1>3, <2>2, <2>3, Zenon DEF SQLiteClass
<1>4. CASE /\ x[1] = 0 /\ Low(x) \in OfThree..(OfFour - 1)
           /\ \E q \in 0..255, r \in 0..255 : Low(x) = OfThree + 256 * q + r /\ p = <<253, q, r>>
  <2>1. PICK q \in 0..255, r \in 0..255 : p = <<253, q, r>>
    BY <1>4
  <2>2. Len(p) = 3 /\ p[1] = 253
    BY <2>1
  <2>3. Low(x) >= OfThree /\ Low(x) < OfFour
    BY <1>1, <1>4
  <2> QED
    BY <1>4, <2>2, <2>3, Zenon DEF SQLiteClass
<1>5. CASE x[1] = 0 /\ Low(x) >= OfFour /\ p = <<254, x[2], x[3], x[4]>>
  BY <1>5 DEF SQLiteClass
<1>6. CASE x[1] > 0 /\ p = <<255, x[1], x[2], x[3], x[4]>>
  BY <1>6 DEF SQLiteClass
<1> QED
  BY <1>2, <1>3, <1>4, <1>5, <1>6, Zenon DEF SQLiteForm

\* The written integers sort like the integers.
LEMMA SQLiteOrder ==
    ASSUME NEW x \in Word, NEW y \in Word
    PROVE  Sooner(PutSQLiteUvarint32(x), PutSQLiteUvarint32(y)) <=> Sooner(x, y)
<1> DEFINE p == PutSQLiteUvarint32(x)
           s == PutSQLiteUvarint32(y)
           v == Low(x)
           w == Low(y)
<1>1. /\ v \in Nat /\ w \in Nat
      /\ x[1] \in 0..255 /\ x[2] \in 0..255 /\ x[3] \in 0..255 /\ x[4] \in 0..255
      /\ y[1] \in 0..255 /\ y[2] \in 0..255 /\ y[3] \in 0..255 /\ y[4] \in 0..255
  BY WordBytes
<1>2. SQLiteForm(x, p) /\ SQLiteForm(y, s) /\ p \in Seq(0..255) /\ s \in Seq(0..255)
  BY SQLiteForms
<1>3. Sooner(x, y) <=> x[1] < y[1] \/ (x[1] = y[1] /\ v < w)
  BY WordOrder
<1>4. OfThree = 2292 /\ OfFour \in Nat /\ OfFour > OfThree
  BY Limits32
<1> DEFINE One(z, t)   == z[1] = 0 /\ Low(z) < 245 /\ t = <<Low(z)>>
           Two(z, t)   == /\ z[1] = 0 /\ Low(z) \in 245..(OfThree - 1)
                          /\ \E q \in 0..7, r \in 0..255 : Low(z) = 244 + 256 * q + r /\ t = <<245 + q, r>>
           Three(z, t) == /\ z[1] = 0 /\ Low(z) \in OfThree..(OfFour - 1)
                          /\ \E q \in 0..255, r \in 0..255 : Low(z) = OfThree + 256 * q + r /\ t = <<253, q, r>>
           Four(z, t)  == z[1] = 0 /\ Low(z) >= OfFour /\ t = <<254, z[2], z[3], z[4]>>
           Five(z, t)  == z[1] > 0 /\ t = <<255, z[1], z[2], z[3], z[4]>>
<1>5. /\ One(x, p) \/ Two(x, p) \/ Three(x, p) \/ Four(x, p) \/ Five(x, p)
      /\ One(y, s) \/ Two(y, s) \/ Three(y, s) \/ Four(y, s) \/ Five(y, s)
  BY <1>2, ZenonT(30) DEF SQLiteForm
<1>6. SQLiteClass(x, p) /\ SQLiteClass(y, s)
  BY <1>2, SQLiteClasses
<1>8. p[1] # s[1] => (Sooner(p, s) <=> p[1] < s[1])
  <2>1. Len(p) \in Nat \ {0} /\ Len(s) \in Nat \ {0}
    BY <1>6 DEF SQLiteClass
  <2> QED
    BY <1>2, <2>1, SoonerAtFirst
<1>9. CASE One(x, p) /\ One(y, s)
  <2>1. p = <<v>> /\ s = <<w>> /\ x[1] = 0 /\ y[1] = 0
    BY <1>9
  <2>2. v # w => (Sooner(p, s) <=> v < w)
    BY <1>8, <2>1
  <2>3. v = w => ~Sooner(p, s)
    <3>1. Len(p) = 1 /\ Len(s) = 1 /\ p[1] = v /\ s[1] = w
      BY <2>1
    <3> HIDE DEF p, s
    <3>2. Sooner(p, s) <=> \E i \in 1..1 : (\A j \in 1..(i - 1) : p[j] = s[j]) /\ p[i] < s[i]
      BY <3>1, SoonerOfLength
    <3>3. v = w => ~(p[1] < s[1])
      BY <1>1, <3>1
    <3> QED
      BY <3>2, <3>3
  <2> QED
    BY <1>1, <1>3, <2>1, <2>2, <2>3
<1>10. CASE Two(x, p) /\ Two(y, s)
  <2>1. PICK q \in 0..7, r \in 0..255 : v = 244 + 256 * q + r /\ p = <<245 + q, r>>
    BY <1>10
  <2>2. PICK g \in 0..7, h \in 0..255 : w = 244 + 256 * g + h /\ s = <<245 + g, h>>
    BY <1>10
  <2>3. Sooner(p, s) <=> 245 + q < 245 + g \/ (245 + q = 245 + g /\ r < h)
    BY <2>1, <2>2, SoonerOfTwo
  <2>4. v < w <=> q < g \/ (q = g /\ r < h)
    BY <2>1, <2>2
  <2>5. x[1] = 0 /\ y[1] = 0
    BY <1>10
  <2> QED
    BY <1>3, <2>3, <2>4, <2>5
<1>11. CASE Three(x, p) /\ Three(y, s)
  <2>1. PICK q \in 0..255, r \in 0..255 : v = OfThree + 256 * q + r /\ p = <<253, q, r>>
    BY <1>11
  <2>2. PICK g \in 0..255, h \in 0..255 : w = OfThree + 256 * g + h /\ s = <<253, g, h>>
    BY <1>11
  <2>3. Sooner(p, s) <=> q < g \/ (q = g /\ r < h)
    BY <2>1, <2>2, SoonerOfThree
  <2>4. v < w <=> q < g \/ (q = g /\ r < h)
    BY <1>4, <2>1, <2>2
  <2>5. x[1] = 0 /\ y[1] = 0
    BY <1>11
  <2> QED
    BY <1>3, <2>3, <2>4, <2>5
<1>12. CASE Four(x, p) /\ Four(y, s)
  <2>1. x[1] = 0 /\ y[1] = 0 /\ p = <<254, x[2], x[3], x[4]>> /\ s = <<254, y[2], y[3], y[4]>>
    BY <1>12
  <2>2. Sooner(p, s) <=> x[2] < y[2] \/ (x[2] = y[2] /\ (x[3] < y[3] \/ (x[3] = y[3] /\ x[4] < y[4])))
    BY <2>1, SoonerOfFour
  <2>3. Sooner(x, y) <=> x[2] < y[2] \/ (x[2] = y[2] /\ (x[3] < y[3] \/ (x[3] = y[3] /\ x[4] < y[4])))
    BY <2>1, SoonerOfFour DEF Word
  <2> QED
    BY <2>2, <2>3
<1>13. CASE Five(x, p) /\ Five(y, s)
  <2>1. p = <<255, x[1], x[2], x[3], x[4]>> /\ s = <<255, y[1], y[2], y[3], y[4]>>
    BY <1>13
  <2>2. Sooner(p, s) <=>
            x[1] < y[1] \/ (x[1] = y[1] /\ (x[2] < y[2] \/ (x[2] = y[2] /\ (x[3] < y[3] \/ (x[3] = y[3] /\ x[4] < y[4])))))
    BY <2>1, SoonerOfFive
  <2>3. Sooner(x, y) <=>
            x[1] < y[1] \/ (x[1] = y[1] /\ (x[2] < y[2] \/ (x[2] = y[2] /\ (x[3] < y[3] \/ (x[3] = y[3] /\ x[4] < y[4])))))
    BY SoonerOfFour DEF Word
  <2> QED
    BY <2>2, <2>3
<1> HIDE DEF One, Two, Three, Four, Five, p, s, v, w
<1>14. /\ \/ Len(p) = 1 /\ p[1] = v /\ p[1] <= 244 /\ x[1] = 0 /\ v < 245
          \/ Len(p) = 2 /\ p[1] \in 245..252 /\ x[1] = 0 /\ v >= 245 /\ v < OfThree
          \/ Len(p) = 3 /\ p[1] = 253 /\ x[1] = 0 /\ v >= OfThree /\ v < OfFour
          \/ Len(p) = 4 /\ p[1] = 254 /\ x[1] = 0 /\ v >= OfFour
          \/ Len(p) = 5 /\ p[1] = 255 /\ x[1] > 0
       /\ \/ Len(s) = 1 /\ s[1] = w /\ s[1] <= 244 /\ y[1] = 0 /\ w < 245
          \/ Len(s) = 2 /\ s[1] \in 245..252 /\ y[1] = 0 /\ w >= 245 /\ w < OfThree
          \/ Len(s) = 3 /\ s[1] = 253 /\ y[1] = 0 /\ w >= OfThree /\ w < OfFour
          \/ Len(s) = 4 /\ s[1] = 254 /\ y[1] = 0 /\ w >= OfFour
          \/ Len(s) = 5 /\ s[1] = 255 /\ y[1] > 0
  BY <1>6 DEF SQLiteClass, v, w
<1>17. p[1] \in Nat /\ s[1] \in Nat /\ Len(p) \in 1..5 /\ Len(s) \in 1..5 /\ x[1] \in Nat /\ y[1] \in Nat
  BY <1>1, <1>14
<1>21. OfThree \in Nat /\ OfFour \in Nat
  BY <1>4
<1>22. PICK n \in 1..5, m \in 1..5, a \in Nat, b \in Nat, c \in Nat, d \in Nat, g \in Nat, h \in Nat :
         /\ n = Len(p) /\ m = Len(s) /\ a = p[1] /\ b = s[1] /\ c = x[1] /\ d = y[1]
         /\ g = OfThree /\ h = OfFour
  BY <1>17, <1>21, Zenon
<1>23. /\ \/ n = 1 /\ a = v /\ a <= 244 /\ c = 0 /\ v < 245
          \/ n = 2 /\ a \in 245..252 /\ c = 0 /\ v >= 245 /\ v < g
          \/ n = 3 /\ a = 253 /\ c = 0 /\ v >= g /\ v < h
          \/ n = 4 /\ a = 254 /\ c = 0 /\ v >= h
          \/ n = 5 /\ a = 255 /\ c > 0
       /\ \/ m = 1 /\ b = w /\ b <= 244 /\ d = 0 /\ w < 245
          \/ m = 2 /\ b \in 245..252 /\ d = 0 /\ w >= 245 /\ w < g
          \/ m = 3 /\ b = 253 /\ d = 0 /\ w >= g /\ w < h
          \/ m = 4 /\ b = 254 /\ d = 0 /\ w >= h
          \/ m = 5 /\ b = 255 /\ d > 0
       /\ 245 < g /\ g < h
  BY <1>4, <1>14, <1>21, <1>22, SMTT(30)
<1>24. n < m => a < b /\ (c < d \/ (c = d /\ v < w))
  BY <1>1, <1>23
<1>25. m < n => b < a /\ (d < c \/ (d = c /\ w < v))
  BY <1>1, <1>23
<1>15. Len(p) < Len(s) => p[1] < s[1] /\ (x[1] < y[1] \/ (x[1] = y[1] /\ v < w))
  BY <1>22, <1>24
<1>16. Len(s) < Len(p) => s[1] < p[1] /\ (y[1] < x[1] \/ (y[1] = x[1] /\ w < v))
  BY <1>22, <1>25
<1>18. CASE Len(p) < Len(s)
  <2>1. p[1] < s[1] /\ p[1] # s[1]
    BY <1>15, <1>17, <1>18
  <2>2. Sooner(p, s) /\ Sooner(x, y)
    BY <1>3, <1>8, <1>15, <1>18, <2>1
  <2> QED
    BY <2>2 DEF p, s
<1>19. CASE Len(s) < Len(p)
  <2>1. ~(p[1] < s[1]) /\ p[1] # s[1]
    BY <1>16, <1>17, <1>19
  <2>2. ~(x[1] < y[1]) /\ ~(x[1] = y[1] /\ v < w)
    BY <1>1, <1>16, <1>17, <1>19
  <2>3. ~Sooner(p, s) /\ ~Sooner(x, y)
    BY <1>3, <1>8, <2>1, <2>2
  <2> QED
    BY <2>3 DEF p, s
<1>20. CASE Len(p) = Len(s)
  <2>1. ASSUME NEW z, NEW t
        PROVE  /\ One(z, t) => Len(t) = 1
               /\ Two(z, t) => Len(t) = 2
               /\ Three(z, t) => Len(t) = 3
               /\ Four(z, t) => Len(t) = 4
               /\ Five(z, t) => Len(t) = 5
    <3>1. ASSUME Two(z, t) PROVE Len(t) = 2
      <4>1. PICK q, r : t = <<245 + q, r>>
        BY <3>1, Zenon DEF Two
      <4> QED
        BY <4>1
    <3>2. ASSUME Three(z, t) PROVE Len(t) = 3
      <4>1. PICK q, r : t = <<253, q, r>>
        BY <3>2, Zenon DEF Three
      <4> QED
        BY <4>1
    <3>3. /\ One(z, t) => Len(t) = 1
          /\ Four(z, t) => Len(t) = 4
          /\ Five(z, t) => Len(t) = 5
      BY DEF One, Four, Five
    <3> QED
      BY <3>1, <3>2, <3>3
  <2>3. \/ One(x, p) /\ One(y, s)
        \/ Two(x, p) /\ Two(y, s)
        \/ Three(x, p) /\ Three(y, s)
        \/ Four(x, p) /\ Four(y, s)
        \/ Five(x, p) /\ Five(y, s)
    <3>1. Len(p) = Len(s)
      BY <1>20
    <3>2. /\ One(x, p) => Len(p) = 1
          /\ Two(x, p) => Len(p) = 2
          /\ Three(x, p) => Len(p) = 3
          /\ Four(x, p) => Len(p) = 4
          /\ Five(x, p) => Len(p) = 5
      BY <2>1, Zenon
    <3>3. /\ One(y, s) => Len(s) = 1
          /\ Two(y, s) => Len(s) = 2
          /\ Three(y, s) => Len(s) = 3
          /\ Four(y, s) => Len(s) = 4
          /\ Five(y, s) => Len(s) = 5
      BY <2>1, Zenon
    <3>4. CASE One(x, p)
      <4>1. Len(s) = 1
        BY <3>1, <3>2, <3>4
      <4>2. One(y, s)
        BY <1>5, <3>3, <4>1
      <4> QED
        BY <3>4, <4>2, Zenon
    <3>5. CASE Two(x, p)
      <4>1. Len(s) = 2
        BY <3>1, <3>2, <3>5
      <4>2. Two(y, s)
        BY <1>5, <3>3, <4>1
      <4> QED
        BY <3>5, <4>2, Zenon
    <3>6. CASE Three(x, p)
      <4>1. Len(s) = 3
        BY <3>1, <3>2, <3>6
      <4>2. Three(y, s)
        BY <1>5, <3>3, <4>1
      <4> QED
        BY <3>6, <4>2, Zenon
    <3>7. CASE Four(x, p)
      <4>1. Len(s) = 4
        BY <3>1, <3>2, <3>7
      <4>2. Four(y, s)
        BY <1>5, <3>3, <4>1
      <4> QED
        BY <3>7, <4>2, Zenon
    <3>8. CASE Five(x, p)
      <4>1. Len(s) = 5
        BY <3>1, <3>2, <3>8
      <4>2. Five(y, s)
        BY <1>5, <3>3, <4>1
      <4> QED
        BY <3>8, <4>2, Zenon
    <3> QED
      BY <1>5, <3>4, <3>5, <3>6, <3>7, <3>8, Zenon
  <2> QED
    BY <1>9, <1>10, <1>11, <1>12, <1>13, <2>3 DEF p, s
<1> QED
  BY <1>17, <1>18, <1>19, <1>20 DEF p, s

-----------------------------------------------------------------------------
(* Sections                                                                *)

\* What is left of a fingerprint, hash by hash.
LEMMA FromIsShift ==
    ASSUME NEW S, NEW h \in Seq(S), NEW k \in Nat
    PROVE  /\ From(h, k) \in Seq(S)
           /\ Len(From(h, k)) = IF k <= Len(h) THEN Len(h) - k ELSE 0
           /\ \A i \in 1..Len(From(h, k)) : From(h, k)[i] = h[k + i]
<1> DEFINE t == SubSeq(h, k + 1, Len(h))
<1>1. PICK n \in Nat : n = Len(h) /\ \A i \in 1..n : h[i] \in S
  OBVIOUS
<1>2. \A i \in (k + 1)..n : h[i] \in S
  BY <1>1
<1>3. /\ SubSeq(h, k + 1, n) \in Seq(S)
      /\ Len(SubSeq(h, k + 1, n)) = IF k + 1 <= n THEN n - (k + 1) + 1 ELSE 0
      /\ \A i \in 1..(n - (k + 1) + 1) : SubSeq(h, k + 1, n)[i] = h[(k + 1) + i - 1]
  <2>1. k + 1 \in Int /\ n \in Int
    OBVIOUS
  <2> QED
    BY <1>2, <2>1, SubSeqProperties
<1>4. From(h, k) = SubSeq(h, k + 1, n)
  BY <1>1 DEF From
<1> QED
  BY <1>1, <1>3, <1>4

\* The places and bits that differ, finitely many.
Differing(a, b, from, to) ==
    {p \in ((from + 1)..to) \X (1..Width) : p[2] \in SymDiff(a[p[1]], b[p[1]])}

\* The different bits are finitely many.
LEMMA DifferencesAreFinite ==
    ASSUME NEW a, NEW b, NEW from \in Nat, NEW to \in Nat,
           \A i \in (from + 1)..to : a[i] \in SUBSET (1..Width) /\ b[i] \in SUBSET (1..Width)
    PROVE  /\ IsFiniteSet(Differing(a, b, from, to))
           /\ BitErrors(a, b, from, to) = Cardinality(Differing(a, b, from, to))
<1> DEFINE D == UNION {{i} \X SymDiff(a[i], b[i]) : i \in (from + 1)..to}
           E == {p \in ((from + 1)..to) \X (1..Width) : p[2] \in SymDiff(a[p[1]], b[p[1]])}
<1>1. \A i \in (from + 1)..to : SymDiff(a[i], b[i]) \subseteq 1..Width
  BY DEF SymDiff
<1>2. D = E
  <2>1. ASSUME NEW p \in D PROVE p \in E
    <3>1. PICK i \in (from + 1)..to : p \in {i} \X SymDiff(a[i], b[i])
      OBVIOUS
    <3>2. PICK x \in SymDiff(a[i], b[i]) : p = <<i, x>>
      BY <3>1
    <3> QED
      BY <1>1, <3>1, <3>2
  <2>2. ASSUME NEW p \in E PROVE p \in D
    <3>1. PICK i \in (from + 1)..to, x \in 1..Width : p = <<i, x>> /\ x \in SymDiff(a[i], b[i])
      OBVIOUS
    <3>2. p \in {i} \X SymDiff(a[i], b[i])
      BY <3>1
    <3> QED
      BY <3>2
  <2> QED
    BY <2>1, <2>2
<1>3. IsFiniteSet(((from + 1)..to) \X (1..Width))
  <2>1. IsFiniteSet((from + 1)..to) /\ IsFiniteSet(1..Width)
    BY MatchingAssumption, FS_Interval
  <2> QED
    BY <2>1, FS_Product
<1>4. IsFiniteSet(E)
  <2>1. E \in SUBSET (((from + 1)..to) \X (1..Width))
    OBVIOUS
  <2> HIDE DEF E
  <2> QED
    BY <1>3, <2>1, FS_Subset
<1> QED
  BY <1>2, <1>4, Zenon DEF BitErrors, Differing

\* The first n hashes of m are those of a from the one after k.
Moved(a, m, k, n) ==
    /\ \A i \in 1..n : m[i] = a[k + i]
    /\ \A i \in (k + 1)..(k + n) : a[i] \in SUBSET (1..Width)

\* Hashes that are moved have the same differences.
LEMMA BitErrorsMove ==
    ASSUME NEW a, NEW b, NEW m, NEW q, NEW k \in Nat, NEW n \in Nat,
           Moved(a, m, k, n), Moved(b, q, k, n)
    PROVE  BitErrors(m, q, 0, n) = BitErrors(a, b, k, k + n)
<1>0. /\ \A i \in 1..n : m[i] = a[k + i] /\ q[i] = b[k + i]
      /\ \A i \in (k + 1)..(k + n) : a[i] \in SUBSET (1..Width) /\ b[i] \in SUBSET (1..Width)
  BY DEF Moved
<1> DEFINE D == Differing(m, q, 0, n)
           E == Differing(a, b, k, k + n)
           f == [p \in D |-> <<k + p[1], p[2]>>]
<1>1. IsFiniteSet(D) /\ BitErrors(m, q, 0, n) = Cardinality(D)
  <2>1. ASSUME NEW i \in (0 + 1)..n PROVE m[i] \in SUBSET (1..Width) /\ q[i] \in SUBSET (1..Width)
    <3>1. k + i \in (k + 1)..(k + n) /\ i \in 1..n
      OBVIOUS
    <3> QED
      BY <1>0, <3>1
  <2>2. 0 \in Nat
    OBVIOUS
  <2>3. \A i \in (0 + 1)..n : m[i] \in SUBSET (1..Width) /\ q[i] \in SUBSET (1..Width)
    BY <2>1
  <2> QED
    BY <2>2, <2>3, DifferencesAreFinite, Zenon
<1>2. IsFiniteSet(E) /\ BitErrors(a, b, k, k + n) = Cardinality(E)
  <2>1. k + n \in Nat
    OBVIOUS
  <2> QED
    BY <1>0, <2>1, DifferencesAreFinite
<1>3. \A p \in D : \E i \in 1..n, x \in 1..Width :
         p = <<i, x>> /\ x \in SymDiff(m[i], q[i]) /\ <<k + i, x>> \in E
  <2> SUFFICES ASSUME NEW p \in D
               PROVE  \E i \in 1..n, x \in 1..Width :
                        p = <<i, x>> /\ x \in SymDiff(m[i], q[i]) /\ <<k + i, x>> \in E
    OBVIOUS
  <2>1. PICK i \in 1..n, x \in 1..Width : p = <<i, x>> /\ x \in SymDiff(m[i], q[i])
    BY DEF Differing
  <2>2. k + i \in (k + 1)..(k + n) /\ m[i] = a[k + i] /\ q[i] = b[k + i]
    BY <1>0
  <2>3. <<k + i, x>> \in E
    BY <2>1, <2>2 DEF Differing
  <2> QED
    BY <2>1, <2>3
<1>4. \A p \in E : \E i \in 1..n, x \in 1..Width : p = <<k + i, x>> /\ <<i, x>> \in D
  <2> SUFFICES ASSUME NEW p \in E
               PROVE  \E i \in 1..n, x \in 1..Width : p = <<k + i, x>> /\ <<i, x>> \in D
    OBVIOUS
  <2>1. PICK j \in (k + 1)..(k + n), x \in 1..Width : p = <<j, x>> /\ x \in SymDiff(a[j], b[j])
    BY DEF Differing
  <2>2. PICK i \in 1..n : j = k + i
    BY <2>1
  <2>3. m[i] = a[j] /\ q[i] = b[j]
    BY <1>0, <2>2
  <2>4. <<i, x>> \in D
    BY <2>1, <2>2, <2>3 DEF Differing
  <2> QED
    BY <2>1, <2>2, <2>4
<1> HIDE DEF D, E
<1>5. f \in [D -> E]
  <2>1. ASSUME NEW p \in D PROVE <<k + p[1], p[2]>> \in E
    <3>1. PICK i \in 1..n, x \in 1..Width : p = <<i, x>> /\ <<k + i, x>> \in E
      BY <1>3
    <3> QED
      BY <3>1
  <2> QED
    BY <2>1, Zenon
<1>6. \A p, r \in D : f[p] = f[r] => p = r
  <2> SUFFICES ASSUME NEW p \in D, NEW r \in D, f[p] = f[r] PROVE p = r
    OBVIOUS
  <2>1. PICK i \in 1..n, x \in 1..Width :
           p = <<i, x>> /\ x \in SymDiff(m[i], q[i]) /\ <<k + i, x>> \in E
    BY <1>3
  <2>2. PICK j \in 1..n, y \in 1..Width :
           r = <<j, y>> /\ y \in SymDiff(m[j], q[j]) /\ <<k + j, y>> \in E
    BY <1>3
  <2>3. <<k + i, x>> = <<k + j, y>>
    BY <2>1, <2>2
  <2> QED
    BY <2>1, <2>2, <2>3
<1>7. \A p \in E : \E r \in D : f[r] = p
  <2> SUFFICES ASSUME NEW p \in E PROVE \E r \in D : f[r] = p
    OBVIOUS
  <2>1. PICK i \in 1..n, x \in 1..Width : p = <<k + i, x>> /\ <<i, x>> \in D
    BY <1>4
  <2>2. f[<<i, x>>] = p
    BY <2>1
  <2> QED
    BY <2>1, <2>2
<1> HIDE DEF f
<1>8. f \in Bijection(D, E)
  BY <1>5, <1>6, <1>7, Fun_IsBij
<1>9. ExistsBijection(D, E)
  BY <1>8 DEF ExistsBijection
<1> QED
  BY <1>1, <1>2, <1>9, FS_Bijection

\* The overlap has the length of the shorter one.
LEMMA OverlapIs ==
    ASSUME NEW S, NEW a \in Seq(S), NEW b \in Seq(S)
    PROVE  /\ Overlap(a, b) \in Nat /\ Overlap(a, b) <= Len(a) /\ Overlap(a, b) <= Len(b)
           /\ Overlap(a, b) = Len(a) \/ Overlap(a, b) = Len(b)
<1>1. Len(a) \in Nat /\ Len(b) \in Nat
  OBVIOUS
<1>2. {Len(a), Len(b)} \in SUBSET Nat
  BY <1>1
<1> QED
  BY <1>1, <1>2, MinIsLeast DEF Overlap

\* The two sides of a comparison.
LEMMA SidesAreParts ==
    ASSUME NEW S, NEW master \in Seq(S), NEW query \in Seq(S), NEW offset \in Int
    PROVE  LET a == MasterAt(master, offset)
               b == QueryAt(query, offset)
           IN  /\ a \in Seq(S) /\ b \in Seq(S)
               /\ Overlap(a, b) <= Overlap(master, query)
<1> DEFINE a == MasterAt(master, offset)
           b == QueryAt(query, offset)
<1>1. PICK k \in Nat, l \in Nat : a = From(master, k) /\ b = From(query, l)
  <2>1. (IF offset < 0 THEN 0 ELSE offset) \in Nat /\ (IF offset < 0 THEN -offset ELSE 0) \in Nat
    OBVIOUS
  <2> QED
    BY <2>1 DEF MasterAt, QueryAt
<1>2. /\ a \in Seq(S) /\ b \in Seq(S)
      /\ Len(a) <= Len(master) /\ Len(b) <= Len(query)
  <2>1. Len(master) \in Nat /\ Len(query) \in Nat
    OBVIOUS
  <2> QED
    BY <1>1, <2>1, FromIsShift
<1> HIDE DEF a, b
<1>3. Len(master) \in Nat /\ Len(query) \in Nat /\ Len(a) \in Nat /\ Len(b) \in Nat
  BY <1>2
<1>4. Overlap(a, b) <= Overlap(master, query)
  <2>1. /\ Overlap(a, b) \in Nat /\ Overlap(a, b) <= Len(a) /\ Overlap(a, b) <= Len(b)
    BY <1>2, OverlapIs
  <2>2. /\ Overlap(master, query) \in Nat
        /\ Overlap(master, query) = Len(master) \/ Overlap(master, query) = Len(query)
    BY OverlapIs
  <2> QED
    BY <1>2, <1>3, <2>1, <2>2
<1> QED
  BY <1>2, <1>4 DEF a, b

\* The sections of one comparison lie in the overlap, one after the other.
Fitting(sections, a, b, offset) ==
    /\ \A s \in sections :
          /\ s.offset = offset
          /\ s.start \in Nat /\ s.end \in Nat /\ s.start < s.end /\ s.end <= Overlap(a, b)
          /\ BitErrors(a, b, s.start, s.end) < MaxScore * (s.end - s.start)
    /\ \A s, t \in sections : (s.start < t.start => s.end <= t.start) /\ (s.start = t.start => s = t)

\* The sections matchAlignedFingerprints returns lie one after the other within
\* the overlap, and the two agree there.
LEMMA SectionsFit ==
    ASSUME NEW S, NEW master \in Seq(S), NEW query \in Seq(S), NEW offset \in Int,
           NEW sections \in matchAlignedFingerprints(master, query, offset)
    PROVE  Fitting(sections, MasterAt(master, offset), QueryAt(query, offset), offset)
<1> DEFINE a == MasterAt(master, offset)
           b == QueryAt(query, offset)
<1>1. PICK n \in Nat : n = Overlap(a, b)
  BY SidesAreParts, OverlapIs
<1>2. PICK edges \in SUBSET (1..(n - 2)) : sections = Sections(master, query, offset, edges)
  BY <1>1 DEF matchAlignedFingerprints
<1> DEFINE all == edges \cup {0, n}
           next(e) == Min({f \in all : f > e})
<1>3. sections = {s \in {[offset |-> offset, start |-> e, end |-> next(e)] : e \in all \ {n}} :
                     BitErrors(a, b, s.start, s.end) < MaxScore * (s.end - s.start)}
  BY <1>1, <1>2 DEF Sections
<1>4. all \subseteq 0..n
  OBVIOUS
<1>5. ASSUME NEW e \in all \ {n}
      PROVE  /\ next(e) \in all /\ e \in Nat /\ next(e) \in Nat /\ e < next(e) /\ next(e) <= n
             /\ \A f \in all : e < f => next(e) <= f
  <2> DEFINE later == {f \in all : f > e}
  <2>0. \A f \in all : f \in Nat /\ f <= n
    BY <1>4
  <2>1. later \in SUBSET Nat /\ n \in later
    <3>1. n \in all /\ e \in all /\ e # n
      OBVIOUS
    <3> HIDE DEF all
    <3>2. n > e
      BY <2>0, <3>1
    <3> QED
      BY <2>0, <3>1, <3>2
  <2>2. Min(later) \in later /\ \A f \in later : Min(later) <= f
    BY <2>1, MinIsLeast
  <2>3. e \in Nat /\ next(e) = Min(later)
    BY <2>0
  <2>4. Min(later) \in all /\ Min(later) > e /\ \A f \in all : f > e => Min(later) <= f
    BY <2>2
  <2> HIDE DEF all, later, next
  <2>5. /\ next(e) \in all /\ e \in Nat /\ next(e) \in Nat /\ e < next(e) /\ next(e) <= n
    BY <2>0, <2>3, <2>4
  <2> QED
    BY <2>0, <2>3, <2>4, <2>5
<1> HIDE DEF all, next, a, b
<1>6. ASSUME NEW s \in sections
      PROVE  \E e \in all \ {n} : s = [offset |-> offset, start |-> e, end |-> next(e)]
  BY <1>3
<1>7. ASSUME NEW s \in sections
      PROVE  /\ s.offset = offset
             /\ s.start \in Nat /\ s.end \in Nat /\ s.start < s.end /\ s.end <= n
             /\ BitErrors(a, b, s.start, s.end) < MaxScore * (s.end - s.start)
  <2>1. PICK e \in all \ {n} : s = [offset |-> offset, start |-> e, end |-> next(e)]
    BY <1>6
  <2>2. BitErrors(a, b, s.start, s.end) < MaxScore * (s.end - s.start)
    BY <1>3, Zenon
  <2> QED
    BY <1>5, <2>1, <2>2
<1>8. ASSUME NEW s \in sections, NEW t \in sections
      PROVE  (s.start < t.start => s.end <= t.start) /\ (s.start = t.start => s = t)
  <2>1. PICK e \in all \ {n} : s = [offset |-> offset, start |-> e, end |-> next(e)]
    BY <1>6
  <2>2. PICK f \in all \ {n} : t = [offset |-> offset, start |-> f, end |-> next(f)]
    BY <1>6
  <2> QED
    BY <1>5, <2>1, <2>2
<1> QED
  BY <1>1, <1>7, <1>8 DEF Fitting, a, b

\* Together the sections are no longer than the overlap.
LEMMA SectionsAreApart ==
    ASSUME NEW sections, NEW a, NEW b, NEW offset, Fitting(sections, a, b, offset), Overlap(a, b) \in Nat
    PROVE  /\ Cardinality(UNION {{s} \X ((s.start + 1)..s.end) : s \in sections}) \in Nat
           /\ Cardinality(UNION {{s} \X ((s.start + 1)..s.end) : s \in sections}) <= Overlap(a, b)
<1> DEFINE n == Overlap(a, b)
           U == UNION {{s} \X ((s.start + 1)..s.end) : s \in sections}
           f == [p \in U |-> p[2]]
<1>1. \A s \in sections : s.start \in Nat /\ s.end \in Nat /\ s.start < s.end /\ s.end <= n
  BY DEF Fitting
<1>2. \A s, t \in sections : (s.start < t.start => s.end <= t.start) /\ (s.start = t.start => s = t)
  BY DEF Fitting
<1> HIDE DEF n
<1>3. ASSUME NEW p \in U
      PROVE  \E s \in sections : \E i \in (s.start + 1)..s.end : p = <<s, i>>
  <2>1. PICK s \in sections : p \in {s} \X ((s.start + 1)..s.end)
    OBVIOUS
  <2> QED
    BY <2>1
<1> HIDE DEF U
<1>4. f \in [U -> 1..n]
  <2>1. ASSUME NEW p \in U PROVE p[2] \in 1..n
    <3>1. PICK s \in sections : \E i \in (s.start + 1)..s.end : p = <<s, i>>
      BY <1>3
    <3>2. PICK i \in (s.start + 1)..s.end : p = <<s, i>>
      BY <3>1
    <3>3. i \in 1..n
      BY <1>1, n \in Nat DEF n
    <3> QED
      BY <3>2, <3>3
  <2> QED
    BY <2>1, Zenon
<1>5. \A p, r \in U : f[p] = f[r] => p = r
  <2> SUFFICES ASSUME NEW p \in U, NEW r \in U, f[p] = f[r] PROVE p = r
    OBVIOUS
  <2>1. PICK s \in sections : \E i \in (s.start + 1)..s.end : p = <<s, i>>
    BY <1>3
  <2>2. PICK i \in (s.start + 1)..s.end : p = <<s, i>>
    BY <2>1
  <2>3. PICK t \in sections : \E j \in (t.start + 1)..t.end : r = <<t, j>>
    BY <1>3
  <2>4. PICK j \in (t.start + 1)..t.end : r = <<t, j>>
    BY <2>3
  <2>5. i = j
    BY <2>2, <2>4
  <2>6. s.start = t.start
    BY <1>1, <1>2, <2>5
  <2> QED
    BY <1>2, <2>2, <2>4, <2>5, <2>6
<1> HIDE DEF f
<1>6. f \in Injection(U, 1..n)
  BY <1>4, <1>5 DEF Injection, IsInjective
<1>7. IsFiniteSet(1..n) /\ Cardinality(1..n) = n
  BY FS_Interval DEF n
<1>8. IsFiniteSet(U) /\ Cardinality(U) <= n
  BY <1>6, <1>7, FS_Injection
<1>9. Cardinality(U) \in Nat
  BY <1>8, FS_CardinalityType
<1> QED
  BY <1>8, <1>9 DEF U, n

\* The section that begins first.
LEMMA FirstIsFirst ==
    ASSUME NEW sections, NEW result, result.sections = sections, sections # {},
           \A s \in sections : s.start \in Nat
    PROVE  First(result) \in sections
<1>1. PICK n \in {s.start : s \in sections} : \A m \in {s.start : s \in sections} : n <= m
  BY Least
<1>2. \E s \in sections : \A t \in sections : s.start <= t.start
  BY <1>1
<1> QED
  BY <1>2 DEF First

\* What Match says of the first section is so.
LEMMA MatchIsThere ==
    ASSUME NEW master \in Seq(SUBSET (1..Width)), NEW query \in Seq(SUBSET (1..Width)),
           NEW offset \in Int, NEW sections \in matchAlignedFingerprints(master, query, offset),
           NEW result, result = MatchResult(master, query, sections), sections # {}
    PROVE  LET m == From(master, MasterOffset(result))
               q == From(query, QueryOffset(result))
               s == First(result)
               length == s.end - s.start
           IN  /\ length <= Overlap(m, q)
               /\ BitErrors(m, q, 0, length) < MaxScore * length
               /\ MatchingLength(result) <= Overlap(master, query)
<1> DEFINE S == SUBSET (1..Width)
           a == MasterAt(master, offset)
           b == QueryAt(query, offset)
           s == First(result)
           m == From(master, MasterOffset(result))
           q == From(query, QueryOffset(result))
<1>1. Fitting(sections, a, b, offset)
  BY SectionsFit
<1>2. a \in Seq(S) /\ b \in Seq(S) /\ Overlap(a, b) <= Overlap(master, query)
  BY SidesAreParts
<1>3. /\ Overlap(a, b) \in Nat /\ Overlap(a, b) <= Len(a) /\ Overlap(a, b) <= Len(b)
      /\ Overlap(master, query) \in Nat
  <2>1. Overlap(a, b) \in Nat /\ Overlap(a, b) <= Len(a) /\ Overlap(a, b) <= Len(b)
    BY <1>2, OverlapIs
  <2>2. Overlap(master, query) \in Nat
    BY OverlapIs
  <2> QED
    BY <2>1, <2>2
<1>4. result.sections = sections
  BY DEF MatchResult
<1>5. s \in sections
  BY <1>1, <1>4, FirstIsFirst DEF Fitting
<1>6. /\ s.offset = offset
      /\ s.start \in Nat /\ s.end \in Nat /\ s.start < s.end /\ s.end <= Overlap(a, b)
      /\ BitErrors(a, b, s.start, s.end) < MaxScore * (s.end - s.start)
  BY <1>1, <1>5 DEF Fitting
<1> HIDE DEF s
<1>7. PICK k \in Nat, n \in Nat : k = s.start /\ n = s.end - s.start /\ s.end = k + n
  BY <1>6
<1>8. PICK x \in Nat, y \in Nat : /\ x = (IF offset < 0 THEN 0 ELSE offset)
                                  /\ y = (IF offset < 0 THEN -offset ELSE 0)
  <2>1. (IF offset < 0 THEN 0 ELSE offset) \in Nat /\ (IF offset < 0 THEN -offset ELSE 0) \in Nat
    OBVIOUS
  <2> QED
    BY <2>1
<1>9. a = From(master, x) /\ b = From(query, y)
  BY <1>8 DEF MasterAt, QueryAt
<1>10. MasterOffset(result) = x + k /\ QueryOffset(result) = y + k
  <2>1. MasterOffset(result) = IF offset > 0 THEN k + offset ELSE k
    BY <1>4, <1>6, <1>7 DEF MasterOffset, s
  <2>2. QueryOffset(result) = IF offset < 0 THEN k - offset ELSE k
    BY <1>4, <1>6, <1>7 DEF QueryOffset, s
  <2> QED
    BY <1>8, <2>1, <2>2
<1>11. m = From(master, x + k) /\ q = From(query, y + k)
  BY <1>10
<1> HIDE DEF a, b, m, q
<1>12. ASSUME NEW h \in Seq(S), NEW d \in Nat, k + n <= Len(From(h, d)), n > 0
       PROVE  /\ From(h, d + k) \in Seq(S) /\ n <= Len(From(h, d + k))
              /\ \A i \in 1..n : From(h, d + k)[i] = From(h, d)[k + i]
  <2> DEFINE part == From(h, d)
  <2>1. Len(h) \in Nat /\ d + k \in Nat
    OBVIOUS
  <2>2. Len(part) = (IF d <= Len(h) THEN Len(h) - d ELSE 0) /\ \A i \in 1..Len(part) : part[i] = h[d + i]
    BY FromIsShift
  <2>6. k + n <= Len(part) /\ n > 0
    BY <1>12
  <2> HIDE DEF part
  <2>3. /\ From(h, d + k) \in Seq(S)
        /\ Len(From(h, d + k)) = IF d + k <= Len(h) THEN Len(h) - (d + k) ELSE 0
        /\ \A i \in 1..Len(From(h, d + k)) : From(h, d + k)[i] = h[(d + k) + i]
    BY <2>1, FromIsShift
  <2>4. d + k <= Len(h) /\ Len(From(h, d + k)) = Len(h) - (d + k) /\ n <= Len(h) - (d + k)
    BY <2>6, <2>1, <2>2, <2>3
  <2>5. ASSUME NEW i \in 1..n PROVE From(h, d + k)[i] = part[k + i]
    <3>1. From(h, d + k)[i] = h[(d + k) + i]
      BY <2>1, <2>3, <2>4
    <3>2. part[k + i] = h[d + (k + i)]
      <4>1. k + i \in 1..Len(part)
        BY <2>6, <2>1, <2>2
      <4> QED
        BY <2>2, <4>1
    <3>3. (d + k) + i = d + (k + i)
      OBVIOUS
    <3> QED
      BY <3>1, <3>2, <3>3
  <2> QED
    BY <2>1, <2>3, <2>4, <2>5 DEF part
<1>13. Len(a) \in Nat /\ Len(b) \in Nat /\ n > 0 /\ k + n <= Len(a) /\ k + n <= Len(b)
  <2>1. Len(a) \in Nat /\ Len(b) \in Nat
    BY <1>2
  <2>2. n > 0 /\ k + n <= Overlap(a, b)
    BY <1>3, <1>6, <1>7
  <2> QED
    BY <1>3, <2>1, <2>2
<1>14. m \in Seq(S) /\ n <= Len(m) /\ \A i \in 1..n : m[i] = a[k + i]
  <2>1. k + n <= Len(From(master, x))
    BY <1>9, <1>13
  <2>2. /\ From(master, x + k) \in Seq(S) /\ n <= Len(From(master, x + k))
        /\ \A i \in 1..n : From(master, x + k)[i] = From(master, x)[k + i]
    BY <1>12, <1>13, <2>1
  <2> QED
    BY <1>9, <1>11, <2>2
<1>15. q \in Seq(S) /\ n <= Len(q) /\ \A i \in 1..n : q[i] = b[k + i]
  <2>1. k + n <= Len(From(query, y))
    BY <1>9, <1>13
  <2>2. /\ From(query, y + k) \in Seq(S) /\ n <= Len(From(query, y + k))
        /\ \A i \in 1..n : From(query, y + k)[i] = From(query, y)[k + i]
    BY <1>12, <1>13, <2>1
  <2> QED
    BY <1>9, <1>11, <2>2
<1>16. n <= Overlap(m, q)
  <2>1. Overlap(m, q) = Len(m) \/ Overlap(m, q) = Len(q)
    BY <1>14, <1>15, OverlapIs
  <2> QED
    BY <1>14, <1>15, <2>1
<1>17. BitErrors(m, q, 0, n) = BitErrors(a, b, k, k + n)
  <2>1. \A i \in (k + 1)..(k + n) : a[i] \in SUBSET (1..Width) /\ b[i] \in SUBSET (1..Width)
    <3> SUFFICES ASSUME NEW i \in (k + 1)..(k + n) PROVE a[i] \in S /\ b[i] \in S
      OBVIOUS
    <3>1. i \in 1..Len(a) /\ i \in 1..Len(b)
      BY <1>13
    <3> HIDE DEF S
    <3> QED
      BY <1>2, <3>1, ElementOfSeq
  <2>2. Moved(a, m, k, n) /\ Moved(b, q, k, n)
    BY <1>14, <1>15, <2>1, Zenon DEF Moved
  <2> QED
    BY <2>2, BitErrorsMove
<1>18. MatchingLength(result) \in Nat /\ MatchingLength(result) <= Overlap(a, b)
  BY <1>1, <1>3, <1>4, SectionsAreApart DEF MatchingLength
<1>19. MatchingLength(result) <= Overlap(master, query)
  BY <1>2, <1>3, <1>18
<1> QED
  BY <1>6, <1>7, <1>16, <1>17, <1>19 DEF m, q, s

-----------------------------------------------------------------------------
(* Excerpts                                                                *)

\* The query is the part of the master from the hash after the k-th, and the
\* hashes of the master can be told apart.
Excerpt(master, query, k) ==
    /\ master \in Seq(SUBSET (1..Width)) /\ query \in Seq(SUBSET (1..Width))
    /\ k \in 0..MaxOffset /\ 5 <= Len(query) /\ k + Len(query) <= Len(master)
    /\ \A i \in 1..Len(query) : query[i] = master[k + i]
    /\ \A i, j \in 1..Len(master) : Aligned(master[i]) = Aligned(master[j]) => i = j

\* An excerpt is no longer than what it was taken from.
LEMMA ExcerptLengths ==
    ASSUME NEW master, NEW query, NEW k, Excerpt(master, query, k)
    PROVE  /\ k \in Nat /\ Len(query) \in Nat /\ Len(master) \in Nat
           /\ 5 <= Len(query) /\ k + Len(query) <= Len(master)
<1>1. /\ master \in Seq(SUBSET (1..Width)) /\ query \in Seq(SUBSET (1..Width))
      /\ k \in 0..MaxOffset /\ 5 <= Len(query) /\ k + Len(query) <= Len(master)
  BY Zenon DEF Excerpt
<1> QED
  BY <1>1

\* All pairs of an excerpt are as far apart as it is from the start.
LEMMA PairsOfExcerpt ==
    ASSUME NEW master, NEW query, NEW k, Excerpt(master, query, k), NEW offset \in Int
    PROVE  PairsAt(master, query, offset) = IF offset = k THEN Len(query) ELSE 0
<1> DEFINE P == {i \in 1..Len(query) :
                    /\ i + offset \in 1..Len(master)
                    /\ Aligned(master[i + offset]) = Aligned(query[i])}
<1>1. /\ k \in Nat /\ Len(query) \in Nat /\ Len(master) \in Nat
      /\ k \in 0..MaxOffset /\ k + Len(query) <= Len(master)
      /\ \A i \in 1..Len(query) : query[i] = master[k + i]
      /\ \A i, j \in 1..Len(master) : Aligned(master[i]) = Aligned(master[j]) => i = j
  BY ExcerptLengths, Zenon DEF Excerpt
<1>2. CASE offset = k
  <2>1. P = 1..Len(query)
    <3>1. ASSUME NEW i \in 1..Len(query)
          PROVE  i + offset \in 1..Len(master) /\ master[i + offset] = query[i]
      <4>1. i + offset \in 1..Len(master) /\ i + offset = k + i
        BY <1>1, <1>2
      <4> QED
        BY <1>1, <4>1
    <3>2. \A i \in 1..Len(query) : i + offset \in 1..Len(master) /\ Aligned(master[i + offset]) = Aligned(query[i])
      BY <3>1, Zenon
    <3> QED
      BY <3>2, Zenon
  <2>2. Cardinality(P) = Len(query)
    <3>1. Cardinality(1..Len(query)) = Len(query)
      BY <1>1, IntervalFromOne
    <3> QED
      BY <2>1, <3>1
  <2>3. MaxOffset = 0 \/ offset \in -MaxOffset..MaxOffset
    BY <1>1, <1>2, MatchingAssumption
  <2> QED
    BY <1>2, <2>2, <2>3 DEF PairsAt
<1>3. CASE offset # k
  <2>1. P = {}
    <3> SUFFICES ASSUME NEW i \in P PROVE FALSE
      OBVIOUS
    <3>1. i \in 1..Len(query) /\ i + offset \in 1..Len(master) /\ Aligned(master[i + offset]) = Aligned(query[i])
      OBVIOUS
    <3>2. query[i] = master[k + i] /\ k + i \in 1..Len(master)
      BY <1>1, <3>1
    <3>3. Aligned(master[i + offset]) = Aligned(master[k + i])
      BY <3>1, <3>2
    <3>4. i + offset = k + i
      BY <1>1, <3>1, <3>2, <3>3
    <3> QED
      BY <1>1, <1>3, <3>1, <3>4
  <2>2. Cardinality(P) = 0
    BY <2>1, FS_EmptySet
  <2> QED
    BY <1>3, <2>2 DEF PairsAt
<1> QED
  BY <1>2, <1>3

\* One count that is not zero is smoothed to a peak with two lower neighbours.
LEMMA OnePeak ==
    ASSUME NEW n \in Nat, NEW p \in 1..(n - 2), NEW c, NEW v \in Nat,
           \A i \in 0..(n - 1) : c[i] = IF i = p THEN v ELSE 0
    PROVE  \A i \in 0..(n - 1) : GaussianFilter(c, n)[i] =
               IF i = p THEN 4 * v ELSE IF i = p - 1 \/ i = p + 1 THEN 3 * v ELSE 0
<1> SUFFICES ASSUME NEW i \in 0..(n - 1)
             PROVE  GaussianFilter(c, n)[i] =
                      IF i = p THEN 4 * v ELSE IF i = p - 1 \/ i = p + 1 THEN 3 * v ELSE 0
  OBVIOUS
<1>1. PICK l \in 0..(n - 1), r \in 0..(n - 1) :
        /\ l = Reflect(i - 1, n) /\ r = Reflect(i + 1, n)
        /\ l = p <=> i = p + 1
        /\ r = p <=> i = p - 1
  <2>1. /\ Reflect(i - 1, n) \in 0..(n - 1) /\ Reflect(i + 1, n) \in 0..(n - 1)
        /\ Reflect(i - 1, n) = p <=> i = p + 1
        /\ Reflect(i + 1, n) = p <=> i = p - 1
    BY DEF Reflect
  <2> QED
    BY <2>1
<1>2. GaussianFilter(c, n)[i] = 3 * c[l] + 4 * c[i] + 3 * c[r]
  BY <1>1 DEF GaussianFilter
<1>3. /\ c[l] = (IF i = p + 1 THEN v ELSE 0)
      /\ c[i] = (IF i = p THEN v ELSE 0)
      /\ c[r] = (IF i = p - 1 THEN v ELSE 0)
  BY <1>1
<1>4. CASE i = p
  <2>1. c[l] = 0 /\ c[i] = v /\ c[r] = 0
    BY <1>3, <1>4
  <2> QED
    BY <1>2, <1>4, <2>1
<1>5. CASE i = p - 1
  <2>1. c[l] = 0 /\ c[i] = 0 /\ c[r] = v
    BY <1>3, <1>5
  <2> QED
    BY <1>2, <1>5, <2>1
<1>6. CASE i = p + 1
  <2>1. c[l] = v /\ c[i] = 0 /\ c[r] = 0
    BY <1>3, <1>6
  <2> QED
    BY <1>2, <1>6, <2>1
<1>7. CASE i \notin {p - 1, p, p + 1}
  <2>1. c[l] = 0 /\ c[i] = 0 /\ c[r] = 0
    BY <1>3, <1>7
  <2> QED
    BY <1>2, <1>7, <2>1
<1> QED
  BY <1>4, <1>5, <1>6, <1>7

\* So that an excerpt is aligned in one way.
LEMMA HitOfExcerpt ==
    ASSUME NEW master, NEW query, NEW k, Excerpt(master, query, k)
    PROVE  AlignFingerprints(master, query) = {[offset |-> k, count |-> 4 * Len(query)]}
<1>1. PICK L \in Nat, M \in Nat :
        L = Len(query) /\ M = Len(master) /\ k \in Nat /\ 5 <= L /\ k + L <= M
  BY ExcerptLengths
<1>2. PICK n \in Nat, p \in Nat : n = M + L + 1 /\ p = k + L
  BY <1>1
<1> DEFINE counts == [i \in 0..(n - 1) |-> PairsAt(master, query, i - L)]
           smoothed == GaussianFilter(counts, n)
           at(i) == IF i \in 0..(n - 1) THEN smoothed[i] ELSE 0
           peaks == {i \in 0..(n - 1) :
                        /\ smoothed[i] >= 20
                        /\ \A j \in 0..(n - 1) : 10 * smoothed[i] >= smoothed[j]
                        /\ at(i - 1) <= smoothed[i] /\ at(i + 1) < smoothed[i]}
<1>3. OffsetHits(master, query) = {[offset |-> i - L, count |-> smoothed[i]] : i \in peaks}
  BY <1>1, <1>2 DEF OffsetHits
<1>4. p \in 1..(n - 2) /\ p - 1 \in 0..(n - 1) /\ p + 1 \in 0..(n - 1) /\ p \in 0..(n - 1)
  BY <1>1, <1>2
<1>5. \A i \in 0..(n - 1) : counts[i] = IF i = p THEN L ELSE 0
  <2>1. ASSUME NEW i \in 0..(n - 1) PROVE PairsAt(master, query, i - L) = IF i = p THEN L ELSE 0
    <3>1. i - L \in Int /\ (i - L = k <=> i = p)
      BY <1>1, <1>2
    <3> QED
      BY <1>1, <3>1, PairsOfExcerpt
  <2> QED
    BY <2>1, Zenon
<1> HIDE DEF counts
<1>6. \A i \in 0..(n - 1) : smoothed[i] =
        IF i = p THEN 4 * L ELSE IF i = p - 1 \/ i = p + 1 THEN 3 * L ELSE 0
  BY <1>4, <1>5, OnePeak
<1> HIDE DEF smoothed
<1>7. /\ at(p) = 4 * L /\ at(p - 1) = 3 * L /\ at(p + 1) = 3 * L
      /\ smoothed[p] = 4 * L /\ smoothed[p - 1] = 3 * L /\ smoothed[p + 1] = 3 * L
  BY <1>4, <1>6
<1>8. p \in peaks
  <2>1. ASSUME NEW j \in 0..(n - 1) PROVE 10 * smoothed[p] >= smoothed[j]
    <3>1. smoothed[j] = 4 * L \/ smoothed[j] = 3 * L \/ smoothed[j] = 0
      BY <1>6
    <3> QED
      BY <1>1, <1>7, <3>1
  <2>2. smoothed[p] >= 20 /\ at(p - 1) <= smoothed[p] /\ at(p + 1) < smoothed[p]
    BY <1>1, <1>7
  <2> QED
    BY <1>4, <2>1, <2>2
<1>9. ASSUME NEW i \in peaks PROVE i = p
  <2>1. i \in 0..(n - 1) /\ smoothed[i] >= 20 /\ at(i - 1) <= smoothed[i] /\ at(i + 1) < smoothed[i]
    OBVIOUS
  <2> HIDE DEF at, peaks
  <2>2. CASE i = p - 1
    <3>1. i + 1 = p
      BY <1>2, <2>2
    <3>2. at(p) < smoothed[p - 1]
      BY <2>1, <2>2, <3>1
    <3> QED
      BY <1>1, <1>7, <3>2
  <2>3. CASE i = p + 1
    <3>1. i - 1 = p
      BY <1>2, <2>3
    <3>2. at(p) <= smoothed[p + 1]
      BY <2>1, <2>3, <3>1
    <3> QED
      BY <1>1, <1>7, <3>2
  <2>4. CASE i # p /\ i # p - 1 /\ i # p + 1
    <3>1. smoothed[i] = 0
      BY <1>6, <2>1, <2>4
    <3> QED
      BY <2>1, <3>1
  <2> QED
    BY <2>2, <2>3, <2>4
<1> HIDE DEF peaks
<1>10. peaks = {p}
  BY <1>8, <1>9
<1>11. OffsetHits(master, query) = {[offset |-> p - L, count |-> smoothed[p]]}
  BY <1>3, <1>10
<1>12. OffsetHits(master, query) = {[offset |-> k, count |-> 4 * Len(query)]}
  BY <1>1, <1>2, <1>7, <1>11
<1> DEFINE hit == [offset |-> k, count |-> 4 * Len(query)]
<1>13. hit.count \in Nat
  BY <1>1
<1> HIDE DEF hit
<1>14. AlignFingerprints(master, query) = {h \in {hit} : \A g \in {hit} : g.count <= h.count}
  BY <1>12 DEF AlignFingerprints, hit
<1>15. hit.count <= hit.count
  BY <1>13
<1>16. AlignFingerprints(master, query) = {hit}
  BY <1>14, <1>15, Zenon
<1> QED
  BY <1>16 DEF hit

\* A fingerprint has at most as many different hashes as hashes.
LEMMA UniqueAreFew ==
    ASSUME NEW S, NEW h \in Seq(S)
    PROVE  countUniqueHashes(h) \in Nat /\ countUniqueHashes(h) <= Len(h)
<1> DEFINE U == {h[i] \cap hashBitMask(16) : i \in DOMAIN h}
           f == [i \in DOMAIN h |-> h[i] \cap hashBitMask(16)]
<1>1. PICK n \in Nat : n = Len(h) /\ DOMAIN h = 1..n
  OBVIOUS
<1>2. IsFiniteSet(1..n) /\ Cardinality(1..n) = n
  BY IntervalFromOne
<1>3. f \in Surjection(DOMAIN h, U)
  BY Fun_IsSurj, Zenon
<1> HIDE DEF f
<1>4. f \in Surjection(1..n, U)
  BY <1>1, <1>3
<1>5. IsFiniteSet(U) /\ Cardinality(U) <= n
  <2> HIDE DEF U
  <2> QED
    BY <1>2, <1>4, FS_Surjection
<1>6. Cardinality(U) \in Nat
  <2> HIDE DEF U
  <2> QED
    BY <1>5, FS_CardinalityType
<1> QED
  BY <1>1, <1>5, <1>6 DEF countUniqueHashes

\* No bit of an excerpt differs, and it is long enough for what the master
\* goes on with.
LEMMA ScoreOfExcerpt ==
    ASSUME NEW master, NEW query, NEW k, Excerpt(master, query, k), NEW hit,
           hit = [offset |-> k, count |-> 4 * Len(query)],
           countUniqueHashes(From(master, k)) <= 20 * Len(query)
    PROVE  LET score == CompareAlignedFingerprints(master, query, hit) IN score.num = score.den
<1> DEFINE S == SUBSET (1..Width)
           a == MasterAt(master, k)
           b == QueryAt(query, k)
           unique == Max({countUniqueHashes(a), countUniqueHashes(b)})
<1>1. PICK L \in Nat, M \in Nat :
        /\ L = Len(query) /\ M = Len(master) /\ k \in Nat /\ 5 <= L /\ k + L <= M
        /\ master \in Seq(S) /\ query \in Seq(S)
        /\ \A i \in 1..L : query[i] = master[k + i]
  BY ExcerptLengths, Zenon DEF Excerpt
<1>2. hit.offset = k /\ hit.count = 4 * L
  BY <1>1
<1>3. a = From(master, k) /\ b = From(query, 0)
  BY <1>1 DEF MasterAt, QueryAt
<1>4. /\ a \in Seq(S) /\ Len(a) = M - k
      /\ \A i \in 1..Len(a) : a[i] = master[k + i]
  <2>1. From(master, k) \in Seq(S)
    BY <1>1, FromIsShift
  <2>2. Len(From(master, k)) = M - k
    <3>1. Len(From(master, k)) = IF k <= Len(master) THEN Len(master) - k ELSE 0
      BY <1>1, FromIsShift
    <3> QED
      BY <1>1, <3>1
  <2>3. \A i \in 1..Len(From(master, k)) : From(master, k)[i] = master[k + i]
    BY <1>1, FromIsShift
  <2> QED
    BY <1>3, <2>1, <2>2, <2>3
<1>5. /\ b \in Seq(S) /\ Len(b) = L
      /\ \A i \in 1..Len(b) : b[i] = query[0 + i]
  BY <1>1, <1>3, 0 \in Nat, FromIsShift
<1>6. countUniqueHashes(a) <= 20 * L
  BY <1>1, <1>3
<1> HIDE DEF a, b
<1>7. Overlap(a, b) = L
  <2>1. /\ Overlap(a, b) \in Nat /\ Overlap(a, b) <= Len(a) /\ Overlap(a, b) <= Len(b)
        /\ Overlap(a, b) = Len(a) \/ Overlap(a, b) = Len(b)
    BY <1>4, <1>5, OverlapIs
  <2> QED
    BY <1>1, <1>4, <1>5, <2>1
<1>8. Overlap(master, query) = L
  <2>1. /\ Overlap(master, query) \in Nat /\ Overlap(master, query) <= M /\ Overlap(master, query) <= L
        /\ Overlap(master, query) = M \/ Overlap(master, query) = L
    BY <1>1, OverlapIs
  <2> QED
    BY <1>1, <2>1
<1>9. unique \in Nat /\ unique <= 20 * L
  <2>1. PICK x \in Nat, y \in Nat : x = countUniqueHashes(a) /\ y = countUniqueHashes(b) /\ y <= L
    BY <1>4, <1>5, UniqueAreFew
  <2>2. Max({x, y}) \in {x, y}
    <3>1. x + y \in Nat /\ {x, y} \in SUBSET (0..(x + y)) /\ {x, y} # {}
      OBVIOUS
    <3> QED
      BY <3>1, MaxIsGreatest, Zenon
  <2>3. x <= 20 * L
    BY <1>6, <2>1
  <2>4. unique \in {x, y}
    BY <2>1, <2>2
  <2> QED
    BY <2>1, <2>3, <2>4
<1>10. BitErrors(a, b, 0, L) = 0
  <2>1. \A i \in 1..L : a[i] = b[i] /\ a[i] \in S
    <3> SUFFICES ASSUME NEW i \in 1..L PROVE a[i] = b[i] /\ a[i] \in S
      OBVIOUS
    <3>1. i \in 1..Len(a) /\ i \in 1..Len(b) /\ 0 + i = i
      BY <1>1, <1>4, <1>5
    <3>2. a[i] = master[k + i] /\ b[i] = query[i] /\ query[i] = master[k + i]
      BY <1>1, <1>4, <1>5, <3>1
    <3>3. a[i] \in S
      BY <1>4, <3>1
    <3> QED
      BY <3>2, <3>3
  <2>2. BitErrors(a, b, 0, L) = Cardinality(Differing(a, b, 0, L))
    <3>1. \A i \in (0 + 1)..L : a[i] \in SUBSET (1..Width) /\ b[i] \in SUBSET (1..Width)
      BY <2>1
    <3>2. 0 \in Nat
      OBVIOUS
    <3> QED
      BY <3>1, <3>2, DifferencesAreFinite, Zenon
  <2>3. Differing(a, b, 0, L) = {}
    BY <2>1 DEF Differing, SymDiff
  <2> QED
    BY <2>2, <2>3, FS_EmptySet
<1> HIDE DEF unique
<1>11. PICK score : score = CompareAlignedFingerprints(master, query, hit)
  OBVIOUS
<1>12. score = IF L = 0 \/ (4 * L) * 5 < unique THEN NoScore
               ELSE Score(L * Width - BitErrors(a, b, 0, L), L * Width, ~(Diverse(a) /\ Diverse(b)))
  BY <1>2, <1>7, <1>8, <1>11 DEF CompareAlignedFingerprints, a, b, unique
<1>13. ~(L = 0 \/ (4 * L) * 5 < unique)
  BY <1>1, <1>9
<1>14. score = Score(L * Width - 0, L * Width, ~(Diverse(a) /\ Diverse(b)))
  BY <1>10, <1>12, <1>13, Zenon
<1>15. score.num = L * Width - 0 /\ score.den = L * Width
  BY <1>14 DEF Score
<1>16. Width \in Nat
  BY MatchingAssumption
<1>17. L * Width \in Nat
  BY <1>16
<1>18. score.num = score.den
  BY <1>15, <1>17
<1> QED
  BY <1>11, <1>18

-----------------------------------------------------------------------------
(* Queries for the index                                                   *)

\* A function whose value at n is made of that at n - 1 is there.
Stepwise(f, N, x0, step) == f[0] = x0 /\ \A n \in 1..N : f[n] = step[<<f[n - 1], n>>]

\* There is such a function.
LEMMA StepsAreThere ==
    ASSUME NEW N \in Nat, NEW X, NEW x0 \in X, NEW step \in [X \X (1..N) -> X]
    PROVE  \E f \in [0..N -> X] : Stepwise(f, N, x0, step)
<1> DEFINE Steps(f, m) == f[0] = x0 /\ \A n \in 1..m : f[n] = step[<<f[n - 1], n>>]
           Bad == {m \in 0..N : ~(\E f \in [0..m -> X] : Steps(f, m))}
<1>1. Bad = {}
  <2> SUFFICES ASSUME Bad # {} PROVE FALSE
    OBVIOUS
  <2>1. PICK m \in Bad : \A l \in Bad : m <= l
    <3>1. Bad \in SUBSET Nat
      OBVIOUS
    <3> HIDE DEF Bad
    <3> QED
      BY <3>1, Least
  <2>2. CASE m = 0
    <3> DEFINE f == [i \in 0..0 |-> x0]
    <3>1. f \in [0..m -> X] /\ f[0] = x0 /\ 1..m = {}
      BY <2>2
    <3> HIDE DEF f
    <3>2. Steps(f, m)
      BY <3>1
    <3> QED
      BY <3>1, <3>2
  <2>3. CASE m # 0
    <3>1. PICK k \in 0..N : m = k + 1 /\ k \notin Bad
      <4>1. m - 1 \in 0..N /\ m = (m - 1) + 1 /\ m - 1 \notin Bad
        BY <2>1, <2>3
      <4> QED
        BY <4>1
    <3>2. PICK f \in [0..k -> X] : Steps(f, k)
      BY <3>1
    <3>3. f[k] \in X /\ m \in 1..N
      BY <3>1
    <3>4. step[<<f[k], m>>] \in X
      BY <3>3
    <3> DEFINE g == [i \in 0..m |-> IF i = m THEN step[<<f[k], m>>] ELSE f[i]]
    <3>5. \A i \in 0..m : i # m => i \in 0..k
      BY <3>1
    <3>6. g \in [0..m -> X]
      BY <3>4, <3>5
    <3>7. g[m] = step[<<f[k], m>>] /\ \A i \in 0..k : g[i] = f[i]
      BY <3>1
    <3> HIDE DEF g
    <3>8. Steps(g, m)
      <4>1. g[0] = x0
        BY <3>2, <3>7
      <4>2. ASSUME NEW n \in 1..m PROVE g[n] = step[<<g[n - 1], n>>]
        <5>1. CASE n = m
          <6>1. n - 1 = k /\ k \in 0..k
            BY <3>1, <5>1
          <6> QED
            BY <3>7, <5>1, <6>1
        <5>2. CASE n # m
          <6>1. n \in 1..k /\ n \in 0..k /\ n - 1 \in 0..k
            BY <3>1, <5>2
          <6>2. f[n] = step[<<f[n - 1], n>>]
            BY <3>2, <6>1
          <6> QED
            BY <3>7, <6>1, <6>2
        <5> QED
          BY <5>1, <5>2
      <4> QED
        BY <4>1, <4>2
    <3> QED
      BY <3>6, <3>8
  <2> QED
    BY <2>2, <2>3
<1>2. N \in 0..N
  OBVIOUS
<1> QED
  BY <1>1, <1>2 DEF Stepwise

\* The loop over the hashes: f[n] is the query after n of them, of which silent
\* ones and those up to start are left out.
Asking(f, N, masks, silent, start, size) ==
    /\ f[0] = <<>>
    /\ \A n \in 1..N :
          f[n] = IF n <= start THEN <<>>
                 ELSE IF Len(f[n - 1]) >= size \/ n \in silent \/ Contains(f[n - 1], masks[n])
                      THEN f[n - 1]
                      ELSE Append(f[n - 1], masks[n])

\* The hashes a query is made of, among the first n.
LoudOnes(masks, silent, start, n) ==
    {masks[i] : i \in {j \in (start + 1)..n : j \notin silent}}

\* A query has no hash twice and all there are, or it is full.
Asked(q, X, loud, size) ==
    /\ q \in Seq(X)
    /\ \A i, j \in 1..Len(q) : q[i] = q[j] => i = j
    /\ \A i \in 1..Len(q) : q[i] \in loud
    /\ Len(q) >= size \/ \A h \in loud : \E i \in 1..Len(q) : q[i] = h

\* What a loop has asked for after n hashes.
LEMMA AskingIsAsked ==
    ASSUME NEW N \in Nat, NEW X, NEW masks \in [1..N -> X], NEW silent, NEW start \in Nat,
           NEW size \in Nat, NEW f, Asking(f, N, masks, silent, start, size)
    PROVE  \A n \in 0..N : Asked(f[n], X, LoudOnes(masks, silent, start, n), size)
<1> DEFINE loud(n) == LoudOnes(masks, silent, start, n)
           Bad == {n \in 0..N : ~Asked(f[n], X, loud(n), size)}
<1>1. ASSUME NEW n \in 0..N, n <= start, f[n] = <<>> PROVE Asked(f[n], X, loud(n), size)
  <2>1. loud(n) = {}
    BY <1>1 DEF LoudOnes
  <2>2. f[n] \in Seq(X) /\ Len(f[n]) = 0
    BY <1>1
  <2> QED
    BY <2>1, <2>2 DEF Asked
<1>2. Asked(f[0], X, loud(0), size)
  BY <1>1 DEF Asking
<1>3. ASSUME NEW n \in 1..N, Asked(f[n - 1], X, loud(n - 1), size) PROVE Asked(f[n], X, loud(n), size)
  <2>1. CASE n <= start
    <3>1. f[n] = <<>> /\ n \in 0..N
      BY <2>1 DEF Asking
    <3> QED
      BY <1>1, <2>1, <3>1
  <2>2. CASE n > start
    <3>1. PICK q : q = f[n - 1]
      OBVIOUS
    <3>2. /\ q \in Seq(X)
          /\ \A i, j \in 1..Len(q) : q[i] = q[j] => i = j
          /\ \A i \in 1..Len(q) : q[i] \in loud(n - 1)
          /\ Len(q) >= size \/ \A h \in loud(n - 1) : \E i \in 1..Len(q) : q[i] = h
      BY <1>3, <3>1, Zenon DEF Asked
    <3>3. f[n] = IF Len(q) >= size \/ n \in silent \/ Contains(q, masks[n])
                 THEN q ELSE Append(q, masks[n])
      BY <2>2, <3>1 DEF Asking
    <3>4. loud(n) = IF n \in silent THEN loud(n - 1) ELSE loud(n - 1) \cup {masks[n]}
      <4>1. ASSUME NEW j PROVE j \in (start + 1)..n <=> j \in (start + 1)..(n - 1) \/ j = n
        BY <2>2
      <4> QED
        BY <4>1 DEF LoudOnes
    <3> HIDE DEF loud
    <3>5. CASE Len(q) >= size \/ n \in silent \/ Contains(q, masks[n])
      <4>1. f[n] = q
        BY <3>3, <3>5
      <4>2. \A i \in 1..Len(q) : q[i] \in loud(n)
        BY <3>2, <3>4
      <4>3. Len(q) >= size \/ \A h \in loud(n) : \E i \in 1..Len(q) : q[i] = h
        BY <3>2, <3>4, <3>5 DEF Contains
      <4> QED
        BY <3>2, <4>1, <4>2, <4>3, Zenon DEF Asked
    <3>6. CASE ~(Len(q) >= size \/ n \in silent \/ Contains(q, masks[n]))
      <4>1. PICK m \in X, l \in Nat : m = masks[n] /\ l = Len(q)
        BY <3>2
      <4>2. /\ Append(q, m) \in Seq(X) /\ Len(Append(q, m)) = l + 1
            /\ \A i \in 1..l : Append(q, m)[i] = q[i]
            /\ Append(q, m)[l + 1] = m
        BY <3>2, <4>1
      <4>3. PICK r : r = Append(q, m) /\ f[n] = r
        BY <3>3, <3>6, <4>1
      <4>4. \A i \in 1..l : q[i] # m
        BY <3>6, <4>1 DEF Contains
      <4>5. \A i \in 1..(l + 1) : i = l + 1 \/ i \in 1..l
        OBVIOUS
      <4>6. \A i, j \in 1..(l + 1) : r[i] = r[j] => i = j
        BY <3>2, <4>1, <4>2, <4>3, <4>4, <4>5
      <4>7. \A i \in 1..(l + 1) : r[i] \in loud(n)
        BY <3>2, <3>4, <3>6, <4>1, <4>2, <4>3, <4>5
      <4>8. \A h \in loud(n) : \E i \in 1..(l + 1) : r[i] = h
        <5> SUFFICES ASSUME NEW h \in loud(n) PROVE \E i \in 1..(l + 1) : r[i] = h
          OBVIOUS
        <5>1. CASE h = m
          <6>1. l + 1 \in 1..(l + 1)
            OBVIOUS
          <6> QED
            BY <4>2, <4>3, <5>1, <6>1
        <5>2. CASE h # m
          <6>1. h \in loud(n - 1)
            BY <3>4, <4>1, <5>2
          <6>2. PICK i \in 1..l : q[i] = h
            BY <3>2, <3>6, <4>1, <6>1
          <6>3. i \in 1..(l + 1) /\ r[i] = h
            BY <4>2, <4>3, <6>2
          <6> QED
            BY <6>3
        <5> QED
          BY <5>1, <5>2
      <4>9. r \in Seq(X) /\ Len(r) = l + 1
        BY <4>2, <4>3
      <4> QED
        BY <4>3, <4>6, <4>7, <4>8, <4>9, Zenon DEF Asked
    <3> QED
      BY <3>5, <3>6
  <2> QED
    BY <2>1, <2>2
<1> HIDE DEF loud
<1>4. Bad = {}
  <2> SUFFICES ASSUME Bad # {} PROVE FALSE
    OBVIOUS
  <2>1. PICK n \in Bad : \A l \in Bad : n <= l
    <3>1. Bad \in SUBSET Nat
      OBVIOUS
    <3> HIDE DEF Bad
    <3> QED
      BY <3>1, Least
  <2>2. n # 0
    BY <1>2, <2>1
  <2>3. n \in 1..N /\ n - 1 \in 0..N /\ n - 1 \notin Bad
    BY <2>1, <2>2
  <2> QED
    BY <1>3, <2>1, <2>3
<1> QED
  BY <1>4 DEF loud

\* A query of this kind has as many hashes as places, and is full or has all
\* hashes there are.
LEMMA AskedIsFull ==
    ASSUME NEW q, NEW X, NEW loud, NEW size \in Nat, Asked(q, X, loud, size), IsFiniteSet(loud)
    PROVE  /\ ToSet(q) \subseteq loud
           /\ Len(q) \in Nat /\ Cardinality(ToSet(q)) = Len(q)
           /\ Len(q) >= size \/ Len(q) = Cardinality(loud)
<1>1. q \in Seq(X) /\ Len(q) \in Nat /\ DOMAIN q = 1..Len(q)
  BY DEF Asked
<1>2. /\ \A i, j \in 1..Len(q) : q[i] = q[j] => i = j
      /\ \A i \in 1..Len(q) : q[i] \in loud
      /\ Len(q) >= size \/ \A h \in loud : \E i \in 1..Len(q) : q[i] = h
  BY Zenon DEF Asked
<1>3. ToSet(q) = {q[i] : i \in 1..Len(q)}
  BY <1>1 DEF ToSet
<1>4. ToSet(q) \subseteq loud
  BY <1>2, <1>3
<1>5. q \in Bijection(1..Len(q), ToSet(q))
  <2>1. q \in [1..Len(q) -> ToSet(q)]
    BY <1>1, <1>3
  <2>2. \A t \in ToSet(q) : \E i \in 1..Len(q) : q[i] = t
    BY <1>3
  <2> QED
    BY <1>2, <2>1, <2>2, Fun_IsBij
<1>6. IsFiniteSet(1..Len(q)) /\ Cardinality(1..Len(q)) = Len(q)
  BY <1>1, IntervalFromOne
<1>7. Cardinality(ToSet(q)) = Len(q)
  <2>1. ExistsBijection(1..Len(q), ToSet(q))
    BY <1>5 DEF ExistsBijection
  <2>2. IsFiniteSet(ToSet(q))
    BY <1>4, FS_Subset
  <2> QED
    BY <1>6, <2>1, <2>2, FS_Bijection
<1>8. Len(q) >= size \/ ToSet(q) = loud
  BY <1>2, <1>3, <1>4
<1> QED
  BY <1>1, <1>4, <1>7, <1>8

\* There are finitely many hashes.
LEMMA LoudAreFinite ==
    ASSUME NEW N \in Nat, NEW X, NEW masks \in [1..N -> X], NEW silent, NEW start \in Nat
    PROVE  /\ IsFiniteSet(LoudOnes(masks, silent, start, N))
           /\ Cardinality(LoudOnes(masks, silent, start, N)) \in Nat
<1> DEFINE R == {masks[i] : i \in 1..N}
<1>1. masks \in Surjection(1..N, R)
  <2>1. masks \in [1..N -> R]
    OBVIOUS
  <2>2. \A t \in R : \E i \in 1..N : masks[i] = t
    OBVIOUS
  <2> QED
    BY <2>1, <2>2, Fun_IsSurj
<1>2. IsFiniteSet(R)
  <2> HIDE DEF R
  <2> QED
    BY <1>1, IntervalFromOne, FS_Surjection
<1>3. LoudOnes(masks, silent, start, N) \subseteq R
  <2>1. \A j \in (start + 1)..N : j \in 1..N
    OBVIOUS
  <2> QED
    BY <2>1 DEF LoudOnes
<1> HIDE DEF R
<1>4. IsFiniteSet(LoudOnes(masks, silent, start, N))
  BY <1>2, <1>3, FS_Subset
<1> QED
  BY <1>4, FS_CardinalityType

\* The loop as the function that is defined by it.
Loop(f, N, masks, silent, start, size) ==
    [n \in 0..N |->
        IF n <= start THEN <<>>
        ELSE IF Len(f[n - 1]) >= size \/ n \in silent \/ Contains(f[n - 1], masks[n])
             THEN f[n - 1]
             ELSE Append(f[n - 1], masks[n])]

HasLoop(N, masks, silent, start, size) == \E f : f = Loop(f, N, masks, silent, start, size)

\* The function that the loop of a query defines exists.
LEMMA LoopIsThere ==
    ASSUME NEW N \in Nat, NEW S, NEW masks \in [1..N -> S], NEW silent, NEW start \in Nat, NEW size \in Nat
    PROVE  HasLoop(N, masks, silent, start, size)
<1> DEFINE add(q, n) == IF Len(q) >= size \/ n \in silent \/ Contains(q, masks[n])
                        THEN q ELSE Append(q, masks[n])
           X == Seq(S)
           step == [p \in X \X (1..N) |-> IF p[2] <= start THEN <<>> ELSE add(p[1], p[2])]
<1>1. <<>> \in X
  OBVIOUS
<1>2. step \in [X \X (1..N) -> X]
  <2>1. ASSUME NEW q \in X, NEW i \in 1..N PROVE add(q, i) \in X
    <3>1. Append(q, masks[i]) \in X
      BY AppendProperties
    <3> HIDE DEF X
    <3> QED
      BY <3>1
  <2> HIDE DEF X, add
  <2>2. ASSUME NEW p \in X \X (1..N) PROVE (IF p[2] <= start THEN <<>> ELSE add(p[1], p[2])) \in X
    <3>1. p[1] \in X /\ p[2] \in 1..N
      OBVIOUS
    <3> QED
      BY <1>1, <2>1, <3>1
  <2> QED
    BY <2>2, Zenon
<1>3. PICK f \in [0..N -> X] : Stepwise(f, N, <<>>, step)
  <2> HIDE DEF X, step
  <2> QED
    BY <1>1, <1>2, StepsAreThere
<1>4. \A n \in 1..N : f[n] = IF n <= start THEN <<>> ELSE add(f[n - 1], n)
  <2> SUFFICES ASSUME NEW n \in 1..N
               PROVE  f[n] = IF n <= start THEN <<>> ELSE add(f[n - 1], n)
    OBVIOUS
  <2>1. n - 1 \in 0..N
    OBVIOUS
  <2>2. f[n - 1] \in X
    BY <2>1
  <2> HIDE DEF X, add
  <2>3. step[<<f[n - 1], n>>] = IF n <= start THEN <<>> ELSE add(f[n - 1], n)
    BY <2>2
  <2> QED
    BY <1>3, <2>3 DEF Stepwise
<1>5. ASSUME NEW n \in 0..N PROVE f[n] = IF n <= start THEN <<>> ELSE add(f[n - 1], n)
  <2> HIDE DEF X, add
  <2>1. CASE n = 0
    BY <1>3, <2>1 DEF Stepwise
  <2>2. CASE n # 0
    <3>1. n \in 1..N
      BY <2>2
    <3> QED
      BY <1>4, <3>1
  <2> QED
    BY <2>1, <2>2
<1> QED
  BY <1>5, Zenon DEF Loop, HasLoop

\* The function that is defined by the loop asks step by step.
LEMMA LoopAsks ==
    ASSUME NEW N \in Nat, NEW masks, NEW silent, NEW start \in Nat, NEW size, NEW f,
           f = Loop(f, N, masks, silent, start, size)
    PROVE  Asking(f, N, masks, silent, start, size)
<1>1. \A n \in 0..N :
         f[n] = IF n <= start THEN <<>>
                ELSE IF Len(f[n - 1]) >= size \/ n \in silent \/ Contains(f[n - 1], masks[n])
                     THEN f[n - 1]
                     ELSE Append(f[n - 1], masks[n])
  BY Zenon DEF Loop
<1>2. f[0] = <<>>
  BY <1>1
<1>3. \A n \in 1..N : n \in 0..N
  OBVIOUS
<1> QED
  BY <1>1, <1>2, <1>3, Zenon DEF Asking

Silent(hashes) == {i \in 1..Len(hashes) : hashes[i] = SilenceHash}

\* What the queries are made of.
MaskedHashes(hashes) == [i \in 1..Len(hashes) |-> Masked(hashes[i])]
HashMaskedHashes(hashes) == [i \in 1..Len(hashes) |-> HashMasked(hashes[i])]

\* The query of the store, of up to QuerySize hashes.
LEMMA LegacyQueryAsks ==
    ASSUME NEW hashes \in Seq(Nat), StartOf(hashes) \in Nat, cleanSize(hashes) # 0
    PROVE  \E f : /\ Asking(f, Len(hashes), MaskedHashes(hashes), Silent(hashes), StartOf(hashes), QuerySize)
                  /\ ExtractLegacyQuery(hashes) = f[Len(hashes)]
<1> DEFINE N == Len(hashes)
           add(q, hash) ==
               IF Len(q) >= QuerySize \/ hash = SilenceHash \/ Contains(q, Masked(hash))
               THEN q ELSE Append(q, Masked(hash))
           Own(f) == [n \in 0..N |-> IF n <= StartOf(hashes) THEN <<>> ELSE add(f[n - 1], hashes[n])]
           query == CHOOSE f : f = Own(f)
<1>1. N \in Nat /\ QuerySize \in Nat
  BY QueryAssumption
<1>2. ASSUME NEW f PROVE Own(f) = Loop(f, N, MaskedHashes(hashes), Silent(hashes), StartOf(hashes), QuerySize)
  <2>1. ASSUME NEW n \in 0..N
        PROVE  (IF n <= StartOf(hashes) THEN <<>> ELSE add(f[n - 1], hashes[n])) =
                   IF n <= StartOf(hashes) THEN <<>>
                   ELSE IF \/ Len(f[n - 1]) >= QuerySize \/ n \in Silent(hashes)
                           \/ Contains(f[n - 1], MaskedHashes(hashes)[n])
                        THEN f[n - 1] ELSE Append(f[n - 1], MaskedHashes(hashes)[n])
    <3>1. CASE n = 0
      BY <3>1
    <3>2. CASE n # 0
      <4>1. n \in 1..N
        BY <1>1, <3>2
      <4>2. MaskedHashes(hashes)[n] = Masked(hashes[n]) /\ (n \in Silent(hashes) <=> hashes[n] = SilenceHash)
        BY <4>1, Zenon DEF MaskedHashes, Silent
      <4> QED
        BY <4>2
    <3> QED
      BY <3>1, <3>2
  <2> HIDE DEF N, add
  <2> QED
    BY <2>1, Zenon DEF Loop
<1>3. PICK f : f = Loop(f, N, MaskedHashes(hashes), Silent(hashes), StartOf(hashes), QuerySize)
  <2>1. PICK masks : masks = MaskedHashes(hashes)
    OBVIOUS
  <2>2. masks \in [1..N -> {masks[i] : i \in 1..N}]
    BY <2>1, Zenon DEF MaskedHashes
  <2> HIDE DEF N
  <2>3. HasLoop(N, masks, Silent(hashes), StartOf(hashes), QuerySize)
    BY <1>1, <2>2, LoopIsThere
  <2> QED
    BY <2>1, <2>3, Zenon DEF HasLoop
<1>4. query = Own(query)
  <2>1. f = Own(f)
    BY <1>2, <1>3
  <2> HIDE DEF Own
  <2> QED
    BY <2>1, Zenon
<1>5. ExtractLegacyQuery(hashes) = query[N]
  BY Zenon DEF ExtractLegacyQuery
<1> HIDE DEF query, Own
<1>6. query = Loop(query, N, MaskedHashes(hashes), Silent(hashes), StartOf(hashes), QuerySize)
  BY <1>2, <1>4
<1>7. Asking(query, N, MaskedHashes(hashes), Silent(hashes), StartOf(hashes), QuerySize)
  <2> HIDE DEF N
  <2> QED
    BY <1>1, <1>6, LoopAsks
<1> QED
  BY <1>5, <1>7

\* The query of the web API, of one hash more.
LEMMA IndexQueryAsks ==
    ASSUME NEW hashes \in Seq(Nat), QueryFrom(hashes) \in Nat, cleanSize(hashes) # 0
    PROVE  \E f : /\ Asking(f, Len(hashes), HashMaskedHashes(hashes), Silent(hashes), QueryFrom(hashes), (QuerySize + 1))
                  /\ ExtractIndexQuery(hashes) = f[Len(hashes)]
<1> DEFINE N == Len(hashes)
           add(q, hash) ==
               IF Len(q) >= QuerySize + 1 \/ hash = SilenceHash \/ Contains(q, HashMasked(hash))
               THEN q ELSE Append(q, HashMasked(hash))
           Own(f) == [n \in 0..N |-> IF n <= QueryFrom(hashes) THEN <<>> ELSE add(f[n - 1], hashes[n])]
           query == CHOOSE f : f = Own(f)
<1>1. N \in Nat /\ (QuerySize + 1) \in Nat
  BY QueryAssumption
<1>2. ASSUME NEW f PROVE Own(f) = Loop(f, N, HashMaskedHashes(hashes), Silent(hashes), QueryFrom(hashes), (QuerySize + 1))
  <2>1. ASSUME NEW n \in 0..N
        PROVE  (IF n <= QueryFrom(hashes) THEN <<>> ELSE add(f[n - 1], hashes[n])) =
                   IF n <= QueryFrom(hashes) THEN <<>>
                   ELSE IF \/ Len(f[n - 1]) >= (QuerySize + 1) \/ n \in Silent(hashes)
                           \/ Contains(f[n - 1], HashMaskedHashes(hashes)[n])
                        THEN f[n - 1] ELSE Append(f[n - 1], HashMaskedHashes(hashes)[n])
    <3>1. CASE n = 0
      BY <3>1
    <3>2. CASE n # 0
      <4>1. n \in 1..N
        BY <1>1, <3>2
      <4>2. HashMaskedHashes(hashes)[n] = HashMasked(hashes[n]) /\ (n \in Silent(hashes) <=> hashes[n] = SilenceHash)
        BY <4>1, Zenon DEF HashMaskedHashes, Silent
      <4> QED
        BY <4>2
    <3> QED
      BY <3>1, <3>2
  <2> HIDE DEF N, add
  <2> QED
    BY <2>1, Zenon DEF Loop
<1>3. PICK f : f = Loop(f, N, HashMaskedHashes(hashes), Silent(hashes), QueryFrom(hashes), (QuerySize + 1))
  <2>1. PICK masks : masks = HashMaskedHashes(hashes)
    OBVIOUS
  <2>2. masks \in [1..N -> {masks[i] : i \in 1..N}]
    BY <2>1, Zenon DEF HashMaskedHashes
  <2> HIDE DEF N
  <2>3. HasLoop(N, masks, Silent(hashes), QueryFrom(hashes), (QuerySize + 1))
    BY <1>1, <2>2, LoopIsThere
  <2> QED
    BY <2>1, <2>3, Zenon DEF HasLoop
<1>4. query = Own(query)
  <2>1. f = Own(f)
    BY <1>2, <1>3
  <2> HIDE DEF Own
  <2> QED
    BY <2>1, Zenon
<1>5. ExtractIndexQuery(hashes) = query[N]
  BY Zenon DEF ExtractIndexQuery
<1> HIDE DEF query, Own
<1>6. query = Loop(query, N, HashMaskedHashes(hashes), Silent(hashes), QueryFrom(hashes), (QuerySize + 1))
  BY <1>2, <1>4
<1>7. Asking(query, N, HashMaskedHashes(hashes), Silent(hashes), QueryFrom(hashes), (QuerySize + 1))
  <2> HIDE DEF N
  <2> QED
    BY <1>1, <1>6, LoopAsks
<1> QED
  BY <1>5, <1>7

\* What a query has in the end.
FullQuery(q, loud) ==
    /\ ToSet(q) \subseteq loud
    /\ Cardinality(ToSet(q)) = Len(q)
    /\ Len(q) >= Min({QuerySize, Cardinality(loud)})

\* The loop makes a full query of the loud hashes.
LEMMA AskingFillsQuery ==
    ASSUME NEW N \in Nat, NEW X, NEW masks \in [1..N -> X], NEW silent, NEW start \in Nat,
           NEW size \in Nat, QuerySize <= size, NEW f, Asking(f, N, masks, silent, start, size)
    PROVE  FullQuery(f[N], LoudOnes(masks, silent, start, N))
<1> DEFINE loud == LoudOnes(masks, silent, start, N)
<1>1. IsFiniteSet(loud) /\ Cardinality(loud) \in Nat
  BY LoudAreFinite
<1>2. Asked(f[N], X, loud, size)
  <2>1. N \in 0..N
    OBVIOUS
  <2> QED
    BY <2>1, AskingIsAsked
<1> HIDE DEF loud
<1>3. PICK q : q = f[N]
  OBVIOUS
<1>4. /\ ToSet(q) \subseteq loud
      /\ Len(q) \in Nat /\ Cardinality(ToSet(q)) = Len(q)
      /\ Len(q) >= size \/ Len(q) = Cardinality(loud)
  BY <1>1, <1>2, <1>3, AskedIsFull
<1>5. Len(q) >= Min({QuerySize, Cardinality(loud)})
  <2>1. PICK c \in Nat : c = Cardinality(loud)
    BY <1>1
  <2>2. {QuerySize, c} \in SUBSET Nat
    BY QueryAssumption
  <2>3. Min({QuerySize, c}) \in {QuerySize, c} /\ Min({QuerySize, c}) <= QuerySize /\ Min({QuerySize, c}) <= c
    BY <2>2, MinIsLeast
  <2> QED
    BY <1>4, <2>1, <2>2, <2>3
<1> QED
  BY <1>3, <1>4, <1>5 DEF FullQuery, loud

\* Cutting hashes off takes no more from those that are not silent.
LEMMA CleanIsLeft ==
    ASSUME NEW hashes \in Seq(Nat), NEW from \in Nat
    PROVE  /\ cleanSize(hashes) \in Nat /\ cleanSize(hashes) <= Len(hashes)
           /\ cleanSize(From(hashes, from)) \in Nat
           /\ cleanSize(From(hashes, from)) >= cleanSize(hashes) - from
<1> DEFINE A == {i \in DOMAIN hashes : hashes[i] # SilenceHash}
           rest == From(hashes, from)
           B == {i \in DOMAIN rest : rest[i] # SilenceHash}
           A1 == {i \in A : i <= from}
           A2 == {i \in A : i > from}
           g == [i \in A2 |-> i - from]
<1>1. PICK n \in Nat, m \in Nat :
        /\ n = Len(hashes) /\ DOMAIN hashes = 1..n
        /\ m = Len(rest) /\ DOMAIN rest = 1..m
        /\ m = IF from <= n THEN n - from ELSE 0
        /\ \A i \in 1..m : rest[i] = hashes[from + i]
  <2>1. rest \in Seq(Nat)
    BY FromIsShift
  <2>2. /\ Len(rest) = IF from <= Len(hashes) THEN Len(hashes) - from ELSE 0
        /\ \A i \in 1..Len(rest) : rest[i] = hashes[from + i]
    BY FromIsShift
  <2> HIDE DEF rest
  <2> QED
    BY <2>1, <2>2
<1> HIDE DEF rest
<1>2. A \subseteq 1..n /\ B \subseteq 1..m
  BY <1>1
<1>3. IsFiniteSet(1..n) /\ Cardinality(1..n) = n /\ IsFiniteSet(1..m) /\ IsFiniteSet(1..from) /\ Cardinality(1..from) = from
  BY IntervalFromOne
<1>4. IsFiniteSet(A) /\ Cardinality(A) <= n /\ IsFiniteSet(B)
  <2> HIDE DEF A, B
  <2> QED
    BY <1>2, <1>3, FS_Subset
<1>5. A1 \subseteq 1..from /\ A1 \subseteq A /\ A2 \subseteq A /\ A = A1 \cup A2 /\ A1 \cap A2 = {}
  BY <1>2
<1>6. g \in Injection(A2, B)
  <2>1. ASSUME NEW i \in A2 PROVE i - from \in B
    <3>1. i \in 1..n /\ i > from /\ hashes[i] # SilenceHash
      BY <1>1
    <3>2. i - from \in 1..m /\ from + (i - from) = i
      BY <1>1, <3>1
    <3>3. rest[i - from] = hashes[i]
      BY <1>1, <3>2
    <3> QED
      BY <1>1, <3>1, <3>2, <3>3
  <2>2. \A i \in A2 : i \in Nat
    BY <1>2
  <2> HIDE DEF A2, B
  <2>3. g \in [A2 -> B]
    BY <2>1, Zenon
  <2>4. \A i, j \in A2 : g[i] = g[j] => i = j
    BY <2>2
  <2> QED
    BY <2>3, <2>4 DEF Injection, IsInjective
<1> HIDE DEF A, A1, A2, B, g
<1>7. /\ IsFiniteSet(A1) /\ Cardinality(A1) <= from
      /\ IsFiniteSet(A2) /\ Cardinality(A2) <= Cardinality(B)
  <2>1. IsFiniteSet(A1) /\ Cardinality(A1) <= Cardinality(1..from)
    BY <1>3, <1>5, FS_Subset
  <2>2. IsFiniteSet(A2) /\ Cardinality(A2) <= Cardinality(B)
    BY <1>4, <1>6, FS_Injection
  <2> QED
    BY <1>3, <2>1, <2>2
<1>8. /\ Cardinality(A) \in Nat /\ Cardinality(B) \in Nat
      /\ Cardinality(A1) \in Nat /\ Cardinality(A2) \in Nat
  BY <1>4, <1>7, FS_CardinalityType
<1>9. Cardinality(A) = Cardinality(A1) + Cardinality(A2)
  <2>1. Cardinality(A1 \cup A2) = Cardinality(A1) + Cardinality(A2) - Cardinality(A1 \cap A2)
    BY <1>7, FS_Union
  <2>2. Cardinality(A1 \cap A2) = 0
    BY <1>5, FS_EmptySet
  <2> QED
    BY <1>5, <1>8, <2>1, <2>2
<1>10. cleanSize(hashes) = Cardinality(A) /\ cleanSize(rest) = Cardinality(B)
  BY DEF cleanSize, A, B
<1>11. cleanSize(rest) >= cleanSize(hashes) - from
  BY <1>7, <1>8, <1>9, <1>10
<1> QED
  BY <1>1, <1>4, <1>8, <1>10, <1>11 DEF rest

\* Where a query begins: at the start, or where QuerySize hashes are left.
LEMMA StartLeavesEnough ==
    ASSUME NEW hashes \in Seq(Nat), NEW from \in {StartOf(hashes), QueryFrom(hashes)}
    PROVE  /\ from \in Nat
           /\ cleanSize(From(hashes, from)) >= Min({QuerySize, cleanSize(hashes)})
<1>1. PICK c \in Nat : c = cleanSize(hashes)
  BY 0 \in Nat, CleanIsLeft
<1>2. QuerySize \in Nat /\ QueryStart \in Nat
  BY QueryAssumption
<1>3. from \in Nat /\ (from = 0 \/ from <= c - QuerySize)
  <2>1. CASE from = StartOf(hashes)
    BY <1>1, <1>2, <2>1 DEF StartOf
  <2>2. CASE from = QueryFrom(hashes)
    BY <1>1, <1>2, <2>2 DEF QueryFrom
  <2> QED
    BY <2>1, <2>2
<1>4. PICK d \in Nat : d = cleanSize(From(hashes, from)) /\ d >= c - from
  BY <1>1, <1>3, CleanIsLeft
<1>5. {QuerySize, c} \in SUBSET Nat
  BY <1>2
<1>6. Min({QuerySize, c}) \in {QuerySize, c} /\ Min({QuerySize, c}) <= QuerySize /\ Min({QuerySize, c}) <= c
  BY <1>5, MinIsLeast
<1>7. d >= Min({QuerySize, c})
  BY <1>2, <1>3, <1>4, <1>6
<1> QED
  BY <1>1, <1>3, <1>4, <1>7

\* The hashes behind the start, as the property names them.
Behind(hashes, start) == {j \in DOMAIN From(hashes, start) : From(hashes, start)[j] # SilenceHash}

\* The hashes the property names are those the loops ask for.
LEMMA BehindIsLoud ==
    ASSUME NEW hashes \in Seq(Nat), NEW start \in Nat
    PROVE  /\ {Masked(From(hashes, start)[i]) : i \in Behind(hashes, start)} =
                  LoudOnes(MaskedHashes(hashes), Silent(hashes), start, Len(hashes))
           /\ {HashMasked(From(hashes, start)[i]) : i \in Behind(hashes, start)} =
                  LoudOnes(HashMaskedHashes(hashes), Silent(hashes), start, Len(hashes))
<1> DEFINE rest == From(hashes, start)
           loud == {j \in (start + 1)..Len(hashes) : j \notin Silent(hashes)}
<1>1. PICK n \in Nat, m \in Nat :
        /\ n = Len(hashes)
        /\ m = Len(rest) /\ DOMAIN rest = 1..m
        /\ m = IF start <= n THEN n - start ELSE 0
        /\ \A i \in 1..m : rest[i] = hashes[start + i]
  <2>1. rest \in Seq(Nat)
    BY FromIsShift
  <2>2. /\ Len(rest) = IF start <= Len(hashes) THEN Len(hashes) - start ELSE 0
        /\ \A i \in 1..Len(rest) : rest[i] = hashes[start + i]
    BY FromIsShift
  <2> HIDE DEF rest
  <2>3. Len(hashes) \in Nat /\ Len(rest) \in Nat /\ DOMAIN rest = 1..Len(rest)
    BY <2>1
  <2> QED
    BY <2>2, <2>3
<1> HIDE DEF rest
<1>2. ASSUME NEW i \in Behind(hashes, start) PROVE \E j \in loud : hashes[j] = rest[i]
  <2>1. i \in 1..m /\ rest[i] # SilenceHash
    BY <1>1, SMTT(30) DEF Behind, rest
  <2>2. start + i \in (start + 1)..n /\ start + i \in 1..n /\ rest[i] = hashes[start + i]
    <3>1. rest[i] = hashes[start + i]
      BY <1>1, <2>1, Zenon
    <3>2. m = IF start <= n THEN n - start ELSE 0
      BY <1>1, Zenon
    <3>3. start + i \in (start + 1)..n /\ start + i \in 1..n
      BY <2>1, <3>2
    <3> QED
      BY <3>1, <3>3
  <2>3. start + i \in loud
    BY <1>1, <2>1, <2>2 DEF Silent
  <2> QED
    BY <2>2, <2>3
<1>3. ASSUME NEW j \in loud PROVE \E i \in Behind(hashes, start) : rest[i] = hashes[j]
  <2>1. j \in (start + 1)..n /\ j \in 1..n /\ hashes[j] # SilenceHash
    BY <1>1 DEF Silent
  <2>2. j - start \in 1..m /\ start + (j - start) = j
    BY <1>1, <2>1
  <2>3. rest[j - start] = hashes[j]
    BY <1>1, <2>2
  <2>4. j - start \in Behind(hashes, start)
    BY <1>1, <2>1, <2>2, <2>3 DEF Behind, rest
  <2> QED
    BY <2>3, <2>4
<1>4. \A j \in loud : MaskedHashes(hashes)[j] = Masked(hashes[j]) /\ HashMaskedHashes(hashes)[j] = HashMasked(hashes[j])
  <2>1. \A j \in loud : j \in 1..Len(hashes)
    BY <1>1
  <2> HIDE DEF loud
  <2> QED
    BY <2>1, Zenon DEF MaskedHashes, HashMaskedHashes
<1>5. /\ LoudOnes(MaskedHashes(hashes), Silent(hashes), start, Len(hashes)) = {MaskedHashes(hashes)[j] : j \in loud}
      /\ LoudOnes(HashMaskedHashes(hashes), Silent(hashes), start, Len(hashes)) = {HashMaskedHashes(hashes)[j] : j \in loud}
  BY Zenon DEF LoudOnes
<1> HIDE DEF loud
<1>6. {Masked(rest[i]) : i \in Behind(hashes, start)} = {MaskedHashes(hashes)[j] : j \in loud}
  BY <1>2, <1>3, <1>4
<1>7. {HashMasked(rest[i]) : i \in Behind(hashes, start)} = {HashMaskedHashes(hashes)[j] : j \in loud}
  BY <1>2, <1>3, <1>4
<1> QED
  BY <1>5, <1>6, <1>7, Zenon DEF rest

\* Of silence there is no query.
LEMMA SilenceIsNotAsked ==
    ASSUME NEW hashes \in Seq(Nat), cleanSize(hashes) = 0, NEW masks, NEW start \in Nat
    PROVE  FullQuery(<<>>, LoudOnes(masks, Silent(hashes), start, Len(hashes)))
<1> DEFINE A == {i \in DOMAIN hashes : hashes[i] # SilenceHash}
<1>1. PICK n \in Nat : n = Len(hashes) /\ DOMAIN hashes = 1..n
  OBVIOUS
<1>2. A = {}
  <2>1. A \subseteq 1..n
    BY <1>1
  <2>2. Cardinality(A) = 0
    BY DEF cleanSize
  <2> HIDE DEF A
  <2>3. IsFiniteSet(A)
    BY <2>1, IntervalFromOne, FS_Subset
  <2> QED
    BY <2>2, <2>3, FS_EmptySet
<1>3. \A i \in 1..n : i \in Silent(hashes)
  BY <1>1, <1>2 DEF Silent
<1>4. LoudOnes(masks, Silent(hashes), start, Len(hashes)) = {}
  <2>1. \A i \in (start + 1)..n : i \in 1..n
    OBVIOUS
  <2> QED
    BY <1>1, <1>3, <2>1 DEF LoudOnes
<1>5. ToSet(<<>>) = {}
  BY DEF ToSet
<1>6. Cardinality({}) = 0
  BY FS_EmptySet
<1>7. {QuerySize, 0} \in SUBSET Nat
  BY QueryAssumption
<1>8. Min({QuerySize, 0}) <= 0
  BY <1>7, MinIsLeast
<1>9. Len(<<>>) = 0 /\ 0 >= Min({QuerySize, 0})
  BY <1>7, <1>8, MinIsLeast
<1> QED
  BY <1>4, <1>5, <1>6, <1>9, Zenon DEF FullQuery

\* Both queries are full.
LEMMA QueriesAreFull ==
    ASSUME NEW hashes \in Seq(Nat)
    PROVE  /\ FullQuery(ExtractLegacyQuery(hashes),
                        {Masked(From(hashes, StartOf(hashes))[i]) : i \in Behind(hashes, StartOf(hashes))})
           /\ FullQuery(ExtractIndexQuery(hashes),
                        {HashMasked(From(hashes, QueryFrom(hashes))[i]) : i \in Behind(hashes, QueryFrom(hashes))})
<1>1. StartOf(hashes) \in Nat /\ QueryFrom(hashes) \in Nat
  BY StartLeavesEnough
<1>2. Len(hashes) \in Nat /\ QuerySize \in Nat /\ QuerySize + 1 \in Nat /\ QuerySize <= QuerySize + 1
      /\ QuerySize <= QuerySize
  BY QueryAssumption
<1>3. PICK X, Y : /\ MaskedHashes(hashes) \in [1..Len(hashes) -> X]
                  /\ HashMaskedHashes(hashes) \in [1..Len(hashes) -> Y]
  <2>1. /\ MaskedHashes(hashes) \in [1..Len(hashes) -> {Masked(hashes[i]) : i \in 1..Len(hashes)}]
        /\ HashMaskedHashes(hashes) \in [1..Len(hashes) -> {HashMasked(hashes[i]) : i \in 1..Len(hashes)}]
    BY Zenon DEF MaskedHashes, HashMaskedHashes
  <2> QED
    BY <2>1
<1>4. FullQuery(ExtractLegacyQuery(hashes),
                LoudOnes(MaskedHashes(hashes), Silent(hashes), StartOf(hashes), Len(hashes)))
  <2>1. CASE cleanSize(hashes) = 0
    <3>1. ExtractLegacyQuery(hashes) = <<>>
      BY <2>1, Zenon DEF ExtractLegacyQuery
    <3> QED
      BY <1>1, <2>1, <3>1, SilenceIsNotAsked
  <2>2. CASE cleanSize(hashes) # 0
    <3>1. PICK f : /\ Asking(f, Len(hashes), MaskedHashes(hashes), Silent(hashes), StartOf(hashes), QuerySize)
                   /\ ExtractLegacyQuery(hashes) = f[Len(hashes)]
      BY <1>1, <2>2, LegacyQueryAsks, Zenon
    <3>2. FullQuery(f[Len(hashes)], LoudOnes(MaskedHashes(hashes), Silent(hashes), StartOf(hashes), Len(hashes)))
      BY <1>1, <1>2, <1>3, <3>1, AskingFillsQuery
    <3> QED
      BY <3>1, <3>2
  <2> QED
    BY <2>1, <2>2
<1>5. FullQuery(ExtractIndexQuery(hashes),
                LoudOnes(HashMaskedHashes(hashes), Silent(hashes), QueryFrom(hashes), Len(hashes)))
  <2>1. CASE cleanSize(hashes) = 0
    <3>1. ExtractIndexQuery(hashes) = <<>>
      BY <2>1, Zenon DEF ExtractIndexQuery
    <3> QED
      BY <1>1, <2>1, <3>1, SilenceIsNotAsked
  <2>2. CASE cleanSize(hashes) # 0
    <3>1. PICK f : /\ Asking(f, Len(hashes), HashMaskedHashes(hashes), Silent(hashes), QueryFrom(hashes), QuerySize + 1)
                   /\ ExtractIndexQuery(hashes) = f[Len(hashes)]
      BY <1>1, <2>2, IndexQueryAsks, Zenon
    <3>2. FullQuery(f[Len(hashes)], LoudOnes(HashMaskedHashes(hashes), Silent(hashes), QueryFrom(hashes), Len(hashes)))
      BY <1>1, <1>2, <1>3, <3>1, AskingFillsQuery
    <3> QED
      BY <3>1, <3>2
  <2> QED
    BY <2>1, <2>2
<1> QED
  BY <1>1, <1>4, <1>5, BehindIsLoud

-----------------------------------------------------------------------------
(* Packing                                                                 *)

\* The elements of a sequence.
LEMMA Elements ==
    ASSUME NEW S, NEW s \in Seq(S)
    PROVE  Len(s) \in Nat /\ DOMAIN s = 1..Len(s) /\ \A i \in 1..Len(s) : s[i] \in S
OBVIOUS

\* The powers of two that occur.
LEMMA TwoTos ==
    /\ TwoTo(0) = 1 /\ TwoTo(1) = 2 /\ TwoTo(2) = 4 /\ TwoTo(3) = 8
    /\ TwoTo(4) = 16 /\ TwoTo(5) = 32 /\ TwoTo(6) = 64 /\ TwoTo(7) = 128
BY DEF TwoTo

\* A byte, bit by bit.
LEMMA BitsAre ==
    ASSUME NEW v \in 0..255
    PROVE  /\ Bit(v, 0) = v % 2 /\ Bit(v, 1) = (v \div 2) % 2 /\ Bit(v, 2) = (v \div 4) % 2
           /\ Bit(v, 3) = (v \div 8) % 2 /\ Bit(v, 4) = (v \div 16) % 2 /\ Bit(v, 5) = (v \div 32) % 2
           /\ Bit(v, 6) = (v \div 64) % 2 /\ Bit(v, 7) = (v \div 128) % 2
BY TwoTos DEF Bit

\* A bit is 0 or 1.
LEMMA BitIsBit ==
    ASSUME NEW v \in 0..255, NEW k \in 0..7
    PROVE  Bit(v, k) \in {0, 1}
<1>1. k = 0 \/ k = 1 \/ k = 2 \/ k = 3 \/ k = 4 \/ k = 5 \/ k = 6 \/ k = 7
  OBVIOUS
<1> QED
  BY <1>1, BitsAre

\* A value that is narrow enough has no bits above its width.
LEMMA NarrowHasNoBit ==
    ASSUME NEW v \in 0..255, NEW w \in Widths, NEW k \in w..7, v < TwoTo(w)
    PROVE  Bit(v, k) = 0
<1>1. /\ k = 0 \/ k = 1 \/ k = 2 \/ k = 3 \/ k = 4 \/ k = 5 \/ k = 6 \/ k = 7
      /\ w = 1 \/ w = 2 \/ w = 3 \/ w = 4 \/ w = 5 \/ w = 6 \/ w = 7
  BY DEF Widths
<1>2. v < 128
  BY <1>1, TwoTos
<1>3. CASE k = 7
  BY <1>2, <1>3, BitsAre
<1>4. CASE k = 6
  <2>1. v < 64
    BY <1>1, <1>4, TwoTos
  <2> QED
    BY <1>4, <2>1, BitsAre
<1>5. CASE k = 5
  <2>1. v < 32
    BY <1>1, <1>5, TwoTos
  <2> QED
    BY <1>5, <2>1, BitsAre
<1>6. CASE k = 4
  <2>1. v < 16
    BY <1>1, <1>6, TwoTos
  <2> QED
    BY <1>6, <2>1, BitsAre
<1>7. CASE k = 3
  <2>1. v < 8
    BY <1>1, <1>7, TwoTos
  <2> QED
    BY <1>7, <2>1, BitsAre
<1>8. CASE k = 2
  <2>1. v < 4
    BY <1>1, <1>8, TwoTos
  <2> QED
    BY <1>8, <2>1, BitsAre
<1>9. CASE k = 1
  <2>1. v < 2
    BY <1>1, <1>9, TwoTos
  <2> QED
    BY <1>9, <2>1, BitsAre
<1>10. k # 0
  BY DEF Widths
<1> QED
  BY <1>1, <1>3, <1>4, <1>5, <1>6, <1>7, <1>8, <1>9, <1>10

\* What the bits below a width are worth.
LEMMA BitsMakeValue ==
    ASSUME NEW v \in 0..255
    PROVE  /\ v % 2 = Bit(v, 0)
           /\ v % 4 = Bit(v, 0) + 2 * Bit(v, 1)
           /\ v % 8 = Bit(v, 0) + 2 * Bit(v, 1) + 4 * Bit(v, 2)
           /\ v % 16 = Bit(v, 0) + 2 * Bit(v, 1) + 4 * Bit(v, 2) + 8 * Bit(v, 3)
           /\ v % 32 = Bit(v, 0) + 2 * Bit(v, 1) + 4 * Bit(v, 2) + 8 * Bit(v, 3) + 16 * Bit(v, 4)
           /\ v % 64 = Bit(v, 0) + 2 * Bit(v, 1) + 4 * Bit(v, 2) + 8 * Bit(v, 3) + 16 * Bit(v, 4)
                           + 32 * Bit(v, 5)
           /\ v % 128 = Bit(v, 0) + 2 * Bit(v, 1) + 4 * Bit(v, 2) + 8 * Bit(v, 3) + 16 * Bit(v, 4)
                            + 32 * Bit(v, 5) + 64 * Bit(v, 6)
<1>1. /\ Bit(v, 0) = v % 2 /\ Bit(v, 1) = (v \div 2) % 2 /\ Bit(v, 2) = (v \div 4) % 2
      /\ Bit(v, 3) = (v \div 8) % 2 /\ Bit(v, 4) = (v \div 16) % 2 /\ Bit(v, 5) = (v \div 32) % 2
      /\ Bit(v, 6) = (v \div 64) % 2
  BY BitsAre, SMTT(30)
<1>2. /\ v % 4 = (v % 2) + 2 * ((v \div 2) % 2)
      /\ v % 8 = (v % 4) + 4 * ((v \div 4) % 2)
      /\ v % 16 = (v % 8) + 8 * ((v \div 8) % 2)
      /\ v % 32 = (v % 16) + 16 * ((v \div 16) % 2)
      /\ v % 64 = (v % 32) + 32 * ((v \div 32) % 2)
      /\ v % 128 = (v % 64) + 64 * ((v \div 64) % 2)
  OBVIOUS
<1> QED
  BY <1>1, <1>2, ZenonT(30)

\* The groups of the widths.
LEMMA GroupsAre ==
    /\ GroupBytes(1) = 1 /\ GroupBytes(2) = 1 /\ GroupBytes(3) = 3 /\ GroupBytes(4) = 1
    /\ GroupBytes(5) = 5 /\ GroupBytes(6) = 3 /\ GroupBytes(7) = 7
    /\ GroupSize(1) = 8 /\ GroupSize(2) = 4 /\ GroupSize(3) = 8 /\ GroupSize(4) = 2
    /\ GroupSize(5) = 8 /\ GroupSize(6) = 4 /\ GroupSize(7) = 8
<1> DEFINE Whole(n, w) == (8 * n) % w = 0 /\ \A m \in 1..(n - 1) : (8 * m) % w # 0
<1>1. \A w : GroupBytes(w) = CHOOSE n \in 1..w : Whole(n, w)
  BY Zenon DEF GroupBytes
<1>2. ASSUME NEW w \in Widths, NEW n \in 1..w, Whole(n, w) PROVE GroupBytes(w) = n
  <2>1. ASSUME NEW m \in 1..w, Whole(m, w) PROVE m = n
    <3>1. (8 * m) % w = 0 /\ (8 * n) % w = 0
      BY <1>2, <2>1
    <3>2. CASE m < n
      <4>1. m \in 1..(n - 1)
        BY <3>2 DEF Widths
      <4> QED
        BY <1>2, <3>1, <4>1
    <3>3. CASE n < m
      <4>1. n \in 1..(m - 1)
        BY <3>3 DEF Widths
      <4> QED
        BY <2>1, <3>1, <4>1
    <3> QED
      BY <3>2, <3>3 DEF Widths
  <2> HIDE DEF Whole
  <2> QED
    BY <1>1, <1>2, <2>1
<1>3. Whole(1, 1) /\ Whole(1, 2) /\ Whole(3, 3) /\ Whole(1, 4) /\ Whole(5, 5) /\ Whole(3, 6) /\ Whole(7, 7)
  OBVIOUS
<1> HIDE DEF Whole
<1>4. /\ GroupBytes(1) = 1 /\ GroupBytes(2) = 1 /\ GroupBytes(3) = 3 /\ GroupBytes(4) = 1
      /\ GroupBytes(5) = 5 /\ GroupBytes(6) = 3 /\ GroupBytes(7) = 7
  BY <1>2, <1>3 DEF Widths
<1> QED
  BY <1>4 DEF GroupSize

\* A bit of a value is in the group of the value.
LEMMA BitInGroup ==
    ASSUME NEW w \in Widths, NEW i \in Nat \ {0}, NEW k \in 0..(w - 1)
    PROVE  (w * (i - 1) + k) \div (8 * GroupBytes(w)) = (i - 1) \div GroupSize(w)
<1>1. PICK j \in Nat : j = i - 1
  OBVIOUS
<1>2. \/ w = 1 /\ 8 * GroupBytes(w) = 8 /\ GroupSize(w) = 8
      \/ w = 2 /\ 8 * GroupBytes(w) = 8 /\ GroupSize(w) = 4
      \/ w = 3 /\ 8 * GroupBytes(w) = 24 /\ GroupSize(w) = 8
      \/ w = 4 /\ 8 * GroupBytes(w) = 8 /\ GroupSize(w) = 2
      \/ w = 5 /\ 8 * GroupBytes(w) = 40 /\ GroupSize(w) = 8
      \/ w = 6 /\ 8 * GroupBytes(w) = 24 /\ GroupSize(w) = 4
      \/ w = 7 /\ 8 * GroupBytes(w) = 56 /\ GroupSize(w) = 8
  BY GroupsAre DEF Widths
<1>3. ASSUME w = 1 PROVE (1 * j + k) \div 8 = j \div 8
  BY <1>3
<1>4. ASSUME w = 2 PROVE (2 * j + k) \div 8 = j \div 4
  BY <1>4
<1>5. ASSUME w = 3 PROVE (3 * j + k) \div 24 = j \div 8
  BY <1>5
<1>6. ASSUME w = 4 PROVE (4 * j + k) \div 8 = j \div 2
  BY <1>6
<1>7. ASSUME w = 5 PROVE (5 * j + k) \div 40 = j \div 8
  BY <1>7
<1>8. ASSUME w = 6 PROVE (6 * j + k) \div 24 = j \div 4
  BY <1>8
<1>9. ASSUME w = 7 PROVE (7 * j + k) \div 56 = j \div 8
  BY <1>9
<1> QED
  BY <1>1, <1>2, <1>3, <1>4, <1>5, <1>6, <1>7, <1>8, <1>9

\* A value before this one, in its group, is too wide.
Spoiled(w, values, i) ==
    \E j \in DOMAIN values :
        /\ j < i /\ (j - 1) \div GroupSize(w) = (i - 1) \div GroupSize(w)
        /\ values[j] >= TwoTo(w)

\* The bits of a value are where the packing puts them.
LEMMA ValueIsPacked ==
    ASSUME NEW w \in Widths, NEW values \in Seq(0..255), NEW i \in Nat \ {0}, NEW k \in 0..(w - 1),
           ~Spoiled(w, values, i)
    PROVE  PackedBit(w, values, w * (i - 1) + k) = IF i <= Len(values) THEN Bit(values[i], k) ELSE 0
<1>1. PICK l \in Nat : l = Len(values) /\ DOMAIN values = 1..l /\ \A j \in 1..l : values[j] \in 0..255
  <2>1. Len(values) \in Nat /\ DOMAIN values = 1..Len(values) /\ \A j \in 1..Len(values) : values[j] \in 0..255
    BY Elements, Zenon
  <2> QED
    BY <2>1
<1>0. TwoTo(w) \in Nat
  BY TwoTos DEF Widths
<1>2. PICK n \in Nat : n = w * (i - 1) + k
  BY DEF Widths
<1>3. n \div (8 * GroupBytes(w)) = (i - 1) \div GroupSize(w)
  BY <1>2, BitInGroup
<1>4. ASSUME NEW j \in DOMAIN values,
             (j - 1) \div GroupSize(w) = n \div (8 * GroupBytes(w)),
             n - w * (j - 1) \in 0..7, Bit(values[j], n - w * (j - 1)) = 1
      PROVE  i = j
  <2>1. j \in 1..l /\ values[j] \in 0..255
    BY <1>1
  <2>2. CASE j < i
    <3>1. n - w * (j - 1) \in w..7
      <4>1. w * (i - 1) - w * (j - 1) = w * (i - j)
        BY <2>1 DEF Widths
      <4>2. w * (i - j) >= w
        BY <2>1, <2>2 DEF Widths
      <4>3. PICK a \in Int, b \in Int, c \in Int :
               a = w * (i - 1) /\ b = w * (j - 1) /\ c = w * (i - j)
        BY <2>1 DEF Widths
      <4>4. n - b \in 0..7 /\ n = a + k /\ a - b = c /\ c >= w /\ w \in Nat
        BY <1>2, <1>4, <4>1, <4>2, <4>3 DEF Widths
      <4>5. n - b \in w..7
        BY <4>4
      <4> QED
        BY <4>3, <4>5
    <3>2. ~(values[j] >= TwoTo(w))
      BY <1>3, <1>4, <2>2 DEF Spoiled
    <3>3. values[j] < TwoTo(w)
      <4>1. PICK v \in 0..255, t \in Nat : v = values[j] /\ t = TwoTo(w)
        BY <1>0, <2>1
      <4>2. ~(v >= t)
        BY <3>2, <4>1
      <4>3. v < t
        BY <4>2
      <4> QED
        BY <4>1, <4>3
    <3>4. Bit(values[j], n - w * (j - 1)) = 0
      BY <2>1, <3>1, <3>3, NarrowHasNoBit
    <3> QED
      BY <1>4, <3>4
  <2>3. CASE i < j
    <3>1. w * (i - 1) - w * (j - 1) = w * (i - j)
      BY <2>1 DEF Widths
    <3>2. w * (i - j) <= -w
      BY <2>1, <2>3 DEF Widths
    <3>3. w * (i - 1) \in Int /\ w * (j - 1) \in Int /\ w * (i - j) \in Int /\ w \in Int
      BY <2>1 DEF Widths
    <3> QED
      BY <1>2, <1>4, <3>1, <3>2, <3>3, SMTT(30)
  <2> QED
    BY <2>1, <2>2, <2>3
<1>5. n - w * (i - 1) = k
  <2>1. w * (i - 1) \in Int
    BY DEF Widths
  <2> QED
    BY <1>2, <2>1
<1>6. PackedBit(w, values, n) =
         IF \E j \in DOMAIN values :
               /\ (j - 1) \div GroupSize(w) = n \div (8 * GroupBytes(w))
               /\ n - w * (j - 1) \in 0..7
               /\ Bit(values[j], n - w * (j - 1)) = 1
         THEN 1 ELSE 0
  BY Zenon DEF PackedBit
<1>7. CASE i <= l
  <2>1. i \in DOMAIN values /\ values[i] \in 0..255 /\ k \in 0..7
    BY <1>1, <1>7 DEF Widths
  <2>2. Bit(values[i], k) \in {0, 1}
    BY <2>1, BitIsBit
  <2>3. CASE Bit(values[i], k) = 1
    <3>1. PackedBit(w, values, n) = 1
      BY <1>3, <1>5, <1>6, <2>1, <2>3
    <3> QED
      BY <1>1, <1>2, <1>7, <2>3, <3>1
  <2>4. CASE Bit(values[i], k) = 0
    <3>1. PackedBit(w, values, n) = 0
      BY <1>4, <1>5, <1>6, <2>4
    <3> QED
      BY <1>1, <1>2, <1>7, <2>4, <3>1
  <2> QED
    BY <2>2, <2>3, <2>4
<1>8. CASE ~(i <= l)
  <2>1. i \notin DOMAIN values
    BY <1>1, <1>8
  <2>2. PackedBit(w, values, n) = 0
    BY <1>4, <1>6, <2>1
  <2> QED
    BY <1>1, <1>2, <1>8, <2>2
<1> QED
  BY <1>7, <1>8

\* Packed data is a whole number of bytes.
LEMMA PackedIsData ==
    ASSUME NEW w \in Widths, NEW values \in Seq(0..255)
    PROVE  /\ PackUint(w, values) \in Seq({0, 1})
           /\ Bytes(w * Len(values)) \in Nat
           /\ Len(PackUint(w, values)) = 8 * Bytes(w * Len(values))
           /\ \A n \in 1..Len(PackUint(w, values)) : PackUint(w, values)[n] = PackedBit(w, values, n - 1)
<1>1. PICK m \in Nat : m = 8 * Bytes(w * Len(values)) /\ Bytes(w * Len(values)) \in Nat
  <2>1. PICK x \in Nat : x = w * Len(values)
    BY DEF Widths
  <2>2. (x + 7) \div 8 \in Nat
    BY <2>1
  <2> QED
    BY <2>1, <2>2 DEF Bytes
<1>2. PackUint(w, values) = [n \in 1..m |-> PackedBit(w, values, n - 1)]
  BY <1>1, Zenon DEF PackUint
<1>3. \A n : PackedBit(w, values, n) \in {0, 1}
  BY DEF PackedBit
<1>4. PackUint(w, values) \in [1..m -> {0, 1}]
  BY <1>2, <1>3, Zenon
<1>5. PackUint(w, values) \in Seq({0, 1}) /\ Len(PackUint(w, values)) = m
  BY <1>4
<1> QED
  BY <1>1, <1>2, <1>5

\* Bits that are those of a value make the value, as far as its width goes.
ReadsAs(w, packed, i, v) ==
    \A k \in 0..(w - 1) : packed[w * (i - 1) + k + 1] = Bit(v, k)

\* A value that was read has these bits.
LEMMA ValueIsUnpacked ==
    ASSUME NEW w \in Widths, NEW packed, NEW i \in Nat \ {0}, NEW v \in 0..255, ReadsAs(w, packed, i, v)
    PROVE  UnpackedValue(w, packed, i) = v % TwoTo(w)
<1> DEFINE bit(k) == IF k < w THEN packed[w * (i - 1) + k + 1] ELSE 0
<1>1. UnpackedValue(w, packed, i) =
         bit(0) + 2 * bit(1) + 4 * bit(2) + 8 * bit(3) + 16 * bit(4) + 32 * bit(5) + 64 * bit(6)
  BY Zenon DEF UnpackedValue
<1>2. ASSUME NEW k \in 0..6 PROVE bit(k) = IF k < w THEN Bit(v, k) ELSE 0
  <2>1. CASE k < w
    <3>1. k \in 0..(w - 1)
      BY <2>1 DEF Widths
    <3> QED
      BY <2>1, <3>1, Zenon DEF ReadsAs
  <2>2. CASE ~(k < w)
    BY <2>2, Zenon
  <2> QED
    BY <2>1, <2>2
<1> HIDE DEF bit
<1>3. /\ bit(0) = (IF 0 < w THEN Bit(v, 0) ELSE 0) /\ bit(1) = (IF 1 < w THEN Bit(v, 1) ELSE 0)
      /\ bit(2) = (IF 2 < w THEN Bit(v, 2) ELSE 0) /\ bit(3) = (IF 3 < w THEN Bit(v, 3) ELSE 0)
      /\ bit(4) = (IF 4 < w THEN Bit(v, 4) ELSE 0) /\ bit(5) = (IF 5 < w THEN Bit(v, 5) ELSE 0)
      /\ bit(6) = (IF 6 < w THEN Bit(v, 6) ELSE 0)
  BY <1>2
<1>4. PICK b0 \in {0, 1}, b1 \in {0, 1}, b2 \in {0, 1}, b3 \in {0, 1}, b4 \in {0, 1}, b5 \in {0, 1}, b6 \in {0, 1} :
         /\ b0 = Bit(v, 0) /\ b1 = Bit(v, 1) /\ b2 = Bit(v, 2) /\ b3 = Bit(v, 3)
         /\ b4 = Bit(v, 4) /\ b5 = Bit(v, 5) /\ b6 = Bit(v, 6)
  BY BitIsBit
<1>5. /\ v % 2 = b0 /\ v % 4 = b0 + 2 * b1 /\ v % 8 = b0 + 2 * b1 + 4 * b2
      /\ v % 16 = b0 + 2 * b1 + 4 * b2 + 8 * b3
      /\ v % 32 = b0 + 2 * b1 + 4 * b2 + 8 * b3 + 16 * b4
      /\ v % 64 = b0 + 2 * b1 + 4 * b2 + 8 * b3 + 16 * b4 + 32 * b5
      /\ v % 128 = b0 + 2 * b1 + 4 * b2 + 8 * b3 + 16 * b4 + 32 * b5 + 64 * b6
  BY <1>4, BitsMakeValue
<1>6. w = 1 \/ w = 2 \/ w = 3 \/ w = 4 \/ w = 5 \/ w = 6 \/ w = 7
  BY DEF Widths
<1>7. PICK p0, p1, p2, p3, p4, p5, p6 :
         /\ p0 = bit(0) /\ p1 = bit(1) /\ p2 = bit(2) /\ p3 = bit(3) /\ p4 = bit(4) /\ p5 = bit(5) /\ p6 = bit(6)
  OBVIOUS
<1>8. /\ p0 = (IF 0 < w THEN b0 ELSE 0) /\ p1 = (IF 1 < w THEN b1 ELSE 0)
      /\ p2 = (IF 2 < w THEN b2 ELSE 0) /\ p3 = (IF 3 < w THEN b3 ELSE 0)
      /\ p4 = (IF 4 < w THEN b4 ELSE 0) /\ p5 = (IF 5 < w THEN b5 ELSE 0)
      /\ p6 = (IF 6 < w THEN b6 ELSE 0)
  BY <1>3, <1>4, <1>7, Zenon
<1>9. UnpackedValue(w, packed, i) = p0 + 2 * p1 + 4 * p2 + 8 * p3 + 16 * p4 + 32 * p5 + 64 * p6
  BY <1>1, <1>7
<1>10. CASE w = 1
  <2>1. p0 + 2 * p1 + 4 * p2 + 8 * p3 + 16 * p4 + 32 * p5 + 64 * p6 = b0
    BY <1>8, <1>10
  <2>2. v % TwoTo(1) = b0
    BY <1>5, TwoTos
  <2> QED
    BY <1>9, <1>10, <2>1, <2>2
<1>11. CASE w = 2
  <2>1. p0 + 2 * p1 + 4 * p2 + 8 * p3 + 16 * p4 + 32 * p5 + 64 * p6 = b0 + 2 * b1
    BY <1>8, <1>11
  <2>2. v % TwoTo(2) = b0 + 2 * b1
    BY <1>5, TwoTos
  <2> QED
    BY <1>9, <1>11, <2>1, <2>2
<1>12. CASE w = 3
  <2>1. p0 + 2 * p1 + 4 * p2 + 8 * p3 + 16 * p4 + 32 * p5 + 64 * p6 = b0 + 2 * b1 + 4 * b2
    BY <1>8, <1>12
  <2>2. v % TwoTo(3) = b0 + 2 * b1 + 4 * b2
    BY <1>5, TwoTos
  <2> QED
    BY <1>9, <1>12, <2>1, <2>2
<1>13. CASE w = 4
  <2>1. p0 + 2 * p1 + 4 * p2 + 8 * p3 + 16 * p4 + 32 * p5 + 64 * p6 = b0 + 2 * b1 + 4 * b2 + 8 * b3
    BY <1>8, <1>13
  <2>2. v % TwoTo(4) = b0 + 2 * b1 + 4 * b2 + 8 * b3
    BY <1>5, TwoTos
  <2> QED
    BY <1>9, <1>13, <2>1, <2>2
<1>14. CASE w = 5
  <2>1. p0 + 2 * p1 + 4 * p2 + 8 * p3 + 16 * p4 + 32 * p5 + 64 * p6 = b0 + 2 * b1 + 4 * b2 + 8 * b3 + 16 * b4
    BY <1>8, <1>14
  <2>2. v % TwoTo(5) = b0 + 2 * b1 + 4 * b2 + 8 * b3 + 16 * b4
    BY <1>5, TwoTos
  <2> QED
    BY <1>9, <1>14, <2>1, <2>2
<1>15. CASE w = 6
  <2>1. p0 + 2 * p1 + 4 * p2 + 8 * p3 + 16 * p4 + 32 * p5 + 64 * p6 = b0 + 2 * b1 + 4 * b2 + 8 * b3 + 16 * b4 + 32 * b5
    BY <1>8, <1>15
  <2>2. v % TwoTo(6) = b0 + 2 * b1 + 4 * b2 + 8 * b3 + 16 * b4 + 32 * b5
    BY <1>5, TwoTos
  <2> QED
    BY <1>9, <1>15, <2>1, <2>2
<1>16. CASE w = 7
  <2>1. p0 + 2 * p1 + 4 * p2 + 8 * p3 + 16 * p4 + 32 * p5 + 64 * p6 = b0 + 2 * b1 + 4 * b2 + 8 * b3 + 16 * b4 + 32 * b5 + 64 * b6
    BY <1>8, <1>16
  <2>2. v % TwoTo(7) = b0 + 2 * b1 + 4 * b2 + 8 * b3 + 16 * b4 + 32 * b5 + 64 * b6
    BY <1>5, TwoTos
  <2> QED
    BY <1>9, <1>16, <2>1, <2>2
<1> QED
  BY <1>6, <1>10, <1>11, <1>12, <1>13, <1>14, <1>15, <1>16

\* Packed values are read where they are, whatever follows them.
LEMMA PackedIsRead ==
    ASSUME NEW w \in Widths, NEW values \in Seq(0..255), NEW packed, NEW i \in Nat \ {0},
           ~Spoiled(w, values, i), w * i <= Len(PackUint(w, values)),
           \A n \in 1..(w * i) : packed[n] = PackUint(w, values)[n]
    PROVE  UnpackedValue(w, packed, i) = IF i <= Len(values) THEN values[i] % TwoTo(w) ELSE 0
<1>1. PICK m \in Nat : m = Len(PackUint(w, values))
  BY PackedIsData
<1>2. PICK v \in 0..255 : v = IF i <= Len(values) THEN values[i] ELSE 0
  <2>1. CASE i <= Len(values)
    <3>1. Len(values) \in Nat
      BY Elements
    <3>2. i \in 1..Len(values)
      BY <2>1, <3>1
    <3>3. values[i] \in 0..255
      BY <3>2, Elements
    <3> QED
      BY <2>1, <3>3
  <2>2. CASE ~(i <= Len(values))
    BY <2>2
  <2> QED
    BY <2>1, <2>2
<1>3. ASSUME NEW k \in 0..(w - 1) PROVE packed[w * (i - 1) + k + 1] = Bit(v, k)
  <2>1. PICK n \in Nat : n = w * (i - 1) + k
    BY DEF Widths
  <2>2. n + 1 \in 1..m /\ n + 1 \in 1..(w * i) /\ (n + 1) - 1 = n
    <3>1. PICK a \in Int : a = w * (i - 1)
      BY DEF Widths
    <3>2. w * i = a + w
      BY <3>1 DEF Widths
    <3>3. PICK s \in Int : s = a + w
      BY DEF Widths
    <3>4. s <= m /\ n + 1 \in 1..s
      BY <1>1, <2>1, <3>1, <3>2, <3>3 DEF Widths
    <3>5. n + 1 \in 1..(w * i)
      BY <3>2, <3>3, <3>4
    <3> QED
      BY <3>4, <3>5
  <2>3. packed[n + 1] = PackedBit(w, values, n)
    <3>1. PackUint(w, values)[n + 1] = PackedBit(w, values, (n + 1) - 1)
      BY <1>1, <2>2, PackedIsData, Zenon
    <3>2. packed[n + 1] = PackUint(w, values)[n + 1]
      BY <2>2, Zenon
    <3> QED
      BY <2>2, <3>1, <3>2
  <2>4. PackedBit(w, values, n) = IF i <= Len(values) THEN Bit(values[i], k) ELSE 0
    BY <2>1, ValueIsPacked
  <2>5. Bit(0, k) = 0
    <3>1. k = 0 \/ k = 1 \/ k = 2 \/ k = 3 \/ k = 4 \/ k = 5 \/ k = 6
      BY DEF Widths
    <3>2. 0 \in 0..255
      OBVIOUS
    <3>3. /\ 0 % 2 = 0 /\ (0 \div 2) % 2 = 0 /\ (0 \div 4) % 2 = 0 /\ (0 \div 8) % 2 = 0
          /\ (0 \div 16) % 2 = 0 /\ (0 \div 32) % 2 = 0 /\ (0 \div 64) % 2 = 0
      OBVIOUS
    <3>4. /\ Bit(0, 0) = 0 /\ Bit(0, 1) = 0 /\ Bit(0, 2) = 0 /\ Bit(0, 3) = 0
          /\ Bit(0, 4) = 0 /\ Bit(0, 5) = 0 /\ Bit(0, 6) = 0
      BY <3>2, <3>3, BitsAre
    <3> QED
      BY <3>1, <3>4
  <2> QED
    BY <1>2, <2>1, <2>3, <2>4, <2>5
<1>4. ReadsAs(w, packed, i, v)
  BY <1>3 DEF ReadsAs
<1>5. UnpackedValue(w, packed, i) = v % TwoTo(w)
  BY <1>4, ValueIsUnpacked
<1>6. 0 % TwoTo(w) = 0
  BY TwoTos DEF Widths
<1> QED
  BY <1>2, <1>5, <1>6

\* The functions are those of their widths.
LEMMA SlicesAre ==
    ASSUME NEW w \in Widths, NEW src
    PROVE  PackSlice(w, src) = PackUint(w, src) /\ UnpackSlice(w, src) = UnpackUint(w, src)
<1> USE DEF PackSlice, UnpackSlice
<1>1. CASE w = 1
  BY <1>1 DEF PackUint1Slice, UnpackUint1Slice
<1>2. CASE w = 2
  BY <1>2 DEF PackUint2Slice, UnpackUint2Slice
<1>3. CASE w = 3
  BY <1>3 DEF PackUint3Slice, UnpackUint3Slice
<1>4. CASE w = 4
  BY <1>4 DEF PackUint4Slice, UnpackUint4Slice
<1>5. CASE w = 5
  BY <1>5 DEF PackUint5Slice, UnpackUint5Slice
<1>6. CASE w = 6
  BY <1>6 DEF PackUint6Slice, UnpackUint6Slice
<1>7. CASE w = 7
  BY <1>7 DEF PackUint7Slice, UnpackUint7Slice
<1> QED
  BY <1>1, <1>2, <1>3, <1>4, <1>5, <1>6, <1>7 DEF Widths

\* How many values there are in so many bits.
LEMMA ValuesOfBytes ==
    ASSUME NEW w \in Widths, NEW n \in Nat
    PROVE  /\ (8 * Bytes(w * n)) \div w \in Nat /\ (8 * Bytes(w * n)) \div w >= n
           /\ \A i \in 1..((8 * Bytes(w * n)) \div w) : w * i <= 8 * Bytes(w * n)
<1>1. PICK x \in Nat, b \in Nat : x = w * n /\ b = Bytes(x) /\ 8 * b >= x
  <2>1. PICK x \in Nat : x = w * n
    BY DEF Widths
  <2>2. (x + 7) \div 8 \in Nat /\ 8 * ((x + 7) \div 8) >= x
    BY <2>1
  <2> QED
    BY <2>1, <2>2 DEF Bytes
<1>2. PICK d \in Nat : d = (8 * b) \div w /\ w * d <= 8 * b /\ 8 * b < w * (d + 1)
  <2>1. w = 1 \/ w = 2 \/ w = 3 \/ w = 4 \/ w = 5 \/ w = 6 \/ w = 7
    BY DEF Widths
  <2>2. (8 * b) \div w \in Nat /\ w * ((8 * b) \div w) <= 8 * b /\ 8 * b < w * (((8 * b) \div w) + 1)
    BY <2>1
  <2> QED
    BY <2>2
<1>3. d >= n
  <2>1. CASE d < n
    <3>1. w * (d + 1) <= w * n
      BY <2>1 DEF Widths
    <3>2. w * (d + 1) \in Int /\ w * n \in Int
      BY DEF Widths
    <3> QED
      BY <1>1, <1>2, <3>1, <3>2
  <2> QED
    BY <2>1
<1>4. \A i \in 1..d : w * i <= 8 * b
  <2> SUFFICES ASSUME NEW i \in 1..d PROVE w * i <= 8 * b
    OBVIOUS
  <2>1. w * i <= w * d /\ w * i \in Int /\ w * d \in Int
    BY DEF Widths
  <2> QED
    BY <1>2, <2>1
<1> QED
  BY <1>1, <1>2, <1>3, <1>4

\* Packed data has all bits of each value.
LEMMA ValueFits ==
    ASSUME NEW w \in Widths, NEW values \in Seq(0..255), NEW i \in 1..Len(values)
    PROVE  w * i <= Len(PackUint(w, values))
<1>1. PICK l \in Nat : l = Len(values)
  BY Elements
<1>2. Len(PackUint(w, values)) = 8 * Bytes(w * l)
  BY <1>1, PackedIsData
<1>3. PICK d \in Nat : d = (8 * Bytes(w * l)) \div w /\ d >= l /\ \A k \in 1..d : w * k <= 8 * Bytes(w * l)
  BY ValuesOfBytes
<1>4. i \in 1..d
  BY <1>1, <1>3
<1> QED
  BY <1>2, <1>3, <1>4, Zenon

\* Values that are narrow enough are read as they were, from data that has
\* their bits, whatever it ends with.
LEMMA NarrowIsRead ==
    ASSUME NEW w \in Widths, NEW values \in Seq(0..255), \A j \in 1..Len(values) : values[j] < TwoTo(w),
           NEW packed, NEW i \in 1..Len(values),
           \A n \in 1..(w * i) : packed[n] = PackUint(w, values)[n]
    PROVE  UnpackedValue(w, packed, i) = values[i]
<1>1. PICK l \in Nat : l = Len(values) /\ DOMAIN values = 1..l /\ \A j \in 1..l : values[j] \in 0..255
  <2>1. Len(values) \in Nat /\ DOMAIN values = 1..Len(values) /\ \A j \in 1..Len(values) : values[j] \in 0..255
    BY Elements, Zenon
  <2> QED
    BY <2>1
<1>2. TwoTo(w) \in Nat \ {0}
  BY TwoTos DEF Widths
<1>3. ~Spoiled(w, values, i)
  <2>1. ASSUME NEW j \in 1..l PROVE ~(values[j] >= TwoTo(w))
    <3>1. PICK v \in 0..255, t \in Nat : v = values[j] /\ t = TwoTo(w)
      BY <1>1, <1>2
    <3>2. v < t
      BY <1>1, <3>1
    <3> QED
      BY <3>1, <3>2
  <2> QED
    BY <1>1, <2>1, Zenon DEF Spoiled
<1>4. i \in Nat \ {0} /\ i <= Len(values)
  BY <1>1
<1>5. w * i <= Len(PackUint(w, values))
  BY ValueFits
<1>6. UnpackedValue(w, packed, i) = values[i] % TwoTo(w)
  BY <1>3, <1>4, <1>5, PackedIsRead
<1>7. values[i] % TwoTo(w) = values[i]
  <2>1. PICK v \in 0..255, t \in Nat \ {0} : v = values[i] /\ t = TwoTo(w)
    BY <1>1, <1>2
  <2>2. v < t
    BY <2>1
  <2>3. v % t = v
    <3>1. t = 1 \/ t = 2 \/ t = 4 \/ t = 8 \/ t = 16 \/ t = 32 \/ t = 64 \/ t = 128
      BY <2>1, TwoTos DEF Widths
    <3> QED
      BY <2>2, <3>1
  <2> QED
    BY <2>1, <2>3
<1> QED
  BY <1>6, <1>7

-----------------------------------------------------------------------------
(* Writing a fingerprint                                                   *)

\* What holds at 0 and is kept by every step up holds up to the end.
LEMMA Climb ==
    ASSUME NEW N \in Nat, NEW S, 0 \in S, \A n \in 1..N : n - 1 \in S => n \in S
    PROVE  \A n \in 0..N : n \in S
<1> SUFFICES ASSUME {n \in 0..N : n \notin S} # {} PROVE FALSE
  OBVIOUS
<1>1. {n \in 0..N : n \notin S} \in SUBSET Nat
  OBVIOUS
<1>2. PICK m \in {n \in 0..N : n \notin S} : \A l \in {n \in 0..N : n \notin S} : m <= l
  BY <1>1, Least
<1>3. m \in 1..N
  BY <1>2
<1>4. m - 1 \in S
  BY <1>2, <1>3
<1> QED
  BY <1>2, <1>3, <1>4

\* What the loops of CompressFingerprint have written.
Outs == [lastBit : Int, normalBits : Seq(Int), exceptionBits : Seq(Int)]

\* Putting a bit keeps the type of what is written.
LEMMA PutBitIsOut ==
    ASSUME NEW out \in Outs, NEW bit \in Int
    PROVE  PutBit(out, bit) \in Outs
<1>1. out.lastBit \in Int /\ out.normalBits \in Seq(Int) /\ out.exceptionBits \in Seq(Int)
  BY DEF Outs
<1>2. PICK b \in Int : b = bit - out.lastBit
  BY <1>1
<1>3. PICK normal \in Seq(Int) : normal = Append(out.normalBits, IF b >= 7 THEN 7 ELSE b)
  <2>1. Append(out.normalBits, IF b >= 7 THEN 7 ELSE b) \in Seq(Int)
    BY <1>1
  <2> QED
    BY <2>1
<1>4. PICK exceptional \in Seq(Int) :
         exceptional = IF b >= 7 THEN Append(out.exceptionBits, b - 7) ELSE out.exceptionBits
  <2>1. Append(out.exceptionBits, b - 7) \in Seq(Int)
    BY <1>1
  <2> QED
    BY <1>1, <2>1
<1>5. PutBit(out, bit) = [lastBit |-> bit, normalBits |-> normal, exceptionBits |-> exceptional]
  BY <1>2, <1>3, <1>4, Zenon DEF PutBit
<1> QED
  BY <1>5 DEF Outs

\* The loop over the bits of a value, as the function that is defined by it.
PutLoop(f, out, value) ==
    [bit \in 0..HashBits |->
        IF bit = 0 THEN out
        ELSE IF bit \in value THEN PutBit(f[bit - 1], bit) ELSE f[bit - 1]]

Puts(put, out, value) ==
    /\ put[0] = out
    /\ \A bit \in 1..HashBits :
          put[bit] = IF bit \in value THEN PutBit(put[bit - 1], bit) ELSE put[bit - 1]

HasPut(out, value) == \E f : f = PutLoop(f, out, value)

\* The function that the loop over the bits of a value defines exists.
LEMMA PutIsThere ==
    ASSUME NEW out \in Outs, NEW value
    PROVE  HasPut(out, value)
<1> DEFINE put(o, bit) == IF bit \in value THEN PutBit(o, bit) ELSE o
           step == [p \in Outs \X (1..HashBits) |-> put(p[1], p[2])]
<1>1. HashBits \in Nat
  BY EncodingAssumption
<1>2. step \in [Outs \X (1..HashBits) -> Outs]
  <2>1. ASSUME NEW o \in Outs, NEW bit \in 1..HashBits PROVE put(o, bit) \in Outs
    <3>1. bit \in Int
      OBVIOUS
    <3>2. PutBit(o, bit) \in Outs
      BY <3>1, PutBitIsOut
    <3> QED
      BY <3>2
  <2> HIDE DEF put
  <2>2. ASSUME NEW p \in Outs \X (1..HashBits) PROVE put(p[1], p[2]) \in Outs
    <3>1. p[1] \in Outs /\ p[2] \in 1..HashBits
      OBVIOUS
    <3> QED
      BY <2>1, <3>1
  <2> QED
    BY <2>2, Zenon
<1>3. PICK f \in [0..HashBits -> Outs] : Stepwise(f, HashBits, out, step)
  <2> HIDE DEF step
  <2> QED
    BY <1>1, <1>2, StepsAreThere
<1>4. ASSUME NEW bit \in 1..HashBits PROVE f[bit] = put(f[bit - 1], bit)
  <2>1. bit - 1 \in 0..HashBits
    BY <1>1
  <2>2. f[bit - 1] \in Outs
    BY <2>1
  <2> HIDE DEF put
  <2>3. step[<<f[bit - 1], bit>>] = put(f[bit - 1], bit)
    BY <2>2
  <2> QED
    BY <1>3, <2>3 DEF Stepwise
<1>5. ASSUME NEW bit \in 0..HashBits
      PROVE  f[bit] = IF bit = 0 THEN out
                      ELSE IF bit \in value THEN PutBit(f[bit - 1], bit) ELSE f[bit - 1]
  <2>1. CASE bit = 0
    BY <1>3, <2>1 DEF Stepwise
  <2>2. CASE bit # 0
    <3>1. bit \in 1..HashBits
      BY <1>1, <2>2
    <3> QED
      BY <1>4, <2>2, <3>1
  <2> QED
    BY <2>1, <2>2
<1> QED
  BY <1>5, Zenon DEF PutLoop, HasPut

\* The loop over the bits of a value, bit by bit.
LEMMA LoopPuts ==
    ASSUME NEW f, NEW out, NEW value, f = PutLoop(f, out, value)
    PROVE  Puts(f, out, value)
<1>1. \A bit \in 0..HashBits :
         f[bit] = IF bit = 0 THEN out
                  ELSE IF bit \in value THEN PutBit(f[bit - 1], bit) ELSE f[bit - 1]
  BY Zenon DEF PutLoop
<1>2. 0 \in 0..HashBits /\ \A bit \in 1..HashBits : bit \in 0..HashBits /\ bit # 0
  BY EncodingAssumption
<1> QED
  BY <1>1, <1>2, Zenon DEF Puts

\* PutValue is its loop.
LEMMA ValuePuts ==
    ASSUME NEW out \in Outs, NEW value
    PROVE  \E put : /\ Puts(put, out, value)
                    /\ PutValue(out, value) =
                          [lastBit       |-> 0,
                           normalBits    |-> Append(put[HashBits].normalBits, 0),
                           exceptionBits |-> put[HashBits].exceptionBits]
<1> DEFINE put == CHOOSE f : f = PutLoop(f, out, value)
<1>1. put = PutLoop(put, out, value)
  <2>1. PICK f : f = PutLoop(f, out, value)
    BY PutIsThere, Zenon DEF HasPut
  <2> QED
    BY <2>1, Zenon
<1>2. PutValue(out, value) =
          [lastBit       |-> 0,
           normalBits    |-> Append(put[HashBits].normalBits, 0),
           exceptionBits |-> put[HashBits].exceptionBits]
  BY Zenon DEF PutValue, PutLoop
<1> HIDE DEF put
<1>3. Puts(put, out, value)
  BY <1>1, LoopPuts
<1> QED
  BY <1>2, <1>3

\* Putting a value keeps the type of what is written.
LEMMA PutValueIsOut ==
    ASSUME NEW out \in Outs, NEW value
    PROVE  PutValue(out, value) \in Outs
<1>1. PICK put : /\ Puts(put, out, value)
                 /\ PutValue(out, value) =
                       [lastBit       |-> 0,
                        normalBits    |-> Append(put[HashBits].normalBits, 0),
                        exceptionBits |-> put[HashBits].exceptionBits]
  BY ValuePuts
<1>2. HashBits \in Nat
  BY EncodingAssumption
<1> DEFINE S == {bit \in 0..HashBits : put[bit] \in Outs}
<1>3. 0 \in S
  BY <1>1, <1>2 DEF Puts
<1>4. ASSUME NEW bit \in 1..HashBits, bit - 1 \in S PROVE bit \in S
  <2>1. bit \in 0..HashBits /\ bit \in Int /\ put[bit - 1] \in Outs
    BY <1>2, <1>4
  <2>2. PutBit(put[bit - 1], bit) \in Outs
    BY <2>1, PutBitIsOut
  <2>3. put[bit] = IF bit \in value THEN PutBit(put[bit - 1], bit) ELSE put[bit - 1]
    BY <1>1, Zenon DEF Puts
  <2> QED
    BY <2>1, <2>2, <2>3
<1> HIDE DEF S
<1>5. \A bit \in 0..HashBits : bit \in S
  BY <1>2, <1>3, <1>4, Climb
<1>6. put[HashBits] \in Outs
  BY <1>2, <1>5 DEF S
<1>7. PICK normal \in Seq(Int), exceptional \in Seq(Int) :
         normal = put[HashBits].normalBits /\ exceptional = put[HashBits].exceptionBits
  BY <1>6 DEF Outs
<1>8. PICK closed \in Seq(Int) : closed = Append(normal, 0)
  <2>1. Append(normal, 0) \in Seq(Int)
    OBVIOUS
  <2> QED
    BY <2>1
<1>9. PutValue(out, value) = [lastBit |-> 0, normalBits |-> closed, exceptionBits |-> exceptional]
  BY <1>1, <1>7, <1>8
<1> QED
  BY <1>9 DEF Outs

\* The values that are written: each hash as its difference from the last.
Differ(hashes, h) == IF h = 1 THEN hashes[1] ELSE SymDiff(hashes[h], hashes[h - 1])

Nothing == [lastBit |-> 0, normalBits |-> <<>>, exceptionBits |-> <<>>]

\* The loop over the hashes, as the function that is defined by it.
WriteLoop(f, hashes) ==
    [h \in 0..Len(hashes) |->
        IF h = 0 THEN Nothing ELSE PutValue(f[h - 1], Differ(hashes, h))]

HasWritten(hashes) == \E f : f = WriteLoop(f, hashes)

\* The function that the loop over the hashes defines exists.
LEMMA WriteIsThere ==
    ASSUME NEW S, NEW hashes \in Seq(S)
    PROVE  HasWritten(hashes)
<1> DEFINE N == Len(hashes)
           step == [p \in Outs \X (1..N) |-> PutValue(p[1], Differ(hashes, p[2]))]
<1>1. N \in Nat
  OBVIOUS
<1>2. Nothing \in Outs
  <2>1. <<>> \in Seq(Int)
    OBVIOUS
  <2> QED
    BY <2>1 DEF Nothing, Outs
<1> HIDE DEF N
<1>3. step \in [Outs \X (1..N) -> Outs]
  <2>1. ASSUME NEW p \in Outs \X (1..N) PROVE PutValue(p[1], Differ(hashes, p[2])) \in Outs
    <3>1. p[1] \in Outs
      OBVIOUS
    <3> QED
      BY <3>1, PutValueIsOut
  <2> QED
    BY <2>1, Zenon
<1>4. PICK f \in [0..N -> Outs] : Stepwise(f, N, Nothing, step)
  <2> HIDE DEF step
  <2> QED
    BY <1>1, <1>2, <1>3, StepsAreThere
<1>5. ASSUME NEW h \in 1..N PROVE f[h] = PutValue(f[h - 1], Differ(hashes, h))
  <2>1. h - 1 \in 0..N
    BY <1>1
  <2>2. f[h - 1] \in Outs
    BY <2>1
  <2>3. step[<<f[h - 1], h>>] = PutValue(f[h - 1], Differ(hashes, h))
    BY <2>2
  <2> HIDE DEF step
  <2> QED
    BY <1>4, <2>3 DEF Stepwise
<1>6. ASSUME NEW h \in 0..N
      PROVE  f[h] = IF h = 0 THEN Nothing ELSE PutValue(f[h - 1], Differ(hashes, h))
  <2>1. CASE h = 0
    BY <1>4, <2>1 DEF Stepwise
  <2>2. CASE h # 0
    <3>1. h \in 1..N
      BY <1>1, <2>2
    <3> QED
      BY <1>5, <2>2, <3>1
  <2> QED
    BY <2>1, <2>2
<1> QED
  BY <1>6, Zenon DEF WriteLoop, HasWritten, N

Writes(written, hashes) ==
    /\ written[0] = Nothing
    /\ \A h \in 1..Len(hashes) : written[h] = PutValue(written[h - 1], Differ(hashes, h))

\* The loop over the hashes, hash by hash.
LEMMA AllBitsWrites ==
    ASSUME NEW S, NEW hashes \in Seq(S)
    PROVE  \E written : Writes(written, hashes) /\ AllBits(hashes) = written[Len(hashes)]
<1> DEFINE written == CHOOSE f : f = WriteLoop(f, hashes)
<1>1. written = WriteLoop(written, hashes)
  <2>1. PICK f : f = WriteLoop(f, hashes)
    BY WriteIsThere, Zenon DEF HasWritten
  <2> QED
    BY <2>1, Zenon
<1>2. AllBits(hashes) = written[Len(hashes)]
  BY Zenon DEF AllBits, WriteLoop, Nothing, Differ
<1> HIDE DEF written
<1>3. Writes(written, hashes)
  <2>1. \A h \in 0..Len(hashes) :
           written[h] = IF h = 0 THEN Nothing ELSE PutValue(written[h - 1], Differ(hashes, h))
    BY <1>1, Zenon DEF WriteLoop
  <2>2. 0 \in 0..Len(hashes) /\ \A h \in 1..Len(hashes) : h \in 0..Len(hashes) /\ h # 0
    OBVIOUS
  <2> QED
    BY <2>1, <2>2, Zenon DEF Writes
<1> QED
  BY <1>2, <1>3

\* How a reader goes on at a normal bit: the number of hashes that are closed,
\* the last bit of the next one, and the number of exceptional bits taken.
Follows(x, E, h, b, k, h1, b1, k1) ==
    \/ x = 0 /\ h1 = h + 1 /\ b1 = 0 /\ k1 = k
    \/ x \in 1..6 /\ h1 = h /\ b1 = b + x /\ k1 = k
    \/ x = 7 /\ h1 = h /\ k1 = k + 1 /\ b1 = b + 7 + E[k1]

\* The three, after each of the normal bits.
Trace(N, E, hs, bs, ks) ==
    /\ N \in Seq(0..7) /\ E \in Seq(0..31)
    /\ hs \in [0..Len(N) -> Nat]
    /\ bs \in [0..Len(N) -> 0..HashBits]
    /\ ks \in [0..Len(N) -> 0..Len(E)]
    /\ hs[0] = 0 /\ bs[0] = 0 /\ ks[0] = 0
    /\ \A i \in 1..Len(N) : Follows(N[i], E, hs[i - 1], bs[i - 1], ks[i - 1], hs[i], bs[i], ks[i])

\* The number of closed hashes never falls.
LEMMA TraceClimbs ==
    ASSUME NEW N, NEW E, NEW hs, NEW bs, NEW ks, Trace(N, E, hs, bs, ks)
    PROVE  \A i \in 0..Len(N) : \A j \in 0..i : hs[j] <= hs[i]
<1>1. N \in Seq(0..7) /\ hs \in [0..Len(N) -> Nat]
  BY Zenon DEF Trace
<1>2. PICK L \in Nat : L = Len(N)
  BY <1>1
<1> DEFINE S == {i \in 0..L : \A j \in 0..i : hs[j] <= hs[i]}
<1>3. 0 \in S
  <2>1. hs[0] \in Nat
    BY <1>1, <1>2
  <2>2. 0 \in 0..L /\ \A j \in 0..0 : j = 0
    OBVIOUS
  <2> QED
    BY <2>1, <2>2
<1>4. ASSUME NEW i \in 1..L, i - 1 \in S PROVE i \in S
  <2>1. i \in 0..L /\ i - 1 \in 0..L /\ \A j \in 0..i : j \in 0..L /\ (j = i \/ j \in 0..(i - 1))
    BY <1>2
  <2>2. Follows(N[i], E, hs[i - 1], bs[i - 1], ks[i - 1], hs[i], bs[i], ks[i])
    BY <1>2, Zenon DEF Trace
  <2>3. hs[i] = hs[i - 1] + 1 \/ hs[i] = hs[i - 1]
    BY <2>2, Zenon DEF Follows
  <2>4. \A j \in 0..i : hs[j] \in Nat
    BY <1>1, <1>2, <2>1
  <2>5. hs[i - 1] \in Nat /\ hs[i] \in Nat
    BY <1>1, <1>2, <2>1
  <2>6. ASSUME NEW j \in 0..i PROVE hs[j] <= hs[i]
    <3>1. CASE j = i
      BY <2>5, <3>1
    <3>2. CASE j # i
      <4>1. hs[j] <= hs[i - 1]
        BY <1>4, <2>1, <3>2
      <4> QED
        BY <2>3, <2>4, <2>5, <4>1
    <3> QED
      BY <3>1, <3>2
  <2> QED
    BY <2>1, <2>6
<1> HIDE DEF S
<1>5. \A i \in 0..L : i \in S
  BY <1>3, <1>4, Climb
<1> QED
  BY <1>2, <1>5 DEF S

Onward(f, n, x) == [i \in 0..(n + 1) |-> IF i = n + 1 THEN x ELSE f[i]]

\* The bits of the hash that follows on m others.
BitsAfter(N, hs, bs, m) == {bs[i] : i \in {j \in 1..Len(N) : N[j] # 0 /\ hs[j] = m}}

Prolongs(E2, E) == E2 \in Seq(0..31) /\ Len(E) <= Len(E2) /\ \A j \in 1..Len(E) : E2[j] = E[j]

\* One more normal bit adds at most one bit to one hash.
Adds(N, hs, bs, N2, hs2, bs2, x, h, b) ==
    \A m : BitsAfter(N2, hs2, bs2, m) = BitsAfter(N, hs, bs, m) \cup IF x # 0 /\ h = m THEN {b} ELSE {}

\* A normal bit that follows the last one prolongs the trace.
LEMMA TraceGoesOn ==
    ASSUME NEW N, NEW E, NEW hs, NEW bs, NEW ks, Trace(N, E, hs, bs, ks),
           NEW E2, Prolongs(E2, E),
           NEW x \in 0..7, NEW h \in Nat, NEW b \in 0..HashBits, NEW k \in 0..Len(E2),
           NEW L \in Nat, L = Len(N),
           Follows(x, E2, hs[L], bs[L], ks[L], h, b, k)
    PROVE  /\ Trace(Append(N, x), E2, Onward(hs, L, h), Onward(bs, L, b), Onward(ks, L, k))
           /\ Adds(N, hs, bs, Append(N, x), Onward(hs, L, h), Onward(bs, L, b), x, h, b)
<1>0. E2 \in Seq(0..31) /\ Len(E) <= Len(E2) /\ \A j \in 1..Len(E) : E2[j] = E[j]
  BY Zenon DEF Prolongs
<1>1. PICK N2 \in Seq(0..7) : /\ N2 = Append(N, x) /\ Len(N2) = L + 1
                              /\ N2[L + 1] = x /\ \A i \in 1..L : N2[i] = N[i]
  <2>1. N \in Seq(0..7)
    BY DEF Trace
  <2>2. /\ Append(N, x) \in Seq(0..7) /\ Len(Append(N, x)) = L + 1
        /\ Append(N, x)[L + 1] = x /\ \A i \in 1..L : Append(N, x)[i] = N[i]
    BY <2>1, AppendProperties
  <2> QED
    BY <2>2
<1>2. PICK hs2, bs2, ks2 :
         hs2 = Onward(hs, L, h) /\ bs2 = Onward(bs, L, b) /\ ks2 = Onward(ks, L, k)
  OBVIOUS
<1>3. /\ hs2 \in [0..(L + 1) -> Nat] /\ hs2[L + 1] = h /\ \A i \in 0..L : hs2[i] = hs[i]
      /\ bs2 \in [0..(L + 1) -> 0..HashBits] /\ bs2[L + 1] = b /\ \A i \in 0..L : bs2[i] = bs[i]
      /\ ks2 \in [0..(L + 1) -> 0..Len(E2)] /\ ks2[L + 1] = k /\ \A i \in 0..L : ks2[i] = ks[i]
  <2>1. Len(E) \in Nat /\ Len(E2) \in Nat
    BY <1>0 DEF Trace
  <2>2. /\ hs \in [0..L -> Nat] /\ bs \in [0..L -> 0..HashBits] /\ ks \in [0..L -> 0..Len(E)]
    BY Zenon DEF Trace
  <2>3. ks \in [0..L -> 0..Len(E2)]
    BY <1>0, <2>1, <2>2
  <2>4. \A i \in 0..(L + 1) : i = L + 1 \/ i \in 0..L
    OBVIOUS
  <2>5. L + 1 \in 0..(L + 1) /\ \A i \in 0..L : i \in 0..(L + 1) /\ i # L + 1
    OBVIOUS
  <2>6. hs2 \in [0..(L + 1) -> Nat] /\ hs2[L + 1] = h /\ \A i \in 0..L : hs2[i] = hs[i]
    <3>1. hs2 = [i \in 0..(L + 1) |-> IF i = L + 1 THEN h ELSE hs[i]]
      BY <1>2, Zenon DEF Onward
    <3> QED
      BY <2>2, <2>4, <2>5, <3>1
  <2>7. bs2 \in [0..(L + 1) -> 0..HashBits] /\ bs2[L + 1] = b /\ \A i \in 0..L : bs2[i] = bs[i]
    <3>1. bs2 = [i \in 0..(L + 1) |-> IF i = L + 1 THEN b ELSE bs[i]]
      BY <1>2, Zenon DEF Onward
    <3> QED
      BY <2>2, <2>4, <2>5, <3>1
  <2>8. ks2 \in [0..(L + 1) -> 0..Len(E2)] /\ ks2[L + 1] = k /\ \A i \in 0..L : ks2[i] = ks[i]
    <3>1. ks2 = [i \in 0..(L + 1) |-> IF i = L + 1 THEN k ELSE ks[i]]
      BY <1>2, Zenon DEF Onward
    <3> QED
      BY <2>3, <2>4, <2>5, <3>1
  <2> QED
    BY <2>6, <2>7, <2>8
<1>4. \A i \in 1..L : Follows(N[i], E, hs[i - 1], bs[i - 1], ks[i - 1], hs[i], bs[i], ks[i])
  BY Zenon DEF Trace
<1>5. ASSUME NEW i \in 1..L
      PROVE  Follows(N2[i], E2, hs2[i - 1], bs2[i - 1], ks2[i - 1], hs2[i], bs2[i], ks2[i])
  <2>1. i \in 0..L /\ i - 1 \in 0..L
    OBVIOUS
  <2>2. /\ N2[i] = N[i] /\ hs2[i - 1] = hs[i - 1] /\ bs2[i - 1] = bs[i - 1] /\ ks2[i - 1] = ks[i - 1]
        /\ hs2[i] = hs[i] /\ bs2[i] = bs[i] /\ ks2[i] = ks[i]
    BY <1>1, <1>3, <2>1
  <2>3. ks[i - 1] \in 0..Len(E) /\ ks[i] \in 0..Len(E) /\ Len(E) \in Nat
    <3>1. ks \in [0..Len(N) -> 0..Len(E)] /\ E \in Seq(0..31)
      BY Zenon DEF Trace
    <3>2. ks \in [0..L -> 0..Len(E)]
      BY <3>1
    <3>3. ks[i - 1] \in 0..Len(E) /\ ks[i] \in 0..Len(E)
      BY <2>1, <3>2, Zenon
    <3>4. Len(E) \in Nat
      BY <3>1
    <3> QED
      BY <3>3, <3>4
  <2>4. Follows(N[i], E, hs[i - 1], bs[i - 1], ks[i - 1], hs[i], bs[i], ks[i])
    BY <1>4
  <2>5. ks[i] = ks[i - 1] + 1 => E2[ks[i]] = E[ks[i]]
    BY <1>0, <2>3
  <2>6. Follows(N[i], E2, hs[i - 1], bs[i - 1], ks[i - 1], hs[i], bs[i], ks[i])
    BY <2>4, <2>5 DEF Follows
  <2> QED
    BY <2>2, <2>6
<1>6. Follows(N2[L + 1], E2, hs2[L], bs2[L], ks2[L], hs2[L + 1], bs2[L + 1], ks2[L + 1])
  <2>1. L \in 0..L
    OBVIOUS
  <2> QED
    BY <1>1, <1>3, <2>1
<1>7. \A i \in 1..(L + 1) :
         Follows(N2[i], E2, hs2[i - 1], bs2[i - 1], ks2[i - 1], hs2[i], bs2[i], ks2[i])
  <2>1. ASSUME NEW i \in 1..(L + 1)
        PROVE Follows(N2[i], E2, hs2[i - 1], bs2[i - 1], ks2[i - 1], hs2[i], bs2[i], ks2[i])
    <3>1. CASE i = L + 1
      <4>1. i - 1 = L
        BY <3>1
      <4> QED
        BY <1>6, <3>1, <4>1
    <3>2. CASE i # L + 1
      <4>1. i \in 1..L
        BY <3>2
      <4> QED
        BY <1>5, <4>1
    <3> QED
      BY <3>1, <3>2
  <2> QED
    BY <2>1
<1>8. Trace(N2, E2, hs2, bs2, ks2)
  <2>1. hs2[0] = 0 /\ bs2[0] = 0 /\ ks2[0] = 0
    <3>1. 0 \in 0..L
      OBVIOUS
    <3>2. hs[0] = 0 /\ bs[0] = 0 /\ ks[0] = 0
      BY Zenon DEF Trace
    <3> QED
      BY <1>3, <3>1, <3>2
  <2> QED
    BY <1>0, <1>1, <1>3, <1>7, <2>1, Zenon DEF Trace
<1>9. ASSUME NEW m
      PROVE  BitsAfter(N2, hs2, bs2, m) = BitsAfter(N, hs, bs, m) \cup IF x # 0 /\ h = m THEN {b} ELSE {}
  <2> DEFINE A == {j \in 1..L : N[j] # 0 /\ hs[j] = m}
             B == {j \in 1..(L + 1) : N2[j] # 0 /\ hs2[j] = m}
  <2>1. BitsAfter(N2, hs2, bs2, m) = {bs2[i] : i \in B} /\ BitsAfter(N, hs, bs, m) = {bs[i] : i \in A}
    BY <1>1 DEF BitsAfter
  <2>2. \A j \in 1..L : j \in 0..L /\ j \in 1..(L + 1) /\ j # L + 1
    OBVIOUS
  <2>3. \A j \in 1..(L + 1) : j = L + 1 \/ j \in 1..L
    OBVIOUS
  <2>4. L + 1 \in 1..(L + 1)
    OBVIOUS
  <2>5. B = A \cup IF x # 0 /\ h = m THEN {L + 1} ELSE {}
    BY <1>1, <1>3, <2>2, <2>3, <2>4
  <2>6. \A j \in A : bs2[j] = bs[j]
    BY <1>3, <2>2
  <2> HIDE DEF A, B
  <2>7. CASE x # 0 /\ h = m
    <3>1. B = A \cup {L + 1}
      BY <2>5, <2>7
    <3>2. bs2[L + 1] = b
      BY <1>3
    <3>3. {bs2[i] : i \in B} = {bs[i] : i \in A} \cup {b}
      BY <2>6, <3>1, <3>2, Zenon
    <3> QED
      BY <2>1, <2>7, <3>3
  <2>8. CASE ~(x # 0 /\ h = m)
    <3>1. B = A
      BY <2>5, <2>8
    <3>2. {bs2[i] : i \in B} = {bs[i] : i \in A}
      BY <2>6, <3>1
    <3> QED
      BY <2>1, <2>8, <3>2
  <2> QED
    BY <2>7, <2>8
<1> QED
  BY <1>1, <1>2, <1>8, <1>9, Zenon DEF Adds

\* What is written tells the values before n, and some bits of the next.
Told(N, E, hs, bs, ks, last, V, n, open) ==
    /\ Trace(N, E, hs, bs, ks)
    /\ hs[Len(N)] = n /\ bs[Len(N)] = last /\ ks[Len(N)] = Len(E)
    /\ \A h \in 1..n : BitsAfter(N, hs, bs, h - 1) = V[h]
    /\ BitsAfter(N, hs, bs, n) = open

Tells(out, V, n, open) ==
    \E hs, bs, ks : Told(out.normalBits, out.exceptionBits, hs, bs, ks, out.lastBit, V, n, open)

\* A bit that is put is told as one more of the open hash.
LEMMA BitIsTold ==
    ASSUME NEW out, NEW V, NEW n \in Nat, NEW open, Tells(out, V, n, open),
           NEW bit \in 1..HashBits, out.lastBit < bit
    PROVE  PutBit(out, bit).lastBit = bit /\ Tells(PutBit(out, bit), V, n, open \cup {bit})
<1>1. PICK N, E, last : N = out.normalBits /\ E = out.exceptionBits /\ last = out.lastBit
  OBVIOUS
<1>2. PICK hs, bs, ks : Told(N, E, hs, bs, ks, last, V, n, open)
  BY <1>1, Zenon DEF Tells
<1>3. /\ Trace(N, E, hs, bs, ks)
      /\ hs[Len(N)] = n /\ bs[Len(N)] = last /\ ks[Len(N)] = Len(E)
      /\ \A h \in 1..n : BitsAfter(N, hs, bs, h - 1) = V[h]
      /\ BitsAfter(N, hs, bs, n) = open
  BY <1>2, Zenon DEF Told
<1>4. N \in Seq(0..7) /\ E \in Seq(0..31) /\ bs \in [0..Len(N) -> 0..HashBits]
  BY <1>3, Zenon DEF Trace
<1>5. PICK L \in Nat, l \in Nat : L = Len(N) /\ l = Len(E)
  BY <1>4
<1>6. HashBits \in 1..38 /\ HashBits \in Nat
  BY EncodingAssumption
<1>7. last \in 0..HashBits /\ last < bit
  <2>1. L \in 0..L
    OBVIOUS
  <2> QED
    BY <1>1, <1>3, <1>4, <1>5, <2>1
<1>8. PICK d \in Nat : d = bit - last /\ d \in 1..38 /\ last + d = bit
  BY <1>6, <1>7
<1>9. PICK x \in 0..7, E2 \in Seq(0..31), k \in Nat :
         /\ x = IF d >= 7 THEN 7 ELSE d
         /\ E2 = IF d >= 7 THEN Append(E, d - 7) ELSE E
         /\ k = Len(E2)
         /\ l <= k /\ \A j \in 1..l : E2[j] = E[j]
         /\ Follows(x, E2, n, last, l, n, bit, k)
  <2>1. CASE d >= 7
    <3>1. d - 7 \in 0..31
      BY <1>8, <2>1
    <3>2. /\ Append(E, d - 7) \in Seq(0..31) /\ Len(Append(E, d - 7)) = l + 1
          /\ Append(E, d - 7)[l + 1] = d - 7 /\ \A j \in 1..l : Append(E, d - 7)[j] = E[j]
      BY <1>4, <1>5, <3>1, AppendProperties
    <3>3. PICK E2 \in Seq(0..31) :
             /\ E2 = Append(E, d - 7) /\ Len(E2) = l + 1
             /\ E2[l + 1] = d - 7 /\ \A j \in 1..l : E2[j] = E[j]
      BY <3>2
    <3>4. Follows(7, E2, n, last, l, n, bit, l + 1)
      <4>1. bit = last + 7 + (d - 7)
        BY <1>7, <1>8
      <4> QED
        BY <3>3, <4>1 DEF Follows
    <3>5. 7 \in 0..7 /\ l + 1 \in Nat /\ l <= l + 1
      OBVIOUS
    <3> QED
      BY <2>1, <3>3, <3>4, <3>5, Zenon
  <2>2. CASE ~(d >= 7)
    <3>1. d \in 1..6 /\ d \in 0..7 /\ l <= l
      BY <1>8, <2>2
    <3>2. Follows(d, E, n, last, l, n, bit, l)
      BY <1>8, <3>1 DEF Follows
    <3> QED
      BY <1>4, <1>5, <2>2, <3>1, <3>2, Zenon
  <2> QED
    BY <2>1, <2>2
<1>10. x # 0
  <2>1. x = IF d >= 7 THEN 7 ELSE d
    BY <1>9, Zenon
  <2>2. d \in 1..38
    BY <1>8, Zenon
  <2>3. CASE d >= 7
    BY <2>1, <2>3
  <2>4. CASE ~(d >= 7)
    BY <2>1, <2>2, <2>4
  <2> QED
    BY <2>3, <2>4
<1>11. PutBit(out, bit) = [lastBit |-> bit, normalBits |-> Append(N, x), exceptionBits |-> E2]
  BY <1>1, <1>8, <1>9, Zenon DEF PutBit
<1> DEFINE N2 == Append(N, x)
           hs2 == Onward(hs, L, n)
           bs2 == Onward(bs, L, bit)
           ks2 == Onward(ks, L, k)
<1>12. /\ Trace(N2, E2, hs2, bs2, ks2)
       /\ Adds(N, hs, bs, N2, hs2, bs2, x, n, bit)
  <2>1. Follows(x, E2, hs[L], bs[L], ks[L], n, bit, k)
    BY <1>3, <1>5, <1>9
  <2>2. bit \in 0..HashBits /\ k \in 0..Len(E2)
    <3>1. k = Len(E2)
      BY <1>9, Zenon
    <3> QED
      BY <1>6, <3>1
  <2>3. Prolongs(E2, E)
    BY <1>5, <1>9, Zenon DEF Prolongs
  <2> QED
    BY <1>3, <1>5, <2>1, <2>2, <2>3, TraceGoesOn
<1>13. Len(N2) = L + 1 /\ hs2[L + 1] = n /\ bs2[L + 1] = bit /\ ks2[L + 1] = k
  <2>1. Len(N2) = L + 1
    BY <1>4, <1>5, AppendProperties
  <2>2. L + 1 \in 0..(L + 1)
    OBVIOUS
  <2>3. hs2[L + 1] = n /\ bs2[L + 1] = bit /\ ks2[L + 1] = k
    BY <2>2 DEF Onward
  <2> QED
    BY <2>1, <2>3
<1> HIDE DEF N2, hs2, bs2, ks2
<1>14. \A h \in 1..n : BitsAfter(N2, hs2, bs2, h - 1) = V[h]
  <2>1. ASSUME NEW h \in 1..n PROVE BitsAfter(N2, hs2, bs2, h - 1) = V[h]
    <3>1. n # h - 1
      OBVIOUS
    <3>2. BitsAfter(N2, hs2, bs2, h - 1) = BitsAfter(N, hs, bs, h - 1)
      BY <1>12, <3>1 DEF Adds
    <3> QED
      BY <1>3, <3>2
  <2> QED
    BY <2>1
<1>15. BitsAfter(N2, hs2, bs2, n) = open \cup {bit}
  BY <1>3, <1>10, <1>12 DEF Adds
<1>16. Told(N2, E2, hs2, bs2, ks2, bit, V, n, open \cup {bit})
  BY <1>9, <1>12, <1>13, <1>14, <1>15, Zenon DEF Told
<1>17. /\ PutBit(out, bit).lastBit = bit /\ PutBit(out, bit).normalBits = N2
       /\ PutBit(out, bit).exceptionBits = E2
  BY <1>11 DEF N2
<1> QED
  BY <1>16, <1>17, Zenon DEF Tells

\* A value that is closed is told.
LEMMA ValueIsTold ==
    ASSUME NEW out \in Outs, NEW V, NEW n \in Nat, Tells(out, V, n, {}), out.lastBit = 0,
           V[n + 1] \in SUBSET (1..HashBits)
    PROVE  /\ PutValue(out, V[n + 1]).lastBit = 0
           /\ Tells(PutValue(out, V[n + 1]), V, n + 1, {})
<1>1. PICK value \in SUBSET (1..HashBits) : value = V[n + 1]
  OBVIOUS
<1>2. PICK put : /\ Puts(put, out, value)
                 /\ PutValue(out, value) =
                       [lastBit       |-> 0,
                        normalBits    |-> Append(put[HashBits].normalBits, 0),
                        exceptionBits |-> put[HashBits].exceptionBits]
  BY ValuePuts
<1>3. HashBits \in Nat
  BY EncodingAssumption
<1> DEFINE S == {bit \in 0..HashBits : /\ Tells(put[bit], V, n, value \cap (1..bit))
                                       /\ put[bit].lastBit \in 0..bit}
<1>4. 0 \in S
  <2>1. put[0] = out
    BY <1>2, Zenon DEF Puts
  <2>2. value \cap (1..0) = {} /\ 0 \in 0..HashBits /\ 0 \in 0..0
    BY <1>3
  <2> QED
    BY <2>1, <2>2
<1>5. ASSUME NEW bit \in 1..HashBits, bit - 1 \in S PROVE bit \in S
  <2>1. /\ Tells(put[bit - 1], V, n, value \cap (1..(bit - 1)))
        /\ put[bit - 1].lastBit \in 0..(bit - 1)
    BY <1>5
  <2>2. put[bit] = IF bit \in value THEN PutBit(put[bit - 1], bit) ELSE put[bit - 1]
    BY <1>2, Zenon DEF Puts
  <2>3. bit \in 0..HashBits /\ bit \in 0..bit /\ 0..(bit - 1) \subseteq 0..bit
    BY <1>3
  <2>4. CASE bit \in value
    <3>1. put[bit - 1].lastBit < bit
      BY <2>1
    <3>2. /\ PutBit(put[bit - 1], bit).lastBit = bit
          /\ Tells(PutBit(put[bit - 1], bit), V, n, (value \cap (1..(bit - 1))) \cup {bit})
      <4>1. PICK o, w : o = put[bit - 1] /\ w = value \cap (1..(bit - 1))
        OBVIOUS
      <4>2. Tells(o, V, n, w) /\ o.lastBit < bit
        BY <2>1, <3>1, <4>1
      <4>3. PutBit(o, bit).lastBit = bit /\ Tells(PutBit(o, bit), V, n, w \cup {bit})
        BY <4>2, BitIsTold
      <4> QED
        BY <4>1, <4>3
    <3>3. (value \cap (1..(bit - 1))) \cup {bit} = value \cap (1..bit)
      BY <2>4
    <3> QED
      BY <2>2, <2>3, <2>4, <3>2, <3>3
  <2>5. CASE bit \notin value
    <3>1. value \cap (1..(bit - 1)) = value \cap (1..bit)
      BY <2>5
    <3> QED
      BY <2>1, <2>2, <2>3, <2>5, <3>1
  <2> QED
    BY <2>4, <2>5
<1> HIDE DEF S
<1>6. \A bit \in 0..HashBits : bit \in S
  BY <1>3, <1>4, <1>5, Climb
<1>7. Tells(put[HashBits], V, n, value)
  <2>1. HashBits \in S
    BY <1>3, <1>6
  <2>2. value \cap (1..HashBits) = value
    OBVIOUS
  <2> QED
    BY <2>1, <2>2 DEF S
<1>8. PICK N, E, last : N = put[HashBits].normalBits /\ E = put[HashBits].exceptionBits /\ last = put[HashBits].lastBit
  OBVIOUS
<1>9. PICK hs, bs, ks : Told(N, E, hs, bs, ks, last, V, n, value)
  BY <1>7, <1>8, Zenon DEF Tells
<1>10. /\ Trace(N, E, hs, bs, ks)
       /\ hs[Len(N)] = n /\ ks[Len(N)] = Len(E)
       /\ \A h \in 1..n : BitsAfter(N, hs, bs, h - 1) = V[h]
       /\ BitsAfter(N, hs, bs, n) = value
  BY <1>9, Zenon DEF Told
<1>11. N \in Seq(0..7) /\ E \in Seq(0..31) /\ hs \in [0..Len(N) -> Nat]
  BY <1>10, Zenon DEF Trace
<1>12. PICK L \in Nat, l \in Nat : L = Len(N) /\ l = Len(E)
  BY <1>11
<1> DEFINE N2 == Append(N, 0)
           hs2 == Onward(hs, L, n + 1)
           bs2 == Onward(bs, L, 0)
           ks2 == Onward(ks, L, l)
<1>13. /\ Trace(N2, E, hs2, bs2, ks2)
       /\ Adds(N, hs, bs, N2, hs2, bs2, 0, n + 1, 0)
  <2>1. Follows(0, E, hs[L], bs[L], ks[L], n + 1, 0, l)
    BY <1>10, <1>12 DEF Follows
  <2>2. 0 \in 0..HashBits /\ l \in 0..Len(E) /\ 0 \in 0..7 /\ n + 1 \in Nat
    BY <1>3, <1>12
  <2>3. Prolongs(E, E)
    BY <1>11, <1>12 DEF Prolongs
  <2> QED
    BY <1>10, <1>12, <2>1, <2>2, <2>3, TraceGoesOn
<1>14. Len(N2) = L + 1 /\ hs2[L + 1] = n + 1 /\ bs2[L + 1] = 0 /\ ks2[L + 1] = l
  <2>1. Len(N2) = L + 1
    BY <1>11, <1>12, AppendProperties
  <2>2. L + 1 \in 0..(L + 1)
    OBVIOUS
  <2>3. hs2[L + 1] = n + 1 /\ bs2[L + 1] = 0 /\ ks2[L + 1] = l
    BY <2>2 DEF Onward
  <2> QED
    BY <2>1, <2>3
<1> HIDE DEF N2, hs2, bs2, ks2
<1>15. \A m : BitsAfter(N2, hs2, bs2, m) = BitsAfter(N, hs, bs, m)
  BY <1>13 DEF Adds
<1>16. \A h \in 1..(n + 1) : BitsAfter(N2, hs2, bs2, h - 1) = V[h]
  <2>1. ASSUME NEW h \in 1..(n + 1) PROVE BitsAfter(N2, hs2, bs2, h - 1) = V[h]
    <3>1. CASE h = n + 1
      <4>1. h - 1 = n
        BY <3>1
      <4> QED
        BY <1>1, <1>10, <1>15, <3>1, <4>1
    <3>2. CASE h # n + 1
      <4>1. h \in 1..n
        BY <3>2
      <4> QED
        BY <1>10, <1>15, <4>1
    <3> QED
      BY <3>1, <3>2
  <2> QED
    BY <2>1
\* No bit is past the last hash.
<1>17. BitsAfter(N, hs, bs, n + 1) = {}
  <2> SUFFICES ASSUME NEW j \in 1..L, hs[j] = n + 1 PROVE FALSE
    BY <1>12 DEF BitsAfter
  <2>1. j \in 0..L /\ L \in 0..L
    OBVIOUS
  <2>2. hs[j] <= hs[L]
    BY <1>10, <1>12, <2>1, TraceClimbs, Zenon
  <2> QED
    BY <1>10, <1>12, <2>2
<1>18. Told(N2, E, hs2, bs2, ks2, 0, V, n + 1, {})
  BY <1>12, <1>13, <1>14, <1>15, <1>16, <1>17, Zenon DEF Told
<1>19. PutValue(out, value) = [lastBit |-> 0, normalBits |-> N2, exceptionBits |-> E]
  BY <1>2, <1>8, Zenon DEF N2
<1>20. /\ PutValue(out, value).lastBit = 0 /\ PutValue(out, value).normalBits = N2
       /\ PutValue(out, value).exceptionBits = E
  BY <1>19
<1> QED
  BY <1>1, <1>18, <1>20, Zenon DEF Tells

\* All hashes are told, each as its difference from the last.
Values(hashes) == [h \in 1..Len(hashes) |-> Differ(hashes, h)]

\* The differences are within the width of a hash.
LEMMA ValuesAre ==
    ASSUME NEW hashes \in Seq(SUBSET (1..HashBits))
    PROVE  \A h \in 1..Len(hashes) : Differ(hashes, h) \in SUBSET (1..HashBits) /\ Values(hashes)[h] = Differ(hashes, h)
<1> SUFFICES ASSUME NEW h \in 1..Len(hashes)
             PROVE  Differ(hashes, h) \in SUBSET (1..HashBits) /\ Values(hashes)[h] = Differ(hashes, h)
  OBVIOUS
<1>1. Values(hashes)[h] = Differ(hashes, h)
  BY Zenon DEF Values
<1>2. CASE h = 1
  <2>1. hashes[1] \in SUBSET (1..HashBits)
    BY <1>2
  <2> QED
    BY <1>1, <1>2, <2>1 DEF Differ
<1>3. CASE h # 1
  <2>1. h - 1 \in 1..Len(hashes)
    BY <1>3
  <2>2. hashes[h] \in SUBSET (1..HashBits) /\ hashes[h - 1] \in SUBSET (1..HashBits)
    BY <2>1
  <2>3. SymDiff(hashes[h], hashes[h - 1]) \in SUBSET (1..HashBits)
    BY <2>2 DEF SymDiff
  <2> QED
    BY <1>1, <1>3, <2>3 DEF Differ
<1> QED
  BY <1>2, <1>3

\* Before the first hash nothing is told.
LEMMA NothingIsTold ==
    ASSUME NEW V
    PROVE  Nothing \in Outs /\ Nothing.lastBit = 0 /\ Tells(Nothing, V, 0, {})
<1>1. <<>> \in Seq(0..7) /\ <<>> \in Seq(0..31) /\ <<>> \in Seq(Int) /\ Len(<<>>) = 0 /\ HashBits \in Nat
  BY EncodingAssumption
<1> DEFINE f == [i \in 0..0 |-> 0]
<1>2. /\ f \in [0..0 -> Nat] /\ f \in [0..0 -> 0..HashBits] /\ f \in [0..0 -> 0..0] /\ f[0] = 0
  BY <1>1
<1> HIDE DEF f
<1>3. 1..0 = {}
  OBVIOUS
<1>4. Trace(<<>>, <<>>, f, f, f)
  BY <1>1, <1>2, <1>3 DEF Trace
<1>5. BitsAfter(<<>>, f, f, 0) = {}
  BY <1>1, <1>3 DEF BitsAfter
<1>6. Told(<<>>, <<>>, f, f, f, 0, V, 0, {})
  BY <1>1, <1>2, <1>3, <1>4, <1>5 DEF Told
<1>7. Nothing.lastBit = 0 /\ Nothing.normalBits = <<>> /\ Nothing.exceptionBits = <<>>
  BY DEF Nothing
<1>8. Nothing \in Outs
  BY <1>1 DEF Nothing, Outs
<1> QED
  BY <1>6, <1>7, <1>8, Zenon DEF Tells

\* The trace of a whole fingerprint tells its values.
LEMMA FingerprintIsTold ==
    ASSUME NEW hashes \in Seq(SUBSET (1..HashBits))
    PROVE  Tells(AllBits(hashes), Values(hashes), Len(hashes), {})
<1>1. PICK written : Writes(written, hashes) /\ AllBits(hashes) = written[Len(hashes)]
  BY AllBitsWrites
<1>2. PICK l \in Nat : l = Len(hashes)
  OBVIOUS
<1>3. PICK V : V = Values(hashes)
  OBVIOUS
<1>4. \A h \in 1..l : V[h] \in SUBSET (1..HashBits) /\ V[h] = Differ(hashes, h)
  BY <1>2, <1>3, ValuesAre, Zenon
<1> DEFINE S == {h \in 0..l : written[h] \in Outs /\ written[h].lastBit = 0 /\ Tells(written[h], V, h, {})}
<1>5. 0 \in S
  <2>1. written[0] = Nothing
    BY <1>1, Zenon DEF Writes
  <2>2. 0 \in 0..l
    OBVIOUS
  <2> QED
    BY <2>1, <2>2, NothingIsTold
<1>6. ASSUME NEW h \in 1..l, h - 1 \in S PROVE h \in S
  <2>1. PICK out \in Outs, n \in Nat : out = written[h - 1] /\ n = h - 1 /\ n + 1 = h
    BY <1>6
  <2>2. out.lastBit = 0 /\ Tells(out, V, n, {})
    BY <1>6, <2>1
  <2>3. V[n + 1] \in SUBSET (1..HashBits)
    BY <1>4, <2>1
  <2>4. /\ PutValue(out, V[n + 1]).lastBit = 0
        /\ Tells(PutValue(out, V[n + 1]), V, n + 1, {})
    BY <2>2, <2>3, ValueIsTold
  <2>5. PutValue(out, V[n + 1]) \in Outs
    BY PutValueIsOut
  <2>6. written[h] = PutValue(out, V[n + 1])
    <3>1. written[h] = PutValue(written[h - 1], Differ(hashes, h))
      BY <1>1, <1>2, Zenon DEF Writes
    <3> QED
      BY <1>4, <2>1, <3>1
  <2>7. h \in 0..l
    OBVIOUS
  <2> QED
    BY <2>1, <2>4, <2>5, <2>6, <2>7
<1> HIDE DEF S
<1>7. \A h \in 0..l : h \in S
  BY <1>5, <1>6, Climb
<1>8. l \in S
  BY <1>7
<1> QED
  BY <1>1, <1>2, <1>3, <1>8 DEF S

\* What is told, as a whole: the last of the normal bits, if there is any, is a
\* zero, and each value has its bits.
Traced(hashes, N, E, hs, bs, ks) ==
    /\ Trace(N, E, hs, bs, ks)
    /\ hs[Len(N)] = Len(hashes) /\ ks[Len(N)] = Len(E)
    /\ Len(hashes) > 0 => Len(N) > 0 /\ N[Len(N)] = 0
    /\ \A h \in 1..Len(hashes) : BitsAfter(N, hs, bs, h - 1) = Differ(hashes, h)

HasTrace(hashes, N, E) == \E hs, bs, ks : Traced(hashes, N, E, hs, bs, ks)

\* The bits of a fingerprint have a trace that closes every hash.
LEMMA FingerprintIsTraced ==
    ASSUME NEW hashes \in Seq(SUBSET (1..HashBits)),
           NEW N, N = AllBits(hashes).normalBits, NEW E, E = AllBits(hashes).exceptionBits
    PROVE  HasTrace(hashes, N, E)
<1>1. PICK hs, bs, ks : Told(N, E, hs, bs, ks, AllBits(hashes).lastBit, Values(hashes), Len(hashes), {})
  BY FingerprintIsTold, Zenon DEF Tells
<1>2. /\ Trace(N, E, hs, bs, ks)
      /\ hs[Len(N)] = Len(hashes) /\ ks[Len(N)] = Len(E)
      /\ \A h \in 1..Len(hashes) : BitsAfter(N, hs, bs, h - 1) = Values(hashes)[h]
      /\ BitsAfter(N, hs, bs, Len(hashes)) = {}
  BY <1>1, Zenon DEF Told
<1>3. \A h \in 1..Len(hashes) : BitsAfter(N, hs, bs, h - 1) = Differ(hashes, h)
  BY <1>2, ValuesAre, Zenon
<1>4. Len(hashes) > 0 => Len(N) > 0 /\ N[Len(N)] = 0
  <2> SUFFICES ASSUME Len(hashes) > 0 PROVE Len(N) > 0 /\ N[Len(N)] = 0
    OBVIOUS
  <2>1. N \in Seq(0..7) /\ hs[0] = 0
    BY <1>2, Zenon DEF Trace
  <2>2. Len(N) \in Nat /\ Len(N) # 0
    BY <1>2, <2>1
  <2>3. Len(N) \in 1..Len(N)
    BY <2>2
  <2>4. Len(N) \notin {j \in 1..Len(N) : N[j] # 0 /\ hs[j] = Len(hashes)}
    BY <1>2 DEF BitsAfter
  <2> QED
    BY <1>2, <2>2, <2>3, <2>4
<1>5. Traced(hashes, N, E, hs, bs, ks)
  BY <1>2, <1>3, <1>4, Zenon DEF Traced
<1> QED
  BY <1>5, Zenon DEF HasTrace

-----------------------------------------------------------------------------
(* Reading a fingerprint                                                   *)

\* Counting goes on by one where the value is, and never falls.
LEMMA CountGoesOn ==
    ASSUME NEW bits, NEW value
    PROVE  /\ \A n \in Nat : Count(bits, value, n) \in Nat
           /\ Count(bits, value, 0) = 0
           /\ \A n \in Nat \ {0} :
                 Count(bits, value, n) = Count(bits, value, n - 1) + IF bits[n] = value THEN 1 ELSE 0
           /\ \A n \in Nat : \A m \in 0..n : Count(bits, value, m) <= Count(bits, value, n)
<1> DEFINE A(n) == {i \in 1..n : bits[i] = value}
<1>1. \A n : Count(bits, value, n) = Cardinality(A(n))
  BY Zenon DEF Count
<1>2. \A n \in Nat : A(n) \subseteq 1..n
  OBVIOUS
<1>3. A(0) = {}
  OBVIOUS
<1>4. ASSUME NEW n \in Nat \ {0}
      PROVE  /\ A(n) = A(n - 1) \cup IF bits[n] = value THEN {n} ELSE {}
             /\ n \notin A(n - 1)
  OBVIOUS
<1>5. ASSUME NEW n \in Nat, NEW m \in 0..n PROVE A(m) \subseteq A(n)
  OBVIOUS
<1> HIDE DEF A
<1>6. \A n \in Nat : IsFiniteSet(A(n)) /\ Cardinality(A(n)) \in Nat
  <2>1. ASSUME NEW n \in Nat PROVE IsFiniteSet(A(n)) /\ Cardinality(A(n)) \in Nat
    <3>1. IsFiniteSet(A(n))
      BY <1>2, IntervalFromOne, FS_Subset
    <3> QED
      BY <3>1, FS_CardinalityType
  <2> QED
    BY <2>1
<1>7. Cardinality(A(0)) = 0
  BY <1>3, FS_EmptySet
<1>8. ASSUME NEW n \in Nat \ {0}
      PROVE  Cardinality(A(n)) = Cardinality(A(n - 1)) + IF bits[n] = value THEN 1 ELSE 0
  <2>1. n - 1 \in Nat
    OBVIOUS
  <2>2. IsFiniteSet(A(n - 1)) /\ Cardinality(A(n - 1)) \in Nat
    BY <1>6, <2>1
  <2>3. CASE bits[n] = value
    <3>1. A(n) = A(n - 1) \cup {n}
      BY <1>4, <2>3
    <3>2. Cardinality(A(n - 1) \cup {n}) = Cardinality(A(n - 1)) + 1
      BY <1>4, <2>2, FS_AddElement
    <3> QED
      BY <2>3, <3>1, <3>2
  <2>4. CASE bits[n] # value
    <3>1. A(n) = A(n - 1)
      BY <1>4, <2>4
    <3> QED
      BY <2>2, <2>4, <3>1
  <2> QED
    BY <2>3, <2>4
<1>9. ASSUME NEW n \in Nat, NEW m \in 0..n PROVE Cardinality(A(m)) <= Cardinality(A(n))
  <2>1. A(m) \subseteq A(n) /\ IsFiniteSet(A(n))
    BY <1>5, <1>6
  <2> QED
    BY <2>1, FS_Subset
<1> QED
  BY <1>1, <1>6, <1>7, <1>8, <1>9

\* A reader of the normal bits counts what was traced.
Agree(bits, N, m) == \A i \in 1..m : bits[i] = N[i]

Counted(bits, hs, ks, m) == \A i \in 0..m : Count(bits, 0, i) = hs[i] /\ Count(bits, 7, i) = ks[i]

\* As far as the normal bits agree, their counts are the traced ones.
LEMMA CountsAreTraced ==
    ASSUME NEW N, NEW E, NEW hs, NEW bs, NEW ks, Trace(N, E, hs, bs, ks),
           NEW bits, NEW m \in 0..Len(N), Agree(bits, N, m)
    PROVE  Counted(bits, hs, ks, m)
<1>1. N \in Seq(0..7) /\ hs \in [0..Len(N) -> Nat] /\ ks \in [0..Len(N) -> 0..Len(E)] /\ E \in Seq(0..31)
      /\ hs[0] = 0 /\ ks[0] = 0
  BY Zenon DEF Trace
<1>2. PICK L \in Nat : L = Len(N)
  BY <1>1
<1>3. m \in Nat /\ m <= L
  BY <1>2
<1> DEFINE S == {i \in 0..m : Count(bits, 0, i) = hs[i] /\ Count(bits, 7, i) = ks[i]}
<1>4. 0 \in S
  BY <1>1, <1>3, CountGoesOn
<1>5. ASSUME NEW i \in 1..m, i - 1 \in S PROVE i \in S
  <2>1. i \in Nat \ {0} /\ i \in 0..m /\ i \in 1..Len(N) /\ bits[i] = N[i]
    BY <1>2, <1>3 DEF Agree
  <2>2. i \in 0..Len(N) /\ i - 1 \in 0..Len(N)
    BY <1>2, <1>3
  <2>3. Follows(N[i], E, hs[i - 1], bs[i - 1], ks[i - 1], hs[i], bs[i], ks[i])
    BY <2>1, Zenon DEF Trace
  <2>4. PICK x, h, k, h1, k1 : x = N[i] /\ h = hs[i - 1] /\ k = ks[i - 1] /\ h1 = hs[i] /\ k1 = ks[i]
    OBVIOUS
  <2>5. h \in Nat /\ k \in Nat
    <3>1. hs[i - 1] \in Nat /\ ks[i - 1] \in 0..Len(E)
      BY <1>1, <2>2
    <3> QED
      BY <2>4, <3>1
  <2>6. Count(bits, 0, i - 1) = h /\ Count(bits, 7, i - 1) = k
    BY <1>5, <2>4
  <2>7. /\ Count(bits, 0, i) = h + IF x = 0 THEN 1 ELSE 0
        /\ Count(bits, 7, i) = k + IF x = 7 THEN 1 ELSE 0
    <3>1. /\ Count(bits, 0, i) = Count(bits, 0, i - 1) + IF bits[i] = 0 THEN 1 ELSE 0
          /\ Count(bits, 7, i) = Count(bits, 7, i - 1) + IF bits[i] = 7 THEN 1 ELSE 0
      <4>1. \A n \in Nat \ {0} : Count(bits, 0, n) = Count(bits, 0, n - 1) + IF bits[n] = 0 THEN 1 ELSE 0
        BY CountGoesOn
      <4>2. \A n \in Nat \ {0} : Count(bits, 7, n) = Count(bits, 7, n - 1) + IF bits[n] = 7 THEN 1 ELSE 0
        BY CountGoesOn
      <4>3. i \in Nat \ {0}
        BY <2>1
      <4> QED
        BY <4>1, <4>2, <4>3, Zenon
    <3> QED
      BY <2>1, <2>4, <2>6, <3>1
  <2>8. \/ x = 0 /\ h1 = h + 1 /\ k1 = k
        \/ x \in 1..6 /\ h1 = h /\ k1 = k
        \/ x = 7 /\ h1 = h /\ k1 = k + 1
    BY <2>3, <2>4 DEF Follows
  <2>9. Count(bits, 0, i) = h1 /\ Count(bits, 7, i) = k1
    BY <2>5, <2>7, <2>8
  <2> QED
    BY <2>1, <2>4, <2>9
<1> HIDE DEF S
<1>6. \A i \in 0..m : i \in S
  BY <1>3, <1>4, <1>5, Climb
<1> QED
  BY <1>6 DEF S, Counted

\* The parts of unpackFingerprint.
ReadBits(data) == UnpackUint3Slice(data.packed)

SizeIn(bits, total) == CHOOSE n \in DOMAIN bits : bits[n] = 0 /\ Count(bits, 0, n) = total

Exceptional(data, size) ==
    UnpackUint5Slice(SubSeq(data.packed, ExceptionsAt(size) + 1, Len(data.packed)))

LastLoop(f, bits, exceptionalBits, size) ==
    [i \in 0..size |->
        IF i = 0 THEN 0 ELSE IF bits[i] = 0 THEN 0
        ELSE (f[i - 1] + (IF bits[i] = 7 THEN 7 + exceptionalBits[Count(bits, 7, i)] ELSE bits[i])) % 256]

LastBits(bits, exceptionalBits, size) == CHOOSE f : f = LastLoop(f, bits, exceptionalBits, size)

ValueOf(bits, lastBit, size, h) ==
    BitsSet({lastBit[i] : i \in {n \in 1..size : bits[n] # 0 /\ Count(bits, 0, n) = h - 1}})

HashLoop(g, bits, lastBit, size, total) ==
    [h \in 1..total |->
        IF h = 1 THEN ValueOf(bits, lastBit, size, 1)
        ELSE SymDiff(ValueOf(bits, lastBit, size, h), g[h - 1])]

HashesIn(bits, lastBit, size, total) == CHOOSE g : g = HashLoop(g, bits, lastBit, size, total)

Refused(data) ==
    LET bits == ReadBits(data)
        size == SizeIn(bits, data.total)
    IN  \/ data = NoData
        \/ data.total = 0
        \/ Count(bits, 0, Len(bits)) < data.total
        \/ Len(Exceptional(data, size)) < Count(bits, 7, size)

Unpacked(data, bits, size) ==
    [version |-> data.version,
     hashes  |-> [h \in 1..data.total |->
         HashesIn(bits, LastBits(bits, Exceptional(data, size), size), size, data.total)[h]]]

\* unpackFingerprint is made of these parts.
LEMMA UnpackIs ==
    ASSUME NEW data
    PROVE  unpackFingerprint(data) =
               IF Refused(data) THEN Invalid
               ELSE Unpacked(data, ReadBits(data), SizeIn(ReadBits(data), data.total))
BY Zenon DEF unpackFingerprint, ReadBits, SizeIn, Exceptional, LastLoop, LastBits, ValueOf, HashLoop,
             HashesIn, Refused, Unpacked

\* What a reader finds in packed data, or in the beginning of it: each value it
\* has all bits of, every value if nothing is cut off, and not every value if
\* it lost a byte.
Narrow(w, values) == values \in Seq(0..255) /\ \A j \in 1..Len(values) : values[j] < TwoTo(w)

Begins(packed, m, all) == Len(packed) = m /\ \A n \in 1..m : n <= Len(all) => packed[n] = all[n]

PartRead(bits, values, m, size) ==
    /\ Len(bits) \in Nat /\ DOMAIN bits = 1..Len(bits)
    /\ \A i \in 1..Len(bits) : i <= Len(values) => bits[i] = values[i]
    /\ m >= size => Len(bits) >= Len(values)
    /\ m < size /\ m % 8 = 0 => Len(bits) < Len(values)

\* What UnpackUint reads of the beginning of what PackUint wrote.
LEMMA PartIsRead ==
    ASSUME NEW w \in Widths, NEW values, Narrow(w, values),
           NEW packed, NEW m \in Nat, Begins(packed, m, PackUint(w, values))
    PROVE  PartRead(UnpackUint(w, packed), values, m, Len(PackUint(w, values)))
<1>0. /\ values \in Seq(0..255) /\ \A j \in 1..Len(values) : values[j] < TwoTo(w)
      /\ Len(packed) = m
      /\ \A n \in 1..m : n <= Len(PackUint(w, values)) => packed[n] = PackUint(w, values)[n]
  BY Zenon DEF Narrow, Begins
<1> DEFINE bits == UnpackUint(w, packed)
<1>1. PICK l \in Nat : l = Len(values)
  BY <1>0, Elements
<1>2. PICK D \in Nat : D = m \div w /\ w * D <= m /\ m < w * (D + 1)
  <2>1. w = 1 \/ w = 2 \/ w = 3 \/ w = 4 \/ w = 5 \/ w = 6 \/ w = 7
    BY DEF Widths
  <2>2. m \div w \in Nat /\ w * (m \div w) <= m /\ m < w * ((m \div w) + 1)
    BY <2>1
  <2> QED
    BY <2>2
<1>3. bits = [i \in 1..D |-> UnpackedValue(w, packed, i)]
  BY <1>0, <1>2, Zenon DEF UnpackUint
<1> HIDE DEF bits
<1>4. Len(bits) = D /\ DOMAIN bits = 1..D /\ \A i \in 1..D : bits[i] = UnpackedValue(w, packed, i)
  BY <1>3
<1>5. PICK p \in Nat, x \in Nat : p = Len(PackUint(w, values)) /\ x = w * l /\ p = 8 * ((x + 7) \div 8)
  <2>1. PICK x \in Nat : x = w * l
    BY DEF Widths
  <2>2. Len(PackUint(w, values)) = 8 * ((x + 7) \div 8)
    BY <1>0, <1>1, <2>1, PackedIsData DEF Bytes
  <2>3. 8 * ((x + 7) \div 8) \in Nat
    BY <2>1
  <2> QED
    BY <2>1, <2>2, <2>3
<1>6. ASSUME NEW i \in 1..D, i <= l PROVE bits[i] = values[i]
  <2>1. i \in 1..Len(values)
    BY <1>1, <1>6
  <2>2. PICK y \in Nat : y = w * i /\ y <= p /\ y <= m
    <3>1. PICK y \in Nat : y = w * i
      BY DEF Widths
    <3>2. w * i <= w * D /\ w * D \in Int
      BY DEF Widths
    <3>3. w * i <= p
      BY <1>0, <1>5, <2>1, ValueFits
    <3> QED
      BY <1>2, <3>1, <3>2, <3>3
  <2>3. \A n \in 1..(w * i) : packed[n] = PackUint(w, values)[n]
    BY <1>0, <1>5, <2>2
  <2>4. UnpackedValue(w, packed, i) = values[i]
    BY <1>0, <2>1, <2>3, NarrowIsRead
  <2> QED
    BY <1>4, <2>4
<1>7. w * D \in Int /\ w * (D + 1) \in Int /\ w * l \in Int
  BY DEF Widths
<1>8. m >= p => D >= l
  <2> SUFFICES ASSUME m >= p, D < l PROVE FALSE
    OBVIOUS
  <2>1. w * (D + 1) <= w * l
    BY DEF Widths
  <2>2. p >= x
    BY <1>5
  <2> QED
    BY <1>2, <1>5, <1>7, <2>1, <2>2
<1>9. m < p /\ m % 8 = 0 => D < l
  <2> SUFFICES ASSUME m < p, m % 8 = 0, D >= l PROVE FALSE
    OBVIOUS
  <2>1. w * l <= w * D
    BY DEF Widths
  <2>2. m < x
    <3>1. PICK q \in Nat : m = 8 * q
      <4>1. m = 8 * (m \div 8) /\ m \div 8 \in Nat
        OBVIOUS
      <4> QED
        BY <4>1
    <3> QED
      BY <1>5, <3>1
  <2>3. x = w * l /\ w * D <= m
    BY <1>2, <1>5, Zenon
  <2> QED
    BY <1>7, <2>1, <2>2, <2>3
<1> QED
  BY <1>1, <1>4, <1>5, <1>6, <1>8, <1>9 DEF PartRead, bits

\* The two kinds of bits that follow each other, or the beginning of them.
ReadsOf(N, E, bits, exc, c, whole) ==
    /\ Len(bits) \in Nat /\ DOMAIN bits = 1..Len(bits) /\ Len(exc) \in Nat
    /\ \A i \in 1..Len(bits) : i <= Len(N) => bits[i] = N[i]
    /\ \A i \in 1..Len(exc) : i <= Len(E) => exc[i] = E[i]
    /\ c = Len(whole) => Len(bits) >= Len(N) /\ Len(exc) >= Len(E)
    /\ c < Len(whole) /\ c % 8 = 0 => Len(bits) < Len(N) \/ Len(exc) < Len(E)

\* What unpackFingerprint reads of the beginning of the packed bits.
LEMMA BothAreRead ==
    ASSUME NEW N \in Seq(0..7), NEW E \in Seq(0..31),
           NEW whole, whole = PackUint3Slice(N) \o PackUint5Slice(E),
           NEW cut \in Seq({0, 1}), Len(cut) <= Len(whole), \A n \in 1..Len(cut) : cut[n] = whole[n]
    PROVE  ReadsOf(N, E, UnpackUint3Slice(cut),
                   UnpackUint5Slice(SubSeq(cut, ExceptionsAt(Len(N)) + 1, Len(cut))), Len(cut), whole)
<1>1. N \in Seq(0..255) /\ E \in Seq(0..255) /\ Narrow(3, N) /\ Narrow(5, E)
  <2>1. N \in Seq(0..255) /\ E \in Seq(0..255)
    OBVIOUS
  <2>2. \A j \in 1..Len(N) : N[j] < 8
    <3>1. \A j \in 1..Len(N) : N[j] \in 0..7
      BY Elements
    <3>2. \A x \in 0..7 : x < 8
      OBVIOUS
    <3> QED
      BY <3>1, <3>2, Zenon
  <2>3. \A j \in 1..Len(E) : E[j] < 32
    <3>1. \A j \in 1..Len(E) : E[j] \in 0..31
      BY Elements
    <3>2. \A x \in 0..31 : x < 32
      OBVIOUS
    <3> QED
      BY <3>1, <3>2, Zenon
  <2>4. TwoTo(3) = 8 /\ TwoTo(5) = 32
    BY TwoTos
  <2> QED
    BY <2>1, <2>2, <2>3, <2>4 DEF Narrow
<1>2. PICK P \in Seq({0, 1}), Q \in Seq({0, 1}) :
         /\ P = PackUint(3, N) /\ Q = PackUint(5, E)
         /\ Len(P) = 8 * Bytes(3 * Len(N)) /\ Bytes(3 * Len(N)) \in Nat
  <2>1. 3 \in Widths /\ 5 \in Widths
    BY DEF Widths
  <2>2. /\ PackUint(3, N) \in Seq({0, 1}) /\ Bytes(3 * Len(N)) \in Nat
        /\ Len(PackUint(3, N)) = 8 * Bytes(3 * Len(N))
    BY <1>1, <2>1, PackedIsData, Zenon
  <2>3. PackUint(5, E) \in Seq({0, 1})
    BY <1>1, <2>1, PackedIsData, Zenon
  <2> QED
    BY <2>2, <2>3
<1>3. PICK c \in Nat, p \in Nat, q \in Nat : c = Len(cut) /\ p = Len(P) /\ q = Len(Q)
  OBVIOUS
<1>4. whole = P \o Q
  BY <1>2 DEF PackUint3Slice, PackUint5Slice
<1>5. /\ Len(whole) = p + q
      /\ \A n \in 1..p : whole[n] = P[n]
      /\ \A n \in 1..q : whole[p + n] = Q[n]
  BY <1>3, <1>4
<1>6. ExceptionsAt(Len(N)) = p /\ p % 8 = 0
  BY <1>2, <1>3 DEF ExceptionsAt
<1> DEFINE rest == SubSeq(cut, ExceptionsAt(Len(N)) + 1, Len(cut))
<1>7. PICK r \in Nat :
         /\ Len(rest) = r /\ r = IF c >= p THEN c - p ELSE 0
         /\ \A n \in 1..r : rest[n] = cut[p + n]
  <2>1. rest = SubSeq(cut, p + 1, c)
    BY <1>3, <1>6
  <2> HIDE DEF rest
  <2>2. CASE c >= p
    <3>1. Len(rest) = c - p /\ \A n \in 1..(c - p) : rest[n] = cut[p + n]
      BY <1>3, <2>1, <2>2
    <3>2. c - p \in Nat
      BY <2>2
    <3> QED
      BY <2>2, <3>1, <3>2
  <2>3. CASE ~(c >= p)
    <3>1. Len(rest) = 0 /\ 1..0 = {}
      BY <1>3, <2>1, <2>3
    <3> QED
      BY <2>3, <3>1
  <2> QED
    BY <2>2, <2>3
<1> HIDE DEF rest
<1>8. PICK bits, exc : bits = UnpackUint3Slice(cut) /\ exc = UnpackUint5Slice(rest)
  OBVIOUS
<1>9. /\ Len(bits) \in Nat /\ DOMAIN bits = 1..Len(bits)
      /\ \A i \in 1..Len(bits) : i <= Len(N) => bits[i] = N[i]
      /\ c >= p => Len(bits) >= Len(N)
      /\ c < p /\ c % 8 = 0 => Len(bits) < Len(N)
  <2>1. bits = UnpackUint(3, cut) /\ 3 \in Widths
    BY <1>8 DEF UnpackUint3Slice, Widths
  <2>2. Begins(cut, c, PackUint(3, N))
    <3> SUFFICES ASSUME NEW n \in 1..c, n <= p PROVE cut[n] = P[n]
      BY <1>2, <1>3 DEF Begins
    <3>1. n \in 1..p
      OBVIOUS
    <3> QED
      BY <1>3, <1>5, <3>1
  <2>3. PartRead(bits, N, c, Len(PackUint(3, N)))
    BY <1>1, <2>1, <2>2, PartIsRead
  <2> QED
    BY <1>2, <1>3, <2>3 DEF PartRead
<1>10. /\ Len(exc) \in Nat
       /\ \A i \in 1..Len(exc) : i <= Len(E) => exc[i] = E[i]
       /\ r >= q => Len(exc) >= Len(E)
       /\ r < q /\ r % 8 = 0 => Len(exc) < Len(E)
  <2>1. exc = UnpackUint(5, rest) /\ 5 \in Widths
    BY <1>8 DEF UnpackUint5Slice, Widths
  <2>2. Begins(rest, r, PackUint(5, E))
    <3> SUFFICES ASSUME NEW n \in 1..r, n <= q PROVE rest[n] = Q[n]
      BY <1>2, <1>3, <1>7 DEF Begins
    <3>1. n \in 1..q /\ p + n \in 1..c
      BY <1>7
    <3> QED
      BY <1>3, <1>5, <1>7, <3>1
  <2>3. PartRead(exc, E, r, Len(PackUint(5, E)))
    BY <1>1, <2>1, <2>2, PartIsRead
  <2> QED
    BY <1>2, <1>3, <2>3 DEF PartRead
<1>11. c = p + q => c >= p /\ r >= q
  BY <1>7
<1>12. c < p + q /\ c % 8 = 0 => (c < p /\ c % 8 = 0) \/ (r < q /\ r % 8 = 0)
  <2> SUFFICES ASSUME c < p + q, c % 8 = 0, ~(c < p) PROVE r < q /\ r % 8 = 0
    OBVIOUS
  <2>1. r = c - p
    BY <1>7
  <2>2. PICK a \in Int, b \in Int : c = 8 * a /\ p = 8 * b
    <3>1. c = 8 * (c \div 8) /\ p = 8 * (p \div 8) /\ c \div 8 \in Int /\ p \div 8 \in Int
      BY <1>6
    <3> QED
      BY <3>1
  <2>3. r < q
    BY <2>1
  <2>4. r = 8 * (a - b)
    BY <2>1, <2>2
  <2> QED
    BY <2>3, <2>4
<1>13. ReadsOf(N, E, bits, exc, c, whole)
  BY <1>5, <1>9, <1>10, <1>11, <1>12 DEF ReadsOf
<1> QED
  BY <1>3, <1>8, <1>13 DEF rest

\* A zero that closes the last hash is the end of the normal bits.
LEMMA SizeIsThere ==
    ASSUME NEW bits, NEW D \in Nat, DOMAIN bits = 1..D, NEW L \in 1..D, NEW total,
           bits[L] = 0, Count(bits, 0, L) = total
    PROVE  SizeIn(bits, total) = L
<1> DEFINE Closed(n) == bits[n] = 0 /\ Count(bits, 0, n) = total
<1>1. \A n \in Nat : Count(bits, 0, n) \in Nat
  BY CountGoesOn
<1>2. ASSUME NEW m \in 1..D, NEW n \in 1..D, m < n, bits[n] = 0
      PROVE  Count(bits, 0, m) # Count(bits, 0, n)
  <2>1. m \in Nat /\ n \in Nat \ {0} /\ n - 1 \in Nat /\ m \in 0..(n - 1)
    BY <1>2
  <2>2. Count(bits, 0, n) = Count(bits, 0, n - 1) + 1
    BY <1>2, <2>1, CountGoesOn
  <2>3. Count(bits, 0, m) <= Count(bits, 0, n - 1)
    BY <2>1, CountGoesOn
  <2> QED
    BY <1>1, <2>1, <2>2, <2>3
<1>3. Closed(L)
  OBVIOUS
<1>4. ASSUME NEW n \in 1..D, Closed(n) PROVE n = L
  <2>1. ~(n < L) /\ ~(L < n)
    BY <1>2, <1>4
  <2> QED
    BY <2>1
<1>5. SizeIn(bits, total) = CHOOSE n \in 1..D : Closed(n)
  BY Zenon DEF SizeIn
<1> HIDE DEF Closed
<1> QED
  BY <1>3, <1>4, <1>5

\* The last bits a reader finds are those that were traced.
AgreeFromZero(f, g, n) == \A i \in 0..n : f[i] = g[i]

\* Where the bits agree, the last bits are the traced ones.
LEMMA LastBitsAreTraced ==
    ASSUME NEW N, NEW E, NEW hs, NEW bs, NEW ks, Trace(N, E, hs, bs, ks), NEW L \in Nat, L = Len(N),
           NEW bits, NEW exc,
           Agree(bits, N, L), Agree(exc, E, Len(E)), Counted(bits, hs, ks, L)
    PROVE  AgreeFromZero(LastBits(bits, exc, L), bs, L)
<1>1. /\ N \in Seq(0..7) /\ E \in Seq(0..31)
      /\ bs \in [0..L -> 0..HashBits] /\ ks \in [0..L -> 0..Len(E)]
      /\ bs[0] = 0
      /\ \A i \in 1..L : Follows(N[i], E, hs[i - 1], bs[i - 1], ks[i - 1], hs[i], bs[i], ks[i])
  BY Zenon DEF Trace
<1>0. /\ \A i \in 1..L : bits[i] = N[i]
      /\ \A j \in 1..Len(E) : exc[j] = E[j]
      /\ \A i \in 0..L : Count(bits, 7, i) = ks[i]
  BY Zenon DEF Agree, Counted
<1> DEFINE bit(i) == IF bits[i] = 7 THEN 7 + exc[Count(bits, 7, i)] ELSE bits[i]
           next(f, i) == IF i = 0 THEN 0 ELSE IF bits[i] = 0 THEN 0 ELSE (f[i - 1] + bit(i)) % 256
<1>2. \A f : LastLoop(f, bits, exc, L) = [i \in 0..L |-> next(f, i)]
  BY Zenon DEF LastLoop
<1>3. ASSUME NEW i \in 0..L PROVE bs[i] = next(bs, i)
  <2>1. CASE i = 0
    BY <1>1, <2>1
  <2>2. CASE i # 0
    <3>1. i \in 1..L /\ i - 1 \in 0..L /\ bits[i] = N[i] /\ Count(bits, 7, i) = ks[i]
      BY <1>0, <2>2
    <3>2. bs[i - 1] \in Nat /\ bs[i] \in Nat /\ ks[i] \in Nat /\ ks[i - 1] \in Nat
      <4>1. bs[i - 1] \in 0..HashBits /\ bs[i] \in 0..HashBits /\ ks[i] \in 0..Len(E) /\ ks[i - 1] \in 0..Len(E)
        BY <1>1, <3>1, Zenon
      <4> QED
        BY <4>1
    <3>3. PICK b \in Nat, b1 \in Nat : b = bs[i - 1] /\ b1 = bs[i]
      BY <3>2
    <3>4. PICK k \in Nat, k1 \in Nat : k = ks[i - 1] /\ k1 = ks[i]
      BY <3>2
    <3>0. PICK x : x = N[i]
      OBVIOUS
    <3>5. x = N[i] /\ b = bs[i - 1] /\ b1 = bs[i] /\ k = ks[i - 1] /\ k1 = ks[i]
      BY <3>0, <3>3, <3>4
    <3>6. k1 <= Len(E)
      <4>1. Len(E) \in Nat
        BY <1>1
      <4>2. ks[i] \in 0..Len(E)
        BY <1>1, <3>1, Zenon
      <4>3. k1 \in 0..Len(E)
        BY <3>4, <4>2, Zenon
      <4> QED
        BY <4>1, <4>3
    <3>12. b1 <= 38
      <4>1. HashBits \in 1..38
        BY EncodingAssumption, Zenon
      <4>2. bs[i] \in 0..HashBits
        BY <1>1, <3>1, Zenon
      <4>3. b1 \in 0..HashBits
        BY <3>3, <4>2, Zenon
      <4> QED
        BY <4>1, <4>3
    <3>7. \/ x = 0 /\ b1 = 0
          \/ x \in 1..6 /\ b1 = b + x
          \/ x = 7 /\ k1 = k + 1 /\ b1 = b + 7 + E[k1]
      BY <1>1, <3>1, <3>5 DEF Follows
    <3>8. b1 % 256 = b1
      BY <3>12
    <3>9. CASE x = 0
      BY <2>2, <3>1, <3>5, <3>7, <3>9
    <3>10. CASE x \in 1..6
      <4>0. bits[i] = x /\ x # 0 /\ x # 7
        BY <3>1, <3>5, <3>10
      <4>1. bit(i) = x /\ bits[i] # 0
        BY <4>0, Zenon
      <4>2. b1 = b + x
        BY <3>7, <3>10
      <4> HIDE DEF bit
      <4> QED
        BY <2>2, <3>5, <3>8, <4>1, <4>2
    <3>11. CASE x = 7
      <4>1. k1 \in 1..Len(E) /\ E[k1] \in 0..31
        <5>1. k1 \in 1..Len(E)
          BY <1>1, <3>7, <3>11, <3>6
        <5> QED
          BY <1>1, <5>1, Elements
      <4>2. bit(i) = 7 + E[k1] /\ bits[i] # 0
        BY <1>0, <3>1, <3>5, <3>11, <4>1
      <4>3. b1 = b + (7 + E[k1])
        <5>1. PICK e \in Int : e = E[k1]
          BY <4>1
        <5>0. x # 0 /\ x \notin 1..6
          BY <3>11
        <5>2. b1 = b + 7 + E[k1]
          BY <3>7, <5>0, Zenon
        <5>3. b1 = b + 7 + e
          BY <5>1, <5>2
        <5>4. b1 = b + (7 + e)
          BY <5>3
        <5> QED
          BY <5>1, <5>4
      <4> HIDE DEF bit
      <4> QED
        BY <2>2, <3>5, <3>8, <4>2, <4>3
    <3> QED
      BY <3>7, <3>9, <3>10, <3>11
  <2> QED
    BY <2>1, <2>2
<1> DEFINE f == LastBits(bits, exc, L)
<1>4. bs = LastLoop(bs, bits, exc, L)
  <2> HIDE DEF next
  <2>1. bs = [i \in 0..L |-> next(bs, i)]
    BY <1>1, <1>3
  <2> QED
    BY <1>2, <2>1
<1>5. f = LastLoop(f, bits, exc, L)
  BY <1>4, Zenon DEF LastBits
<1> HIDE DEF f
<1>6. ASSUME NEW i \in 0..L PROVE f[i] = next(f, i)
  <2> HIDE DEF next
  <2>1. f = [j \in 0..L |-> next(f, j)]
    BY <1>2, <1>5
  <2> QED
    BY <2>1, Zenon
<1> DEFINE S == {i \in 0..L : f[i] = bs[i]}
<1>7. 0 \in S
  BY <1>1, <1>6
<1>8. ASSUME NEW i \in 1..L, i - 1 \in S PROVE i \in S
  <2>1. i \in 0..L /\ f[i - 1] = bs[i - 1]
    BY <1>8
  <2>2. next(f, i) = next(bs, i)
    BY <2>1, Zenon
  <2> HIDE DEF next
  <2> QED
    BY <1>3, <1>6, <2>1, <2>2
<1> HIDE DEF S
<1>9. \A i \in 0..L : i \in S
  BY <1>7, <1>8, Climb
<1> QED
  BY <1>9 DEF S, f, AgreeFromZero

\* Hashes are there if each value is the difference from the last hash.
LEMMA HashesAreThere ==
    ASSUME NEW hashes \in Seq(SUBSET (1..HashBits)), NEW t \in Nat, t = Len(hashes),
           NEW bits, NEW lastBit, NEW size,
           \A h \in 1..t : ValueOf(bits, lastBit, size, h) = Differ(hashes, h)
    PROVE  [h \in 1..t |-> HashesIn(bits, lastBit, size, t)[h]] = hashes
<1> DEFINE next(g, h) == IF h = 1 THEN ValueOf(bits, lastBit, size, 1)
                         ELSE SymDiff(ValueOf(bits, lastBit, size, h), g[h - 1])
<1>1. \A g : HashLoop(g, bits, lastBit, size, t) = [h \in 1..t |-> next(g, h)]
  BY Zenon DEF HashLoop
<1>2. ASSUME NEW h \in 1..t PROVE hashes[h] = next(hashes, h)
  <2>1. CASE h = 1
    BY <2>1 DEF Differ
  <2>2. CASE h # 1
    <3>1. h - 1 \in 1..t
      BY <2>2
    <3>2. PICK A, B : A = hashes[h] /\ B = hashes[h - 1]
      OBVIOUS
    <3>3. next(hashes, h) = SymDiff(SymDiff(A, B), B)
      BY <2>2, <3>2 DEF Differ
    <3>4. SymDiff(SymDiff(A, B), B) = A
      BY DEF SymDiff
    <3> QED
      BY <3>2, <3>3, <3>4
  <2> QED
    BY <2>1, <2>2
<1>3. hashes = [h \in 1..t |-> hashes[h]]
  OBVIOUS
<1>4. hashes = HashLoop(hashes, bits, lastBit, size, t)
  <2> HIDE DEF next
  <2>1. [h \in 1..t |-> hashes[h]] = [h \in 1..t |-> next(hashes, h)]
    BY <1>2, Zenon
  <2> QED
    BY <1>1, <1>3, <2>1
<1> DEFINE g == HashesIn(bits, lastBit, size, t)
<1>5. g = HashLoop(g, bits, lastBit, size, t)
  BY <1>4, Zenon DEF HashesIn
<1> HIDE DEF g
<1>6. ASSUME NEW h \in 1..t PROVE g[h] = next(g, h)
  <2> HIDE DEF next
  <2>1. g = [j \in 1..t |-> next(g, j)]
    BY <1>1, <1>5
  <2> QED
    BY <2>1, Zenon
<1> DEFINE S == {h \in 0..t : h # 0 => g[h] = hashes[h]}
<1>7. 0 \in S
  OBVIOUS
<1>8. ASSUME NEW h \in 1..t, h - 1 \in S PROVE h \in S
  <2>1. h \in 0..t
    OBVIOUS
  <2>2. next(g, h) = next(hashes, h)
    <3>1. CASE h = 1
      BY <3>1
    <3>2. CASE h # 1
      <4>1. g[h - 1] = hashes[h - 1]
        BY <1>8, <3>2
      <4> QED
        BY <4>1, Zenon
    <3> QED
      BY <3>1, <3>2
  <2> HIDE DEF next
  <2> QED
    BY <1>2, <1>6, <2>1, <2>2
<1> HIDE DEF S, next
<1>9. \A h \in 0..t : h \in S
  BY <1>7, <1>8, Climb
<1>10. \A h \in 1..t : g[h] = hashes[h]
  <2>1. \A h \in 1..t : h \in 0..t /\ h # 0
    OBVIOUS
  <2> QED
    BY <1>9, <2>1 DEF S
<1>11. [h \in 1..t |-> g[h]] = [h \in 1..t |-> hashes[h]]
  BY <1>10, Zenon
<1> QED
  BY <1>3, <1>11 DEF g

\* The data that is written.
WrittenBits(hashes) ==
    PackUint3Slice(AllBits(hashes).normalBits) \o PackUint5Slice(AllBits(hashes).exceptionBits)

Header(version, total, packed) == [version |-> version, total |-> total, packed |-> packed]

\* What CompressFingerprint returns, and what it is with other bits.
LEMMA WrittenIsData ==
    ASSUME NEW fp
    PROVE  /\ CompressFingerprint(fp) =
                  Header(fp.version % 256, Len(fp.hashes) % MaxTotal, WrittenBits(fp.hashes))
           /\ \A cut : [CompressFingerprint(fp) EXCEPT !.packed = cut] =
                  Header(fp.version % 256, Len(fp.hashes) % MaxTotal, cut)
<1>1. CompressFingerprint(fp) =
          Header(fp.version % 256, Len(fp.hashes) % MaxTotal, WrittenBits(fp.hashes))
  BY Zenon DEF CompressFingerprint, Header, WrittenBits
<1>2. \A v, t, p, cut : [Header(v, t, p) EXCEPT !.packed = cut] = Header(v, t, cut)
  BY DEF Header
<1> QED
  BY <1>1, <1>2

\* Packed data is whole bytes.
LEMMA WrittenIsBits ==
    ASSUME NEW hashes \in Seq(SUBSET (1..HashBits))
    PROVE  /\ WrittenBits(hashes) \in Seq({0, 1})
           /\ Len(WrittenBits(hashes)) % 8 = 0
<1>1. PICK N, E : N = AllBits(hashes).normalBits /\ E = AllBits(hashes).exceptionBits
  OBVIOUS
<1>2. PICK hs, bs, ks : Trace(N, E, hs, bs, ks)
  BY <1>1, FingerprintIsTraced, Zenon DEF HasTrace, Traced
<1>3. N \in Seq(0..255) /\ E \in Seq(0..255)
  <2>1. N \in Seq(0..7) /\ E \in Seq(0..31)
    BY <1>2, Zenon DEF Trace
  <2> QED
    BY <2>1
<1>4. 3 \in Widths /\ 5 \in Widths
  BY DEF Widths
<1>5. PICK P \in Seq({0, 1}), p \in Nat : P = PackUint(3, N) /\ Len(P) = 8 * p
  <2>1. /\ PackUint(3, N) \in Seq({0, 1}) /\ Bytes(3 * Len(N)) \in Nat
        /\ Len(PackUint(3, N)) = 8 * Bytes(3 * Len(N))
    BY <1>3, <1>4, PackedIsData, Zenon
  <2> QED
    BY <2>1
<1>6. PICK Q \in Seq({0, 1}), q \in Nat : Q = PackUint(5, E) /\ Len(Q) = 8 * q
  <2>1. /\ PackUint(5, E) \in Seq({0, 1}) /\ Bytes(5 * Len(E)) \in Nat
        /\ Len(PackUint(5, E)) = 8 * Bytes(5 * Len(E))
    BY <1>3, <1>4, PackedIsData, Zenon
  <2> QED
    BY <2>1
<1>7. WrittenBits(hashes) = P \o Q
  BY <1>1, <1>5, <1>6 DEF WrittenBits, PackUint3Slice, PackUint5Slice
<1>8. P \o Q \in Seq({0, 1}) /\ Len(P \o Q) = Len(P) + Len(Q)
  OBVIOUS
<1>9. (8 * p + 8 * q) % 8 = 0
  OBVIOUS
<1> QED
  BY <1>5, <1>6, <1>7, <1>8, <1>9

\* What a reader knows of data that begins like what was written.
Known(data, hashes, N, E, hs, bs, ks) ==
    /\ Traced(hashes, N, E, hs, bs, ks)
    /\ ReadsOf(N, E, ReadBits(data), Exceptional(data, Len(N)), Len(data.packed), WrittenBits(hashes))

\* Data that begins like what was written is known.
LEMMA BeginningIsKnown ==
    ASSUME NEW hashes \in Seq(SUBSET (1..HashBits)), NEW data,
           data.packed \in Seq({0, 1}), Len(data.packed) <= Len(WrittenBits(hashes)),
           \A n \in 1..Len(data.packed) : data.packed[n] = WrittenBits(hashes)[n]
    PROVE  \E N, E, hs, bs, ks : Known(data, hashes, N, E, hs, bs, ks)
<1>1. PICK N, E : N = AllBits(hashes).normalBits /\ E = AllBits(hashes).exceptionBits
  OBVIOUS
<1>2. PICK hs, bs, ks : Traced(hashes, N, E, hs, bs, ks)
  BY <1>1, FingerprintIsTraced DEF HasTrace
<1>3. N \in Seq(0..7) /\ E \in Seq(0..31)
  BY <1>2, Zenon DEF Traced, Trace
<1>4. PICK whole : whole = PackUint3Slice(N) \o PackUint5Slice(E) /\ whole = WrittenBits(hashes)
  BY <1>1 DEF WrittenBits
<1>5. PICK cut \in Seq({0, 1}) : cut = data.packed
  OBVIOUS
<1>6. ReadsOf(N, E, UnpackUint3Slice(cut),
              UnpackUint5Slice(SubSeq(cut, ExceptionsAt(Len(N)) + 1, Len(cut))), Len(cut), whole)
  BY <1>3, <1>4, <1>5, BothAreRead
<1>7. Known(data, hashes, N, E, hs, bs, ks)
  BY <1>2, <1>4, <1>5, <1>6, Zenon DEF Known, ReadBits, Exceptional
<1> QED
  BY <1>7

\* The normal bits that are left are counted as they were traced, and where all
\* are, the size is theirs.
LEMMA KnownIsCounted ==
    ASSUME NEW hashes \in Seq(SUBSET (1..HashBits)), NEW data, NEW N, NEW E, NEW hs, NEW bs, NEW ks,
           Known(data, hashes, N, E, hs, bs, ks), NEW L \in Nat, L = Len(N),
           NEW D \in Nat, D = Len(ReadBits(data))
    PROVE  /\ \A i \in 0..L : i <= D =>
                 Count(ReadBits(data), 0, i) = hs[i] /\ Count(ReadBits(data), 7, i) = ks[i]
           /\ D >= L /\ Len(hashes) > 0 => SizeIn(ReadBits(data), Len(hashes)) = L
<1>1. PICK bits : bits = ReadBits(data)
  OBVIOUS
<1>2. /\ Trace(N, E, hs, bs, ks)
      /\ hs[L] = Len(hashes)
      /\ Len(hashes) > 0 => L > 0 /\ N[L] = 0
  BY Zenon DEF Known, Traced
<1>3. DOMAIN bits = 1..D /\ \A i \in 1..D : i <= L => bits[i] = N[i]
  BY <1>1, Zenon DEF Known, ReadsOf
<1>4. PICK m \in 0..Len(N) : m = IF L <= D THEN L ELSE D
  OBVIOUS
<1>5. Agree(bits, N, m)
  BY <1>3, <1>4 DEF Agree
<1>6. \A i \in 0..m : Count(bits, 0, i) = hs[i] /\ Count(bits, 7, i) = ks[i]
  BY <1>2, <1>5, CountsAreTraced DEF Counted
<1>7. \A i \in 0..L : i <= D => Count(bits, 0, i) = hs[i] /\ Count(bits, 7, i) = ks[i]
  <2>1. \A i \in 0..L : i <= D => i \in 0..m
    BY <1>4
  <2> QED
    BY <1>6, <2>1
<1>8. ASSUME D >= L, Len(hashes) > 0 PROVE SizeIn(bits, Len(hashes)) = L
  <2>1. L \in 1..D /\ L \in 0..L /\ L <= D
    BY <1>2, <1>8
  <2>2. bits[L] = 0 /\ Count(bits, 0, L) = Len(hashes)
    BY <1>2, <1>3, <1>7, <1>8, <2>1
  <2> QED
    BY <1>3, <2>1, <2>2, SizeIsThere
<1> QED
  BY <1>1, <1>7, <1>8

\* What is written is read.
LEMMA WholeIsRead ==
    ASSUME NEW hashes \in Seq(SUBSET (1..HashBits)), Len(hashes) \in 1..(MaxTotal - 1),
           NEW version \in 0..255
    PROVE  unpackFingerprint(Header(version, Len(hashes), WrittenBits(hashes))) =
               [version |-> version, hashes |-> hashes]
<1>1. PICK data : data = Header(version, Len(hashes), WrittenBits(hashes))
  OBVIOUS
<1>2. /\ data.version = version /\ data.total = Len(hashes) /\ data.packed = WrittenBits(hashes)
      /\ data \in [version : 0..255, total : 0..(MaxTotal - 1), packed : Seq({0, 1})]
  <2>1. WrittenBits(hashes) \in Seq({0, 1}) /\ Len(hashes) \in 0..(MaxTotal - 1)
    BY WrittenIsBits
  <2> QED
    BY <1>1, <2>1 DEF Header
<1>3. data # NoData
  BY <1>2, EncodingAssumption
<1>4. PICK t \in Nat : t = Len(hashes) /\ t > 0
  OBVIOUS
<1>5. PICK N, E, hs, bs, ks : Known(data, hashes, N, E, hs, bs, ks)
  <2>1. /\ data.packed \in Seq({0, 1}) /\ Len(data.packed) <= Len(WrittenBits(hashes))
        /\ \A n \in 1..Len(data.packed) : data.packed[n] = WrittenBits(hashes)[n]
    BY <1>2, WrittenIsBits
  <2> QED
    BY <2>1, BeginningIsKnown, Zenon
<1>6. /\ Trace(N, E, hs, bs, ks)
      /\ hs[Len(N)] = t /\ ks[Len(N)] = Len(E)
      /\ Len(N) > 0 /\ N[Len(N)] = 0
      /\ \A h \in 1..t : BitsAfter(N, hs, bs, h - 1) = Differ(hashes, h)
      /\ ReadsOf(N, E, ReadBits(data), Exceptional(data, Len(N)), Len(data.packed), WrittenBits(hashes))
  BY <1>4, <1>5, Zenon DEF Known, Traced
<1>7. /\ N \in Seq(0..7) /\ E \in Seq(0..31)
      /\ bs \in [0..Len(N) -> 0..HashBits] /\ ks \in [0..Len(N) -> 0..Len(E)]
  BY <1>6, Zenon DEF Trace
<1>8. PICK L \in Nat : L = Len(N)
  BY <1>7
<1>9. PICK bits, exc : bits = ReadBits(data) /\ exc = Exceptional(data, L)
  OBVIOUS
<1>10. /\ Len(bits) \in Nat /\ DOMAIN bits = 1..Len(bits) /\ Len(exc) \in Nat
       /\ \A i \in 1..Len(bits) : i <= Len(N) => bits[i] = N[i]
       /\ \A i \in 1..Len(exc) : i <= Len(E) => exc[i] = E[i]
       /\ Len(bits) >= Len(N) /\ Len(exc) >= Len(E)
  BY <1>2, <1>6, <1>8, <1>9, Zenon DEF ReadsOf
<1>11. PICK D \in Nat : D = Len(bits) /\ D >= L
  BY <1>8, <1>10
<1>12. /\ \A i \in 0..L : i <= D => Count(bits, 0, i) = hs[i] /\ Count(bits, 7, i) = ks[i]
       /\ SizeIn(bits, t) = L
  BY <1>4, <1>5, <1>8, <1>9, <1>11, KnownIsCounted
<1>13. \A i \in 0..L : Count(bits, 0, i) = hs[i] /\ Count(bits, 7, i) = ks[i]
  BY <1>11, <1>12
<1>14. ~Refused(data)
  <2>1. L \in 0..L /\ L \in 0..D
    BY <1>11
  <2>2. Count(bits, 0, L) = t /\ Count(bits, 7, L) = Len(E)
    BY <1>6, <1>8, <1>13, <2>1
  <2>3. Count(bits, 0, L) <= Count(bits, 0, D) /\ Count(bits, 0, D) \in Nat
    BY <1>11, <2>1, CountGoesOn
  <2>4. ~(Count(bits, 0, Len(bits)) < t)
    BY <1>11, <2>2, <2>3
  <2>5. ~(Len(exc) < Count(bits, 7, L))
    BY <1>7, <1>10, <2>2
  <2>6. data.total = t /\ t # 0
    BY <1>2, <1>4
  <2> QED
    BY <1>3, <1>9, <1>12, <2>4, <2>5, <2>6 DEF Refused
<1>15. PICK last : last = LastBits(bits, exc, L)
  OBVIOUS
<1>16. \A i \in 0..L : last[i] = bs[i]
  <2>1. Agree(bits, N, L)
    BY <1>8, <1>10, <1>11 DEF Agree
  <2>2. Agree(exc, E, Len(E))
    BY <1>7, <1>10 DEF Agree
  <2>3. Counted(bits, hs, ks, L)
    BY <1>13, Zenon DEF Counted
  <2>4. AgreeFromZero(last, bs, L)
    BY <1>6, <1>8, <1>15, <2>1, <2>2, <2>3, LastBitsAreTraced
  <2> QED
    BY <2>4, Zenon DEF AgreeFromZero
<1>17. ASSUME NEW h \in 1..t PROVE ValueOf(bits, last, L, h) = Differ(hashes, h)
  <2> DEFINE A == {n \in 1..L : bits[n] # 0 /\ Count(bits, 0, n) = h - 1}
             B == {n \in 1..L : N[n] # 0 /\ hs[n] = h - 1}
  <2>1. A = B
    <3>1. \A n \in 1..L : bits[n] = N[n] /\ Count(bits, 0, n) = hs[n]
      BY <1>8, <1>10, <1>11, <1>13
    <3> QED
      BY <3>1
  <2>2. \A n \in B : last[n] = bs[n]
    BY <1>16
  <2>3. ValueOf(bits, last, L, h) = BitsSet({last[i] : i \in A})
    BY Zenon DEF ValueOf
  <2>4. Differ(hashes, h) = {bs[i] : i \in B}
    BY <1>6, <1>8 DEF BitsAfter
  <2> HIDE DEF A, B
  <2>5. {last[i] : i \in A} = {bs[i] : i \in B}
    BY <2>1, <2>2, Zenon
  <2>6. Differ(hashes, h) \in SUBSET (1..HashBits)
    BY <1>4, ValuesAre, Zenon
  <2>7. BitsSet(Differ(hashes, h)) = Differ(hashes, h)
    BY <2>6 DEF BitsSet
  <2> QED
    BY <2>3, <2>4, <2>5, <2>7
<1>18. [h \in 1..t |-> HashesIn(bits, last, L, t)[h]] = hashes
  BY <1>4, <1>17, HashesAreThere
<1>19. unpackFingerprint(data) = Unpacked(data, bits, L)
  <2>1. unpackFingerprint(data) = Unpacked(data, ReadBits(data), SizeIn(ReadBits(data), data.total))
    BY <1>14, UnpackIs
  <2>2. data.total = t
    BY <1>2, <1>4
  <2> QED
    BY <1>9, <1>12, <2>1, <2>2
<1>20. Unpacked(data, bits, L) = [version |-> version, hashes |-> hashes]
  <2>1. Unpacked(data, bits, L) =
           [version |-> version, hashes |-> [h \in 1..t |-> HashesIn(bits, last, L, t)[h]]]
    BY <1>2, <1>4, <1>9, <1>15, Zenon DEF Unpacked
  <2> QED
    BY <1>18, <2>1
<1> QED
  BY <1>1, <1>19, <1>20

\* What lost bytes at its end is refused: a zero is missing, or exceptional bits are.
LEMMA CutIsRefused ==
    ASSUME NEW hashes \in Seq(SUBSET (1..HashBits)), NEW version, NEW n \in Nat,
           8 * n < Len(WrittenBits(hashes))
    PROVE  unpackFingerprint(Header(version, Len(hashes), SubSeq(WrittenBits(hashes), 1, 8 * n))) = Invalid
<1>1. PICK whole \in Seq({0, 1}) : whole = WrittenBits(hashes)
  BY WrittenIsBits
<1>2. PICK cut \in Seq({0, 1}) : cut = SubSeq(whole, 1, 8 * n)
  <2>1. SubSeq(whole, 1, 8 * n) \in Seq({0, 1})
    BY <1>1
  <2> QED
    BY <2>1
<1>3. PICK c \in Nat : c = Len(cut) /\ c = 8 * n /\ c < Len(whole)
  <2>1. Len(SubSeq(whole, 1, 8 * n)) = 8 * n
    BY <1>1
  <2> QED
    BY <1>1, <1>2, <2>1
<1>4. \A m \in 1..c : cut[m] = whole[m]
  BY <1>1, <1>2, <1>3
<1>5. PICK data : data = Header(version, Len(hashes), cut)
  OBVIOUS
<1>6. data.total = Len(hashes) /\ data.packed = cut
  BY <1>5 DEF Header
<1>7. PICK t \in Nat : t = Len(hashes)
  OBVIOUS
<1>8. Refused(data)
  <2>1. CASE t = 0
    BY <1>6, <1>7, <2>1, Zenon DEF Refused
  <2>2. CASE t # 0
    <3>1. PICK N, E, hs, bs, ks : Known(data, hashes, N, E, hs, bs, ks)
      <4>1. /\ data.packed \in Seq({0, 1}) /\ Len(data.packed) <= Len(WrittenBits(hashes))
            /\ \A m \in 1..Len(data.packed) : data.packed[m] = WrittenBits(hashes)[m]
        <5>1. Len(cut) <= Len(whole)
          BY <1>1, <1>3
        <5> QED
          BY <1>1, <1>3, <1>4, <1>6, <5>1, Zenon
      <4> QED
        BY <4>1, BeginningIsKnown, Zenon
    <3>2. /\ Trace(N, E, hs, bs, ks)
          /\ hs[Len(N)] = t /\ ks[Len(N)] = Len(E)
          /\ Len(hashes) > 0 => Len(N) > 0 /\ N[Len(N)] = 0
          /\ ReadsOf(N, E, ReadBits(data), Exceptional(data, Len(N)), c, whole)
      BY <1>1, <1>3, <1>6, <1>7, <3>1, Zenon DEF Known, Traced
    <3>3. /\ N \in Seq(0..7) /\ E \in Seq(0..31)
          /\ hs \in [0..Len(N) -> Nat] /\ ks \in [0..Len(N) -> 0..Len(E)]
      BY <3>2, Zenon DEF Trace
    <3>4. PICK L \in Nat : L = Len(N) /\ L > 0 /\ N[L] = 0
      BY <1>7, <2>2, <3>2, <3>3
    <3>5. PICK bits, exc : bits = ReadBits(data) /\ exc = Exceptional(data, L)
      OBVIOUS
    <3>6. c % 8 = 0
      BY <1>3
    <3>7. /\ Len(bits) \in Nat /\ Len(exc) \in Nat
          /\ Len(bits) < Len(N) \/ Len(exc) < Len(E)
      BY <1>3, <3>2, <3>4, <3>5, <3>6, Zenon DEF ReadsOf
    <3>8. PICK D \in Nat : D = Len(bits)
      BY <3>7
    <3>9. /\ \A i \in 0..L : i <= D => Count(bits, 0, i) = hs[i] /\ Count(bits, 7, i) = ks[i]
          /\ D >= L /\ Len(hashes) > 0 => SizeIn(bits, Len(hashes)) = L
      BY <3>1, <3>4, <3>5, <3>8, KnownIsCounted
    <3>10. CASE D < L
      <4>1. D \in 0..L /\ D \in 0..(L - 1) /\ L - 1 \in 0..L /\ L \in 1..L
        BY <3>4, <3>10
      <4>2. Count(bits, 0, D) = hs[D]
        BY <3>9, <4>1
      <4>3. hs[D] <= hs[L - 1]
        BY <3>2, <3>4, <4>1, TraceClimbs
      <4>4. hs[L] = hs[L - 1] + 1
        <5>1. Follows(N[L], E, hs[L - 1], bs[L - 1], ks[L - 1], hs[L], bs[L], ks[L])
          BY <3>2, <3>4, <4>1, Zenon DEF Trace
        <5>2. N[L] \notin 1..6 /\ N[L] # 7
          BY <3>4
        <5> QED
          BY <5>1, <5>2, Zenon DEF Follows
      <4>5. hs[D] \in Nat /\ hs[L - 1] \in Nat
        BY <3>3, <3>4, <4>1
      <4>6. hs[L] = t
        BY <3>2, <3>4
      <4>7. Count(bits, 0, Len(bits)) < t
        BY <3>8, <4>2, <4>3, <4>4, <4>5, <4>6
      <4> QED
        BY <1>6, <1>7, <3>5, <4>7, Zenon DEF Refused
    <3>11. CASE ~(D < L)
      <4>1. D >= L /\ L \in 0..L /\ L <= D /\ Len(hashes) > 0
        BY <1>7, <2>2, <3>11
      <4>2. SizeIn(bits, t) = L
        BY <1>7, <3>9, <4>1
      <4>3. Count(bits, 7, L) = Len(E)
        BY <3>2, <3>4, <3>9, <4>1
      <4>4. Len(exc) < Len(E)
        BY <3>4, <3>7, <3>8, <3>11
      <4>5. Len(exc) < Count(bits, 7, L)
        BY <4>3, <4>4
      <4> QED
        BY <1>6, <1>7, <3>5, <4>2, <4>5, Zenon DEF Refused
    <3> QED
      BY <3>10, <3>11
  <2> QED
    BY <2>1, <2>2
<1> QED
  BY <1>1, <1>2, <1>5, <1>8, UnpackIs

\* What is read has as many hashes as the header says, each within the width of a hash.
LEMMA HashesAreRead ==
    ASSUME NEW bits, NEW lastBit, NEW size, NEW t \in Nat
    PROVE  [h \in 1..t |-> HashesIn(bits, lastBit, size, t)[h]] \in Seq(SUBSET (1..HashBits))
<1> DEFINE X == SUBSET (1..HashBits)
           value(h) == ValueOf(bits, lastBit, size, h)
           next(x, h) == IF h = 1 THEN value(1) ELSE SymDiff(value(h), x)
           step == [p \in X \X (1..t) |-> next(p[1], p[2])]
<1>1. \A h : value(h) \in X
  BY DEF ValueOf, BitsSet
<1> HIDE DEF value
<1>2. \A x \in X : \A h : next(x, h) \in X
  BY <1>1 DEF SymDiff
<1>3. step \in [X \X (1..t) -> X] /\ {} \in X
  <2> HIDE DEF next, X
  <2>1. \A p \in X \X (1..t) : p[1] \in X
    OBVIOUS
  <2>2. step \in [X \X (1..t) -> X]
    BY <1>2, <2>1
  <2> QED
    BY <2>2 DEF X
<1>4. PICK f \in [0..t -> X] : Stepwise(f, t, {}, step)
  <2> HIDE DEF X, step
  <2> QED
    BY <1>3, StepsAreThere
<1>5. ASSUME NEW h \in 1..t PROVE f[h] = next(f[h - 1], h) /\ f[h] \in X
  <2>1. h - 1 \in 0..t /\ h \in 0..t
    OBVIOUS
  <2>2. f[h - 1] \in X /\ f[h] \in X
    BY <2>1
  <2> HIDE DEF next, X
  <2>3. step[<<f[h - 1], h>>] = next(f[h - 1], h)
    BY <2>2
  <2> HIDE DEF step
  <2>4. f[h] = step[<<f[h - 1], h>>]
    BY <1>4 DEF Stepwise
  <2> QED
    BY <2>2, <2>3, <2>4
<1> HIDE DEF step, X
<1> DEFINE g == [h \in 1..t |-> f[h]]
<1>6. \A h \in 1..t : g[h] = f[h]
  BY Zenon
<1>7. ASSUME NEW h \in 1..t PROVE f[h] = IF h = 1 THEN value(1) ELSE SymDiff(value(h), g[h - 1])
  <2>1. CASE h = 1
    BY <1>5, <2>1, Zenon
  <2>2. CASE h # 1
    <3>1. h - 1 \in 1..t
      BY <2>2
    <3>2. g[h - 1] = f[h - 1]
      BY <1>6, <3>1, Zenon
    <3> QED
      BY <1>5, <2>2, <3>2, Zenon
  <2> QED
    BY <2>1, <2>2
<1>8. g = HashLoop(g, bits, lastBit, size, t)
  <2>1. g = [h \in 1..t |-> f[h]]
    BY Zenon
  <2> HIDE DEF g
  <2>2. [h \in 1..t |-> f[h]] =
            [h \in 1..t |-> IF h = 1 THEN value(1) ELSE SymDiff(value(h), g[h - 1])]
    BY <1>7, Zenon
  <2> QED
    BY <2>1, <2>2, Zenon DEF HashLoop, value
<1> HIDE DEF g
<1> DEFINE r == HashesIn(bits, lastBit, size, t)
<1>9. r = HashLoop(r, bits, lastBit, size, t)
  BY <1>8, Zenon DEF HashesIn
<1> HIDE DEF r
<1>10. ASSUME NEW h \in 1..t PROVE r[h] = next(r[h - 1], h)
  <2>1. r = [j \in 1..t |-> next(r[j - 1], j)]
    BY <1>9, Zenon DEF HashLoop, value
  <2> HIDE DEF next
  <2> QED
    BY <2>1, Zenon
<1> HIDE DEF next
<1> DEFINE S == {h \in 0..t : h # 0 => r[h] \in X}
<1>11. 0 \in S
  OBVIOUS
<1>12. ASSUME NEW h \in 1..t, h - 1 \in S PROVE h \in S
  <2>1. CASE h = 1
    <3>1. r[1] = value(1)
      BY <1>10, <2>1, Zenon DEF next
    <3> QED
      BY <1>1, <2>1, <3>1
  <2>2. CASE h # 1
    <3>1. r[h - 1] \in X
      BY <1>12, <2>2
    <3>2. r[h] \in X
      BY <1>2, <1>10, <3>1, Zenon
    <3> QED
      BY <3>2
  <2> QED
    BY <2>1, <2>2
<1> HIDE DEF S
<1>13. \A h \in 0..t : h \in S
  BY <1>11, <1>12, Climb
<1>14. \A h \in 1..t : r[h] \in X
  <2>1. \A h \in 1..t : h \in 0..t /\ h # 0
    OBVIOUS
  <2> QED
    BY <1>13, <2>1 DEF S
<1>15. [h \in 1..t |-> r[h]] \in Seq(X)
  BY <1>14
<1> QED
  BY <1>15 DEF r, X

\* Data that is accepted.
LEMMA AcceptedIsPrint ==
    ASSUME NEW data,
           data \in {NoData} \cup [version : 0..255, total : 0..(MaxTotal - 1), packed : Seq({0, 1})],
           unpackFingerprint(data) # Invalid
    PROVE  \E version \in 0..255, hashes \in Seq(SUBSET (1..HashBits)) :
              /\ Len(hashes) = data.total /\ Len(hashes) \in 1..(MaxTotal - 1)
              /\ unpackFingerprint(data) = [version |-> version, hashes |-> hashes]
<1>1. ~Refused(data)
  BY UnpackIs
<1>2. data # NoData /\ data.total # 0
  BY <1>1, Zenon DEF Refused
<1>3. PICK t \in Nat, version \in 0..255 :
         t = data.total /\ t \in 1..(MaxTotal - 1) /\ version = data.version
  <2>1. data.total \in 0..(MaxTotal - 1) /\ data.version \in 0..255
    BY <1>2
  <2>2. data.total \in Nat /\ data.total \in 1..(MaxTotal - 1)
    BY <1>2, <2>1
  <2> QED
    BY <2>1, <2>2
<1>4. PICK bits, size : bits = ReadBits(data) /\ size = SizeIn(bits, t)
  OBVIOUS
<1>5. PICK last : last = LastBits(bits, Exceptional(data, size), size)
  OBVIOUS
<1>6. unpackFingerprint(data) = Unpacked(data, bits, size)
  BY <1>1, <1>3, <1>4, UnpackIs
<1>7. PICK hashes \in Seq(SUBSET (1..HashBits)) : hashes = [h \in 1..t |-> HashesIn(bits, last, size, t)[h]]
  <2>1. [h \in 1..t |-> HashesIn(bits, last, size, t)[h]] \in Seq(SUBSET (1..HashBits))
    BY HashesAreRead
  <2> QED
    BY <2>1, Zenon
<1>8. Unpacked(data, bits, size) = [version |-> version, hashes |-> hashes]
  BY <1>3, <1>5, <1>7, Zenon DEF Unpacked
<1>9. Len(hashes) = t
  BY <1>7
<1> QED
  BY <1>3, <1>6, <1>8, <1>9

-----------------------------------------------------------------------------
(* Calls                                                                   *)

\* The answer of a function is what its operator says.
AnswerOK ==
    /\ call \in Calls
    /\ Answered("align") => answer \in AlignFingerprints(call.pair[1].hashes, call.pair[2].hashes)
    /\ Answered("compare") => answer \in Compare(call.pair[1], call.pair[2])
    /\ Answered("match") => answer \in Match(call.pair[1], call.pair[2])
    /\ Answered("indexQuery") => answer = ExtractIndexQuery(call.hashes)
    /\ Answered("legacyQuery") => answer = ExtractLegacyQuery(call.hashes)
    /\ Answered("candidates") => answer \in GetCandidates(call.results)
    /\ Answered("filter") => answer = filterIndexSearchResults(call.results, call.limit)
    /\ Answered("pack") => answer = PackSlice(call.width, call.values)
    /\ Answered("uvarint") => answer = PutUvarint32(call.x)
    /\ Answered("sqlite") => answer = PutSQLiteUvarint32(call.x)
    /\ Answered("readUvarint") => answer = Uvarint32(call.buf)
    /\ Answered("array") => answer = Value(call.array)
    /\ Answered("compress") => answer = CompressFingerprint(call.fp)
    /\ Answered("unpack") => answer = unpackFingerprint(call.data)

\* A call answers with what its operator says, and changes nothing else.
LEMMA StepKeeps == AnswerOK /\ [Next]_vars => AnswerOK'
<1> SUFFICES ASSUME AnswerOK, [Next]_vars PROVE AnswerOK'
  OBVIOUS
<1> USE DEF AnswerOK, Answered
<1>1. CASE UNCHANGED vars
  BY <1>1 DEF vars
<1>2. CASE Compress
  BY <1>2 DEF Compress, Return
<1>3. CASE Unpack
  BY <1>3 DEF Unpack, Return
<1>4. CASE Align
  BY <1>4 DEF Align, Return
<1>5. CASE CompareThem
  BY <1>5 DEF CompareThem, Return
<1>6. CASE MatchThem
  BY <1>6 DEF MatchThem, Return
<1>7. CASE IndexQuery
  BY <1>7 DEF IndexQuery, Return
<1>8. CASE LegacyQuery
  BY <1>8 DEF LegacyQuery, Return
<1>9. CASE Candidate
  BY <1>9 DEF Candidate, Return
<1>10. CASE Filter
  BY <1>10 DEF Filter, Return
<1>11. CASE PackThem
  BY <1>11 DEF PackThem, Return
<1>12. CASE PutUvarint
  BY <1>12 DEF PutUvarint, Return
<1>13. CASE PutSQLite
  BY <1>13 DEF PutSQLite, Return
<1>14. CASE ReadUvarint
  BY <1>14 DEF ReadUvarint, Return
<1>15. CASE PutArray
  BY <1>15 DEF PutArray, Return
<1> QED
  BY <1>1, <1>2, <1>3, <1>4, <1>5, <1>6, <1>7, <1>8, <1>9, <1>10, <1>11, <1>12, <1>13, <1>14, <1>15
     DEF Next

\* Every answer is what its operator says.
LEMMA AnswersHold == Spec => []AnswerOK
<1>1. Init => AnswerOK
  BY DEF Init, AnswerOK, Answered
<1> QED
  BY <1>1, StepKeeps, PTL DEF Spec

\* The arguments of the functions.
LEMMA ArgumentsOK ==
    ASSUME call \in Calls
    PROVE  /\ call.fn \in {"align", "compare", "match"} => call.pair \in Pairs
           /\ call.fn \in {"indexQuery", "legacyQuery"} => call.hashes \in HashLists
           /\ call.fn = "candidates" => call.results \in IndexAnswers
           /\ call.fn = "filter" =>
                 call.results \in IndexAnswers /\ call.limit \in Limits /\ (call.results # {} \/ call.limit # 0)
           /\ call.fn = "pack" => call.width \in Widths /\ call.values \in ByteLists
           /\ call.fn = "uvarint" => call.x \in Numbers
           /\ call.fn = "sqlite" => call.x \in Words
           /\ call.fn = "readUvarint" => call.buf \in Buffers
           /\ call.fn = "array" => call.array \in Arrays
           /\ call.fn = "compress" => call.fp \in Prints
           /\ call.fn = "unpack" => call.data \in Datas
BY DEF Calls, FilterCalls

\* The hashes of a pair.
LEMMA PairsHaveHashes ==
    ASSUME call \in Calls, call.fn \in {"align", "compare", "match"}
    PROVE  /\ call.pair[1].hashes \in Seq(SUBSET (1..Width))
           /\ call.pair[2].hashes \in Seq(SUBSET (1..Width))
<1>1. call.pair \in Pairs
  BY ArgumentsOK
<1>2. \A p \in Pairs : p[1].hashes \in Seq(SUBSET (1..Width)) /\ p[2].hashes \in Seq(SUBSET (1..Width))
  <2>1. 1 \in 1..2 /\ 2 \in 1..2
    OBVIOUS
  <2>2. \A p \in Pairs, i \in 1..2 : p[i].hashes \in Seq(SUBSET (1..Width))
    BY AlgorithmsAssumption, Zenon
  <2> QED
    BY <2>1, <2>2, Zenon
<1> QED
  BY <1>1, <1>2

\* A fingerprint to be written.
LEMMA WrittenPrint ==
    ASSUME AnswerOK, Answered("compress")
    PROVE  call.fp.version \in Int /\ call.fp.hashes \in Seq(SUBSET (1..HashBits))
<1>1. call.fp \in Prints
  BY ArgumentsOK DEF AnswerOK, Answered
<1>2. call.fp \in [version : Int, hashes : Seq(SUBSET (1..HashBits))]
  BY <1>1, AlgorithmsAssumption, Zenon
<1> QED
  BY <1>2

\* The header can say it.
LEMMA SmallIsWhole ==
    ASSUME NEW hashes \in Seq(SUBSET (1..HashBits)), Len(hashes) < MaxTotal
    PROVE  Len(hashes) % MaxTotal = Len(hashes)
<1>1. PICK l \in Nat, m \in Nat \ {0} : l = Len(hashes) /\ m = MaxTotal
  BY EncodingAssumption
<1>2. \A x \in Nat, y \in Nat \ {0} : x < y => x % y = x
  OBVIOUS
<1> QED
  BY <1>1, <1>2

\* A hit of AlignFingerprints is a distance at which the fingerprints overlap,
\* within MaxOffset, for all fingerprints: smoothing the counts never makes a peak
\* of a distance that has no pairs (match.go).
THEOREM AlignmentStaysInside == Spec => []HitsOverlap
<1>1. AnswerOK => HitsOverlap
  <2> SUFFICES ASSUME AnswerOK, Answered("align")
               PROVE  /\ answer.offset \in (1 - Len(call.pair[2].hashes))..(Len(call.pair[1].hashes) - 1)
                      /\ MaxOffset # 0 => answer.offset \in -MaxOffset..MaxOffset
    BY DEF HitsOverlap
  <2>2. PICK m \in Seq(SUBSET (1..Width)), q \in Seq(SUBSET (1..Width)) :
           m = call.pair[1].hashes /\ q = call.pair[2].hashes
    BY PairsHaveHashes DEF AnswerOK, Answered
  <2>3. answer \in AlignFingerprints(m, q)
    BY <2>2 DEF AnswerOK
  <2> QED
    BY <2>2, <2>3, HitsAreInRange
<1> QED
  BY <1>1, AnswersHold, PTL

\* The results of the index that filterIndexSearchResults and GetCandidates keep
\* have at least the hits of those they leave out, for every limit, threshold
\* and answer of the index, the filter's empty one with limit 0 left out, and for
\* every order of equal results (index.go, fingerprint_searcher.go).
THEOREM BestAreKept == Spec => []CandidatesAreBest
<1>1. AnswerOK => CandidatesAreBest
  <2> SUFFICES ASSUME AnswerOK PROVE CandidatesAreBest
    OBVIOUS
  <2>1. CASE Answered("filter")
    <3>1. /\ call.fn = "filter" /\ call.results \in IndexAnswers /\ call.limit \in Nat
          /\ (call.results # {} \/ call.limit # 0)
      BY <2>1, ArgumentsOK, AlgorithmsAssumption DEF AnswerOK, Answered
    <3>2. Answers(call.results)
      BY <3>1, AlgorithmsAssumption DEF Answers
    <3>3. answer = filterIndexSearchResults(call.results, call.limit)
      BY <2>1 DEF AnswerOK
    <3>4. CASE call.results # {}
      <4>1. KeepsBest(answer, call.results, call.limit)
        BY <3>1, <3>2, <3>3, <3>4, FilterKeepsBest
      <4> QED
        BY <3>1, <3>4, <4>1 DEF CandidatesAreBest, Best, KeepsBest
    <3>5. CASE call.results = {}
      <4>1. answer = <<>>
        BY <3>1, <3>3, <3>5, FilterKeepsNone
      <4>2. ToSet(answer) = {} /\ Len(answer) = 0
        BY <4>1 DEF ToSet
      <4>3. {r.id : r \in ToSet(answer)} = {} /\ Cardinality({r \in call.results : r.id \in {}}) = 0
        BY <3>5, <4>2, FS_EmptySet
      <4>4. {r \in call.results : r.id \in {}} = {}
        BY <3>5
      <4> QED
        BY <3>1, <3>5, <4>2, <4>3, <4>4 DEF CandidatesAreBest
    <3> QED
      BY <3>4, <3>5
  <2>2. CASE Answered("candidates")
    <3>1. call.fn = "candidates" /\ call.results \in IndexAnswers
      BY <2>2, ArgumentsOK DEF AnswerOK, Answered
    <3>2. Answers(call.results)
      BY <3>1, AlgorithmsAssumption DEF Answers
    <3>3. answer \in GetCandidates(call.results)
      BY <2>2 DEF AnswerOK
    <3>4. /\ Best(answer, call.results)
          /\ \A r \in call.results : r.id \in answer =>
                100 * r.hits > MinHitsPercent * Max({q.hits : q \in call.results}) - 100
      BY <3>2, <3>3, CandidatesHaveTheirShare
    <3> QED
      BY <3>1, <3>4 DEF CandidatesAreBest, Best
  <2> QED
    BY <2>1, <2>2 DEF CandidatesAreBest
<1> QED
  BY <1>1, AnswersHold, PTL

\* Arrays of unsigned integers come back from the signed ones of PostgreSQL as
\* they were, but for the empty one, which is an error (util.go of
\* fingerprint_db).
THEOREM ArraysComeBack == Spec => []ArraysReadBack
<1>1. AnswerOK => ArraysReadBack
  <2> SUFFICES ASSUME AnswerOK, Answered("array")
               PROVE  scanString(answer) = IF call.array = <<>> THEN [err |-> TRUE, result |-> <<>>]
                                           ELSE [err |-> FALSE, result |-> call.array]
    BY DEF ArraysReadBack
  <2>1. call.array \in Seq(0..(WordSize - 1))
    BY ArgumentsOK, AlgorithmsAssumption DEF AnswerOK, Answered
  <2>2. answer = Value(call.array)
    BY DEF AnswerOK
  <2> QED
    BY <2>1, <2>2, ArraysAreRead
<1> QED
  BY <1>1, AnswersHold, PTL

\* Both forms of an integer of 32 bits are read back whatever follows them, no
\* part of the first is taken for an integer, and the second sorts like the
\* integers, for all integers (varint.go).
THEOREM IntegersComeBack == Spec => []VarintsReadBack
<1>1. AnswerOK => VarintsReadBack
  <2> SUFFICES ASSUME AnswerOK PROVE VarintsReadBack
    OBVIOUS
  <2>1. ASSUME Answered("uvarint")
        PROVE  /\ \A next \in {<<>>} \cup Buffers : Uvarint32(answer \o next) = [x |-> call.x, n |-> Len(answer)]
               /\ \A n \in 0..(Len(answer) - 1) : Uvarint32(SubSeq(answer, 1, n)).n = 0
    <3>1. call.x \in SUBSET (0..31)
      BY <2>1, ArgumentsOK, AlgorithmsAssumption DEF AnswerOK, Answered
    <3>2. answer = PutUvarint32(call.x)
      BY <2>1 DEF AnswerOK
    <3>3. \A next \in {<<>>} \cup Buffers : next \in Seq(SUBSET (0..7))
      <4>1. <<>> \in Seq(SUBSET (0..7))
        OBVIOUS
      <4> QED
        BY <4>1, AlgorithmsAssumption, Zenon
    <3> QED
      BY <3>1, <3>2, <3>3, UvarintComesBack, UvarintCutHasNoEnd
  <2>2. ASSUME Answered("sqlite")
        PROVE  /\ \A next \in {<<>>} \cup Words :
                       SQLiteUvarint32(answer \o next) = [x |-> call.x, n |-> Len(answer)]
               /\ \A y \in Words : Sooner(answer, PutSQLiteUvarint32(y)) <=> Sooner(call.x, y)
    <3>1. Words \subseteq Word
      BY AlgorithmsAssumption DEF Word
    <3>2. call.x \in Word
      BY <2>2, <3>1, ArgumentsOK DEF AnswerOK, Answered
    <3>3. answer = PutSQLiteUvarint32(call.x)
      BY <2>2 DEF AnswerOK
    <3>4. \A next \in {<<>>} \cup Words : next \in Seq(0..255)
      <4> SUFFICES ASSUME NEW next \in {<<>>} \cup Words PROVE next \in Seq(0..255)
        OBVIOUS
      <4>1. CASE next = <<>>
        BY <4>1
      <4>2. CASE next \in Word
        <5>1. /\ next[1] \in 0..255 /\ next[2] \in 0..255 /\ next[3] \in 0..255 /\ next[4] \in 0..255
              /\ next = <<next[1], next[2], next[3], next[4]>>
          BY <4>2, WordBytes
        <5>2. <<next[1], next[2], next[3], next[4]>> \in Seq(0..255)
          BY <5>1
        <5> QED
          BY <5>1, <5>2
      <4> QED
        BY <3>1, <4>1, <4>2
    <3> QED
      BY <3>1, <3>2, <3>3, <3>4, SQLiteComesBack, SQLiteOrder
  <2> QED
    BY <2>1, <2>2 DEF VarintsReadBack
<1> QED
  BY <1>1, AnswersHold, PTL

\* Whatever bytes are read, the integer Uvarint32 returns is the one they stand
\* for: what does not fit into 32 bits is refused, nothing is dropped
\* (varint.go).
THEOREM IntegersNeverWrap == Spec => []VarintNeverWraps
<1>1. AnswerOK => VarintNeverWraps
  <2> SUFFICES ASSUME AnswerOK, Answered("readUvarint"), answer.n > 0
               PROVE  LET again == PutUvarint32(answer.x)
                      IN  /\ answer.n \in Len(again)..Len(call.buf)
                          /\ \A i \in 1..answer.n :
                                call.buf[i] \ {7} = IF i <= Len(again) THEN again[i] \ {7} ELSE {}
    BY DEF VarintNeverWraps
  <2>1. call.buf \in Seq(SUBSET (0..7))
    BY ArgumentsOK, AlgorithmsAssumption DEF AnswerOK, Answered
  <2>2. answer = Uvarint32(call.buf)
    BY DEF AnswerOK
  <2> QED
    BY <2>1, <2>2, UvarintIsWhatBytesSay
<1> QED
  BY <1>1, AnswersHold, PTL

\* Where MatchFingerprints says that two fingerprints agree they do: the offsets
\* and the length it gives lie in both, and less than MaxScore bits per hash
\* differ there, for all fingerprints and all edges of sections (match.go).
THEOREM SectionsAreThere == Spec => []SectionsAgree
<1>1. AnswerOK => SectionsAgree
  <2> SUFFICES ASSUME AnswerOK, Answered("match"), answer # Err, answer.sections # {}
               PROVE  LET m == From(call.pair[1].hashes, MasterOffset(answer))
                          q == From(call.pair[2].hashes, QueryOffset(answer))
                          s == First(answer)
                          length == s.end - s.start
                      IN  /\ length <= Overlap(m, q)
                          /\ BitErrors(m, q, 0, length) < MaxScore * length
                          /\ MatchingLength(answer) <= Overlap(call.pair[1].hashes, call.pair[2].hashes)
    BY DEF SectionsAgree
  <2>1. PICK m \in Seq(SUBSET (1..Width)), q \in Seq(SUBSET (1..Width)) :
           m = call.pair[1].hashes /\ q = call.pair[2].hashes
    BY PairsHaveHashes DEF AnswerOK, Answered
  <2>2. answer \in Match(call.pair[1], call.pair[2])
    BY DEF AnswerOK
  <2>3. \/ answer = MatchResult(m, q, {})
        \/ \E h \in AlignFingerprints(m, q) :
              \E sections \in matchAlignedFingerprints(m, q, h.offset) : answer = MatchResult(m, q, sections)
    BY <2>1, <2>2 DEF Match
  <2>4. answer # MatchResult(m, q, {})
    BY DEF MatchResult
  <2>8. PICK h \in AlignFingerprints(m, q) :
           \E sections \in matchAlignedFingerprints(m, q, h.offset) : answer = MatchResult(m, q, sections)
    BY <2>3, <2>4
  <2>5. PICK sections \in matchAlignedFingerprints(m, q, h.offset) : answer = MatchResult(m, q, sections)
    BY <2>8
  <2>6. PICK offset \in Int : offset = h.offset
    <3>1. h.offset \in (1 - Len(q))..(Len(m) - 1)
      BY HitsAreInRange
    <3>2. Len(q) \in Nat /\ Len(m) \in Nat
      OBVIOUS
    <3> QED
      BY <3>1, <3>2
  <2>7. sections # {}
    BY <2>4, <2>5
  <2> QED
    BY <2>1, <2>5, <2>6, <2>7, MatchIsThere
<1> QED
  BY <1>1, AnswersHold, PTL

\* A part of a fingerprint is found in it with the highest score, wherever it
\* begins within the limit, for every length from five hashes on
\* (CompareFingerprints in match.go).
THEOREM ExcerptsAreFound == Spec => []ExcerptIsFound
<1>1. AnswerOK => ExcerptIsFound
  <2> SUFFICES ASSUME AnswerOK, Answered("compare"), Comparable(call.pair[1], call.pair[2]),
                      IsInjective([i \in DOMAIN call.pair[1].hashes |-> Aligned(call.pair[1].hashes[i])]),
                      Len(call.pair[2].hashes) >= 5,
                      \E k \in 0..MaxOffset :
                          /\ k + Len(call.pair[2].hashes) <= Len(call.pair[1].hashes)
                          /\ call.pair[2].hashes =
                                SubSeq(call.pair[1].hashes, k + 1, k + Len(call.pair[2].hashes))
                          /\ countUniqueHashes(From(call.pair[1].hashes, k)) <= 20 * Len(call.pair[2].hashes)
               PROVE  answer.num = answer.den
    BY DEF ExcerptIsFound
  <2>1. PICK m \in Seq(SUBSET (1..Width)), q \in Seq(SUBSET (1..Width)) :
           m = call.pair[1].hashes /\ q = call.pair[2].hashes
    BY PairsHaveHashes DEF AnswerOK, Answered
  <2>11. Len(q) >= 5 /\ IsInjective([i \in DOMAIN m |-> Aligned(m[i])])
    BY <2>1, Zenon
  <2>2. answer \in Compare(call.pair[1], call.pair[2])
    BY DEF AnswerOK
  <2>3. PICK k \in 0..MaxOffset :
          /\ k + Len(q) <= Len(m) /\ q = SubSeq(m, k + 1, k + Len(q))
          /\ countUniqueHashes(From(m, k)) <= 20 * Len(q)
    BY <2>1, Zenon
  <2>4. \A i, j \in 1..Len(m) : Aligned(m[i]) = Aligned(m[j]) => i = j
    <3>1. DOMAIN m = 1..Len(m)
      OBVIOUS
    <3> QED
      BY <2>11, <3>1 DEF IsInjective
  <2>5. \A i \in 1..Len(q) : q[i] = m[k + i]
    <3>1. PICK l \in Nat : l = Len(q)
      OBVIOUS
    <3>2. \A i \in 1..l : SubSeq(m, k + 1, k + l)[i] = m[(k + 1) + i - 1]
      OBVIOUS
    <3> QED
      BY <2>3, <3>1, <3>2
  <2>6. Excerpt(m, q, k)
    BY <2>3, <2>4, <2>5, <2>11 DEF Excerpt
  <2> DEFINE hit == [offset |-> k, count |-> 4 * Len(q)]
  <2>7. AlignFingerprints(m, q) = {hit}
    BY <2>6, HitOfExcerpt
  <2> HIDE DEF hit
  <2>8. Compare(call.pair[1], call.pair[2]) =
           {CompareAlignedFingerprints(m, q, h) : h \in AlignFingerprints(m, q)}
    <3>1. AlignFingerprints(m, q) # {}
      BY <2>7
    <3> QED
      BY <2>1, <3>1, Zenon DEF Compare
  <2>9. answer = CompareAlignedFingerprints(m, q, hit)
    BY <2>2, <2>7, <2>8
  <2>10. hit = [offset |-> k, count |-> 4 * Len(q)]
    BY DEF hit
  <2> QED
    BY <2>3, <2>6, <2>9, <2>10, ScoreOfExcerpt
<1> QED
  BY <1>1, AnswersHold, PTL

\* A query has as many hashes as it may, or all there are behind its start, and
\* the start leaves enough of them, for every fingerprint (ExtractLegacyQuery in
\* index.go and ExtractIndexQuery in fingerprint_searcher.go).
THEOREM QueriesComeFull == Spec => []QueryIsFull
<1>1. AnswerOK => QueryIsFull
  <2> SUFFICES ASSUME AnswerOK, Answered("indexQuery") \/ Answered("legacyQuery")
               PROVE  QueryIsFull
    BY DEF QueryIsFull
  <2>1. PICK hashes \in Seq(Nat) : hashes = call.hashes
    <3>1. call.hashes \in HashLists
      BY ArgumentsOK DEF AnswerOK, Answered
    <3> QED
      BY <3>1, AlgorithmsAssumption
  <2>2. CASE Answered("indexQuery")
    <3> DEFINE from == QueryFrom(hashes)
               loud == {HashMasked(From(hashes, from)[i]) : i \in Behind(hashes, from)}
    <3>1. answer = ExtractIndexQuery(hashes) /\ call.fn = "indexQuery"
      BY <2>1, <2>2 DEF AnswerOK, Answered
    <3>2. FullQuery(answer, loud)
      BY <3>1, QueriesAreFull
    <3>3. cleanSize(From(hashes, from)) >= Min({QuerySize, cleanSize(hashes)})
      BY StartLeavesEnough
    <3> QED
      BY <2>1, <3>1, <3>2, <3>3, Zenon DEF QueryIsFull, FullQuery, Behind
  <2>3. CASE Answered("legacyQuery")
    <3> DEFINE from == StartOf(hashes)
               loud == {Masked(From(hashes, from)[i]) : i \in Behind(hashes, from)}
    <3>1. answer = ExtractLegacyQuery(hashes) /\ call.fn = "legacyQuery" /\ call.fn # "indexQuery"
      BY <2>1, <2>3 DEF AnswerOK, Answered
    <3>2. FullQuery(answer, loud)
      BY <3>1, QueriesAreFull
    <3>3. cleanSize(From(hashes, from)) >= Min({QuerySize, cleanSize(hashes)})
      BY StartLeavesEnough
    <3> QED
      BY <2>1, <3>1, <3>2, <3>3, Zenon DEF QueryIsFull, FullQuery, Behind
  <2> QED
    BY <2>2, <2>3
<1> QED
  BY <1>1, AnswersHold, PTL

\* What is packed comes back for every width and length, but for what a value
\* that is too wide spoils behind it in its group (pack.go).
THEOREM PackedComesBack == Spec => []PackedReadsBack
<1>1. AnswerOK => PackedReadsBack
  <2> SUFFICES ASSUME AnswerOK, Answered("pack") PROVE PackedReadsBack
    BY DEF PackedReadsBack
  <2>1. PICK w \in Widths, values \in Seq(0..255) : w = call.width /\ values = call.values
    <3>1. call.width \in Widths /\ call.values \in ByteLists
      BY ArgumentsOK DEF AnswerOK, Answered
    <3>2. call.values \in Seq(0..255)
      BY <3>1, AlgorithmsAssumption, Zenon
    <3> QED
      BY <3>1, <3>2
  <2>2. PICK packed : packed = answer /\ packed = PackUint(w, values)
    <3>1. answer = PackSlice(w, values)
      BY <2>1, Zenon DEF AnswerOK
    <3> QED
      BY <3>1, SlicesAre
  <2>3. PICK l \in Nat : l = Len(values) /\ DOMAIN values = 1..l
    BY Elements
  <2>4. /\ packed \in Seq({0, 1}) /\ Len(packed) = 8 * Bytes(w * l)
    BY <2>2, <2>3, PackedIsData
  <2>5. PICK d \in Nat : /\ d = Len(packed) \div w /\ d >= l
                         /\ \A i \in 1..d : w * i <= Len(packed)
    BY <2>4, ValuesOfBytes
  <2>6. PICK read : read = UnpackSlice(w, answer) /\ read = [i \in 1..d |-> UnpackedValue(w, packed, i)]
    <3>1. UnpackSlice(w, packed) = UnpackUint(w, packed)
      BY SlicesAre
    <3>2. UnpackUint(w, packed) = [i \in 1..d |-> UnpackedValue(w, packed, i)]
      BY <2>5, Zenon DEF UnpackUint
    <3> QED
      BY <2>2, <3>1, <3>2
  <2>7. Len(read) = d /\ DOMAIN read = 1..d
    BY <2>6
  <2>8. ASSUME NEW i \in 1..d, ~Spoiled(w, values, i)
        PROVE  read[i] = IF i <= l THEN values[i] % TwoTo(w) ELSE 0
    <3>1. w * i <= Len(packed) /\ i \in Nat \ {0}
      BY <2>5
    <3>2. UnpackedValue(w, packed, i) = IF i <= l THEN values[i] % TwoTo(w) ELSE 0
      BY <2>2, <2>3, <2>8, <3>1, PackedIsRead
    <3> QED
      BY <2>6, <3>2
  <2>9. \A i \in DOMAIN read :
           \/ \E j \in DOMAIN values :
                /\ j < i /\ (j - 1) \div GroupSize(w) = (i - 1) \div GroupSize(w)
                /\ values[j] >= TwoTo(w)
           \/ read[i] = IF i <= Len(values) THEN values[i] % TwoTo(w) ELSE 0
    BY <2>3, <2>7, <2>8, Zenon DEF Spoiled
  <2>10. Len(answer) = 8 * Bytes(w * Len(values)) /\ Len(read) >= Len(values)
    BY <2>2, <2>3, <2>4, <2>5, <2>7
  <2> QED
    BY <2>1, <2>6, <2>9, <2>10, Zenon DEF PackedReadsBack
<1> QED
  BY <1>1, AnswersHold, PTL

\* What CompressFingerprint writes, ParseFingerprint reads as the same hashes,
\* for all fingerprints whose number of hashes the header can say (encoding.go).
THEOREM FingerprintsComeBack == Spec => []RoundTrip
<1>1. AnswerOK => RoundTrip
  <2> SUFFICES ASSUME AnswerOK, Answered("compress"), Len(call.fp.hashes) \in 1..(MaxTotal - 1)
               PROVE  unpackFingerprint(answer) =
                          [version |-> call.fp.version % 256, hashes |-> call.fp.hashes]
    BY DEF RoundTrip
  <2>1. PICK fp : fp = call.fp
    OBVIOUS
  <2>2. fp.version \in Int /\ fp.hashes \in Seq(SUBSET (1..HashBits)) /\ Len(fp.hashes) \in 1..(MaxTotal - 1)
    BY <2>1, WrittenPrint
  <2>3. answer = CompressFingerprint(fp)
    BY <2>1, Zenon DEF AnswerOK
  <2>4. PICK version \in 0..255 : version = fp.version % 256
    <3>1. \A x \in Int : x % 256 \in 0..255
      OBVIOUS
    <3> QED
      BY <2>2, <3>1
  <2>5. Len(fp.hashes) % MaxTotal = Len(fp.hashes)
    <3>1. Len(fp.hashes) < MaxTotal
      BY <2>2, EncodingAssumption
    <3> QED
      BY <2>2, <3>1, SmallIsWhole
  <2>6. answer = Header(version, Len(fp.hashes), WrittenBits(fp.hashes))
    BY <2>3, <2>4, <2>5, WrittenIsData
  <2>7. unpackFingerprint(answer) = [version |-> version, hashes |-> fp.hashes]
    BY <2>2, <2>6, WholeIsRead
  <2> QED
    BY <2>1, <2>4, <2>7
<1> QED
  BY <1>1, AnswersHold, PTL

\* A fingerprint that lost bytes at its end is refused, wherever it is cut, for
\* all fingerprints whose number of hashes the header can say: nothing else
\* protects ValidateFingerprint (encoding.go).
THEOREM CutsAreRefused == Spec => []TruncationIsRefused
<1>1. AnswerOK => TruncationIsRefused
  <2> SUFFICES ASSUME AnswerOK, Answered("compress"), Len(call.fp.hashes) < MaxTotal,
                      NEW n \in 0..((Len(answer.packed) \div 8) - 1)
               PROVE  unpackFingerprint([answer EXCEPT !.packed = SubSeq(@, 1, 8 * n)]) = Invalid
    BY DEF TruncationIsRefused
  <2>1. PICK fp : fp = call.fp
    OBVIOUS
  <2>2. fp.version \in Int /\ fp.hashes \in Seq(SUBSET (1..HashBits)) /\ Len(fp.hashes) < MaxTotal
    BY <2>1, WrittenPrint
  <2>3. answer = CompressFingerprint(fp)
    BY <2>1, Zenon DEF AnswerOK
  <2>4. Len(fp.hashes) % MaxTotal = Len(fp.hashes)
    BY <2>2, SmallIsWhole
  <2>5. PICK version : version = fp.version % 256
    OBVIOUS
  <2>6. PICK whole \in Seq({0, 1}) : whole = WrittenBits(fp.hashes)
    BY <2>2, WrittenIsBits
  <2>7. answer = Header(version, Len(fp.hashes), whole) /\ answer.packed = whole
    <3>1. answer = Header(version, Len(fp.hashes), whole)
      BY <2>3, <2>4, <2>5, <2>6, WrittenIsData
    <3>2. Header(version, Len(fp.hashes), whole).packed = whole
      BY DEF Header
    <3> QED
      BY <3>1, <3>2
  <2>8. n \in Nat /\ 8 * n < Len(whole)
    <3>1. PICK l \in Nat : l = Len(whole)
      BY <2>6
    <3>2. n \in 0..((l \div 8) - 1)
      BY <2>7, <3>1
    <3> QED
      BY <3>1, <3>2
  <2>9. PICK cut : cut = SubSeq(whole, 1, 8 * n)
    OBVIOUS
  <2>10. [answer EXCEPT !.packed = SubSeq(@, 1, 8 * n)] = Header(version, Len(fp.hashes), cut)
    <3>1. [answer EXCEPT !.packed = SubSeq(@, 1, 8 * n)] = [answer EXCEPT !.packed = cut]
      BY <2>7, <2>9
    <3>2. [answer EXCEPT !.packed = cut] = Header(version, Len(fp.hashes), cut)
      <4>1. \A x : [CompressFingerprint(fp) EXCEPT !.packed = x] =
                        Header(fp.version % 256, Len(fp.hashes) % MaxTotal, x)
        BY WrittenIsData
      <4> QED
        BY <2>3, <2>4, <2>5, <4>1, Zenon
    <3> QED
      BY <3>1, <3>2
  <2>11. unpackFingerprint(Header(version, Len(fp.hashes), cut)) = Invalid
    BY <2>2, <2>6, <2>8, <2>9, CutIsRefused
  <2> QED
    BY <2>10, <2>11
<1> QED
  BY <1>1, AnswersHold, PTL

\* Whatever data ParseFingerprint accepts, what it returns is written by
\* CompressFingerprint so that it is read as the same (encoding.go).
THEOREM AcceptedComesBack == Spec => []AcceptedCanBeWritten
<1>1. AnswerOK => AcceptedCanBeWritten
  <2> SUFFICES ASSUME AnswerOK, Answered("unpack"), answer # Invalid
               PROVE  /\ Len(answer.hashes) = call.data.total
                      /\ unpackFingerprint(CompressFingerprint(answer)) = answer
    BY DEF AcceptedCanBeWritten
  <2>1. PICK data \in Datas : data = call.data
    <3>1. call.data \in Datas
      BY ArgumentsOK DEF AnswerOK, Answered
    <3> QED
      BY <3>1
  <2>2. data \in {NoData} \cup [version : 0..255, total : 0..(MaxTotal - 1), packed : Seq({0, 1})]
    BY AlgorithmsAssumption, Zenon
  <2>3. answer = unpackFingerprint(data)
    BY <2>1, Zenon DEF AnswerOK
  <2>4. PICK version \in 0..255, hashes \in Seq(SUBSET (1..HashBits)) :
           /\ Len(hashes) = data.total /\ Len(hashes) \in 1..(MaxTotal - 1)
           /\ answer = [version |-> version, hashes |-> hashes]
    BY <2>2, <2>3, AcceptedIsPrint
  <2>5. answer.version = version /\ answer.hashes = hashes
    BY <2>4
  <2>6. version % 256 = version /\ Len(hashes) % MaxTotal = Len(hashes)
    <3>1. version % 256 = version
      OBVIOUS
    <3>2. Len(hashes) % MaxTotal = Len(hashes)
      <4>1. Len(hashes) < MaxTotal
        BY <2>4, EncodingAssumption
      <4> QED
        BY <4>1, SmallIsWhole
    <3> QED
      BY <3>1, <3>2
  <2>7. CompressFingerprint(answer) = Header(version, Len(hashes), WrittenBits(hashes))
    BY <2>5, <2>6, WrittenIsData
  <2>8. unpackFingerprint(CompressFingerprint(answer)) = answer
    BY <2>4, <2>7, WholeIsRead
  <2> QED
    BY <2>1, <2>4, <2>5, <2>8
<1> QED
  BY <1>1, AnswersHold, PTL

=============================================================================
