---------------------------- MODULE LookupProofs ----------------------------
(***************************************************************************)
(* The answers of the lookup: what was read of the rows is the best of     *)
(* what there is, and what was indexed in time is found.  For every number *)
(* of requests and fingerprints, whatever their hashes, lengths and scores *)
(* are, and for every order in which the index gives equal results.        *)
(***************************************************************************)
EXTENDS Lookup, FiniteSetTheorems, SequenceTheorems, NaturalsInduction,
        WellFoundedInduction, TLAPS

Stages == {"new", "index", "begin", "query", "rows", "done"}

TypeOK ==
    /\ rows \subseteq Fingerprints /\ index \subseteq rows
    /\ asked \in [Requests -> Inputs]
    /\ at \in [Requests -> Stages]
    /\ ended \in [Requests -> BOOLEAN]
    /\ known \in [Requests -> SUBSET Fingerprints]
    /\ candidates \in [Requests -> SUBSET Fingerprints]
    /\ matches \in [Requests -> Seq(Fingerprints)]
    /\ results \in [Requests -> Seq(Fingerprints)]
    /\ cut \in [Requests -> BOOLEAN]
    /\ status \in [Requests -> {"none", "200", "400", "500", "closed"}]

\* The candidates whose length is right.  All of them are rows: that no row is
\* missing when the query is run is part of the invariant.
Within(r) == {f \in candidates[r] : Length[f] \in Window(Duration(asked[r].seconds))}

\* A sequence of all elements of a set, each once, the best first.
Ranking(s, all) == s \in SetToSeqs(all) /\ ByScore(s) /\ ToSet(s) = all

\* Found by the index if it was there: the premises of FoundOnceIndexed without
\* the length.
Sure(r, f) ==
    LET others == {g \in Fingerprints \ {f} : Hits(r, g) >= Hits(r, f)}
    IN  /\ Cardinality(others) <= MaxCandidates
        /\ Hits(r, f) >= MinHits
        /\ \A g \in others : 100 * Hits(r, f) >= MinHitsPercent * Hits(r, g)
                             /\ MinHitsPercent * Hits(r, g) >= 100 * MinHits
        /\ MinHitsPercent * Hits(r, f) >= 100 * MinHits

Searched(r) == at[r] \in {"begin", "query", "rows"} \/ status[r] = "200"

\* Before the query nothing has been read; from then on what was read and what
\* is left to be read are one ranking.
RequestOK(r) ==
    /\ status[r] # "none" => at[r] = "done"
    /\ at[r] # "done" => ~cut[r]
    /\ known[r] \subseteq index /\ candidates[r] \subseteq index
    /\ at[r] \in {"new", "index", "begin", "query"} => results[r] = <<>>
    /\ at[r] = "rows" \/ status[r] = "200" => Ranking(results[r] \o matches[r], Within(r))
    /\ status[r] = "200" => cut[r] = (matches[r] # <<>>)
    /\ Searched(r) => \A f \in known[r] : Sure(r, f) => f \in candidates[r]

IInv == TypeOK /\ \A r \in Requests : RequestOK(r)

-----------------------------------------------------------------------------
(* Sequences                                                               *)

LEMMA Least ==
    ASSUME NEW S \in SUBSET Nat, S # {}
    PROVE  \E x \in S : \A y \in S : x <= y
<1> DEFINE R == {ss \in Nat \X Nat : ss[1] < ss[2]}
<1>1. IsWellFoundedOn(R, Nat)
  BY NatLessThanWellFounded, Zenon DEF OpToRel
<1>2. \A x, y \in Nat : <<y, x>> \in R <=> y < x
  OBVIOUS
<1> HIDE DEF R
<1>3. PICK x \in S : \A y \in S : ~(<<y, x>> \in R)
  BY <1>1, WFMin
<1>4. \A y \in S : ~(y < x)
  BY <1>2, <1>3
<1> QED
  BY <1>4

\* Numbers of which none is above the one before are sorted.
LEMMA Descends ==
    ASSUME NEW n \in Nat, NEW v, \A i \in 1..n : v[i] \in Int,
           \A i \in 2..n : v[i - 1] >= v[i],
           NEW i \in 1..n, NEW j \in i..n
    PROVE  v[i] >= v[j]
<1> SUFFICES ASSUME v[i] < v[j] PROVE FALSE
  <2>1. v[i] \in Int /\ v[j] \in Int
    OBVIOUS
  <2> QED
    BY <2>1
<1> DEFINE Above == {k \in i..n : v[i] < v[k]}
<1>1. Above \in SUBSET Nat /\ Above # {}
  OBVIOUS
<1>2. PICK k \in Above : \A l \in Above : k <= l
  BY <1>1, Least
<1>3. k \in i..n /\ v[i] < v[k] /\ k # i
  <2>1. v[i] \in Int
    OBVIOUS
  <2> QED
    BY <2>1, <1>2
<1>4. k \in 2..n /\ k - 1 \in i..n /\ ~(k <= k - 1)
  BY <1>3
<1>5. v[k - 1] >= v[k] /\ v[k - 1] \in Int /\ v[k] \in Int /\ v[i] \in Int
  BY <1>4
<1>6. k - 1 \notin Above
  BY <1>2, <1>4
<1> QED
  BY <1>3, <1>4, <1>5, <1>6

LEMMA SeqsOf ==
    ASSUME NEW S, IsFiniteSet(S), NEW s \in SetToSeqs(S)
    PROVE  /\ s \in Seq(S)
           /\ \A i, j \in DOMAIN s : i # j => s[i] # s[j]
           /\ ToSet(s) = S
<1>1. Cardinality(S) \in Nat
  BY FS_CardinalityType
<1> DEFINE D == 1..Cardinality(S)
<1>2. s \in [D -> S] /\ \A i, j \in D : i # j => s[i] # s[j]
  BY DEF SetToSeqs
<1>3. IsFiniteSet(D) /\ Cardinality(D) = Cardinality(S)
  BY <1>1, FS_Interval
<1>4. s \in Injection(D, S)
  BY <1>2 DEF Injection, IsInjective
<1>5. s \in Surjection(D, S)
  BY <1>3, <1>4, FS_Injection
<1>6. ToSet(s) = S
  BY <1>2, <1>5 DEF Surjection, ToSet
<1> QED
  BY <1>1, <1>2, <1>6

LEMMA MoveOver ==
    ASSUME NEW S, NEW a \in Seq(S), NEW b \in Seq(S), b # <<>>
    PROVE  Append(a, Head(b)) \o Tail(b) = a \o b
<1>1. PICK h \in S : h = Head(b)
  BY HeadTailProperties
<1>2. PICK t \in Seq(S) : t = Tail(b)
  BY HeadTailProperties
<1>3. <<h>> \in Seq(S) /\ b = <<h>> \o t
  BY <1>1, <1>2
<1>4. Append(a, h) = a \o <<h>>
  BY AppendIsConcat
<1>5. (a \o <<h>>) \o t = a \o (<<h>> \o t)
  BY <1>3, ConcatAssociative
<1> QED
  BY <1>1, <1>2, <1>3, <1>4, <1>5

-----------------------------------------------------------------------------
(* Rankings                                                                *)

\* Each row that was read is at least as good as each that was not.
LEMMA RankedBefore ==
    ASSUME NEW all \in SUBSET Fingerprints, NEW a \in Seq(Fingerprints),
           NEW b \in Seq(Fingerprints), Ranking(a \o b, all)
    PROVE  /\ ToSet(a) \subseteq all /\ ByScore(a)
           /\ Cardinality(ToSet(a)) = Len(a)
           /\ \A f \in ToSet(a), g \in all \ ToSet(a) : Score[f] >= Score[g]
           /\ b = <<>> => ToSet(a) = all
<1> DEFINE s == a \o b
<1>1. IsFiniteSet(all)
  BY LookupAssumption, FS_Subset
<1>2. s \in SetToSeqs(all) /\ ToSet(s) = all /\ ByScore(s)
  BY DEF Ranking
<1>3. /\ s \in Seq(all)
      /\ \A i, j \in DOMAIN s : i # j => s[i] # s[j]
  BY <1>1, <1>2, SeqsOf
<1>4. /\ Len(a) \in Nat /\ Len(b) \in Nat /\ Len(s) = Len(a) + Len(b)
      /\ DOMAIN a = 1..Len(a) /\ DOMAIN s = 1..Len(s)
      /\ \A i \in 1..Len(a) : i \in 1..Len(s) /\ s[i] = a[i]
  OBVIOUS
<1>5. ToSet(a) = {s[i] : i \in 1..Len(a)}
  BY <1>4 DEF ToSet
<1>6. all = {s[i] : i \in 1..Len(s)}
  BY <1>2, <1>4 DEF ToSet
<1> HIDE DEF s
<1>7. ByScore(a)
  <2>1. \A i \in 2..Len(a) : Score[s[i - 1]] >= Score[s[i]]
    BY <1>2, <1>4 DEF ByScore
  <2>2. \A i \in 2..Len(a) : i \in 1..Len(a) /\ i - 1 \in 1..Len(a)
    BY <1>4
  <2> QED
    BY <1>4, <2>1, <2>2 DEF ByScore
<1>8. Cardinality(ToSet(a)) = Len(a)
  <2>1. IsFiniteSet(1..Len(a)) /\ Cardinality(1..Len(a)) = Len(a)
    <3>1. PICK n \in Nat : n = Len(a)
      BY <1>4
    <3>2. IsFiniteSet(1..n) /\ Cardinality(1..n) = IF 1 > n THEN 0 ELSE n - 1 + 1
      BY FS_Interval
    <3>3. Cardinality(1..n) = n
      BY <3>2
    <3> QED
      BY <3>1, <3>2, <3>3
  <2>2. a \in Surjection(1..Len(a), ToSet(a)) /\ a \in Injection(1..Len(a), ToSet(a))
    <3>1. \A i, j \in 1..Len(a) : a[i] = a[j] => i = j
      BY <1>3, <1>4
    <3>2. a \in [1..Len(a) -> ToSet(a)] /\ \A f \in ToSet(a) : \E i \in 1..Len(a) : a[i] = f
      BY <1>4 DEF ToSet
    <3> QED
      BY <1>4, <3>1, <3>2 DEF Surjection, Injection, IsInjective
  <2> QED
    BY <2>1, <2>2, FS_Surjection
<1>9. ASSUME NEW f \in ToSet(a), NEW g \in all \ ToSet(a) PROVE Score[f] >= Score[g]
  <2> DEFINE v == [i \in 1..Len(s) |-> Score[s[i]]]
  <2>1. PICK i \in 1..Len(a) : f = s[i]
    BY <1>5
  <2>2. PICK j \in 1..Len(s) : g = s[j]
    BY <1>6
  <2>3. j \notin 1..Len(a)
    BY <1>5, <2>2
  <2>4. j \in i..Len(s) /\ i \in 1..Len(s)
    BY <1>4, <2>1, <2>2, <2>3
  <2>5. \A k \in 1..Len(s) : v[k] \in Int
    <3>1. \A k \in 1..Len(s) : s[k] \in Fingerprints
      BY <1>3
    <3> QED
      BY <3>1, LookupAssumption
  <2>6. \A k \in 2..Len(s) : v[k - 1] >= v[k]
    <3>1. \A k \in 2..Len(s) : k - 1 \in 1..Len(s) /\ k \in 1..Len(s)
      BY <1>4
    <3> QED
      BY <1>2, <3>1 DEF ByScore
  <2>7. Len(s) \in Nat /\ v[i] = Score[f] /\ v[j] = Score[g]
    BY <1>4, <2>1, <2>2, <2>4
  <2> HIDE DEF v
  <2>8. v[i] >= v[j]
    BY <2>4, <2>5, <2>6, <2>7, Descends
  <2> QED
    BY <2>7, <2>8
<1>10. b = <<>> => ToSet(a) = all
  BY <1>4, <1>5, <1>6
<1> QED
  BY <1>5, <1>6, <1>4, <1>7, <1>8, <1>9, <1>10

\* Rounding leaves no length within 6.5 seconds out.
LEMMA WindowCovers ==
    ASSUME NEW d \in Int, NEW length \in Int, 2 * length \in (d - 13)..(d + 13)
    PROVE  length \in Window(d)
<1>1. CASE d - 14 >= 0
  BY <1>1 DEF Window, Round
<1>2. CASE ~(d - 14 >= 0)
  BY <1>2 DEF Window, Round
<1> QED
  BY <1>1, <1>2

-----------------------------------------------------------------------------
(* Candidates                                                              *)

LEMMA HitsType ==
    ASSUME NEW r, NEW f \in Fingerprints
    PROVE  Hits(r, f) \in Nat
<1>1. IsFiniteSet(HashesOf[f])
  BY LookupAssumption
<1>2. IsFiniteSet(ToSet(ExtractIndexQuery(asked[r].hashes)) \cap HashesOf[f])
  BY <1>1, FS_Subset
<1> QED
  BY <1>2, FS_CardinalityType DEF Hits

LEMMA AnswerIsFinite ==
    ASSUME TypeOK, NEW r
    PROVE  /\ IsFiniteSet(IndexAnswer(r))
           /\ \A x \in IndexAnswer(r) : x.id \in index /\ x.hits = Hits(r, x.id) /\ x.hits \in Nat
<1> DEFINE All == {[id |-> f, hits |-> Hits(r, f)] : f \in index}
           Of  == [f \in index |-> [id |-> f, hits |-> Hits(r, f)]]
<1>1. index \subseteq Fingerprints /\ IsFiniteSet(index)
  BY LookupAssumption, FS_Subset DEF TypeOK
<1>2. Of \in Surjection(index, All)
  BY DEF Surjection
<1>3. IsFiniteSet(All)
  BY <1>1, <1>2, FS_Surjection
<1>4. IndexAnswer(r) \subseteq All
  BY DEF IndexAnswer
<1>5. \A f \in index : Hits(r, f) \in Nat
  BY <1>1, HitsType
<1>6. \A x \in All : x.id \in index /\ x.hits = Hits(r, x.id) /\ x.hits \in Nat
  BY <1>5
<1> HIDE DEF All
<1> QED
  BY <1>3, <1>4, <1>6, FS_Subset

\* A fingerprint that is sure to be found is a candidate, in whatever order the
\* index and sort.Slice leave equal results.
LEMMA SureIsCandidate ==
    ASSUME TypeOK, NEW r, NEW f \in index, Sure(r, f), NEW ids \in GetCandidates(IndexAnswer(r))
    PROVE  f \in ids
<1> DEFINE A == IndexAnswer(r)
           others == {g \in Fingerprints \ {f} : Hits(r, g) >= Hits(r, f)}
           x == [id |-> f, hits |-> Hits(r, f)]
<1>1. /\ MaxCandidates \in Nat /\ MinHits \in Nat \ {0}
      /\ MinHitsPercent \in Nat /\ MinHitsPercent <= 100
  BY SearcherAssumption
<1>2. index \subseteq Fingerprints /\ f \in Fingerprints
  BY DEF TypeOK
<1>3. \A g \in Fingerprints : Hits(r, g) \in Nat
  BY HitsType
<1>4. PICK s \in Sorted(A) : ids = Candidates(s)
  BY DEF GetCandidates
<1>5. s \in SetToSeqs(A) /\ \A i \in 2..Len(s) : s[i - 1].hits >= s[i].hits
  BY <1>4 DEF Sorted
<1>6. /\ IsFiniteSet(A)
      /\ \A y \in A : y.id \in index /\ y.hits = Hits(r, y.id) /\ y.hits \in Nat
  BY AnswerIsFinite
<1>7. x \in A
  <2>1. Hits(r, f) > 0
    BY <1>1, <1>2, <1>3 DEF Sure
  <2> QED
    BY <2>1 DEF IndexAnswer
<1> HIDE DEF A
<1>8. /\ s \in Seq(A) /\ ToSet(s) = A
      /\ \A i, j \in DOMAIN s : i # j => s[i] # s[j]
  BY <1>5, <1>6, SeqsOf
<1>9. /\ Len(s) \in Nat /\ DOMAIN s = 1..Len(s)
      /\ \A i \in 1..Len(s) : s[i] \in A /\ s[i].hits \in Nat
  BY <1>6, <1>8
<1>10. PICK p \in 1..Len(s) : s[p] = x
  BY <1>7, <1>8, <1>9 DEF ToSet
<1>11. p \in Nat /\ 1 <= p /\ p <= Len(s) /\ s # <<>>
  BY <1>9, <1>10
<1> DEFINE v == [i \in 1..Len(s) |-> s[i].hits]
<1>12. ASSUME NEW i \in 1..p PROVE s[i].hits >= Hits(r, f) /\ s[i] \in A /\ i \in 1..Len(s)
  <2>1. \A k \in 2..Len(s) : v[k - 1] >= v[k]
    <3>1. \A k \in 2..Len(s) : k - 1 \in 1..Len(s) /\ k \in 1..Len(s)
      BY <1>9
    <3> QED
      BY <1>5, <3>1
  <2>2. \A k \in 1..Len(s) : v[k] \in Int
    BY <1>9
  <2>3. i \in 1..Len(s) /\ p \in i..Len(s)
    BY <1>11
  <2>4. v[i] = s[i].hits /\ v[p] = Hits(r, f)
    BY <1>10, <2>3
  <2> HIDE DEF v
  <2>5. v[i] >= v[p]
    BY <1>9, <2>1, <2>2, <2>3, Descends
  <2> QED
    BY <1>9, <2>3, <2>4, <2>5
<1>13. ASSUME NEW i \in 1..(p - 1) PROVE s[i].id \in others
  <2>1. s[i] \in A /\ s[i].hits >= Hits(r, f) /\ i \in DOMAIN s /\ i # p
    BY <1>9, <1>11, <1>12
  <2>2. PICK y \in A : y = s[i]
    BY <2>1
  <2>3. y.id \in index /\ y.hits = Hits(r, y.id)
    BY <1>6
  <2>4. y = [id |-> y.id, hits |-> Hits(r, y.id)]
    BY <2>3 DEF A, IndexAnswer
  <2>5. y # x
    BY <1>8, <1>9, <1>10, <2>1, <2>2
  <2>6. y.id # f
    BY <2>4, <2>5
  <2> QED
    BY <1>2, <2>1, <2>2, <2>3, <2>6
<1>14. p <= MaxCandidates + 1
  <2> DEFINE Names == [i \in 1..(p - 1) |-> s[i].id]
  <2>1. PICK n \in Nat : n = p - 1
    BY <1>11
  <2>2. IsFiniteSet(1..n) /\ Cardinality(1..n) = IF 1 > n THEN 0 ELSE n - 1 + 1
    BY FS_Interval
  <2>3. Cardinality(1..n) = n
    BY <2>2
  <2>4. \A i, j \in 1..n : Names[i] = Names[j] => i = j
    <3> SUFFICES ASSUME NEW i \in 1..n, NEW j \in 1..n, s[i].id = s[j].id, i # j PROVE FALSE
      BY <2>1
    <3>1. i \in 1..Len(s) /\ j \in 1..Len(s) /\ s[i] \in A /\ s[j] \in A
      BY <1>11, <1>9, <2>1
    <3>2. PICK y \in A : y = s[i]
      BY <3>1
    <3>3. PICK z \in A : z = s[j]
      BY <3>1
    <3>4. y = [id |-> y.id, hits |-> Hits(r, y.id)] /\ z = [id |-> z.id, hits |-> Hits(r, z.id)]
      BY DEF A, IndexAnswer
    <3>5. y = z
      BY <3>2, <3>3, <3>4
    <3> QED
      BY <1>8, <1>9, <3>1, <3>2, <3>3, <3>5
  <2>5. Names \in [1..n -> others]
    BY <1>13, <2>1
  <2>6. Names \in Injection(1..n, others)
    BY <2>4, <2>5 DEF Injection, IsInjective
  <2>7. IsFiniteSet(others)
    BY LookupAssumption, FS_Subset
  <2>8. Cardinality(1..n) <= Cardinality(others) /\ Cardinality(others) \in Nat
    BY <2>6, <2>7, FS_Injection, FS_CardinalityType
  <2>9. Cardinality(others) <= MaxCandidates
    BY DEF Sure
  <2> HIDE DEF Names, others
  <2> QED
    BY <1>1, <1>11, <2>1, <2>3, <2>8, <2>9
<1>15. 1 \in 1..p /\ s[1] \in A
  BY <1>11, <1>12
<1>16. PICK best \in Nat : best = s[1].hits
  BY <1>9, <1>11
<1>17. /\ MinHitsPercent * best >= 100 * MinHits
       /\ 100 * Hits(r, f) >= MinHitsPercent * best
  <2>1. PICK g \in index : g = s[1].id /\ best = Hits(r, g)
    BY <1>6, <1>15, <1>16
  <2>2. CASE g = f
    <3>1. PICK h \in Nat : h = Hits(r, f)
      BY <1>2, <1>3
    <3>2. 100 * h >= MinHitsPercent * h
      BY <1>1, <3>1
    <3> QED
      BY <2>1, <2>2, <3>1, <3>2 DEF Sure
  <2>3. CASE g # f
    <3>1. g \in others
      BY <1>2, <1>12, <1>15, <1>16, <2>1, <2>3
    <3> QED
      BY <2>1, <3>1 DEF Sure
  <2> QED
    BY <2>2, <2>3
<1> DEFINE minHits == (s[1].hits * MinHitsPercent) \div 100
<1>18. minHits >= MinHits /\ minHits <= Hits(r, f) /\ minHits \in Int
  <2>1. PICK h \in Nat : h = Hits(r, f)
    BY <1>2, <1>3
  <2>2. PICK b \in Nat : b = best * MinHitsPercent /\ b = MinHitsPercent * best
    BY <1>1
  <2>3. b >= 100 * MinHits /\ 100 * h >= b
    BY <1>17, <2>1, <2>2
  <2>4. b \div 100 >= MinHits /\ b \div 100 <= h /\ b \div 100 \in Int
    BY <1>1, <2>2, <2>3
  <2> QED
    BY <1>16, <2>1, <2>2, <2>4
<1>19. \A j \in 1..p : j <= MaxCandidates + 1 /\ s[j].hits >= minHits
  <2> SUFFICES ASSUME NEW j \in 1..p PROVE j <= MaxCandidates + 1 /\ s[j].hits >= minHits
    OBVIOUS
  <2>1. s[j].hits >= Hits(r, f) /\ s[j].hits \in Nat
    BY <1>9, <1>12
  <2> HIDE DEF minHits
  <2> QED
    BY <1>1, <1>2, <1>3, <1>11, <1>14, <1>18, <2>1
<1>20. p \in DOMAIN s /\ s[p].id = f
  BY <1>9, <1>10
<1>21. ~(s = <<>> \/ minHits < MinHits)
  BY <1>1, <1>11, <1>18
<1>22. s[p].id \in Candidates(s)
  BY <1>19, <1>20, <1>21 DEF Candidates
<1> QED
  BY <1>4, <1>20, <1>22

LEMMA CandidatesAreIndexed ==
    ASSUME TypeOK, NEW r, NEW ids \in GetCandidates(IndexAnswer(r))
    PROVE  ids \subseteq index
<1>1. /\ IsFiniteSet(IndexAnswer(r))
      /\ \A x \in IndexAnswer(r) : x.id \in index
  BY AnswerIsFinite
<1>2. PICK s \in Sorted(IndexAnswer(r)) : ids = Candidates(s)
  BY DEF GetCandidates
<1>3. s \in Seq(IndexAnswer(r))
  BY <1>1, <1>2, SeqsOf DEF Sorted
<1> SUFFICES ASSUME NEW f \in ids PROVE f \in index
  OBVIOUS
<1>4. PICK i \in DOMAIN s : f = s[i].id
  BY <1>2 DEF Candidates
<1>5. s[i] \in IndexAnswer(r)
  BY <1>3
<1> QED
  BY <1>1, <1>4, <1>5

-----------------------------------------------------------------------------
(* Steps                                                                   *)

LEMMA InitHolds == Init => IInv
<1> SUFFICES ASSUME Init PROVE IInv
  OBVIOUS
<1>1. TypeOK
  BY DEF Init, TypeOK, Stages
<1>2. ASSUME NEW r \in Requests PROVE RequestOK(r)
  BY <1>2 DEF Init, RequestOK, Searched
<1> QED
  BY <1>1, <1>2 DEF IInv

\* What the answer of a request rests on.
Record(r) ==
    <<at[r], known[r], candidates[r], matches[r], results[r], cut[r], status[r]>>

LEMMA Untouched ==
    ASSUME NEW r \in Requests, RequestOK(r), Record(r)' = Record(r),
           asked' = asked, index \subseteq index'
    PROVE  RequestOK(r)'
<1>1. /\ at'[r] = at[r] /\ known'[r] = known[r] /\ candidates'[r] = candidates[r]
      /\ matches'[r] = matches[r] /\ results'[r] = results[r]
      /\ cut'[r] = cut[r] /\ status'[r] = status[r]
  BY DEF Record
<1>2. Within(r)' = Within(r) /\ (\A s, all : Ranking(s, all)' = Ranking(s, all))
  BY <1>1 DEF Within, Ranking, ByScore
<1>3. \A f : Sure(r, f)' = Sure(r, f)
  BY DEF Sure, Hits
<1>4. Searched(r)' = Searched(r)
  BY <1>1 DEF Searched
<1> QED
  BY <1>1, <1>2, <1>3, <1>4 DEF RequestOK

\* A request is refused, or ends without an answer.
LEMMA EndsWithout ==
    ASSUME IInv, NEW r \in Requests, NEW code \in {"400", "500", "closed"}, at[r] # "done",
           Respond(r, code),
           UNCHANGED <<dbVars, asked, ended, known, candidates, matches, results, cut>>
    PROVE  IInv'
<1>1. TypeOK'
  BY DEF IInv, TypeOK, Respond, dbVars, Stages
<1>2. ASSUME NEW q \in Requests PROVE RequestOK(q)'
  <2>1. CASE q = r
    <3>1. status'[r] = code /\ at'[r] = "done"
      BY DEF IInv, TypeOK, Respond
    <3>2. index' = index /\ candidates' = candidates /\ known' = known
      BY DEF dbVars
    <3> QED
      BY <2>1, <3>1, <3>2 DEF IInv, RequestOK, Searched
  <2>2. CASE q # r
    BY <2>2, Untouched DEF IInv, TypeOK, Respond, Record, dbVars
  <2> QED
    BY <2>1, <2>2
<1> QED
  BY <1>1, <1>2 DEF IInv

\* The others are left alone when a request goes on.
LEMMA OthersKeep ==
    ASSUME IInv, TypeOK', NEW r \in Requests, RequestOK(r)',
           asked' = asked, index \subseteq index',
           \A q \in Requests : q # r => Record(q)' = Record(q)
    PROVE  IInv'
BY Untouched DEF IInv

LEMMA Accepts ==
    ASSUME IInv, NEW r \in Requests, Accept(r)
    PROVE  IInv'
<1>1. TypeOK'
  BY DEF IInv, TypeOK, Accept, Goes, dbVars, Stages
<1>2. /\ at[r] = "new" /\ at'[r] = "index" /\ known'[r] = index /\ index' = index
      /\ asked' = asked
      /\ UNCHANGED <<candidates, matches, results, cut, status>>
  BY DEF IInv, TypeOK, Accept, Goes, dbVars
<1>3. RequestOK(r)'
  BY <1>2 DEF IInv, RequestOK, Searched
<1>4. \A q \in Requests : q # r => Record(q)' = Record(q)
  BY DEF IInv, TypeOK, Accept, Goes, Record
<1> QED
  BY <1>1, <1>2, <1>3, <1>4, OthersKeep

LEMMA Searches ==
    ASSUME IInv, NEW r \in Requests, SearchIndex(r)
    PROVE  IInv'
<1> TypeOK /\ RequestOK(r)
  BY DEF IInv
<1>1. PICK ids \in GetCandidates(IndexAnswer(r)) : candidates' = [candidates EXCEPT ![r] = ids]
  BY DEF SearchIndex
<1>2. ids \subseteq index
  BY CandidatesAreIndexed
<1>3. TypeOK'
  BY <1>1, <1>2 DEF TypeOK, SearchIndex, Goes, dbVars, Stages
<1>4. /\ at[r] = "index" /\ at'[r] = "begin" /\ candidates'[r] = ids
      /\ index' = index /\ asked' = asked
      /\ UNCHANGED <<known, matches, results, cut, status>>
  BY <1>1 DEF TypeOK, SearchIndex, Goes, dbVars
<1>5. \A f \in known[r] : Sure(r, f)' => f \in ids
  <2>1. \A f : Sure(r, f)' = Sure(r, f)
    BY <1>4 DEF Sure, Hits
  <2>2. known[r] \subseteq index
    BY DEF RequestOK
  <2> QED
    BY <2>1, <2>2, SureIsCandidate
<1>6. RequestOK(r)'
  BY <1>2, <1>4, <1>5 DEF RequestOK
<1>7. \A q \in Requests : q # r => Record(q)' = Record(q)
  BY <1>1 DEF TypeOK, SearchIndex, Goes, Record
<1> QED
  BY <1>3, <1>4, <1>6, <1>7, OthersKeep

LEMMA Begins ==
    ASSUME IInv, NEW r \in Requests, BeginTx(r)
    PROVE  IInv'
<1>1. TypeOK'
  BY DEF IInv, TypeOK, BeginTx, Goes, dbVars, Stages
<1>2. /\ at[r] = "begin" /\ at'[r] = "query" /\ index' = index /\ asked' = asked
      /\ UNCHANGED <<known, candidates, matches, results, cut, status>>
  BY DEF IInv, TypeOK, BeginTx, Goes, dbVars
<1>3. \A f : Sure(r, f)' = Sure(r, f)
  BY <1>2 DEF Sure, Hits
<1>4. RequestOK(r)'
  BY <1>2, <1>3 DEF IInv, RequestOK, Searched
<1>5. \A q \in Requests : q # r => Record(q)' = Record(q)
  BY DEF IInv, TypeOK, BeginTx, Goes, Record
<1> QED
  BY <1>1, <1>2, <1>4, <1>5, OthersKeep

\* The query finds every candidate: it was a row before the index knew it.
LEMMA Queries ==
    ASSUME IInv, NEW r \in Requests, QueryRows(r)
    PROVE  IInv'
<1> TypeOK /\ RequestOK(r)
  BY DEF IInv
<1>1. PICK s \in SetToSeqs(Matching(r)) : ByScore(s) /\ matches' = [matches EXCEPT ![r] = s]
  BY DEF QueryRows
<1>2. Matching(r) = Within(r) /\ Matching(r) \subseteq Fingerprints
  BY DEF Matching, Within, RequestOK, TypeOK
<1>3. IsFiniteSet(Matching(r))
  BY <1>2, LookupAssumption, FS_Subset
<1>4. s \in Seq(Fingerprints) /\ ToSet(s) = Matching(r)
  <2>1. s \in Seq(Matching(r)) /\ ToSet(s) = Matching(r)
    BY <1>3, SeqsOf
  <2> QED
    BY <1>2, <2>1
<1>5. TypeOK'
  BY <1>1, <1>4 DEF TypeOK, QueryRows, Goes, dbVars, Stages
<1>6. /\ at[r] = "query" /\ at'[r] = "rows" /\ matches'[r] = s
      /\ index' = index /\ asked' = asked
      /\ UNCHANGED <<known, candidates, results, cut, status>>
  BY <1>1 DEF TypeOK, QueryRows, Goes, dbVars
<1>7. Ranking(results[r] \o s, Within(r))
  <2>1. results[r] = <<>>
    BY <1>6 DEF RequestOK
  <2>2. <<>> \o s = s
    BY <1>4
  <2> QED
    BY <1>1, <1>2, <1>4, <2>1, <2>2 DEF Ranking
<1>8. Within(r)' = Within(r) /\ \A t, all : Ranking(t, all)' = Ranking(t, all)
  BY <1>6 DEF Within, Ranking, ByScore
<1>9. \A f : Sure(r, f)' = Sure(r, f)
  BY <1>6 DEF Sure, Hits
<1>10. RequestOK(r)'
  BY <1>6, <1>7, <1>8, <1>9 DEF RequestOK, Searched
<1>11. \A q \in Requests : q # r => Record(q)' = Record(q)
  BY <1>1 DEF TypeOK, QueryRows, Goes, Record
<1> QED
  BY <1>5, <1>6, <1>10, <1>11, OthersKeep

LEMMA Reads ==
    ASSUME IInv, NEW r \in Requests, NextRow(r)
    PROVE  IInv'
<1> TypeOK /\ RequestOK(r)
  BY DEF IInv
<1>1. matches[r] \in Seq(Fingerprints) /\ results[r] \in Seq(Fingerprints) /\ matches[r] # <<>>
  BY DEF TypeOK, NextRow
<1>2. PICK left : left = Tail(matches[r])
  OBVIOUS
<1>3. PICK read : read = Append(results[r], Head(matches[r]))
  OBVIOUS
<1>4. left \in Seq(Fingerprints) /\ read \in Seq(Fingerprints)
  BY <1>1, <1>2, <1>3
<1>5. matches' = [matches EXCEPT ![r] = left] /\ results' = [results EXCEPT ![r] = read]
  BY <1>2, <1>3 DEF NextRow
<1>6. TypeOK'
  BY <1>4, <1>5 DEF TypeOK, NextRow, Goes, dbVars, Stages
<1>7. /\ at[r] = "rows" /\ at'[r] = "rows" /\ matches'[r] = left /\ results'[r] = read
      /\ index' = index /\ asked' = asked
      /\ UNCHANGED <<known, candidates, cut, status>>
  BY <1>5 DEF TypeOK, NextRow, Goes, dbVars
<1>8. read \o left = results[r] \o matches[r]
  BY <1>1, <1>2, <1>3, MoveOver
<1>9. Within(r)' = Within(r) /\ \A t, all : Ranking(t, all)' = Ranking(t, all)
  BY <1>7 DEF Within, Ranking, ByScore
<1>10. \A f : Sure(r, f)' = Sure(r, f)
  BY <1>7 DEF Sure, Hits
<1>11. RequestOK(r)'
  BY <1>7, <1>8, <1>9, <1>10 DEF RequestOK, Searched
<1>12. \A q \in Requests : q # r => Record(q)' = Record(q)
  BY <1>5 DEF TypeOK, NextRow, Goes, Record
<1> QED
  BY <1>6, <1>7, <1>11, <1>12, OthersKeep

LEMMA EndsRows ==
    ASSUME IInv, NEW r \in Requests, EndOfRows(r)
    PROVE  IInv'
<1> TypeOK /\ RequestOK(r)
  BY DEF IInv
<1>1. PICK b \in BOOLEAN : b = (matches[r] # <<>>) /\ cut' = [cut EXCEPT ![r] = b]
  BY DEF EndOfRows
<1>2. TypeOK'
  BY <1>1 DEF TypeOK, EndOfRows, Respond, dbVars, Stages
<1>3. /\ at[r] = "rows" /\ at'[r] = "done" /\ status'[r] = "200" /\ cut'[r] = b
      /\ index' = index /\ asked' = asked
      /\ UNCHANGED <<known, candidates, matches, results>>
  BY <1>1 DEF TypeOK, EndOfRows, Respond, dbVars
<1>4. Within(r)' = Within(r) /\ \A t, all : Ranking(t, all)' = Ranking(t, all)
  BY <1>3 DEF Within, Ranking, ByScore
<1>5. \A f : Sure(r, f)' = Sure(r, f)
  BY <1>3 DEF Sure, Hits
<1>6. RequestOK(r)'
  BY <1>1, <1>3, <1>4, <1>5 DEF RequestOK, Searched
<1>7. \A q \in Requests : q # r => Record(q)' = Record(q)
  BY <1>1 DEF TypeOK, EndOfRows, Respond, Record
<1> QED
  BY <1>2, <1>3, <1>6, <1>7, OthersKeep

\* Time passes, the client leaves, and the database and the index grow: no
\* request is told.
LEMMA Around ==
    ASSUME IInv, TypeOK', UNCHANGED <<asked, at, known, candidates, matches, results, cut, status>>,
           index \subseteq index'
    PROVE  IInv'
BY Untouched DEF IInv, Record

LEMMA NextHolds == IInv /\ [Next]_vars => IInv'
<1> SUFFICES ASSUME IInv, [Next]_vars PROVE IInv'
  OBVIOUS
<1> TypeOK
  BY DEF IInv
<1>1. ASSUME NEW r \in Requests, Refuse(r) PROVE IInv'
  BY <1>1, EndsWithout DEF Refuse, StatusOf
<1>2. ASSUME NEW r \in Requests, BeginFails(r) \/ SearchFails(r) PROVE IInv'
  BY <1>2, EndsWithout DEF BeginFails, SearchFails
<1>3. ASSUME NEW r \in Requests, Timeout(r) \/ Disconnect(r) PROVE IInv'
  <2>1. TypeOK'
    BY <1>3 DEF Timeout, Disconnect, TypeOK, dbVars
  <2> QED
    BY <1>3, <2>1, Around DEF Timeout, Disconnect, dbVars
<1>4. ASSUME NEW f \in Fingerprints, Import(f) \/ Update(f) PROVE IInv'
  <2>1. TypeOK'
    BY <1>4 DEF Import, Update, TypeOK
  <2> QED
    BY <1>4, <2>1, Around DEF Import, Update
<1>5. CASE UNCHANGED vars
  <2>1. TypeOK'
    BY <1>5 DEF vars, dbVars, TypeOK
  <2> QED
    BY <1>5, <2>1, Around DEF vars, dbVars
<1> QED
  BY <1>1, <1>2, <1>3, <1>4, <1>5, Accepts, Searches, Begins, Queries, Reads, EndsRows DEF Next

-----------------------------------------------------------------------------

\* An answer has the best of the rows there are among the candidates, the best
\* first, wherever the rows ended: Next of the rows returns false without an
\* error when the context is over, and ScoreSearchMatches does not ask for it.
THEOREM AnswersAlwaysBest == Spec => []AnswersAreBest
<1>1. IInv => AnswersAreBest
  <2> SUFFICES ASSUME IInv, NEW r \in Requests, status[r] = "200"
               PROVE  LET found == ToSet(results[r])
                      IN  /\ found \subseteq Within(r)
                          /\ ByScore(results[r])
                          /\ Cardinality(found) = Len(results[r])
                          /\ \A f \in found, g \in Within(r) \ found : Score[f] >= Score[g]
                          /\ cut[r] \/ found = Within(r)
    BY DEF AnswersAreBest, Within
  <2>1. Ranking(results[r] \o matches[r], Within(r)) /\ (~cut[r] => matches[r] = <<>>)
    BY DEF IInv, RequestOK
  <2>2. /\ Within(r) \in SUBSET Fingerprints
        /\ results[r] \in Seq(Fingerprints) /\ matches[r] \in Seq(Fingerprints)
        /\ cut[r] \in BOOLEAN
    BY DEF IInv, TypeOK, Within
  <2> QED
    BY <2>1, <2>2, RankedBefore
<1> QED
  BY <1>1, InitHolds, NextHolds, PTL DEF Spec

\* The share of hits, the cut after MaxCandidates and the rounded window leave
\* no gap between them: what the index had when GetCandidates asked, and what
\* is near enough, is in every answer that was not cut short.
THEOREM IndexedIsFound == Spec => []FoundOnceIndexed
<1>1. IInv => FoundOnceIndexed
  <2> SUFFICES ASSUME IInv, NEW r \in Requests, status[r] = "200", ~cut[r],
                      asked[r].seconds # NaN, NEW f \in known[r], Sure(r, f),
                      2 * Length[f] \in (asked[r].seconds - 13)..(asked[r].seconds + 13)
               PROVE  f \in ToSet(results[r])
    BY DEF FoundOnceIndexed, Sure
  <2>1. /\ Ranking(results[r] \o matches[r], Within(r)) /\ matches[r] = <<>>
        /\ f \in candidates[r]
    BY DEF IInv, RequestOK, Searched
  <2>2. /\ results[r] \in Seq(Fingerprints) /\ asked[r] \in Inputs /\ f \in Fingerprints
        /\ Within(r) \in SUBSET Fingerprints
    BY DEF IInv, TypeOK, Within
  <2>3. asked[r].seconds \in Int /\ Length[f] \in Int
    BY <2>2, LookupAssumption
  <2>4. f \in Within(r)
    BY <2>1, <2>3, WindowCovers DEF Within, Duration
  <2>5. ToSet(results[r]) = Within(r)
    <3>1. PICK left \in Seq(Fingerprints) : left = matches[r]
      BY DEF IInv, TypeOK
    <3> QED
      BY <2>1, <2>2, <3>1, RankedBefore
  <2> QED
    BY <2>4, <2>5
<1> QED
  BY <1>1, InitHolds, NextHolds, PTL DEF Spec

=============================================================================
