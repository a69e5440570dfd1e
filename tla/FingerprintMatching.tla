------------------------- MODULE FingerprintMatching ------------------------
(***************************************************************************)
(* How two fingerprints are aligned and compared: pkg/chromaprint/match.go *)
(* with the filter of util/signal.  A hash is the set of its bits,         *)
(* numbered from 1; offsets and sections count from 0, as in the code.     *)
(*                                                                         *)
(* The Gaussian of three points is <<3, 4, 3>> tenths, and smoothed counts *)
(* are in tenths; a score is a fraction.  Which of the hits with the       *)
(* highest count sort.Slice puts first, and where the smoothed differences *)
(* have their peaks, is left open: operators give the set of outcomes.     *)
(***************************************************************************)
EXTENDS Integers, Sequences, SequencesExt, FiniteSets, FiniteSetsExt

CONSTANTS
    Width,          \* bits of a hash: 32
    NumAlignBits,   \* 14
    MaxOffset,      \* 80, where 0 is no limit
    MaxHashes,      \* a fingerprint has fewer hashes: 2^16
    Versions,       \* the versions in FingerprintConfigs
    MaxScore,       \* a section with this many differing bits per hash is none: 13
    Err             \* no result, an error

ASSUME MatchingAssumption ==
    /\ Width \in Nat
    /\ NumAlignBits \in 0..Width
    /\ MaxOffset \in Nat
    /\ MaxScore \in Nat

\* Every second bit, from the second; when these are used up, the others.
hashBitMask(nbits) ==
    {b \in 1..Width : b % 2 = 0 /\ b <= 2 * nbits}
        \cup {b \in 1..Width : b % 2 = 1 /\ b <= 2 * nbits - Width}

Aligned(hash) == hash \cap hashBitMask(NumAlignBits)

\* The index BorderReflect takes for one next to the n elements.
Reflect(i, n) == IF i < 0 THEN 0 ELSE IF i >= n THEN n - 1 ELSE i

GaussianFilter(counts, n) ==
    [i \in 0..(n - 1) |-> 3 * counts[Reflect(i - 1, n)] + 4 * counts[i] + 3 * counts[Reflect(i + 1, n)]]

\* Faulty variant: a distance to the left is not limited.
PairsAtLeft(master, query, offset) ==
    IF MaxOffset = 0 \/ offset <= MaxOffset
    THEN Cardinality({i \in 1..Len(query) :
             /\ i + offset \in 1..Len(master)
             /\ Aligned(master[i + offset]) = Aligned(query[i])})
    ELSE 0

\* Pairs of equal hashes a given distance apart, where the distance counts.
\* The code sorts both sides by hash and goes through them together.
PairsAt(master, query, offset) ==
    IF MaxOffset = 0 \/ offset \in -MaxOffset..MaxOffset
    THEN Cardinality({i \in 1..Len(query) :
             /\ i + offset \in 1..Len(master)
             /\ Aligned(master[i + offset]) = Aligned(query[i])})
    ELSE 0

\* The peaks of the smoothed counts that are not below both thresholds, at
\* least 2 and at least a tenth of the highest.
OffsetHits(master, query) ==
    LET n == Len(master) + Len(query) + 1
        counts == [i \in 0..(n - 1) |-> PairsAt(master, query, i - Len(query))]
        smoothed == GaussianFilter(counts, n)
        at(i) == IF i \in 0..(n - 1) THEN smoothed[i] ELSE 0
        peaks == {i \in 0..(n - 1) :
                     /\ smoothed[i] >= 20
                     /\ \A j \in 0..(n - 1) : 10 * smoothed[i] >= smoothed[j]
                     /\ at(i - 1) <= smoothed[i] /\ at(i + 1) < smoothed[i]}
    IN  {[offset |-> i - Len(query), count |-> smoothed[i]] : i \in peaks}

\* With a limit of one.
AlignFingerprints(master, query) ==
    LET hits == OffsetHits(master, query)
    IN  {h \in hits : \A g \in hits : g.count <= h.count}

\* What is left of a fingerprint when its first n hashes are cut off.
From(hashes, n) == SubSeq(hashes, n + 1, Len(hashes))

\* Faulty variant: the master is taken from its start.
MasterAtStart(master, offset) == master

MasterAt(master, offset) == From(master, IF offset < 0 THEN 0 ELSE offset)
QueryAt(query, offset)   == From(query, IF offset < 0 THEN -offset ELSE 0)

Overlap(a, b) == Min({Len(a), Len(b)})

\* PopCount32 of the exclusive or, summed over a part of the overlap: how many
\* bits there are, of all its places, in which the two differ.
BitErrors(a, b, from, to) ==
    Cardinality(UNION {{i} \X SymDiff(a[i], b[i]) : i \in (from + 1)..to})

countUniqueHashes(hashes) ==
    Cardinality({hashes[i] \cap hashBitMask(16) : i \in DOMAIN hashes})

\* Few different hashes bring the score down, by a power of it.
Diverse(hashes) == 2 * (countUniqueHashes(hashes) + 10) >= Len(hashes)

Score(num, den, reduced) == [num |-> num, den |-> den, reduced |-> reduced]

NoScore == Score(0, 1, FALSE)

\* A hit needs at least one pair for 50 different hashes.
CompareAlignedFingerprints(master, query, hit) ==
    LET a == MasterAt(master, hit.offset)
        b == QueryAt(query, hit.offset)
        size == Overlap(a, b)
        unique == Max({countUniqueHashes(a), countUniqueHashes(b)})
    IN  IF size = 0 \/ hit.count * 5 < unique
        THEN NoScore
        ELSE Score(size * Width - BitErrors(a, b, 0, size), Overlap(master, query) * Width,
                   ~(Diverse(a) /\ Diverse(b)))

\* Both fingerprints are checked before they are used.
Comparable(master, query) ==
    /\ master.version = query.version
    /\ master.version \in Versions
    /\ Len(master.hashes) < MaxHashes
    /\ Len(query.hashes) < MaxHashes

Compare(master, query) ==
    LET hits == AlignFingerprints(master.hashes, query.hashes)
    IN  CASE ~Comparable(master, query) -> {Err}
          [] Comparable(master, query) /\ hits = {} -> {NoScore}
          [] OTHER -> {CompareAlignedFingerprints(master.hashes, query.hashes, h) : h \in hits}

\* Sections from edge to edge, where at most so many bits differ on average.
\* An overlap of nothing has one section, whose score is no number.
Sections(master, query, offset, edges) ==
    LET a == MasterAt(master, offset)
        b == QueryAt(query, offset)
        n == Overlap(a, b)
        all == edges \cup {0, n}
        next(e) == Min({f \in all : f > e})
    IN  {s \in {[offset |-> offset, start |-> e, end |-> next(e)] : e \in all \ {n}} :
            BitErrors(a, b, s.start, s.end) < MaxScore * (s.end - s.start)}

\* There may be a peak anywhere but at the ends.
matchAlignedFingerprints(master, query, offset) ==
    LET n == Overlap(MasterAt(master, offset), QueryAt(query, offset))
    IN  {Sections(master, query, offset, edges) : edges \in SUBSET (1..(n - 2))}

MatchResult(master, query, sections) ==
    [masterLength |-> Len(master), queryLength |-> Len(query), sections |-> sections]

\* With one hit at most, no sections is the result of no hit, too.
Match(master, query) ==
    LET hits == AlignFingerprints(master.hashes, query.hashes)
        sections == UNION {matchAlignedFingerprints(master.hashes, query.hashes, h.offset) : h \in hits}
    IN  IF ~Comparable(master, query) THEN {Err}
        ELSE {MatchResult(master.hashes, query.hashes, s) :
                 s \in IF hits = {} THEN {{}} ELSE sections}

First(result) == CHOOSE s \in result.sections : \A t \in result.sections : s.start <= t.start

\* Faulty variant: a negative offset is left out.
QueryOffsetOfStart(result) == IF result.sections = {} THEN 0 ELSE First(result).start

\* Where the match begins on either side, in hashes; durations are this times
\* ItemDuration.
QueryOffset(result) ==
    IF result.sections = {} THEN 0
    ELSE LET s == First(result) IN IF s.offset < 0 THEN s.start - s.offset ELSE s.start

MasterOffset(result) ==
    IF result.sections = {} THEN 0
    ELSE LET s == First(result) IN IF s.offset > 0 THEN s.start + s.offset ELSE s.start

\* How many hashes the sections have; MatchingDuration is Duration of it.
MatchingLength(result) ==
    Cardinality(UNION {{s} \X ((s.start + 1)..s.end) : s \in result.sections})

=============================================================================
