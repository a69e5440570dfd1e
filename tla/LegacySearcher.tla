--------------------------- MODULE LegacySearcher ---------------------------
(***************************************************************************)
(* The searcher behind the lookup of the web API, before it asks the       *)
(* database: server/services/legacy/fingerprint_searcher.go.  It has its   *)
(* own query for the index, next to that of the store in IndexQueries,     *)
(* from which the constants of the fingerprint are taken.                  *)
(***************************************************************************)
EXTENDS IndexQueries

CONSTANTS
    HashLowBits,    \* 2^(32 - indexQueryHashBits), what indexQueryHashMask clears
    MaxCandidates,  \* 10
    MinHits,        \* 2
    MinHitsPercent  \* 50

ASSUME SearcherAssumption ==
    /\ HashLowBits \in Nat \ {0}
    /\ MaxCandidates \in Nat
    /\ MinHits \in Nat \ {0}
    /\ MinHitsPercent \in 0..100

HashMasked(hash) == hash - (hash % HashLowBits)

\* Faulty variant: silence counts as well.
QueryFromAny(hashes) ==
    LET start == Len(hashes) - QuerySize
    IN  IF start > QueryStart THEN QueryStart ELSE IF start < 0 THEN 0 ELSE start

\* Where the query starts in the fingerprint, counted from 0.
QueryFrom(hashes) ==
    LET start == cleanSize(hashes) - QuerySize
    IN  IF start > QueryStart THEN QueryStart ELSE IF start < 0 THEN 0 ELSE start

\* It stops when there is one hash more than indexQueryLength.
ExtractIndexQuery(hashes) ==
    LET add(q, hash) ==
            IF Len(q) >= QuerySize + 1 \/ hash = SilenceHash \/ Contains(q, HashMasked(hash))
            THEN q
            ELSE Append(q, HashMasked(hash))
        query[n \in 0..Len(hashes)] ==
            IF n <= QueryFrom(hashes) THEN <<>> ELSE add(query[n - 1], hashes[n])
    IN  IF cleanSize(hashes) = 0 THEN <<>> ELSE query[Len(hashes)]

\* Faulty variant: results are left in the order of the index.
Unsorted(results) == SetToSeqs(results)

\* sort.Slice is given "not less", so equal results come in any order.
Sorted(results) ==
    {s \in SetToSeqs(results) : \A i \in 2..Len(s) : s[i - 1].hits >= s[i].hits}

\* Up to and with the index MaxCandidates, and up to the first result that has
\* too few hits.  The order does not matter to the query that is given them.
Candidates(sorted) ==
    LET minHits == (sorted[1].hits * MinHitsPercent) \div 100
        Kept(i) == i <= MaxCandidates + 1 /\ sorted[i].hits >= minHits
    IN  IF sorted = <<>> \/ minHits < MinHits THEN {}
        ELSE {sorted[i].id : i \in {k \in DOMAIN sorted : \A j \in 1..k : Kept(j)}}

\* What the index may have answered, to the candidates that may come of it.
GetCandidates(results) == {Candidates(s) : s \in Sorted(results)}

=============================================================================
