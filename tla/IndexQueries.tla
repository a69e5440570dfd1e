---------------------------- MODULE IndexQueries ----------------------------
(***************************************************************************)
(* What is asked of the index for a fingerprint, and what is kept of its   *)
(* answer: pkg/fpstore/index.go.  A fingerprint is the sequence of its     *)
(* hashes; the constants are those of ExtractLegacyQuery, made smaller for *)
(* model checking.                                                         *)
(***************************************************************************)
EXTENDS Integers, Sequences, SequencesExt, FiniteSets

CONSTANTS
    QueryStart,     \* 80
    QuerySize,      \* 120
    SilenceHash,    \* 627964279
    LowBits         \* 2^(32 - NumQueryBits), the values QueryBitMask clears

ASSUME QueryAssumption ==
    /\ QueryStart \in Nat
    /\ QuerySize \in Nat \ {0}
    /\ LowBits \in Nat \ {0}

Masked(hash) == hash - (hash % LowBits)

cleanSize(hashes) == Cardinality({i \in DOMAIN hashes : hashes[i] # SilenceHash})

\* Where the query starts in the fingerprint, counted from 0.
StartOf(hashes) ==
    LET spare == cleanSize(hashes) - QuerySize
    IN  IF spare < 0 THEN 0 ELSE IF spare < QueryStart THEN spare ELSE QueryStart

\* The query after the first n hashes of the fingerprint have been looked at.
ExtractLegacyQuery(hashes) ==
    LET add(q, hash) ==
            IF Len(q) >= QuerySize \/ hash = SilenceHash \/ Contains(q, Masked(hash))
            THEN q
            ELSE Append(q, Masked(hash))
        query[n \in 0..Len(hashes)] ==
            IF n <= StartOf(hashes) THEN <<>> ELSE add(query[n - 1], hashes[n])
    IN  IF cleanSize(hashes) = 0 THEN <<>> ELSE query[Len(hashes)]

\* The order of sort.Slice: more hits first, then the lower id.
Before(a, b) == a.hits > b.hits \/ (a.hits = b.hits /\ a.id < b.id)

Rank(r, results) == Cardinality({q \in results : Before(q, r)})

SortedResults(results) ==
    [i \in 1..Cardinality(results) |-> CHOOSE r \in results : Rank(r, results) = i - 1]

\* The index answers with each document once, in any order.
filterIndexSearchResults(results, limit) ==
    LET sorted == SortedResults(results)
        threshold == (sorted[1].hits * 10 + 50) \div 100
        thresholdIndex == Cardinality({r \in results : r.hits >= threshold})
        cut == IF limit = 0 \/ (Len(sorted) > limit /\ limit > thresholdIndex)
               THEN thresholdIndex ELSE limit
    IN  IF cut > 0 /\ Len(sorted) > cut THEN SubSeq(sorted, 1, cut) ELSE sorted

=============================================================================
