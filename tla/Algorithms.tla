----------------------------- MODULE Algorithms -----------------------------
(***************************************************************************)
(* The functions that keep no state, called one at a time: the encoding of *)
(* fingerprints, matching, the queries for the index, what is made of its  *)
(* answers, and the ways integers are written.  A call is a record with    *)
(* the function and its arguments, "answer" what it has returned.          *)
(***************************************************************************)
EXTENDS FingerprintEncoding, FingerprintMatching, LegacySearcher, Varints, Functions

CONSTANTS
    ByteLists,      \* bound: small integers to be packed
    Words,          \* bound: integers of 32 bits, as four bytes
    Numbers,        \* bound: integers of 32 bits, as their bits
    Buffers,        \* bound: bytes to be read as an integer, as their bits
    Arrays,         \* bound: arrays of integers
    Limits,         \* bound: numbers of results asked for
    Prints,         \* bound: fingerprints to be written
    Datas,          \* bound: data to be read
    Pairs,          \* bound: <<master, query>> to be matched
    HashLists,      \* bound: hashes, as numbers, to be searched for
    IndexAnswers,   \* bound: sets of results [id, hits] the index may give
    NoAnswer        \* the function has not returned

\* Hashes have 32 bits, values to be packed are bytes, an array has unsigned integers, and the index answers
\* with each document once; no limit is negative.
ASSUME AlgorithmsAssumption ==
    /\ Prints \subseteq [version : Int, hashes : Seq(SUBSET (1..HashBits))]
    /\ Datas \subseteq {NoData} \cup [version : 0..255, total : 0..(MaxTotal - 1), packed : Seq({0, 1})]
    /\ ByteLists \subseteq Seq(0..255)
    /\ \A p \in Pairs, i \in 1..2 : p[i].hashes \in Seq(SUBSET (1..Width))
    /\ \A a \in Arrays : a \in Seq(0..(WordSize - 1))
    /\ \A hashes \in HashLists : hashes \in Seq(Nat)
    /\ Words \subseteq [1..4 -> 0..255] /\ Numbers \subseteq SUBSET (0..31)
    /\ \A buf \in Buffers : buf \in Seq(SUBSET (0..7))
    /\ Limits \subseteq Nat
    /\ \A results \in IndexAnswers :
          /\ IsFiniteSet(results)
          /\ \A r \in results : r.hits \in Nat /\ r.id \in Nat
          /\ \A q, r \in results : q.id = r.id => q = r

VARIABLES call, answer

vars == <<call, answer>>

\* The filter looks at the best result first if the limit is 0, and would panic
\* for none; its caller, the store, never passes 0.
FilterCalls ==
    {c \in [fn : {"filter"}, results : IndexAnswers, limit : Limits] : c.results # {} \/ c.limit # 0}

Calls ==
    UNION {
        [fn : {"compress"}, fp : Prints],
        [fn : {"unpack"}, data : Datas],
        [fn : {"align", "compare", "match"}, pair : Pairs],
        [fn : {"indexQuery", "legacyQuery"}, hashes : HashLists],
        [fn : {"candidates"}, results : IndexAnswers],
        FilterCalls,
        [fn : {"pack"}, width : Widths, values : ByteLists],
        [fn : {"uvarint"}, x : Numbers],
        [fn : {"sqlite"}, x : Words],
        [fn : {"readUvarint"}, buf : Buffers],
        [fn : {"array"}, array : Arrays] }

Init == call \in Calls /\ answer = NoAnswer

Return(fn, values) ==
    /\ answer = NoAnswer
    /\ call.fn = fn
    /\ answer' \in values
    /\ UNCHANGED call

Compress    == Return("compress", {CompressFingerprint(call.fp)})
Unpack      == Return("unpack", {unpackFingerprint(call.data)})
Align       == Return("align", AlignFingerprints(call.pair[1].hashes, call.pair[2].hashes))
CompareThem == Return("compare", Compare(call.pair[1], call.pair[2]))
MatchThem   == Return("match", Match(call.pair[1], call.pair[2]))
IndexQuery  == Return("indexQuery", {ExtractIndexQuery(call.hashes)})
LegacyQuery == Return("legacyQuery", {ExtractLegacyQuery(call.hashes)})
Candidate   == Return("candidates", GetCandidates(call.results))
Filter      == Return("filter", {filterIndexSearchResults(call.results, call.limit)})
PackThem    == Return("pack", {PackSlice(call.width, call.values)})
PutUvarint  == Return("uvarint", {PutUvarint32(call.x)})
PutSQLite   == Return("sqlite", {PutSQLiteUvarint32(call.x)})
ReadUvarint == Return("readUvarint", {Uvarint32(call.buf)})
PutArray    == Return("array", {Value(call.array)})

Next ==
    \/ Compress
    \/ Unpack
    \/ Align
    \/ CompareThem
    \/ MatchThem
    \/ IndexQuery
    \/ LegacyQuery
    \/ Candidate
    \/ Filter
    \/ PackThem
    \/ PutUvarint
    \/ PutSQLite
    \/ ReadUvarint
    \/ PutArray

Spec == Init /\ [][Next]_vars

Answered(fn) == answer # NoAnswer /\ call.fn = fn

-----------------------------------------------------------------------------
(* What is written can be read *)

\* What CompressFingerprint writes, ParseFingerprint reads as the same hashes,
\* as long as their number fits the header and is not zero, whatever the
\* distances between bits are; the padding between the two groups of bits and
\* at their end is not taken for data.
RoundTrip ==
    Answered("compress") /\ Len(call.fp.hashes) \in 1..(MaxTotal - 1) =>
        unpackFingerprint(answer) =
            [version |-> call.fp.version % 256, hashes |-> call.fp.hashes]

\* A fingerprint that lost bytes at its end is refused, wherever it is cut, if
\* the header can count its hashes; ValidateFingerprint relies on this alone.
TruncationIsRefused ==
    Answered("compress") /\ Len(call.fp.hashes) < MaxTotal =>
        \A n \in 0..((Len(answer.packed) \div 8) - 1) :
            unpackFingerprint([answer EXCEPT !.packed = SubSeq(@, 1, 8 * n)]) = Invalid

\* Any data ParseFingerprint accepts, made by CompressFingerprint or not, is a
\* fingerprint that can be written and read again, with as many hashes as the
\* header says.
AcceptedCanBeWritten ==
    Answered("unpack") /\ answer # Invalid =>
        /\ Len(answer.hashes) = call.data.total
        /\ unpackFingerprint(CompressFingerprint(answer)) = answer

-----------------------------------------------------------------------------
(* Alignment and comparison *)

\* A hit of AlignFingerprints is a distance at which the fingerprints overlap
\* and that is allowed, although smoothing gives counts to distances next to
\* those that occur: the slices taken of the hashes are never out of range.
HitsOverlap ==
    Answered("align") =>
        LET master == call.pair[1].hashes
            query  == call.pair[2].hashes
        IN  /\ answer.offset \in (1 - Len(query))..(Len(master) - 1)
            /\ MaxOffset # 0 => answer.offset \in -MaxOffset..MaxOffset

\* A part of the master whose hashes can be told apart is found in it, with
\* the highest score there is, unless it is short, begins too late, or the
\* master goes on with more than 20 times as many different hashes: then the
\* number of pairs passes for chance.
ExcerptIsFound ==
    Answered("compare") /\ Comparable(call.pair[1], call.pair[2]) =>
        LET master == call.pair[1].hashes
            query  == call.pair[2].hashes
            keys   == [i \in DOMAIN master |-> Aligned(master[i])]
            PartFrom(k) == k + Len(query) <= Len(master) /\ query = SubSeq(master, k + 1, k + Len(query))
        IN  /\ IsInjective(keys)
            /\ Len(query) >= 5
            /\ \E k \in 0..MaxOffset :
                  PartFrom(k) /\ countUniqueHashes(From(master, k)) <= 20 * Len(query)
            => answer.num = answer.den

\* Where MatchFingerprints says that the first section begins in the master and
\* in the query, its length fits into both, and there the two really have
\* less than MaxScore different bits per hash.
SectionsAgree ==
    Answered("match") /\ answer # Err =>
        LET m == From(call.pair[1].hashes, MasterOffset(answer))
            q == From(call.pair[2].hashes, QueryOffset(answer))
            s == First(answer)
            length == s.end - s.start
        IN  answer.sections # {} =>
            /\ length <= Overlap(m, q)
            /\ BitErrors(m, q, 0, length) < MaxScore * length
            /\ MatchingLength(answer) <= Overlap(call.pair[1].hashes, call.pair[2].hashes)

-----------------------------------------------------------------------------
(* Searching the index *)

\* The start of the query moves to the left for silence that is left out: all
\* hashes a query needs are behind it, if the fingerprint has them.  Nothing is
\* asked for twice.
QueryIsFull ==
    Answered("indexQuery") \/ Answered("legacyQuery") =>
        LET from == IF call.fn = "indexQuery" THEN QueryFrom(call.hashes) ELSE StartOf(call.hashes)
            mask(h) == IF call.fn = "indexQuery" THEN HashMasked(h) ELSE Masked(h)
            rest == From(call.hashes, from)
            loud == {mask(rest[i]) : i \in {j \in DOMAIN rest : rest[j] # SilenceHash}}
        IN  /\ cleanSize(rest) >= Min({QuerySize, cleanSize(call.hashes)})
            /\ ToSet(answer) \subseteq loud
            /\ Cardinality(ToSet(answer)) = Len(answer)
            /\ Len(answer) >= Min({QuerySize, Cardinality(loud)})

\* No result of the index that is left out has more hits than one that is
\* kept, whatever the limit and the threshold are, the best result is kept if
\* any is, the filter keeps one if there is any, and no more than were asked
\* for.  A candidate of the legacy search has at least the share of the hits of
\* the best.
CandidatesAreBest ==
    LET ids    == IF call.fn = "filter" THEN {r.id : r \in ToSet(answer)} ELSE answer
        chosen == {r \in call.results : r.id \in ids}
        best   == Max({r.hits : r \in call.results})
    IN  Answered("candidates") \/ Answered("filter") =>
        /\ \A r \in chosen, o \in call.results \ chosen : r.hits >= o.hits
        /\ ids # {} => \E r \in chosen : r.hits = best
        /\ call.fn = "filter" =>
              /\ call.results # {} => answer # <<>>
              /\ Cardinality(chosen) = Len(answer)
              /\ call.limit = 0 \/ Len(answer) <= call.limit
        /\ call.fn = "candidates" => \A r \in chosen : 100 * r.hits > MinHitsPercent * best - 100

-----------------------------------------------------------------------------
(* Integers *)

\* What the generated functions pack into groups of bits, with one case for
\* each rest of a group, comes back for every width and length, and the bits
\* the last byte is filled up with read as zeros.  A value that is too wide
\* spoils nothing before it and nothing in the next group.
PackedReadsBack ==
    Answered("pack") =>
        LET size == GroupSize(call.width)
            read == UnpackSlice(call.width, answer)
            spoiled(i) == \E j \in DOMAIN call.values :
                /\ j < i /\ (j - 1) \div size = (i - 1) \div size
                /\ call.values[j] >= TwoTo(call.width)
        IN  /\ Len(answer) = 8 * Bytes(call.width * Len(call.values))
            /\ Len(read) >= Len(call.values)
            /\ \A i \in DOMAIN read : spoiled(i) \/
                  read[i] = IF i <= Len(call.values) THEN call.values[i] % TwoTo(call.width) ELSE 0

\* Both forms of an integer are read back whatever follows them in the buffer;
\* of the first no part is taken for an integer, and the second sorts like the
\* integers themselves, across the lengths of one to five bytes.
VarintsReadBack ==
    /\ Answered("uvarint") =>
        /\ \A next \in {<<>>} \cup Buffers : Uvarint32(answer \o next) = [x |-> call.x, n |-> Len(answer)]
        /\ \A n \in 0..(Len(answer) - 1) : Uvarint32(SubSeq(answer, 1, n)).n = 0
    /\ Answered("sqlite") =>
        /\ \A next \in {<<>>} \cup Words :
                SQLiteUvarint32(answer \o next) = [x |-> call.x, n |-> Len(answer)]
        /\ \A y \in Words : Sooner(answer, PutSQLiteUvarint32(y)) <=> Sooner(call.x, y)

\* An integer read from any bytes is the one the bytes stand for: written again
\* it has the same groups of bits, and what an overlong form has more is zero.
\* No bit past the 32nd is dropped on the way.
VarintNeverWraps ==
    Answered("readUvarint") /\ answer.n > 0 =>
        LET again == PutUvarint32(answer.x)
        IN  /\ answer.n \in Len(again)..Len(call.buf)
            /\ \A i \in 1..answer.n :
                  call.buf[i] \ {7} = IF i <= Len(again) THEN again[i] \ {7} ELSE {}

\* The hashes of a fingerprint, unsigned here and signed in the database, come
\* back as they were.  The one array that does not is the empty one: it is
\* written as "{}", and reading that is an error.
ArraysReadBack ==
    Answered("array") =>
        scanString(answer) = IF call.array = <<>> THEN [err |-> TRUE, result |-> <<>>]
                             ELSE [err |-> FALSE, result |-> call.array]

=============================================================================
