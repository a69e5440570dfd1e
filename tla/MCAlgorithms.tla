--------------------------- MODULE MCAlgorithms -----------------------------
(***************************************************************************)
(* Fingerprints for TLC.  Hashes keep their 32 bits: those written are     *)
(* chosen for the distances around 7 and the highest bit, data for what    *)
(* the two groups of bits may look like, and pairs for repeated hashes,    *)
(* hashes that are aligned but differ, and excerpts.  Integers are those   *)
(* next to where their written form gets longer.                           *)
(***************************************************************************)
EXTENDS Algorithms

Fp(hashes) == [version |-> 1, hashes |-> hashes]

\* Distances of 1, 6, 7, 8 and 32, alone and one after the other.
Written == {{}, {1}, {7}, {1, 8}, {6, 14}, {1, 2, 32}, {32}}

MCPrints ==
    {Fp(s) : s \in BoundedSeq(Written, 3)}
        \cup {Fp(<<{1, 8, 15, 22, 29}, {32}, {}, {8}>>), [version |-> 258, hashes |-> <<{1}>>]}

Bits(bytes) ==
    [n \in 1..8 * Len(bytes) |-> (bytes[((n - 1) \div 8) + 1] \div 2^((n - 1) % 8)) % 2]

\* 7 is an exceptional bit and the end of a hash, 255 ones only, 73 small bits,
\* 56 an end and an exceptional bit.  With the last one lastBit wraps.
MCDatas ==
    {[version |-> 1, total |-> t, packed |-> Bits(b)] :
        t \in {0, 1, 2, 5}, b \in BoundedSeq({0, 7, 56, 73, 255}, 4)}
    \cup {NoData, [version |-> 1, total |-> 1,
                   packed |-> Bits(<<255, 255, 31, 255, 255, 255, 255, 255>>)]}

\* The first two have the same aligned bits, and too many others that differ.
Alike == {{2}, {2} \cup {b \in 1..32 : b % 2 = 1}}

Short == BoundedSeq(Alike \cup {{4}}, 3) \cup [1..4 -> Alike]

\* Hashes that can all be told apart, and parts of them.
Long == <<{2}, {4}, {6}, {8}, {10}, {12}, {14}, {16}>>

Parts == {SubSeq(Long, i, j) : i \in 1..4, j \in 4..8} \cup {Long \o <<{2}>>}

MCPairs ==
    {<<Fp(m), Fp(q)>> : m \in Short, q \in Short}
        \cup {<<Fp(m), Fp(q)>> : m \in Parts, q \in Parts}
        \cup {<<Fp(Long), [version |-> 2, hashes |-> Long]>>,
              <<[version |-> 2, hashes |-> Long], [version |-> 2, hashes |-> Long]>>}

\* 0 is silence; 4 and 5, and 6 and 7 are the same hash to one of the queries.
MCHashLists == BoundedSeq({0, 4, 5, 6, 8}, 6)

MCIndexAnswers ==
    UNION {{ {[id |-> i, hits |-> hits[i]] : i \in ids} : hits \in [ids -> {1, 3, 4, 8, 15}] } :
        ids \in {1..n : n \in 0..4}}

\* The greatest value of each width, and one more.
MCByteLists ==
    UNION {BoundedSeq({1, 2^width - 1, 2^width % 256}, 3) : width \in Widths}
        \cup {[i \in 1..n |-> IF i % 3 = 0 THEN 1 ELSE (5 * i) % 128] : n \in 4..18}

Three(v) == <<v \div 65536, (v \div 256) % 256, v % 256>>

Borders == {127, 244, 2291, 67827, 16383, 2097151}

MCWords ==
    {<<0>> \o Three(v + d) : v \in Borders, d \in {0, 1}}
        \cup {<<b>> \o Three(v) : b \in {0, 1, 15, 16, 127, 128, 255}, v \in {0, 1, 16777215}}

MCNumbers == {{n \in 0..31 : Bit(w[4 - (n \div 8)], n % 8) = 1} : w \in MCWords}

\* 15 is the most the fifth byte may be.
MCBuffers ==
    LET bits(b) == {k \in 0..7 : Bit(b, k) = 1}
        buffers == BoundedSeq({0, 1, 127, 128}, 3)
                       \cup {p \o <<b>> : p \in [1..4 -> {128, 255}], b \in {0, 1, 15, 16, 127, 128, 255}}
                       \cup {<<128, 128, 128, 128, 128, b>> : b \in {0, 1}}
    IN  {[i \in DOMAIN buf |-> bits(buf[i])] : buf \in buffers}

MCArrays == BoundedSeq({0, 1, 7, 8, 15}, 3)

=============================================================================
