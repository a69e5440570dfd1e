------------------------- MODULE FingerprintEncoding ------------------------
(***************************************************************************)
(* The binary form of a fingerprint: pkg/chromaprint/encoding.go.  A hash  *)
(* is the set of its bits, numbered from 1.  Packed data is the sequence   *)
(* of its bits; the four bytes of the header are a record.                 *)
(***************************************************************************)
EXTENDS BitPacking, FiniteSets

CONSTANTS
    HashBits,       \* bits of a hash: 32
    MaxTotal,       \* what the header counts modulo: 2^24
    NoData,         \* less than the four bytes of a header
    Invalid         \* the error that data is no fingerprint

\* The rest of a distance of up to 38 has 5 bits.
ASSUME EncodingAssumption ==
    /\ HashBits \in 1..38 /\ MaxTotal \in Nat \ {0}
    /\ NoData \notin [version : 0..255, total : 0..(MaxTotal - 1), packed : Seq({0, 1})]

\* Faulty variant: nothing is left of a distance of 7.
PutBitAbove(out, bit) ==
    LET b == bit - out.lastBit
    IN  [lastBit       |-> bit,
         normalBits    |-> Append(out.normalBits, IF b >= 7 THEN 7 ELSE b),
         exceptionBits |-> IF b > 7 THEN Append(out.exceptionBits, b - 7) ELSE out.exceptionBits]

\* A bit is written as its distance from the last.  A distance of 7 and more
\* has a 7 among the normal bits, and the rest of it among the exceptional ones.
PutBit(out, bit) ==
    LET b == bit - out.lastBit
    IN  [lastBit       |-> bit,
         normalBits    |-> Append(out.normalBits, IF b >= 7 THEN 7 ELSE b),
         exceptionBits |-> IF b >= 7 THEN Append(out.exceptionBits, b - 7) ELSE out.exceptionBits]

\* The bits of a value from the lowest, and a 0 at the end.
PutValue(out, value) ==
    LET put[bit \in 0..HashBits] ==
            IF bit = 0 THEN out
            ELSE IF bit \in value THEN PutBit(put[bit - 1], bit) ELSE put[bit - 1]
    IN  [lastBit       |-> 0,
         normalBits    |-> Append(put[HashBits].normalBits, 0),
         exceptionBits |-> put[HashBits].exceptionBits]

\* Each hash is written as its difference from the one before it.
AllBits(hashes) ==
    LET value(h) == IF h = 1 THEN hashes[1] ELSE SymDiff(hashes[h], hashes[h - 1])
        written[h \in 0..Len(hashes)] ==
            IF h = 0 THEN [lastBit |-> 0, normalBits |-> <<>>, exceptionBits |-> <<>>]
            ELSE PutValue(written[h - 1], value(h))
    IN  written[Len(hashes)]

CompressFingerprint(fp) ==
    LET all == AllBits(fp.hashes)
    IN  [version |-> fp.version % 256,
         total   |-> Len(fp.hashes) % MaxTotal,
         packed  |-> PackUint3Slice(all.normalBits) \o PackUint5Slice(all.exceptionBits)]

\* How many of the first n bits have a value.
Count(bits, value, n) == Cardinality({i \in 1..n : bits[i] = value})

\* Faulty variant: the exceptional bits begin in the byte where the normal ones end.
ExceptionsAtOnce(size) == 8 * ((3 * size) \div 8)

\* The exceptional bits begin at the byte after the last normal ones.
ExceptionsAt(size) == 8 * Bytes(3 * size)

\* Faulty variant: a shift past the width of a hash is not lost.
BitsSetBeyond(lastBits) == lastBits

\* A shift past the width of a hash leaves nothing.
BitsSet(lastBits) == lastBits \cap (1..HashBits)

\* The data is accepted if it has as many zeros as hashes and enough
\* exceptional bits; what follows them is not looked at.  lastBit is an uint8.
unpackFingerprint(data) ==
    LET bits == UnpackUint3Slice(data.packed)
        size == CHOOSE n \in DOMAIN bits : bits[n] = 0 /\ Count(bits, 0, n) = data.total
        exceptionalBits ==
            UnpackUint5Slice(SubSeq(data.packed, ExceptionsAt(size) + 1, Len(data.packed)))
        bit(i) == IF bits[i] = 7 THEN 7 + exceptionalBits[Count(bits, 7, i)] ELSE bits[i]
        lastBit[i \in 0..size] ==
            IF i = 0 THEN 0 ELSE IF bits[i] = 0 THEN 0 ELSE (lastBit[i - 1] + bit(i)) % 256
        value(h) == BitsSet({lastBit[i] : i \in {n \in 1..size : bits[n] # 0 /\ Count(bits, 0, n) = h - 1}})
        hash[h \in 1..data.total] ==
            IF h = 1 THEN value(1) ELSE SymDiff(value(h), hash[h - 1])
    IN  IF \/ data = NoData
           \/ data.total = 0
           \/ Count(bits, 0, Len(bits)) < data.total
           \/ Len(exceptionalBits) < Count(bits, 7, size)
        THEN Invalid
        ELSE [version |-> data.version, hashes |-> [h \in 1..data.total |-> hash[h]]]

=============================================================================
