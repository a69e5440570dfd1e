----------------------------- MODULE BitPacking -----------------------------
(***************************************************************************)
(* Small integers packed into bytes: util/pack.go.  The code is generated  *)
(* (util/gen_pack.go), one pair of functions for each width from 1 to 7,   *)
(* with a loop over whole groups and one case for each rest.  Packed data  *)
(* is the sequence of its bits, from the lowest of each byte, and so has a *)
(* multiple of 8 of them; the values are bytes.                            *)
(***************************************************************************)
EXTENDS Integers, Sequences, SequencesExt, FiniteSetsExt

Widths == 1..7

Bytes(bits) == (bits + 7) \div 8

TwoTo(n) == <<1, 2, 4, 8, 16, 32, 64, 128>>[n + 1]

Bit(value, n) == (value \div TwoTo(n)) % 2

\* A group is the least number of bytes (sblock) that holds whole values, and
\* the values it holds (dblock).
GroupBytes(width) == CHOOSE n \in 1..width :
    (8 * n) % width = 0 /\ \A m \in 1..(n - 1) : (8 * m) % width # 0
GroupSize(width) == (8 * GroupBytes(width)) \div width

\* The values of a group are shifted and joined by "or", and cut off after its
\* last byte: bits above the width are not masked.  Bit n of the packed data,
\* counted from 0, is in the group of its value.
PackedBit(width, values, n) ==
    IF \E i \in DOMAIN values :
          /\ (i - 1) \div GroupSize(width) = n \div (8 * GroupBytes(width))
          /\ n - width * (i - 1) \in 0..7
          /\ Bit(values[i], n - width * (i - 1)) = 1
    THEN 1 ELSE 0

\* Faulty variant: the rest after the last whole group is not packed.
PackWholeGroups(width, values) ==
    LET whole == (Len(values) \div GroupSize(width)) * GroupSize(width)
    IN  [n \in 1..8 * Bytes(width * whole) |-> PackedBit(width, SubSeq(values, 1, whole), n - 1)]

\* Whole groups, and the bytes the values of the rest need.
PackUint(width, values) ==
    [n \in 1..8 * Bytes(width * Len(values)) |-> PackedBit(width, values, n - 1)]

UnpackedValue(width, packed, i) ==
    LET bit(k) == IF k < width THEN packed[width * (i - 1) + k + 1] ELSE 0
    IN  bit(0) + 2 * bit(1) + 4 * bit(2) + 8 * bit(3) + 16 * bit(4) + 32 * bit(5) + 64 * bit(6)

\* As many values as fit into whole groups and into the bytes of the rest.
\* Values made of the bits a last byte was filled up with are among them.
UnpackUint(width, packed) ==
    [i \in 1..(Len(packed) \div width) |-> UnpackedValue(width, packed, i)]

PackUint1Slice(src) == PackUint(1, src)
PackUint2Slice(src) == PackUint(2, src)
PackUint3Slice(src) == PackUint(3, src)
PackUint4Slice(src) == PackUint(4, src)
PackUint5Slice(src) == PackUint(5, src)
PackUint6Slice(src) == PackUint(6, src)
PackUint7Slice(src) == PackUint(7, src)

UnpackUint1Slice(src) == UnpackUint(1, src)
UnpackUint2Slice(src) == UnpackUint(2, src)
UnpackUint3Slice(src) == UnpackUint(3, src)
UnpackUint4Slice(src) == UnpackUint(4, src)
UnpackUint5Slice(src) == UnpackUint(5, src)
UnpackUint6Slice(src) == UnpackUint(6, src)
UnpackUint7Slice(src) == UnpackUint(7, src)

\* There is a function for each width.
PackSlice(width, src) ==
    CASE width = 1 -> PackUint1Slice(src) [] width = 2 -> PackUint2Slice(src)
      [] width = 3 -> PackUint3Slice(src) [] width = 4 -> PackUint4Slice(src)
      [] width = 5 -> PackUint5Slice(src) [] width = 6 -> PackUint6Slice(src)
      [] OTHER -> PackUint7Slice(src)

UnpackSlice(width, src) ==
    CASE width = 1 -> UnpackUint1Slice(src) [] width = 2 -> UnpackUint2Slice(src)
      [] width = 3 -> UnpackUint3Slice(src) [] width = 4 -> UnpackUint4Slice(src)
      [] width = 5 -> UnpackUint5Slice(src) [] width = 6 -> UnpackUint6Slice(src)
      [] OTHER -> UnpackUint7Slice(src)

=============================================================================
