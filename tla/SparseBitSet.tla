---------------------------- MODULE SparseBitSet ----------------------------
(***************************************************************************)
(* Sets of integers in blocks of bits: util/intset/sparse.go.  A set maps  *)
(* the index of a block to the memory of the block, which is the set of    *)
(* the bits in it; an address names the set and the index the memory was   *)
(* made for.  Memory no set points to is empty.                            *)
(***************************************************************************)
EXTENDS Integers, Sequences, FiniteSets, FiniteSetsExt, Functions, TLC

CONSTANTS
    Sets,
    BlockBits,      \* blockBits: 8192
    Universe,       \* the integers that are added: of the uint32s
    Damaged         \* what is no whole set

ASSUME SetAssumption ==
    /\ BlockBits \in Nat \ {0}
    /\ Universe \subseteq Nat /\ IsFiniteSet(Universe)
    /\ \A set \in SUBSET Universe : set # Damaged

VARIABLES
    blocks,     \* per set: block index -> address
    heap        \* per address: the bits

setVars == <<blocks, heap>>

Indexes == {x \div BlockBits : x \in Universe}
Addresses == Sets \X Indexes

SetInit ==
    /\ blocks = [s \in Sets |-> <<>>]
    /\ heap = [a \in Addresses |-> {}]

BlockOf(s, i) == heap[blocks[s][i]]

Elements(s) == UNION {{i * BlockBits + k : k \in BlockOf(s, i)} : i \in DOMAIN blocks[s]}

\* Blocks of s that are not among "keep" are deleted from the map.
KeepBlocks(s, keep) ==
    /\ blocks' = [blocks EXCEPT ![s] = [i \in keep |-> @[i]]]
    /\ heap' = [a \in Addresses |->
                   IF \E i \in DOMAIN blocks[s] \ keep : a = blocks[s][i] THEN {} ELSE heap[a]]

\* s becomes a set whose blocks were made with the given contents.
MakeSet(s, contents) ==
    /\ blocks' = [blocks EXCEPT ![s] = [i \in DOMAIN contents |-> <<s, i>>]]
    /\ heap' = [a \in Addresses |-> IF a[1] # s THEN heap[a]
                                    ELSE IF a[2] \in DOMAIN contents THEN contents[a[2]] ELSE {}]

\* The block with an index, made if there is none.
Target(s, i) == IF i \in DOMAIN blocks[s] THEN blocks[s][i] ELSE <<s, i>>

AddElement(s, x) ==
    LET i == x \div BlockBits
    IN  /\ blocks' = [blocks EXCEPT ![s] = [j \in DOMAIN @ \cup {i} |-> Target(s, j)]]
        /\ heap' = [heap EXCEPT ![Target(s, i)] = @ \cup {x % BlockBits}]

RemoveElement(s, x) ==
    LET i == x \div BlockBits
    IN  /\ i \in DOMAIN blocks[s]
        /\ heap' = [heap EXCEPT ![blocks[s][i]] = @ \ {x % BlockBits}]
        /\ UNCHANGED blocks

Has(s, x) ==
    LET i == x \div BlockBits
    IN  i \in DOMAIN blocks[s] /\ x % BlockBits \in BlockOf(s, i)

\* Faulty variant: a block s does not have is not copied.
UnionShared(s, t) ==
    LET target == [i \in DOMAIN blocks[t] |->
                      IF i \in DOMAIN blocks[s] THEN blocks[s][i] ELSE blocks[t][i]]
    IN  /\ blocks' = [blocks EXCEPT ![s] = target @@ @]
        /\ heap' = [a \in Addresses |->
                       heap[a] \cup UNION {BlockOf(t, i) : i \in {j \in DOMAIN target : target[j] = a}}]

Union(s, t) ==
    /\ blocks' = [blocks EXCEPT ![s] = [i \in DOMAIN @ \cup DOMAIN blocks[t] |-> Target(s, i)]]
    /\ heap' = [a \in Addresses |->
                   heap[a] \cup UNION {BlockOf(t, i) : i \in {j \in DOMAIN blocks[t] : Target(s, j) = a}}]

\* The bits of all blocks, counted.
BitCount(contents) == Cardinality(UNION {{<<i, k>> : k \in contents[i]} : i \in DOMAIN contents})

\* The contents of a new set, and the number of its elements.
Intersection(s, t) ==
    LET both == {i \in DOMAIN blocks[s] \cap DOMAIN blocks[t] : BlockOf(s, i) \cap BlockOf(t, i) # {}}
        contents == [i \in both |-> BlockOf(s, i) \cap BlockOf(t, i)]
    IN  [set |-> contents, n |-> BitCount(contents)]

Clone(s) == [i \in DOMAIN blocks[s] |-> BlockOf(s, i)]

Size(s) == BitCount(Clone(s))

Used(s) == {i \in DOMAIN blocks[s] : BlockOf(s, i) # {}}

\* Faulty variant: an empty block is taken for the one with the lowest element.
LowestOfAny(s) ==
    IF DOMAIN blocks[s] = {} THEN 0
    ELSE LET i == Min(DOMAIN blocks[s])
         IN  i * BlockBits + (IF BlockOf(s, i) = {} THEN 0 ELSE Min(BlockOf(s, i)))

\* Min and Max return 0 for the empty set, and delete the empty blocks they
\* meet before the one with the element.
Lowest(s) ==
    IF Used(s) = {} THEN 0 ELSE Min(Used(s)) * BlockBits + Min(BlockOf(s, Min(Used(s))))
Highest(s) ==
    IF Used(s) = {} THEN 0 ELSE Max(Used(s)) * BlockBits + Max(BlockOf(s, Max(Used(s))))

MinDeletes(s) == KeepBlocks(s, {i \in DOMAIN blocks[s] : \E k \in Used(s) : k <= i})
MaxDeletes(s) == KeepBlocks(s, {i \in DOMAIN blocks[s] : \E k \in Used(s) : k >= i})

Compact(s) == KeepBlocks(s, Used(s))

-----------------------------------------------------------------------------
(* The written form is one chunk per call of binary.Write.                 *)

\* The k-th of some integers, from the least.
Nth(ints, k) == CHOOSE i \in ints : Cardinality({j \in ints : j < i}) = k - 1

\* What Write writes once it has compacted the set: the number of blocks, and
\* each block after its index, in order.
Written(s) ==
    [p \in 1..(1 + 2 * Cardinality(Used(s))) |->
        IF p = 1 THEN <<"count", Cardinality(Used(s))>>
        ELSE LET i == Nth(Used(s), p \div 2)
             IN  IF p % 2 = 0 THEN <<"index", i>> ELSE <<"block", BlockOf(s, i)>>]

\* The set that was written, if all of it is there.
SetIn(chunks) ==
    IF chunks = <<>> \/ Len(chunks) < 1 + 2 * chunks[1][2] THEN Damaged
    ELSE UNION {{chunks[2 * k][2] * BlockBits + b : b \in chunks[2 * k + 1][2]} : k \in 1..chunks[1][2]}

=============================================================================
