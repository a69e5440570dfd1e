------------------------------ MODULE Varints -------------------------------
(***************************************************************************)
(* Integers of 32 bits written with a variable number of bytes, in the two *)
(* forms of util/varint.go, and the arrays of integers of PostgreSQL, as   *)
(* database/fingerprint_db/util.go writes and reads them.                  *)
(*                                                                         *)
(* For the first form, which moves bits, integers and bytes are the sets   *)
(* of their bits, from 0; for the second an integer is the sequence of its *)
(* four bytes, from the highest, as it would overflow the integers of TLC. *)
(***************************************************************************)
EXTENDS Integers, Sequences, SequencesExt, FiniteSetsExt

CONSTANTS
    WordSize,   \* 2^32, how many integers of an array there are
    NoNumber,   \* the item of an empty text
    Panic       \* an index is out of range

ASSUME VarintAssumption ==
    /\ WordSize \in Nat /\ WordSize > 1 /\ WordSize % 2 = 0
    /\ NoNumber \notin Int

-----------------------------------------------------------------------------
(* Groups of seven bits, from the lowest; bit 7 says that more follow.     *)

PutUvarint32(x) ==
    LET last == IF x = {} THEN 0 ELSE Max(x) \div 7
    IN  [i \in 1..(last + 1) |->
            {k \in 0..6 : 7 * (i - 1) + k \in x} \cup (IF i <= last THEN {7} ELSE {})]

\* The bytes that may be the last.
Ends(buf) == {i \in DOMAIN buf : 7 \notin buf[i]}

\* The bits in the first n bytes; byte n is the last.
Gathered(buf, n) == {b \in 0..(7 * n - 1) : b % 7 \in buf[(b \div 7) + 1]}

\* Faulty variant: the fifth byte may be anything.
Uvarint32Wraps(buf) ==
    IF Ends(buf) = {} THEN [x |-> {}, n |-> 0]
    ELSE [x |-> Gathered(buf, Min(Ends(buf))) \cap (0..31), n |-> Min(Ends(buf))]

\* The value and the number of bytes read; 0 when no byte ends the integer, and
\* less when it does not fit into 32 bits or is written with more than 5 bytes.
Uvarint32(buf) ==
    LET n == Min(Ends(buf))
    IN  IF Ends(buf) = {} THEN [x |-> {}, n |-> 0]
        ELSE IF n > 5 \/ (n = 5 /\ buf[n] \cap (4..7) # {}) THEN [x |-> {}, n |-> -n]
        ELSE [x |-> Gathered(buf, n), n |-> n]

-----------------------------------------------------------------------------
(* The form of SQLite 4: the first byte tells how many follow.             *)

\* The least integers of three and of four bytes.
OfThree == 2292
OfFour == 67828

\* The number in the three lower bytes.
Low(x) == 256 * (256 * x[2] + x[3]) + x[4]

\* Faulty variant: the least number of three bytes is taken to have two.
PutSQLiteLate(x) ==
    LET v == Low(x)
    IN  CASE x[1] = 0 /\ v < 245   -> <<v>>
          [] x[1] = 0 /\ v \in 245..OfThree -> <<(v - 244) \div 256 + 245, (v - 244) % 256>>
          [] x[1] = 0 /\ v \in (OfThree + 1)..(OfFour - 1) ->
                <<253, (v - OfThree) \div 256, (v - OfThree) % 256>>
          [] x[1] = 0 /\ v >= OfFour -> <<254, x[2], x[3], x[4]>>
          [] OTHER -> <<255, x[1], x[2], x[3], x[4]>>

PutSQLiteUvarint32(x) ==
    LET v == Low(x)
    IN  CASE x[1] = 0 /\ v < 245   -> <<v>>
          [] x[1] = 0 /\ v \in 245..(OfThree - 1) -> <<(v - 244) \div 256 + 245, (v - 244) % 256>>
          [] x[1] = 0 /\ v \in OfThree..(OfFour - 1) ->
                <<253, (v - OfThree) \div 256, (v - OfThree) % 256>>
          [] x[1] = 0 /\ v >= OfFour -> <<254, x[2], x[3], x[4]>>
          [] OTHER -> <<255, x[1], x[2], x[3], x[4]>>

\* The bytes of a number below 2^24.
Small(v) == <<0, (v \div 256) \div 256, (v \div 256) % 256, v % 256>>

\* The buffer is taken to be long enough.
SQLiteLength(first) ==
    CASE first <= 244 -> 1 [] first \in 245..252 -> 2 [] first = 253 -> 3
      [] first = 254 -> 4 [] OTHER -> 5

SQLiteUvarint32(buf) ==
    IF buf = <<>> \/ Len(buf) < SQLiteLength(buf[1]) THEN Panic
    ELSE [n |-> SQLiteLength(buf[1]),
          x |-> CASE buf[1] <= 244 -> Small(buf[1])
                  [] buf[1] \in 245..252 -> Small(244 + 256 * (buf[1] - 245) + buf[2])
                  [] buf[1] = 253 -> Small(OfThree + 256 * buf[2] + buf[3])
                  [] buf[1] = 254 -> <<0, buf[2], buf[3], buf[4]>>
                  [] OTHER -> <<buf[2], buf[3], buf[4], buf[5]>>]

\* The order of bytes.Compare.
Sooner(a, b) ==
    \E i \in 1..Len(b) :
        /\ \A j \in 1..(i - 1) : j <= Len(a) /\ a[j] = b[j]
        /\ i > Len(a) \/ a[i] < b[i]

-----------------------------------------------------------------------------
(* Arrays.  The text of an array is the sequence of its items between the  *)
(* braces; Split of an empty text gives one item, which is no number.      *)

\* A column of PostgreSQL has signed integers: an unsigned one wraps.
Signed(item) == IF item >= WordSize \div 2 THEN item - WordSize ELSE item

\* Faulty variant: the number is written as it is.
ValueUnsigned(array) == array

Value(array) == [i \in DOMAIN array |-> Signed(array[i])]

Split(text) == IF text = <<>> THEN <<NoNumber>> ELSE text

\* ParseInt refuses what is no number and what does not fit.
Parses(item) == item # NoNumber /\ item \in -(WordSize \div 2)..(WordSize \div 2 - 1)

scanString(text) ==
    IF \A i \in DOMAIN Split(text) : Parses(Split(text)[i])
    THEN [err |-> FALSE, result |-> [i \in DOMAIN text |-> text[i] % WordSize]]
    ELSE [err |-> TRUE, result |-> <<>>]

=============================================================================
