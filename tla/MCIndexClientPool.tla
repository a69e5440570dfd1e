-------------------------- MODULE MCIndexClientPool --------------------------
(***************************************************************************)
(* IndexClientPool for TLC: two calls that may both insert two documents   *)
(* of their own, and connections enough for one to linger after its close. *)
(***************************************************************************)
EXTENDS IndexClientPool, TLC

CONSTANTS c1, c2, k1, k2

MCCalls == {c1, c2}
MCUsers == {c1, c2, Evictor}
MCConns == {k1, k2}
OneConn == {k1}
MCDocs  == MCCalls \X {1, 2}
MCBatch == [c \in MCCalls |-> << <<c, 1>>, <<c, 2>> >>]
OneDoc  == [c \in MCCalls |-> << <<c, 1>> >>]

InsertAndSearch == [c \in MCCalls |-> IF c = c1 THEN "Insert" ELSE "Search"]
TwoInserts      == [c \in MCCalls |-> "Insert"]

ConnSymmetry == Permutations(MCConns)
Symmetry     == Permutations(MCConns) \cup Permutations(MCCalls)

=============================================================================
