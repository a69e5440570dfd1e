------------------------------ MODULE MCUpdater ------------------------------
(***************************************************************************)
(* Updater for TLC: a few rows, two slots so that a connection the updater *)
(* has given up can still be served while it uses a new one.               *)
(***************************************************************************)
EXTENDS Updater, TLC

CONSTANTS k1, k2

MCUsers == {Proc}
MCConns == {k1, k2}
OneConn == {k1}
MCDocs  == 1..MaxId

Symmetry == Permutations(MCConns)

=============================================================================
