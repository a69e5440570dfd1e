------------------------- MODULE MCFingerprintStore -------------------------
(***************************************************************************)
(* FingerprintStore for TLC: two legacy fingerprints, one of which matches *)
(* the query, room for two inserts, and each kind of request.              *)
(***************************************************************************)
EXTENDS FingerprintStore, TLC

CONSTANTS a, b, r1, r2

MCRequests == {r1, r2}
OneRequest == {r1}
MCFps      == {a, b}
MCHashes   == a :> <<1>> @@ b :> <<0>>
MCSimilar  == {<<a, a>>, <<a, b>>}
MCLegacy   == 1 :> a @@ 2 :> b
MCHits     == 1 :> 5 @@ 2 :> 5

Call(method, fp, ids, limit) ==
    [method |-> method, fp |-> fp, ids |-> ids, limit |-> limit]

MCCalls ==
    { Call("Insert", a, <<>>, 0),
      Call("Get", NoFp, <<2>>, 0),
      Call("Compare", a, <<3, 1>>, 0),
      Call("Search", a, <<>>, 1) }

\* With a limit that is not given, a query of silence, an id of no row, and
\* requests that are refused.
MoreCalls ==
    MCCalls \cup
    { Call("Search", a, <<>>, 0),
      Call("Search", b, <<>>, 0),
      Call("Get", NoFp, <<4>>, 0),
      Call("Get", NoFp, <<0>>, 0),
      Call("Insert", NoFp, <<>>, 0),
      Call("Compare", NoFp, <<1>>, 0),
      Call("Compare", a, <<>>, 0) }

Symmetry == Permutations(MCRequests)

=============================================================================
