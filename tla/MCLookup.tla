------------------------------ MODULE MCLookup ------------------------------
(***************************************************************************)
(* Lookup for TLC: three fingerprints that share hashes, inputs with every *)
(* error and with durations around the ends of the window.                 *)
(***************************************************************************)
EXTENDS Lookup

Query == <<4, 8, 12, 16, 20>>

Valid == [decodes |-> TRUE, format |-> "json", duration |-> "given", seconds |-> 40,
          fingerprint |-> "given", hashes |-> Query]

MCInputs ==
    {[Valid EXCEPT !.seconds = d] : d \in {2, 25, 26, 27, 28, 40, 41, 53, 54, 55}}
        \cup {[Valid EXCEPT !.seconds = d] : d \in {1, 65534, NaN}}
        \cup {[Valid EXCEPT !.hashes = h] : h \in {<<4, 0, 8, 5, 12>>, <<0, 0>>}}
        \cup {[Valid EXCEPT !.decodes = FALSE], [Valid EXCEPT !.format = "html"]}
        \cup {[Valid EXCEPT !.duration = d] : d \in {"missing", "invalid"}}
        \cup {[Valid EXCEPT !.fingerprint = p] : p \in {"missing", "invalid"}}

MCHashesOf == <<{4, 8, 12, 16, 20}, {4, 8, 12, 16}, {4, 8, 12}, {24, 8}>>
MCLength == <<20, 13, 27, 20>>
MCScore == <<3, 3, 5, 9>>

=============================================================================
