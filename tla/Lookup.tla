------------------------------- MODULE Lookup -------------------------------
(***************************************************************************)
(* The lookup of the web API from request to response: ServeHTTP of        *)
(* server/api/v2/lookup.go, Search of the legacy searcher, and             *)
(* ScoreSearchMatches of the fingerprint database.  The index and          *)
(* PostgreSQL are external: they answer, fail or hang.                     *)
(*                                                                         *)
(* Durations are counted in halves of a second, where rounding differs.    *)
(***************************************************************************)
EXTENDS LegacySearcher

CONSTANTS
    Requests,       \* each asks once
    Inputs,         \* bound: what may be asked
    Fingerprints,   \* bound: what the database may contain
    HashesOf,       \* per fingerprint: the masked hashes the index has of it
    Length,         \* per fingerprint: its length in seconds
    Score,          \* per fingerprint: what acoustid_compare2 gives
    MinDuration, MaxDuration,   \* 1 and 32767 seconds
    NaN             \* the duration that is no number but parses

ASSUME LookupAssumption ==
    /\ IsFiniteSet(Fingerprints)
    /\ Length \in [Fingerprints -> Int]
    /\ Score \in [Fingerprints -> Nat]
    /\ \A f \in Fingerprints : IsFiniteSet(HashesOf[f])
    /\ \A input \in Inputs : input.seconds \in Int \cup {NaN}

VARIABLES
    rows,       \* committed fingerprints
    index,      \* fingerprints searches find
    asked,      \* per request: its input
    at,         \* per request: where its handler stands
    ended,      \* per request: whether its context is over
    known,      \* per request: the index when the search began
    candidates, \* per request
    matches,    \* per request: rows of the query that were not read yet
    results,    \* per request: those that were
    cut,        \* per request: whether rows were left unread
    status      \* per request: of the response; "closed" without one

dbVars == <<rows, index>>
vars == <<dbVars, asked, at, ended, known, candidates, matches, results, cut, status>>

Init ==
    /\ rows = {}
    /\ index = {}
    /\ asked \in [Requests -> Inputs]
    /\ at = [r \in Requests |-> "new"]
    /\ ended = [r \in Requests |-> FALSE]
    /\ known = [r \in Requests |-> {}]
    /\ candidates = [r \in Requests |-> {}]
    /\ matches = [r \in Requests |-> <<>>]
    /\ results = [r \in Requests |-> <<>>]
    /\ cut = [r \in Requests |-> FALSE]
    /\ status = [r \in Requests |-> "none"]

Goes(r, from, to) == at[r] = from /\ at' = [at EXCEPT ![r] = to]

\* The handler returns; it has written a response, or paniced.
Respond(r, code) ==
    /\ at' = [at EXCEPT ![r] = "done"]
    /\ status' = [status EXCEPT ![r] = code]

Active(r) == at[r] \notin {"new", "done"}

-----------------------------------------------------------------------------
(* The request                                                             *)

\* GetResponseFormat.
Formats == {"", "json", "jsonp", "xml"}

\* Not a number is neither below the least duration nor above the greatest.
InRange(d) == d = NaN \/ (d >= 2 * MinDuration /\ d < 2 * MaxDuration)

\* The error that is written for an input, or "none": the first that applies.
ErrorOf(input) ==
    CASE ~input.decodes                       -> "internal"
      [] input.format \notin Formats          -> "invalid format"
      [] input.duration = "missing"           -> "missing parameter"
      [] input.duration = "invalid"           -> "invalid duration"
      [] ~InRange(input.seconds)              -> "invalid duration"
      [] input.fingerprint = "missing"        -> "missing parameter"
      [] input.fingerprint = "invalid"        -> "invalid fingerprint"
      [] OTHER                                -> "none"

\* WriteError.
StatusOf(error) == IF error = "internal" THEN "500" ELSE "400"

Refuse(r) ==
    /\ at[r] = "new"
    /\ ErrorOf(asked[r]) # "none"
    /\ Respond(r, StatusOf(ErrorOf(asked[r])))
    /\ UNCHANGED <<dbVars, asked, ended, known, candidates, matches, results, cut>>

Accept(r) ==
    /\ Goes(r, "new", "index")
    /\ ErrorOf(asked[r]) = "none"
    /\ known' = [known EXCEPT ![r] = index]
    /\ UNCHANGED <<dbVars, asked, ended, candidates, matches, results, cut, status>>

-----------------------------------------------------------------------------
(* The search                                                              *)

Hits(r, f) == Cardinality(ToSet(ExtractIndexQuery(asked[r].hashes)) \cap HashesOf[f])

\* What the index answers: the fingerprints that have a hash of the query.
IndexAnswer(r) == {x \in {[id |-> f, hits |-> Hits(r, f)] : f \in index} : x.hits > 0}

SearchIndex(r) ==
    /\ Goes(r, "index", "begin")
    /\ ~ended[r]
    /\ \E ids \in GetCandidates(IndexAnswer(r)) : candidates' = [candidates EXCEPT ![r] = ids]
    /\ UNCHANGED <<dbVars, asked, ended, known, matches, results, cut, status>>

BeginTx(r) ==
    /\ Goes(r, "begin", "query")
    /\ ~ended[r]
    /\ UNCHANGED <<dbVars, asked, ended, known, candidates, matches, results, cut, status>>

\* The error is not looked at: the transaction is nil and using it panics, the
\* HTTP server closes the connection.
BeginFails(r) ==
    /\ at[r] = "begin"
    /\ Respond(r, "closed")
    /\ UNCHANGED <<dbVars, asked, ended, known, candidates, matches, results, cut>>

\* The conversion of not a number to an integer is up to the processor: 0, or an
\* integer the query fails with.
Duration(d) == IF d = NaN THEN 0 ELSE d

\* math.Round of n halves, away from zero.
Round(n) == IF n >= 0 THEN (n + 1) \div 2 ELSE -((1 - n) \div 2)

\* Faulty variant: seven seconds before and after, in whole seconds.
TruncatedWindow(d) == (d \div 2 - 7)..(d \div 2 + 6)

\* The lengths that match a duration.
Window(d) == Round(d - 14)..(Round(d - 14) + 14)

Matching(r) ==
    {f \in rows \cap candidates[r] : Length[f] \in Window(Duration(asked[r].seconds))}

\* ORDER BY score DESC.
ByScore(s) == \A i \in 2..Len(s) : Score[s[i - 1]] >= Score[s[i]]

\* statement_timeout is never set: the time left is counted with the wrong sign,
\* so it is positive only when the context is over.
QueryRows(r) ==
    /\ Goes(r, "query", "rows")
    /\ ~ended[r]
    /\ \E s \in {q \in SetToSeqs(Matching(r)) : ByScore(q)} : matches' = [matches EXCEPT ![r] = s]
    /\ UNCHANGED <<dbVars, asked, ended, known, candidates, results, cut, status>>

\* Faulty variant: rows are put before those already read.
NextRowFirst(r) ==
    /\ Goes(r, "rows", "rows")
    /\ matches[r] # <<>>
    /\ results' = [results EXCEPT ![r] = <<Head(matches[r])>> \o @]
    /\ matches' = [matches EXCEPT ![r] = Tail(@)]
    /\ UNCHANGED <<dbVars, asked, ended, known, candidates, cut, status>>

NextRow(r) ==
    /\ Goes(r, "rows", "rows")
    /\ matches[r] # <<>>
    /\ results' = [results EXCEPT ![r] = Append(@, Head(matches[r]))]
    /\ matches' = [matches EXCEPT ![r] = Tail(@)]
    /\ UNCHANGED <<dbVars, asked, ended, known, candidates, cut, status>>

\* rows.Next returns false after the last row, or because the context is over or
\* the connection is lost; rows.Err is not asked.
EndOfRows(r) ==
    /\ at[r] = "rows"
    /\ cut' = [cut EXCEPT ![r] = matches[r] # <<>>]
    /\ Respond(r, "200")
    /\ UNCHANGED <<dbVars, asked, ended, known, candidates, matches, results>>

\* The index search, the query or a row is an error.
SearchFails(r) ==
    /\ at[r] \in {"index", "query", "rows"}
    /\ Respond(r, "500")
    /\ UNCHANGED <<dbVars, asked, ended, known, candidates, matches, results, cut>>

-----------------------------------------------------------------------------
(* Around it                                                               *)

\* Faulty variant: the context of the request is used as it is.
TimeoutNever(r) == FALSE /\ UNCHANGED vars

\* One second has passed since the input was accepted.
Timeout(r) ==
    /\ Active(r) /\ ~ended[r]
    /\ ended' = [ended EXCEPT ![r] = TRUE]
    /\ UNCHANGED <<dbVars, asked, at, known, candidates, matches, results, cut, status>>

\* The client goes away.
Disconnect(r) ==
    /\ Active(r) /\ ~ended[r]
    /\ ended' = [ended EXCEPT ![r] = TRUE]
    /\ UNCHANGED <<dbVars, asked, at, known, candidates, matches, results, cut, status>>

\* Fingerprints are imported, and the updater brings them to the index.
Import(f) ==
    /\ f \notin rows
    /\ rows' = rows \cup {f}
    /\ UNCHANGED <<index, asked, at, ended, known, candidates, matches, results, cut, status>>

Update(f) ==
    /\ f \in rows \ index
    /\ index' = index \cup {f}
    /\ UNCHANGED <<rows, asked, at, ended, known, candidates, matches, results, cut, status>>

Next ==
    \/ \E r \in Requests :
         \/ Refuse(r) \/ Accept(r) \/ SearchIndex(r) \/ BeginTx(r) \/ BeginFails(r)
         \/ QueryRows(r) \/ NextRow(r) \/ EndOfRows(r) \/ SearchFails(r)
         \/ Timeout(r) \/ Disconnect(r)
    \/ \E f \in Fingerprints : Import(f) \/ Update(f)

Spec == Init /\ [][Next]_vars

\* What the handler does when its context is over, whoever has not answered.
GiveUp(r) == ended[r] /\ (BeginFails(r) \/ SearchFails(r) \/ EndOfRows(r))

\* The handler runs and its clock too; index and database owe nothing.
FairSpec ==
    Spec /\ \A r \in Requests : WF_vars(Refuse(r)) /\ WF_vars(Timeout(r)) /\ WF_vars(GiveUp(r))

-----------------------------------------------------------------------------
\* An answer has the best matches there are among the candidates, the best
\* first, however early its rows ended; it has all of them unless they were cut.
AnswersAreBest ==
    \A r \in Requests : status[r] = "200" =>
        LET found == ToSet(results[r])
            all   == {f \in candidates[r] : Length[f] \in Window(Duration(asked[r].seconds))}
        IN  /\ found \subseteq all
            /\ ByScore(results[r])
            /\ Cardinality(found) = Len(results[r])
            /\ \A f \in found, g \in all \ found : Score[f] >= Score[g]
            /\ cut[r] \/ found = all

\* A fingerprint that was in the index before it was asked for is found by every
\* lookup that answers in full, if its length is within 6.5 seconds, it shares
\* enough hashes with the query, and not too many others share as many: the
\* rounding of the window, the cut of candidates and the share of hits together
\* leave no gap for it to fall through.
FoundOnceIndexed ==
    \A r \in Requests : status[r] = "200" /\ ~cut[r] /\ asked[r].seconds # NaN =>
        \A f \in known[r] :
            LET others == {g \in Fingerprints \ {f} : Hits(r, g) >= Hits(r, f)}
                d == asked[r].seconds
            IN  /\ 2 * Length[f] \in (d - 13)..(d + 13)
                /\ Cardinality(others) <= MaxCandidates
                /\ Hits(r, f) >= MinHits
                /\ \A g \in others : 100 * Hits(r, f) >= MinHitsPercent * Hits(r, g)
                                     /\ MinHitsPercent * Hits(r, g) >= 100 * MinHits
                /\ MinHitsPercent * Hits(r, f) >= 100 * MinHits
                => f \in ToSet(results[r])

\* Every lookup ends, even if neither the index nor the database ever answers.
EveryLookupEnds == \A r \in Requests : Active(r) ~> at[r] = "done"

=============================================================================
