-------------------------- MODULE FingerprintStore --------------------------
(***************************************************************************)
(* The fingerprint store (pkg/fpstore): concurrent gRPC requests Insert,   *)
(* Get, Compare and Search over a cache (Redis) that forgets, fails or     *)
(* cannot answer for some of its keys, and a database that loses           *)
(* connections.  New fingerprints go to the table fingerprint_v2, lookups  *)
(* read the table fingerprint, which the importer fills.                   *)
(*                                                                         *)
(* A fingerprint is a value; which pairs of them score at least min_score  *)
(* is given by Similar.  Redis, PostgreSQL and the index are external.     *)
(***************************************************************************)
EXTENDS IndexQueries, Functions

CONSTANTS
    Requests,
    Calls,          \* the requests clients make
    Fps, NoFp,      \* fingerprints; NoFp: nil, or one without hashes
    Hashes,         \* fingerprint -> its hashes
    Similar,        \* pairs of fingerprints that reach min_score
    LegacyRow,      \* id -> fingerprint, what the importer will add
    Hits,           \* id -> hits in the index
    NewIds          \* what the sequence of fingerprint_v2 hands out

LegacyIds == DOMAIN LegacyRow

\* Delete, which nothing calls, tells the rows of the two tables apart by id
\* alone.
ASSUME StoreAssumption ==
    /\ LegacyIds \cap NewIds = {}
    /\ LegacyIds \cup NewIds \subseteq Nat \ {0}
    /\ IsFiniteSet(LegacyIds)
    /\ LegacyRow \in [LegacyIds -> Fps]
    /\ Hits \in [LegacyIds -> Nat]
    /\ DOMAIN Hashes = Fps
    /\ Similar \subseteq Fps \X Fps
    /\ NoFp \notin Fps /\ "error" \notin Fps
    /\ \A call \in Calls :
          /\ call.method \in {"Insert", "Get", "Compare", "Search"}
          /\ call.limit \in Int /\ call.ids \in Seq(Nat)
          /\ call.method = "Get" => Len(call.ids) = 1
          /\ call.method = "Search" => call.ids = <<>>

VARIABLES
    legacy,     \* ids of the rows of the table fingerprint
    new,        \* the rows of the table fingerprint_v2, id -> fingerprint
    cache,      \* what Redis holds, id -> fingerprint
    req         \* the state of the handler of each request

vars == <<legacy, new, cache, req>>

maxDatabaseAttempts == 3
DefaultSearchLimit == 10
FastModeFactor == 1
SlowModeFactor == 4

Ids == LegacyIds \cup NewIds

EmptyMap == <<>>

\* f, and g where f is not defined.
Over(f, g) == [x \in DOMAIN f \cup DOMAIN g |-> IF x \in DOMAIN f THEN f[x] ELSE g[x]]

Only(id, fp) == [i \in {id} |-> fp]

Set(map, id, fp) == Over(Only(id, fp), map)

Without(map, S) == Restrict(map, DOMAIN map \ S)

-----------------------------------------------------------------------------
(* A handler.  "ids" are the fingerprints to look up, "missing" the places *)
(* in "ids" of those still to be read from the database, "rows" what was   *)
(* read, "got" the map getFingerprints returns.  The last two fields are   *)
(* for the properties: the rows the request's INSERT committed, and the    *)
(* rows of the table fingerprint when the request arrived.                 *)

Idle ==
    [pc |-> "idle", call |-> [method |-> "none"], ctx |-> "live", ids |-> <<>>,
     missing |-> {}, attempt |-> 1, rows |-> EmptyMap, got |-> EmptyMap,
     code |-> "none", result |-> EmptyMap, inserted |-> {}, known |-> {}]

\* The handler goes on at pc with the fields of "changes".
Continue(r, pc, changes) ==
    req' = [req EXCEPT ![r] = Over(changes, Over([pc |-> pc], @))]

\* The handler returns, its variables are gone.
Reply(r, code, result) ==
    Continue(r, "done", [code |-> code, result |-> result, missing |-> {},
                         attempt |-> 1, rows |-> EmptyMap, got |-> EmptyMap])

ReplyEmpty(r, code) ==
    /\ Reply(r, code, EmptyMap)
    /\ UNCHANGED <<legacy, new, cache>>

Live(r) == req[r].ctx = "live"

\* Request r takes steps of its own now: somebody waits for it.
Active(r) == req[r].pc \notin {"idle", "done"}

MaxResults(limit) == IF limit > 0 THEN limit ELSE DefaultSearchLimit

\* Faulty variant: fast_mode is what the request says, and it says no.
SlowMaxCandidateIds(limit) == MaxResults(limit) * SlowModeFactor

\* Search sets FastMode itself, whatever the request says.
MaxCandidateIds(limit) == MaxResults(limit) * FastModeFactor

Invalid(call) ==
    \/ call.method \in {"Insert", "Compare", "Search"} /\ call.fp = NoFp
    \/ call.method = "Get" /\ call.ids = <<0>>
    \/ call.method = "Compare" /\ call.ids = <<>>

FirstStep(call) ==
    CASE call.method = "Insert" -> "insert"
      [] call.method = "Search" -> "index"
      [] call.method \in {"Get", "Compare"} -> "cache"

Arrive(r, call) ==
    /\ req[r].pc = "idle"
    /\ IF Invalid(call)
       THEN Continue(r, "done", [call |-> call, code |-> "InvalidArgument"])
       ELSE Continue(r, FirstStep(call),
                     [call |-> call, ids |-> call.ids, known |-> legacy])
    /\ UNCHANGED <<legacy, new, cache>>

Leave(r) ==
    /\ req[r].pc = "done"
    /\ req' = [req EXCEPT ![r] = Idle]
    /\ UNCHANGED <<legacy, new, cache>>

\* The client gives up, or its deadline passes.
EndContext(r) ==
    /\ Active(r) /\ Live(r)
    /\ \E how \in {"canceled", "deadline"} : req' = [req EXCEPT ![r].ctx = how]
    /\ UNCHANGED <<legacy, new, cache>>

-----------------------------------------------------------------------------
(* Insert.                                                                 *)

\* Faulty variant: the INSERT is repeated like the lookups are.
RetriedInsertRow(r) ==
    /\ req[r].pc = "insert"
    /\ \/ /\ Live(r)
          /\ \E id \in NewIds \ DOMAIN new :
                /\ new' = Set(new, id, req[r].call.fp)
                /\ \/ Continue(r, "keep", [result |-> Only(id, req[r].call.fp),
                                            inserted |-> req[r].inserted \cup {id}])
                   \/ /\ req[r].attempt < maxDatabaseAttempts
                      /\ Continue(r, "insert", [attempt |-> req[r].attempt + 1,
                                                inserted |-> req[r].inserted \cup {id}])
          /\ UNCHANGED <<legacy, cache>>
       \/ ReplyEmpty(r, "Internal")

\* One attempt.  When it fails the row may have been committed all the same.
InsertRow(r) ==
    /\ req[r].pc = "insert"
    /\ \/ /\ Live(r)
          /\ \E id \in NewIds \ DOMAIN new :
                /\ new' = Set(new, id, req[r].call.fp)
                /\ \/ Continue(r, "keep", [result |-> Only(id, req[r].call.fp), inserted |-> {id}])
                   \/ Continue(r, "done", [code |-> "Internal", inserted |-> {id}])
          /\ UNCHANGED <<legacy, cache>>
       \/ ReplyEmpty(r, "Internal")

\* The error of cache.Set is dropped.
KeepInserted(r) ==
    /\ req[r].pc = "keep"
    /\ cache' \in {cache} \cup (IF Live(r) THEN {Over(req[r].result, cache)} ELSE {})
    /\ Reply(r, "OK", req[r].result)
    /\ UNCHANGED <<legacy, new>>

-----------------------------------------------------------------------------
(* getFingerprints: the cache, then the database for what it did not have. *)

\* The slice MGET answers with: the value, nothing, or an error per key.
MGet(ids, unreachable) ==
    [i \in DOMAIN ids |->
        CASE i \in unreachable -> "error"
          [] i \notin unreachable /\ ids[i] \in DOMAIN cache -> cache[ids[i]]
          [] OTHER -> NoFp]

\* Faulty variant: the i-th answer that holds a value is taken for the i-th id.
ShiftedDecode(ids, values) ==
    LET decoded == SelectSeq(values, LAMBDA v : v \in Fps)
    IN  [id \in {ids[i] : i \in DOMAIN decoded} |->
            decoded[CHOOSE i \in DOMAIN decoded : ids[i] = id]]

Decode(ids, values) ==
    LET answered == {i \in DOMAIN ids : values[i] \in Fps}
    IN  [id \in {ids[i] : i \in answered} |->
            values[CHOOSE i \in answered : ids[i] = id]]

\* Faulty variant: a key without an answer counts as looked up.
MissingButUnanswered(ids, values) ==
    {i \in DOMAIN ids : values[i] = NoFp}

Missing(ids, values) ==
    {i \in DOMAIN ids : ids[i] \notin DOMAIN Decode(ids, values)}

ReadCache(r) ==
    /\ req[r].pc = "cache"
    /\ \/ \* MGET fails, or a value does not decode
          ReplyEmpty(r, "Internal")
       \/ /\ Live(r)
          /\ \E unreachable \in SUBSET DOMAIN req[r].ids :
                LET ids == req[r].ids
                    values == MGet(ids, unreachable)
                IN  Continue(r, IF Missing(ids, values) = {} THEN "answer" ELSE "read",
                             [got |-> Decode(ids, values), missing |-> Missing(ids, values)])
          /\ UNCHANGED <<legacy, new, cache>>

\* What getV1 makes of the row: nothing when there is none.
AddRow(rows, id) == IF id \in legacy THEN Set(rows, id, LegacyRow[id]) ELSE rows

\* Faulty variant: the attempts are not counted to the end.
RetryForEver(r) ==
    Continue(r, "read", [attempt |-> (req[r].attempt % maxDatabaseAttempts) + 1])

\* retryOnConnectionError after an error of a connection; the wait ends early
\* when the context does.
Retry(r) ==
    IF req[r].attempt < maxDatabaseAttempts /\ Live(r)
    THEN Continue(r, "read", [attempt |-> req[r].attempt + 1])
    ELSE Reply(r, "Internal", EmptyMap)

ReadRow(r) ==
    /\ req[r].pc = "read"
    /\ LET first == Min(req[r].missing)
           missing == req[r].missing \ {first}
           rows == AddRow(req[r].rows, req[r].ids[first])
           next == CASE missing # {} -> "read"
                     [] missing = {} /\ DOMAIN rows # {} -> "fill"
                     [] OTHER -> "answer"
       IN  \/ /\ Live(r)
              /\ Continue(r, next, [missing |-> missing, rows |-> rows, attempt |-> 1])
           \/ Retry(r)
           \/ Reply(r, "Internal", EmptyMap)
    /\ UNCHANGED <<legacy, new, cache>>

\* The loop over the rows read, in any order; the error of cache.Set is dropped.
FillCache(r) ==
    /\ req[r].pc = "fill"
    /\ \E id \in DOMAIN req[r].rows :
          LET fp == req[r].rows[id]
              rest == Without(req[r].rows, {id})
          IN  /\ cache' \in {cache} \cup (IF Live(r) THEN {Set(cache, id, fp)} ELSE {})
              /\ Continue(r, IF DOMAIN rest = {} THEN "answer" ELSE "fill",
                          [rows |-> rest, got |-> Set(req[r].got, id, fp)])
    /\ UNCHANGED <<legacy, new>>

-----------------------------------------------------------------------------
(* Search asks the index first.                                            *)

\* An index can only be asked for hashes that are not silence.
Query(r) == ExtractLegacyQuery(Hashes[req[r].call.fp])

SearchIndex(r) ==
    /\ req[r].pc = "index"
    /\ \/ ReplyEmpty(r, "Internal")
       \/ ReplyEmpty(r, "DeadlineExceeded")
       \/ /\ Query(r) = <<>>
          /\ ReplyEmpty(r, "OK")
       \/ /\ Live(r) /\ Query(r) # <<>>
          /\ \E found \in SUBSET LegacyIds :
                LET results == {[id |-> id, hits |-> Hits[id]] : id \in found}
                    kept == filterIndexSearchResults(
                                results, MaxCandidateIds(req[r].call.limit))
                IN  IF found = {} THEN Reply(r, "OK", EmptyMap)
                    ELSE Continue(r, "cache", [ids |-> [i \in DOMAIN kept |-> kept[i].id]])
          /\ UNCHANGED <<legacy, new, cache>>

-----------------------------------------------------------------------------
(* What the handlers make of the fingerprints they got.                    *)

Matching(r) == {id \in DOMAIN req[r].got : <<req[r].call.fp, req[r].got[id]>> \in Similar}

AnswerGet(r) ==
    /\ req[r].call.method = "Get"
    /\ LET id == req[r].call.ids[1]
       IN  IF id \in DOMAIN req[r].got
           THEN Reply(r, "OK", Only(id, req[r].got[id]))
           ELSE Reply(r, "NotFound", EmptyMap)

\* The matches come out of a Go map, in any order; Search keeps the first ones.
AnswerMatches(r) ==
    /\ req[r].call.method \in {"Compare", "Search"}
    /\ IF req[r].ctx = "canceled" /\ DOMAIN req[r].got # {}
       THEN Reply(r, "Canceled", EmptyMap)
       ELSE \E ids \in SUBSET Matching(r) :
               /\ \/ ids = Matching(r)
                  \/ /\ req[r].call.method = "Search"
                     /\ Cardinality(ids) = MaxResults(req[r].call.limit)
               /\ req[r].call.method = "Search" =>
                     Cardinality(ids) <= MaxResults(req[r].call.limit)
               /\ Reply(r, "OK", Restrict(req[r].got, ids))

Answer(r) ==
    /\ req[r].pc = "answer"
    /\ AnswerGet(r) \/ AnswerMatches(r)
    /\ UNCHANGED <<legacy, new, cache>>

-----------------------------------------------------------------------------
(* What happens around the handlers: keys expire or are evicted, the       *)
(* importer adds rows.                                                     *)

Expire ==
    /\ \E id \in DOMAIN cache : cache' = Without(cache, {id})
    /\ UNCHANGED <<legacy, new, req>>

Import ==
    /\ \E id \in LegacyIds \ legacy : legacy' = legacy \cup {id}
    /\ UNCHANGED <<new, cache, req>>

Step(r) ==
    \/ InsertRow(r) \/ KeepInserted(r)
    \/ SearchIndex(r) \/ ReadCache(r) \/ ReadRow(r) \/ FillCache(r) \/ Answer(r)

Init ==
    /\ legacy \in SUBSET LegacyIds
    /\ new = EmptyMap
    /\ cache = EmptyMap
    /\ req = [r \in Requests |-> Idle]

Next ==
    \/ Expire \/ Import
    \/ \E r \in Requests :
          \/ \E call \in Calls : Arrive(r, call)
          \/ Leave(r) \/ EndContext(r) \/ Step(r)

\* Redis, the database and the index answer or fail, and the handlers run.
Fairness == \A r \in Requests : WF_vars(Step(r))

Spec == Init /\ [][Next]_vars

FairSpec == Spec /\ Fairness

-----------------------------------------------------------------------------
\* The fingerprint stored under an id, in whichever table.
Stored(id) == IF id \in LegacyIds THEN LegacyRow[id] ELSE new[id]

Present == legacy \cup DOMAIN new

IsStored(map) ==
    \A id \in DOMAIN map : id \in Present /\ map[id] = Stored(id)

\* Whatever the cache loses, misses or answers in part, it never holds, and no
\* request ever returns or scores, a fingerprint under an id of another one.
AnswersAreStored ==
    /\ IsStored(cache)
    /\ \A r \in Requests : IsStored(req[r].got) /\ IsStored(req[r].result)

\* An INSERT that is not known to have succeeded is not repeated: a request
\* stores one fingerprint at most, and the one it reports is the one it stored.
InsertsOnce ==
    \A r \in Requests :
        /\ Cardinality(req[r].inserted) <= 1
        /\ req[r].code = "OK" /\ req[r].call.method = "Insert" =>
              DOMAIN req[r].result = req[r].inserted

\* A cache that cannot answer and a connection that is lost are errors or
\* retries, never an absent fingerprint: NotFound is not the answer for a row
\* the table fingerprint had when the request arrived.
NotFoundIsAbsent ==
    \A r \in Requests :
        req[r].code = "NotFound" => req[r].call.ids[1] \notin req[r].known

\* When Compare or Search succeeds it returns every candidate that was stored
\* and matches.  Search cuts an unsorted list to its limit; that loses nothing
\* because the index was asked for no more candidates than that.
NoMatchIsLost ==
    \A r \in Requests :
        req[r].code = "OK" /\ req[r].call.method \in {"Compare", "Search"} =>
            \A id \in Range(req[r].ids) \cap req[r].known :
                <<req[r].call.fp, LegacyRow[id]>> \in Similar => id \in DOMAIN req[r].result

\* Whatever connections are lost, a request ends: retries are bounded and no
\* wait of a handler depends on another request.
EveryRequestEnds == \A r \in Requests : Active(r) ~> req[r].pc = "done"

=============================================================================
