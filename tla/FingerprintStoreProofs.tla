----------------------- MODULE FingerprintStoreProofs -----------------------
(***************************************************************************)
(* The store never mixes fingerprints up, inserts once, and finds what is  *)
(* there: for every number of requests, ids and fingerprints, and whatever *)
(* cache, database and index lose.                                         *)
(***************************************************************************)
EXTENDS FingerprintStore, FiniteSetTheorems, NaturalsInduction,
        WellFoundedInduction, TLAPS

Fields == {"pc", "call", "ctx", "ids", "missing", "attempt", "rows", "got",
           "code", "result", "inserted", "known"}

\* The tables have their own ids, a handler its variables.
TypeOK ==
    /\ legacy \subseteq LegacyIds
    /\ DOMAIN new \subseteq NewIds
    /\ DOMAIN req = Requests
    /\ \A r \in Requests : DOMAIN req[r] = Fields

\* What a handler holds is stored, also what it has read but not put into the
\* cache yet.
HoldsStored(r) ==
    /\ IsStored(req[r].rows)
    /\ IsStored(req[r].got)
    /\ IsStored(req[r].result)

\* Rows are inserted at one place, which a handler leaves with its first row,
\* and only by Insert.
InsertOK(r) ==
    /\ req[r].inserted = {} \/ \E id : req[r].inserted = {id}
    /\ req[r].pc \in {"idle", "insert"} => req[r].inserted = {}
    /\ req[r].pc = "keep" => DOMAIN req[r].result = req[r].inserted
    /\ req[r].pc # "done" => req[r].code # "OK"
    /\ req[r].pc # "idle" /\ req[r].call.method = "Insert" => req[r].pc \in {"insert", "keep", "done"}
    /\ req[r].code = "OK" /\ req[r].call.method = "Insert" => DOMAIN req[r].result = req[r].inserted

IInv ==
    /\ TypeOK
    /\ IsStored(cache)
    /\ \A r \in Requests : HoldsStored(r) /\ InsertOK(r)

-----------------------------------------------------------------------------
(* Maps                                                                    *)

LEMMA EmptyIsStored == IsStored(EmptyMap)
BY DEF IsStored, EmptyMap

LEMMA OverIsStored ==
    ASSUME NEW f, NEW g, IsStored(f), IsStored(g)
    PROVE  IsStored(Over(f, g))
BY DEF IsStored, Over

LEMMA OnlyIsStored ==
    ASSUME NEW id \in Present
    PROVE  IsStored(Only(id, Stored(id)))
BY DEF IsStored, Only

\* What is stored stays stored: rows are added and never changed.
LEMMA StaysStored ==
    ASSUME TypeOK, NEW map, IsStored(map), legacy \subseteq legacy',
           \A id \in DOMAIN new : id \in DOMAIN new' /\ new'[id] = new[id]
    PROVE  IsStored(map)'
BY DEF IsStored, Present, Stored, TypeOK

\* What MGET answers belongs to the id at the same place.
LEMMA DecodedIsStored ==
    ASSUME IsStored(cache), NEW ids, NEW unreachable
    PROVE  IsStored(Decode(ids, MGet(ids, unreachable)))
<1> DEFINE values == MGet(ids, unreachable)
           answered == {i \in DOMAIN ids : values[i] \in Fps}
<1>1. ASSUME NEW i \in answered PROVE ids[i] \in DOMAIN cache /\ values[i] = cache[ids[i]]
  BY <1>1, StoreAssumption DEF MGet
<1>2. ASSUME NEW id \in DOMAIN Decode(ids, values)
      PROVE  id \in Present /\ Decode(ids, values)[id] = Stored(id)
  <2>1. PICK i \in answered : ids[i] = id
    BY <1>2 DEF Decode
  <2>2. Decode(ids, values)[id] = values[CHOOSE j \in answered : ids[j] = id]
    BY <1>2 DEF Decode
  <2>3. PICK j \in answered : ids[j] = id /\ Decode(ids, values)[id] = values[j]
    BY <2>1, <2>2
  <2> QED
    BY <1>1, <2>3 DEF IsStored
<1> QED
  BY <1>2 DEF IsStored

-----------------------------------------------------------------------------
(* Steps                                                                   *)

\* A handler goes on, the others keep theirs.
LEMMA ContinueFrame ==
    ASSUME TypeOK, NEW r \in Requests, NEW pc, NEW changes,
           DOMAIN changes \subseteq Fields, Continue(r, pc, changes)
    PROVE  /\ DOMAIN req' = Requests
           /\ DOMAIN req'[r] = Fields
           /\ \A q \in Requests \ {r} : req'[q] = req[q]
BY DEF TypeOK, Continue, Over, Fields

\* The tables do not lose rows, so what the others hold stays right.
LEMMA OthersKeep ==
    ASSUME IInv, NEW r \in Requests, \A q \in Requests \ {r} : req'[q] = req[q],
           legacy \subseteq legacy',
           \A id \in DOMAIN new : id \in DOMAIN new' /\ new'[id] = new[id]
    PROVE  \A q \in Requests \ {r} : (HoldsStored(q) /\ InsertOK(q))'
<1> SUFFICES ASSUME NEW q \in Requests \ {r} PROVE (HoldsStored(q) /\ InsertOK(q))'
  OBVIOUS
<1>1. req'[q] = req[q] /\ HoldsStored(q) /\ InsertOK(q) /\ TypeOK
  BY DEF IInv
<1>2. IsStored(req[q].rows)' /\ IsStored(req[q].got)' /\ IsStored(req[q].result)'
  <2>1. ASSUME NEW map, IsStored(map) PROVE IsStored(map)'
    BY <1>1, <2>1, StaysStored
  <2> QED
    BY <1>1, <2>1 DEF HoldsStored, IsStored, Present, Stored
<1> QED
  BY <1>1, <1>2 DEF HoldsStored, InsertOK

\* A step of a handler that changes no table: the invariant is about what the
\* handler has afterwards, and about the cache.
LEMMA HandlerStep ==
    ASSUME IInv, NEW r \in Requests, NEW pc, NEW changes,
           DOMAIN changes \subseteq Fields, Continue(r, pc, changes),
           UNCHANGED <<legacy, new>>, IsStored(cache'), HoldsStored(r)', InsertOK(r)'
    PROVE  IInv'
<1>1. TypeOK
  BY DEF IInv
<1>2. /\ DOMAIN req' = Requests
      /\ DOMAIN req'[r] = Fields
      /\ \A q \in Requests \ {r} : req'[q] = req[q]
  BY <1>1, ContinueFrame
<1>3. TypeOK'
  BY <1>1, <1>2 DEF TypeOK
<1>4. \A q \in Requests \ {r} : (HoldsStored(q) /\ InsertOK(q))'
  BY <1>2, OthersKeep
<1>5. IsStored(cache)'
  BY DEF IsStored, Present, Stored
<1> QED
  BY <1>3, <1>4, <1>5 DEF IInv

\* A handler that returns: what it returns is stored, and an answer to Insert
\* is the row it has inserted.
LEMMA ReplyKeeps ==
    ASSUME IInv, NEW r \in Requests, NEW code, NEW result, Reply(r, code, result),
           UNCHANGED <<legacy, new>>, IsStored(cache'), IsStored(result),
           Active(r),
           req[r].pc = "insert" => code # "OK",
           req[r].pc = "keep" => result = req[r].result
    PROVE  IInv'
<1> DEFINE changes == [code |-> code, result |-> result, missing |-> {},
                       attempt |-> 1, rows |-> EmptyMap, got |-> EmptyMap]
<1>1. Continue(r, "done", changes)
  BY DEF Reply
<1>2. TypeOK /\ HoldsStored(r) /\ InsertOK(r)
  BY DEF IInv
<1>3. /\ req'[r].pc = "done" /\ req'[r].code = code /\ req'[r].result = result
      /\ req'[r].rows = EmptyMap /\ req'[r].got = EmptyMap
      /\ req'[r].call = req[r].call /\ req'[r].inserted = req[r].inserted
  BY <1>1, <1>2 DEF TypeOK, Continue, Over, Fields
<1>4. HoldsStored(r)'
  <2>1. IsStored(EmptyMap)' /\ IsStored(result)'
    BY EmptyIsStored DEF IsStored, Present, Stored, EmptyMap
  <2> QED
    BY <1>3, <2>1 DEF HoldsStored, IsStored, Present, Stored
<1>5. InsertOK(r)'
  BY <1>2, <1>3 DEF InsertOK, Active
<1> QED
  BY <1>1, <1>4, <1>5, HandlerStep DEF Fields

LEMMA ReplyEmptyKeeps ==
    ASSUME IInv, NEW r \in Requests, NEW code, ReplyEmpty(r, code), Active(r),
           req[r].pc = "insert" => code # "OK", req[r].pc # "keep"
    PROVE  IInv'
<1>1. IsStored(EmptyMap) /\ IsStored(cache') /\ UNCHANGED <<legacy, new>>
  BY EmptyIsStored DEF ReplyEmpty, IInv
<1>2. Reply(r, code, EmptyMap)
  BY DEF ReplyEmpty
<1> QED
  BY <1>1, <1>2, ReplyKeeps

LEMMA ArriveKeeps ==
    ASSUME IInv, NEW r \in Requests, NEW call \in Calls, Arrive(r, call)
    PROVE  IInv'
<1>1. TypeOK /\ HoldsStored(r) /\ InsertOK(r) /\ IsStored(cache') /\ UNCHANGED <<legacy, new>>
  BY DEF IInv, Arrive
<1>2. CASE Invalid(call)
  <2> DEFINE changes == [call |-> call, code |-> "InvalidArgument"]
  <2>1. Continue(r, "done", changes)
    BY <1>2 DEF Arrive
  <2>2. /\ req'[r].pc = "done" /\ req'[r].code = "InvalidArgument"
        /\ req'[r].rows = req[r].rows /\ req'[r].got = req[r].got
        /\ req'[r].result = req[r].result /\ req'[r].inserted = req[r].inserted
    BY <1>1, <2>1 DEF TypeOK, Continue, Over, Fields
  <2>3. HoldsStored(r)' /\ InsertOK(r)'
    BY <1>1, <2>2 DEF HoldsStored, InsertOK, IsStored, Present, Stored
  <2> QED
    BY <1>1, <2>1, <2>3, HandlerStep DEF Fields
<1>3. CASE ~Invalid(call)
  <2> DEFINE changes == [call |-> call, ids |-> call.ids, known |-> legacy]
  <2>1. Continue(r, FirstStep(call), changes)
    BY <1>3 DEF Arrive
  <2>2. /\ req'[r].pc = FirstStep(call) /\ req'[r].call = call /\ req'[r].code = req[r].code
        /\ req'[r].rows = req[r].rows /\ req'[r].got = req[r].got
        /\ req'[r].result = req[r].result /\ req'[r].inserted = req[r].inserted
    BY <1>1, <2>1 DEF TypeOK, Continue, Over, Fields
  <2>3. /\ FirstStep(call) \in {"insert", "index", "cache"}
        /\ call.method = "Insert" => FirstStep(call) = "insert"
    BY StoreAssumption DEF FirstStep
  <2>4. req[r].pc = "idle"
    BY DEF Arrive
  <2>5. HoldsStored(r)'
    BY <1>1, <2>2 DEF HoldsStored, IsStored, Present, Stored
  <2>6. InsertOK(r)'
    BY <1>1, <2>2, <2>3, <2>4 DEF InsertOK
  <2> QED
    BY <1>1, <2>1, <2>5, <2>6, HandlerStep DEF Fields
<1> QED
  BY <1>2, <1>3

LEMMA InsertRowKeeps ==
    ASSUME IInv, NEW r \in Requests, InsertRow(r)
    PROVE  IInv'
<1>1. TypeOK /\ HoldsStored(r) /\ InsertOK(r) /\ IsStored(cache) /\ req[r].pc = "insert"
  BY DEF IInv, InsertRow
<1>2. CASE ReplyEmpty(r, "Internal")
  BY <1>1, <1>2, ReplyEmptyKeeps DEF Active
<1>3. ASSUME NEW id \in NewIds \ DOMAIN new, NEW fp, new' = Set(new, id, fp),
             \/ Continue(r, "keep", [result |-> Only(id, fp), inserted |-> {id}])
             \/ Continue(r, "done", [code |-> "Internal", inserted |-> {id}]),
             UNCHANGED <<legacy, cache>>
      PROVE  IInv'
  <2>1. /\ DOMAIN new' = DOMAIN new \cup {id}
        /\ new'[id] = fp
        /\ \A i \in DOMAIN new : new'[i] = new[i]
    BY <1>3 DEF Set, Over, Only
  <2>2. /\ DOMAIN req' = Requests
        /\ DOMAIN req'[r] = Fields
        /\ \A q \in Requests \ {r} : req'[q] = req[q]
    BY <1>1, <1>3, ContinueFrame DEF Fields
  <2>3. TypeOK'
    BY <1>1, <1>3, <2>1, <2>2 DEF TypeOK
  <2>4. \A q \in Requests \ {r} : (HoldsStored(q) /\ InsertOK(q))'
    BY <1>3, <2>1, <2>2, OthersKeep
  <2>5. ASSUME NEW map, IsStored(map) PROVE IsStored(map)'
    BY <1>1, <1>3, <2>1, <2>5, StaysStored
  <2>6. IsStored(cache)'
    BY <1>1, <1>3, <2>5 DEF IsStored, Present, Stored
  <2>7. IsStored(Only(id, fp))'
    BY <1>3, <2>1, StoreAssumption DEF IsStored, Only, Present, Stored
  <2>8. CASE Continue(r, "keep", [result |-> Only(id, fp), inserted |-> {id}])
    <3>1. /\ req'[r].pc = "keep" /\ req'[r].code = req[r].code /\ req'[r].call = req[r].call
          /\ req'[r].rows = req[r].rows /\ req'[r].got = req[r].got
          /\ req'[r].result = Only(id, fp) /\ req'[r].inserted = {id}
      BY <1>1, <2>8 DEF TypeOK, Continue, Over, Fields
    <3>2. HoldsStored(r)'
      BY <1>1, <2>5, <2>7, <3>1 DEF HoldsStored, IsStored, Present, Stored
    <3>3. InsertOK(r)'
      BY <1>1, <3>1 DEF InsertOK, Only
    <3> QED
      BY <2>3, <2>4, <2>6, <3>2, <3>3 DEF IInv
  <2>9. CASE Continue(r, "done", [code |-> "Internal", inserted |-> {id}])
    <3>1. /\ req'[r].pc = "done" /\ req'[r].code = "Internal" /\ req'[r].call = req[r].call
          /\ req'[r].rows = req[r].rows /\ req'[r].got = req[r].got
          /\ req'[r].result = req[r].result /\ req'[r].inserted = {id}
      BY <1>1, <2>9 DEF TypeOK, Continue, Over, Fields
    <3>2. HoldsStored(r)'
      BY <1>1, <2>5, <3>1 DEF HoldsStored, IsStored, Present, Stored
    <3>3. InsertOK(r)'
      BY <3>1 DEF InsertOK
    <3> QED
      BY <2>3, <2>4, <2>6, <3>2, <3>3 DEF IInv
  <2> QED
    BY <1>3, <2>8, <2>9
<1> QED
  BY <1>2, <1>3 DEF InsertRow

LEMMA KeepInsertedKeeps ==
    ASSUME IInv, NEW r \in Requests, KeepInserted(r)
    PROVE  IInv'
<1>1. HoldsStored(r) /\ IsStored(cache) /\ req[r].pc = "keep" /\ UNCHANGED <<legacy, new>>
  BY DEF IInv, KeepInserted
<1>2. IsStored(req[r].result) /\ IsStored(Over(req[r].result, cache))
  BY <1>1, OverIsStored DEF HoldsStored
<1>3. IsStored(cache')
  <2>1. cache' = cache \/ cache' = Over(req[r].result, cache)
    BY DEF KeepInserted
  <2> QED
    BY <1>1, <1>2, <2>1
<1>4. Reply(r, "OK", req[r].result)
  BY DEF KeepInserted
<1> QED
  BY <1>1, <1>2, <1>3, <1>4, ReplyKeeps DEF Active

\* A handler that goes on with its lookup.
LEMMA LookupKeeps ==
    ASSUME IInv, NEW r \in Requests, NEW pc \in {"cache", "read", "fill", "answer"}, NEW changes,
           DOMAIN changes \subseteq {"ids", "missing", "attempt", "rows", "got"},
           Continue(r, pc, changes),
           req[r].pc \in {"index", "cache", "read", "fill"},
           UNCHANGED <<legacy, new>>, IsStored(cache'),
           "rows" \in DOMAIN changes => IsStored(changes["rows"]),
           "got" \in DOMAIN changes => IsStored(changes["got"])
    PROVE  IInv'
<1>1. TypeOK /\ HoldsStored(r) /\ InsertOK(r)
  BY DEF IInv
<1>2. /\ req'[r].pc = pc /\ req'[r].code = req[r].code /\ req'[r].call = req[r].call
      /\ req'[r].result = req[r].result /\ req'[r].inserted = req[r].inserted
      /\ req'[r].rows = IF "rows" \in DOMAIN changes THEN changes["rows"] ELSE req[r].rows
      /\ req'[r].got = IF "got" \in DOMAIN changes THEN changes["got"] ELSE req[r].got
  BY <1>1 DEF TypeOK, Continue, Over, Fields
<1>3. IsStored(req'[r].rows) /\ IsStored(req'[r].got) /\ IsStored(req'[r].result)
  BY <1>1, <1>2 DEF HoldsStored
<1>4. HoldsStored(r)'
  BY <1>3 DEF HoldsStored, IsStored, Present, Stored
<1>5. InsertOK(r)'
  BY <1>1, <1>2 DEF InsertOK
<1> QED
  BY <1>4, <1>5, HandlerStep DEF Fields

LEMMA ReadCacheKeeps ==
    ASSUME IInv, NEW r \in Requests, ReadCache(r)
    PROVE  IInv'
<1>1. IsStored(cache) /\ req[r].pc = "cache"
  BY DEF IInv, ReadCache
<1>2. CASE ReplyEmpty(r, "Internal")
  BY <1>1, <1>2, ReplyEmptyKeeps DEF Active
<1>3. ASSUME NEW ids, NEW unreachable, NEW values, values = MGet(ids, unreachable),
             Continue(r, IF Missing(ids, values) = {} THEN "answer" ELSE "read",
                      [got |-> Decode(ids, values), missing |-> Missing(ids, values)]),
             UNCHANGED <<legacy, new, cache>>
      PROVE  IInv'
  <2>1. IsStored(Decode(ids, values))
    BY <1>1, <1>3, DecodedIsStored
  <2> QED
    BY <1>1, <1>3, <2>1, LookupKeeps
<1> QED
  BY <1>2, <1>3 DEF ReadCache

LEMMA RowsAreStored ==
    ASSUME TypeOK, NEW rows, IsStored(rows), NEW id
    PROVE  IsStored(AddRow(rows, id))
<1>1. CASE id \in legacy
  <2>1. id \in Present /\ LegacyRow[id] = Stored(id)
    BY <1>1 DEF Present, Stored, TypeOK
  <2> QED
    BY <1>1, <2>1, OnlyIsStored, OverIsStored DEF AddRow, Set
<1>2. CASE id \notin legacy
  BY <1>2 DEF AddRow
<1> QED
  BY <1>1, <1>2

LEMMA RetryKeeps ==
    ASSUME IInv, NEW r \in Requests, req[r].pc = "read", Retry(r), UNCHANGED <<legacy, new, cache>>
    PROVE  IInv'
<1>1. IsStored(cache') /\ IsStored(EmptyMap)
  BY EmptyIsStored DEF IInv
<1>2. CASE Continue(r, "read", [attempt |-> req[r].attempt + 1])
  BY <1>1, <1>2, LookupKeeps
<1>3. CASE Reply(r, "Internal", EmptyMap)
  BY <1>1, <1>3, ReplyKeeps DEF Active
<1> QED
  BY <1>2, <1>3 DEF Retry

LEMMA ReadRowKeeps ==
    ASSUME IInv, NEW r \in Requests, ReadRow(r)
    PROVE  IInv'
<1>1. /\ TypeOK /\ HoldsStored(r) /\ IsStored(cache')
      /\ req[r].pc = "read" /\ UNCHANGED <<legacy, new, cache>>
  BY DEF IInv, ReadRow
<1>2. CASE Retry(r)
  BY <1>1, <1>2, RetryKeeps
<1>3. CASE Reply(r, "Internal", EmptyMap)
  BY <1>1, <1>3, EmptyIsStored, ReplyKeeps DEF Active
<1>4. ASSUME NEW rows, rows = AddRow(req[r].rows, req[r].ids[Min(req[r].missing)]),
             NEW missing, NEW next \in {"read", "fill", "answer"},
             Continue(r, next, [missing |-> missing, rows |-> rows, attempt |-> 1])
      PROVE  IInv'
  <2>1. IsStored(rows)
    BY <1>1, <1>4, RowsAreStored DEF HoldsStored
  <2> QED
    BY <1>1, <1>4, <2>1, LookupKeeps
<1> QED
  BY <1>2, <1>3, <1>4 DEF ReadRow

LEMMA FillCacheKeeps ==
    ASSUME IInv, NEW r \in Requests, FillCache(r)
    PROVE  IInv'
<1>1. /\ HoldsStored(r) /\ IsStored(cache)
      /\ req[r].pc = "fill" /\ UNCHANGED <<legacy, new>>
  BY DEF IInv, FillCache
<1>2. PICK id \in DOMAIN req[r].rows :
        LET fp == req[r].rows[id]
            rest == Without(req[r].rows, {id})
        IN  /\ cache' \in {cache} \cup (IF Live(r) THEN {Set(cache, id, fp)} ELSE {})
            /\ Continue(r, IF DOMAIN rest = {} THEN "answer" ELSE "fill",
                        [rows |-> rest, got |-> Set(req[r].got, id, fp)])
  BY DEF FillCache
<1> DEFINE fp == req[r].rows[id]
           rest == Without(req[r].rows, {id})
<1>3. IsStored(Only(id, fp)) /\ IsStored(rest)
  BY <1>1 DEF HoldsStored, IsStored, Only, Without, Restrict
<1>4. IsStored(Set(cache, id, fp)) /\ IsStored(Set(req[r].got, id, fp))
  BY <1>1, <1>3, OverIsStored DEF HoldsStored, Set
<1>5. IsStored(cache')
  BY <1>1, <1>2, <1>4
<1>6. Continue(r, IF DOMAIN rest = {} THEN "answer" ELSE "fill",
               [rows |-> rest, got |-> Set(req[r].got, id, fp)])
  BY <1>2
<1> HIDE DEF fp, rest
<1> QED
  BY <1>1, <1>3, <1>4, <1>5, <1>6, LookupKeeps

LEMMA SearchIndexKeeps ==
    ASSUME IInv, NEW r \in Requests, SearchIndex(r)
    PROVE  IInv'
<1>1. IsStored(cache) /\ IsStored(EmptyMap) /\ req[r].pc = "index"
  BY EmptyIsStored DEF IInv, SearchIndex
<1>2. ASSUME NEW code, ReplyEmpty(r, code) PROVE IInv'
  BY <1>1, <1>2, ReplyEmptyKeeps DEF Active
<1>3. CASE Reply(r, "OK", EmptyMap) /\ UNCHANGED <<legacy, new, cache>>
  BY <1>1, <1>3, ReplyKeeps DEF Active
<1>4. ASSUME NEW ids, Continue(r, "cache", [ids |-> ids]), UNCHANGED <<legacy, new, cache>>
      PROVE  IInv'
  BY <1>1, <1>4, LookupKeeps
<1> QED
  BY <1>2, <1>3, <1>4 DEF SearchIndex

LEMMA AnswerKeeps ==
    ASSUME IInv, NEW r \in Requests, Answer(r)
    PROVE  IInv'
<1>1. /\ IsStored(req[r].got) /\ IsStored(cache') /\ IsStored(EmptyMap)
      /\ req[r].pc = "answer" /\ UNCHANGED <<legacy, new>>
  BY EmptyIsStored DEF IInv, HoldsStored, Answer
<1>2. ASSUME NEW code, NEW result, IsStored(result), Reply(r, code, result) PROVE IInv'
  BY <1>1, <1>2, ReplyKeeps DEF Active
<1>3. CASE AnswerGet(r)
  <2>1. ASSUME NEW id \in DOMAIN req[r].got PROVE IsStored(Only(id, req[r].got[id]))
    BY <1>1, <2>1 DEF IsStored, Only
  <2> QED
    BY <1>1, <1>2, <1>3, <2>1 DEF AnswerGet
<1>4. CASE AnswerMatches(r)
  <2>1. ASSUME NEW ids \in SUBSET Matching(r) PROVE IsStored(Restrict(req[r].got, ids))
    BY <1>1, <2>1 DEF Matching, IsStored, Restrict
  <2> QED
    BY <1>1, <1>2, <1>4, <2>1 DEF AnswerMatches
<1> QED
  BY <1>3, <1>4 DEF Answer

LEMMA LeaveKeeps ==
    ASSUME IInv, NEW r \in Requests, Leave(r)
    PROVE  IInv'
<1>1. TypeOK /\ IsStored(cache) /\ IsStored(EmptyMap) /\ UNCHANGED <<legacy, new, cache>>
  BY EmptyIsStored DEF IInv, Leave
<1>2. /\ DOMAIN req' = Requests /\ req'[r] = Idle
      /\ \A q \in Requests \ {r} : req'[q] = req[q]
  BY <1>1 DEF Leave, TypeOK
<1>3. TypeOK'
  BY <1>1, <1>2 DEF TypeOK, Idle, Fields
<1>4. \A q \in Requests \ {r} : (HoldsStored(q) /\ InsertOK(q))'
  BY <1>1, <1>2, OthersKeep
<1>5. HoldsStored(r)' /\ InsertOK(r)'
  BY <1>1, <1>2 DEF Idle, HoldsStored, InsertOK, IsStored, Present, Stored
<1> QED
  BY <1>1, <1>3, <1>4, <1>5 DEF IInv, IsStored, Present, Stored

LEMMA EndContextKeeps ==
    ASSUME IInv, NEW r \in Requests, EndContext(r)
    PROVE  IInv'
<1>1. /\ TypeOK /\ IsStored(cache) /\ HoldsStored(r) /\ InsertOK(r)
      /\ UNCHANGED <<legacy, new, cache>>
  BY DEF IInv, EndContext
<1>2. PICK how : req' = [req EXCEPT ![r].ctx = how]
  BY DEF EndContext
<1>3. /\ DOMAIN req' = Requests /\ DOMAIN req'[r] = Fields
      /\ \A q \in Requests \ {r} : req'[q] = req[q]
      /\ req'[r].pc = req[r].pc /\ req'[r].code = req[r].code /\ req'[r].call = req[r].call
      /\ req'[r].rows = req[r].rows /\ req'[r].got = req[r].got
      /\ req'[r].result = req[r].result /\ req'[r].inserted = req[r].inserted
  BY <1>1, <1>2 DEF TypeOK, Fields
<1>4. TypeOK'
  BY <1>1, <1>3 DEF TypeOK
<1>5. \A q \in Requests \ {r} : (HoldsStored(q) /\ InsertOK(q))'
  BY <1>1, <1>3, OthersKeep
<1>6. HoldsStored(r)' /\ InsertOK(r)'
  BY <1>1, <1>3 DEF HoldsStored, InsertOK, IsStored, Present, Stored
<1> QED
  BY <1>1, <1>4, <1>5, <1>6 DEF IInv, IsStored, Present, Stored

LEMMA CacheKeeps ==
    ASSUME IInv, UNCHANGED <<legacy, new, req>>, IsStored(cache')
    PROVE  IInv'
<1>1. TypeOK'
  BY DEF IInv, TypeOK
<1>2. IsStored(cache)'
  BY DEF IsStored, Present, Stored
<1>3. ASSUME NEW r \in Requests PROVE (HoldsStored(r) /\ InsertOK(r))'
  <2>1. HoldsStored(r) /\ InsertOK(r)
    BY DEF IInv
  <2> QED
    BY <2>1 DEF HoldsStored, InsertOK, IsStored, Present, Stored
<1> QED
  BY <1>1, <1>2, <1>3 DEF IInv

LEMMA ExpireKeeps ==
    ASSUME IInv, Expire
    PROVE  IInv'
<1>1. UNCHANGED <<legacy, new, req>>
  BY DEF Expire
<1>2. IsStored(cache')
  BY DEF IInv, Expire, IsStored, Without, Restrict
<1> QED
  BY <1>1, <1>2, CacheKeeps

LEMMA ImportKeeps ==
    ASSUME IInv, Import
    PROVE  IInv'
<1>1. legacy \subseteq legacy' /\ legacy' \subseteq LegacyIds /\ UNCHANGED <<new, cache, req>>
  BY DEF IInv, TypeOK, Import
<1>2. TypeOK /\ TypeOK'
  BY <1>1 DEF IInv, TypeOK
<1>3. ASSUME NEW map, IsStored(map) PROVE IsStored(map)'
  BY <1>1, <1>2, <1>3, StaysStored
<1>4. IsStored(cache)'
  BY <1>1, <1>3 DEF IInv, IsStored, Present, Stored
<1>5. ASSUME NEW r \in Requests PROVE (HoldsStored(r) /\ InsertOK(r))'
  <2>1. IsStored(req[r].rows) /\ IsStored(req[r].got) /\ IsStored(req[r].result) /\ InsertOK(r)
    BY DEF IInv, HoldsStored
  <2> QED
    BY <1>1, <1>3, <2>1 DEF HoldsStored, InsertOK, IsStored, Present, Stored
<1> QED
  BY <1>2, <1>4, <1>5 DEF IInv

-----------------------------------------------------------------------------
LEMMA InitHolds == Init => IInv
<1> SUFFICES ASSUME Init PROVE IInv
  OBVIOUS
<1>1. TypeOK
  BY DEF Init, TypeOK, Idle, Fields, EmptyMap
<1>2. IsStored(EmptyMap)
  BY EmptyIsStored
<1> QED
  BY <1>1, <1>2 DEF Init, IInv, HoldsStored, InsertOK, Idle

LEMMA NextHolds == IInv /\ [Next]_vars => IInv'
<1> SUFFICES ASSUME IInv, [Next]_vars PROVE IInv'
  OBVIOUS
<1>1. CASE UNCHANGED vars
  <2>1. UNCHANGED <<legacy, new, req>> /\ IsStored(cache')
    BY <1>1 DEF vars, IInv
  <2> QED
    BY <2>1, CacheKeeps
<1>2. ASSUME NEW r \in Requests, Step(r) PROVE IInv'
  BY <1>2, InsertRowKeeps, KeepInsertedKeeps, SearchIndexKeeps, ReadCacheKeeps,
     ReadRowKeeps, FillCacheKeeps, AnswerKeeps DEF Step
<1> QED
  BY <1>1, <1>2, ExpireKeeps, ImportKeeps, ArriveKeeps, LeaveKeeps, EndContextKeeps DEF Next

LEMMA InvHolds == Spec => []IInv
BY InitHolds, NextHolds, PTL DEF Spec

\* Nobody is ever given, or compared with, the fingerprint of another id,
\* whatever MGET leaves unanswered and however many requests fill the cache.
THEOREM AnswersStored == Spec => []AnswersAreStored
<1>1. IInv => AnswersAreStored
  BY DEF IInv, HoldsStored, AnswersAreStored
<1> QED
  BY <1>1, InvHolds, PTL

\* A request of Insert stores one fingerprint at most, and reports the id of
\* the one it stored.
THEOREM InsertsAreNotRepeated == Spec => []InsertsOnce
<1>1. IInv => InsertsOnce
  <2> SUFFICES ASSUME IInv, NEW r \in Requests
               PROVE  /\ Cardinality(req[r].inserted) <= 1
                      /\ req[r].code = "OK" /\ req[r].call.method = "Insert" =>
                            DOMAIN req[r].result = req[r].inserted
    BY DEF InsertsOnce
  <2>1. InsertOK(r)
    BY DEF IInv
  <2>2. Cardinality(req[r].inserted) <= 1
    <3>1. CASE req[r].inserted = {}
      BY <3>1, FS_EmptySet
    <3>2. ASSUME NEW id, req[r].inserted = {id} PROVE Cardinality(req[r].inserted) <= 1
      <4>1. Cardinality({id}) = 1
        BY FS_Singleton
      <4> QED
        BY <3>2, <4>1
    <3> QED
      BY <2>1, <3>1, <3>2 DEF InsertOK
  <2> QED
    BY <2>1, <2>2 DEF InsertOK
<1> QED
  BY <1>1, InvHolds, PTL

-----------------------------------------------------------------------------
(* The filter of what the index found                                      *)

\* No two results are of one rank, so each place has a result.
LEMMA PlacesAreTaken ==
    ASSUME NEW results, IsFiniteSet(results),
           \A r \in results : r.hits \in Nat /\ r.id \in Nat,
           \A q, r \in results : q.id = r.id => q = r,
           NEW i \in 1..Cardinality(results)
    PROVE  SortedResults(results)[i] \in results
<1> DEFINE First(r) == {q \in results : Before(q, r)}
           f == [r \in results |-> Rank(r, results)]
<1>1. PICK n \in Nat : n = Cardinality(results)
  BY FS_CardinalityType
<1>2. ASSUME NEW r \in results
      PROVE  /\ First(r) \subseteq results \ {r}
             /\ IsFiniteSet(First(r)) /\ Rank(r, results) = Cardinality(First(r))
             /\ Rank(r, results) \in 0..(n - 1)
  <2>1. First(r) \subseteq results \ {r}
    BY DEF Before
  <2>2. IsFiniteSet(results \ {r}) /\ Cardinality(results \ {r}) = n - 1
    BY <1>1, FS_RemoveElement
  <2>3. IsFiniteSet(First(r)) /\ Cardinality(First(r)) <= Cardinality(results \ {r})
    BY <2>1, <2>2, FS_Subset
  <2>4. Cardinality(First(r)) \in Nat
    BY <2>3, FS_CardinalityType
  <2> QED
    BY <1>1, <2>1, <2>2, <2>3, <2>4 DEF Rank
<1>3. ASSUME NEW q \in results, NEW r \in results, Before(q, r)
      PROVE  Rank(q, results) # Rank(r, results)
  <2>1. First(q) \subseteq First(r) /\ q \in First(r) /\ q \notin First(q)
    BY <1>3 DEF Before
  <2>2. First(q) # First(r)
    BY <2>1
  <2>3. Cardinality(First(q)) # Cardinality(First(r))
    BY <1>2, <2>1, <2>2, FS_Subset
  <2> QED
    BY <1>2, <2>3
<1>4. f \in Injection(results, 0..(n - 1))
  <2>1. f \in [results -> 0..(n - 1)]
    BY <1>2
  <2>2. ASSUME NEW q \in results, NEW r \in results, q # r PROVE f[q] # f[r]
    <3>1. Before(q, r) \/ Before(r, q)
      BY <2>2 DEF Before
    <3> QED
      BY <1>3, <3>1
  <2> HIDE DEF f
  <2> QED
    BY <2>1, <2>2 DEF Injection, IsInjective
<1>5. IsFiniteSet(0..(n - 1)) /\ Cardinality(0..(n - 1)) = n
  <2>1. /\ IsFiniteSet(0..(n - 1))
        /\ Cardinality(0..(n - 1)) = IF 0 > n - 1 THEN 0 ELSE n - 1 - 0 + 1
    BY FS_Interval
  <2> QED
    BY <2>1
<1>6. f \in Surjection(results, 0..(n - 1))
  BY <1>1, <1>4, <1>5, FS_Injection
<1>7. i - 1 \in 0..(n - 1)
  BY <1>1
<1>8. \E r \in results : f[r] = i - 1
  BY <1>6, <1>7 DEF Surjection
<1>9. \E r \in results : Rank(r, results) = i - 1
  BY <1>8
<1>10. SortedResults(results)[i] = CHOOSE r \in results : Rank(r, results) = i - 1
  BY DEF SortedResults
<1> QED
  BY <1>9, <1>10

\* The first result has the hits the threshold asks for, so the filter cuts
\* below it and never lets more through than the limit.
LEMMA FilterKeepsLimit ==
    ASSUME NEW results, IsFiniteSet(results), results # {},
           \A r \in results : r.hits \in Nat /\ r.id \in Nat,
           \A q, r \in results : q.id = r.id => q = r,
           NEW limit \in Int, limit > 0
    PROVE  /\ filterIndexSearchResults(results, limit) \in Seq(results)
           /\ Len(filterIndexSearchResults(results, limit)) <= limit
<1>1. PICK n \in Nat : n = Cardinality(results) /\ n > 0
  BY FS_CardinalityType, FS_EmptySet
<1> DEFINE sorted == SortedResults(results)
           threshold == (sorted[1].hits * 10 + 50) \div 100
           over == {r \in results : r.hits >= threshold}
           cut == IF limit = 0 \/ (Len(sorted) > limit /\ limit > Cardinality(over))
                  THEN Cardinality(over) ELSE limit
<1>2. sorted[1] \in results
  BY <1>1, PlacesAreTaken
<1>3. DOMAIN sorted = 1..n /\ Len(sorted) = n
  BY <1>1 DEF SortedResults
<1>4. sorted[1] \in over
  <2>1. PICK hits \in Nat : hits = sorted[1].hits
    BY <1>2
  <2>2. hits >= (hits * 10 + 50) \div 100
    OBVIOUS
  <2> QED
    BY <1>2, <2>1, <2>2
<1>5. Cardinality(over) \in Nat /\ Cardinality(over) > 0
  <2>1. over \subseteq results
    OBVIOUS
  <2>2. IsFiniteSet(over)
    BY <2>1, FS_Subset
  <2>3. Cardinality(over) \in Nat
    BY <2>2, FS_CardinalityType
  <2>4. over # {}
    BY <1>4
  <2>5. Cardinality(over) # 0
    BY <2>2, <2>4, FS_EmptySet
  <2> QED
    BY <2>3, <2>5
<1>6. PICK c \in Nat : c = cut /\ c > 0 /\ c <= limit
  <2>1. PICK t \in Nat : t = Cardinality(over) /\ t > 0
    BY <1>5
  <2>2. cut \in Nat /\ cut > 0 /\ cut <= limit
    BY <1>1, <1>3, <2>1
  <2> QED
    BY <2>2
<1>7. filterIndexSearchResults(results, limit) =
        IF cut > 0 /\ Len(sorted) > cut THEN SubSeq(sorted, 1, cut) ELSE sorted
  BY DEF filterIndexSearchResults
<1> HIDE DEF sorted, cut
<1>8. sorted \in Seq(results)
  <2>1. \A j \in 1..n : sorted[j] \in results
    BY <1>1, PlacesAreTaken DEF sorted
  <2>2. sorted = [j \in 1..n |-> sorted[j]]
    BY <1>1 DEF sorted, SortedResults
  <2> QED
    BY <2>1, <2>2
<1>9. CASE n > c
  <2>1. SubSeq(sorted, 1, c) \in Seq(results) /\ Len(SubSeq(sorted, 1, c)) = c
    BY <1>3, <1>6, <1>8, <1>9
  <2> QED
    BY <1>3, <1>6, <1>7, <1>9, <2>1
<1>10. CASE ~(n > c)
  BY <1>3, <1>6, <1>7, <1>8, <1>10
<1> QED
  BY <1>9, <1>10

-----------------------------------------------------------------------------
(* What a lookup finds.  A fingerprint that was in the table when the       *)
(* request came is in the map that is returned, among the rows that are not *)
(* in it yet, or at a place that is still to be read.                       *)

Looking(r) == req[r].pc \in {"cache", "read", "fill", "answer"}

\* Search was given no more ids than it may return.
IdsOK(r) ==
    /\ req[r].ids \in Seq(Nat)
    /\ req[r].call.method = "Search" => Len(req[r].ids) <= MaxResults(req[r].call.limit)

\* The handlers of the calls are at their own places.
CallOK(r) ==
    /\ req[r].pc # "idle" => req[r].call \in Calls
    /\ req[r].pc \in {"insert", "keep"} => req[r].call.method = "Insert"
    /\ req[r].pc = "index" => req[r].call.method = "Search"
    /\ req[r].pc \in {"idle", "index"} => req[r].ids = <<>>
    /\ Looking(r) /\ req[r].call.method = "Get" => req[r].ids = req[r].call.ids
    /\ req[r].pc # "done" => req[r].code = "none"

PlacesOK(r) ==
    /\ DOMAIN req[r].got \cup DOMAIN req[r].rows \subseteq Range(req[r].ids)
    /\ req[r].pc \notin {"read", "fill"} => DOMAIN req[r].rows = {}
    /\ req[r].pc = "read" => req[r].missing # {} /\ req[r].missing \subseteq DOMAIN req[r].ids

NothingSkipped(r) ==
    /\ req[r].known \subseteq legacy
    /\ req[r].pc \in {"read", "fill", "answer"} =>
          \A i \in DOMAIN req[r].ids : req[r].ids[i] \in req[r].known =>
              \/ req[r].ids[i] \in DOMAIN req[r].got \cup DOMAIN req[r].rows
              \/ req[r].pc = "read" /\ i \in req[r].missing

\* The properties, of one request.
AnswerOK(r) ==
    /\ req[r].code = "NotFound" => req[r].call.ids[1] \notin req[r].known
    /\ req[r].code = "OK" /\ req[r].call.method \in {"Compare", "Search"} =>
          \A id \in Range(req[r].ids) \cap req[r].known :
              <<req[r].call.fp, LegacyRow[id]>> \in Similar => id \in DOMAIN req[r].result

FindsOK(r) == IdsOK(r) /\ CallOK(r) /\ PlacesOK(r) /\ NothingSkipped(r) /\ AnswerOK(r)

FindInv == \A r \in Requests : FindsOK(r)

LEMMA FindInit == Init => FindInv
<1> SUFFICES ASSUME Init, NEW r \in Requests PROVE FindsOK(r)
  BY DEF FindInv
<1>1. /\ req[r].pc = "idle" /\ req[r].ids = <<>> /\ req[r].call.method = "none"
      /\ DOMAIN req[r].got = {} /\ DOMAIN req[r].rows = {} /\ req[r].code = "none"
      /\ req[r].known = {}
  BY DEF Init, Idle, EmptyMap
<1>2. <<>> \in Seq(Nat)
  OBVIOUS
<1> QED
  BY <1>1, <1>2 DEF FindsOK, IdsOK, CallOK, Looking, PlacesOK, NothingSkipped, AnswerOK

\* The other requests know what they knew, rows are only added.
LEMMA StepFinds ==
    ASSUME FindInv, NEW r \in Requests, \A q \in Requests \ {r} : req'[q] = req[q],
           legacy \subseteq legacy', FindsOK(r)'
    PROVE  FindInv'
<1> SUFFICES ASSUME NEW q \in Requests \ {r} PROVE FindsOK(q)'
  BY DEF FindInv
<1>1. FindsOK(q) /\ req'[q] = req[q]
  BY DEF FindInv
<1> QED
  BY <1>1 DEF FindsOK, IdsOK, CallOK, Looking, PlacesOK, NothingSkipped, AnswerOK

LEMMA ReplyFinds ==
    ASSUME TypeOK, FindInv, NEW r \in Requests, Active(r), legacy' = legacy,
           NEW code, NEW result, Reply(r, code, result),
           code = "NotFound" => req[r].call.ids[1] \notin req[r].known,
           code = "OK" /\ req[r].call.method \in {"Compare", "Search"} =>
              \A id \in Range(req[r].ids) \cap req[r].known :
                  <<req[r].call.fp, LegacyRow[id]>> \in Similar => id \in DOMAIN result
    PROVE  FindInv'
<1> DEFINE changes == [code |-> code, result |-> result, missing |-> {},
                       attempt |-> 1, rows |-> EmptyMap, got |-> EmptyMap]
<1>1. Continue(r, "done", changes)
  BY DEF Reply
<1>2. /\ req'[r].pc = "done" /\ req'[r].code = code /\ req'[r].result = result
      /\ req'[r].rows = EmptyMap /\ req'[r].got = EmptyMap
      /\ req'[r].call = req[r].call /\ req'[r].ids = req[r].ids
      /\ req'[r].known = req[r].known
  BY <1>1 DEF TypeOK, Continue, Over, Fields
<1>3. \A q \in Requests \ {r} : req'[q] = req[q]
  BY <1>1, ContinueFrame DEF Fields
<1>4. FindsOK(r) /\ DOMAIN EmptyMap = {}
  BY DEF FindInv, EmptyMap
<1>5. FindsOK(r)'
  BY <1>2, <1>4 DEF FindsOK, IdsOK, CallOK, Looking, PlacesOK, NothingSkipped, AnswerOK, Active
<1> QED
  BY <1>3, <1>5, StepFinds

LEMMA ErrorFinds ==
    ASSUME TypeOK, FindInv, NEW r \in Requests, Active(r),
           NEW code, code \notin {"OK", "NotFound"}, ReplyEmpty(r, code)
    PROVE  FindInv'
<1>1. Reply(r, code, EmptyMap) /\ legacy' = legacy
  BY DEF ReplyEmpty
<1> QED
  BY <1>1, ReplyFinds

\* A handler that goes on with its lookup, with the places it has.
LEMMA LookingFinds ==
    ASSUME TypeOK, FindInv, NEW r \in Requests, Looking(r), legacy' = legacy,
           NEW pc \in {"read", "fill", "answer"}, NEW changes,
           DOMAIN changes \subseteq {"missing", "attempt", "rows", "got"},
           Continue(r, pc, changes), PlacesOK(r)', NothingSkipped(r)'
    PROVE  FindInv'
<1>1. /\ req'[r].pc = pc /\ req'[r].code = req[r].code /\ req'[r].call = req[r].call
      /\ req'[r].ids = req[r].ids
  BY DEF TypeOK, Continue, Over, Fields
<1>2. \A q \in Requests \ {r} : req'[q] = req[q]
  BY ContinueFrame DEF Fields
<1>3. IdsOK(r) /\ CallOK(r)
  BY DEF FindInv, FindsOK
<1>4. IdsOK(r)' /\ CallOK(r)' /\ AnswerOK(r)'
  BY <1>1, <1>3 DEF IdsOK, CallOK, Looking, AnswerOK
<1> QED
  BY <1>2, <1>4, StepFinds DEF FindsOK

LEMMA ArriveFinds ==
    ASSUME IInv, FindInv, NEW r \in Requests, NEW call \in Calls, Arrive(r, call)
    PROVE  FindInv'
<1>1. /\ TypeOK /\ legacy' = legacy /\ FindsOK(r)
      /\ req[r].pc = "idle" /\ req[r].ids = <<>> /\ req[r].code = "none"
  BY DEF IInv, Arrive, FindInv, FindsOK, CallOK
<1>2. DOMAIN req[r].got = {} /\ DOMAIN req[r].rows = {}
  <2>1. Range(<<>>) = {}
    BY DEF Range
  <2> QED
    BY <1>1, <2>1 DEF FindsOK, PlacesOK
<1>3. /\ call.method \in {"Insert", "Get", "Compare", "Search"}
      /\ call.limit \in Int /\ call.ids \in Seq(Nat)
      /\ call.method = "Search" => call.ids = <<>>
  BY StoreAssumption
<1>4. Len(<<>>) <= MaxResults(call.limit) /\ <<>> \in Seq(Nat)
  BY <1>3 DEF MaxResults, DefaultSearchLimit
<1>5. CASE Invalid(call)
  <2>1. Continue(r, "done", [call |-> call, code |-> "InvalidArgument"])
    BY <1>5 DEF Arrive
  <2>2. /\ req'[r].pc = "done" /\ req'[r].code = "InvalidArgument" /\ req'[r].call = call
        /\ req'[r].rows = req[r].rows /\ req'[r].got = req[r].got
        /\ req'[r].ids = <<>> /\ req'[r].known = req[r].known
    BY <1>1, <2>1 DEF TypeOK, Continue, Over, Fields
  <2>3. FindsOK(r)'
    BY <1>1, <1>2, <1>4, <2>2
    DEF FindsOK, IdsOK, CallOK, Looking, PlacesOK, NothingSkipped, AnswerOK
  <2>4. \A q \in Requests \ {r} : req'[q] = req[q]
    BY <1>1, <2>1, ContinueFrame DEF Fields
  <2> QED
    BY <1>1, <2>3, <2>4, StepFinds
<1>6. CASE ~Invalid(call)
  <2>1. Continue(r, FirstStep(call), [call |-> call, ids |-> call.ids, known |-> legacy])
    BY <1>6 DEF Arrive
  <2>2. /\ req'[r].pc = FirstStep(call) /\ req'[r].code = "none" /\ req'[r].call = call
        /\ req'[r].rows = req[r].rows /\ req'[r].got = req[r].got
        /\ req'[r].ids = call.ids /\ req'[r].known = legacy
    BY <1>1, <2>1 DEF TypeOK, Continue, Over, Fields
  <2>3. /\ FirstStep(call) \in {"insert", "index", "cache"}
        /\ FirstStep(call) = "insert" => call.method = "Insert"
        /\ FirstStep(call) = "index" => call.method = "Search"
    BY <1>3 DEF FirstStep
  <2>4. FindsOK(r)'
    BY <1>1, <1>2, <1>3, <1>4, <2>2, <2>3
    DEF FindsOK, IdsOK, CallOK, Looking, PlacesOK, NothingSkipped, AnswerOK
  <2>5. \A q \in Requests \ {r} : req'[q] = req[q]
    BY <1>1, <2>1, ContinueFrame DEF Fields
  <2> QED
    BY <1>1, <2>4, <2>5, StepFinds
<1> QED
  BY <1>5, <1>6

LEMMA InsertFinds ==
    ASSUME IInv, FindInv, NEW r \in Requests, InsertRow(r) \/ KeepInserted(r)
    PROVE  FindInv'
<1>1. /\ TypeOK /\ FindsOK(r) /\ legacy' = legacy /\ req[r].pc \in {"insert", "keep"}
      /\ req[r].call.method = "Insert" /\ Active(r)
  BY DEF IInv, FindInv, FindsOK, CallOK, InsertRow, KeepInserted, ReplyEmpty, Active
<1>2. CASE InsertRow(r)
  <2>1. CASE ReplyEmpty(r, "Internal")
    BY <1>1, <2>1, ErrorFinds
  <2>2. ASSUME NEW pc, NEW changes,
               \/ pc = "keep" /\ DOMAIN changes = {"result", "inserted"}
               \/ /\ pc = "done" /\ DOMAIN changes = {"code", "inserted"}
                  /\ changes["code"] = "Internal",
               Continue(r, pc, changes)
        PROVE  FindInv'
    <3>1. /\ req'[r].pc = pc /\ req'[r].call = req[r].call
          /\ req'[r].code = IF pc = "keep" THEN req[r].code ELSE "Internal"
          /\ req'[r].rows = req[r].rows /\ req'[r].got = req[r].got
          /\ req'[r].ids = req[r].ids /\ req'[r].known = req[r].known
      BY <1>1, <2>2 DEF TypeOK, Continue, Over, Fields
    <3>2. FindsOK(r)'
      BY <1>1, <2>2, <3>1
      DEF FindsOK, IdsOK, CallOK, Looking, PlacesOK, NothingSkipped, AnswerOK
    <3>3. \A q \in Requests \ {r} : req'[q] = req[q]
      BY <1>1, <2>2, ContinueFrame DEF Fields
    <3> QED
      BY <1>1, <3>2, <3>3, StepFinds
  <2>3. ASSUME NEW id, Continue(r, "keep", [result |-> Only(id, req[r].call.fp), inserted |-> {id}])
        PROVE  FindInv'
    BY <2>2, <2>3
  <2>4. ASSUME NEW id, Continue(r, "done", [code |-> "Internal", inserted |-> {id}])
        PROVE  FindInv'
    <3>1. PICK changes : changes = [code |-> "Internal", inserted |-> {id}]
      OBVIOUS
    <3>2. DOMAIN changes = {"code", "inserted"} /\ changes["code"] = "Internal"
      BY <3>1
    <3> QED
      BY <2>2, <2>4, <3>1, <3>2
  <2> QED
    BY <1>2, <2>1, <2>3, <2>4 DEF InsertRow
<1>3. CASE KeepInserted(r)
  BY <1>1, <1>3, ReplyFinds DEF KeepInserted
<1> QED
  BY <1>2, <1>3

LEMMA SearchIndexFinds ==
    ASSUME IInv, FindInv, NEW r \in Requests, SearchIndex(r)
    PROVE  FindInv'
<1>1. /\ TypeOK /\ FindsOK(r) /\ legacy' = legacy /\ req[r].pc = "index"
      /\ req[r].ids = <<>> /\ req[r].call \in Calls /\ Active(r)
  BY DEF IInv, FindInv, FindsOK, CallOK, SearchIndex, ReplyEmpty, Active
<1>2. Range(req[r].ids) = {}
  BY <1>1 DEF Range
<1>3. ASSUME NEW code, code # "NotFound", Reply(r, code, EmptyMap) PROVE FindInv'
  BY <1>1, <1>2, <1>3, ReplyFinds
<1>4. CASE ReplyEmpty(r, "Internal") \/ ReplyEmpty(r, "DeadlineExceeded") \/ ReplyEmpty(r, "OK")
  BY <1>3, <1>4 DEF ReplyEmpty
<1>5. CASE Reply(r, "OK", EmptyMap)
  BY <1>3, <1>5
<1>6. ASSUME NEW found \in SUBSET LegacyIds, found # {}, NEW results, NEW kept,
             results = {[id |-> id, hits |-> Hits[id]] : id \in found},
             kept = filterIndexSearchResults(results, MaxCandidateIds(req[r].call.limit)),
             Continue(r, "cache", [ids |-> [i \in DOMAIN kept |-> kept[i].id]])
      PROVE  FindInv'
  <2>1. PICK max \in Int : /\ max = MaxResults(req[r].call.limit) /\ max > 0
                           /\ MaxCandidateIds(req[r].call.limit) = max
    <3>1. req[r].call.limit \in Int
      BY <1>1, StoreAssumption
    <3>2. PICK max \in Int : max = MaxResults(req[r].call.limit) /\ max > 0
      BY <3>1 DEF MaxResults, DefaultSearchLimit
    <3>3. MaxCandidateIds(req[r].call.limit) = max
      BY <3>2 DEF MaxCandidateIds, FastModeFactor
    <3> QED
      BY <3>2, <3>3
  <2>2. \A q \in results : q.hits \in Nat /\ q.id \in Nat
    BY <1>6, StoreAssumption
  <2>3. \A q, p \in results : q.id = p.id => q = p
    BY <1>6
  <2>4. IsFiniteSet(results)
    <3> DEFINE entry == [id \in found |-> [id |-> id, hits |-> Hits[id]]]
    <3>1. IsFiniteSet(found)
      BY StoreAssumption, FS_Subset
    <3>2. entry \in Surjection(found, results)
      BY <1>6 DEF Surjection
    <3> QED
      BY <3>1, <3>2, FS_Surjection
  <2>5. results # {}
    BY <1>6
  <2>6. kept \in Seq(results) /\ Len(kept) <= max
    BY <1>6, <2>1, <2>2, <2>3, <2>4, <2>5, FilterKeepsLimit
  <2>7. PICK ids : ids = [i \in DOMAIN kept |-> kept[i].id]
    OBVIOUS
  <2>8. ids \in Seq(Nat) /\ Len(ids) = Len(kept)
    <3>1. PICK n \in Nat : n = Len(kept) /\ DOMAIN kept = 1..n
      BY <2>6
    <3>2. \A i \in 1..n : kept[i].id \in Nat
      BY <2>2, <2>6, <3>1
    <3>3. ids = [i \in 1..n |-> kept[i].id]
      BY <2>7, <3>1
    <3> QED
      BY <3>1, <3>2, <3>3
  <2>9. Continue(r, "cache", [ids |-> ids])
    BY <1>6, <2>7
  <2>10. /\ req'[r].pc = "cache" /\ req'[r].code = req[r].code /\ req'[r].call = req[r].call
         /\ req'[r].rows = req[r].rows /\ req'[r].got = req[r].got
         /\ req'[r].ids = ids /\ req'[r].known = req[r].known
    BY <1>1, <2>9 DEF TypeOK, Continue, Over, Fields
  <2>11. req[r].call.method = "Search"
    BY <1>1 DEF FindsOK, CallOK
  <2>12. DOMAIN req[r].got = {} /\ DOMAIN req[r].rows = {}
    BY <1>1, <1>2 DEF FindsOK, PlacesOK
  <2>13. FindsOK(r)'
    BY <1>1, <2>1, <2>6, <2>8, <2>10, <2>11, <2>12
    DEF FindsOK, IdsOK, CallOK, Looking, PlacesOK, NothingSkipped, AnswerOK
  <2>14. \A q \in Requests \ {r} : req'[q] = req[q]
    BY <1>1, <2>9, ContinueFrame DEF Fields
  <2> QED
    BY <1>1, <2>13, <2>14, StepFinds
<1> QED
  BY <1>4, <1>5, <1>6 DEF SearchIndex

LEMMA ReadCacheFinds ==
    ASSUME IInv, FindInv, NEW r \in Requests, ReadCache(r)
    PROVE  FindInv'
<1>1. /\ TypeOK /\ FindsOK(r) /\ legacy' = legacy /\ req[r].pc = "cache"
      /\ Looking(r) /\ Active(r)
  BY DEF IInv, FindInv, ReadCache, ReplyEmpty, Looking, Active
<1>2. CASE ReplyEmpty(r, "Internal")
  BY <1>1, <1>2, ErrorFinds
<1>3. ASSUME NEW values, NEW pc, NEW got, NEW missing,
             got = Decode(req[r].ids, values), missing = Missing(req[r].ids, values),
             pc = IF missing = {} THEN "answer" ELSE "read",
             Continue(r, pc, [got |-> got, missing |-> missing])
      PROVE  FindInv'
  <2>1. /\ req'[r].pc = pc /\ req'[r].ids = req[r].ids /\ req'[r].known = req[r].known
        /\ req'[r].rows = req[r].rows /\ req'[r].got = got /\ req'[r].missing = missing
    BY <1>1, <1>3 DEF TypeOK, Continue, Over, Fields
  <2>2. DOMAIN req[r].rows = {}
    BY <1>1 DEF FindsOK, PlacesOK
  <2>3. DOMAIN got \subseteq Range(req[r].ids)
    BY <1>3 DEF Decode, Range
  <2>4. missing = {i \in DOMAIN req[r].ids : req[r].ids[i] \notin DOMAIN got}
    BY <1>3 DEF Missing
  <2>5. PlacesOK(r)' /\ NothingSkipped(r)'
    BY <1>1, <1>3, <2>1, <2>2, <2>3, <2>4 DEF FindsOK, PlacesOK, NothingSkipped
  <2> QED
    BY <1>1, <1>3, <2>5, LookingFinds
<1>4. CASE ~ReplyEmpty(r, "Internal")
  <2>1. PICK ids, values :
            /\ ids = req[r].ids
            /\ Continue(r, IF Missing(ids, values) = {} THEN "answer" ELSE "read",
                        [got |-> Decode(ids, values), missing |-> Missing(ids, values)])
    BY <1>4 DEF ReadCache
  <2> QED
    BY <1>3, <2>1
<1> QED
  BY <1>2, <1>4

LEMMA FirstMissing ==
    ASSUME NEW S \in SUBSET Nat, S # {}
    PROVE  Min(S) \in S
<1> DEFINE R == {ss \in Nat \X Nat : ss[1] < ss[2]}
<1>1. IsWellFoundedOn(R, Nat)
  BY NatLessThanWellFounded, Zenon DEF OpToRel
<1>2. \A x, y \in Nat : <<y, x>> \in R <=> y < x
  OBVIOUS
<1> HIDE DEF R
<1>3. PICK x \in S : \A y \in S : ~(<<y, x>> \in R)
  BY <1>1, WFMin
<1>4. \A y \in S : ~(y < x)
  BY <1>2, <1>3
<1>5. \A y \in S : x <= y
  BY <1>4
<1> QED
  BY <1>5 DEF Min

LEMMA ReadRowFinds ==
    ASSUME IInv, FindInv, NEW r \in Requests, ReadRow(r)
    PROVE  FindInv'
<1>1. /\ TypeOK /\ FindsOK(r) /\ legacy' = legacy /\ req[r].pc = "read"
      /\ Looking(r) /\ Active(r)
  BY DEF IInv, FindInv, ReadRow, Looking, Active
<1>2. CASE Reply(r, "Internal", EmptyMap)
  BY <1>1, <1>2, ReplyFinds
<1>3. CASE Continue(r, "read", [attempt |-> req[r].attempt + 1])
  <2>1. /\ req'[r].pc = "read" /\ req'[r].ids = req[r].ids /\ req'[r].known = req[r].known
        /\ req'[r].rows = req[r].rows /\ req'[r].got = req[r].got
        /\ req'[r].missing = req[r].missing
    BY <1>1, <1>3 DEF TypeOK, Continue, Over, Fields
  <2>2. PlacesOK(r)' /\ NothingSkipped(r)'
    BY <1>1, <2>1 DEF FindsOK, PlacesOK, NothingSkipped
  <2> QED
    BY <1>1, <1>3, <2>2, LookingFinds
<1>4. ASSUME NEW first, NEW missing, NEW rows, NEW next,
             first = Min(req[r].missing), missing = req[r].missing \ {first},
             rows = AddRow(req[r].rows, req[r].ids[first]),
             next = CASE missing # {} -> "read"
                      [] missing = {} /\ DOMAIN rows # {} -> "fill"
                      [] OTHER -> "answer",
             Continue(r, next, [missing |-> missing, rows |-> rows, attempt |-> 1])
      PROVE  FindInv'
  <2>1. /\ next \in {"read", "fill", "answer"} /\ (next = "read" <=> missing # {})
        /\ next = "answer" => DOMAIN rows = {}
    BY <1>4
  <2>2. /\ req'[r].pc = next /\ req'[r].ids = req[r].ids /\ req'[r].known = req[r].known
        /\ req'[r].rows = rows /\ req'[r].got = req[r].got /\ req'[r].missing = missing
    BY <1>1, <1>4 DEF TypeOK, Continue, Over, Fields
  <2>3. /\ req[r].ids \in Seq(Nat) /\ req[r].missing # {}
        /\ req[r].missing \subseteq DOMAIN req[r].ids
    BY <1>1 DEF FindsOK, IdsOK, PlacesOK
  <2>4. first \in DOMAIN req[r].ids
    <3>1. req[r].missing \in SUBSET Nat
      BY <2>3
    <3> QED
      BY <1>4, <2>3, <3>1, FirstMissing
  <2>5. /\ DOMAIN req[r].rows \subseteq DOMAIN rows
        /\ DOMAIN rows \subseteq DOMAIN req[r].rows \cup {req[r].ids[first]}
        /\ req[r].ids[first] \in legacy => req[r].ids[first] \in DOMAIN rows
    BY <1>4 DEF AddRow, Set, Over, Only
  <2>6. PlacesOK(r)'
    <3>1. req[r].ids[first] \in Range(req[r].ids)
      BY <2>4 DEF Range
    <3>2. DOMAIN req[r].got \cup DOMAIN req[r].rows \subseteq Range(req[r].ids)
      BY <1>1 DEF FindsOK, PlacesOK
    <3>3. missing \subseteq DOMAIN req[r].ids
      BY <1>4, <2>3
    <3> QED
      BY <2>1, <2>2, <2>5, <3>1, <3>2, <3>3 DEF PlacesOK
  <2>7. NothingSkipped(r)'
    <3>1. /\ req[r].known \subseteq legacy
          /\ \A i \in DOMAIN req[r].ids : req[r].ids[i] \in req[r].known =>
                req[r].ids[i] \in DOMAIN req[r].got \cup DOMAIN req[r].rows \/ i \in req[r].missing
      BY <1>1 DEF FindsOK, NothingSkipped
    <3>2. ASSUME NEW i \in DOMAIN req[r].ids, req[r].ids[i] \in req[r].known
          PROVE  req[r].ids[i] \in DOMAIN req[r].got \cup DOMAIN rows \/ i \in missing
      <4>1. CASE i = first
        BY <2>5, <3>1, <3>2, <4>1
      <4>2. CASE i # first
        BY <1>4, <2>5, <3>1, <3>2, <4>2
      <4> QED
        BY <4>1, <4>2
    <3> QED
      BY <1>1, <2>1, <2>2, <3>1, <3>2 DEF NothingSkipped
  <2> QED
    BY <1>1, <1>4, <2>1, <2>6, <2>7, LookingFinds
<1> QED
  BY <1>2, <1>3, <1>4 DEF ReadRow, Retry

LEMMA FillCacheFinds ==
    ASSUME IInv, FindInv, NEW r \in Requests, FillCache(r)
    PROVE  FindInv'
<1>1. /\ TypeOK /\ FindsOK(r) /\ legacy' = legacy /\ req[r].pc = "fill" /\ Looking(r)
  BY DEF IInv, FindInv, FillCache, Looking
<1>2. PICK id, pc, rest, got :
          /\ id \in DOMAIN req[r].rows
          /\ rest = Without(req[r].rows, {id})
          /\ got = Set(req[r].got, id, req[r].rows[id])
          /\ pc = IF DOMAIN rest = {} THEN "answer" ELSE "fill"
          /\ Continue(r, pc, [rows |-> rest, got |-> got])
  BY DEF FillCache
<1>3. /\ req'[r].pc = pc /\ req'[r].ids = req[r].ids /\ req'[r].known = req[r].known
      /\ req'[r].rows = rest /\ req'[r].got = got
  BY <1>1, <1>2 DEF TypeOK, Continue, Over, Fields
<1>4. DOMAIN got \cup DOMAIN rest = DOMAIN req[r].got \cup DOMAIN req[r].rows
  <2>1. DOMAIN got = DOMAIN req[r].got \cup {id}
    BY <1>2 DEF Set, Over, Only
  <2>2. DOMAIN rest = DOMAIN req[r].rows \ {id}
    BY <1>2 DEF Without, Restrict
  <2> QED
    BY <1>2, <2>1, <2>2
<1>5. PlacesOK(r)' /\ NothingSkipped(r)'
  BY <1>1, <1>2, <1>3, <1>4 DEF FindsOK, PlacesOK, NothingSkipped
<1> QED
  BY <1>1, <1>2, <1>5, LookingFinds

\* All matches are kept: there are no more of them than ids were given.
LEMMA NoMoreThanAsked ==
    ASSUME FindInv, NEW r \in Requests, req[r].call.method = "Search", req[r].call \in Calls,
           NEW ids \in SUBSET Matching(r), Cardinality(ids) = MaxResults(req[r].call.limit)
    PROVE  ids = Matching(r)
<1>1. /\ req[r].ids \in Seq(Nat) /\ Len(req[r].ids) <= MaxResults(req[r].call.limit)
      /\ DOMAIN req[r].got \subseteq Range(req[r].ids)
  BY DEF FindInv, FindsOK, IdsOK, PlacesOK
<1>2. PICK n \in Nat : n = Len(req[r].ids) /\ DOMAIN req[r].ids = 1..n
  BY <1>1
<1>3. IsFiniteSet(1..n) /\ Cardinality(1..n) = n
  <2>1. IsFiniteSet(1..n) /\ Cardinality(1..n) = IF 1 > n THEN 0 ELSE n - 1 + 1
    BY FS_Interval
  <2> QED
    BY <2>1
<1>4. req[r].ids \in Surjection(1..n, Range(req[r].ids))
  <2>1. req[r].ids \in [1..n -> Range(req[r].ids)]
    BY <1>1, <1>2 DEF Range
  <2> QED
    BY <1>2, <2>1 DEF Surjection, Range
<1>5. IsFiniteSet(Range(req[r].ids)) /\ Cardinality(Range(req[r].ids)) <= n
  BY <1>3, <1>4, FS_Surjection
<1>6. Matching(r) \subseteq Range(req[r].ids)
  BY <1>1 DEF Matching
<1>7. IsFiniteSet(Matching(r)) /\ Cardinality(Matching(r)) <= Cardinality(Range(req[r].ids))
  BY <1>5, <1>6, FS_Subset
<1>8. /\ Cardinality(ids) <= Cardinality(Matching(r))
      /\ Cardinality(Matching(r)) = Cardinality(ids) => Matching(r) = ids
  BY <1>7, FS_Subset
<1>9. IsFiniteSet(ids)
  BY <1>7, FS_Subset
<1>10. Cardinality(Matching(r)) = Cardinality(ids)
  <2>1. PICK c \in Nat : c = Cardinality(ids)
    BY <1>9, FS_CardinalityType
  <2>2. PICK m \in Nat : m = Cardinality(Matching(r))
    BY <1>7, FS_CardinalityType
  <2>3. PICK k \in Nat : k = Cardinality(Range(req[r].ids))
    BY <1>5, FS_CardinalityType
  <2>4. n <= c /\ k <= n /\ m <= k /\ c <= m
    BY <1>1, <1>2, <1>5, <1>7, <1>8, <2>1, <2>2, <2>3
  <2> QED
    BY <2>1, <2>2, <2>4
<1> QED
  BY <1>8, <1>10

LEMMA AnswerFinds ==
    ASSUME IInv, FindInv, NEW r \in Requests, Answer(r)
    PROVE  FindInv'
<1>1. /\ TypeOK /\ FindsOK(r) /\ legacy' = legacy /\ req[r].pc = "answer"
      /\ Looking(r) /\ Active(r) /\ IsStored(req[r].got) /\ req[r].call \in Calls
  BY DEF IInv, FindInv, FindsOK, CallOK, Answer, Looking, Active, HoldsStored
<1>2. \A id \in Range(req[r].ids) \cap req[r].known : id \in DOMAIN req[r].got
  <2>1. DOMAIN req[r].rows = {}
    BY <1>1 DEF FindsOK, PlacesOK
  <2>2. \A i \in DOMAIN req[r].ids : req[r].ids[i] \in req[r].known =>
            req[r].ids[i] \in DOMAIN req[r].got
    BY <1>1, <2>1 DEF FindsOK, NothingSkipped
  <2> QED
    BY <2>2 DEF Range
<1>3. CASE AnswerGet(r)
  <2>1. /\ req[r].call.method = "Get" /\ req[r].ids = req[r].call.ids
        /\ req[r].call.ids \in Seq(Nat) /\ Len(req[r].call.ids) = 1
    BY <1>1, <1>3, StoreAssumption DEF AnswerGet, FindsOK, CallOK
  <2>2. PICK id : id = req[r].call.ids[1]
    OBVIOUS
  <2>3. id \in Range(req[r].ids)
    BY <2>1, <2>2 DEF Range
  <2>4. CASE id \in DOMAIN req[r].got
    <3>1. Reply(r, "OK", Only(id, req[r].got[id]))
      BY <1>3, <2>2, <2>4 DEF AnswerGet
    <3> QED
      BY <1>1, <2>1, <3>1, ReplyFinds
  <2>5. CASE id \notin DOMAIN req[r].got
    <3>1. Reply(r, "NotFound", EmptyMap)
      BY <1>3, <2>2, <2>5 DEF AnswerGet
    <3>2. req[r].call.ids[1] \notin req[r].known
      BY <1>2, <2>2, <2>3, <2>5
    <3> QED
      BY <1>1, <3>1, <3>2, ReplyFinds
  <2> QED
    BY <2>4, <2>5
<1>4. CASE AnswerMatches(r)
  <2>1. CASE Reply(r, "Canceled", EmptyMap)
    BY <1>1, <2>1, ReplyFinds
  <2>2. ASSUME NEW ids \in SUBSET Matching(r),
               \/ ids = Matching(r)
               \/ /\ req[r].call.method = "Search"
                  /\ Cardinality(ids) = MaxResults(req[r].call.limit),
               Reply(r, "OK", Restrict(req[r].got, ids))
        PROVE  FindInv'
    <3>1. ids = Matching(r)
      BY <1>1, <2>2, NoMoreThanAsked
    <3>2. DOMAIN Restrict(req[r].got, ids) = Matching(r)
      BY <3>1 DEF Restrict
    <3>3. ASSUME NEW id \in Range(req[r].ids) \cap req[r].known,
                 <<req[r].call.fp, LegacyRow[id]>> \in Similar
          PROVE  id \in Matching(r)
      <4>1. id \in LegacyIds /\ id \in DOMAIN req[r].got
        BY <1>1, <1>2, <3>3 DEF FindsOK, NothingSkipped, TypeOK
      <4>2. req[r].got[id] = LegacyRow[id]
        BY <1>1, <4>1 DEF IsStored, Stored
      <4> QED
        BY <3>3, <4>1, <4>2 DEF Matching
    <3> QED
      BY <1>1, <2>2, <3>2, <3>3, ReplyFinds
  <2> QED
    BY <1>4, <2>1, <2>2 DEF AnswerMatches
<1> QED
  BY <1>3, <1>4 DEF Answer

LEMMA AroundFinds ==
    ASSUME IInv, FindInv,
           Expire \/ Import \/ UNCHANGED vars \/ \E r \in Requests : Leave(r) \/ EndContext(r)
    PROVE  FindInv'
<1>1. TypeOK
  BY DEF IInv
<1>2. CASE Expire \/ Import \/ UNCHANGED vars
  <2>1. req' = req /\ legacy \subseteq legacy'
    BY <1>2 DEF Expire, Import, vars
  <2>2. ASSUME NEW r \in Requests PROVE FindsOK(r)'
    <3>1. FindsOK(r)
      BY DEF FindInv
    <3> QED
      BY <2>1, <3>1 DEF FindsOK, IdsOK, CallOK, Looking, PlacesOK, NothingSkipped, AnswerOK
  <2> QED
    BY <2>2 DEF FindInv
<1>3. ASSUME NEW r \in Requests, Leave(r) PROVE FindInv'
  <2>1. /\ legacy' = legacy /\ req'[r] = Idle
        /\ \A q \in Requests \ {r} : req'[q] = req[q]
    BY <1>1, <1>3 DEF Leave, TypeOK
  <2>2. /\ Idle.pc = "idle" /\ Idle.ids = <<>> /\ Idle.call.method = "none"
        /\ DOMAIN Idle.got = {} /\ DOMAIN Idle.rows = {} /\ Idle.code = "none"
        /\ Idle.known = {}
    BY DEF Idle, EmptyMap
  <2>3. <<>> \in Seq(Nat)
    OBVIOUS
  <2>4. FindsOK(r)'
    BY <2>1, <2>2, <2>3
    DEF FindsOK, IdsOK, CallOK, Looking, PlacesOK, NothingSkipped, AnswerOK
  <2> QED
    BY <2>1, <2>4, StepFinds
<1>4. ASSUME NEW r \in Requests, EndContext(r) PROVE FindInv'
  <2>1. legacy' = legacy /\ \E how : req' = [req EXCEPT ![r].ctx = how]
    BY <1>4 DEF EndContext
  <2>2. /\ \A q \in Requests \ {r} : req'[q] = req[q]
        /\ req'[r].pc = req[r].pc /\ req'[r].ids = req[r].ids /\ req'[r].call = req[r].call
        /\ req'[r].got = req[r].got /\ req'[r].rows = req[r].rows
        /\ req'[r].missing = req[r].missing /\ req'[r].code = req[r].code
        /\ req'[r].known = req[r].known /\ req'[r].result = req[r].result
    BY <1>1, <2>1 DEF TypeOK, Fields
  <2>3. FindsOK(r)
    BY DEF FindInv
  <2>4. FindsOK(r)'
    BY <2>1, <2>2, <2>3
    DEF FindsOK, IdsOK, CallOK, Looking, PlacesOK, NothingSkipped, AnswerOK
  <2> QED
    BY <2>1, <2>2, <2>4, StepFinds
<1> QED
  BY <1>2, <1>3, <1>4

LEMMA FindNext == IInv /\ FindInv /\ [Next]_vars => FindInv'
<1> SUFFICES ASSUME IInv, FindInv, [Next]_vars PROVE FindInv'
  OBVIOUS
<1>1. ASSUME NEW r \in Requests, NEW call \in Calls, Arrive(r, call) PROVE FindInv'
  BY <1>1, ArriveFinds
<1>2. ASSUME NEW r \in Requests, Step(r) PROVE FindInv'
  <2>1. CASE InsertRow(r) \/ KeepInserted(r)
    BY <2>1, InsertFinds
  <2>2. CASE SearchIndex(r)
    BY <2>2, SearchIndexFinds
  <2>3. CASE ReadCache(r)
    BY <2>3, ReadCacheFinds
  <2>4. CASE ReadRow(r)
    BY <2>4, ReadRowFinds
  <2>5. CASE FillCache(r)
    BY <2>5, FillCacheFinds
  <2>6. CASE Answer(r)
    BY <2>6, AnswerFinds
  <2> QED
    BY <1>2, <2>1, <2>2, <2>3, <2>4, <2>5, <2>6 DEF Step
<1>3. CASE Expire \/ Import \/ UNCHANGED vars \/ \E r \in Requests : Leave(r) \/ EndContext(r)
  BY <1>3, AroundFinds
<1> QED
  BY <1>1, <1>2, <1>3 DEF Next

LEMMA FindHolds == Spec => []FindInv
<1>1. Init => FindInv
  BY FindInit
<1>2. IInv /\ FindInv /\ [Next]_vars => FindInv'
  BY FindNext
<1> QED
  BY <1>1, <1>2, InvHolds, PTL DEF Spec

\* A key of the cache without an answer and a lost connection are misses, retries
\* or errors: getFingerprints does not return without a row that was there, and
\* Get answers NotFound for no other reason than that there was none.
THEOREM NotFoundMeansAbsent == Spec => []NotFoundIsAbsent
<1>1. FindInv => NotFoundIsAbsent
  BY DEF FindInv, FindsOK, AnswerOK, NotFoundIsAbsent
<1> QED
  BY <1>1, FindHolds, PTL

\* Search asks the index for maxCandidateIds results, which filterIndexSearchResults
\* keeps to and which are no more than maxResults: cutting the matches to
\* maxResults, in whatever order the map gave them, loses none.
THEOREM MatchesAreKept == Spec => []NoMatchIsLost
<1>1. FindInv => NoMatchIsLost
  BY DEF FindInv, FindsOK, AnswerOK, NoMatchIsLost
<1> QED
  BY <1>1, FindHolds, PTL

=============================================================================
