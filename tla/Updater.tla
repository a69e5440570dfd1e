------------------------------- MODULE Updater -------------------------------
(***************************************************************************)
(* The updater process (pkg/fpindex/updater.go), which copies new rows of  *)
(* the fingerprint table into the index: ask the index for its highest     *)
(* document id, fetch the next rows in the order of their ids, insert them *)
(* in one transaction, sleep, start again.  It keeps nothing between two   *)
(* rounds but its connection; how long it sleeps is left out.              *)
(*                                                                         *)
(* The database and the transactions that add rows to it are external.     *)
(***************************************************************************)
EXTENDS IndexClient

CONSTANTS
    MaxId,      \* bound on the ids the sequence of the table hands out
    BatchSize,  \* UpdateBatchSize
    InOrder,    \* TRUE: transactions commit in the order of their ids
    Proc        \* the goroutine of RunUpdater

ASSUME UpdaterAssumption ==
    /\ MaxId \in Nat
    /\ BatchSize \in Nat \ {0}
    /\ InOrder \in BOOLEAN
    /\ Users = {Proc}
    /\ Docs = 1..MaxId

VARIABLES
    rows,       \* ids of the committed rows of the table fingerprint
    uncommitted,\* ids handed out to transactions that are still running
    nextId,     \* fingerprint_id_seq
    pc,         \* where RunUpdater stands
    lastID      \* the highest id in the index, as this round read it

dbVars == <<rows, uncommitted, nextId>>
vars == <<clientVars, dbVars, pc, lastID>>

Highest(S) == IF S = {} THEN 0 ELSE CHOOSE i \in S : \A j \in S : j <= i

-----------------------------------------------------------------------------
(* The database.  An id is taken from the sequence before the transaction  *)
(* that inserts the row commits; the transaction may also be rolled back.  *)

TakeId ==
    /\ nextId <= MaxId
    /\ nextId' = nextId + 1
    /\ uncommitted' = uncommitted \cup {nextId}
    /\ UNCHANGED rows

CommitRow(i) ==
    /\ i \in uncommitted
    /\ InOrder => \A j \in uncommitted : i <= j
    /\ uncommitted' = uncommitted \ {i}
    /\ rows' = rows \cup {i}
    /\ UNCHANGED nextId

AbortRow(i) ==
    /\ i \in uncommitted
    /\ uncommitted' = uncommitted \ {i}
    /\ UNCHANGED <<rows, nextId>>

Database ==
    /\ \/ TakeId
       \/ \E i \in uncommitted : CommitRow(i) \/ AbortRow(i)
    /\ UNCHANGED <<clientVars, pc, lastID>>

\* SELECT ... WHERE id > lastID ORDER BY id LIMIT BatchSize.  The loop over the
\* rows never asks rows.Err(): a result set cut short by a lost connection is
\* returned as if it were complete, so any number of the first rows may come.
Matching(id) == {i \in rows : i > id}

\* Faulty variant: without ORDER BY.
NextFingerprintsUnordered(id) ==
    {b \in UNION {[1..n -> Matching(id)] : n \in 0..BatchSize} :
        \A i, j \in DOMAIN b : b[i] = b[j] => i = j}

NextFingerprints(id) ==
    {b \in UNION {[1..n -> Matching(id)] : n \in 0..BatchSize} :
        \A i \in DOMAIN b :
            \A r \in Matching(id) : r < b[i] <=> \E j \in 1..(i - 1) : b[j] = r}

-----------------------------------------------------------------------------
(* RunUpdater.                                                             *)

\* A new round starts with a new context of 60 seconds.
NewRound(k) ==
    /\ pc' = "lastID"
    /\ Invoke(Proc, k, "GetAttribute", <<>>)
    /\ deadline' = [deadline EXCEPT ![Proc] = "ahead"]
    /\ ctxDone' = [ctxDone EXCEPT ![Proc] = FALSE]

Connect(k) ==
    /\ pc = "top"
    /\ at[Proc] = NoConn
    /\ Open(k)
    /\ at' = [at EXCEPT ![Proc] = k]
    /\ NewRound(k)
    /\ UNCHANGED <<sockDl, wire, replies, session, index, answer, got, dbVars, lastID>>

\* log.Fatal: the process exits.
ConnectFails ==
    /\ pc = "top"
    /\ at[Proc] = NoConn
    /\ pc' = "exited"
    /\ UNCHANGED <<clientVars, dbVars, lastID>>

Reconnect ==
    LET k == at[Proc] IN
    /\ pc = "top"
    /\ k # NoConn
    /\ ~IsOK(client[k])
    /\ Close(k)
    /\ at' = [at EXCEPT ![Proc] = NoConn]
    /\ UNCHANGED <<sockDl, link, wire, session, index, answer, methodVars, ctxVars,
                   dbVars, pc, lastID>>

\* Faulty variant: the connection is used whatever became of it.
RoundUnchecked ==
    LET k == at[Proc] IN
    /\ pc = "top"
    /\ k # NoConn
    /\ NewRound(k)
    /\ UNCHANGED <<client, sockDl, netVars, at, got, dbVars, lastID>>

Round ==
    LET k == at[Proc] IN
    /\ pc = "top"
    /\ k # NoConn
    /\ IsOK(client[k])
    /\ NewRound(k)
    /\ UNCHANGED <<client, sockDl, netVars, at, got, dbVars, lastID>>

\* The round is over, done or failed: back to the top of the loop.  Its context
\* and lastID are not used again.
Forget ==
    /\ deadline' = [deadline EXCEPT ![Proc] = "none"]
    /\ ctxDone' = [ctxDone EXCEPT ![Proc] = FALSE]
    /\ lastID' = 0
    /\ got' = [got EXCEPT ![Proc] = NoAnswer]

Again ==
    /\ pc' = "top"
    /\ Leave(Proc)
    /\ Forget

\* GetLastFingerprintID: max_document_id, or 0 when the attribute is empty.
GetLastFingerprintID ==
    /\ pc = "lastID"
    /\ stage[Proc] = "returned"
    /\ \/ /\ outcome[Proc] = "ok"
          /\ lastID' = Highest(got[Proc])
          /\ pc' = "fetch"
          /\ Leave(Proc)
          /\ UNCHANGED <<got, ctxVars>>
       \/ /\ outcome[Proc] = "error"
          /\ Again
    /\ UNCHANGED <<client, sockDl, netVars, at, dbVars>>

GetNextFingerprints ==
    /\ pc = "fetch"
    /\ \E batch \in NextFingerprints(lastID) :
         /\ pc' = "insert"
         /\ Invoke(Proc, at[Proc], "Insert", batch)
    /\ UNCHANGED <<client, sockDl, netVars, at, got, ctxVars, dbVars, lastID>>

FetchFails ==
    /\ pc = "fetch"
    /\ Again
    /\ UNCHANGED <<client, sockDl, netVars, at, dbVars>>

InsertReturns ==
    /\ pc = "insert"
    /\ stage[Proc] = "returned"
    /\ Again
    /\ UNCHANGED <<client, sockDl, netVars, at, dbVars>>

\* The process is killed at any point; the kernel closes its connection and
\* what it has written may still be served.  It starts again with nothing.
Crash ==
    LET k == at[Proc] IN
    /\ pc # "exited"
    /\ pc' = "exited"
    /\ \/ k # NoConn /\ Close(k)
       \/ k = NoConn /\ UNCHANGED <<client, replies>>
    /\ at' = [at EXCEPT ![Proc] = NoConn]
    /\ stage' = [stage EXCEPT ![Proc] = "idle"]
    /\ req' = [req EXCEPT ![Proc] = "none"]
    /\ todo' = [todo EXCEPT ![Proc] = <<>>]
    /\ outcome' = [outcome EXCEPT ![Proc] = "none"]
    /\ Forget
    /\ UNCHANGED <<sockDl, link, wire, session, index, answer, dbVars>>

Start ==
    /\ pc = "exited"
    /\ pc' = "top"
    /\ UNCHANGED <<clientVars, dbVars, lastID>>

UpdaterStep ==
    \/ \E k \in Conns : Connect(k)
    \/ Reconnect \/ Round \/ GetLastFingerprintID \/ GetNextFingerprints \/ InsertReturns
    \/ ClientStep(Proc) /\ UNCHANGED <<dbVars, pc, lastID>>

Server(k) == ServerStep(k) /\ UNCHANGED <<dbVars, pc, lastID>>

Time == (DeadlinePasses(Proc) \/ TimerFires(Proc)) /\ UNCHANGED <<dbVars, pc, lastID>>

Init ==
    /\ ClientInit
    /\ rows = {}
    /\ uncommitted = {}
    /\ nextId = 1
    /\ pc = "top"
    /\ lastID = 0

Next ==
    \/ UpdaterStep \/ ConnectFails \/ FetchFails \/ Crash \/ Start
    \/ Database \/ Time
    \/ \E k \in Conns : Server(k)

Spec == Init /\ [][Next]_vars

\* The updater runs and the server serves.  Deadlines owe nothing: a round need
\* not take 60 seconds.
FairSpec ==
    /\ Spec
    /\ WF_vars(UpdaterStep)
    /\ \A k \in Conns : WF_vars((Serve(k) \/ HangUp(k)) /\ UNCHANGED <<dbVars, pc, lastID>>)

-----------------------------------------------------------------------------
\* Every variable has its type.
TypeOK ==
    /\ ClientTypeOK
    /\ rows \subseteq Docs
    /\ uncommitted \subseteq Docs
    /\ nextId \in 1..(MaxId + 1)
    /\ pc \in {"top", "lastID", "fetch", "insert", "exited"}
    /\ lastID \in 0..MaxId

\* The updater never looks below the highest id in the index again (WHERE id >
\* lastID), so no committed row may lie below it without being indexed:
\* truncated batches, failed commits, commits applied after the connection was
\* given up and crashes included.  stream.go:10-12 says of reading the highest
\* id: "Since the fingerprint database is append-only, you can use this to
\* synchronize an externally replicated database."
NothingSkipped == \A i \in rows : i <= Highest(index) => i \in index

\* The connection the updater keeps for its next round IsOK, but the server has
\* a transaction open on it and will refuse every later begin: an Insert gave up
\* without a rollback (see IndexClientPool!NoBeginInsideTx).
Wedged ==
    LET k == at[Proc] IN
    pc = "top" /\ k # NoConn /\ IsOK(client[k]) /\ session[k].open

\* Nothing fails any more: the server does what it can do, connections stay up,
\* no round takes 60 seconds, the database answers in full, nothing crashes.
Calm ==
    /\ pc' = "exited" => pc = "exited"
    /\ deadline'[Proc] = "passed" => deadline[Proc] = "passed"
    /\ \A k \in Conns : link'[k] = "down" => link[k] = "down"
    /\ \A k \in Conns : Len(replies'[k]) > Len(replies[k]) =>
          \/ replies'[k][Len(replies'[k])].status = "OK"
          \/ ~Accepts(session[k], Head(wire[k]).kind)
    /\ ~FetchFails
    /\ (pc = "fetch" /\ pc' = "insert" /\ Matching(lastID) # {}) => todo'[Proc] # <<>>

\* Once nothing fails any more every committed row gets into the index, unless
\* the process has exited or has kept a connection with an open transaction.
CatchesUp ==
    <>[][Calm]_vars =>
        \A i \in Docs : [](i \in rows => <>(i \in index \/ pc = "exited" \/ Wedged))

=============================================================================
