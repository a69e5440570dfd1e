--------------------------- MODULE IndexClientPool ---------------------------
(***************************************************************************)
(* The pool of index connections behind the gRPC proxy                     *)
(* (pkg/fpindex/client_pool.go and proxy.go).  A call is one Search or     *)
(* Insert request the proxy serves: it borrows a connection, runs the      *)
(* IndexClient method on it and returns the connection.  The evictor is    *)
(* the goroutine of the pool that tests idle connections.                  *)
(*                                                                         *)
(* The pool itself is the library go-commons-pool: what Borrow, Return and *)
(* Evict do around the factory's callbacks is external.                    *)
(***************************************************************************)
EXTENDS IndexClient

CONSTANTS
    Calls,      \* the requests the proxy serves, each once
    Evictor,
    MaxTotal,   \* the limit given to NewIndexClientPool
    Method,     \* per call: "Search" or "Insert"
    Batch       \* per call: the fingerprints it inserts, if it is an Insert

ASSUME PoolAssumption ==
    /\ Evictor \notin Calls
    /\ Users = Calls \cup {Evictor}
    /\ MaxTotal \in Nat \ {0}
    /\ Method \in [Calls -> {"Search", "Insert"}]
    /\ Batch \in [Calls -> Seq(Docs)]

VARIABLES
    idle,       \* the idle connections of the pool
    phase,      \* per call: where it stands in Pool.Search or Pool.Insert
    result      \* per call: what the proxy has answered

poolVars == <<phase, result>>
vars == <<clientVars, idle, poolVars>>

OpenConns == {k \in Conns : IsOpen(k)}

BatchDocs(c) == {Batch[c][i] : i \in DOMAIN Batch[c]}

-----------------------------------------------------------------------------
(* A request arrives.  Its context has a deadline when the client sent one *)
(* or RequestTimeout > 0.                                                  *)

Arrive(c) ==
    /\ phase[c] = "new"
    /\ phase' = [phase EXCEPT ![c] = "borrow"]
    /\ \E d \in {"none", "ahead"} : deadline' = [deadline EXCEPT ![c] = d]
    /\ UNCHANGED <<client, sockDl, netVars, at, methodVars, ctxDone, idle, result>>

\* The handler returns; its context is cancelled (the deferred cancel, gRPC).
Finish(c, r) ==
    /\ phase' = [phase EXCEPT ![c] = "done"]
    /\ result' = [result EXCEPT ![c] = r]
    /\ ctxDone' = [ctxDone EXCEPT ![c] = TRUE]
    /\ UNCHANGED deadline

\* The validated connection is handed to the call, which runs its method on it.
Run(c, k) ==
    /\ phase' = [phase EXCEPT ![c] = "run"]
    /\ Invoke(c, k, Method[c], Batch[c])
    /\ UNCHANGED result

\* ActivateObject and ValidateObject of an idle connection, up to the ping.
\* Its age and the time since it was last borrowed are free: an old connection
\* is refused, one not borrowed for PingInterval has to answer a ping first.
Activated(k) == IsOK(client[k])

BorrowRefused(c, k) ==
    /\ phase[c] = "borrow"
    /\ k \in idle
    /\ idle' = idle \ {k}
    /\ Close(k)
    /\ UNCHANGED <<sockDl, link, wire, session, index, answer, at, methodVars,
                   ctxVars, poolVars>>

BorrowPinged(c, k) ==
    /\ phase[c] = "borrow"
    /\ k \in idle
    /\ Activated(k)
    /\ idle' = idle \ {k}
    /\ at' = [at EXCEPT ![c] = k]
    /\ phase' = [phase EXCEPT ![c] = "ping"]
    /\ Invoke(c, k, "Ping", <<>>)
    /\ UNCHANGED <<client, sockDl, netVars, got, ctxVars, result>>

BorrowIdle(c, k) ==
    /\ phase[c] = "borrow"
    /\ k \in idle
    /\ Activated(k)
    /\ idle' = idle \ {k}
    /\ at' = [at EXCEPT ![c] = k]
    /\ Run(c, k)
    /\ UNCHANGED <<client, sockDl, netVars, got, ctxVars>>

\* The ping has returned: the connection is used, or destroyed and the
\* borrower tries again.
PingReturns(c) ==
    LET k == at[c] IN
    /\ phase[c] = "ping"
    /\ stage[c] = "returned"
    /\ \/ /\ outcome[c] = "ok"
          /\ Run(c, k)
          /\ UNCHANGED <<client, replies, at>>
       \/ /\ outcome[c] = "error"
          /\ Close(k)
          /\ at' = [at EXCEPT ![c] = NoConn]
          /\ phase' = [phase EXCEPT ![c] = "borrow"]
          /\ Leave(c)
          /\ UNCHANGED result
    /\ UNCHANGED <<sockDl, link, wire, session, index, answer, got, ctxVars, idle>>

\* MakeObject: no connection is idle and the pool is below its limit.
CanCreate == idle = {} /\ Cardinality(OpenConns) < MaxTotal

Create(c, k) ==
    /\ phase[c] = "borrow"
    /\ CanCreate
    /\ ~ctxDone[c]
    /\ Open(k)
    /\ at' = [at EXCEPT ![c] = k]
    /\ Run(c, k)
    /\ UNCHANGED <<sockDl, wire, replies, session, index, answer, got, ctxVars, idle>>

CreateFails(c) ==
    /\ phase[c] = "borrow"
    /\ CanCreate
    /\ Finish(c, "error")
    /\ UNCHANGED <<client, sockDl, netVars, at, methodVars, idle>>

\* Every connection is lent: the borrower waits for one, or for its context.
BorrowInterrupted(c) ==
    /\ phase[c] = "borrow"
    /\ idle = {}
    /\ ~CanCreate
    /\ ctxDone[c]
    /\ Finish(c, "error")
    /\ UNCHANGED <<client, sockDl, netVars, at, methodVars, idle>>

\* Faulty variants: every connection goes back; a bad one is dropped unclosed.
PassivateUnchecked(k) ==
    /\ idle' = idle \cup {k}
    /\ UNCHANGED <<client, replies>>

PassivateLeaking(k) ==
    /\ idle' = IF IsOK(client[k]) THEN idle \cup {k} ELSE idle
    /\ UNCHANGED <<client, replies>>

\* PassivateObject: only a client that IsOK goes back to the idle connections,
\* any other is destroyed.
Passivate(k) ==
    \/ /\ IsOK(client[k])
       /\ idle' = idle \cup {k}
       /\ UNCHANGED <<client, replies>>
    \/ /\ ~IsOK(client[k])
       /\ Close(k)
       /\ UNCHANGED idle

\* The deferred ReturnObject, and the answer of the proxy.
ReturnObject(c) ==
    /\ phase[c] = "run"
    /\ stage[c] = "returned"
    /\ Passivate(at[c])
    /\ at' = [at EXCEPT ![c] = NoConn]
    /\ Leave(c)
    /\ Finish(c, outcome[c])
    /\ UNCHANGED <<sockDl, link, wire, session, index, answer, got>>

-----------------------------------------------------------------------------
(* The evictor takes an idle connection away from the borrowers, destroys  *)
(* it when it is too old or idle for too long, or pings it with a context  *)
(* that never ends.                                                        *)

Evict(k) ==
    /\ at[Evictor] = NoConn
    /\ k \in idle
    /\ idle' = idle \ {k}
    /\ Close(k)
    /\ UNCHANGED <<sockDl, link, wire, session, index, answer, at, methodVars,
                   ctxVars, poolVars>>

EvictorPing(k) ==
    /\ at[Evictor] = NoConn
    /\ k \in idle
    /\ Activated(k)
    /\ idle' = idle \ {k}
    /\ at' = [at EXCEPT ![Evictor] = k]
    /\ Invoke(Evictor, k, "Ping", <<>>)
    /\ UNCHANGED <<client, sockDl, netVars, got, ctxVars, poolVars>>

EvictorPingReturns ==
    LET k == at[Evictor] IN
    /\ stage[Evictor] = "returned"
    /\ \/ outcome[Evictor] = "ok" /\ Passivate(k)
       \/ outcome[Evictor] = "error" /\ Close(k) /\ UNCHANGED idle
    /\ at' = [at EXCEPT ![Evictor] = NoConn]
    /\ Leave(Evictor)
    /\ UNCHANGED <<sockDl, link, wire, session, index, answer, got, ctxVars, poolVars>>

-----------------------------------------------------------------------------
Init ==
    /\ ClientInit
    /\ idle = {}
    /\ phase = [c \in Calls |-> "new"]
    /\ result = [c \in Calls |-> "none"]

\* A gRPC request can be cancelled while the proxy serves it.
Cancel(c) ==
    /\ phase[c] \notin {"new", "done"}
    /\ ContextEnds(c)

CallStep(c) ==
    \/ PingReturns(c) \/ CreateFails(c) \/ BorrowInterrupted(c) \/ ReturnObject(c)
    \/ \E k \in Conns :
         BorrowRefused(c, k) \/ BorrowPinged(c, k) \/ BorrowIdle(c, k) \/ Create(c, k)

EvictorStep ==
    EvictorPingReturns \/ \E k \in Conns : Evict(k) \/ EvictorPing(k)

\* Steps of the client, the server, the network and the clock.
Environment ==
    /\ \/ \E u \in Users : ClientStep(u) \/ DeadlinePasses(u) \/ TimerFires(u)
       \/ \E c \in Calls : Cancel(c)
       \/ \E k \in Conns : ServerStep(k)
    /\ UNCHANGED <<idle, poolVars>>

Next ==
    \/ \E c \in Calls : Arrive(c) \/ CallStep(c)
    \/ EvictorStep
    \/ Environment

Spec == Init /\ [][Next]_vars

\* One step of the goroutine that serves a call; it never stops by itself.
CallMoves(c) ==
    \/ CallStep(c)
    \/ ClientStep(c) /\ UNCHANGED <<idle, poolVars>>

EvictorMoves ==
    \/ EvictorPingReturns
    \/ ClientStep(Evictor) /\ UNCHANGED <<idle, poolVars>>

TimePasses(c) == (DeadlinePasses(c) \/ TimerFires(c)) /\ UNCHANGED <<idle, poolVars>>

\* The goroutines run and time passes; the server and the network owe nothing.
FairSpec == Spec /\ \A c \in Calls : WF_vars(CallMoves(c)) /\ WF_vars(TimePasses(c))

\* The server serves what it has received, the evictor finishes its pings, and
\* a waiting borrower gets a connection if connections keep coming back: the
\* evictor holds one for the time of a ping, once in ten seconds.
ServerAnswers ==
    /\ \A k \in Conns : WF_vars((Serve(k) \/ HangUp(k)) /\ UNCHANGED <<idle, poolVars>>)
    /\ WF_vars(EvictorMoves)
    /\ \A c \in Calls : SF_vars(CallStep(c))

-----------------------------------------------------------------------------
\* Every variable has its type.
TypeOK ==
    /\ ClientTypeOK
    /\ idle \in SUBSET Conns
    /\ phase \in [Calls -> {"new", "borrow", "ping", "run", "done"}]
    /\ result \in [Calls -> {"none", "ok", "error"}]

\* A connection goes back to the pool (PassivateObject) only when nothing is
\* left on it of the call that used it: no request the server still has to
\* serve, no reply nobody read, no error.
IdleIsClean ==
    \A k \in idle : IsOK(client[k]) /\ wire[k] = <<>> /\ replies[k] = <<>>

\* What sendRequest is about to read is the reply to the request it wrote, and
\* nothing else: abandoned requests of earlier borrowers never shift replies.
OwnReply ==
    \A u \in Users : stage[u] \in {"wrote", "read"} =>
        LET k == at[u] IN
        /\ Len(wire[k]) + Len(replies[k]) <= 1
        /\ \A i \in DOMAIN wire[k] : wire[k][i].by = u /\ wire[k][i].kind = req[u]
        /\ \A i \in DOMAIN replies[k] :
              replies[k][i].by = u /\ replies[k][i].kind = req[u]

\* While a call waits for its reply the socket carries the deadline of that
\* call's context, never the one of an earlier borrower (c.hasDeadline).
DeadlineIsTheCallers ==
    \A u \in Users : stage[u] \in {"wrote", "read"} => sockDl[at[u]] = DeadlineOf(u)

\* Whatever fails in between, the proxy loses no connection and lends none
\* twice: an open connection is idle or has exactly one user.
OneOwner ==
    \A k \in Conns :
        /\ \A u, v \in Users : at[u] = k /\ at[v] = k => u = v
        /\ IsOpen(k) <=> k \in idle \/ \E u \in Users : at[u] = k
        /\ k \in idle => \A u \in Users : at[u] # k

\* A batch is in the index as a whole or not at all: requests of different
\* calls never end up in one transaction.
AllOrNothing ==
    \A c \in Calls : BatchDocs(c) \subseteq index \/ BatchDocs(c) \cap index = {}

\* The proxy keeps the promises of IndexService.
Service == INSTANCE IndexService WITH
    status <- [c \in Calls |-> IF phase[c] = "new" THEN "new"
                               ELSE IF phase[c] = "done" THEN result[c] ELSE "active"],
    seen   <- [c \in Calls |-> answer[c]],
    found  <- [c \in Calls |-> IF result[c] = "ok" THEN got[c] ELSE NoAnswer]

\* Every step of the pool, of its connections and of the server behind them is
\* a step of the service or changes nothing a client of the proxy can see.
ImplementsService == Service!Spec

\* ErrTxActive, "another transaction is still active" (client.go:22): BeginTx
\* does not send "begin" on a connection whose transaction is still open.
NoBeginInsideTx ==
    \A k \in Conns : session[k].open =>
        \A i \in DOMAIN wire[k] : wire[k][i].kind # "begin"

\* A call whose context has a deadline returns, even if the server, the network
\* or every other borrower hangs forever.
DeadlinedCallReturns ==
    \A c \in Calls : (deadline[c] # "none") ~> (phase[c] = "done")

\* With a server that answers, every call returns, with or without a deadline,
\* although the pool is at its limit and connections fail: none is ever lost.
EveryCallReturns ==
    ServerAnswers => \A c \in Calls : (phase[c] # "new") ~> (phase[c] = "done")

=============================================================================
