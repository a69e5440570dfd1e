----------------------------- MODULE IndexClient -----------------------------
(***************************************************************************)
(* The line protocol between this repository and the fingerprint index     *)
(* (pkg/fpindex/client.go), seen from both ends of its TCP connections.    *)
(*                                                                         *)
(* A user is a goroutine that runs one method of an IndexClient at a time. *)
(* sendRequest is three steps, because other goroutines, the network, the  *)
(* context and the server run between them:                                *)
(*    SendRequest     install the deadline, look at the context, write     *)
(*    CheckContext    look at the context again, before the reply is read  *)
(*    ReadReply ...   read one line, count it, go on with the method       *)
(* The index server, the network and the clock are external: they are      *)
(* modelled from the requests the client sends and the replies it accepts. *)
(***************************************************************************)
EXTENDS Naturals, Sequences, FiniteSets

CONSTANTS
    Users,      \* goroutines that use a connection
    NoUser,     \* "no deadline is installed on the socket"
    Conns,      \* slots for connections; a slot is reused once both ends are gone
    NoConn,     \* the user holds no connection
    Docs,       \* fingerprints that can be inserted
    NoAnswer    \* the server has not served a query of the user

ASSUME ClientAssumption ==
    /\ NoUser \notin Users
    /\ NoConn \notin Conns
    /\ \A docs \in SUBSET Docs : docs # NoAnswer

VARIABLES
    client,     \* per connection: the fields of IndexClient
    sockDl,     \* per connection: the user whose deadline the socket carries
    link,       \* per connection: "free", "up" or "down"
    wire,       \* per connection: requests the server has not served yet
    replies,    \* per connection: replies the client has not read yet
    session,    \* per connection: the server's transaction on it
    index,      \* the documents the index has committed
    answer,     \* per user: the index as the server saw it in the user's last query
    at,         \* per user: the connection it holds
    stage,      \* per user: where it stands in an IndexClient method
    req,        \* per user: the request of the current sendRequest
    todo,       \* per user: documents of Insert that are not sent yet
    outcome,    \* per user: how the last method returned
    got,        \* per user: the content of the last reply it accepted to a query
    deadline,   \* per user: the deadline of its context
    ctxDone     \* per user: ctx.Err() # nil

netVars    == <<link, wire, replies, session, index, answer>>
ctxVars    == <<deadline, ctxDone>>
methodVars == <<stage, req, todo, outcome, got>>
clientVars == <<client, sockDl, netVars, at, methodVars, ctxVars>>

TxRequests == {"begin", "insert", "commit", "rollback"}
Queries    == {"search", "get attribute"}
Requests   == {"echo"} \cup Queries \cup TxRequests
Methods    == {"Ping", "Search", "GetAttribute", "Insert"}

\* A line on its way to the server; docs is the document of an insert.
Message(u, kind, docs) == [by |-> u, kind |-> kind, docs |-> docs]
Messages == [by : Users, kind : Requests, docs : SUBSET Docs]

\* A line on its way back. "junk" is a line with neither prefix.
Reply(u, kind, status) == [by |-> u, kind |-> kind, status |-> status]
Replies == [by : Users, kind : Requests, status : {"OK", "ERR", "junk"}]

-----------------------------------------------------------------------------
(* The client object.  numRequests and numResponses are only ever compared *)
(* for equality: their difference, unanswered, stands for both.            *)

NewIndexClient == [closed |-> FALSE, hasError |-> FALSE, hasDeadline |-> FALSE,
                   unanswered |-> 0, tx |-> FALSE]

\* Faulty variant: unread replies are not counted.
IsOKIgnoringCount(c) == ~c.closed /\ ~c.hasError

IsOK(c) == ~c.closed /\ ~c.hasError /\ c.unanswered = 0

NoTx == [open |-> FALSE, docs |-> {}]

\* SetWriteDeadline and SetReadDeadline with the deadline of ctx, or with the
\* zero time (no deadline) when ctx has none.
DeadlineOf(u) == IF deadline[u] = "none" THEN NoUser ELSE u

\* Faulty variants: the deadline of an earlier call is not cleared; none is set.
SetsDeadlineOnlyIfAny(u, k) == deadline[u] # "none"
SetsDeadlineNever(u, k) == FALSE

SetsDeadline(u, k) == deadline[u] # "none" \/ client[k].hasDeadline

InstalledDeadline(u, k) == IF SetsDeadline(u, k) THEN DeadlineOf(u) ELSE sockDl[k]

AfterDeadline(u, k) ==
    IF SetsDeadline(u, k) THEN [client[k] EXCEPT !.hasDeadline = (deadline[u] # "none")]
    ELSE client[k]

SockExpired(d) == d # NoUser /\ deadline[d] = "passed"

-----------------------------------------------------------------------------
(* How a method goes on once sendRequest has returned ok or an error.      *)

Return(u, result) ==
    /\ stage' = [stage EXCEPT ![u] = "returned"]
    /\ outcome' = [outcome EXCEPT ![u] = result]
    /\ req' = [req EXCEPT ![u] = "none"]
    /\ todo' = [todo EXCEPT ![u] = <<>>]

\* The caller has taken the result of the method.
Leave(u) ==
    /\ stage' = [stage EXCEPT ![u] = "idle"]
    /\ outcome' = [outcome EXCEPT ![u] = "none"]
    /\ UNCHANGED <<req, todo>>

Send(u, request, rest) ==
    /\ stage' = [stage EXCEPT ![u] = "send"]
    /\ req' = [req EXCEPT ![u] = request]
    /\ todo' = [todo EXCEPT ![u] = rest]
    /\ outcome' = [outcome EXCEPT ![u] = "none"]

\* Faulty variant: the commit is forgotten.
NextInsertUncommitted(u, rest) ==
    IF rest = <<>> THEN Return(u, "ok") ELSE Send(u, "insert", rest)

\* Insert sends the fingerprints one by one, then commits.
NextInsert(u, rest) ==
    IF rest = <<>> THEN Send(u, "commit", rest) ELSE Send(u, "insert", rest)

\* What a method does when sendRequest returns the text of an "OK " reply.  A
\* Search whose text DecodeResults rejects fails, with the connection intact.
\* tx.done is implied: Insert makes no call after Commit or Rollback returned.
AfterOK(u) ==
    \/ req[u] = "begin" /\ NextInsert(u, todo[u])
    \/ req[u] = "insert" /\ NextInsert(u, Tail(todo[u]))
    \/ req[u] \in {"commit", "echo"} \cup Queries /\ Return(u, "ok")
    \/ req[u] \in {"rollback", "search"} /\ Return(u, "error")

\* Faulty variant: the deferred call commits what was inserted so far.
AfterErrorCommits(u) ==
    \/ req[u] = "insert" /\ Send(u, "commit", todo[u])
    \/ req[u] # "insert" /\ Return(u, "error")

\* What it does when sendRequest returns an error: a failed insert is rolled
\* back with the same context; whatever Rollback returns, Insert fails.
AfterError(u) ==
    \/ req[u] = "insert" /\ Send(u, "rollback", todo[u])
    \/ req[u] # "insert" /\ Return(u, "error")

\* A method is called: Insert of nothing returns at once, BeginTx refuses to
\* open a transaction when the client has one.
Invoke(u, k, method, batch) ==
    \/ method = "Ping" /\ Send(u, "echo", <<>>)
    \/ method = "Search" /\ Send(u, "search", <<>>)
    \/ method = "GetAttribute" /\ Send(u, "get attribute", <<>>)
    \/ /\ method = "Insert"
       /\ \/ batch = <<>> /\ Return(u, "ok")
          \/ batch # <<>> /\ client[k].tx /\ Return(u, "error")
          \/ batch # <<>> /\ ~client[k].tx /\ Send(u, "begin", batch)

-----------------------------------------------------------------------------
(* sendRequest, step by step.                                              *)

\* The context is over: the methods of the transaction look at it before they
\* call sendRequest (the socket is left alone), sendRequest after it has
\* installed the deadline.  Nothing is written.
Refuse(u) ==
    LET k == at[u] IN
    /\ stage[u] = "send"
    /\ ctxDone[u]
    /\ \/ /\ req[u] \in TxRequests
          /\ UNCHANGED <<client, sockDl>>
       \/ /\ client' = [client EXCEPT ![k] = AfterDeadline(u, k)]
          /\ sockDl' = [sockDl EXCEPT ![k] = InstalledDeadline(u, k)]
    /\ AfterError(u)
    /\ UNCHANGED <<netVars, at, got, ctxVars>>

\* Faulty variant: numRequests is not incremented.
WriteUncounted(u) ==
    LET k == at[u] IN
    /\ stage[u] = "send"
    /\ ~ctxDone[u]
    /\ ~SockExpired(InstalledDeadline(u, k))
    /\ client' = [client EXCEPT ![k] = AfterDeadline(u, k)]
    /\ sockDl' = [sockDl EXCEPT ![k] = InstalledDeadline(u, k)]
    /\ wire' = IF link[k] = "up"
               THEN [wire EXCEPT ![k] = Append(@, Message(u, req[u],
                        IF req[u] = "insert" THEN {Head(todo[u])} ELSE {}))]
               ELSE wire
    /\ stage' = [stage EXCEPT ![u] = "wrote"]
    /\ UNCHANGED <<link, replies, session, index, answer, at, req, todo, outcome, got, ctxVars>>

\* WriteLine succeeds.  A write to a connection the peer has dropped may
\* succeed as well: the bytes go nowhere.
Write(u) ==
    LET k == at[u] IN
    /\ stage[u] = "send"
    /\ ~ctxDone[u]
    /\ ~SockExpired(InstalledDeadline(u, k))
    /\ client' = [client EXCEPT ![k] = [AfterDeadline(u, k) EXCEPT !.unanswered = @ + 1]]
    /\ sockDl' = [sockDl EXCEPT ![k] = InstalledDeadline(u, k)]
    /\ wire' = IF link[k] = "up"
               THEN [wire EXCEPT ![k] = Append(@, Message(u, req[u],
                        IF req[u] = "insert" THEN {Head(todo[u])} ELSE {}))]
               ELSE wire
    /\ stage' = [stage EXCEPT ![u] = "wrote"]
    /\ UNCHANGED <<link, replies, session, index, answer, at, req, todo, outcome, got, ctxVars>>

\* WriteLine fails: the deadline has passed, or the peer is gone.
WriteFails(u) ==
    LET k == at[u] IN
    /\ stage[u] = "send"
    /\ ~ctxDone[u]
    /\ SockExpired(InstalledDeadline(u, k)) \/ link[k] = "down"
    /\ client' = [client EXCEPT ![k] = [AfterDeadline(u, k) EXCEPT !.hasError = TRUE]]
    /\ sockDl' = [sockDl EXCEPT ![k] = InstalledDeadline(u, k)]
    /\ AfterError(u)
    /\ UNCHANGED <<netVars, at, got, ctxVars>>

\* The second look at the context: the request is out, its reply stays unread.
CheckContext(u) ==
    /\ stage[u] = "wrote"
    /\ \/ ctxDone[u] /\ AfterError(u)
       \/ /\ ~ctxDone[u]
          /\ stage' = [stage EXCEPT ![u] = "read"]
          /\ UNCHANGED <<req, todo, outcome>>
    /\ UNCHANGED <<client, sockDl, netVars, at, got, ctxVars>>

Accept(k, u) ==
    /\ stage[u] = "read"
    /\ replies[k] # <<>>
    /\ replies' = [replies EXCEPT ![k] = Tail(@)]
    /\ UNCHANGED <<sockDl, link, wire, session, index, answer, at, ctxVars>>

\* A commit or rollback that succeeds sets c.tx = nil.
EndsTx(request) == request \in {"commit", "rollback"}

\* ReadLine returns the oldest unread line, whoever it answers.
ReadOK(u) ==
    LET k == at[u] IN
    /\ Accept(k, u)
    /\ Head(replies[k]).status = "OK"
    /\ client' = [client EXCEPT ![k].unanswered = @ - 1, ![k].tx = @ /\ ~EndsTx(req[u])]
    /\ got' = IF req[u] \in Queries
              THEN [got EXCEPT ![u] = answer[Head(replies[k]).by]] ELSE got
    /\ AfterOK(u)

ReadERR(u) ==
    LET k == at[u] IN
    /\ Accept(k, u)
    /\ Head(replies[k]).status = "ERR"
    /\ client' = [client EXCEPT ![k].unanswered = @ - 1]
    /\ AfterError(u)
    /\ UNCHANGED got

ReadJunk(u) ==
    LET k == at[u] IN
    /\ Accept(k, u)
    /\ Head(replies[k]).status = "junk"
    /\ client' = [client EXCEPT ![k].hasError = TRUE]
    /\ AfterError(u)
    /\ UNCHANGED got

\* ReadLine fails: the deadline on the socket has passed, or the connection
\* is down and nothing is left to read.  Cancelling the context does not end it.
ReadFails(u) ==
    LET k == at[u] IN
    /\ stage[u] = "read"
    /\ SockExpired(sockDl[k]) \/ (link[k] = "down" /\ replies[k] = <<>>)
    /\ client' = [client EXCEPT ![k].hasError = TRUE]
    /\ AfterError(u)
    /\ UNCHANGED <<sockDl, netVars, at, got, ctxVars>>

ClientStep(u) ==
    \/ Refuse(u) \/ Write(u) \/ WriteFails(u) \/ CheckContext(u)
    \/ ReadOK(u) \/ ReadERR(u) \/ ReadJunk(u) \/ ReadFails(u)

-----------------------------------------------------------------------------
(* Opening and closing.  Every user of a connection closes it only when    *)
(* c.tx = nil, so Close sends no rollback and only closes the socket.      *)

Open(k) ==
    /\ link[k] = "free"
    /\ link' = [link EXCEPT ![k] = "up"]
    /\ client' = [client EXCEPT ![k] = NewIndexClient]

Close(k) ==
    /\ ~client[k].tx
    /\ client' = [client EXCEPT ![k].closed = TRUE]
    /\ replies' = [replies EXCEPT ![k] = <<>>]

IsOpen(k) == link[k] # "free" /\ ~client[k].closed

-----------------------------------------------------------------------------
(* The index server and the network (external).                            *)

\* A begin needs that no transaction is open on the connection, the other
\* transaction requests need one.
Accepts(s, kind) ==
    IF kind = "begin" THEN ~s.open ELSE kind \in TxRequests => s.open

SessionAfter(s, m) ==
    CASE m.kind = "begin"  -> [open |-> TRUE, docs |-> {}]
      [] m.kind = "insert" -> [s EXCEPT !.docs = @ \cup m.docs]
      [] m.kind \in {"commit", "rollback"} -> NoTx
      [] OTHER -> s

\* The server serves the oldest request: it does what it asks and says so in a
\* line the client may or may not understand, or it does nothing and fails it.
\* It keeps serving what it has received from a client that has hung up.
Serve(k) ==
    LET m == Head(wire[k]) IN
    /\ link[k] = "up"
    /\ wire[k] # <<>>
    /\ wire' = [wire EXCEPT ![k] = Tail(@)]
    /\ \E status \in {"OK", "ERR", "junk"} :
         /\ \/ /\ status # "ERR"
               /\ Accepts(session[k], m.kind)
               /\ session' = [session EXCEPT ![k] = SessionAfter(@, m)]
               /\ index' = IF m.kind = "commit" THEN index \cup session[k].docs ELSE index
               /\ answer' = IF m.kind \in Queries THEN [answer EXCEPT ![m.by] = index]
                            ELSE answer
            \/ /\ status # "OK"
               /\ UNCHANGED <<session, index, answer>>
         /\ replies' = IF client[k].closed THEN replies
                       ELSE [replies EXCEPT ![k] = Append(@, Reply(m.by, m.kind, status))]
    /\ UNCHANGED <<client, sockDl, link, at, methodVars, ctxVars>>

\* The connection breaks: the server drops the transaction and the requests it
\* has not served; replies already received may still be read, or are lost.
Break(k) ==
    /\ link[k] = "up"
    /\ link' = [link EXCEPT ![k] = "down"]
    /\ wire' = [wire EXCEPT ![k] = <<>>]
    /\ session' = [session EXCEPT ![k] = NoTx]
    /\ replies' \in {replies, [replies EXCEPT ![k] = <<>>]}
    /\ UNCHANGED <<client, sockDl, index, answer, at, methodVars, ctxVars>>

\* The server has served all it received on a closed connection and hangs up:
\* nothing is left of the connection and its slot is free again.
HangUp(k) ==
    /\ link[k] # "free"
    /\ client[k].closed
    /\ wire[k] = <<>>
    /\ link' = [link EXCEPT ![k] = "free"]
    /\ session' = [session EXCEPT ![k] = NoTx]
    /\ client' = [client EXCEPT ![k] = NewIndexClient]
    /\ sockDl' = [sockDl EXCEPT ![k] = NoUser]
    /\ UNCHANGED <<wire, replies, index, answer, at, methodVars, ctxVars>>

ServerStep(k) == Serve(k) \/ Break(k) \/ HangUp(k)

-----------------------------------------------------------------------------
(* Contexts.  The deadline passes first, the timer of the context fires    *)
(* some time later; a context can also be cancelled before its deadline.   *)

DeadlinePasses(u) ==
    /\ deadline[u] = "ahead"
    /\ deadline' = [deadline EXCEPT ![u] = "passed"]
    /\ UNCHANGED <<client, sockDl, netVars, at, methodVars, ctxDone>>

ContextEnds(u) ==
    /\ ~ctxDone[u]
    /\ ctxDone' = [ctxDone EXCEPT ![u] = TRUE]
    /\ UNCHANGED <<client, sockDl, netVars, at, methodVars, deadline>>

TimerFires(u) == deadline[u] = "passed" /\ ContextEnds(u)

-----------------------------------------------------------------------------
ClientInit ==
    /\ client = [k \in Conns |-> NewIndexClient]
    /\ sockDl = [k \in Conns |-> NoUser]
    /\ link = [k \in Conns |-> "free"]
    /\ wire = [k \in Conns |-> <<>>]
    /\ replies = [k \in Conns |-> <<>>]
    /\ session = [k \in Conns |-> NoTx]
    /\ index = {}
    /\ answer = [u \in Users |-> NoAnswer]
    /\ at = [u \in Users |-> NoConn]
    /\ stage = [u \in Users |-> "idle"]
    /\ req = [u \in Users |-> "none"]
    /\ todo = [u \in Users |-> <<>>]
    /\ outcome = [u \in Users |-> "none"]
    /\ got = [u \in Users |-> NoAnswer]
    /\ deadline = [u \in Users |-> "none"]
    /\ ctxDone = [u \in Users |-> FALSE]

ClientRecords == [closed : BOOLEAN, hasError : BOOLEAN, hasDeadline : BOOLEAN,
                  unanswered : Nat, tx : BOOLEAN]

ClientTypeOK ==
    /\ client \in [Conns -> ClientRecords]
    /\ sockDl \in [Conns -> Users \cup {NoUser}]
    /\ link \in [Conns -> {"free", "up", "down"}]
    /\ wire \in [Conns -> Seq(Messages)]
    /\ replies \in [Conns -> Seq(Replies)]
    /\ session \in [Conns -> [open : BOOLEAN, docs : SUBSET Docs]]
    /\ index \in SUBSET Docs
    /\ answer \in [Users -> (SUBSET Docs) \cup {NoAnswer}]
    /\ at \in [Users -> Conns \cup {NoConn}]
    /\ stage \in [Users -> {"idle", "send", "wrote", "read", "returned"}]
    /\ req \in [Users -> Requests \cup {"none"}]
    /\ todo \in [Users -> Seq(Docs)]
    /\ outcome \in [Users -> {"none", "ok", "error"}]
    /\ got \in [Users -> (SUBSET Docs) \cup {NoAnswer}]
    /\ deadline \in [Users -> {"none", "ahead", "passed"}]
    /\ ctxDone \in [Users -> BOOLEAN]

=============================================================================
