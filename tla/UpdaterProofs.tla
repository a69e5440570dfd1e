---------------------------- MODULE UpdaterProofs ----------------------------
(***************************************************************************)
(* Theorems about Updater, for every number of rows, connections and every *)
(* batch size.                                                             *)
(*                                                                         *)
(* PInv says how the updater and the server stand towards each other on    *)
(* the connection the updater holds and on those it has given up.  DInv    *)
(* adds the data: whatever is in the index, on its way there or to be sent *)
(* closes the index from below, so that no row is left out.                *)
(***************************************************************************)
EXTENDS Updater, WellFoundedInduction, TLAPS

DocsIn(seq) == {seq[i] : i \in DOMAIN seq}

Quiet(k) == wire[k] = <<>> /\ replies[k] = <<>>

Active == stage[Proc] \in {"send", "wrote", "read"}

Waiting == stage[Proc] \in {"wrote", "read"}

\* The reply is an "OK " line that was not read yet.
Answered(k) == Waiting /\ replies[k] # <<>> /\ Head(replies[k]).status = "OK"

\* Only the updater opens connections; one it has given up can be served still.
ConnOK(k) ==
    /\ link[k] = "free" => Quiet(k) /\ ~client[k].closed
    /\ link[k] = "down" => wire[k] = <<>>
    /\ client[k].closed => replies[k] = <<>>
    /\ wire[k] # <<>> => wire[k] = <<Head(wire[k])>>
    /\ IsOpen(k) => at[Proc] = k

Held(k) == k # NoConn => IsOpen(k) /\ (IsOK(client[k]) => Quiet(k))

\* Where RunUpdater stands, and where its client does.
Stands ==
    /\ stage[Proc] # "idle" <=> pc \in {"lastID", "insert"}
    /\ at[Proc] = NoConn => pc \in {"top", "exited"}
    /\ pc = "exited" => at[Proc] = NoConn
    /\ pc \in {"lastID", "fetch", "insert"} => deadline[Proc] # "none"

Asks ==
    /\ Active /\ pc = "lastID" => req[Proc] = "get attribute"
    /\ Active /\ pc = "insert" =>
          req[Proc] \in TxRequests /\ (req[Proc] = "insert" => todo[Proc] # <<>>)

\* Before a request: nothing is under way, or the request will not be written.
MayWrite(k) ==
    \/ Quiet(k) /\ (client[k].hasError \/ client[k].unanswered = 0)
    \/ deadline[Proc] = "passed"
    \/ ctxDone[Proc]

\* After it: the request, the reply to it or nothing is under way.
Waits(k) ==
    /\ client[k].unanswered >= 1
    /\ ~client[k].hasError => client[k].unanswered = 1
    /\ wire[k] # <<>> => replies[k] = <<>> /\ Head(wire[k]).kind = req[Proc]
    /\ replies[k] # <<>> => replies[k] = <<Head(replies[k])>>

Goes(k) ==
    /\ stage[Proc] = "send" => MayWrite(k)
    /\ stage[Proc] = "send" /\ req[Proc] # "rollback" => Quiet(k)
    /\ Waiting => Waits(k)
    /\ Active /\ req[Proc] # "rollback" => ~client[k].hasError
    /\ (stage[Proc] = "returned" /\ outcome[Proc] = "ok") \/ pc = "fetch" => IsOK(client[k])

\* What the updater was told is in the index.
Hears(k) ==
    /\ answer[Proc] # NoAnswer => answer[Proc] \subseteq index
    /\ got[Proc] # NoAnswer => got[Proc] \subseteq index
    /\ pc = "lastID" /\ Answered(k) => answer[Proc] # NoAnswer
    /\ pc = "lastID" /\ stage[Proc] = "returned" /\ outcome[Proc] = "ok" => got[Proc] # NoAnswer
    /\ lastID = 0 \/ lastID \in index

PInv ==
    /\ TypeOK
    /\ \A k \in Conns : ConnOK(k)
    /\ Held(at[Proc])
    /\ Stands
    /\ Asks
    /\ Goes(at[Proc])
    /\ Hears(at[Proc])

-----------------------------------------------------------------------------
\* The rows of S leave no row below them out.
Down(S) == S \subseteq rows /\ \A r \in rows, s \in S : r <= s => r \in S

\* Transactions commit in the order of their ids.
TableOK ==
    /\ \A i \in rows \cup uncommitted : i < nextId
    /\ \A r \in rows, i \in uncommitted : r < i

\* The index is closed from below once the transaction of k commits, with the
\* rest of the batch.
Full(k, rest) == Down(index \cup session[k].docs \cup DocsIn(rest))

\* The server has the documents that are not to be sent any more.
Progress(k) ==
    /\ req[Proc] = "begin" => Down(index \cup DocsIn(todo[Proc]))
    /\ req[Proc] = "commit" => todo[Proc] = <<>>
    /\ stage[Proc] = "send" /\ req[Proc] \in {"insert", "commit"} /\ link[k] = "up" =>
          Full(k, todo[Proc])
    /\ Waiting /\ wire[k] # <<>> /\ req[Proc] \in {"insert", "commit"} =>
          /\ Full(k, todo[Proc])
          /\ req[Proc] = "insert" => Head(wire[k]).docs = {Head(todo[Proc])}
    /\ Answered(k) /\ link[k] = "up" =>
          /\ req[Proc] = "begin" => Full(k, todo[Proc])
          /\ req[Proc] = "insert" => Full(k, Tail(todo[Proc]))

CommitOK(k) == wire[k] # <<>> /\ Head(wire[k]).kind = "commit" => Full(k, <<>>)

DInv ==
    /\ TableOK
    /\ Down(index)
    /\ \A k \in Conns : CommitOK(k)
    /\ pc = "insert" /\ Active => Progress(at[Proc])

-----------------------------------------------------------------------------
(* The highest id of a set                                                 *)

LEMMA Least ==
    ASSUME NEW S \in SUBSET Nat, S # {}
    PROVE  \E x \in S : \A y \in S : x <= y
<1> DEFINE R == {ss \in Nat \X Nat : ss[1] < ss[2]}
<1>1. IsWellFoundedOn(R, Nat)
  BY NatLessThanWellFounded, Zenon DEF OpToRel
<1>2. \A x, y \in Nat : <<y, x>> \in R <=> y < x
  OBVIOUS
<1> HIDE DEF R
<1>3. PICK x \in S : \A y \in S : ~(<<y, x>> \in R)
  BY <1>1, WFMin
<1>4. \A y \in S : ~(y < x)
  BY <1>2, <1>3
<1> QED
  BY <1>4

LEMMA HighestIsIn ==
    ASSUME NEW S \in SUBSET Docs
    PROVE  /\ Highest(S) \in 0 .. MaxId
           /\ Highest(S) = 0 \/ Highest(S) \in S
           /\ S # {} => Highest(S) \in S /\ \A j \in S : j <= Highest(S)
<1>1. Docs = 1 .. MaxId /\ MaxId \in Nat
  BY UpdaterAssumption
<1>2. CASE S = {}
  BY <1>1, <1>2 DEF Highest
<1>3. CASE S # {}
  <2> DEFINE T == {MaxId - x : x \in S}
  <2> S \subseteq 1 .. MaxId
    BY <1>1
  <2>1. T \in SUBSET Nat /\ T # {}
    <3>1. \A x \in S : MaxId - x \in Nat
      BY <1>1
    <3>2. T \subseteq Nat
      BY <3>1
    <3> QED
      BY <1>3, <3>2
  <2>2. PICK t \in T : \A y \in T : t <= y
    BY <2>1, Least
  <2>3. PICK x \in S : t = MaxId - x
    BY <2>2
  <2>4. \A j \in S : MaxId - x <= MaxId - j
    BY <2>2, <2>3
  <2>5. \A j \in S : j <= x
    BY <1>1, <2>4
  <2>6. Highest(S) \in S /\ \A j \in S : j <= Highest(S)
    BY <1>3, <2>5 DEF Highest
  <2>7. \A j \in 1 .. MaxId : j \in 0 .. MaxId
    BY <1>1
  <2>8. Highest(S) \in 0 .. MaxId
    BY <2>6, <2>7, Zenon
  <2> QED
    BY <2>6, <2>8
<1> QED
  BY <1>2, <1>3

-----------------------------------------------------------------------------
(* How a method goes on                                                    *)

MethodTypeOK ==
    /\ stage \in [Users -> {"idle", "send", "wrote", "read", "returned"}]
    /\ req \in [Users -> Requests \cup {"none"}]
    /\ todo \in [Users -> Seq(Docs)]
    /\ outcome \in [Users -> {"none", "ok", "error"}]

LEMMA Sends ==
    ASSUME TypeOK, NEW r \in Requests, NEW rest \in Seq(Docs), Send(Proc, r, rest)
    PROVE  /\ MethodTypeOK'
           /\ stage'[Proc] = "send" /\ req'[Proc] = r /\ todo'[Proc] = rest
           /\ outcome'[Proc] = "none"
BY UpdaterAssumption DEF Send, MethodTypeOK, TypeOK, ClientTypeOK

LEMMA Returns ==
    ASSUME TypeOK, NEW result \in {"ok", "error"}, Return(Proc, result)
    PROVE  MethodTypeOK' /\ stage'[Proc] = "returned" /\ outcome'[Proc] = result
BY UpdaterAssumption DEF Return, MethodTypeOK, TypeOK, ClientTypeOK

\* Insert rolls back once an insert has failed; everything else just fails.
RolledBack ==
    /\ MethodTypeOK'
    /\ \/ /\ req[Proc] = "insert"
          /\ stage'[Proc] = "send" /\ req'[Proc] = "rollback" /\ outcome'[Proc] = "none"
       \/ /\ req[Proc] # "insert"
          /\ stage'[Proc] = "returned" /\ outcome'[Proc] = "error"

LEMMA Errs ==
    ASSUME TypeOK, AfterError(Proc)
    PROVE  RolledBack
<1>1. "rollback" \in Requests /\ todo[Proc] \in Seq(Docs)
  BY UpdaterAssumption DEF Requests, TxRequests, TypeOK, ClientTypeOK
<1> QED
  BY <1>1, Sends, Returns DEF AfterError, RolledBack

\* What comes after an "OK " reply.
WentOn ==
    /\ MethodTypeOK'
    /\ \/ /\ req[Proc] \in {"begin", "insert"}
          /\ stage'[Proc] = "send" /\ outcome'[Proc] = "none"
          /\ todo'[Proc] = IF req[Proc] = "begin" THEN todo[Proc] ELSE Tail(todo[Proc])
          /\ req'[Proc] = IF todo'[Proc] = <<>> THEN "commit" ELSE "insert"
       \/ /\ req[Proc] \notin {"begin", "insert", "rollback"}
          /\ stage'[Proc] = "returned" /\ outcome'[Proc] = "ok"
       \/ /\ req[Proc] \notin {"begin", "insert", "get attribute"}
          /\ stage'[Proc] = "returned" /\ outcome'[Proc] = "error"

LEMMA GoesOn ==
    ASSUME TypeOK, req[Proc] = "insert" => todo[Proc] # <<>>, AfterOK(Proc)
    PROVE  WentOn
<1>1. {"insert", "commit"} \subseteq Requests /\ todo[Proc] \in Seq(Docs)
  BY UpdaterAssumption DEF Requests, TxRequests, TypeOK, ClientTypeOK
<1>2. ASSUME NEW rest \in Seq(Docs), NextInsert(Proc, rest)
      PROVE  /\ MethodTypeOK' /\ stage'[Proc] = "send" /\ outcome'[Proc] = "none"
             /\ todo'[Proc] = rest /\ req'[Proc] = IF rest = <<>> THEN "commit" ELSE "insert"
  BY <1>1, <1>2, Sends DEF NextInsert
<1>3. req[Proc] = "insert" => Tail(todo[Proc]) \in Seq(Docs)
  BY <1>1
<1>4. CASE req[Proc] = "begin" /\ NextInsert(Proc, todo[Proc])
  BY <1>1, <1>2, <1>4 DEF WentOn
<1>5. CASE req[Proc] = "insert" /\ NextInsert(Proc, Tail(todo[Proc]))
  BY <1>2, <1>3, <1>5 DEF WentOn
<1>6. CASE req[Proc] \in {"commit", "echo"} \cup Queries /\ Return(Proc, "ok")
  BY <1>6, Returns DEF WentOn, Queries
<1>7. CASE req[Proc] \in {"rollback", "search"} /\ Return(Proc, "error")
  BY <1>7, Returns DEF WentOn
<1> QED
  BY <1>4, <1>5, <1>6, <1>7 DEF AfterOK

-----------------------------------------------------------------------------
(* The connection                                                          *)

\* What PInv says of the connection while a request is under way.
LEMMA Busy ==
    ASSUME PInv, Active
    PROVE  /\ TypeOK /\ Proc \in Users /\ Users = {Proc}
           /\ at[Proc] \in Conns /\ at[Proc] # NoConn /\ IsOpen(at[Proc]) /\ ConnOK(at[Proc])
           /\ client[at[Proc]] \in ClientRecords
           /\ pc \in {"lastID", "insert"} /\ deadline[Proc] # "none"
           /\ req[Proc] \in {"get attribute"} \cup TxRequests
           /\ req[Proc] = "insert" => todo[Proc] # <<>>
<1>1. TypeOK /\ Proc \in Users /\ Users = {Proc}
  BY UpdaterAssumption DEF PInv
<1>2. pc \in {"lastID", "insert"} /\ deadline[Proc] # "none" /\ at[Proc] # NoConn
  BY DEF PInv, Stands, Active
<1>3. at[Proc] \in Conns
  BY <1>1, <1>2 DEF TypeOK, ClientTypeOK
<1>4. IsOpen(at[Proc]) /\ ConnOK(at[Proc]) /\ client[at[Proc]] \in ClientRecords
  BY <1>1, <1>2, <1>3 DEF PInv, Held, TypeOK, ClientTypeOK
<1> QED
  BY <1>1, <1>2, <1>3, <1>4 DEF PInv, Asks, TxRequests

\* The deadline of the context is installed, whatever was on the socket.
LEMMA Deadlines ==
    ASSUME TypeOK, NEW k \in Conns, deadline[Proc] # "none"
    PROVE  /\ AfterDeadline(Proc, k) \in ClientRecords
           /\ InstalledDeadline(Proc, k) = Proc
           /\ AfterDeadline(Proc, k).closed = client[k].closed
           /\ AfterDeadline(Proc, k).hasError = client[k].hasError
           /\ AfterDeadline(Proc, k).unanswered = client[k].unanswered
<1>1. client[k] \in ClientRecords
  BY DEF TypeOK, ClientTypeOK
<1> QED
  BY <1>1 DEF AfterDeadline, InstalledDeadline, SetsDeadline, DeadlineOf, ClientRecords

\* The socket carries no deadline but the one of the updater.
LEMMA Expires ==
    ASSUME TypeOK, NEW k \in Conns, SockExpired(sockDl[k])
    PROVE  deadline[Proc] = "passed"
BY UpdaterAssumption DEF SockExpired, TypeOK, ClientTypeOK

\* The other connections, and what holds of them, stay as they are.
Elsewhere(k) ==
    \A j \in Conns \ {k} :
        /\ client'[j] = client[j] /\ link'[j] = link[j]
        /\ wire'[j] = wire[j] /\ replies'[j] = replies[j]

LEMMA ConnsElsewhere ==
    ASSUME PInv, NEW k \in Conns, Elsewhere(k), ConnOK(k)',
           at'[Proc] = at[Proc] \/ at[Proc] \in {k, NoConn}
    PROVE  \A j \in Conns : ConnOK(j)'
<1>1. ASSUME NEW j \in Conns \ {k} PROVE ConnOK(j)'
  BY <1>1, ClientAssumption DEF PInv, ConnOK, Elsewhere, Quiet, IsOpen
<1> QED
  BY <1>1

-----------------------------------------------------------------------------
(* The steps of the client                                                 *)

LEMMA ClientSet ==
    ASSUME TypeOK, NEW k \in Conns, NEW c \in ClientRecords, client' = [client EXCEPT ![k] = c]
    PROVE  /\ client' \in [Conns -> ClientRecords]
           /\ client'[k] = c
           /\ \A j \in Conns \ {k} : client'[j] = client[j]
<1>1. client \in [Conns -> ClientRecords]
  BY DEF TypeOK, ClientTypeOK
<1> QED
  BY <1>1

LEMMA RecordFails ==
    ASSUME NEW c \in ClientRecords, NEW d, d = [c EXCEPT !.hasError = TRUE]
    PROVE  d \in ClientRecords /\ d.hasError /\ d.closed = c.closed
BY DEF ClientRecords

LEMMA RecordCloses ==
    ASSUME NEW c \in ClientRecords, NEW d, d = [c EXCEPT !.closed = TRUE]
    PROVE  d \in ClientRecords /\ d.closed
BY DEF ClientRecords

LEMMA RecordReads ==
    ASSUME NEW c \in ClientRecords, c.unanswered >= 1, NEW tx \in BOOLEAN,
           NEW d, d = [c EXCEPT !.unanswered = @ - 1, !.tx = tx]
    PROVE  /\ d \in ClientRecords /\ d.closed = c.closed /\ d.hasError = c.hasError
           /\ d.unanswered = c.unanswered - 1
<1>1. c.unanswered \in Nat /\ c.unanswered - 1 \in Nat
  BY DEF ClientRecords
<1> QED
  BY <1>1 DEF ClientRecords

LEMMA RecordAnswered ==
    ASSUME NEW c \in ClientRecords, c.unanswered >= 1, NEW d, d = [c EXCEPT !.unanswered = @ - 1]
    PROVE  /\ d \in ClientRecords /\ d.closed = c.closed /\ d.hasError = c.hasError
           /\ d.unanswered = c.unanswered - 1
<1>1. c.unanswered \in Nat /\ c.unanswered - 1 \in Nat
  BY DEF ClientRecords
<1> QED
  BY <1>1 DEF ClientRecords

\* A request has failed: a rollback may follow, on a connection that is quiet
\* or that is not written to any more.
LEMMA FailedInv ==
    ASSUME PInv, Active, AfterError(Proc), NEW k \in Conns, k = at[Proc],
           UNCHANGED <<link, wire, session, index, answer, at, got, ctxVars, dbVars, pc, lastID>>,
           client' \in [Conns -> ClientRecords],
           sockDl' \in [Conns -> Users \cup {NoUser}],
           replies' \in [Conns -> Seq(Replies)],
           Elsewhere(k), client'[k].closed = client[k].closed,
           MayWrite(k)', IsOK(client[k])' => Quiet(k)'
    PROVE  PInv'
<1>1. RolledBack
  BY Errs DEF PInv
<1>2. TypeOK'
  BY <1>1 DEF PInv, RolledBack, MethodTypeOK, TypeOK, ClientTypeOK, ctxVars, dbVars
<1>3. IsOpen(k) /\ ConnOK(k) /\ pc \in {"lastID", "insert"} /\ stage'[Proc] \in {"send", "returned"}
  BY <1>1, Busy DEF RolledBack
<1>4. ConnOK(k)' /\ Held(k)'
  BY <1>3 DEF ConnOK, Held, IsOpen
<1>5. \A j \in Conns : ConnOK(j)'
  BY <1>4, ConnsElsewhere
<1>6. Stands'
  BY <1>3 DEF PInv, Stands, Active, ctxVars
<1>7. Asks'
  BY <1>1 DEF PInv, Asks, Active, RolledBack, TxRequests
<1>8. Goes(k)'
  BY <1>1, <1>3 DEF Goes, Waiting, Active, RolledBack
<1>9. Hears(k)'
  BY <1>1 DEF PInv, Hears, RolledBack, Answered, Waiting
<1> QED
  BY <1>2, <1>4, <1>5, <1>6, <1>7, <1>8, <1>9 DEF PInv

LEMMA RefuseInv ==
    ASSUME PInv, Refuse(Proc), UNCHANGED <<dbVars, pc, lastID>>
    PROVE  PInv'
<1>1. Active /\ AfterError(Proc) /\ ctxDone[Proc]
  BY DEF Refuse, Active
<1> PICK k \in Conns : k = at[Proc]
  BY <1>1, Busy
<1>2. /\ client' \in [Conns -> ClientRecords] /\ sockDl' \in [Conns -> Users \cup {NoUser}]
      /\ \A j \in Conns \ {k} : client'[j] = client[j]
      /\ client'[k].closed = client[k].closed /\ client'[k].hasError = client[k].hasError
      /\ client'[k].unanswered = client[k].unanswered
  <2>1. CASE UNCHANGED <<client, sockDl>>
    BY <2>1 DEF PInv, TypeOK, ClientTypeOK
  <2>2. CASE /\ client' = [client EXCEPT ![k] = AfterDeadline(Proc, k)]
             /\ sockDl' = [sockDl EXCEPT ![k] = InstalledDeadline(Proc, k)]
    BY <1>1, <2>2, Busy, Deadlines DEF TypeOK, ClientTypeOK
  <2> QED
    BY <2>1, <2>2 DEF Refuse
<1>3. IsOK(client[k])' <=> IsOK(client[k])
  BY <1>2 DEF IsOK
<1>4. IsOK(client[k])' => Quiet(k)'
  BY <1>1, <1>3, Busy DEF PInv, Held, Quiet, Refuse, netVars
<1> QED
  BY <1>1, <1>2, <1>4, FailedInv DEF PInv, TypeOK, ClientTypeOK, Refuse, Elsewhere, MayWrite, netVars,
     ctxVars

LEMMA WriteFailsInv ==
    ASSUME PInv, WriteFails(Proc), UNCHANGED <<dbVars, pc, lastID>>
    PROVE  PInv'
<1>1. Active /\ AfterError(Proc) /\ stage[Proc] = "send" /\ ~ctxDone[Proc]
  BY DEF WriteFails, Active
<1> PICK k \in Conns : k = at[Proc]
  BY <1>1, Busy
<1> PICK c : c = [AfterDeadline(Proc, k) EXCEPT !.hasError = TRUE]
  OBVIOUS
<1>2. TypeOK /\ ConnOK(k) /\ deadline[Proc] # "none"
  BY <1>1, Busy
<1>3. c \in ClientRecords /\ c.hasError /\ c.closed = client[k].closed
  BY <1>2, Deadlines, RecordFails
<1>4. client' = [client EXCEPT ![k] = c]
  BY DEF WriteFails
<1>5. /\ client' \in [Conns -> ClientRecords] /\ client'[k] = c
      /\ \A j \in Conns \ {k} : client'[j] = client[j]
  BY <1>2, <1>3, <1>4, ClientSet
<1>6. sockDl' \in [Conns -> Users \cup {NoUser}]
  BY <1>1, <1>2, Busy, Deadlines DEF WriteFails, TypeOK, ClientTypeOK
<1>7. Quiet(k) \/ deadline[Proc] = "passed"
  BY <1>1 DEF PInv, Goes, MayWrite
<1>8. MayWrite(k)' /\ ~IsOK(client[k])'
  BY <1>3, <1>5, <1>7 DEF WriteFails, MayWrite, Quiet, IsOK, netVars, ctxVars
<1> QED
  BY <1>1, <1>2, <1>3, <1>5, <1>6, <1>8, FailedInv DEF TypeOK, ClientTypeOK, WriteFails, Elsewhere, netVars

\* What is left once a reply was read.
LEMMA AcceptsLast ==
    ASSUME PInv, NEW k \in Conns, k = at[Proc], Accept(k, Proc)
    PROVE  /\ Active /\ Waits(k) /\ client[k] \in ClientRecords
           /\ Quiet(k)'
           /\ Head(replies[k]) \in Replies
           /\ replies' \in [Conns -> Seq(Replies)]
           /\ \A j \in Conns \ {k} : replies'[j] = replies[j]
<1>1. Active /\ Waiting /\ replies[k] # <<>>
  BY DEF Accept, Active, Waiting
<1>2. TypeOK /\ client[k] \in ClientRecords /\ Waits(k)
  BY <1>1, Busy DEF PInv, Goes
<1>3. wire[k] = <<>> /\ replies[k] = <<Head(replies[k])>> /\ Head(replies[k]) \in Replies
  BY <1>1, <1>2 DEF Waits, TypeOK, ClientTypeOK
<1> PICK r : r = Head(replies[k])
  OBVIOUS
<1>4. Tail(replies[k]) = <<>>
  <2>1. replies[k] = <<r>>
    BY <1>3
  <2> QED
    BY <2>1
<1>5. /\ replies' \in [Conns -> Seq(Replies)] /\ replies'[k] = <<>>
      /\ \A j \in Conns \ {k} : replies'[j] = replies[j]
  BY <1>2, <1>4 DEF Accept, TypeOK, ClientTypeOK
<1> QED
  BY <1>1, <1>2, <1>3, <1>5 DEF Quiet, Accept

LEMMA ReadERRInv ==
    ASSUME PInv, ReadERR(Proc), UNCHANGED <<dbVars, pc, lastID>>
    PROVE  PInv'
<1>1. Active /\ AfterError(Proc)
  BY DEF ReadERR, Accept, Active
<1> PICK k \in Conns : k = at[Proc]
  BY <1>1, Busy
<1> PICK c : c = [client[k] EXCEPT !.unanswered = @ - 1]
  OBVIOUS
<1>2. /\ Accept(k, Proc) /\ TypeOK /\ Waits(k) /\ Quiet(k)'
      /\ replies' \in [Conns -> Seq(Replies)]
      /\ \A j \in Conns \ {k} : replies'[j] = replies[j]
      /\ client[k] \in ClientRecords
  BY AcceptsLast DEF ReadERR, PInv
<1>3. /\ c \in ClientRecords /\ c.closed = client[k].closed /\ c.hasError = client[k].hasError
      /\ c.unanswered = client[k].unanswered - 1
  BY <1>2, RecordAnswered DEF Waits
<1>4. client' = [client EXCEPT ![k] = c]
  BY DEF ReadERR
<1>5. /\ client' \in [Conns -> ClientRecords] /\ client'[k] = c
      /\ \A j \in Conns \ {k} : client'[j] = client[j]
  BY <1>2, <1>3, <1>4, ClientSet
<1>6. c.hasError \/ c.unanswered = 0
  BY <1>2, <1>3 DEF Waits
<1>7. MayWrite(k)'
  BY <1>2, <1>5, <1>6 DEF MayWrite
<1>8. UNCHANGED <<sockDl, link, wire, session, index, answer, at, got, ctxVars>>
  BY DEF ReadERR, Accept
<1>9. sockDl' \in [Conns -> Users \cup {NoUser}]
  BY <1>2, <1>8 DEF TypeOK, ClientTypeOK
<1>10. Elsewhere(k)
  BY <1>2, <1>5, <1>8 DEF Elsewhere
<1>11. client'[k].closed = client[k].closed /\ (IsOK(client[k])' => Quiet(k)')
  BY <1>2, <1>3, <1>5
<1> QED
  BY <1>1, <1>2, <1>5, <1>7, <1>8, <1>9, <1>10, <1>11, FailedInv

LEMMA ReadJunkInv ==
    ASSUME PInv, ReadJunk(Proc), UNCHANGED <<dbVars, pc, lastID>>
    PROVE  PInv'
<1>1. Active /\ AfterError(Proc)
  BY DEF ReadJunk, Accept, Active
<1> PICK k \in Conns : k = at[Proc]
  BY <1>1, Busy
<1> PICK c : c = [client[k] EXCEPT !.hasError = TRUE]
  OBVIOUS
<1>2. /\ Accept(k, Proc) /\ TypeOK /\ Quiet(k)'
      /\ replies' \in [Conns -> Seq(Replies)]
      /\ \A j \in Conns \ {k} : replies'[j] = replies[j]
      /\ client[k] \in ClientRecords
  BY AcceptsLast DEF ReadJunk, PInv
<1>3. c \in ClientRecords /\ c.closed = client[k].closed /\ c.hasError
  BY <1>2, RecordFails
<1>4. client' = [client EXCEPT ![k] = c]
  BY DEF ReadJunk
<1>5. /\ client' \in [Conns -> ClientRecords] /\ client'[k] = c
      /\ \A j \in Conns \ {k} : client'[j] = client[j]
  BY <1>2, <1>3, <1>4, ClientSet
<1>6. MayWrite(k)'
  BY <1>2, <1>3, <1>5 DEF MayWrite
<1>8. UNCHANGED <<sockDl, link, wire, session, index, answer, at, got, ctxVars>>
  BY DEF ReadJunk, Accept
<1>9. sockDl' \in [Conns -> Users \cup {NoUser}]
  BY <1>2, <1>8 DEF TypeOK, ClientTypeOK
<1>10. Elsewhere(k)
  BY <1>2, <1>5, <1>8 DEF Elsewhere
<1>11. client'[k].closed = client[k].closed /\ (IsOK(client[k])' => Quiet(k)')
  BY <1>2, <1>3, <1>5
<1> QED
  BY <1>1, <1>2, <1>5, <1>6, <1>8, <1>9, <1>10, <1>11, FailedInv

LEMMA ReadFailsInv ==
    ASSUME PInv, ReadFails(Proc), UNCHANGED <<dbVars, pc, lastID>>
    PROVE  PInv'
<1>1. Active /\ AfterError(Proc)
  BY DEF ReadFails, Active
<1> PICK k \in Conns : k = at[Proc]
  BY <1>1, Busy
<1> PICK c : c = [client[k] EXCEPT !.hasError = TRUE]
  OBVIOUS
<1>2. TypeOK /\ ConnOK(k) /\ client[k] \in ClientRecords
  BY <1>1, Busy
<1>3. c \in ClientRecords /\ c.closed = client[k].closed /\ c.hasError
  BY <1>2, RecordFails
<1>4. client' = [client EXCEPT ![k] = c]
  BY DEF ReadFails
<1>5. /\ client' \in [Conns -> ClientRecords] /\ client'[k] = c
      /\ \A j \in Conns \ {k} : client'[j] = client[j]
  BY <1>2, <1>3, <1>4, ClientSet
<1>6. deadline[Proc] = "passed" \/ Quiet(k)
  BY <1>2, Expires DEF ReadFails, ConnOK, Quiet
<1>7. MayWrite(k)' /\ ~IsOK(client[k])'
  BY <1>3, <1>5, <1>6 DEF ReadFails, MayWrite, Quiet, IsOK, netVars, ctxVars
<1> QED
  BY <1>1, <1>2, <1>3, <1>5, <1>7, FailedInv DEF TypeOK, ClientTypeOK, ReadFails, Elsewhere, netVars

LEMMA CheckContextInv ==
    ASSUME PInv, CheckContext(Proc), UNCHANGED <<dbVars, pc, lastID>>
    PROVE  PInv'
<1>1. /\ Active /\ stage[Proc] = "wrote"
      /\ UNCHANGED <<client, sockDl, link, wire, replies, session, index, answer, at, got, ctxVars>>
  BY DEF CheckContext, Active, netVars
<1> PICK k \in Conns : k = at[Proc]
  BY <1>1, Busy
<1>2. TypeOK /\ ConnOK(k) /\ k # NoConn /\ Proc \in Users
  BY <1>1, Busy
<1>3. CASE ctxDone[Proc] /\ AfterError(Proc)
  <2>1. IsOK(client[k])' => Quiet(k)'
    BY <1>1, <1>2 DEF PInv, Held, Quiet
  <2>2. MayWrite(k)'
    BY <1>1, <1>3 DEF MayWrite, ctxVars
  <2> QED
    BY <1>1, <1>2, <1>3, <2>1, <2>2, FailedInv DEF TypeOK, ClientTypeOK, Elsewhere
<1>4. CASE stage' = [stage EXCEPT ![Proc] = "read"] /\ UNCHANGED <<req, todo, outcome>>
  <2>1. stage'[Proc] = "read" /\ TypeOK'
    BY <1>1, <1>2, <1>4 DEF TypeOK, ClientTypeOK, ctxVars, dbVars
  <2>2. \A j \in Conns : ConnOK(j)'
    BY <1>1 DEF PInv, ConnOK, Quiet, IsOpen
  <2>3. Held(k)' /\ Stands' /\ Asks'
    BY <1>1, <1>4, <2>1 DEF PInv, Held, Quiet, IsOpen, Stands, Asks, Active, ctxVars
  <2>4. Goes(k)' /\ Hears(k)'
    BY <1>1, <1>4, <2>1 DEF PInv, Goes, Hears, Active, Waiting, Waits, Answered
  <2> QED
    BY <1>1, <2>1, <2>2, <2>3, <2>4 DEF PInv
<1> QED
  BY <1>3, <1>4 DEF CheckContext

\* What a successful write puts on the wire.
Line == Message(Proc, req[Proc], IF req[Proc] = "insert" THEN {Head(todo[Proc])} ELSE {})

LEMMA Written ==
    ASSUME PInv, NEW k \in Conns, k = at[Proc], Write(Proc)
    PROVE  /\ Active /\ stage[Proc] = "send"
           /\ Quiet(k) /\ (client[k].hasError \/ client[k].unanswered = 0)
           /\ Line \in Messages /\ Line.kind = req[Proc]
           /\ req[Proc] = "insert" => Line.docs = {Head(todo[Proc])}
           /\ wire' \in [Conns -> Seq(Messages)]
           /\ \A j \in Conns \ {k} : wire'[j] = wire[j]
           /\ wire'[k] # <<>> => link[k] = "up" /\ wire'[k] = <<Line>>
<1>1. Active /\ stage[Proc] = "send" /\ ~ctxDone[Proc]
  BY DEF Write, Active
<1>2. TypeOK /\ Proc \in Users /\ req[Proc] \in Requests
  BY <1>1, Busy DEF Requests, Queries
<1>3. deadline[Proc] # "passed"
  BY <1>1, <1>2, Busy, Deadlines, UpdaterAssumption, ClientAssumption DEF Write, SockExpired
<1>4. Quiet(k) /\ (client[k].hasError \/ client[k].unanswered = 0)
  BY <1>1, <1>3 DEF PInv, Goes, MayWrite
<1> PICK docs : docs = IF req[Proc] = "insert" THEN {Head(todo[Proc])} ELSE {}
  OBVIOUS
<1>5. docs \in SUBSET Docs
  <2>1. todo[Proc] \in Seq(Docs) /\ (req[Proc] = "insert" => todo[Proc] # <<>>)
    BY <1>1, <1>2, Busy DEF TypeOK, ClientTypeOK
  <2>2. req[Proc] = "insert" => Head(todo[Proc]) \in Docs
    BY <2>1
  <2> QED
    BY <2>2
<1> PICK m : m = Message(Proc, req[Proc], docs)
  OBVIOUS
<1>6. m \in Messages /\ m.kind = req[Proc] /\ m.docs = docs
  BY <1>2, <1>5 DEF Message, Messages
<1>7. Line = m
  BY DEF Line
<1>8. /\ wire' \in [Conns -> Seq(Messages)]
      /\ \A j \in Conns \ {k} : wire'[j] = wire[j]
      /\ wire'[k] # <<>> => link[k] = "up" /\ wire'[k] = <<m>>
  <2> Append(<<>>, m) = <<m>> /\ <<m>> \in Seq(Messages)
    BY <1>6
  <2>1. CASE link[k] = "up" /\ wire' = [wire EXCEPT ![k] = Append(@, m)]
    <3>1. wire' = [wire EXCEPT ![k] = <<m>>]
      BY <1>2, <1>4, <2>1 DEF Quiet, TypeOK, ClientTypeOK
    <3> PICK w \in Seq(Messages) : w = <<m>>
      OBVIOUS
    <3>2. wire' = [wire EXCEPT ![k] = w] /\ wire \in [Conns -> Seq(Messages)]
      BY <1>2, <3>1 DEF TypeOK, ClientTypeOK
    <3>3. wire'[k] = w /\ \A j \in Conns \ {k} : wire'[j] = wire[j]
      BY <3>2
    <3>4. wire' \in [Conns -> Seq(Messages)]
      BY <3>2
    <3> QED
      BY <2>1, <3>3, <3>4
  <2>2. CASE wire' = wire
    BY <1>2, <1>4, <2>2 DEF Quiet, TypeOK, ClientTypeOK
  <2> QED
    BY <2>1, <2>2 DEF Write
<1> QED
  BY <1>1, <1>4, <1>6, <1>7, <1>8

LEMMA WriteInv ==
    ASSUME PInv, Write(Proc), UNCHANGED <<dbVars, pc, lastID>>
    PROVE  PInv'
<1>1. /\ Active /\ UNCHANGED <<link, replies, session, index, answer, at, got, req, todo, outcome,
                               ctxVars>>
  BY DEF Write, Active
<1> PICK k \in Conns : k = at[Proc]
  BY <1>1, Busy
<1> PICK a : a = AfterDeadline(Proc, k)
  OBVIOUS
<1> PICK c : c = [a EXCEPT !.unanswered = @ + 1]
  OBVIOUS
<1>2. TypeOK /\ ConnOK(k) /\ IsOpen(k) /\ Proc \in Users /\ pc \in {"lastID", "insert"}
  BY <1>1, Busy
<1>3. /\ a \in ClientRecords /\ a.closed = client[k].closed /\ a.hasError = client[k].hasError
      /\ a.unanswered = client[k].unanswered
  BY <1>1, <1>2, Busy, Deadlines
<1>4. /\ c \in ClientRecords /\ c.closed = a.closed /\ c.hasError = a.hasError
      /\ c.unanswered = a.unanswered + 1
  BY <1>3 DEF ClientRecords
<1>5. client' = [client EXCEPT ![k] = c]
  BY DEF Write
<1>6. /\ client' \in [Conns -> ClientRecords] /\ client'[k] = c
      /\ \A j \in Conns \ {k} : client'[j] = client[j]
  BY <1>2, <1>4, <1>5, ClientSet
<1>7. /\ Quiet(k) /\ (client[k].hasError \/ client[k].unanswered = 0)
      /\ Line.kind = req[Proc]
      /\ wire' \in [Conns -> Seq(Messages)]
      /\ \A j \in Conns \ {k} : wire'[j] = wire[j]
      /\ wire'[k] # <<>> => link[k] = "up" /\ wire'[k] = <<Line>>
  BY Written
<1>8. stage'[Proc] = "wrote" /\ TypeOK'
  <2>1. sockDl' \in [Conns -> Users \cup {NoUser}]
    BY <1>1, <1>2, Busy, Deadlines DEF Write, TypeOK, ClientTypeOK
  <2>2. stage'[Proc] = "wrote" /\ stage' \in [Users -> {"idle", "send", "wrote", "read", "returned"}]
    BY <1>2 DEF Write, TypeOK, ClientTypeOK
  <2> QED
    BY <1>1, <1>2, <1>6, <1>7, <2>1, <2>2 DEF TypeOK, ClientTypeOK, ctxVars, dbVars
<1>9. c.unanswered >= 1 /\ (~c.hasError => c.unanswered = 1)
  BY <1>3, <1>4, <1>7 DEF ClientRecords
<1> PICK m : m = Line
  OBVIOUS
<1>10. wire'[k] # <<>> => Head(wire'[k]) = m /\ wire'[k] = <<Head(wire'[k])>>
  BY <1>7
<1>11. ConnOK(k)' /\ Held(k)'
  <2>1. ~IsOK(c)
    BY <1>4, <1>9 DEF IsOK
  <2> QED
    BY <1>1, <1>2, <1>3, <1>4, <1>6, <1>7, <1>10, <2>1 DEF ConnOK, Held, IsOpen, Quiet
<1>12. \A j \in Conns : ConnOK(j)'
  BY <1>1, <1>6, <1>7, <1>11, ConnsElsewhere DEF Elsewhere
<1>13. Stands' /\ Asks'
  BY <1>1, <1>2, <1>8 DEF PInv, Stands, Asks, Active, ctxVars
<1>14. Waits(k)'
  BY <1>1, <1>6, <1>7, <1>9, <1>10 DEF Waits, Quiet
<1>15. Goes(k)'
  BY <1>1, <1>2, <1>3, <1>4, <1>6, <1>8, <1>14 DEF PInv, Goes, Active, Waiting
<1>16. Hears(k)'
  BY <1>1, <1>7, <1>8 DEF PInv, Hears, Answered, Quiet
<1> QED
  BY <1>1, <1>8, <1>11, <1>12, <1>13, <1>15, <1>16 DEF PInv

LEMMA ReadOKInv ==
    ASSUME PInv, ReadOK(Proc), UNCHANGED <<dbVars, pc, lastID>>
    PROVE  PInv'
<1>1. Active /\ AfterOK(Proc) /\ stage[Proc] = "read"
  BY DEF ReadOK, Accept, Active
<1> PICK k \in Conns : k = at[Proc]
  BY <1>1, Busy
<1> PICK tx \in BOOLEAN : tx = (client[k].tx /\ ~EndsTx(req[Proc]))
  OBVIOUS
<1> PICK c : c = [client[k] EXCEPT !.unanswered = @ - 1, !.tx = tx]
  OBVIOUS
<1>2. /\ Accept(k, Proc) /\ Waits(k) /\ Quiet(k)' /\ Head(replies[k]) \in Replies
      /\ replies' \in [Conns -> Seq(Replies)]
      /\ \A j \in Conns \ {k} : replies'[j] = replies[j]
      /\ client[k] \in ClientRecords
  BY AcceptsLast DEF ReadOK
<1>3. /\ TypeOK /\ ConnOK(k) /\ IsOpen(k) /\ Users = {Proc} /\ pc \in {"lastID", "insert"}
      /\ req[Proc] \in {"get attribute"} \cup TxRequests
      /\ req[Proc] = "insert" => todo[Proc] # <<>>
  BY <1>1, Busy
<1>4. /\ c \in ClientRecords /\ c.closed = client[k].closed /\ c.hasError = client[k].hasError
      /\ c.unanswered = client[k].unanswered - 1
  <2>1. client[k].unanswered >= 1
    BY <1>2 DEF Waits
  <2> PICK old : old = client[k]
    OBVIOUS
  <2>2. old \in ClientRecords /\ old.unanswered >= 1 /\ c = [old EXCEPT !.unanswered = @ - 1, !.tx = tx]
    BY <1>2, <2>1
  <2> QED
    BY <2>2, RecordReads
<1>5. client' = [client EXCEPT ![k] = c]
  BY DEF ReadOK
<1>6. /\ client' \in [Conns -> ClientRecords] /\ client'[k] = c
      /\ \A j \in Conns \ {k} : client'[j] = client[j]
  BY <1>2, <1>3, <1>4, <1>5, ClientSet
<1>7. WentOn
  BY <1>1, <1>3, GoesOn
<1>8. /\ UNCHANGED <<sockDl, link, wire, session, index, answer, at, ctxVars>>
      /\ got' \in [Users -> (SUBSET Docs) \cup {NoAnswer}]
      /\ got' = got \/ got'[Proc] = answer[Proc]
      /\ req[Proc] = "get attribute" => got'[Proc] = answer[Proc]
  <2>1. Head(replies[k]).by = Proc
    BY <1>2, <1>3 DEF Replies
  <2> QED
    BY <1>3, <2>1 DEF ReadOK, Accept, Queries, TypeOK, ClientTypeOK
<1>9. TypeOK'
  BY <1>2, <1>3, <1>6, <1>7, <1>8 DEF WentOn, MethodTypeOK, TypeOK, ClientTypeOK, ctxVars, dbVars
<1>10. ConnOK(k)' /\ Held(k)'
  BY <1>2, <1>3, <1>4, <1>6, <1>8 DEF ConnOK, Held, IsOpen, Quiet
<1>11. \A j \in Conns : ConnOK(j)'
  BY <1>2, <1>6, <1>8, <1>10, ConnsElsewhere DEF Elsewhere
<1>12. req[Proc] # "rollback" => IsOK(client[k])'
  <2>1. req[Proc] # "rollback" => ~client[k].hasError
    BY <1>1 DEF PInv, Goes
  <2>2. ~client[k].hasError => c.unanswered = 0
    BY <1>2, <1>4 DEF Waits
  <2>3. ~client[k].closed
    BY <1>3 DEF IsOpen
  <2> QED
    BY <1>4, <1>6, <2>1, <2>2, <2>3 DEF IsOK
<1>13. Stands' /\ Asks'
  <2>1. stage'[Proc] \in {"send", "returned"}
    BY <1>7 DEF WentOn
  <2>2. pc = "lastID" => stage'[Proc] = "returned"
    BY <1>1, <1>7 DEF PInv, Asks, WentOn
  <2>3. stage'[Proc] = "send" => req'[Proc] \in TxRequests /\ (req'[Proc] = "insert" => todo'[Proc] # <<>>)
    BY <1>7 DEF WentOn, TxRequests
  <2> QED
    BY <1>3, <1>8, <2>1, <2>2, <2>3 DEF PInv, Stands, Asks, Active, ctxVars
<1>14. Goes(k)'
  <2>1. (stage'[Proc] = "send" \/ outcome'[Proc] = "ok") => req[Proc] # "rollback"
    BY <1>7 DEF WentOn
  <2>2. stage'[Proc] \in {"send", "returned"} /\ pc' # "fetch"
    BY <1>3, <1>7 DEF WentOn
  <2> QED
    BY <1>2, <1>12, <2>1, <2>2 DEF Goes, MayWrite, Active, Waiting, IsOK
<1>15. Hears(k)'
  <2>1. pc = "lastID" => req[Proc] = "get attribute" /\ answer[Proc] # NoAnswer
    BY <1>1, <1>2 DEF PInv, Asks, Hears, Answered, Waiting, ReadOK, Accept
  <2>2. stage'[Proc] \in {"send", "returned"}
    BY <1>7 DEF WentOn
  <2> QED
    BY <1>8, <2>1, <2>2 DEF PInv, Hears, Answered, Waiting
<1> QED
  BY <1>8, <1>9, <1>10, <1>11, <1>13, <1>14, <1>15 DEF PInv

LEMMA ClientStepInv ==
    ASSUME PInv, ClientStep(Proc), UNCHANGED <<dbVars, pc, lastID>>
    PROVE  PInv'
BY RefuseInv, WriteInv, WriteFailsInv, CheckContextInv, ReadOKInv, ReadERRInv, ReadJunkInv,
   ReadFailsInv DEF ClientStep

-----------------------------------------------------------------------------
(* The server, the network and the clock                                   *)

\* What the server does with the message m on k, and what it answers.
ServedAs(k, m, status) ==
    /\ \A j \in Conns \ {k} : wire'[j] = wire[j] /\ replies'[j] = replies[j] /\ session'[j] = session[j]
    /\ wire'[k] = <<>>
    /\ \/ /\ session'[k] = SessionAfter(session[k], m)
          /\ index' = IF m.kind = "commit" THEN index \cup session[k].docs ELSE index
          /\ answer'[Proc] = IF m.kind \in Queries THEN index ELSE answer[Proc]
       \/ /\ status # "OK"
          /\ UNCHANGED <<session, index, answer>>
    /\ replies'[k] = IF client[k].closed THEN replies[k]
                     ELSE Append(replies[k], Reply(Proc, m.kind, status))

LEMMA Serves ==
    ASSUME PInv, NEW k \in Conns, Serve(k)
    PROVE  \E m \in Messages, status \in {"OK", "ERR", "junk"} :
              wire[k] = <<m>> /\ ServedAs(k, m, status) /\ ClientTypeOK'
<1>1. TypeOK /\ wire[k] # <<>> /\ ConnOK(k) /\ Users = {Proc} /\ index \in SUBSET Docs
  BY UpdaterAssumption DEF PInv, Serve, TypeOK, ClientTypeOK
<1> PICK m : m = Head(wire[k])
  OBVIOUS
<1>2. wire[k] = <<m>> /\ m \in Messages
  BY <1>1 DEF ConnOK, TypeOK, ClientTypeOK
<1>3. Tail(wire[k]) = <<>> /\ m.by = Proc /\ m.kind \in Requests /\ m.docs \in SUBSET Docs
  BY <1>1, <1>2 DEF Messages
<1>4. PICK status \in {"OK", "ERR", "junk"} :
         /\ \/ /\ status # "ERR"
               /\ Accepts(session[k], m.kind)
               /\ session' = [session EXCEPT ![k] = SessionAfter(@, m)]
               /\ index' = IF m.kind = "commit" THEN index \cup session[k].docs ELSE index
               /\ answer' = IF m.kind \in Queries THEN [answer EXCEPT ![m.by] = index]
                            ELSE answer
            \/ /\ status # "OK"
               /\ UNCHANGED <<session, index, answer>>
         /\ replies' = IF client[k].closed THEN replies
                       ELSE [replies EXCEPT ![k] = Append(@, Reply(m.by, m.kind, status))]
  BY DEF Serve
<1> PICK r : r = Reply(Proc, m.kind, status)
  OBVIOUS
<1>5. r \in Replies
  BY <1>1, <1>3 DEF Reply, Replies
<1>6. /\ wire' \in [Conns -> Seq(Messages)] /\ wire'[k] = <<>>
      /\ \A j \in Conns \ {k} : wire'[j] = wire[j]
  BY <1>1, <1>3 DEF Serve, TypeOK, ClientTypeOK
<1>7. /\ replies' \in [Conns -> Seq(Replies)]
      /\ \A j \in Conns \ {k} : replies'[j] = replies[j]
      /\ replies'[k] = IF client[k].closed THEN replies[k] ELSE Append(replies[k], r)
  <2>1. replies \in [Conns -> Seq(Replies)] /\ Append(replies[k], r) \in Seq(Replies)
    BY <1>1, <1>5 DEF TypeOK, ClientTypeOK
  <2>2. replies' = IF client[k].closed THEN replies
                   ELSE [replies EXCEPT ![k] = Append(replies[k], r)]
    BY <1>3, <1>4, <2>1
  <2> QED
    BY <2>1, <2>2
<1> DEFINE Sessions == [open : BOOLEAN, docs : SUBSET Docs]
<1>8. session \in [Conns -> Sessions] /\ session[k] \in Sessions
  BY <1>1 DEF TypeOK, ClientTypeOK
<1>9. SessionAfter(session[k], m) \in Sessions
  BY <1>3, <1>8 DEF SessionAfter, NoTx
<1>10. /\ session' \in [Conns -> Sessions] /\ index' \in SUBSET Docs
       /\ answer' \in [Users -> (SUBSET Docs) \cup {NoAnswer}]
       /\ \A j \in Conns \ {k} : session'[j] = session[j]
       /\ \/ /\ session'[k] = SessionAfter(session[k], m)
             /\ index' = IF m.kind = "commit" THEN index \cup session[k].docs ELSE index
             /\ answer'[Proc] = IF m.kind \in Queries THEN index ELSE answer[Proc]
          \/ /\ status # "OK"
             /\ UNCHANGED <<session, index, answer>>
  <2> answer \in [Users -> (SUBSET Docs) \cup {NoAnswer}]
    BY <1>1 DEF TypeOK, ClientTypeOK
  <2>1. CASE status # "OK" /\ UNCHANGED <<session, index, answer>>
    BY <1>1, <1>8, <2>1
  <2>2. CASE /\ session' = [session EXCEPT ![k] = SessionAfter(@, m)]
             /\ index' = IF m.kind = "commit" THEN index \cup session[k].docs ELSE index
             /\ answer' = IF m.kind \in Queries THEN [answer EXCEPT ![m.by] = index] ELSE answer
    <3> PICK s \in Sessions : s = SessionAfter(session[k], m)
      BY <1>9
    <3>1. session' = [session EXCEPT ![k] = s]
      BY <1>8, <2>2
    <3>2. session' \in [Conns -> Sessions] /\ session'[k] = s /\ \A j \in Conns \ {k} : session'[j] = session[j]
      BY <1>8, <3>1
    <3>3. index' \in SUBSET Docs
      BY <1>1, <1>8, <2>2
    <3>4. /\ answer' \in [Users -> (SUBSET Docs) \cup {NoAnswer}]
          /\ answer'[Proc] = IF m.kind \in Queries THEN index ELSE answer[Proc]
      BY <1>1, <1>3, <2>2
    <3> QED
      BY <2>2, <3>2, <3>3, <3>4
  <2> QED
    BY <1>4, <2>1, <2>2
<1>11. ServedAs(k, m, status)
  BY <1>6, <1>7, <1>10 DEF ServedAs
<1>12. ClientTypeOK'
  BY <1>1, <1>6, <1>7, <1>10 DEF Serve, TypeOK, ClientTypeOK, methodVars, ctxVars
<1> QED
  BY <1>2, <1>11, <1>12

LEMMA ServeInv ==
    ASSUME PInv, NEW k \in Conns, Serve(k), UNCHANGED <<dbVars, pc, lastID>>
    PROVE  PInv'
<1> PICK m \in Messages, status \in {"OK", "ERR", "junk"} :
          wire[k] = <<m>> /\ ServedAs(k, m, status) /\ ClientTypeOK'
  BY Serves
<1>1. /\ TypeOK /\ ConnOK(k) /\ link[k] = "up" /\ wire[k] # <<>>
      /\ UNCHANGED <<client, sockDl, link, at, methodVars, ctxVars>>
  BY DEF PInv, Serve
<1>2. TypeOK'
  BY <1>1 DEF TypeOK, dbVars
<1>3. Elsewhere(k)
  BY <1>1 DEF Elsewhere, ServedAs
<1>4. ConnOK(k)'
  BY <1>1 DEF ConnOK, ServedAs, Quiet, IsOpen
<1>5. \A j \in Conns : ConnOK(j)'
  BY <1>1, <1>3, <1>4, ConnsElsewhere
<1>6. Stands' /\ Asks'
  BY <1>1 DEF PInv, Stands, Asks, Active, ctxVars, methodVars
<1>7. index \subseteq index' /\ (answer'[Proc] = answer[Proc] \/ answer'[Proc] = index)
  BY DEF ServedAs
<1>8. index # NoAnswer
  BY <1>1, ClientAssumption DEF TypeOK, ClientTypeOK
<1>9. CASE at[Proc] # k
  <2>1. at[Proc] = NoConn \/ at[Proc] \in Conns \ {k}
    BY <1>1, <1>9, UpdaterAssumption DEF TypeOK, ClientTypeOK
  <2>2. Held(at[Proc])'
    BY <1>1, <1>3, <2>1 DEF PInv, Held, Elsewhere, IsOpen, Quiet
  <2>3. Goes(at[Proc])' /\ Hears(at[Proc])'
    <3>1. CASE at[Proc] = NoConn
      BY <1>1, <1>7, <1>8, <3>1 DEF PInv, Stands, Goes, Hears, Active, Waiting, Answered, methodVars
    <3>2. CASE at[Proc] \in Conns \ {k}
      <4>1. Goes(at[Proc])'
        BY <1>1, <1>3, <3>2 DEF PInv, Goes, MayWrite, Waits, Active, Waiting, Quiet, Elsewhere,
           methodVars, ctxVars
      <4>2. Hears(at[Proc])'
        BY <1>1, <1>3, <1>7, <1>8, <3>2 DEF PInv, Hears, Answered, Waiting, Elsewhere, methodVars
      <4> QED
        BY <4>1, <4>2
    <3> QED
      BY <2>1, <3>1, <3>2
  <2> QED
    BY <1>1, <1>2, <1>5, <1>6, <2>2, <2>3 DEF PInv
<1>10. CASE at[Proc] = k
  <2>1. IsOpen(k) /\ ~IsOK(client[k]) /\ ~client[k].closed
    BY <1>1, <1>10, ClientAssumption DEF PInv, Held, Quiet, IsOpen
  <2>2. Held(k)'
    BY <1>1, <2>1 DEF Held, IsOpen
  <2> PICK r : r = Reply(Proc, m.kind, status)
    OBVIOUS
  <2>3. Waiting => m.kind = req[Proc] /\ replies'[k] = <<r>>
    <3>1. Waiting => Head(wire[k]) = m /\ replies[k] = <<>> /\ m.kind = req[Proc]
      <4>1. Head(wire[k]) = m
        OBVIOUS
      <4> QED
        BY <1>1, <1>10, <4>1 DEF PInv, Goes, Waits
    <3>2. Append(<<>>, r) = <<r>>
      OBVIOUS
    <3> QED
      BY <2>1, <3>1, <3>2 DEF ServedAs
  <2>4. Goes(k)'
    <3>1. Waiting => Waits(k)'
      BY <1>1, <1>10, <2>3 DEF PInv, Goes, Waits, ServedAs, methodVars
    <3> QED
      BY <1>1, <1>10, <2>1, <3>1 DEF PInv, Goes, MayWrite, Active, Waiting, Quiet, methodVars, ctxVars
  <2>5. Hears(k)'
    <3>1. pc = "lastID" /\ Answered(k)' => answer'[Proc] # NoAnswer
      <4> SUFFICES ASSUME pc = "lastID", Answered(k)' PROVE answer'[Proc] # NoAnswer
        OBVIOUS
      <4>1. Waiting /\ Active
        BY <1>1 DEF Answered, Waiting, Active, methodVars
      <4>2. m.kind = "get attribute" /\ replies'[k] = <<r>>
        BY <2>3, <4>1 DEF PInv, Asks
      <4> Head(<<r>>) = r
        OBVIOUS
      <4>3. Head(replies'[k]) = r
        BY <4>2, Zenon
      <4>4. status = "OK"
        BY <4>3 DEF Answered, Reply
      <4> QED
        BY <1>8, <4>2, <4>4 DEF ServedAs, Queries
    <3> QED
      BY <1>1, <1>7, <1>8, <1>10, <3>1 DEF PInv, Hears, methodVars
  <2> QED
    BY <1>1, <1>2, <1>5, <1>6, <1>10, <2>2, <2>4, <2>5 DEF PInv
<1> QED
  BY <1>9, <1>10

LEMMA BreakInv ==
    ASSUME PInv, NEW k \in Conns, Break(k), UNCHANGED <<dbVars, pc, lastID>>
    PROVE  PInv'
<1>1. /\ TypeOK /\ ConnOK(k)
      /\ UNCHANGED <<client, sockDl, index, answer, at, methodVars, ctxVars>>
  BY DEF PInv, Break
<1>2. /\ link' \in [Conns -> {"free", "up", "down"}] /\ link[k] = "up" /\ link'[k] = "down"
      /\ wire' \in [Conns -> Seq(Messages)] /\ wire'[k] = <<>>
      /\ session' \in [Conns -> [open : BOOLEAN, docs : SUBSET Docs]]
      /\ \A j \in Conns \ {k} : link'[j] = link[j] /\ wire'[j] = wire[j]
  BY <1>1 DEF Break, NoTx, TypeOK, ClientTypeOK
<1>3. /\ replies' \in [Conns -> Seq(Replies)]
      /\ replies'[k] = replies[k] \/ replies'[k] = <<>>
      /\ \A j \in Conns \ {k} : replies'[j] = replies[j]
  <2>1. replies \in [Conns -> Seq(Replies)] /\ <<>> \in Seq(Replies)
    BY <1>1 DEF TypeOK, ClientTypeOK
  <2>2. CASE replies' = replies
    BY <2>1, <2>2
  <2>3. CASE replies' = [replies EXCEPT ![k] = <<>>]
    BY <2>1, <2>3
  <2> QED
    BY <2>2, <2>3 DEF Break
<1>4. TypeOK'
  BY <1>1, <1>2, <1>3 DEF TypeOK, ClientTypeOK, methodVars, ctxVars, dbVars
<1>5. Elsewhere(k)
  BY <1>1, <1>2, <1>3 DEF Elsewhere
<1>6. ConnOK(k)'
  BY <1>1, <1>2, <1>3 DEF ConnOK, IsOpen
<1>7. \A j \in Conns : ConnOK(j)'
  BY <1>1, <1>5, <1>6, ConnsElsewhere
<1>8. \A j \in Conns : /\ IsOpen(j) => IsOpen(j)'
                       /\ Quiet(j) => Quiet(j)'
                       /\ Waits(j) => Waits(j)'
                       /\ Answered(j)' => Answered(j)
  BY <1>1, <1>2, <1>3, <1>5 DEF IsOpen, Quiet, Waits, Answered, Waiting, Elsewhere, methodVars
<1>9. Stands' /\ Asks'
  BY <1>1 DEF PInv, Stands, Asks, Active, ctxVars, methodVars
<1>10. at[Proc] = NoConn \/ at[Proc] \in Conns
  BY <1>1, UpdaterAssumption DEF TypeOK, ClientTypeOK
<1>11. Held(at[Proc])'
  BY <1>1, <1>8, <1>10 DEF PInv, Held
<1>12. Goes(at[Proc])' /\ Hears(at[Proc])'
  <2>1. CASE at[Proc] = NoConn
    BY <1>1, <2>1 DEF PInv, Stands, Goes, Hears, Active, Waiting, Answered, methodVars
  <2>2. CASE at[Proc] \in Conns
    BY <1>1, <1>8, <2>2 DEF PInv, Goes, Hears, MayWrite, Active, Waiting, methodVars, ctxVars
  <2> QED
    BY <1>10, <2>1, <2>2
<1> QED
  BY <1>1, <1>4, <1>7, <1>9, <1>11, <1>12 DEF PInv

LEMMA HangUpInv ==
    ASSUME PInv, NEW k \in Conns, HangUp(k), UNCHANGED <<dbVars, pc, lastID>>
    PROVE  PInv'
<1>1. /\ TypeOK /\ ConnOK(k) /\ client[k].closed /\ wire[k] = <<>>
      /\ UNCHANGED <<wire, replies, index, answer, at, methodVars, ctxVars>>
  BY DEF PInv, HangUp
<1>2. NewIndexClient \in ClientRecords /\ ~NewIndexClient.closed
  BY DEF NewIndexClient, ClientRecords
<1>3. /\ client' \in [Conns -> ClientRecords] /\ client'[k] = NewIndexClient
      /\ \A j \in Conns \ {k} : client'[j] = client[j]
  BY <1>1, <1>2, ClientSet DEF HangUp
<1>4. /\ link' \in [Conns -> {"free", "up", "down"}] /\ link'[k] = "free"
      /\ session' \in [Conns -> [open : BOOLEAN, docs : SUBSET Docs]]
      /\ sockDl' \in [Conns -> Users \cup {NoUser}]
      /\ \A j \in Conns \ {k} : link'[j] = link[j]
  BY <1>1 DEF HangUp, NoTx, TypeOK, ClientTypeOK
<1>5. TypeOK'
  BY <1>1, <1>3, <1>4 DEF TypeOK, ClientTypeOK, methodVars, ctxVars, dbVars
<1>6. Elsewhere(k)
  BY <1>1, <1>3, <1>4 DEF Elsewhere
<1>7. ConnOK(k)'
  BY <1>1, <1>2, <1>3, <1>4 DEF ConnOK, Quiet, IsOpen
<1>8. \A j \in Conns : ConnOK(j)'
  BY <1>1, <1>6, <1>7, ConnsElsewhere
<1>9. Stands' /\ Asks'
  BY <1>1 DEF PInv, Stands, Asks, Active, ctxVars, methodVars
<1>10. at[Proc] = NoConn \/ at[Proc] \in Conns \ {k}
  BY <1>1, UpdaterAssumption, ClientAssumption DEF PInv, Held, IsOpen, TypeOK, ClientTypeOK
<1>11. Held(at[Proc])'
  BY <1>1, <1>6, <1>10 DEF PInv, Held, Elsewhere, IsOpen, Quiet
<1>12. Goes(at[Proc])' /\ Hears(at[Proc])'
  <2>1. CASE at[Proc] = NoConn
    BY <1>1, <2>1 DEF PInv, Stands, Goes, Hears, Active, Waiting, Answered, methodVars
  <2>2. CASE at[Proc] \in Conns \ {k}
    BY <1>1, <1>6, <2>2 DEF PInv, Goes, Hears, MayWrite, Waits, Answered, Active, Waiting, Quiet, Elsewhere,
       methodVars, ctxVars
  <2> QED
    BY <1>10, <2>1, <2>2
<1> QED
  BY <1>1, <1>5, <1>8, <1>9, <1>11, <1>12 DEF PInv

LEMMA TimeInv ==
    ASSUME PInv, Time
    PROVE  PInv'
<1>1. /\ TypeOK /\ UNCHANGED <<client, sockDl, netVars, at, methodVars, dbVars, pc, lastID>>
      /\ deadline'[Proc] = deadline[Proc] \/ deadline'[Proc] = "passed"
      /\ ctxDone[Proc] => ctxDone'[Proc]
      /\ deadline' \in [Users -> {"none", "ahead", "passed"}] /\ ctxDone' \in [Users -> BOOLEAN]
  BY UpdaterAssumption DEF PInv, Time, TimerFires, DeadlinePasses, ContextEnds, TypeOK, ClientTypeOK
<1>2. deadline'[Proc] # "none" <=> deadline[Proc] # "none"
  BY UpdaterAssumption DEF PInv, Time, TimerFires, DeadlinePasses, ContextEnds, TypeOK, ClientTypeOK
<1>3. TypeOK'
  BY <1>1 DEF TypeOK, ClientTypeOK, netVars, methodVars, dbVars
<1>4. Stands' /\ Asks' /\ Held(at[Proc])' /\ \A j \in Conns : ConnOK(j)'
  BY <1>1, <1>2 DEF PInv, Stands, Asks, Held, ConnOK, Active, Quiet, IsOpen, netVars, methodVars
<1>5. (deadline[Proc] = "passed" => deadline'[Proc] = "passed")
  BY <1>1
<1>6. Goes(at[Proc])'
  BY <1>1, <1>5 DEF PInv, Goes, MayWrite, Waits, Active, Waiting, Quiet, netVars, methodVars
<1>7. Hears(at[Proc])'
  BY <1>1 DEF PInv, Hears, Answered, Waiting, netVars, methodVars
<1> QED
  BY <1>1, <1>3, <1>4, <1>6, <1>7 DEF PInv

-----------------------------------------------------------------------------
(* The steps of RunUpdater                                                 *)

\* A round starts on a connection that is open, good and quiet.
LEMMA RoundStarts ==
    ASSUME PInv, pc = "top", NEW k \in Conns, NewRound(k),
           UNCHANGED <<sockDl, wire, replies, session, index, answer, got, dbVars, lastID>>,
           client' \in [Conns -> ClientRecords],
           link' \in [Conns -> {"free", "up", "down"}],
           at' \in [Users -> Conns \cup {NoConn}],
           Elsewhere(k), at'[Proc] = k, at[Proc] \in {k, NoConn},
           link[k] = "down" => wire[k] = <<>>,
           IsOpen(k)', IsOK(client[k])', Quiet(k)
    PROVE  PInv'
<1>1. TypeOK /\ Proc \in Users /\ k # NoConn
  BY UpdaterAssumption, ClientAssumption DEF PInv
<1>2. Send(Proc, "get attribute", <<>>)
  BY DEF NewRound, Invoke
<1>3. /\ MethodTypeOK'
      /\ stage'[Proc] = "send" /\ req'[Proc] = "get attribute" /\ outcome'[Proc] = "none"
  <2>1. "get attribute" \in Requests /\ <<>> \in Seq(Docs)
    BY DEF Requests, Queries
  <2> QED
    BY <1>1, <1>2, <2>1, Sends
<1>4. /\ deadline'[Proc] = "ahead"
      /\ deadline' \in [Users -> {"none", "ahead", "passed"}] /\ ctxDone' \in [Users -> BOOLEAN]
  BY <1>1 DEF NewRound, TypeOK, ClientTypeOK
<1>5. TypeOK'
  BY <1>1, <1>3, <1>4 DEF NewRound, MethodTypeOK, TypeOK, ClientTypeOK, dbVars
<1>6. ConnOK(k)' /\ Held(k)'
  BY DEF ConnOK, Held, Quiet, IsOpen
<1>7. \A j \in Conns : ConnOK(j)'
  BY <1>6, ConnsElsewhere
<1>8. Stands' /\ Asks'
  BY <1>1, <1>3, <1>4 DEF NewRound, Stands, Asks
<1>9. Goes(k)' /\ Hears(k)'
  BY <1>3 DEF NewRound, PInv, Goes, Hears, MayWrite, Waiting, Answered, Quiet, IsOK
<1> QED
  BY <1>5, <1>6, <1>7, <1>8, <1>9 DEF PInv

LEMMA ConnectInv ==
    ASSUME PInv, NEW k \in Conns, Connect(k)
    PROVE  PInv'
<1>1. TypeOK /\ Proc \in Users /\ ConnOK(k) /\ link[k] = "free" /\ pc = "top" /\ at[Proc] = NoConn
  BY UpdaterAssumption DEF PInv, Connect, Open
<1>2. NewIndexClient \in ClientRecords /\ IsOK(NewIndexClient) /\ ~NewIndexClient.closed
  BY DEF NewIndexClient, ClientRecords, IsOK
<1>3. /\ client' \in [Conns -> ClientRecords] /\ client'[k] = NewIndexClient
      /\ \A j \in Conns \ {k} : client'[j] = client[j]
  BY <1>1, <1>2, ClientSet DEF Connect, Open
<1>4. /\ link' \in [Conns -> {"free", "up", "down"}] /\ link'[k] = "up"
      /\ \A j \in Conns \ {k} : link'[j] = link[j]
      /\ at' \in [Users -> Conns \cup {NoConn}] /\ at'[Proc] = k
  BY <1>1 DEF Connect, Open, TypeOK, ClientTypeOK
<1>5. Quiet(k) /\ IsOpen(k)' /\ IsOK(client[k])'
  BY <1>1, <1>2, <1>3, <1>4 DEF ConnOK, IsOpen
<1>6. Elsewhere(k)
  BY <1>3, <1>4 DEF Connect, Elsewhere
<1> QED
  BY <1>1, <1>3, <1>4, <1>5, <1>6, RoundStarts DEF Connect

LEMMA RoundInv ==
    ASSUME PInv, Round
    PROVE  PInv'
<1>1. TypeOK /\ Proc \in Users /\ at[Proc] # NoConn /\ pc = "top" /\ IsOK(client[at[Proc]])
  BY UpdaterAssumption DEF PInv, Round
<1> PICK k \in Conns : k = at[Proc]
  BY <1>1 DEF TypeOK, ClientTypeOK
<1>2. IsOpen(k) /\ Quiet(k)
  BY <1>1 DEF PInv, Held
<1> QED
  BY <1>1, <1>2, RoundStarts DEF Round, netVars, TypeOK, ClientTypeOK, Elsewhere, Quiet, IsOpen

\* The connection is closed: what was written on it may still be served.
LEMMA Closes ==
    ASSUME PInv, NEW k \in Conns, k = at[Proc], Close(k), at'[Proc] = NoConn, UNCHANGED <<link, wire>>
    PROVE  /\ client' \in [Conns -> ClientRecords]
           /\ replies' \in [Conns -> Seq(Replies)]
           /\ \A j \in Conns : ConnOK(j)'
<1>1. TypeOK /\ IsOpen(k) /\ ConnOK(k) /\ client[k] \in ClientRecords
  BY ClientAssumption DEF PInv, Held, TypeOK, ClientTypeOK
<1> PICK c : c = [client[k] EXCEPT !.closed = TRUE]
  OBVIOUS
<1>2. c \in ClientRecords /\ c.closed
  BY <1>1, RecordCloses
<1>3. client' = [client EXCEPT ![k] = c]
  BY DEF Close
<1>4. /\ client' \in [Conns -> ClientRecords] /\ client'[k] = c
      /\ \A j \in Conns \ {k} : client'[j] = client[j]
  BY <1>1, <1>2, <1>3, ClientSet
<1>5. /\ replies' \in [Conns -> Seq(Replies)] /\ replies'[k] = <<>>
      /\ \A j \in Conns \ {k} : replies'[j] = replies[j]
  BY <1>1 DEF Close, TypeOK, ClientTypeOK
<1>6. ConnOK(k)'
  BY <1>1, <1>2, <1>4, <1>5 DEF ConnOK, IsOpen
<1> QED
  BY <1>4, <1>5, <1>6, ConnsElsewhere DEF Elsewhere

LEMMA ReconnectInv ==
    ASSUME PInv, Reconnect
    PROVE  PInv'
<1>1. TypeOK /\ Proc \in Users /\ at[Proc] # NoConn /\ pc = "top" /\ stage[Proc] = "idle"
  BY UpdaterAssumption DEF PInv, Stands, Reconnect
<1> PICK k \in Conns : k = at[Proc]
  BY <1>1 DEF TypeOK, ClientTypeOK
<1>2. at'[Proc] = NoConn /\ at' \in [Users -> Conns \cup {NoConn}]
  BY <1>1 DEF Reconnect, TypeOK, ClientTypeOK
<1>3. /\ client' \in [Conns -> ClientRecords] /\ replies' \in [Conns -> Seq(Replies)]
      /\ \A j \in Conns : ConnOK(j)'
  BY <1>2, Closes DEF Reconnect
<1>4. TypeOK'
  BY <1>1, <1>2, <1>3 DEF Reconnect, TypeOK, ClientTypeOK, methodVars, ctxVars, dbVars
<1>5. Stands' /\ Asks' /\ Held(NoConn)' /\ Goes(NoConn)'
  BY <1>1, <1>2 DEF Reconnect, PInv, Stands, Asks, Held, Goes, Active, Waiting, methodVars, ctxVars
<1>6. Hears(NoConn)'
  BY <1>1 DEF Reconnect, PInv, Hears, methodVars
<1> QED
  BY <1>2, <1>3, <1>4, <1>5, <1>6 DEF PInv

\* The round is over.
LEMMA AgainInv ==
    ASSUME PInv, Again, UNCHANGED <<client, sockDl, netVars, at, dbVars>>
    PROVE  PInv'
<1>1. TypeOK /\ Proc \in Users
  BY UpdaterAssumption DEF PInv
<1>2. /\ stage'[Proc] = "idle" /\ got'[Proc] = NoAnswer /\ pc' = "top" /\ lastID' = 0
      /\ MethodTypeOK' /\ got' \in [Users -> (SUBSET Docs) \cup {NoAnswer}]
      /\ deadline' \in [Users -> {"none", "ahead", "passed"}] /\ ctxDone' \in [Users -> BOOLEAN]
  BY <1>1 DEF Again, Leave, Forget, MethodTypeOK, TypeOK, ClientTypeOK
<1>3. TypeOK'
  BY <1>1, <1>2, UpdaterAssumption DEF MethodTypeOK, TypeOK, ClientTypeOK, netVars, dbVars
<1>4. Held(at[Proc])' /\ \A j \in Conns : ConnOK(j)'
  BY DEF PInv, Held, ConnOK, Quiet, IsOpen, netVars
<1>5. Stands' /\ Asks' /\ Goes(at[Proc])' /\ Hears(at[Proc])'
  BY <1>2 DEF PInv, Stands, Asks, Goes, Hears, Active, Waiting, netVars
<1> QED
  BY <1>3, <1>4, <1>5 DEF PInv

LEMMA GetLastInv ==
    ASSUME PInv, GetLastFingerprintID
    PROVE  PInv'
<1>1. CASE outcome[Proc] = "error" /\ Again
  BY <1>1, AgainInv DEF GetLastFingerprintID
<1>2. CASE /\ outcome[Proc] = "ok" /\ lastID' = Highest(got[Proc]) /\ pc' = "fetch" /\ Leave(Proc)
           /\ UNCHANGED <<got, ctxVars>>
  <2>1. /\ TypeOK /\ Proc \in Users /\ stage[Proc] = "returned" /\ pc = "lastID"
        /\ UNCHANGED <<client, sockDl, netVars, at, got, ctxVars, dbVars>>
    BY <1>2, UpdaterAssumption DEF PInv, GetLastFingerprintID
  <2>2. stage'[Proc] = "idle" /\ outcome'[Proc] = "none" /\ MethodTypeOK'
    BY <1>2, <2>1 DEF Leave, MethodTypeOK, TypeOK, ClientTypeOK
  <2>3. got[Proc] \in SUBSET Docs /\ got[Proc] \subseteq index
    BY <1>2, <2>1 DEF PInv, Hears, TypeOK, ClientTypeOK
  <2>4. lastID' \in 0 .. MaxId /\ (lastID' = 0 \/ lastID' \in index)
    BY <1>2, <2>3, HighestIsIn
  <2>5. TypeOK'
    BY <1>2, <2>1, <2>2, <2>4 DEF MethodTypeOK, TypeOK, ClientTypeOK, netVars, ctxVars, dbVars
  <2>6. Held(at[Proc])' /\ \A j \in Conns : ConnOK(j)'
    BY <2>1 DEF PInv, Held, ConnOK, Quiet, IsOpen, netVars
  <2>7. IsOK(client[at[Proc]])
    BY <1>2, <2>1 DEF PInv, Goes
  <2>8. Stands' /\ Asks' /\ Goes(at[Proc])'
    BY <1>2, <2>1, <2>2, <2>7 DEF PInv, Stands, Asks, Goes, Active, Waiting, ctxVars
  <2>9. Hears(at[Proc])'
    BY <1>2, <2>1, <2>4 DEF PInv, Hears, netVars
  <2> QED
    BY <2>1, <2>5, <2>6, <2>8, <2>9 DEF PInv
<1> QED
  BY <1>1, <1>2 DEF GetLastFingerprintID

LEMMA BatchType ==
    ASSUME PInv, NEW batch \in NextFingerprints(lastID)
    PROVE  batch \in Seq(Docs) /\ DocsIn(batch) \subseteq rows
<1>1. PICK n \in 0 .. BatchSize : batch \in [1 .. n -> Matching(lastID)]
  BY DEF NextFingerprints
<1>2. n \in Nat /\ Matching(lastID) \subseteq rows /\ rows \subseteq Docs
  BY <1>1, UpdaterAssumption DEF Matching, PInv, TypeOK
<1>3. batch \in [1 .. n -> Docs]
  BY <1>1, <1>2
<1> QED
  BY <1>1, <1>2, <1>3 DEF DocsIn

LEMMA GetNextInv ==
    ASSUME PInv, GetNextFingerprints
    PROVE  PInv'
<1> PICK batch \in NextFingerprints(lastID) : pc' = "insert" /\ Invoke(Proc, at[Proc], "Insert", batch)
  BY DEF GetNextFingerprints
<1>1. /\ TypeOK /\ Proc \in Users /\ pc = "fetch" /\ at[Proc] # NoConn
      /\ UNCHANGED <<client, sockDl, netVars, at, got, ctxVars, dbVars, lastID>>
  BY UpdaterAssumption DEF PInv, Stands, GetNextFingerprints
<1> PICK k \in Conns : k = at[Proc]
  BY <1>1 DEF TypeOK, ClientTypeOK
<1>2. IsOK(client[k]) /\ Quiet(k)
  BY <1>1 DEF PInv, Goes, Held
<1>3. batch \in Seq(Docs)
  BY BatchType
<1>4. /\ MethodTypeOK'
      /\ \/ stage'[Proc] = "returned"
         \/ stage'[Proc] = "send" /\ req'[Proc] = "begin"
  <2>1. "begin" \in Requests
    BY DEF Requests, TxRequests
  <2> QED
    BY <1>1, <1>3, <2>1, Sends, Returns DEF Invoke
<1>5. TypeOK'
  BY <1>1, <1>4 DEF MethodTypeOK, TypeOK, ClientTypeOK, netVars, ctxVars, dbVars
<1>6. Held(k)' /\ \A j \in Conns : ConnOK(j)'
  BY <1>1 DEF PInv, Held, ConnOK, Quiet, IsOpen, netVars
<1>7. Stands' /\ Asks'
  BY <1>1, <1>4 DEF PInv, Stands, Asks, Active, TxRequests, ctxVars
<1>8. Goes(k)'
  BY <1>1, <1>2, <1>4 DEF Goes, MayWrite, Waiting, Active, Quiet, IsOK, netVars
<1>9. Hears(k)'
  BY <1>1 DEF PInv, Hears, netVars
<1> QED
  BY <1>1, <1>5, <1>6, <1>7, <1>8, <1>9 DEF PInv

LEMMA CrashInv ==
    ASSUME PInv, Crash
    PROVE  PInv'
<1>1. TypeOK /\ Proc \in Users /\ <<>> \in Seq(Docs)
  BY UpdaterAssumption DEF PInv
<1>2. at'[Proc] = NoConn /\ at' \in [Users -> Conns \cup {NoConn}] /\ UNCHANGED <<link, wire>>
  BY <1>1 DEF Crash, TypeOK, ClientTypeOK
<1>3. /\ client' \in [Conns -> ClientRecords] /\ replies' \in [Conns -> Seq(Replies)]
      /\ \A j \in Conns : ConnOK(j)'
  <2>1. CASE at[Proc] # NoConn /\ Close(at[Proc])
    <3>1. at[Proc] \in Conns
      BY <1>1, <2>1 DEF TypeOK, ClientTypeOK
    <3> QED
      BY <1>2, <2>1, <3>1, Closes
  <2>2. CASE at[Proc] = NoConn /\ UNCHANGED <<client, replies>>
    BY <1>1, <1>2, <2>2 DEF PInv, ConnOK, Quiet, IsOpen, TypeOK, ClientTypeOK
  <2> QED
    BY <2>1, <2>2 DEF Crash
<1>4. /\ stage'[Proc] = "idle" /\ got'[Proc] = NoAnswer /\ pc' = "exited" /\ lastID' = 0
      /\ MethodTypeOK' /\ got' \in [Users -> (SUBSET Docs) \cup {NoAnswer}]
      /\ deadline' \in [Users -> {"none", "ahead", "passed"}] /\ ctxDone' \in [Users -> BOOLEAN]
  BY <1>1 DEF Crash, Forget, MethodTypeOK, TypeOK, ClientTypeOK
<1>5. TypeOK'
  BY <1>1, <1>2, <1>3, <1>4, UpdaterAssumption DEF Crash, MethodTypeOK, TypeOK, ClientTypeOK, dbVars
<1>6. Stands' /\ Asks' /\ Held(NoConn)' /\ Goes(NoConn)' /\ Hears(NoConn)'
  BY <1>2, <1>4 DEF Crash, PInv, Stands, Asks, Held, Goes, Hears, Active, Waiting
<1> QED
  BY <1>2, <1>3, <1>5, <1>6 DEF PInv

\* The process comes and goes without a connection.
LEMMA ExitInv ==
    ASSUME PInv, ConnectFails \/ Start
    PROVE  PInv'
<1>1. TypeOK' /\ at[Proc] = NoConn /\ stage[Proc] = "idle" /\ UNCHANGED <<clientVars, dbVars, lastID>>
  BY DEF ConnectFails, Start, PInv, Stands, TypeOK, ClientTypeOK, clientVars, netVars, methodVars,
     ctxVars, dbVars
<1>2. pc' \in {"top", "exited"}
  BY DEF ConnectFails, Start
<1> QED
  BY <1>1, <1>2 DEF PInv, Stands, Asks, Held, Goes, Hears, ConnOK, Quiet, IsOpen, Active, Waiting,
     clientVars, netVars, methodVars, ctxVars

\* PInv, but for TypeOK, does not look at the database.
LEMMA ClientSame ==
    ASSUME PInv, TypeOK', UNCHANGED <<clientVars, pc, lastID>>
    PROVE  PInv'
<1>1. \A k \in Conns : ConnOK(k)'
  BY DEF PInv, ConnOK, Quiet, IsOpen, clientVars, netVars
<1>2. Held(at[Proc])' /\ Stands' /\ Asks'
  BY DEF PInv, Held, Stands, Asks, Quiet, IsOpen, Active, clientVars, netVars, methodVars, ctxVars
<1>3. Goes(at[Proc])'
  BY DEF PInv, Goes, MayWrite, Waits, Quiet, Active, Waiting, clientVars, netVars, methodVars, ctxVars
<1>4. Hears(at[Proc])'
  BY DEF PInv, Hears, Answered, Waiting, clientVars, netVars, methodVars
<1>5. at'[Proc] = at[Proc]
  BY DEF clientVars
<1> QED
  BY <1>1, <1>2, <1>3, <1>4, <1>5 DEF PInv

LEMMA DatabaseInv ==
    ASSUME PInv, Database
    PROVE  PInv'
<1>1. TypeOK /\ UNCHANGED <<clientVars, pc, lastID>>
  BY DEF PInv, Database
<1>2. rows' \subseteq Docs /\ uncommitted' \subseteq Docs /\ nextId' \in 1 .. (MaxId + 1)
  <2>1. CASE TakeId
    BY <1>1, <2>1, UpdaterAssumption DEF TakeId, TypeOK
  <2>2. CASE \E i \in uncommitted : CommitRow(i) \/ AbortRow(i)
    BY <1>1, <2>2 DEF CommitRow, AbortRow, TypeOK
  <2> QED
    BY <2>1, <2>2 DEF Database
<1>3. TypeOK'
  BY <1>1, <1>2 DEF TypeOK, ClientTypeOK, clientVars, netVars, methodVars, ctxVars
<1> QED
  BY <1>1, <1>3, ClientSame

LEMMA StutterInv ==
    ASSUME PInv, UNCHANGED vars
    PROVE  PInv'
<1>1. TypeOK'
  BY DEF PInv, TypeOK, ClientTypeOK, vars, clientVars, netVars, methodVars, ctxVars, dbVars
<1> QED
  BY <1>1, ClientSame DEF vars

LEMMA InitInv == Init => PInv
<1> SUFFICES ASSUME Init PROVE PInv
  OBVIOUS
<1>1. Proc \in Users /\ MaxId \in Nat
  BY UpdaterAssumption
<1>2. NewIndexClient \in ClientRecords /\ NoTx \in [open : BOOLEAN, docs : SUBSET Docs]
      /\ <<>> \in Seq(Messages) /\ <<>> \in Seq(Replies) /\ <<>> \in Seq(Docs)
  BY DEF NewIndexClient, ClientRecords, NoTx
<1>3. ClientTypeOK
  BY <1>2 DEF Init, ClientInit, ClientTypeOK
<1>4. TypeOK
  BY <1>1, <1>3 DEF Init, TypeOK
<1>5. \A k \in Conns : ConnOK(k)
  BY DEF Init, ClientInit, ConnOK, Quiet, IsOpen, NewIndexClient
<1> QED
  BY <1>1, <1>4, <1>5 DEF Init, ClientInit, PInv, Stands, Asks, Held, Goes, Hears, Active, Waiting

LEMMA NextInv == PInv /\ [Next]_vars => PInv'
<1> SUFFICES ASSUME PInv, [Next]_vars PROVE PInv'
  OBVIOUS
<1>1. CASE UpdaterStep
  BY <1>1, ConnectInv, ReconnectInv, RoundInv, GetLastInv, GetNextInv, AgainInv, ClientStepInv
     DEF UpdaterStep, InsertReturns
<1>2. CASE \E k \in Conns : Server(k)
  BY <1>2, ServeInv, BreakInv, HangUpInv DEF Server, ServerStep
<1>3. CASE FetchFails
  BY <1>3, AgainInv DEF FetchFails
<1> QED
  BY <1>1, <1>2, <1>3, ExitInv, CrashInv, DatabaseInv, TimeInv, StutterInv DEF Next

\* Every variable of the updater, of its connections and of the table has its
\* type, in whatever order transactions commit (RunUpdater).
THEOREM TypeCorrect == Spec => []TypeOK
<1>1. PInv => TypeOK
  BY DEF PInv
<1> QED
  BY <1>1, InitInv, NextInv, PTL DEF Spec

-----------------------------------------------------------------------------
(* Sets that leave no row out                                              *)

LEMMA DownUnion ==
    ASSUME NEW S, NEW T, Down(S), Down(T)
    PROVE  Down(S \cup T)
BY DEF Down

LEMMA FullGrows ==
    ASSUME NEW k \in Conns, NEW rest, Full(k, rest),
           Down(index)', index \subseteq index', rows' = rows, session'[k] = session[k]
    PROVE  Full(k, rest)'
<1> PICK S : S = index \cup session[k].docs \cup DocsIn(rest)
  OBVIOUS
<1> PICK T : T = index'
  OBVIOUS
<1>1. Down(S) /\ Down(T)
  BY DEF Full, Down
<1>2. Down(T \cup S)
  BY <1>1, DownUnion
<1>3. T \cup S = index' \cup session'[k].docs \cup DocsIn(rest)
  OBVIOUS
<1> QED
  BY <1>2, <1>3 DEF Full, Down

LEMMA DocsInTail ==
    ASSUME NEW S, NEW seq \in Seq(S), seq # <<>>
    PROVE  DocsIn(seq) = {Head(seq)} \cup DocsIn(Tail(seq))
<1>1. /\ Len(seq) \in Nat \ {0} /\ DOMAIN seq = 1 .. Len(seq)
      /\ Tail(seq) \in Seq(S) /\ Len(Tail(seq)) = Len(seq) - 1
      /\ DOMAIN Tail(seq) = 1 .. Len(Tail(seq))
      /\ \A i \in 1 .. Len(Tail(seq)) : Tail(seq)[i] = seq[i + 1]
      /\ Head(seq) = seq[1]
  OBVIOUS
<1>2. ASSUME NEW i \in DOMAIN seq PROVE seq[i] \in {Head(seq)} \cup DocsIn(Tail(seq))
  <2>1. CASE i = 1
    BY <1>1, <2>1
  <2>2. CASE i # 1
    <3>1. i - 1 \in DOMAIN Tail(seq) /\ Tail(seq)[i - 1] = seq[i]
      BY <1>1, <1>2, <2>2
    <3> QED
      BY <3>1 DEF DocsIn
  <2> QED
    BY <2>1, <2>2
<1>3. ASSUME NEW i \in DOMAIN Tail(seq) PROVE Tail(seq)[i] \in DocsIn(seq)
  <2>1. i + 1 \in DOMAIN seq /\ seq[i + 1] = Tail(seq)[i]
    BY <1>1, <1>3
  <2> QED
    BY <2>1 DEF DocsIn
<1>4. Head(seq) \in DocsIn(seq)
  <2>1. 1 \in DOMAIN seq /\ seq[1] = Head(seq)
    BY <1>1
  <2> QED
    BY <2>1 DEF DocsIn
<1>5. DocsIn(seq) \subseteq {Head(seq)} \cup DocsIn(Tail(seq))
  BY <1>2 DEF DocsIn
<1>6. DocsIn(Tail(seq)) \subseteq DocsIn(seq)
  BY <1>3 DEF DocsIn
<1> QED
  BY <1>4, <1>5, <1>6

\* A batch continues the index, wherever the result set was cut short.
LEMMA BatchFits ==
    ASSUME PInv, Down(index), NEW batch \in NextFingerprints(lastID)
    PROVE  Down(index \cup DocsIn(batch))
<1>1. DocsIn(batch) \subseteq rows
  BY BatchType
<1>2. ASSUME NEW r \in rows, NEW i \in DOMAIN batch, r <= batch[i]
      PROVE  r \in index \cup DocsIn(batch)
  <2>1. /\ r \in Int /\ r >= 1 /\ batch[i] \in Int /\ lastID \in Int
        /\ batch[i] \in Matching(lastID)
        /\ r \in Matching(lastID) => (r < batch[i] <=> \E j \in 1 .. (i - 1) : batch[j] = r)
    <3>1. PICK n \in 0 .. BatchSize : batch \in [1 .. n -> Matching(lastID)]
      BY DEF NextFingerprints
    <3>2. batch[i] \in Matching(lastID)
      BY <3>1
    <3>3. rows \subseteq Int /\ (\A x \in rows : x >= 1) /\ lastID \in Int
      BY UpdaterAssumption DEF PInv, TypeOK
    <3> QED
      BY <3>2, <3>3 DEF Matching, NextFingerprints
  <2>2. CASE r <= lastID
    BY <2>1, <2>2 DEF PInv, Hears, Down
  <2>3. CASE r > lastID /\ r = batch[i]
    BY <2>3 DEF DocsIn
  <2>4. CASE r > lastID /\ r < batch[i]
    <3>1. r \in Matching(lastID)
      BY <2>4 DEF Matching
    <3>2. PICK j \in 1 .. (i - 1) : batch[j] = r
      BY <2>1, <2>4, <3>1
    <3>3. PICK n \in 0 .. BatchSize : batch \in [1 .. n -> Matching(lastID)]
      BY DEF NextFingerprints
    <3>4. i \in 1 .. n /\ n \in Int
      BY <3>3
    <3>5. j \in DOMAIN batch
      BY <3>2, <3>3, <3>4
    <3> QED
      BY <3>2, <3>5 DEF DocsIn
  <2> QED
    BY <1>2, <2>1, <2>2, <2>3, <2>4
<1>3. \A r \in rows, s \in DocsIn(batch) : r <= s => r \in index \cup DocsIn(batch)
  BY <1>2 DEF DocsIn
<1> QED
  BY <1>1, <1>3 DEF Down

-----------------------------------------------------------------------------
(* The data in every step                                                  *)

\* Neither the server nor the database moves.
LEMMA DataSame ==
    ASSUME DInv, UNCHANGED <<index, wire, session, dbVars>>,
           pc' = "insert" /\ Active' => Progress(at[Proc])'
    PROVE  DInv'
<1>1. TableOK' /\ Down(index)'
  BY DEF DInv, TableOK, Down, dbVars
<1>2. \A k \in Conns : CommitOK(k)'
  BY DEF DInv, CommitOK, Full, Down, dbVars
<1> QED
  BY <1>1, <1>2 DEF DInv

LEMMA FailsData ==
    ASSUME PInv, DInv, UNCHANGED <<dbVars, pc, lastID>>,
           \/ Refuse(Proc) \/ WriteFails(Proc) \/ ReadFails(Proc) \/ ReadERR(Proc) \/ ReadJunk(Proc)
           \/ CheckContext(Proc) /\ AfterError(Proc)
    PROVE  DInv'
<1>1. AfterError(Proc) /\ UNCHANGED <<index, wire, session, at>>
  BY DEF Refuse, WriteFails, ReadFails, ReadERR, ReadJunk, CheckContext, Accept, netVars
<1>2. RolledBack
  BY <1>1, Errs DEF PInv
<1>3. Active' => Progress(at[Proc])'
  BY <1>2 DEF Active, RolledBack, Progress, Answered, Waiting
<1> QED
  BY <1>1, <1>3, DataSame

LEMMA CheckContextData ==
    ASSUME PInv, DInv, CheckContext(Proc), UNCHANGED <<dbVars, pc, lastID>>
    PROVE  DInv'
<1>1. CASE AfterError(Proc)
  BY <1>1, FailsData
<1>2. CASE stage' = [stage EXCEPT ![Proc] = "read"] /\ UNCHANGED <<req, todo, outcome>>
  <2>1. /\ stage[Proc] = "wrote" /\ stage'[Proc] = "read"
        /\ UNCHANGED <<link, wire, replies, session, index, at>>
    BY <1>2, UpdaterAssumption DEF CheckContext, PInv, TypeOK, ClientTypeOK, netVars
  <2>2. pc = "insert" => Progress(at[Proc])'
    BY <1>2, <2>1 DEF DInv, Active, Progress, Answered, Waiting, Full, Down, dbVars
  <2> QED
    BY <2>1, <2>2, DataSame
<1> QED
  BY <1>1, <1>2 DEF CheckContext

LEMMA WriteData ==
    ASSUME PInv, DInv, Write(Proc), UNCHANGED <<dbVars, pc, lastID>>
    PROVE  DInv'
<1>1. /\ Active /\ stage[Proc] = "send"
      /\ UNCHANGED <<link, replies, session, index, at, req, todo, rows>>
  BY DEF Write, Active, dbVars
<1> PICK k \in Conns : k = at[Proc]
  BY <1>1, Busy
<1>2. /\ Quiet(k) /\ Line.kind = req[Proc]
      /\ req[Proc] = "insert" => Line.docs = {Head(todo[Proc])}
      /\ \A j \in Conns \ {k} : wire'[j] = wire[j]
      /\ wire'[k] # <<>> => link[k] = "up" /\ wire'[k] = <<Line>>
  BY Written
<1>3. stage'[Proc] = "wrote"
  BY <1>1, UpdaterAssumption DEF Write, PInv, TypeOK, ClientTypeOK
<1>4. \A j \in Conns : \A rest : Full(j, rest)' <=> Full(j, rest)
  BY <1>1 DEF Full, Down
<1> PICK m : m = Line
  OBVIOUS
<1>5. wire'[k] # <<>> => Head(wire'[k]) = m
  BY <1>2
<1>6. pc = "insert" => Progress(k)
  BY <1>1 DEF DInv
<1>7. pc = "insert" => Progress(k)'
  <2> SUFFICES ASSUME pc = "insert" PROVE Progress(k)'
    OBVIOUS
  <2>1. ~Answered(k)'
    BY <1>1, <1>2 DEF Answered, Quiet
  <2>2. wire'[k] # <<>> /\ req[Proc] \in {"insert", "commit"} => Full(k, todo[Proc])
    BY <1>1, <1>2, <1>6 DEF Progress
  <2>3. wire'[k] # <<>> /\ req[Proc] = "insert" => Head(wire'[k]).docs = {Head(todo[Proc])}
    BY <1>2, <1>5, Zenon
  <2>4. req[Proc] = "begin" => Down(index \cup DocsIn(todo[Proc]))'
    BY <1>1, <1>6 DEF Progress, Down
  <2> QED
    BY <1>1, <1>3, <1>4, <1>6, <2>1, <2>2, <2>3, <2>4 DEF Progress
<1>8. \A j \in Conns : CommitOK(j)'
  <2>1. CommitOK(k)'
    <3> SUFFICES ASSUME wire'[k] # <<>>, m.kind = "commit" PROVE Full(k, <<>>)'
      BY <1>5 DEF CommitOK
    <3>1. req[Proc] = "commit" /\ link[k] = "up"
      BY <1>2
    <3>2. pc = "insert"
      BY <1>1, <3>1, Busy DEF PInv, Asks
    <3>3. Full(k, todo[Proc]) /\ todo[Proc] = <<>>
      BY <1>1, <1>6, <3>1, <3>2 DEF Progress
    <3> QED
      BY <1>4, <3>3
  <2>2. ASSUME NEW j \in Conns \ {k} PROVE CommitOK(j)'
    BY <1>2, <1>4, <2>2 DEF DInv, CommitOK
  <2> QED
    BY <2>1, <2>2
<1>9. TableOK' /\ Down(index)'
  BY <1>1 DEF DInv, TableOK, Down, dbVars
<1> QED
  BY <1>1, <1>7, <1>8, <1>9 DEF DInv

LEMMA ReadOKData ==
    ASSUME PInv, DInv, ReadOK(Proc), UNCHANGED <<dbVars, pc, lastID>>
    PROVE  DInv'
<1>1. /\ Active /\ AfterOK(Proc) /\ stage[Proc] = "read"
      /\ UNCHANGED <<link, wire, session, index, at, rows>>
  BY DEF ReadOK, Accept, Active, dbVars
<1> PICK k \in Conns : k = at[Proc]
  BY <1>1, Busy
<1>2. WentOn /\ Answered(k)
  BY <1>1, Busy, GoesOn DEF ReadOK, Accept, Answered, Waiting
<1>3. \A rest : Full(k, rest)' <=> Full(k, rest)
  BY <1>1 DEF Full, Down
<1>4. pc = "insert" /\ Active' => Progress(k)'
  <2> SUFFICES ASSUME pc = "insert", Active' PROVE Progress(k)'
    OBVIOUS
  <2>1. Progress(k)
    BY <1>1 DEF DInv
  <2>2. /\ req[Proc] \in {"begin", "insert"} /\ stage'[Proc] = "send"
        /\ todo'[Proc] = IF req[Proc] = "begin" THEN todo[Proc] ELSE Tail(todo[Proc])
        /\ req'[Proc] = IF todo'[Proc] = <<>> THEN "commit" ELSE "insert"
    BY <1>2 DEF WentOn, Active
  <2>3. link[k] = "up" => Full(k, todo'[Proc])
    BY <1>2, <2>1, <2>2 DEF Progress
  <2> QED
    BY <1>1, <1>3, <2>2, <2>3 DEF Progress, Answered, Waiting
<1> QED
  BY <1>1, <1>4, DataSame

LEMMA ClientStepData ==
    ASSUME PInv, DInv, ClientStep(Proc), UNCHANGED <<dbVars, pc, lastID>>
    PROVE  DInv'
BY FailsData, CheckContextData, WriteData, ReadOKData DEF ClientStep

LEMMA ServeData ==
    ASSUME PInv, DInv, NEW k \in Conns, Serve(k), UNCHANGED <<dbVars, pc, lastID>>
    PROVE  DInv'
<1> PICK m \in Messages, status \in {"OK", "ERR", "junk"} : wire[k] = <<m>> /\ ServedAs(k, m, status)
  BY Serves
<1>1. /\ TypeOK /\ wire[k] # <<>> /\ Head(wire[k]) = m
      /\ UNCHANGED <<client, link, at, stage, req, todo, rows, pc>>
  BY DEF PInv, Serve, methodVars, dbVars
<1>2. index' = index \/ (m.kind = "commit" /\ index' = index \cup session[k].docs)
  BY DEF ServedAs
<1>3. Down(index)' /\ index \subseteq index' /\ TableOK'
  <2>1. m.kind = "commit" => Down(index \cup session[k].docs)
    <3>1. m.kind = "commit" => Down(index \cup session[k].docs \cup DocsIn(<<>>))
      BY <1>1 DEF DInv, CommitOK, Full
    <3>2. DocsIn(<<>>) = {}
      BY DEF DocsIn
    <3> QED
      BY <3>1, <3>2
  <2> QED
    BY <1>1, <1>2, <2>1 DEF DInv, TableOK, Down, dbVars
<1>4. \A j \in Conns \ {k} : /\ wire'[j] = wire[j] /\ replies'[j] = replies[j]
                             /\ \A rest : Full(j, rest) => Full(j, rest)'
  <2>1. ASSUME NEW j \in Conns \ {k}
        PROVE  wire'[j] = wire[j] /\ replies'[j] = replies[j] /\ session'[j] = session[j]
    BY DEF ServedAs
  <2> QED
    BY <1>1, <1>3, <2>1, FullGrows
<1>5. \A j \in Conns : CommitOK(j)'
  BY <1>4 DEF DInv, CommitOK, ServedAs
<1>6. ASSUME Down(index \cup DocsIn(todo[Proc])) PROVE Down(index \cup DocsIn(todo[Proc]))'
  <2> PICK S : S = index \cup DocsIn(todo[Proc])
    OBVIOUS
  <2> PICK T : T = index'
    OBVIOUS
  <2>1. Down(S) /\ Down(T)
    BY <1>1, <1>3, <1>6 DEF Down
  <2>2. Down(T \cup S)
    BY <2>1, DownUnion
  <2>3. T \cup S = index' \cup DocsIn(todo'[Proc])
    BY <1>1, <1>3
  <2> QED
    BY <1>1, <2>2, <2>3 DEF Down
<1>7. ASSUME pc = "insert", Active PROVE Progress(at[Proc])'
  <2>1. Progress(at[Proc]) /\ at[Proc] \in Conns
    BY <1>7, Busy DEF DInv
  <2>2. CASE at[Proc] # k
    BY <1>1, <1>4, <1>6, <2>1, <2>2 DEF Progress, Answered, Waiting
  <2>3. CASE at[Proc] = k
    <3>1. CASE stage[Proc] = "send"
      <4>1. req[Proc] = "rollback"
        BY <1>1, <2>3, <3>1 DEF PInv, Goes, Quiet
      <4> QED
        BY <1>1, <2>3, <3>1, <4>1 DEF Progress, Answered, Waiting
    <3>2. CASE Waiting
      <4> PICK r : r = Reply(Proc, m.kind, status)
        OBVIOUS
      <4>1. m.kind = req[Proc] /\ replies[k] = <<>>
        BY <1>1, <2>3, <3>2 DEF PInv, Goes, Waits
      <4>2. replies'[k] # <<>> => Head(replies'[k]) = r
        <5>1. Append(<<>>, r) = <<r>> /\ Head(<<r>>) = r
          OBVIOUS
        <5>2. replies'[k] = <<>> \/ replies'[k] = <<r>>
          BY <4>1, <5>1 DEF ServedAs
        <5> QED
          BY <5>1, <5>2, Zenon
      <4>3. Answered(k)' => /\ session'[k] = SessionAfter(session[k], m)
                            /\ req[Proc] # "commit" => index' = index
        <5>1. r.status = status
          BY DEF Reply
        <5> QED
          BY <4>1, <4>2, <5>1 DEF Answered, ServedAs
      <4>4. Answered(k)' /\ req[Proc] = "begin" => Full(k, todo[Proc])'
        <5> SUFFICES ASSUME Answered(k)', req[Proc] = "begin" PROVE Full(k, todo[Proc])'
          OBVIOUS
        <5>1. session'[k].docs = {} /\ Down(index \cup DocsIn(todo[Proc]))'
          BY <1>6, <2>1, <2>3, <4>1, <4>3 DEF SessionAfter, Progress
        <5> QED
          BY <5>1 DEF Full, Down
      <4>5. Answered(k)' /\ req[Proc] = "insert" => Full(k, Tail(todo[Proc]))'
        <5> SUFFICES ASSUME Answered(k)', req[Proc] = "insert" PROVE Full(k, Tail(todo[Proc]))'
          OBVIOUS
        <5> PICK seq : seq = todo[Proc]
          OBVIOUS
        <5>1. seq \in Seq(Docs) /\ seq # <<>> /\ index' = index /\ todo'[Proc] = seq
          BY <1>1, <1>7, <4>3, Busy DEF TypeOK, ClientTypeOK
        <5>2. m.docs = {Head(seq)} /\ Full(k, seq)
          BY <1>1, <2>1, <2>3, <3>2 DEF Progress
        <5>3. session'[k].docs = session[k].docs \cup m.docs
          <6>1. session[k] \in [open : BOOLEAN, docs : SUBSET Docs]
            BY <1>1 DEF TypeOK, ClientTypeOK
          <6> QED
            BY <4>1, <4>3, <6>1 DEF SessionAfter
        <5>4. DocsIn(seq) = {Head(seq)} \cup DocsIn(Tail(seq))
          BY <5>1, DocsInTail
        <5>5. index \cup session[k].docs \cup DocsIn(seq) = index' \cup session'[k].docs \cup DocsIn(Tail(seq))
          BY <5>1, <5>2, <5>3, <5>4
        <5>6. Down(index' \cup session'[k].docs \cup DocsIn(Tail(seq)))
          BY <5>2, <5>5 DEF Full
        <5> QED
          BY <1>1, <5>1, <5>6 DEF Full, Down
      <4>6. wire'[k] = <<>> /\ stage'[Proc] # "send" /\ at'[Proc] = k
        BY <1>1, <2>3, <3>2 DEF ServedAs, Waiting
      <4> QED
        BY <1>1, <1>6, <2>1, <2>3, <4>4, <4>5, <4>6 DEF Progress
    <3> QED
      BY <1>7, <3>1, <3>2 DEF Active, Waiting
  <2> QED
    BY <2>2, <2>3
<1> QED
  BY <1>1, <1>3, <1>5, <1>7 DEF DInv, Active

\* A connection goes: the server forgets its transaction and its requests.
LEMMA GoneData ==
    ASSUME PInv, DInv, NEW k \in Conns, wire'[k] = <<>>,
           \A j \in Conns \ {k} : /\ wire'[j] = wire[j] /\ replies'[j] = replies[j]
                                  /\ session'[j] = session[j] /\ link'[j] = link[j],
           at[Proc] = k => link'[k] # "up",
           UNCHANGED <<index, at, methodVars, dbVars, pc>>
    PROVE  DInv'
<1>1. TableOK' /\ Down(index)'
  BY DEF DInv, TableOK, Down, dbVars
<1>2. \A j \in Conns : CommitOK(j)'
  BY DEF DInv, CommitOK, Full, Down, dbVars
<1>3. ASSUME pc = "insert", Active PROVE Progress(at[Proc])'
  <2>1. Progress(at[Proc]) /\ at[Proc] \in Conns
    BY <1>3, Busy DEF DInv
  <2>2. CASE at[Proc] # k
    BY <2>1, <2>2 DEF Progress, Answered, Waiting, Full, Down, methodVars, dbVars
  <2>3. CASE at[Proc] = k
    BY <2>1, <2>3 DEF Progress, Down, methodVars, dbVars
  <2> QED
    BY <2>2, <2>3
<1> QED
  BY <1>1, <1>2, <1>3 DEF DInv, Active, methodVars

LEMMA BreakData ==
    ASSUME PInv, DInv, NEW k \in Conns, Break(k), UNCHANGED <<dbVars, pc, lastID>>
    PROVE  DInv'
<1>1. TypeOK
  BY DEF PInv
<1>2. /\ wire'[k] = <<>> /\ link'[k] = "down"
      /\ \A j \in Conns \ {k} : wire'[j] = wire[j] /\ session'[j] = session[j] /\ link'[j] = link[j]
  BY <1>1 DEF Break, TypeOK, ClientTypeOK
<1>3. \A j \in Conns \ {k} : replies'[j] = replies[j]
  <2>1. CASE replies' = replies
    BY <2>1
  <2>2. CASE replies' = [replies EXCEPT ![k] = <<>>]
    BY <1>1, <2>2 DEF TypeOK, ClientTypeOK
  <2> QED
    BY <2>1, <2>2 DEF Break
<1> QED
  BY <1>2, <1>3, GoneData DEF Break

LEMMA HangUpData ==
    ASSUME PInv, DInv, NEW k \in Conns, HangUp(k), UNCHANGED <<dbVars, pc, lastID>>
    PROVE  DInv'
<1>1. /\ wire'[k] = <<>> /\ link'[k] = "free" /\ UNCHANGED <<wire, replies>>
      /\ \A j \in Conns \ {k} : session'[j] = session[j] /\ link'[j] = link[j]
  BY DEF HangUp, PInv, TypeOK, ClientTypeOK
<1> QED
  BY <1>1, GoneData DEF HangUp

LEMMA TimeData ==
    ASSUME PInv, DInv, Time
    PROVE  DInv'
<1>1. UNCHANGED <<netVars, at, methodVars, dbVars, pc>>
  BY DEF Time, TimerFires, DeadlinePasses, ContextEnds
<1>2. pc = "insert" /\ Active => Progress(at[Proc])'
  BY <1>1 DEF DInv, Progress, Answered, Waiting, Full, Down, netVars, methodVars, dbVars
<1> QED
  BY <1>1, <1>2, DataSame DEF Active, netVars, methodVars

LEMMA GetNextData ==
    ASSUME PInv, DInv, GetNextFingerprints
    PROVE  DInv'
<1> PICK batch \in NextFingerprints(lastID) : Invoke(Proc, at[Proc], "Insert", batch)
  BY DEF GetNextFingerprints
<1>1. TypeOK /\ UNCHANGED <<index, wire, session, dbVars, at>>
  BY DEF PInv, GetNextFingerprints, netVars
<1>2. batch \in Seq(Docs) /\ Down(index \cup DocsIn(batch))
  BY BatchType, BatchFits DEF DInv
<1>3. \/ stage'[Proc] = "returned"
      \/ stage'[Proc] = "send" /\ req'[Proc] = "begin" /\ todo'[Proc] = batch
  <2>1. "begin" \in Requests
    BY DEF Requests, TxRequests
  <2> QED
    BY <1>1, <1>2, <2>1, Sends, Returns DEF Invoke
<1>4. Active' => Progress(at[Proc])'
  BY <1>1, <1>2, <1>3 DEF Active, Progress, Answered, Waiting, Down, dbVars
<1> QED
  BY <1>1, <1>4, DataSame

\* Ids are handed out upwards; transactions that commit in the order of their
\* ids add every row above those that are there.
LEMMA DatabaseData ==
    ASSUME InOrder, PInv, DInv, Database
    PROVE  DInv'
<1>1. /\ TypeOK /\ TableOK /\ UNCHANGED <<clientVars, pc, lastID>>
      /\ rows \subseteq Int /\ uncommitted \subseteq Int /\ nextId \in Int
  BY UpdaterAssumption DEF PInv, DInv, Database, TypeOK
<1>2. TableOK' /\ rows \subseteq rows' /\ \A r \in rows, i \in rows' \ rows : r < i
  <2>1. CASE TakeId
    BY <1>1, <2>1 DEF TakeId, TableOK
  <2>2. ASSUME NEW i \in uncommitted, CommitRow(i)
        PROVE  TableOK' /\ rows \subseteq rows' /\ \A r \in rows, j \in rows' \ rows : r < j
    <3>1. /\ \A j \in uncommitted : i <= j
          /\ uncommitted' = uncommitted \ {i} /\ rows' = rows \cup {i} /\ nextId' = nextId
      BY <2>2 DEF CommitRow
    <3> QED
      BY <1>1, <3>1 DEF TableOK
  <2>3. ASSUME NEW i \in uncommitted, AbortRow(i)
        PROVE  TableOK' /\ rows \subseteq rows' /\ \A r \in rows, j \in rows' \ rows : r < j
    BY <1>1, <2>3 DEF AbortRow, TableOK
  <2> QED
    BY <2>1, <2>2, <2>3 DEF Database
<1>3. ASSUME NEW S, Down(S) PROVE Down(S)'
  <2>1. ASSUME NEW r \in rows', NEW s \in S, r <= s PROVE r \in S
    <3>1. s \in rows /\ s \in Int
      BY <1>1, <1>3 DEF Down
    <3>2. r \in rows
      <4> SUFFICES ASSUME r \in rows' \ rows PROVE FALSE
        BY <2>1
      <4>1. s < r /\ r \in Int
        BY <1>2, <3>1, UpdaterAssumption DEF Database, TakeId, CommitRow, AbortRow, PInv, TypeOK
      <4> QED
        BY <2>1, <3>1, <4>1
    <3> QED
      BY <1>3, <2>1, <3>1, <3>2 DEF Down
  <2> QED
    BY <1>2, <1>3, <2>1 DEF Down
<1>4. /\ Down(index) => Down(index)'
      /\ Down(index \cup DocsIn(todo[Proc])) => Down(index \cup DocsIn(todo[Proc]))'
  <2> PICK S : S = index
    OBVIOUS
  <2> PICK T : T = index \cup DocsIn(todo[Proc])
    OBVIOUS
  <2>1. (Down(S) => Down(S)') /\ (Down(T) => Down(T)')
    BY <1>3
  <2> QED
    BY <1>1, <2>1 DEF Down, clientVars, netVars, methodVars
<1>5. ASSUME NEW k \in Conns, NEW rest, Full(k, rest) PROVE Full(k, rest)'
  <2> PICK S : S = index \cup session[k].docs \cup DocsIn(rest)
    OBVIOUS
  <2>1. Down(S)'
    BY <1>3, <1>5 DEF Full
  <2> QED
    BY <1>1, <2>1 DEF Full, Down, clientVars, netVars
<1>6. \A k \in Conns : CommitOK(k)'
  BY <1>1, <1>5 DEF DInv, CommitOK, clientVars, netVars
<1>7. ASSUME pc = "insert", Active PROVE Progress(at[Proc])'
  <2>1. Progress(at[Proc]) /\ at[Proc] \in Conns
    BY <1>7, Busy DEF DInv
  <2>2. \A rest : Full(at[Proc], rest) => Full(at[Proc], rest)'
    <3> PICK k \in Conns : k = at[Proc]
      BY <2>1
    <3>1. \A rest : Full(k, rest) => Full(k, rest)'
      BY <1>5
    <3>2. at' = at
      BY <1>1 DEF clientVars
    <3> QED
      BY <3>1, <3>2 DEF Full, Down
  <2>3. /\ stage' = stage /\ req' = req /\ todo' = todo /\ at' = at
        /\ link' = link /\ wire' = wire /\ replies' = replies
    BY <1>1 DEF clientVars, netVars, methodVars
  <2>4. /\ Full(at[Proc], todo[Proc]) => Full(at[Proc], todo[Proc])'
        /\ Full(at[Proc], Tail(todo[Proc])) => Full(at[Proc], Tail(todo[Proc]))'
    BY <2>2, <2>3
  <2> QED
    BY <1>4, <2>1, <2>3, <2>4 DEF Progress, Answered, Waiting
<1> QED
  BY <1>1, <1>2, <1>4, <1>6, <1>7 DEF DInv, Active, clientVars, methodVars

-----------------------------------------------------------------------------
(* The theorem                                                             *)

LEMMA DataInit == Init => DInv
BY DEF Init, ClientInit, DInv, TableOK, Down, CommitOK

LEMMA DataNext ==
    ASSUME InOrder
    PROVE  PInv /\ DInv /\ [Next]_vars => DInv'
<1> SUFFICES ASSUME PInv, DInv, [Next]_vars PROVE DInv'
  OBVIOUS
<1>1. ASSUME UNCHANGED <<index, wire, session, dbVars>>, pc' # "insert" \/ stage'[Proc] = "returned"
      PROVE  DInv'
  BY <1>1, DataSame DEF Active
<1>2. CASE UpdaterStep
  <2>1. CASE (\E k \in Conns : Connect(k)) \/ Round
    BY <1>1, <2>1 DEF Connect, Round, NewRound, netVars
  <2>2. CASE Reconnect
    BY <1>1, <2>2 DEF Reconnect
  <2>3. CASE GetLastFingerprintID \/ InsertReturns
    BY <1>1, <2>3 DEF GetLastFingerprintID, InsertReturns, Again, netVars
  <2> QED
    BY <1>2, <2>1, <2>2, <2>3, GetNextData, ClientStepData DEF UpdaterStep
<1>3. CASE \E k \in Conns : Server(k)
  BY <1>3, ServeData, BreakData, HangUpData DEF Server, ServerStep
<1>4. CASE FetchFails \/ Crash
  BY <1>1, <1>4 DEF FetchFails, Again, Crash, netVars
<1>5. CASE ConnectFails \/ Start
  BY <1>1, <1>5 DEF ConnectFails, Start, clientVars, netVars
<1>6. CASE UNCHANGED vars
  <2>1. UNCHANGED <<netVars, at, methodVars, dbVars, pc>>
    BY <1>6 DEF vars, clientVars
  <2>2. pc = "insert" /\ Active => Progress(at[Proc])'
    BY <2>1 DEF DInv, Progress, Answered, Waiting, Full, Down, netVars, methodVars, dbVars
  <2> QED
    BY <2>1, <2>2, DataSame DEF Active, netVars, methodVars
<1> QED
  BY <1>2, <1>3, <1>4, <1>5, <1>6, TimeData, DatabaseData DEF Next

\* While transactions commit in the order of their ids no committed row is left
\* behind for good: whatever is lost, cut short, applied late or interrupted by
\* a crash, every row below the highest id in the index is in the index
\* (RunUpdater reads max_document_id and asks for the rows above it only).
THEOREM NoRowIsSkipped ==
    ASSUME InOrder
    PROVE  Spec => []NothingSkipped
<1>1. PInv /\ DInv => NothingSkipped
  <2> SUFFICES ASSUME PInv, DInv, NEW i \in rows, i <= Highest(index) PROVE i \in index
    BY DEF NothingSkipped
  <2>1. index \in SUBSET Docs /\ i \in Nat /\ i >= 1
    BY UpdaterAssumption DEF PInv, TypeOK, ClientTypeOK
  <2>2. Highest(index) \in index
    BY <2>1, HighestIsIn
  <2> QED
    BY <2>2 DEF DInv, Down
<1>2. Init => PInv /\ DInv
  BY InitInv, DataInit
<1>3. PInv /\ DInv /\ [Next]_vars => PInv' /\ DInv'
  BY NextInv, DataNext
<1> QED
  BY <1>1, <1>2, <1>3, PTL DEF Spec

=============================================================================
