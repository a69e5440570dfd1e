------------------------ MODULE IndexClientPoolProofs ------------------------
(***************************************************************************)
(* Theorems about IndexClientPool, for every set of calls and connections, *)
(* every pool limit and all batches.                                       *)
(*                                                                         *)
(* IInv is the inductive invariant.  UserOK says where a user stands in    *)
(* its exchange with the server, ConnOK what a connection looks like when  *)
(* nobody uses it, Owners that a connection has one user.  A step of a     *)
(* user touches that user and its connection only; the lemmas UserFrame    *)
(* and ConnFrame carry everything else over.                               *)
(*                                                                         *)
(* The second part shows that the pool implements IndexService, and so     *)
(* keeps what IndexServiceProofs concludes from that.  SInv adds to IInv   *)
(* what the server knows: a commit on its way ends a transaction that      *)
(* contains the batch of its call as a whole, and a query is asked once.   *)
(***************************************************************************)
EXTENDS IndexClientPool, TLAPS

Quiet(k) == wire[k] = <<>> /\ replies[k] = <<>>

\* At most the request u wrote last, or the reply to it, is under way on k.
Exchange(u, k) ==
    \/ Quiet(k)
    \/ /\ replies[k] = <<>>
       /\ \E d \in SUBSET Docs : wire[k] = <<Message(u, req[u], d)>>
    \/ /\ wire[k] = <<>>
       /\ \E s \in {"OK", "ERR", "junk"} : replies[k] = <<Reply(u, req[u], s)>>

\* Before a request: nothing is under way, or the request will not be written.
MayWrite(u, k) ==
    \/ Quiet(k) /\ (client[k].hasError \/ client[k].unanswered = 0)
    \/ client[k].hasError /\ deadline[u] = "passed"
    \/ ctxDone[u]

\* After a request: what is under way on k is its exchange.
Waits(u, k) ==
    /\ client[k].unanswered >= 1
    /\ ~client[k].hasError => client[k].unanswered = 1
    /\ Exchange(u, k)
    /\ sockDl[k] = DeadlineOf(u)

\* A connection with an error is used for nothing but a rollback, and a method
\* that succeeds leaves a connection that IsOK.
Sound(u, k) ==
    /\ stage[u] \in {"send", "wrote", "read"} /\ req[u] # "rollback" => ~client[k].hasError
    /\ stage[u] = "returned" /\ outcome[u] = "ok" => IsOK(client[k])

Holds(u, k) ==
    /\ k \in Conns
    /\ IsOpen(k)
    /\ k \notin idle
    /\ IsOK(client[k]) => Quiet(k)

UserOK(u) ==
    /\ stage[u] = "idle" <=> at[u] = NoConn
    /\ at[u] # NoConn => Holds(u, at[u])
    /\ stage[u] \in {"send", "wrote", "read"} =>
          req[u] \in Requests /\ (req[u] = "insert" => todo[u] # <<>>)
    /\ stage[u] = "send" => MayWrite(u, at[u])
    /\ stage[u] \in {"wrote", "read"} => Waits(u, at[u])
    /\ at[u] # NoConn => Sound(u, at[u])

Deserted(k) ==
    /\ Quiet(k)
    /\ ~client[k].closed
    /\ ~client[k].hasDeadline

ConnOK(k) ==
    /\ link[k] = "free" => Deserted(k)
    /\ link[k] = "down" => wire[k] = <<>>
    /\ client[k].closed => replies[k] = <<>>
    /\ client[k].hasDeadline <=> sockDl[k] # NoUser
    /\ k \in idle => IsOpen(k) /\ IsOK(client[k]) /\ Quiet(k)
    /\ IsOpen(k) => k \in idle \/ \E u \in Users : at[u] = k

Owners == \A u, v \in Users : at[u] = at[v] /\ at[u] # NoConn => u = v

CallOK(c) == phase[c] \in {"ping", "run"} <=> at[c] # NoConn

IInv ==
    /\ TypeOK
    /\ Owners
    /\ \A u \in Users : UserOK(u)
    /\ \A k \in Conns : ConnOK(k)
    /\ \A c \in Calls : CallOK(c)

-----------------------------------------------------------------------------
(* Types.                                                                  *)

MethodTypeOK ==
    /\ stage \in [Users -> {"idle", "send", "wrote", "read", "returned"}]
    /\ req \in [Users -> Requests \cup {"none"}]
    /\ todo \in [Users -> Seq(Docs)]
    /\ outcome \in [Users -> {"none", "ok", "error"}]

\* One connection is given a new client record; the others keep theirs.
LEMMA ClientSet ==
    ASSUME TypeOK, NEW k \in Conns, NEW c \in ClientRecords, client' = [client EXCEPT ![k] = c]
    PROVE  /\ client' \in [Conns -> ClientRecords]
           /\ client'[k] = c
           /\ \A j \in Conns \ {k} : client'[j] = client[j]
  <1>1. client \in [Conns -> ClientRecords]
    BY DEF TypeOK, ClientTypeOK
  <1>. QED  BY <1>1

\* What a step of the client changes in one record.
LEMMA ClientFails ==
    ASSUME NEW c \in ClientRecords, NEW d, d = [c EXCEPT !.hasError = TRUE]
    PROVE  /\ d \in ClientRecords
           /\ d.hasError /\ d.closed = c.closed /\ d.hasDeadline = c.hasDeadline
  BY DEF ClientRecords

LEMMA ClientCloses ==
    ASSUME NEW c \in ClientRecords, NEW d, d = [c EXCEPT !.closed = TRUE]
    PROVE  d \in ClientRecords /\ d.closed /\ d.hasDeadline = c.hasDeadline
  BY DEF ClientRecords

LEMMA ClientReads ==
    ASSUME NEW c \in ClientRecords, c.unanswered - 1 \in Nat, NEW tx \in BOOLEAN,
           NEW d, d = [c EXCEPT !.unanswered = @ - 1, !.tx = tx]
    PROVE  /\ d \in ClientRecords
           /\ d.closed = c.closed /\ d.hasError = c.hasError
           /\ d.hasDeadline = c.hasDeadline /\ d.unanswered = c.unanswered - 1
  BY DEF ClientRecords

\* What a held connection and an active user give to the steps of a user.
LEMMA ActiveUser ==
    ASSUME IInv, NEW u \in Users, stage[u] # "idle"
    PROVE  /\ at[u] \in Conns
           /\ IsOpen(at[u])
           /\ at[u] \notin idle
           /\ \A v \in Users : at[v] = at[u] => v = u
  BY DEF IInv, UserOK, Holds, Owners, TypeOK, ClientTypeOK

\* A method goes on with its next request or returns; no other user moves.
Continued(u) ==
    /\ MethodTypeOK'
    /\ \A v \in Users \ {u} :
          /\ stage'[v] = stage[v] /\ req'[v] = req[v] /\ todo'[v] = todo[v]
          /\ outcome'[v] = outcome[v]
    /\ \/ stage'[u] = "returned"
       \/ /\ stage'[u] = "send"
          /\ req'[u] \in Requests
          /\ req'[u] = "insert" => todo'[u] # <<>>

\* It goes on after an error: it rolls back or fails.
Failed(u) ==
    /\ Continued(u)
    /\ stage'[u] = "send" => req'[u] = "rollback"
    /\ stage'[u] = "returned" => outcome'[u] = "error"

LEMMA SendContinues ==
    ASSUME TypeOK, NEW u \in Users, NEW r \in Requests, NEW rest \in Seq(Docs),
           r = "insert" => rest # <<>>, Send(u, r, rest)
    PROVE  Continued(u) /\ (r = "rollback" => Failed(u))
  BY DEF Send, Continued, Failed, TypeOK, ClientTypeOK, MethodTypeOK

LEMMA ReturnContinues ==
    ASSUME TypeOK, NEW u \in Users, NEW result_ \in {"ok", "error"}, Return(u, result_)
    PROVE  Continued(u) /\ (result_ = "error" => Failed(u))
  BY DEF Return, Continued, Failed, TypeOK, ClientTypeOK, MethodTypeOK

LEMMA AfterContinues ==
    ASSUME TypeOK, NEW u \in Users,
           req[u] = "insert" => todo[u] # <<>>,
           AfterOK(u) \/ AfterError(u)
    PROVE  Continued(u) /\ (AfterError(u) \/ req[u] = "rollback" => Failed(u))
  <1>1. /\ {"insert", "commit", "rollback"} \subseteq Requests
        /\ todo[u] \in Seq(Docs)
    BY DEF Requests, TxRequests, TypeOK, ClientTypeOK
  <1>2. ASSUME NEW rest \in Seq(Docs), NextInsert(u, rest) PROVE Continued(u)
    BY <1>1, <1>2, SendContinues DEF NextInsert
  <1>3. req[u] = "insert" => Tail(todo[u]) \in Seq(Docs)
    BY <1>1
  <1>4. ASSUME AfterOK(u) PROVE Continued(u) /\ (req[u] = "rollback" => Failed(u))
    <2>1. CASE req[u] = "begin" /\ NextInsert(u, todo[u])
      BY <1>1, <1>2, <2>1
    <2>2. CASE req[u] = "insert" /\ NextInsert(u, Tail(todo[u]))
      BY <1>2, <1>3, <2>2
    <2>3. CASE req[u] \in {"commit", "echo"} \cup Queries /\ Return(u, "ok")
      <3>1. Continued(u)
        BY <2>3, ReturnContinues
      <3>. QED  BY <2>3, <3>1 DEF Queries
    <2>4. CASE req[u] \in {"rollback", "search"} /\ Return(u, "error")
      <3>1. Failed(u)
        BY <2>4, ReturnContinues
      <3>. QED  BY <3>1 DEF Failed
    <2>. QED  BY <1>4, <2>1, <2>2, <2>3, <2>4 DEF AfterOK
  <1>5. ASSUME AfterError(u) PROVE Failed(u)
    BY <1>1, <1>5, SendContinues, ReturnContinues DEF AfterError
  <1>6. Failed(u) => Continued(u)
    BY DEF Failed
  <1>. QED  BY <1>4, <1>5, <1>6

LEMMA InvokeContinues ==
    ASSUME TypeOK, NEW u \in Users, NEW k, NEW m, NEW batch \in Seq(Docs),
           Invoke(u, k, m, batch)
    PROVE  Continued(u)
  <1>1. {"echo", "search", "get attribute", "begin"} \subseteq Requests /\ <<>> \in Seq(Docs)
    BY DEF Requests, TxRequests, Queries
  <1>. QED  BY <1>1, SendContinues, ReturnContinues DEF Invoke

-----------------------------------------------------------------------------
(* Frames: a step leaves alone the users and connections it does not name. *)

UserSame(v) ==
    /\ stage'[v] = stage[v] /\ req'[v] = req[v] /\ todo'[v] = todo[v]
    /\ outcome'[v] = outcome[v] /\ at'[v] = at[v]
    /\ deadline'[v] = deadline[v] /\ (ctxDone[v] => ctxDone'[v])

ConnSame(k) ==
    /\ client'[k] = client[k] /\ sockDl'[k] = sockDl[k] /\ link'[k] = link[k]
    /\ wire'[k] = wire[k] /\ replies'[k] = replies[k]

LEMMA UserFrame ==
    ASSUME NEW v \in Users, UserOK(v), UserSame(v),
           at[v] # NoConn => ConnSame(at[v]) /\ at[v] \notin idle'
    PROVE  UserOK(v)'
  <1>1. DeadlineOf(v)' = DeadlineOf(v)
    BY DEF UserSame, DeadlineOf
  <1>2. CASE at[v] = NoConn
    BY <1>2 DEF UserOK, UserSame
  <1>3. CASE at[v] # NoConn
    BY <1>1, <1>3 DEF UserOK, UserSame, ConnSame, Holds, MayWrite, Waits, Exchange, Sound, Quiet, IsOpen, IsOK
  <1>. QED  BY <1>2, <1>3

LEMMA ConnFrame ==
    ASSUME NEW k \in Conns, ConnOK(k), ConnSame(k),
           k \in idle' <=> k \in idle,
           (\E u \in Users : at[u] = k) => \E u \in Users : at'[u] = k
    PROVE  ConnOK(k)'
  BY DEF ConnOK, ConnSame, Deserted, Quiet, IsOpen, IsOK

\* A step of u on its connection keeps IInv when it keeps what IInv says of u
\* and of the connection.
LEMMA ClientFrame ==
    ASSUME IInv, NEW u \in Users, stage[u] # "idle",
           UNCHANGED <<at, idle, poolVars>>,
           \A v \in Users \ {u} : UserSame(v),
           \A k \in Conns \ {at[u]} : ConnSame(k),
           TypeOK', UserOK(u)', ConnOK(at[u])'
    PROVE  IInv'
  <1>1. ASSUME NEW v \in Users PROVE UserOK(v)'
    BY <1>1, ActiveUser, UserFrame DEF IInv, UserOK, Holds
  <1>2. ASSUME NEW k \in Conns PROVE ConnOK(k)'
    BY <1>2, ConnFrame DEF IInv
  <1>. QED  BY <1>1, <1>2 DEF IInv, Owners, CallOK, poolVars

-----------------------------------------------------------------------------
(* The steps of a user.                                                    *)

\* What IInv says about the user of a step and its connection.
LEMMA Stepper ==
    ASSUME IInv, NEW u \in Users, stage[u] \in {"send", "wrote", "read"}
    PROVE  /\ TypeOK /\ at[u] \in Conns /\ at[u] # NoConn
           /\ UserOK(u) /\ ConnOK(at[u]) /\ IsOpen(at[u]) /\ at[u] \notin idle
           /\ req[u] \in Requests
           /\ req[u] = "insert" => todo[u] # <<>>
           /\ todo[u] \in Seq(Docs)
           /\ client[at[u]] \in ClientRecords
           /\ AfterOK(u) => Continued(u)
           /\ AfterError(u) \/ (AfterOK(u) /\ req[u] = "rollback") => Failed(u) /\ Continued(u)
  <1>1. TypeOK /\ UserOK(u) /\ at[u] \in Conns /\ IsOpen(at[u]) /\ at[u] \notin idle
    BY ActiveUser DEF IInv
  <1>2. req[u] \in Requests /\ (req[u] = "insert" => todo[u] # <<>>)
    BY <1>1 DEF UserOK
  <1>3. ConnOK(at[u]) /\ at[u] # NoConn
    BY <1>1, ClientAssumption DEF IInv
  <1>4. todo[u] \in Seq(Docs) /\ client[at[u]] \in ClientRecords
    BY <1>1 DEF TypeOK, ClientTypeOK
  <1>5. /\ AfterOK(u) => Continued(u)
        /\ AfterError(u) \/ (AfterOK(u) /\ req[u] = "rollback") => Failed(u) /\ Continued(u)
    BY <1>1, <1>2, AfterContinues
  <1>. QED  BY <1>1, <1>2, <1>3, <1>4, <1>5

\* The deadline that sendRequest leaves on the socket is the one of its context.
LEMMA Deadlines ==
    ASSUME IInv, NEW u \in Users, NEW k \in Conns
    PROVE  /\ AfterDeadline(u, k) \in ClientRecords
           /\ InstalledDeadline(u, k) \in Users \cup {NoUser}
           /\ InstalledDeadline(u, k) = DeadlineOf(u)
           /\ AfterDeadline(u, k).hasDeadline <=> InstalledDeadline(u, k) # NoUser
           /\ AfterDeadline(u, k).closed = client[k].closed
           /\ AfterDeadline(u, k).hasError = client[k].hasError
           /\ AfterDeadline(u, k).unanswered = client[k].unanswered
  <1>1. client[k] \in ClientRecords /\ (client[k].hasDeadline <=> sockDl[k] # NoUser)
    BY DEF IInv, TypeOK, ClientTypeOK, ConnOK
  <1>2. CASE SetsDeadline(u, k)
    BY <1>1, <1>2, ClientAssumption
       DEF AfterDeadline, InstalledDeadline, DeadlineOf, ClientRecords
  <1>3. CASE ~SetsDeadline(u, k)
    BY <1>1, <1>3, ClientAssumption
       DEF AfterDeadline, InstalledDeadline, DeadlineOf, SetsDeadline
  <1>. QED  BY <1>2, <1>3

LEMMA RefuseInv ==
    ASSUME IInv, NEW u \in Users, Refuse(u), UNCHANGED <<idle, poolVars>>
    PROVE  IInv'
  <1>. DEFINE k == at[u]
  <1>1. /\ TypeOK /\ k \in Conns /\ k # NoConn /\ UserOK(u) /\ ConnOK(k)
        /\ client[k] \in ClientRecords /\ Continued(u) /\ Failed(u) /\ IsOpen(k) /\ k \notin idle
    BY Stepper DEF Refuse
  <1>2. /\ client' \in [Conns -> ClientRecords]
        /\ sockDl' \in [Conns -> Users \cup {NoUser}]
        /\ \A j \in Conns \ {k} : client'[j] = client[j] /\ sockDl'[j] = sockDl[j]
        /\ client'[k].closed = client[k].closed
        /\ client'[k].hasError = client[k].hasError
        /\ client'[k].unanswered = client[k].unanswered
        /\ client'[k].hasDeadline <=> sockDl'[k] # NoUser
    <2>1. CASE UNCHANGED <<client, sockDl>>
      BY <1>1, <2>1 DEF TypeOK, ClientTypeOK, ConnOK
    <2>2. CASE /\ client' = [client EXCEPT ![k] = AfterDeadline(u, k)]
               /\ sockDl' = [sockDl EXCEPT ![k] = InstalledDeadline(u, k)]
      BY <1>1, <2>2, Deadlines DEF TypeOK, ClientTypeOK
    <2>. QED  BY <2>1, <2>2 DEF Refuse
  <1>3. TypeOK'
    BY <1>1, <1>2 DEF Refuse, Continued, MethodTypeOK, TypeOK, ClientTypeOK, netVars, ctxVars, poolVars
  <1>4. UserOK(u)'
    BY <1>1, <1>2 DEF Refuse, Continued, Failed, UserOK, Holds, MayWrite, Sound, Quiet, IsOpen, IsOK,
       netVars, ctxVars
  <1>5. ConnOK(k)'
    BY <1>1, <1>2 DEF Refuse, ConnOK, Deserted, Quiet, IsOpen, IsOK, netVars, ctxVars
  <1>6. (\A v \in Users \ {u} : UserSame(v)) /\ (\A j \in Conns \ {k} : ConnSame(j))
    BY <1>1, <1>2 DEF Refuse, Continued, UserSame, ConnSame, netVars, ctxVars
  <1>. QED  BY <1>3, <1>4, <1>5, <1>6, ClientFrame DEF Refuse

LEMMA WriteFailsInv ==
    ASSUME IInv, NEW u \in Users, WriteFails(u), UNCHANGED <<idle, poolVars>>
    PROVE  IInv'
  <1>. DEFINE k == at[u]
              c == [AfterDeadline(u, k) EXCEPT !.hasError = TRUE]
  <1>1. /\ TypeOK /\ k \in Conns /\ k # NoConn /\ UserOK(u) /\ ConnOK(k)
        /\ client[k] \in ClientRecords /\ Continued(u) /\ Failed(u) /\ IsOpen(k) /\ k \notin idle
    BY Stepper DEF WriteFails
  <1>2. /\ c \in ClientRecords
        /\ c.closed = client[k].closed
        /\ c.hasError
        /\ c.hasDeadline <=> InstalledDeadline(u, k) # NoUser
    BY <1>1, Deadlines DEF ClientRecords
  <1>. HIDE DEF c
  <1>3. /\ client' \in [Conns -> ClientRecords]
        /\ sockDl' \in [Conns -> Users \cup {NoUser}]
        /\ \A j \in Conns \ {k} : client'[j] = client[j] /\ sockDl'[j] = sockDl[j]
        /\ client'[k].closed = client[k].closed
        /\ client'[k].hasError
        /\ client'[k].hasDeadline <=> sockDl'[k] # NoUser
    BY <1>1, <1>2, Deadlines DEF WriteFails, c, TypeOK, ClientTypeOK
  <1>4. TypeOK'
    BY <1>1, <1>3 DEF WriteFails, Continued, MethodTypeOK, TypeOK, ClientTypeOK,
       netVars, ctxVars, poolVars
  <1>5. UserOK(u)'
    BY <1>1, <1>3 DEF WriteFails, Continued, Failed, UserOK, Holds, MayWrite, Sound, Quiet, IsOpen, IsOK,
       netVars, ctxVars
  <1>6. ConnOK(k)'
    BY <1>1, <1>3 DEF WriteFails, ConnOK, Deserted, Quiet, IsOpen, IsOK, netVars, ctxVars
  <1>7. (\A v \in Users \ {u} : UserSame(v)) /\ (\A j \in Conns \ {k} : ConnSame(j))
    BY <1>1, <1>3 DEF WriteFails, Continued, UserSame, ConnSame, netVars, ctxVars
  <1>. QED  BY <1>4, <1>5, <1>6, <1>7, ClientFrame DEF WriteFails

LEMMA WriteInv ==
    ASSUME IInv, NEW u \in Users, Write(u), UNCHANGED <<idle, poolVars>>
    PROVE  IInv'
  <1>. DEFINE k == at[u]
              c == [AfterDeadline(u, k) EXCEPT !.unanswered = @ + 1]
              d == IF req[u] = "insert" THEN {Head(todo[u])} ELSE {}
              m == Message(u, req[u], d)
  <1>1. /\ TypeOK /\ k \in Conns /\ k # NoConn /\ UserOK(u) /\ ConnOK(k)
        /\ client[k] \in ClientRecords /\ IsOpen(k) /\ k \notin idle
        /\ req[u] \in Requests /\ (req[u] = "insert" => todo[u] # <<>>)
        /\ todo[u] \in Seq(Docs)
    BY Stepper DEF Write
  <1>2. /\ c \in ClientRecords
        /\ c.closed = client[k].closed
        /\ c.hasError = client[k].hasError
        /\ c.unanswered = client[k].unanswered + 1
        /\ c.hasDeadline <=> InstalledDeadline(u, k) # NoUser
    BY <1>1, Deadlines DEF ClientRecords
  <1>3. Quiet(k) /\ (client[k].hasError \/ client[k].unanswered = 0)
    <2>1. deadline[u] # "passed" /\ ~ctxDone[u] /\ stage[u] = "send"
      <3>1. ~SockExpired(DeadlineOf(u))
        BY <1>1, Deadlines DEF Write
      <3>. QED  BY <3>1, ClientAssumption DEF Write, SockExpired, DeadlineOf
    <2>. QED  BY <1>1, <2>1 DEF UserOK, MayWrite
  <1>4. d \in SUBSET Docs /\ m \in Messages
    BY <1>1 DEF Message, Messages
  <1>. HIDE DEF c, d
  <1>5. /\ client' \in [Conns -> ClientRecords]
        /\ sockDl' \in [Conns -> Users \cup {NoUser}]
        /\ \A j \in Conns \ {k} : client'[j] = client[j] /\ sockDl'[j] = sockDl[j]
        /\ client'[k] = c /\ sockDl'[k] = DeadlineOf(u)
    BY <1>1, <1>2, Deadlines DEF Write, c, TypeOK, ClientTypeOK
  <1>. HIDE DEF m
  <1>6. /\ wire' \in [Conns -> Seq(Messages)]
        /\ \A j \in Conns \ {k} : wire'[j] = wire[j]
        /\ wire'[k] \in {<<>>, <<m>>}
    <2>1. Append(wire[k], m) = <<m>> /\ <<m>> \in Seq(Messages)
      BY <1>3, <1>4 DEF Quiet
    <2>. QED  BY <1>1, <1>3, <2>1 DEF Write, Quiet, m, d, TypeOK, ClientTypeOK
  <1>7. TypeOK'
    BY <1>1, <1>5, <1>6 DEF Write, TypeOK, ClientTypeOK, ctxVars, poolVars
  <1>8. Waits(u, k)'
    <2>1. client'[k].unanswered >= 1 /\ (~client'[k].hasError => client'[k].unanswered = 1)
      BY <1>1, <1>2, <1>3, <1>5 DEF ClientRecords
    <2>2. replies'[k] = <<>> /\ req'[u] = req[u] /\ at' = at
      BY <1>3 DEF Write, Quiet
    <2>3. Exchange(u, k)'
      BY <1>4, <1>6, <2>2 DEF Exchange, Quiet, m
    <2>4. DeadlineOf(u)' = DeadlineOf(u)
      BY DEF Write, DeadlineOf, ctxVars
    <2>. QED  BY <1>5, <2>1, <2>2, <2>3, <2>4 DEF Waits
  <1>9. UserOK(u)'
    <2>1. stage'[u] = "wrote" /\ at' = at
      BY DEF Write, TypeOK, ClientTypeOK, IInv
    <2>2. Holds(u, k)'
      <3>1. ~IsOK(client[k])'
        BY <1>8, <2>1 DEF Waits, IsOK
      <3>2. IsOpen(k)'
        BY <1>1, <1>2, <1>5, <2>1 DEF Write, IsOpen
      <3>. QED  BY <1>1, <2>1, <3>1, <3>2 DEF Holds
    <2>3. Sound(u, k)'
      BY <1>1, <1>2, <1>5, <2>1 DEF Write, UserOK, Sound
    <2>. QED  BY <1>1, <1>8, <2>1, <2>2, <2>3 DEF Write, UserOK
  <1>10. ConnOK(k)'
    BY <1>1, <1>2, <1>3, <1>5, Deadlines DEF Write, ConnOK, Deserted, Quiet, IsOpen
  <1>11. (\A v \in Users \ {u} : UserSame(v)) /\ (\A j \in Conns \ {k} : ConnSame(j))
    BY <1>5, <1>6 DEF Write, UserSame, ConnSame, ctxVars, TypeOK, ClientTypeOK, IInv
  <1>. QED  BY <1>7, <1>9, <1>10, <1>11, ClientFrame DEF Write

LEMMA CheckContextInv ==
    ASSUME IInv, NEW u \in Users, CheckContext(u), UNCHANGED <<idle, poolVars>>
    PROVE  IInv'
  <1>. DEFINE k == at[u]
  <1>1. /\ TypeOK /\ k \in Conns /\ k # NoConn /\ UserOK(u) /\ ConnOK(k)
        /\ client[k] \in ClientRecords /\ IsOpen(k) /\ k \notin idle
        /\ AfterError(u) => Continued(u) /\ Failed(u)
    BY Stepper DEF CheckContext
  <1>2. Waits(u, k) /\ ~IsOK(client[k])
    BY <1>1 DEF CheckContext, UserOK, Waits, IsOK
  <1>3. TypeOK'
    <2>1. MethodTypeOK'
      <3>1. CASE ctxDone[u] /\ AfterError(u)
        BY <1>1, <3>1 DEF Continued
      <3>2. CASE stage' = [stage EXCEPT ![u] = "read"] /\ UNCHANGED <<req, todo, outcome>>
        BY <1>1, <3>2 DEF MethodTypeOK, TypeOK, ClientTypeOK
      <3>. QED  BY <3>1, <3>2 DEF CheckContext
    <2>. QED  BY <1>1, <2>1 DEF CheckContext, MethodTypeOK, TypeOK, ClientTypeOK,
              netVars, ctxVars, poolVars
  <1>4. CASE ctxDone[u] /\ AfterError(u)
    <2>1. UserOK(u)'
      BY <1>1, <1>2, <1>4 DEF CheckContext, Continued, Failed, UserOK, Holds, MayWrite, Sound, IsOpen,
         netVars, ctxVars
    <2>2. ConnOK(k)'
      BY <1>1 DEF CheckContext, ConnOK, Deserted, Quiet, IsOpen, netVars
    <2>3. (\A v \in Users \ {u} : UserSame(v)) /\ (\A j \in Conns \ {k} : ConnSame(j))
      BY <1>1, <1>4 DEF CheckContext, Continued, UserSame, ConnSame, netVars, ctxVars
    <2>. QED  BY <1>3, <2>1, <2>2, <2>3, ClientFrame DEF CheckContext
  <1>5. CASE ~ctxDone[u] /\ stage' = [stage EXCEPT ![u] = "read"] /\ UNCHANGED <<req, todo, outcome>>
    <2>1. Waits(u, k)'
      BY <1>2, <1>5 DEF CheckContext, Waits, Exchange, Quiet, DeadlineOf, netVars, ctxVars
    <2>2. UserOK(u)'
      BY <1>1, <1>2, <1>5, <2>1 DEF CheckContext, UserOK, Holds, Sound, IsOpen, netVars,
         TypeOK, ClientTypeOK
    <2>3. ConnOK(k)'
      BY <1>1 DEF CheckContext, ConnOK, Deserted, Quiet, IsOpen, netVars
    <2>4. (\A v \in Users \ {u} : UserSame(v)) /\ (\A j \in Conns \ {k} : ConnSame(j))
      BY <1>1, <1>5 DEF CheckContext, UserSame, ConnSame, netVars, ctxVars, TypeOK, ClientTypeOK
    <2>. QED  BY <1>3, <2>2, <2>3, <2>4, ClientFrame DEF CheckContext
  <1>. QED  BY <1>4, <1>5 DEF CheckContext

\* The line u accepts is the reply to its own request, and nothing is left.
LEMMA AcceptsOwn ==
    ASSUME IInv, NEW u \in Users, Accept(at[u], u)
    PROVE  /\ Head(replies[at[u]]).by = u
           /\ replies' \in [Conns -> Seq(Replies)]
           /\ wire'[at[u]] = <<>> /\ replies'[at[u]] = <<>>
           /\ \A j \in Conns \ {at[u]} : replies'[j] = replies[j]
  <1>. DEFINE k == at[u]
  <1>1. TypeOK /\ k \in Conns /\ UserOK(u) /\ stage[u] = "read" /\ wire' = wire
    BY Stepper DEF Accept
  <1>2. PICK s \in {"OK", "ERR", "junk"} : replies[k] = <<Reply(u, req[u], s)>>
    BY <1>1 DEF Accept, UserOK, Waits, Exchange, Quiet
  <1>3. wire[k] = <<>>
    BY <1>1, <1>2 DEF Accept, UserOK, Waits, Exchange, Quiet
  <1>4. Head(replies[k]) = Reply(u, req[u], s) /\ Tail(replies[k]) = <<>>
    BY <1>2
  <1>5. replies' = [replies EXCEPT ![k] = <<>>]
    BY <1>4 DEF Accept
  <1>6. <<>> \in Seq(Replies)
    OBVIOUS
  <1>. QED  BY <1>1, <1>3, <1>4, <1>5, <1>6 DEF Reply, TypeOK, ClientTypeOK

\* What the four outcomes of ReadLine have in common.
Consumed(u, k) ==
    /\ Continued(u)
    /\ UNCHANGED <<sockDl, link, wire, at, idle, ctxVars, poolVars>>
    /\ \A j \in Conns \ {k} : client'[j] = client[j] /\ replies'[j] = replies[j]
    /\ client'[k].closed = client[k].closed
    /\ client'[k].hasDeadline = client[k].hasDeadline
    /\ Failed(u) \/ (req[u] # "rollback" /\ client'[k].hasError = client[k].hasError)
    /\ \/ client'[k].hasError
       \/ /\ client'[k].hasError = client[k].hasError
          /\ client'[k].unanswered = client[k].unanswered - 1
    /\ \/ wire'[k] = <<>> /\ replies'[k] = <<>>
       \/ deadline[u] = "passed" /\ client'[k].hasError /\ replies'[k] = replies[k]

LEMMA ReadInv ==
    ASSUME IInv, NEW u \in Users, stage[u] = "read", Consumed(u, at[u]), TypeOK'
    PROVE  IInv'
  <1>. DEFINE k == at[u]
  <1>1. /\ TypeOK /\ k \in Conns /\ k # NoConn /\ UserOK(u) /\ ConnOK(k)
        /\ client[k] \in ClientRecords /\ IsOpen(k) /\ k \notin idle
    BY Stepper
  <1>2. at' = at /\ Continued(u) /\ IsOpen(k)'
    BY <1>1 DEF Consumed, IsOpen
  <1>3. Waits(u, k)
    BY <1>1 DEF UserOK
  <1>4. client'[k].hasError \/ client'[k].unanswered = 0
    <2>1. client[k].hasError \in BOOLEAN /\ client[k].unanswered \in Nat
      BY <1>1 DEF ClientRecords
    <2>. QED  BY <1>3, <2>1 DEF Consumed, Waits
  <1>5. Quiet(k)' \/ (client'[k].hasError /\ deadline'[u] = "passed")
    BY <1>2 DEF Consumed, Quiet, ctxVars
  <1>6. Holds(u, k)' /\ MayWrite(u, k)'
    BY <1>1, <1>2, <1>4, <1>5 DEF Holds, MayWrite, IsOK, Consumed
  <1>7. Sound(u, k)'
    <2>1. CASE Failed(u)
      BY <1>2, <2>1 DEF Failed, Continued, Sound
    <2>2. CASE req[u] # "rollback" /\ client'[k].hasError = client[k].hasError
      <3>1. ~client'[k].hasError
        BY <1>1, <2>2 DEF UserOK, Sound
      <3>. QED  BY <1>2, <1>4, <3>1 DEF Continued, Sound, IsOK, IsOpen
    <2>. QED  BY <2>1, <2>2 DEF Consumed
  <1>8. UserOK(u)'
    BY <1>1, <1>2, <1>6, <1>7 DEF UserOK, Continued
  <1>9. ConnOK(k)'
    BY <1>1, <1>2 DEF Consumed, ConnOK, IsOpen, Deserted, Quiet
  <1>10. (\A v \in Users \ {u} : UserSame(v)) /\ (\A j \in Conns \ {k} : ConnSame(j))
    BY <1>2 DEF Consumed, Continued, UserSame, ConnSame, ctxVars
  <1>. QED  BY <1>8, <1>9, <1>10, ClientFrame DEF Consumed

LEMMA ReadOKInv ==
    ASSUME IInv, NEW u \in Users, ReadOK(u), UNCHANGED <<idle, poolVars>>
    PROVE  IInv'
  <1>. DEFINE k == at[u]
  <1>1. /\ TypeOK /\ k \in Conns /\ UserOK(u) /\ client[k] \in ClientRecords
        /\ stage[u] = "read" /\ Accept(k, u) /\ Continued(u)
        /\ req[u] = "rollback" => Failed(u)
    BY Stepper DEF ReadOK, Accept
  <1>2. client[k].unanswered - 1 \in Nat
    BY <1>1 DEF UserOK, Waits, ClientRecords
  <1>3. /\ client' \in [Conns -> ClientRecords]
        /\ \A j \in Conns \ {k} : client'[j] = client[j]
        /\ client'[k].closed = client[k].closed
        /\ client'[k].hasError = client[k].hasError
        /\ client'[k].hasDeadline = client[k].hasDeadline
        /\ client'[k].unanswered = client[k].unanswered - 1
    <2>. DEFINE tx == client[k].tx /\ ~EndsTx(req[u])
                c == [client[k] EXCEPT !.unanswered = @ - 1, !.tx = tx]
    <2>1. client' = [client EXCEPT ![k] = c]
      BY DEF ReadOK
    <2>2. tx \in BOOLEAN
      OBVIOUS
    <2>. HIDE DEF tx
    <2>3. /\ c \in ClientRecords
          /\ c.closed = client[k].closed /\ c.hasError = client[k].hasError
          /\ c.hasDeadline = client[k].hasDeadline /\ c.unanswered = client[k].unanswered - 1
      BY <1>1, <1>2, <2>2, ClientReads
    <2>. HIDE DEF c
    <2>. QED  BY <1>1, <2>1, <2>3, ClientSet
  <1>4. got' \in [Users -> (SUBSET Docs) \cup {NoAnswer}]
    BY <1>1, AcceptsOwn DEF ReadOK, TypeOK, ClientTypeOK
  <1>5. TypeOK'
    BY <1>1, <1>3, <1>4, AcceptsOwn DEF Accept, Continued, MethodTypeOK, TypeOK, ClientTypeOK,
       ctxVars, poolVars
  <1>6. Consumed(u, k)
    BY <1>1, <1>3, AcceptsOwn DEF Consumed, Accept
  <1>. QED  BY <1>1, <1>5, <1>6, ReadInv

LEMMA ReadERRInv ==
    ASSUME IInv, NEW u \in Users, ReadERR(u), UNCHANGED <<idle, poolVars>>
    PROVE  IInv'
  <1>. DEFINE k == at[u]
  <1>1. /\ TypeOK /\ k \in Conns /\ UserOK(u) /\ client[k] \in ClientRecords
        /\ stage[u] = "read" /\ Accept(k, u) /\ Continued(u) /\ Failed(u)
    BY Stepper DEF ReadERR, Accept
  <1>2. client[k].unanswered - 1 \in Nat
    BY <1>1 DEF UserOK, Waits, ClientRecords
  <1>3. /\ client' \in [Conns -> ClientRecords]
        /\ \A j \in Conns \ {k} : client'[j] = client[j]
        /\ client'[k].closed = client[k].closed
        /\ client'[k].hasError = client[k].hasError
        /\ client'[k].hasDeadline = client[k].hasDeadline
        /\ client'[k].unanswered = client[k].unanswered - 1
    <2>. DEFINE c == [client[k] EXCEPT !.unanswered = @ - 1, !.tx = client[k].tx]
    <2>1. client' = [client EXCEPT ![k] = c]
      BY <1>1 DEF ReadERR, ClientRecords
    <2>2. client[k].tx \in BOOLEAN
      BY <1>1 DEF ClientRecords
    <2>3. /\ c \in ClientRecords
          /\ c.closed = client[k].closed /\ c.hasError = client[k].hasError
          /\ c.hasDeadline = client[k].hasDeadline /\ c.unanswered = client[k].unanswered - 1
      BY <1>1, <1>2, <2>2, ClientReads
    <2>. HIDE DEF c
    <2>. QED  BY <1>1, <2>1, <2>3, ClientSet
  <1>4. TypeOK'
    BY <1>1, <1>3, AcceptsOwn DEF ReadERR, Accept, Continued, MethodTypeOK, TypeOK, ClientTypeOK,
       ctxVars, poolVars
  <1>5. Consumed(u, k)
    BY <1>1, <1>3, AcceptsOwn DEF Consumed, Accept
  <1>. QED  BY <1>1, <1>4, <1>5, ReadInv

LEMMA ReadJunkInv ==
    ASSUME IInv, NEW u \in Users, ReadJunk(u), UNCHANGED <<idle, poolVars>>
    PROVE  IInv'
  <1>. DEFINE k == at[u]
  <1>1. /\ TypeOK /\ k \in Conns /\ client[k] \in ClientRecords
        /\ stage[u] = "read" /\ Accept(k, u) /\ Continued(u) /\ Failed(u)
    BY Stepper DEF ReadJunk, Accept
  <1>2. /\ client' \in [Conns -> ClientRecords]
        /\ \A j \in Conns \ {k} : client'[j] = client[j]
        /\ client'[k].closed = client[k].closed
        /\ client'[k].hasError
        /\ client'[k].hasDeadline = client[k].hasDeadline
    <2>. DEFINE c == [client[k] EXCEPT !.hasError = TRUE]
    <2>1. client' = [client EXCEPT ![k] = c]
      BY DEF ReadJunk
    <2>2. /\ c \in ClientRecords
          /\ c.hasError /\ c.closed = client[k].closed /\ c.hasDeadline = client[k].hasDeadline
      BY <1>1, ClientFails
    <2>. HIDE DEF c
    <2>. QED  BY <1>1, <2>1, <2>2, ClientSet
  <1>3. TypeOK'
    BY <1>1, <1>2, AcceptsOwn DEF ReadJunk, Accept, Continued, MethodTypeOK, TypeOK, ClientTypeOK,
       ctxVars, poolVars
  <1>4. Consumed(u, k)
    BY <1>1, <1>2, AcceptsOwn DEF Consumed, Accept
  <1>. QED  BY <1>1, <1>3, <1>4, ReadInv

LEMMA ReadFailsInv ==
    ASSUME IInv, NEW u \in Users, ReadFails(u), UNCHANGED <<idle, poolVars>>
    PROVE  IInv'
  <1>. DEFINE k == at[u]
  <1>1. /\ TypeOK /\ k \in Conns /\ UserOK(u) /\ client[k] \in ClientRecords
        /\ stage[u] = "read" /\ Continued(u) /\ Failed(u)
    BY Stepper DEF ReadFails
  <1>2. /\ client' \in [Conns -> ClientRecords]
        /\ \A j \in Conns \ {k} : client'[j] = client[j]
        /\ client'[k].closed = client[k].closed
        /\ client'[k].hasError
        /\ client'[k].hasDeadline = client[k].hasDeadline
    <2>. DEFINE c == [client[k] EXCEPT !.hasError = TRUE]
    <2>1. client' = [client EXCEPT ![k] = c]
      BY DEF ReadFails
    <2>2. /\ c \in ClientRecords
          /\ c.hasError /\ c.closed = client[k].closed /\ c.hasDeadline = client[k].hasDeadline
      BY <1>1, ClientFails
    <2>. HIDE DEF c
    <2>. QED  BY <1>1, <2>1, <2>2, ClientSet
  <1>3. TypeOK'
    BY <1>1, <1>2 DEF ReadFails, Continued, MethodTypeOK, TypeOK, ClientTypeOK,
       netVars, ctxVars, poolVars
  <1>4. Waits(u, k)
    BY <1>1 DEF UserOK
  <1>5. deadline[u] = "passed" \/ Quiet(k)
    <2>1. CASE SockExpired(sockDl[k])
      BY <1>4, <2>1, ClientAssumption DEF Waits, SockExpired, DeadlineOf
    <2>2. CASE link[k] = "down" /\ replies[k] = <<>>
      \* Break has emptied the wire of a connection that is down.
      BY <1>1, <1>4, <2>2 DEF Waits, Exchange, Quiet, IInv, ConnOK
    <2>. QED  BY <2>1, <2>2 DEF ReadFails
  <1>6. Consumed(u, k)
    BY <1>1, <1>2, <1>5 DEF Consumed, ReadFails, Quiet, netVars
  <1>. QED  BY <1>1, <1>3, <1>6, ReadInv

LEMMA ClientStepInv ==
    ASSUME IInv, NEW u \in Users, ClientStep(u), UNCHANGED <<idle, poolVars>>
    PROVE  IInv'
  BY RefuseInv, WriteInv, WriteFailsInv, CheckContextInv, ReadOKInv, ReadERRInv, ReadJunkInv,
     ReadFailsInv DEF ClientStep

-----------------------------------------------------------------------------
(* The server, the network and the clock.                                  *)

LEMMA ServerFrame ==
    ASSUME IInv, NEW k \in Conns,
           UNCHANGED <<at, idle, poolVars, methodVars, ctxVars>>,
           \A j \in Conns \ {k} : ConnSame(j),
           TypeOK', ConnOK(k)',
           \A u \in Users : at[u] = k => UserOK(u)'
    PROVE  IInv'
  <1>1. ASSUME NEW v \in Users PROVE UserOK(v)'
    <2>1. UserOK(v) /\ UserSame(v)
      BY DEF IInv, UserSame, methodVars, ctxVars
    <2>2. at[v] # NoConn => at[v] \in Conns /\ at[v] \notin idle'
      BY <2>1 DEF UserOK, Holds
    <2>3. at[v] # k => UserOK(v)'
      BY <2>1, <2>2, UserFrame
    <2>. QED  BY <2>3
  <1>2. ASSUME NEW j \in Conns PROVE ConnOK(j)'
    BY <1>2, ConnFrame DEF IInv
  <1>. QED  BY <1>1, <1>2 DEF IInv, Owners, CallOK, poolVars

LEMMA ServeInv ==
    ASSUME IInv, NEW k \in Conns, Serve(k), UNCHANGED <<idle, poolVars>>
    PROVE  IInv'
  <1>. DEFINE m == Head(wire[k])
  <1>1. TypeOK /\ ConnOK(k) /\ wire[k] # <<>> /\ wire[k] \in Seq(Messages) /\ ~Quiet(k)
    BY DEF IInv, TypeOK, ClientTypeOK, Serve, Quiet
  <1>2. m \in Messages /\ wire' = [wire EXCEPT ![k] = Tail(@)] /\ Tail(wire[k]) \in Seq(Messages)
    BY <1>1 DEF Serve
  <1>3. /\ m.by \in Users /\ m.kind \in Requests /\ m.docs \in SUBSET Docs
    BY <1>2 DEF Messages
  <1>4. PICK status \in {"OK", "ERR", "junk"} :
           replies' = IF client[k].closed THEN replies
                      ELSE [replies EXCEPT ![k] = Append(@, Reply(m.by, m.kind, status))]
    BY DEF Serve
  <1>. DEFINE r == Reply(m.by, m.kind, status)
  <1>5. r \in Replies
    BY <1>3 DEF Reply, Replies
  <1>6. /\ wire' \in [Conns -> Seq(Messages)]
        /\ replies' \in [Conns -> Seq(Replies)]
        /\ \A j \in Conns \ {k} : wire'[j] = wire[j] /\ replies'[j] = replies[j]
        /\ wire'[k] = Tail(wire[k])
        /\ client[k].closed => replies'[k] = replies[k]
        /\ ~client[k].closed => replies'[k] = Append(replies[k], r)
    <2>. HIDE DEF r
    <2>1. Append(replies[k], r) \in Seq(Replies)
      BY <1>1, <1>5 DEF TypeOK, ClientTypeOK
    <2>. QED  BY <1>1, <1>2, <1>4, <2>1 DEF TypeOK, ClientTypeOK, r
  <1>7. /\ session' \in [Conns -> [open : BOOLEAN, docs : SUBSET Docs]]
        /\ index' \in SUBSET Docs
        /\ answer' \in [Users -> (SUBSET Docs) \cup {NoAnswer}]
    <2>1. session[k] \in [open : BOOLEAN, docs : SUBSET Docs] /\ index \in SUBSET Docs
      BY <1>1 DEF TypeOK, ClientTypeOK
    <2>2. SessionAfter(session[k], m) \in [open : BOOLEAN, docs : SUBSET Docs]
      BY <1>3, <2>1 DEF SessionAfter, NoTx
    <2>3. CASE UNCHANGED <<session, index, answer>>
      BY <1>1, <2>3 DEF TypeOK, ClientTypeOK
    <2>4. CASE /\ session' = [session EXCEPT ![k] = SessionAfter(@, m)]
               /\ index' = IF m.kind = "commit" THEN index \cup session[k].docs ELSE index
               /\ answer' = IF m.kind \in Queries THEN [answer EXCEPT ![m.by] = index]
                            ELSE answer
      BY <1>1, <1>3, <2>1, <2>2, <2>4 DEF TypeOK, ClientTypeOK
    <2>. QED  BY <2>3, <2>4 DEF Serve
  <1>8. UNCHANGED <<client, sockDl, link, at, methodVars, ctxVars>>
    BY DEF Serve
  <1>9. TypeOK'
    BY <1>1, <1>6, <1>7, <1>8 DEF TypeOK, ClientTypeOK, methodVars, ctxVars, poolVars
  <1>10. ConnOK(k)'
    BY <1>1, <1>6, <1>8 DEF ConnOK, Deserted, Quiet, IsOpen, Serve
  <1>11. ASSUME NEW u \in Users, at[u] = k PROVE UserOK(u)'
    <2>1. UserOK(u) /\ k # NoConn /\ IsOpen(k) /\ k \notin idle /\ ~IsOK(client[k])
      BY <1>1, <1>11, ClientAssumption DEF IInv, UserOK, Holds
    <2>2. Holds(u, k)'
      BY <1>8, <2>1 DEF Holds, IsOpen, IsOK
    <2>3. MayWrite(u, k) => MayWrite(u, k)'
      BY <1>1, <1>8 DEF MayWrite, ctxVars
    <2>4. Waits(u, k) => Waits(u, k)'
      <3>. SUFFICES ASSUME Waits(u, k) PROVE Waits(u, k)'
        OBVIOUS
      <3>1. PICK d \in SUBSET Docs : replies[k] = <<>> /\ wire[k] = <<Message(u, req[u], d)>>
        BY <1>1 DEF Waits, Exchange, Quiet
      <3>2. r = Reply(u, req[u], status) /\ Tail(wire[k]) = <<>>
        BY <3>1 DEF Message
      <3>. HIDE DEF r
      <3>3. wire'[k] = <<>> /\ replies'[k] = <<r>>
        BY <1>6, <2>1, <3>1, <3>2 DEF IsOpen
      <3>4. Exchange(u, k)'
        BY <1>8, <3>2, <3>3 DEF Exchange, methodVars
      <3>5. DeadlineOf(u)' = DeadlineOf(u)
        BY <1>8 DEF DeadlineOf, ctxVars
      <3>. QED  BY <1>8, <3>4, <3>5 DEF Waits
    <2>5. Sound(u, k) => Sound(u, k)'
      BY <1>8 DEF Sound, IsOK, methodVars
    <2>. QED  BY <1>8, <1>11, <2>1, <2>2, <2>3, <2>4, <2>5 DEF UserOK, methodVars
  <1>12. \A j \in Conns \ {k} : ConnSame(j)
    BY <1>6, <1>8 DEF ConnSame
  <1>. QED  BY <1>8, <1>9, <1>10, <1>11, <1>12, ServerFrame

LEMMA BreakInv ==
    ASSUME IInv, NEW k \in Conns, Break(k), UNCHANGED <<idle, poolVars>>
    PROVE  IInv'
  <1>1. TypeOK /\ ConnOK(k)
    BY DEF IInv
  <1>2. /\ link' \in [Conns -> {"free", "up", "down"}]
        /\ wire' \in [Conns -> Seq(Messages)]
        /\ replies' \in [Conns -> Seq(Replies)]
        /\ session' \in [Conns -> [open : BOOLEAN, docs : SUBSET Docs]]
        /\ \A j \in Conns \ {k} :
              link'[j] = link[j] /\ wire'[j] = wire[j] /\ replies'[j] = replies[j]
        /\ link[k] = "up" /\ link'[k] = "down" /\ wire'[k] = <<>>
        /\ replies'[k] \in {replies[k], <<>>}
    <2>1. NoTx \in [open : BOOLEAN, docs : SUBSET Docs]
      BY DEF NoTx
    <2>2. /\ replies' \in [Conns -> Seq(Replies)]
          /\ \A j \in Conns \ {k} : replies'[j] = replies[j]
          /\ replies'[k] \in {replies[k], <<>>}
      <3>1. CASE replies' = replies
        BY <1>1, <3>1 DEF TypeOK, ClientTypeOK
      <3>2. CASE replies' = [replies EXCEPT ![k] = <<>>]
        BY <1>1, <3>2 DEF TypeOK, ClientTypeOK
      <3>. QED  BY <3>1, <3>2 DEF Break
    <2>3. /\ wire' \in [Conns -> Seq(Messages)]
          /\ \A j \in Conns \ {k} : wire'[j] = wire[j]
          /\ wire'[k] = <<>>
      BY <1>1 DEF Break, TypeOK, ClientTypeOK
    <2>. QED  BY <1>1, <2>1, <2>2, <2>3 DEF Break, TypeOK, ClientTypeOK
  <1>3. UNCHANGED <<client, sockDl, index, answer, at, methodVars, ctxVars>>
    BY DEF Break
  <1>4. TypeOK'
    BY <1>1, <1>2, <1>3 DEF TypeOK, ClientTypeOK, methodVars, ctxVars, poolVars
  <1>5. ConnOK(k)'
    BY <1>1, <1>2, <1>3 DEF ConnOK, Quiet, IsOpen
  <1>6. ASSUME NEW u \in Users, at[u] = k PROVE UserOK(u)'
    <2>1. UserOK(u) /\ (Quiet(k) => Quiet(k)')
      BY <1>2 DEF IInv, Quiet
    <2>2. Holds(u, k) => Holds(u, k)'
      BY <1>2, <1>3, <2>1 DEF Holds, IsOpen
    <2>3. MayWrite(u, k) => MayWrite(u, k)'
      BY <1>3, <2>1 DEF MayWrite, ctxVars
    <2>4. Waits(u, k) => Waits(u, k)'
      BY <1>2, <1>3 DEF Waits, Exchange, Quiet, DeadlineOf, methodVars, ctxVars
    <2>5. Sound(u, k) => Sound(u, k)'
      BY <1>3 DEF Sound, IsOK, methodVars
    <2>. QED  BY <1>3, <1>6, <2>1, <2>2, <2>3, <2>4, <2>5 DEF UserOK, methodVars
  <1>7. \A j \in Conns \ {k} : ConnSame(j)
    BY <1>2, <1>3 DEF ConnSame
  <1>. QED  BY <1>3, <1>4, <1>5, <1>6, <1>7, ServerFrame

LEMMA HangUpInv ==
    ASSUME IInv, NEW k \in Conns, HangUp(k), UNCHANGED <<idle, poolVars>>
    PROVE  IInv'
  <1>1. TypeOK /\ ConnOK(k) /\ client[k].closed /\ Quiet(k)
    BY DEF IInv, HangUp, ConnOK, Quiet
  <1>2. /\ client' \in [Conns -> ClientRecords]
        /\ sockDl' \in [Conns -> Users \cup {NoUser}]
        /\ link' \in [Conns -> {"free", "up", "down"}]
        /\ session' \in [Conns -> [open : BOOLEAN, docs : SUBSET Docs]]
        /\ \A j \in Conns \ {k} :
              client'[j] = client[j] /\ sockDl'[j] = sockDl[j] /\ link'[j] = link[j]
        /\ client'[k] = NewIndexClient /\ sockDl'[k] = NoUser /\ link'[k] = "free"
    BY <1>1 DEF HangUp, NewIndexClient, ClientRecords, NoTx, TypeOK, ClientTypeOK
  <1>3. UNCHANGED <<wire, replies, index, answer, at, methodVars, ctxVars>>
    BY DEF HangUp
  <1>4. TypeOK'
    BY <1>1, <1>2, <1>3 DEF TypeOK, ClientTypeOK, methodVars, ctxVars, poolVars
  <1>5. ConnOK(k)'
    BY <1>1, <1>2, <1>3 DEF ConnOK, Deserted, Quiet, IsOpen, NewIndexClient
  <1>6. ASSUME NEW u \in Users, at[u] = k PROVE FALSE
    BY <1>1, <1>6, ClientAssumption DEF IInv, UserOK, Holds, IsOpen
  <1>7. \A j \in Conns \ {k} : ConnSame(j)
    BY <1>2, <1>3 DEF ConnSame
  <1>. QED  BY <1>3, <1>4, <1>5, <1>6, <1>7, ServerFrame

\* The clock changes the context of one user.
LEMMA ContextInv ==
    ASSUME IInv, NEW u \in Users, DeadlinePasses(u) \/ ContextEnds(u),
           UNCHANGED <<idle, poolVars>>
    PROVE  IInv'
  <1>1. TypeOK
    BY DEF IInv
  <1>2. UNCHANGED <<client, sockDl, netVars, at, methodVars>>
    BY DEF DeadlinePasses, ContextEnds
  <1>3. /\ deadline' \in [Users -> {"none", "ahead", "passed"}]
        /\ ctxDone' \in [Users -> BOOLEAN]
        /\ \A v \in Users : /\ deadline'[v] = "none" <=> deadline[v] = "none"
                            /\ deadline[v] = "passed" => deadline'[v] = "passed"
                            /\ ctxDone[v] => ctxDone'[v]
    <2>1. CASE DeadlinePasses(u)
      BY <1>1, <2>1 DEF DeadlinePasses, TypeOK, ClientTypeOK
    <2>2. CASE ContextEnds(u)
      BY <1>1, <2>2 DEF ContextEnds, TypeOK, ClientTypeOK
    <2>. QED  BY <2>1, <2>2
  <1>4. TypeOK'
    BY <1>1, <1>2, <1>3 DEF TypeOK, ClientTypeOK, netVars, methodVars, poolVars
  <1>5. ASSUME NEW v \in Users PROVE UserOK(v)'
    <2>1. UserOK(v) /\ DeadlineOf(v)' = DeadlineOf(v)
      BY <1>3 DEF IInv, DeadlineOf
    <2>. QED  BY <1>2, <1>3, <2>1 DEF UserOK, Holds, MayWrite, Waits, Exchange, Sound, Quiet,
              IsOpen, IsOK, netVars, methodVars
  <1>6. ASSUME NEW k \in Conns PROVE ConnOK(k)'
    BY <1>2 DEF IInv, ConnOK, Deserted, Quiet, IsOpen, IsOK, netVars
  <1>. QED  BY <1>2, <1>4, <1>5, <1>6 DEF IInv, Owners, CallOK, poolVars

LEMMA EnvironmentInv == IInv /\ Environment => IInv'
  <1>. SUFFICES ASSUME IInv, Environment PROVE IInv'
    OBVIOUS
  <1>1. UNCHANGED <<idle, poolVars>> /\ Calls \subseteq Users
    BY PoolAssumption DEF Environment
  <1>. QED  BY <1>1, ClientStepInv, ServeInv, BreakInv, HangUpInv, ContextInv
            DEF Environment, ServerStep, TimerFires, Cancel

-----------------------------------------------------------------------------
(* The pool.                                                               *)

\* A step of the pool names one user and one connection, which is its own or
\* nobody's.
LEMMA PoolFrame ==
    ASSUME IInv, NEW u \in Users, NEW k \in Conns,
           at[u] \in {NoConn, k}, at'[u] \in {NoConn, k},
           \A v \in Users \ {u} : at[v] # k /\ UserSame(v),
           \A j \in Conns \ {k} : ConnSame(j) /\ (j \in idle' <=> j \in idle),
           TypeOK', UserOK(u)', ConnOK(k)', \A c \in Calls : CallOK(c)'
    PROVE  IInv'
  <1>1. ASSUME NEW v \in Users \ {u} PROVE UserOK(v)'
    <2>1. UserOK(v) /\ UserSame(v) /\ at[v] # k
      BY DEF IInv
    <2>2. at[v] # NoConn => at[v] \in Conns \ {k} /\ at[v] \notin idle
      BY <2>1 DEF UserOK, Holds
    <2>. QED  BY <2>1, <2>2, UserFrame
  <1>2. ASSUME NEW j \in Conns \ {k} PROVE ConnOK(j)'
    <2>1. ASSUME NEW v \in Users, at[v] = j PROVE at'[v] = j
      BY <2>1, ClientAssumption DEF UserSame
    <2>. QED  BY <2>1, ConnFrame DEF IInv
  <1>3. Owners'
    BY ClientAssumption DEF IInv, Owners, UserSame
  <1>. QED  BY <1>1, <1>2, <1>3 DEF IInv

\* Nobody holds an idle or a free connection.
LEMMA Unowned ==
    ASSUME IInv, NEW k \in Conns, k \in idle \/ link[k] = "free" \/ client[k].closed
    PROVE  \A v \in Users : at[v] # k
  BY ClientAssumption DEF IInv, UserOK, Holds, IsOpen

LEMMA IdleConn ==
    ASSUME IInv, NEW k \in idle
    PROVE  k \in Conns /\ IsOpen(k) /\ IsOK(client[k]) /\ Quiet(k) /\ client[k] \in ClientRecords
  BY DEF IInv, TypeOK, ClientTypeOK, ConnOK

\* A connection that is closed leaves the pool; nothing is read from it again.
LEMMA CloseFacts ==
    ASSUME IInv, NEW k \in Conns, IsOpen(k), Close(k), k \notin idle',
           UNCHANGED <<sockDl, link, wire>>
    PROVE  /\ client' \in [Conns -> ClientRecords]
           /\ replies' \in [Conns -> Seq(Replies)]
           /\ \A j \in Conns \ {k} : ConnSame(j)
           /\ ConnOK(k)'
  <1>1. ConnOK(k) /\ client[k] \in ClientRecords /\ TypeOK
    BY DEF IInv, TypeOK, ClientTypeOK
  <1>2. /\ client' \in [Conns -> ClientRecords]
        /\ \A j \in Conns \ {k} : client'[j] = client[j]
        /\ client'[k].closed /\ client'[k].hasDeadline = client[k].hasDeadline
    <2>. DEFINE c == [client[k] EXCEPT !.closed = TRUE]
    <2>1. client' = [client EXCEPT ![k] = c]
      BY DEF Close
    <2>2. c \in ClientRecords /\ c.closed /\ c.hasDeadline = client[k].hasDeadline
      BY <1>1, ClientCloses
    <2>. HIDE DEF c
    <2>. QED  BY <1>1, <2>1, <2>2, ClientSet
  <1>3. <<>> \in Seq(Replies)
    OBVIOUS
  <1>4. /\ replies' \in [Conns -> Seq(Replies)]
        /\ \A j \in Conns \ {k} : replies'[j] = replies[j]
        /\ replies'[k] = <<>>
    BY <1>1, <1>3 DEF Close, TypeOK, ClientTypeOK
  <1>5. ConnOK(k)'
    BY <1>1, <1>2, <1>4 DEF ConnOK, IsOpen
  <1>6. \A j \in Conns \ {k} : ConnSame(j)
    BY <1>2, <1>4 DEF ConnSame
  <1>. QED  BY <1>2, <1>4, <1>5, <1>6

LEMMA ArriveInv ==
    ASSUME IInv, NEW c \in Calls, Arrive(c)
    PROVE  IInv'
  <1>1. TypeOK /\ c \in Users /\ CallOK(c) /\ at[c] = NoConn
    BY PoolAssumption DEF IInv, CallOK, Arrive
  <1>2. UNCHANGED <<client, sockDl, netVars, at, methodVars, ctxDone, idle, result>>
    BY DEF Arrive
  <1>3. /\ deadline' \in [Users -> {"none", "ahead", "passed"}]
        /\ \A v \in Users \ {c} : deadline'[v] = deadline[v]
    BY <1>1 DEF Arrive, TypeOK, ClientTypeOK
  <1>4. phase' = [phase EXCEPT ![c] = "borrow"] /\ phase[c] = "new"
    BY DEF Arrive
  <1>5. TypeOK'
    BY <1>1, <1>2, <1>3, <1>4 DEF TypeOK, ClientTypeOK, netVars, methodVars
  <1>6. ASSUME NEW v \in Users PROVE UserOK(v)'
    <2>1. CASE v = c
      BY <1>1, <1>2, <2>1 DEF IInv, UserOK, methodVars
    <2>2. CASE v # c
      <3>1. UserOK(v) /\ DeadlineOf(v)' = DeadlineOf(v)
        BY <1>3, <2>2 DEF IInv, DeadlineOf
      <3>. QED  BY <1>2, <1>3, <2>2, <3>1 DEF UserOK, Holds, MayWrite, Waits, Exchange, Sound, Quiet,
                IsOpen, IsOK, netVars, methodVars
    <2>. QED  BY <2>1, <2>2
  <1>7. ASSUME NEW k \in Conns PROVE ConnOK(k)'
    BY <1>2 DEF IInv, ConnOK, Deserted, Quiet, IsOpen, IsOK, netVars
  <1>8. ASSUME NEW d \in Calls PROVE CallOK(d)'
    BY <1>1, <1>2, <1>4 DEF IInv, CallOK, TypeOK
  <1>. QED  BY <1>2, <1>5, <1>6, <1>7, <1>8 DEF IInv, Owners

\* A call that ends without a connection changes nothing but itself.
LEMMA FinishInv ==
    ASSUME IInv, NEW c \in Calls, phase[c] = "borrow", Finish(c, "error"),
           UNCHANGED <<client, sockDl, netVars, at, methodVars, idle>>
    PROVE  IInv'
  <1>1. TypeOK /\ c \in Users /\ CallOK(c)
    BY PoolAssumption DEF IInv
  <1>2. /\ ctxDone' \in [Users -> BOOLEAN] /\ deadline' = deadline
        /\ \A v \in Users : ctxDone[v] => ctxDone'[v]
    BY <1>1 DEF Finish, TypeOK, ClientTypeOK
  <1>3. TypeOK'
    BY <1>1, <1>2 DEF Finish, TypeOK, ClientTypeOK, netVars, methodVars
  <1>4. ASSUME NEW v \in Users PROVE UserOK(v)'
    <2>1. UserOK(v) /\ DeadlineOf(v)' = DeadlineOf(v)
      BY <1>2 DEF IInv, DeadlineOf
    <2>. QED  BY <1>2, <2>1 DEF UserOK, Holds, MayWrite, Waits, Exchange, Sound, Quiet,
              IsOpen, IsOK, netVars, methodVars
  <1>5. ASSUME NEW k \in Conns PROVE ConnOK(k)'
    BY DEF IInv, ConnOK, Deserted, Quiet, IsOpen, IsOK, netVars
  <1>6. ASSUME NEW d \in Calls PROVE CallOK(d)'
    BY <1>1 DEF IInv, CallOK, TypeOK, Finish
  <1>. QED  BY <1>3, <1>4, <1>5, <1>6 DEF IInv, Owners

\* An idle connection is destroyed, by a borrower or by the evictor.
LEMMA DiscardInv ==
    ASSUME IInv, NEW k \in idle, idle' = idle \ {k}, Close(k),
           UNCHANGED <<sockDl, link, wire, session, index, answer, at, methodVars,
                       ctxVars, poolVars>>
    PROVE  IInv'
  <1>1. TypeOK /\ k \in Conns /\ IsOpen(k) /\ \A v \in Users : at[v] # k
    BY IdleConn, Unowned DEF IInv
  <1>2. /\ client' \in [Conns -> ClientRecords]
        /\ replies' \in [Conns -> Seq(Replies)]
        /\ \A j \in Conns \ {k} : ConnSame(j)
        /\ ConnOK(k)'
    BY <1>1, CloseFacts
  <1>3. TypeOK'
    BY <1>1, <1>2 DEF TypeOK, ClientTypeOK, methodVars, ctxVars, poolVars
  <1>4. ASSUME NEW v \in Users PROVE UserOK(v)'
    <2>1. UserOK(v) /\ UserSame(v) /\ at[v] # k
      BY <1>1 DEF IInv, UserSame, methodVars, ctxVars
    <2>2. at[v] # NoConn => at[v] \in Conns \ {k} /\ at[v] \notin idle
      BY <2>1 DEF UserOK, Holds
    <2>. QED  BY <1>2, <2>1, <2>2, UserFrame
  <1>5. ASSUME NEW j \in Conns PROVE ConnOK(j)'
    BY <1>2, <1>5, ConnFrame DEF IInv
  <1>. QED  BY <1>3, <1>4, <1>5 DEF IInv, Owners, CallOK, poolVars

\* A user takes an idle connection and starts a method on it.
LEMMA TakeInv ==
    ASSUME IInv, NEW u \in Users, at[u] = NoConn, NEW k \in idle, idle' = idle \ {k},
           at' = [at EXCEPT ![u] = k], Continued(u),
           UNCHANGED <<client, sockDl, netVars, got, ctxVars, result>>,
           phase' \in [Calls -> {"new", "borrow", "ping", "run", "done"}],
           \A c \in Calls : CallOK(c)'
    PROVE  IInv'
  <1>1. /\ TypeOK /\ k \in Conns /\ IsOpen(k) /\ IsOK(client[k]) /\ Quiet(k)
        /\ k # NoConn /\ \A v \in Users : at[v] # k
    BY IdleConn, Unowned, ClientAssumption DEF IInv
  <1>2. at' \in [Users -> Conns \cup {NoConn}] /\ at'[u] = k
    BY <1>1 DEF TypeOK, ClientTypeOK
  <1>3. TypeOK'
    BY <1>1, <1>2 DEF Continued, MethodTypeOK, TypeOK, ClientTypeOK, netVars, ctxVars
  <1>4. UserOK(u)'
    BY <1>1, <1>2 DEF Continued, UserOK, Holds, MayWrite, Sound, IsOK, IsOpen, Quiet, netVars
  <1>5. ConnOK(k)'
    BY <1>1, <1>2 DEF IInv, ConnOK, Deserted, IsOpen, Quiet, netVars
  <1>6. \A v \in Users \ {u} : at[v] # k /\ UserSame(v)
    BY <1>1 DEF Continued, UserSame, ctxVars, TypeOK, ClientTypeOK
  <1>7. \A j \in Conns \ {k} : ConnSame(j) /\ (j \in idle' <=> j \in idle)
    BY DEF ConnSame, netVars
  <1>. QED  BY <1>1, <1>2, <1>3, <1>4, <1>5, <1>6, <1>7, PoolFrame

\* A user gives its connection back, to the idle ones or destroyed.
LEMMA GiveBackInv ==
    ASSUME IInv, NEW u \in Users, stage[u] = "returned", Leave(u),
           \/ Passivate(at[u])
           \/ Close(at[u]) /\ UNCHANGED idle,
           at' = [at EXCEPT ![u] = NoConn],
           UNCHANGED <<sockDl, link, wire, session, index, answer, got, deadline>>,
           ctxDone' \in [Users -> BOOLEAN], \A v \in Users : ctxDone[v] => ctxDone'[v],
           phase' \in [Calls -> {"new", "borrow", "ping", "run", "done"}],
           result' \in [Calls -> {"none", "ok", "error"}],
           \A c \in Calls : CallOK(c)'
    PROVE  IInv'
  <1>. PICK k \in Conns : k = at[u]
    BY ActiveUser
  <1>1. /\ TypeOK /\ k # NoConn /\ UserOK(u) /\ ConnOK(k) /\ IsOpen(k)
        /\ k \notin idle /\ \A v \in Users \ {u} : at[v] # k
    BY ActiveUser, ClientAssumption DEF IInv
  <1>2. at' \in [Users -> Conns \cup {NoConn}] /\ at'[u] = NoConn
    BY <1>1 DEF TypeOK, ClientTypeOK
  <1>3. MethodTypeOK' /\ stage'[u] = "idle"
    BY <1>1 DEF Leave, MethodTypeOK, TypeOK, ClientTypeOK
  <1>4. UserOK(u)'
    BY <1>2, <1>3 DEF UserOK
  <1>5. \A v \in Users \ {u} : at[v] # k /\ UserSame(v)
    BY <1>1 DEF Leave, UserSame, TypeOK, ClientTypeOK
  <1>6. CASE IsOK(client[k]) /\ idle' = idle \cup {k} /\ UNCHANGED <<client, replies>>
    <2>1. TypeOK'
      BY <1>1, <1>2, <1>3, <1>6 DEF MethodTypeOK, TypeOK, ClientTypeOK
    <2>2. ConnOK(k)'
      BY <1>1, <1>6 DEF UserOK, Holds, ConnOK, Deserted, Quiet, IsOpen
    <2>3. \A j \in Conns \ {k} : ConnSame(j) /\ (j \in idle' <=> j \in idle)
      BY <1>6 DEF ConnSame
    <2>. QED  BY <1>1, <1>2, <1>4, <1>5, <2>1, <2>2, <2>3, PoolFrame
  <1>7. CASE Close(k) /\ UNCHANGED idle
    <2>1. /\ client' \in [Conns -> ClientRecords]
          /\ replies' \in [Conns -> Seq(Replies)]
          /\ \A j \in Conns \ {k} : ConnSame(j)
          /\ ConnOK(k)'
      BY <1>1, <1>7, CloseFacts
    <2>2. TypeOK'
      BY <1>1, <1>2, <1>3, <1>7, <2>1 DEF MethodTypeOK, TypeOK, ClientTypeOK
    <2>. QED  BY <1>1, <1>2, <1>4, <1>5, <1>7, <2>1, <2>2, PoolFrame
  <1>. QED  BY <1>6, <1>7 DEF Passivate

\* After a ping that succeeded the call runs its method on the same connection.
LEMMA KeepInv ==
    ASSUME IInv, NEW u \in Users, stage[u] = "returned", outcome[u] = "ok", Continued(u),
           UNCHANGED <<client, sockDl, netVars, at, got, ctxVars, idle, result>>,
           phase' \in [Calls -> {"new", "borrow", "ping", "run", "done"}],
           \A c \in Calls : CallOK(c)'
    PROVE  IInv'
  <1>. PICK k \in Conns : k = at[u]
    BY ActiveUser
  <1>1. /\ TypeOK /\ k # NoConn /\ UserOK(u) /\ ConnOK(k) /\ IsOpen(k)
        /\ k \notin idle /\ \A v \in Users \ {u} : at[v] # k
    BY ActiveUser, ClientAssumption DEF IInv
  <1>2. IsOK(client[k]) /\ Quiet(k)
    BY <1>1 DEF UserOK, Sound, Holds
  <1>3. TypeOK'
    BY <1>1 DEF Continued, MethodTypeOK, TypeOK, ClientTypeOK, netVars, ctxVars
  <1>4. UserOK(u)'
    BY <1>1, <1>2 DEF Continued, UserOK, Holds, MayWrite, Sound, IsOK, IsOpen, Quiet, netVars
  <1>5. ConnOK(k)'
    BY <1>1 DEF ConnOK, Deserted, IsOpen, IsOK, Quiet, netVars
  <1>6. \A v \in Users \ {u} : at[v] # k /\ UserSame(v)
    BY <1>1 DEF Continued, UserSame, ctxVars
  <1>7. \A j \in Conns \ {k} : ConnSame(j) /\ (j \in idle' <=> j \in idle)
    BY DEF ConnSame, netVars
  <1>. QED  BY <1>1, <1>3, <1>4, <1>5, <1>6, <1>7, PoolFrame

\* A new connection is made for a call, which runs its method on it.
LEMMA CreateInv ==
    ASSUME IInv, NEW c \in Calls, NEW k \in Conns, Create(c, k), Continued(c),
           phase' \in [Calls -> {"new", "borrow", "ping", "run", "done"}],
           \A d \in Calls : CallOK(d)', at[c] = NoConn
    PROVE  IInv'
  <1>1. /\ TypeOK /\ c \in Users /\ ConnOK(k) /\ link[k] = "free" /\ Quiet(k) /\ k # NoConn
        /\ sockDl[k] = NoUser /\ k \notin idle /\ \A v \in Users : at[v] # k
    BY PoolAssumption, ClientAssumption, Unowned DEF IInv, Create, Open, ConnOK, Deserted, IsOpen
  <1>2. /\ client' \in [Conns -> ClientRecords]
        /\ link' \in [Conns -> {"free", "up", "down"}]
        /\ at' \in [Users -> Conns \cup {NoConn}]
        /\ \A j \in Conns \ {k} : client'[j] = client[j] /\ link'[j] = link[j]
        /\ client'[k] = NewIndexClient /\ link'[k] = "up" /\ at'[c] = k
    BY <1>1 DEF Create, Open, NewIndexClient, ClientRecords, TypeOK, ClientTypeOK
  <1>3. TypeOK'
    BY <1>1, <1>2 DEF Create, Run, Continued, MethodTypeOK, TypeOK, ClientTypeOK, ctxVars
  <1>4. UserOK(c)'
    BY <1>1, <1>2 DEF Create, Continued, UserOK, Holds, MayWrite, Sound, IsOK, IsOpen, Quiet,
       NewIndexClient
  <1>5. ConnOK(k)'
    BY <1>1, <1>2 DEF Create, ConnOK, IsOpen, Quiet, NewIndexClient
  <1>6. \A v \in Users \ {c} : at[v] # k /\ UserSame(v)
    BY <1>1 DEF Create, Continued, UserSame, ctxVars, TypeOK, ClientTypeOK
  <1>7. \A j \in Conns \ {k} : ConnSame(j) /\ (j \in idle' <=> j \in idle)
    BY <1>2 DEF Create, ConnSame
  <1>. QED  BY <1>1, <1>2, <1>3, <1>4, <1>5, <1>6, <1>7, PoolFrame


\* A call that borrows has no connection, one that pings or runs has one.
LEMMA CallFacts ==
    ASSUME IInv, NEW c \in Calls
    PROVE  /\ TypeOK /\ c \in Users /\ CallOK(c) /\ UserOK(c)
           /\ phase \in [Calls -> {"new", "borrow", "ping", "run", "done"}]
           /\ phase[c] = "borrow" => at[c] = NoConn
           /\ phase[c] \in {"ping", "run"} => stage[c] # "idle"
           /\ Batch[c] \in Seq(Docs) /\ <<>> \in Seq(Docs)
  BY PoolAssumption DEF IInv, CallOK, TypeOK, UserOK

LEMMA BorrowPingedInv ==
    ASSUME IInv, NEW c \in Calls, NEW k \in Conns, BorrowPinged(c, k)
    PROVE  IInv'
  <1>1. Continued(c)
    BY CallFacts, InvokeContinues DEF BorrowPinged
  <1>2. ASSUME NEW d \in Calls PROVE CallOK(d)'
    BY CallFacts, ClientAssumption DEF BorrowPinged, IInv, CallOK, TypeOK, ClientTypeOK
  <1>3. phase' \in [Calls -> {"new", "borrow", "ping", "run", "done"}]
    BY CallFacts DEF BorrowPinged
  <1>. QED  BY CallFacts, <1>1, <1>2, <1>3, TakeInv DEF BorrowPinged

LEMMA BorrowIdleInv ==
    ASSUME IInv, NEW c \in Calls, NEW k \in Conns, BorrowIdle(c, k)
    PROVE  IInv'
  <1>1. Continued(c)
    BY CallFacts, InvokeContinues DEF BorrowIdle, Run
  <1>2. ASSUME NEW d \in Calls PROVE CallOK(d)'
    BY CallFacts, ClientAssumption DEF BorrowIdle, Run, IInv, CallOK, TypeOK, ClientTypeOK
  <1>3. phase' \in [Calls -> {"new", "borrow", "ping", "run", "done"}]
    BY CallFacts DEF BorrowIdle, Run
  <1>. QED  BY CallFacts, <1>1, <1>2, <1>3, TakeInv DEF BorrowIdle, Run

LEMMA PingReturnsInv ==
    ASSUME IInv, NEW c \in Calls, PingReturns(c)
    PROVE  IInv'
  <1>1. phase[c] = "ping" /\ stage[c] = "returned" /\ at[c] # NoConn
    BY CallFacts DEF PingReturns, CallOK
  <1>2. CASE outcome[c] = "ok" /\ Run(c, at[c]) /\ UNCHANGED <<client, replies, at>>
    <2>1. Continued(c)
      BY CallFacts, InvokeContinues, <1>2 DEF Run
    <2>2. ASSUME NEW d \in Calls PROVE CallOK(d)'
      BY CallFacts, <1>1, <1>2 DEF Run, IInv, CallOK
    <2>3. phase' \in [Calls -> {"new", "borrow", "ping", "run", "done"}]
      BY CallFacts, <1>2 DEF Run
    <2>. QED  BY CallFacts, <1>1, <1>2, <2>1, <2>2, <2>3, KeepInv DEF PingReturns, Run, netVars
  <1>3. CASE /\ Close(at[c])
             /\ at' = [at EXCEPT ![c] = NoConn]
             /\ phase' = [phase EXCEPT ![c] = "borrow"]
             /\ Leave(c)
             /\ UNCHANGED result
    <2>1. ASSUME NEW d \in Calls PROVE CallOK(d)'
      BY CallFacts, <1>1, <1>3 DEF IInv, CallOK, TypeOK, ClientTypeOK
    <2>2. phase' \in [Calls -> {"new", "borrow", "ping", "run", "done"}]
      BY CallFacts, <1>3
    <2>3. result' \in [Calls -> {"none", "ok", "error"}] /\ ctxDone' \in [Users -> BOOLEAN]
      BY CallFacts, <1>3 DEF PingReturns, TypeOK, ClientTypeOK, ctxVars
    <2>. QED  BY CallFacts, <1>1, <1>3, <2>1, <2>2, <2>3, GiveBackInv DEF PingReturns, ctxVars
  <1>. QED  BY <1>2, <1>3 DEF PingReturns

LEMMA CreateCallInv ==
    ASSUME IInv, NEW c \in Calls, NEW k \in Conns, Create(c, k)
    PROVE  IInv'
  <1>1. Continued(c)
    BY CallFacts, InvokeContinues DEF Create, Run
  <1>2. ASSUME NEW d \in Calls PROVE CallOK(d)'
    BY CallFacts, ClientAssumption DEF Create, Run, IInv, CallOK, TypeOK, ClientTypeOK
  <1>3. phase' \in [Calls -> {"new", "borrow", "ping", "run", "done"}]
    BY CallFacts DEF Create, Run
  <1>4. at[c] = NoConn
    BY CallFacts DEF Create
  <1>. QED  BY <1>1, <1>2, <1>3, <1>4, CreateInv

LEMMA ReturnObjectInv ==
    ASSUME IInv, NEW c \in Calls, ReturnObject(c)
    PROVE  IInv'
  <1>1. phase[c] = "run" /\ stage[c] = "returned" /\ at[c] # NoConn
    BY CallFacts DEF ReturnObject, CallOK
  <1>2. outcome[c] \in {"none", "ok", "error"}
    BY CallFacts DEF TypeOK, ClientTypeOK
  <1>3. ASSUME NEW d \in Calls PROVE CallOK(d)'
    BY CallFacts, <1>1 DEF ReturnObject, Finish, IInv, CallOK, TypeOK, ClientTypeOK
  <1>4. /\ phase' \in [Calls -> {"new", "borrow", "ping", "run", "done"}]
        /\ result' \in [Calls -> {"none", "ok", "error"}]
        /\ ctxDone' \in [Users -> BOOLEAN]
        /\ \A v \in Users : ctxDone[v] => ctxDone'[v]
    BY CallFacts, <1>2 DEF ReturnObject, Finish, TypeOK, ClientTypeOK
  <1>. QED  BY CallFacts, <1>1, <1>3, <1>4, GiveBackInv DEF ReturnObject, Finish

\* One step of the goroutine of a call, outside IndexClient.
LEMMA CallStepInv ==
    ASSUME IInv, NEW c \in Calls, CallStep(c)
    PROVE  IInv'
  <1>1. CASE \E k \in Conns : BorrowRefused(c, k)
    BY <1>1, DiscardInv DEF BorrowRefused
  <1>2. CASE CreateFails(c) \/ BorrowInterrupted(c)
    BY <1>2, FinishInv DEF CreateFails, BorrowInterrupted
  <1>. QED  BY <1>1, <1>2, BorrowPingedInv, BorrowIdleInv, PingReturnsInv, CreateCallInv,
               ReturnObjectInv DEF CallStep

LEMMA EvictorStepInv ==
    ASSUME IInv, EvictorStep
    PROVE  IInv'
  <1>1. /\ TypeOK /\ Evictor \in Users /\ <<>> \in Seq(Docs)
        /\ UserOK(Evictor) /\ \A c \in Calls : c # Evictor /\ c \in Users /\ CallOK(c)
    BY PoolAssumption DEF IInv
  <1>2. ASSUME NEW k \in Conns, Evict(k) PROVE IInv'
    BY <1>2, DiscardInv DEF Evict
  <1>3. ASSUME NEW k \in Conns, EvictorPing(k) PROVE IInv'
    <2>1. Continued(Evictor)
      BY <1>1, <1>3, InvokeContinues DEF EvictorPing
    <2>2. ASSUME NEW c \in Calls PROVE CallOK(c)'
      BY <1>1, <1>3 DEF EvictorPing, CallOK, TypeOK, ClientTypeOK, poolVars
    <2>3. phase' \in [Calls -> {"new", "borrow", "ping", "run", "done"}]
      BY <1>1, <1>3 DEF EvictorPing, poolVars, TypeOK
    <2>. QED  BY <1>1, <1>3, <2>1, <2>2, <2>3, TakeInv DEF EvictorPing, poolVars
  <1>4. ASSUME EvictorPingReturns PROVE IInv'
    <2>1. ASSUME NEW c \in Calls PROVE CallOK(c)'
      BY <1>1, <1>4 DEF EvictorPingReturns, CallOK, TypeOK, ClientTypeOK, poolVars
    <2>2. /\ phase' \in [Calls -> {"new", "borrow", "ping", "run", "done"}]
          /\ result' \in [Calls -> {"none", "ok", "error"}]
          /\ ctxDone' \in [Users -> BOOLEAN]
      BY <1>1, <1>4 DEF EvictorPingReturns, TypeOK, ClientTypeOK, poolVars, ctxVars
    <2>. QED  BY <1>1, <1>4, <2>1, <2>2, GiveBackInv DEF EvictorPingReturns, ctxVars
  <1>. QED  BY <1>2, <1>3, <1>4 DEF EvictorStep

-----------------------------------------------------------------------------
(* The theorems.                                                           *)

LEMMA InitInv == Init => IInv
  <1>. SUFFICES ASSUME Init PROVE IInv
    OBVIOUS
  <1>1. NewIndexClient \in ClientRecords /\ NoTx \in [open : BOOLEAN, docs : SUBSET Docs]
    BY DEF NewIndexClient, ClientRecords, NoTx
  <1>2. /\ <<>> \in Seq(Messages) /\ <<>> \in Seq(Replies) /\ <<>> \in Seq(Docs)
    OBVIOUS
  <1>3. TypeOK
    BY <1>1, <1>2 DEF Init, ClientInit, TypeOK, ClientTypeOK
  <1>4. ASSUME NEW u \in Users PROVE UserOK(u)
    BY DEF Init, ClientInit, UserOK
  <1>5. ASSUME NEW k \in Conns PROVE ConnOK(k)
    BY DEF Init, ClientInit, ConnOK, Deserted, Quiet, IsOpen, NewIndexClient
  <1>6. Owners /\ \A c \in Calls : CallOK(c)
    BY PoolAssumption DEF Init, ClientInit, Owners, CallOK
  <1>. QED  BY <1>3, <1>4, <1>5, <1>6 DEF IInv

LEMMA NextInv == IInv /\ [Next]_vars => IInv'
  <1>. SUFFICES ASSUME IInv, [Next]_vars PROVE IInv'
    OBVIOUS
  <1>1. CASE \E c \in Calls : Arrive(c) \/ CallStep(c)
    BY <1>1, ArriveInv, CallStepInv
  <1>2. CASE EvictorStep
    BY <1>2, EvictorStepInv
  <1>3. CASE Environment
    BY <1>3, EnvironmentInv
  <1>4. CASE UNCHANGED vars
    <2>1. UNCHANGED <<client, sockDl, link, wire, replies, session, index, answer, at, stage,
                      req, todo, outcome, got, deadline, ctxDone, idle, phase, result>>
      BY <1>4 DEF vars, clientVars, netVars, methodVars, ctxVars, poolVars
    <2>2. TypeOK'
      BY <2>1 DEF IInv, TypeOK, ClientTypeOK
    <2>3. ASSUME NEW u \in Users PROVE UserOK(u)'
      BY <2>1 DEF IInv, UserOK, Holds, MayWrite, Waits, Exchange, DeadlineOf, Sound, Quiet,
         IsOpen, IsOK
    <2>4. ASSUME NEW k \in Conns PROVE ConnOK(k)'
      BY <2>1 DEF IInv, ConnOK, Deserted, Quiet, IsOpen, IsOK
    <2>. QED  BY <2>1, <2>2, <2>3, <2>4 DEF IInv, Owners, CallOK
  <1>. QED  BY <1>1, <1>2, <1>3, <1>4 DEF Next

\* Every behaviour of the pool satisfies the inductive invariant.
THEOREM Invariant == Spec => []IInv
  BY InitInv, NextInv, PTL DEF Spec

\* Every variable keeps its type: in particular the difference of numRequests
\* and numResponses (client.go) never becomes negative.
THEOREM TypesHold == Spec => []TypeOK
  <1>1. IInv => TypeOK
    BY DEF IInv
  <1>. QED  BY <1>1, Invariant, PTL

\* PassivateObject lets no connection back into the pool that still carries
\* something of the call that used it.
THEOREM IdleConnectionsAreClean == Spec => []IdleIsClean
  <1>1. IInv => IdleIsClean
    BY IdleConn DEF IdleIsClean, Quiet
  <1>. QED  BY <1>1, Invariant, PTL

\* What is under way on k is one line at most, and belongs to the request of u.
Own(u, k) ==
    /\ Len(wire[k]) + Len(replies[k]) <= 1
    /\ \A i \in DOMAIN wire[k] : wire[k][i].by = u /\ wire[k][i].kind = req[u]
    /\ \A i \in DOMAIN replies[k] :
          replies[k][i].by = u /\ replies[k][i].kind = req[u]

LEMMA ExchangeIsOwn ==
    ASSUME NEW u, NEW k, Exchange(u, k)
    PROVE  Own(u, k)
  <1>1. CASE Quiet(k)
    BY <1>1 DEF Quiet, Own
  <1>2. ASSUME replies[k] = <<>>, NEW d, wire[k] = <<Message(u, req[u], d)>>
        PROVE  Own(u, k)
    BY <1>2 DEF Message, Own
  <1>3. ASSUME wire[k] = <<>>, NEW s, replies[k] = <<Reply(u, req[u], s)>>
        PROVE  Own(u, k)
    BY <1>3 DEF Reply, Own
  <1>. QED  BY <1>1, <1>2, <1>3 DEF Exchange

\* sendRequest never returns the reply to somebody else's request, or to an
\* earlier request of its own.
THEOREM RepliesAreOwn == Spec => []OwnReply
  <1>1. IInv => OwnReply
    <2>1. ASSUME IInv, NEW u \in Users, stage[u] \in {"wrote", "read"}
          PROVE  Own(u, at[u])
      BY <2>1, ExchangeIsOwn DEF IInv, UserOK, Waits
    <2>2. OwnReply <=> \A u \in Users : stage[u] \in {"wrote", "read"} => Own(u, at[u])
      BY Zenon DEF OwnReply, Own
    <2>. QED  BY <2>1, <2>2
  <1>. QED  BY <1>1, Invariant, PTL

\* The deadline on the socket is the one of the context that waits on it.
THEOREM DeadlinesAreOwn == Spec => []DeadlineIsTheCallers
  <1>1. IInv => DeadlineIsTheCallers
    BY DEF IInv, UserOK, Waits, DeadlineIsTheCallers
  <1>. QED  BY <1>1, Invariant, PTL

\* No connection is lost by the proxy or lent to two users, whatever fails.
THEOREM ConnectionsHaveOneOwner == Spec => []OneOwner
  <1>1. IInv => OneOwner
    <2>. SUFFICES ASSUME IInv, NEW k \in Conns
                  PROVE  /\ \A u, v \in Users : at[u] = k /\ at[v] = k => u = v
                         /\ IsOpen(k) <=> k \in idle \/ \E u \in Users : at[u] = k
                         /\ k \in idle => \A u \in Users : at[u] # k
      BY DEF OneOwner
    <2>1. k # NoConn /\ ConnOK(k) /\ \A u \in Users : at[u] = k => IsOpen(k) /\ k \notin idle
      BY ClientAssumption DEF IInv, UserOK, Holds
    <2>. QED  BY <2>1 DEF IInv, Owners, ConnOK
  <1>. QED  BY <1>1, Invariant, PTL

-----------------------------------------------------------------------------
(* The service                                                             *)

DocsIn(seq) == {seq[i] : i \in DOMAIN seq}

Active(u) == stage[u] \in {"send", "wrote", "read"}

\* The reply is an "OK " line that was not read yet.
Answered(u, k) ==
    stage[u] \in {"wrote", "read"} /\ replies[k] # <<>> /\ Head(replies[k]).status = "OK"

\* The server has what it needs for the rest of the batch of c.
Has(c, k, rest) == session[k].docs \cup DocsIn(rest) = BatchDocs(c)

\* A message that is not a ping is of the call that runs on the connection, or
\* of one that has failed.
Sent(k, m) ==
    m.kind # "echo" =>
        /\ m.by \in Calls
        /\ \/ at[m.by] = k /\ phase[m.by] = "run"
           \/ phase[m.by] = "done" /\ result[m.by] = "error"
        /\ m.kind \in Queries => Method[m.by] = "Search" /\ answer[m.by] = NoAnswer
        /\ m.kind = "commit" => Method[m.by] = "Insert" /\ Has(m.by, k, <<>>)

LineOK(k) == wire[k] # <<>> => wire[k] = <<Head(wire[k])>> /\ Sent(k, Head(wire[k]))

\* A call has one such message under way.
SentOnce ==
    \A j, k \in Conns :
        /\ wire[j] # <<>> /\ Head(wire[j]).kind # "echo"
        /\ wire[k] # <<>> /\ Head(wire[k]).kind # "echo"
        /\ Head(wire[j]).by = Head(wire[k]).by
        => j = k

StartsQuiet(u) == stage[u] = "send" /\ req[u] # "rollback" => Quiet(at[u])

EndsWith(u) == stage[u] = "returned" => outcome[u] \in {"ok", "error"}

Pings(u) == u = Evictor \/ (u \in Calls /\ phase[u] = "ping")

PingOK(u) == Pings(u) /\ Active(u) => req[u] = "echo"

SearchOK(c) ==
    phase[c] = "run" /\ Method[c] = "Search" =>
        /\ Active(c) => req[c] = "search"
        /\ stage[c] = "send" => answer[c] = NoAnswer
        /\ Answered(c, at[c]) => answer[c] # NoAnswer
        /\ stage[c] = "returned" /\ outcome[c] = "ok" => answer[c] # NoAnswer /\ got[c] = answer[c]

\* The server has the documents that are not to be sent any more.
Progress(c, k) ==
    /\ req[c] = "begin" => DocsIn(todo[c]) = BatchDocs(c)
    /\ req[c] = "commit" => todo[c] = <<>>
    /\ stage[c] = "send" /\ req[c] \in {"insert", "commit"} /\ link[k] = "up" => Has(c, k, todo[c])
    /\ stage[c] # "send" /\ wire[k] # <<>> /\ req[c] \in {"insert", "commit"} =>
          /\ Has(c, k, todo[c])
          /\ req[c] = "insert" => Head(wire[k]).docs = {Head(todo[c])}
    /\ Answered(c, k) /\ link[k] = "up" =>
          /\ req[c] = "begin" => Has(c, k, todo[c])
          /\ req[c] = "insert" => Has(c, k, Tail(todo[c]))
    /\ Answered(c, k) /\ req[c] = "commit" => BatchDocs(c) \subseteq index

InsertOK(c) ==
    phase[c] = "run" /\ Method[c] = "Insert" =>
        /\ Active(c) => req[c] \in TxRequests /\ Progress(c, at[c])
        /\ stage[c] = "returned" /\ outcome[c] = "ok" => BatchDocs(c) \subseteq index

\* Before it runs a call has asked nothing, it has a result when it is done, and
\* an Insert reads no answer to a query.
CallEnds(c) ==
    /\ phase[c] \in {"new", "borrow", "ping"} => answer[c] = NoAnswer
    /\ phase[c] = "done" <=> result[c] # "none"
    /\ Method[c] = "Insert" => got[c] = NoAnswer

\* What is known of a user beyond IInv.
Knows(u) ==
    /\ StartsQuiet(u) /\ EndsWith(u) /\ PingOK(u)
    /\ u \in Calls => SearchOK(u) /\ InsertOK(u) /\ CallEnds(u)

Lines == (\A k \in Conns : LineOK(k)) /\ SentOnce

SInv ==
    /\ IInv
    /\ Lines
    /\ \A u \in Users : Knows(u)

-----------------------------------------------------------------------------
(* Frames                                                                  *)

\* What a step that is not of u leaves alone of u and of its connection.
KnowsSame(u) ==
    /\ stage'[u] = stage[u] /\ req'[u] = req[u] /\ todo'[u] = todo[u]
    /\ outcome'[u] = outcome[u] /\ at'[u] = at[u]
    /\ u \in Calls => /\ phase'[u] = phase[u] /\ result'[u] = result[u]
                      /\ answer'[u] = answer[u] /\ got'[u] = got[u]

ServerSame(k) ==
    /\ link'[k] = link[k] /\ wire'[k] = wire[k]
    /\ replies'[k] = replies[k] /\ session'[k] = session[k]

LEMMA KnowsFrame ==
    ASSUME IInv, NEW u \in Users, Knows(u), KnowsSame(u), index \subseteq index',
           at[u] # NoConn => ServerSame(at[u])
    PROVE  Knows(u)'
<1>1. Active(u)' <=> Active(u)
  BY DEF KnowsSame, Active
<1>2. Active(u) => at[u] # NoConn
  BY DEF Active, IInv, UserOK
<1>3. CASE at[u] = NoConn
  BY <1>1, <1>2, <1>3 DEF Knows, StartsQuiet, EndsWith, PingOK, Pings, SearchOK, InsertOK, CallEnds,
     KnowsSame, Active, Answered
<1>4. CASE at[u] # NoConn
  <2>1. ServerSame(at[u])
    BY <1>4
  <2>2. StartsQuiet(u)' /\ EndsWith(u)' /\ PingOK(u)'
    BY <1>1, <2>1 DEF Knows, StartsQuiet, EndsWith, PingOK, Pings, KnowsSame, ServerSame, Quiet
  <2>3. ASSUME u \in Calls PROVE SearchOK(u)' /\ CallEnds(u)'
    BY <1>1, <2>1, <2>3 DEF Knows, SearchOK, CallEnds, KnowsSame, ServerSame, Answered
  <2>4. ASSUME u \in Calls PROVE InsertOK(u)'
    <3>1. Progress(u, at[u]) => Progress(u, at[u])'
      BY <2>1, <2>4 DEF Progress, KnowsSame, ServerSame, Answered, Has
    <3> QED
      BY <1>1, <2>4, <3>1 DEF Knows, InsertOK, KnowsSame
  <2> QED
    BY <2>2, <2>3, <2>4 DEF Knows
<1> QED
  BY <1>3, <1>4

\* Messages are served or dropped; those that are left stay as they are sent.
LEMMA LinesFrame ==
    ASSUME Lines,
           \A k \in Conns : wire'[k] # <<>> => wire'[k] = wire[k],
           \A k \in Conns : wire'[k] # <<>> /\ Sent(k, Head(wire[k])) => Sent(k, Head(wire[k]))'
    PROVE  Lines'
<1>1. ASSUME NEW k \in Conns PROVE LineOK(k)'
  BY <1>1 DEF Lines, LineOK
<1>2. SentOnce'
  BY DEF Lines, SentOnce
<1> QED
  BY <1>1, <1>2 DEF Lines

\* What a client does once sendRequest has failed depends on nothing else.
LEMMA ErrorKeeps ==
    ASSUME SInv, NEW u \in Users, Active(u), AfterError(u),
           UNCHANGED <<at, phase, result, answer, got>>
    PROVE  Knows(u)'
<1>1. /\ TypeOK /\ Knows(u) /\ at[u] # NoConn
  BY DEF SInv, IInv, Active, UserOK
<1>2. \/ /\ req[u] = "insert"
         /\ stage'[u] = "send" /\ req'[u] = "rollback" /\ outcome'[u] = "none"
      \/ /\ req[u] # "insert"
         /\ stage'[u] = "returned" /\ outcome'[u] = "error"
  BY <1>1 DEF AfterError, Send, Return, TypeOK, ClientTypeOK
<1>3. StartsQuiet(u)' /\ EndsWith(u)'
  BY <1>2 DEF StartsQuiet, EndsWith
<1>4. PingOK(u)'
  BY <1>1, <1>2 DEF Knows, PingOK, Pings, Active
<1>5. ASSUME u \in Calls PROVE SearchOK(u)' /\ CallEnds(u)'
  BY <1>1, <1>2, <1>5 DEF Knows, SearchOK, CallEnds, Active, Answered
<1>6. ASSUME u \in Calls PROVE InsertOK(u)'
  BY <1>1, <1>2, <1>6 DEF Knows, InsertOK, Active, Answered, Progress, TxRequests
<1> QED
  BY <1>3, <1>4, <1>5, <1>6 DEF Knows

\* A step of u that changes nothing but its own variables and what its client
\* reads.
LEMMA ClientKnows ==
    ASSUME SInv, IInv', NEW u \in Users, Active(u), Knows(u)',
           UNCHANGED <<link, wire, session, index, answer, at, phase, result>>,
           \A v \in Users \ {u} : UserSame(v) /\ got'[v] = got[v],
           \A k \in Conns \ {at[u]} : replies'[k] = replies[k]
    PROVE  SInv'
<1>1. Lines'
  <2>1. ASSUME NEW k \in Conns, NEW m, Sent(k, m) PROVE Sent(k, m)'
    BY <2>1 DEF Sent, Has
  <2> QED
    BY <2>1, LinesFrame DEF SInv
<1>2. ASSUME NEW v \in Users \ {u} PROVE Knows(v)'
  <2>1. IInv /\ Knows(v) /\ at[v] # NoConn => at[v] \in Conns \ {at[u]}
    BY <1>2 DEF SInv, IInv, Owners, UserOK, Holds
  <2>2. KnowsSame(v)
    BY <1>2 DEF KnowsSame, UserSame
  <2>3. at[v] # NoConn => ServerSame(at[v])
    BY <2>1 DEF ServerSame, SInv
  <2> QED
    BY <1>2, <2>1, <2>2, <2>3, KnowsFrame DEF SInv
<1> QED
  BY <1>1, <1>2 DEF SInv

-----------------------------------------------------------------------------
(* The steps of a user                                                     *)

\* The variables of the other users stay as they are.
LEMMA AfterKeeps ==
    ASSUME IInv, NEW u \in Users, AfterOK(u) \/ AfterError(u), stage[u] \in {"send", "wrote", "read"},
           UNCHANGED <<at, ctxVars>>
    PROVE  \A v \in Users \ {u} : UserSame(v)
BY Stepper DEF Continued, UserSame, ctxVars

\* A request fails, or is given up by its context.
LEMMA FailsKnows ==
    ASSUME SInv, IInv', NEW u \in Users, UNCHANGED <<idle, poolVars>>,
           \/ Refuse(u) \/ WriteFails(u) \/ ReadFails(u) \/ ReadERR(u) \/ ReadJunk(u)
           \/ CheckContext(u) /\ AfterError(u)
    PROVE  SInv'
<1>1. /\ IInv /\ Active(u) /\ AfterError(u)
      /\ UNCHANGED <<link, wire, session, index, answer, at, phase, result, got, ctxVars>>
  BY DEF SInv, Active, Refuse, WriteFails, ReadFails, ReadERR, ReadJunk, CheckContext, Accept,
     netVars, poolVars
<1>2. Knows(u)'
  BY <1>1, ErrorKeeps
<1>3. \A v \in Users \ {u} : UserSame(v) /\ got'[v] = got[v]
  BY <1>1, AfterKeeps DEF Active
<1>4. \A k \in Conns \ {at[u]} : replies'[k] = replies[k]
  BY <1>1, AcceptsOwn DEF Refuse, WriteFails, ReadFails, ReadERR, ReadJunk, CheckContext, netVars
<1> QED
  BY <1>1, <1>2, <1>3, <1>4, ClientKnows

\* The context is not over: sendRequest goes on to read.
LEMMA CheckContextKnows ==
    ASSUME SInv, IInv', NEW u \in Users, CheckContext(u), UNCHANGED <<idle, poolVars>>
    PROVE  SInv'
<1>1. CASE AfterError(u)
  BY <1>1, FailsKnows
<1>2. CASE stage' = [stage EXCEPT ![u] = "read"] /\ UNCHANGED <<req, todo, outcome>>
  <2>1. /\ IInv /\ Active(u) /\ Knows(u) /\ stage[u] = "wrote" /\ stage'[u] = "read"
        /\ \A v \in Users \ {u} : stage'[v] = stage[v]
        /\ UNCHANGED <<link, wire, replies, session, index, answer, at, phase, result, got,
                       deadline, ctxDone>>
    BY <1>2 DEF SInv, IInv, TypeOK, ClientTypeOK, Active, CheckContext, netVars, ctxVars, poolVars
  <2>2. StartsQuiet(u)' /\ EndsWith(u)' /\ PingOK(u)'
    BY <1>2, <2>1 DEF Knows, StartsQuiet, EndsWith, PingOK, Pings, Active
  <2>3. ASSUME u \in Calls PROVE SearchOK(u)' /\ CallEnds(u)'
    BY <1>2, <2>1, <2>3 DEF Knows, SearchOK, CallEnds, Active, Answered
  <2>4. ASSUME u \in Calls PROVE InsertOK(u)'
    BY <1>2, <2>1, <2>4 DEF Knows, InsertOK, Active, Answered, Progress, Has
  <2>5. Knows(u)'
    BY <2>2, <2>3, <2>4 DEF Knows
  <2> QED
    BY <1>2, <2>1, <2>5, ClientKnows DEF UserSame
<1> QED
  BY <1>1, <1>2 DEF CheckContext

\* A call that holds a connection runs, unless it pings.
LEMMA Runs ==
    ASSUME SInv, NEW u \in Users, Active(u), req[u] # "echo"
    PROVE  u \in Calls /\ phase[u] = "run"
<1>1. IInv /\ Knows(u) /\ at[u] # NoConn
  BY DEF SInv, IInv, UserOK, Active
<1>2. u \in Calls /\ phase[u] # "ping"
  BY <1>1, PoolAssumption DEF Knows, PingOK, Pings
<1> QED
  BY <1>1, <1>2 DEF IInv, CallOK

LEMMA WriteKnows ==
    ASSUME SInv, IInv', NEW u \in Users, Write(u), UNCHANGED <<idle, poolVars>>
    PROVE  SInv'
<1> PICK k \in Conns : k = at[u]
  BY Stepper DEF SInv, Write
<1>1. /\ IInv /\ TypeOK /\ Knows(u) /\ stage[u] = "send" /\ Active(u) /\ UserOK(u) /\ k # NoConn
      /\ ~ctxDone[u] /\ ~SockExpired(DeadlineOf(u)) /\ ConnOK(k)
  BY Stepper, Deadlines DEF SInv, IInv, Write, Active
<1>2. /\ stage'[u] = "wrote"
      /\ \A v \in Users \ {u} : stage'[v] = stage[v]
      /\ UNCHANGED <<link, replies, session, index, answer, at, phase, result, got, req, todo,
                     outcome, deadline, ctxDone>>
  BY <1>1 DEF Write, TypeOK, ClientTypeOK, ctxVars, poolVars
<1>3. Quiet(k)
  <2>1. MayWrite(u, k)
    BY <1>1 DEF UserOK
  <2>2. deadline[u] # "passed"
    BY <1>1, ClientAssumption DEF SockExpired, DeadlineOf
  <2> QED
    BY <1>1, <2>1, <2>2 DEF MayWrite
<1> PICK m : m = Message(u, req[u], IF req[u] = "insert" THEN {Head(todo[u])} ELSE {})
  OBVIOUS
<1>4. /\ \A j \in Conns \ {k} : wire'[j] = wire[j]
      /\ wire'[k] # <<>> => link[k] = "up" /\ wire'[k] = <<m>>
  <2>1. CASE link[k] = "up" /\ wire' = [wire EXCEPT ![k] = Append(@, m)]
    BY <1>1, <1>3, <2>1 DEF TypeOK, ClientTypeOK, Quiet
  <2>2. CASE wire' = wire
    BY <1>3, <2>2 DEF Quiet
  <2> QED
    BY <2>1, <2>2 DEF Write
<1>5. m.by = u /\ m.kind = req[u] /\ (req[u] = "insert" => m.docs = {Head(todo[u])})
  BY DEF Message
<1>6. Knows(u)'
  <2>1. ~Answered(u, k)' /\ Active(u)' /\ replies'[k] = <<>>
    BY <1>2, <1>3 DEF Answered, Active, Quiet
  <2>2. StartsQuiet(u)' /\ EndsWith(u)' /\ PingOK(u)'
    BY <1>1, <1>2 DEF Knows, StartsQuiet, EndsWith, PingOK, Pings
  <2>3. ASSUME u \in Calls PROVE SearchOK(u)' /\ CallEnds(u)'
    BY <1>1, <1>2, <2>1, <2>3 DEF Knows, SearchOK, CallEnds
  <2>4. ASSUME u \in Calls PROVE InsertOK(u)'
    <3>1. ASSUME Progress(u, k) PROVE Progress(u, k)'
      <4>1. Has(u, k, todo[u])' <=> Has(u, k, todo[u])
        BY <1>2 DEF Has
      <4> wire'[k] # <<>> => Head(wire'[k]) = m
        BY <1>4
      <4>2. wire'[k] # <<>> /\ req[u] = "insert" => Head(wire'[k]).docs = {Head(todo[u])}
        BY <1>5, Zenon
      <4>3. wire'[k] # <<>> /\ req[u] \in {"insert", "commit"} => Has(u, k, todo[u])
        BY <1>1, <1>4, <3>1 DEF Progress
      <4> QED
        BY <1>2, <2>1, <3>1, <4>1, <4>2, <4>3 DEF Progress
    <3> QED
      BY <1>1, <1>2, <2>4, <3>1 DEF Knows, InsertOK
  <2> QED
    BY <2>2, <2>3, <2>4 DEF Knows
<1>7. ASSUME wire'[k] # <<>> PROVE Sent(k, m)'
  <2> SUFFICES ASSUME req[u] # "echo" PROVE Sent(k, m)'
    BY <1>5 DEF Sent
  <2>1. u \in Calls /\ phase[u] = "run" /\ link[k] = "up"
    BY <1>1, <1>4, <1>7, Runs
  <2>2. Method[u] \in {"Search", "Insert"}
    BY <2>1, PoolAssumption
  <2>3. CASE Method[u] = "Search"
    <3>1. req[u] = "search" /\ answer[u] = NoAnswer
      BY <1>1, <2>1, <2>3 DEF Knows, SearchOK
    <3> QED
      BY <1>2, <1>5, <2>1, <2>3, <3>1 DEF Sent
  <2>4. CASE Method[u] = "Insert"
    <3>1. req[u] \in TxRequests /\ (req[u] = "commit" => Has(u, k, <<>>))
      BY <1>1, <2>1, <2>4 DEF Knows, InsertOK, Progress
    <3> QED
      BY <1>2, <1>5, <2>1, <2>4, <3>1 DEF Sent, Has, TxRequests, Queries
  <2> QED
    BY <2>2, <2>3, <2>4
<1>8. ASSUME NEW j \in Conns, NEW n, Sent(j, n) PROVE Sent(j, n)'
  BY <1>2, <1>8 DEF Sent, Has
<1>9. ASSUME NEW j \in Conns \ {k}, wire[j] # <<>>, Head(wire[j]).kind # "echo", req[u] # "echo"
      PROVE  Head(wire[j]).by # u
  <2>1. phase[u] = "run" /\ Sent(j, Head(wire[j]))
    BY <1>1, <1>9, Runs DEF SInv, Lines, LineOK
  <2> QED
    BY <1>9, <2>1 DEF Sent
<1>10. Lines'
  <2>1. ASSUME NEW j \in Conns PROVE LineOK(j)'
    <3>1. CASE j = k
      BY <1>4, <1>7, <3>1 DEF LineOK
    <3>2. CASE j # k
      BY <1>4, <1>8, <3>2 DEF SInv, Lines, LineOK
    <3> QED
      BY <3>1, <3>2
  <2>2. SentOnce'
    <3> SUFFICES ASSUME NEW i \in Conns, NEW j \in Conns, i # j,
                        wire'[i] # <<>>, Head(wire'[i]).kind # "echo",
                        wire'[j] # <<>>, Head(wire'[j]).kind # "echo",
                        Head(wire'[i]).by = Head(wire'[j]).by
                 PROVE  FALSE
      BY DEF SentOnce
    <3>1. wire'[k] # <<>> => Head(wire'[k]) = m
      BY <1>4
    <3>2. CASE i = k
      BY <1>4, <1>5, <1>9, <3>1, <3>2
    <3>3. CASE j = k
      BY <1>4, <1>5, <1>9, <3>1, <3>3
    <3>4. CASE i # k /\ j # k
      BY <1>4, <3>4 DEF SInv, Lines, SentOnce
    <3> QED
      BY <3>2, <3>3, <3>4
  <2> QED
    BY <2>1, <2>2 DEF Lines
<1>11. ASSUME NEW v \in Users \ {u} PROVE Knows(v)'
  <2>1. IInv /\ Knows(v) /\ (at[v] # NoConn => at[v] \in Conns \ {k})
    BY <1>1, <1>11 DEF SInv, IInv, Owners, UserOK, Holds
  <2>2. KnowsSame(v)
    BY <1>2, <1>11 DEF KnowsSame
  <2>3. at[v] # NoConn => ServerSame(at[v])
    BY <1>2, <1>4, <2>1 DEF ServerSame
  <2> QED
    BY <1>2, <1>11, <2>1, <2>2, <2>3, KnowsFrame
<1> QED
  BY <1>6, <1>10, <1>11 DEF SInv

LEMMA ReadOKKnows ==
    ASSUME SInv, IInv', NEW u \in Users, ReadOK(u), UNCHANGED <<idle, poolVars>>
    PROVE  SInv'
<1> PICK k \in Conns : k = at[u]
  BY Stepper DEF SInv, ReadOK, Accept
<1>1. /\ IInv /\ TypeOK /\ Knows(u) /\ stage[u] = "read" /\ Active(u) /\ UserOK(u) /\ k # NoConn
      /\ Accept(k, u) /\ AfterOK(u) /\ Head(replies[k]).status = "OK" /\ Head(replies[k]).by = u
      /\ Quiet(k)' /\ Answered(u, k) /\ u \in Users
  BY Stepper, AcceptsOwn DEF SInv, IInv, ReadOK, Accept, Active, Quiet, Answered
<1>2. /\ UNCHANGED <<link, wire, session, index, answer, at, phase, result, ctxVars>>
      /\ got' = IF req[u] \in Queries THEN [got EXCEPT ![u] = answer[u]] ELSE got
      /\ \A j \in Conns \ {k} : replies'[j] = replies[j]
  BY <1>1, AcceptsOwn DEF ReadOK, Accept, poolVars
<1>3. (\A v \in Users \ {u} : got'[v] = got[v]) /\ (req[u] \in Queries => got'[u] = answer[u])
  BY <1>1, <1>2 DEF TypeOK, ClientTypeOK
<1>4. \A v \in Users \ {u} : UserSame(v)
  BY <1>1, <1>2, AfterKeeps
<1>5. \/ /\ req[u] \in {"begin", "insert"}
         /\ stage'[u] = "send"
         /\ todo'[u] = IF req[u] = "begin" THEN todo[u] ELSE Tail(todo[u])
         /\ req'[u] = IF todo'[u] = <<>> THEN "commit" ELSE "insert"
      \/ /\ req[u] \notin {"begin", "insert", "rollback"}
         /\ stage'[u] = "returned" /\ outcome'[u] = "ok"
      \/ stage'[u] = "returned" /\ outcome'[u] = "error"
  <2>1. ASSUME NEW rest, NextInsert(u, rest)
        PROVE  stage'[u] = "send" /\ todo'[u] = rest /\ req'[u] = IF rest = <<>> THEN "commit" ELSE "insert"
    BY <1>1, <2>1 DEF NextInsert, Send, TypeOK, ClientTypeOK
  <2>2. ASSUME NEW r, Return(u, r) PROVE stage'[u] = "returned" /\ outcome'[u] = r
    BY <1>1, <2>2 DEF Return, TypeOK, ClientTypeOK
  <2>3. CASE req[u] = "begin" /\ NextInsert(u, todo[u])
    BY <2>1, <2>3
  <2>4. CASE req[u] = "insert" /\ NextInsert(u, Tail(todo[u]))
    BY <2>1, <2>4
  <2>5. CASE req[u] \in {"commit", "echo"} \cup Queries /\ Return(u, "ok")
    BY <2>2, <2>5 DEF Queries
  <2>6. CASE req[u] \in {"rollback", "search"} /\ Return(u, "error")
    BY <2>2, <2>6
  <2> QED
    BY <1>1, <2>3, <2>4, <2>5, <2>6 DEF AfterOK
<1>6. Knows(u)'
  <2>1. StartsQuiet(u)' /\ EndsWith(u)'
    BY <1>1, <1>2, <1>5 DEF StartsQuiet, EndsWith
  <2>2. PingOK(u)'
    BY <1>1, <1>2, <1>5 DEF Knows, PingOK, Pings, Active
  <2>3. ASSUME u \in Calls PROVE SearchOK(u)' /\ CallEnds(u)'
    <3>1. SearchOK(u)'
      BY <1>1, <1>2, <1>3, <1>5, <2>3 DEF Knows, SearchOK, Answered, Active, Queries
    <3>2. Method[u] = "Insert" => got'[u] = got[u]
      <4>1. Method[u] = "Insert" => req[u] \notin Queries
        BY <1>1, <2>3, Runs DEF Knows, InsertOK, Queries, TxRequests
      <4> QED
        BY <1>2, <4>1
    <3> QED
      BY <1>1, <1>2, <2>3, <3>1, <3>2 DEF Knows, CallEnds
  <2>4. ASSUME u \in Calls, phase[u] = "run", Method[u] = "Insert" PROVE InsertOK(u)'
    <3>1. req[u] \in TxRequests /\ Progress(u, k)
      BY <1>1, <2>4 DEF Knows, InsertOK
    <3>2. CASE stage'[u] = "send"
      <4>1. req[u] \in {"begin", "insert"} /\ (link[k] = "up" => Has(u, k, todo'[u]))
        BY <1>1, <1>5, <3>1, <3>2 DEF Progress
      <4>2. Progress(u, k)'
        BY <1>2, <1>5, <3>2, <4>1 DEF Progress, Has, Answered
      <4> QED
        BY <1>2, <1>5, <3>2, <4>1, <4>2 DEF InsertOK, TxRequests
    <3>3. CASE stage'[u] = "returned"
      BY <1>1, <1>2, <1>5, <3>1, <3>3 DEF InsertOK, Progress, Active, TxRequests
    <3> QED
      BY <1>5, <3>2, <3>3
  <2>5. ASSUME u \in Calls PROVE InsertOK(u)'
    BY <1>2, <2>4, <2>5 DEF InsertOK
  <2> QED
    BY <2>1, <2>2, <2>3, <2>5 DEF Knows
<1> QED
  BY <1>1, <1>2, <1>3, <1>4, <1>6, ClientKnows

LEMMA ClientStepKnows ==
    ASSUME SInv, IInv', NEW u \in Users, ClientStep(u), UNCHANGED <<idle, poolVars>>
    PROVE  SInv'
BY FailsKnows, CheckContextKnows, WriteKnows, ReadOKKnows DEF ClientStep

-----------------------------------------------------------------------------
(* The server, the network and the clock                                   *)

LEMMA DocsInTail ==
    ASSUME NEW S, NEW seq \in Seq(S), seq # <<>>
    PROVE  DocsIn(seq) = {Head(seq)} \cup DocsIn(Tail(seq))
<1>1. /\ Len(seq) \in Nat \ {0} /\ DOMAIN seq = 1 .. Len(seq)
      /\ Tail(seq) \in Seq(S) /\ Len(Tail(seq)) = Len(seq) - 1
      /\ DOMAIN Tail(seq) = 1 .. Len(Tail(seq))
      /\ \A i \in 1 .. Len(Tail(seq)) : Tail(seq)[i] = seq[i + 1]
      /\ Head(seq) = seq[1]
  OBVIOUS
<1>2. ASSUME NEW i \in DOMAIN seq PROVE seq[i] \in {Head(seq)} \cup DocsIn(Tail(seq))
  <2>1. CASE i = 1
    BY <1>1, <2>1
  <2>2. CASE i # 1
    <3>1. i - 1 \in DOMAIN Tail(seq) /\ Tail(seq)[i - 1] = seq[i]
      BY <1>1, <1>2, <2>2
    <3> QED
      BY <3>1 DEF DocsIn
  <2> QED
    BY <2>1, <2>2
<1>3. ASSUME NEW i \in DOMAIN Tail(seq) PROVE Tail(seq)[i] \in DocsIn(seq)
  <2>1. i + 1 \in DOMAIN seq /\ seq[i + 1] = Tail(seq)[i]
    BY <1>1, <1>3
  <2> QED
    BY <2>1 DEF DocsIn
<1>4. Head(seq) \in DocsIn(seq)
  <2>1. 1 \in DOMAIN seq /\ seq[1] = Head(seq)
    BY <1>1
  <2> QED
    BY <2>1 DEF DocsIn
<1>5. DocsIn(seq) \subseteq {Head(seq)} \cup DocsIn(Tail(seq))
  BY <1>2 DEF DocsIn
<1>6. DocsIn(Tail(seq)) \subseteq DocsIn(seq)
  BY <1>3 DEF DocsIn
<1> QED
  BY <1>4, <1>5, <1>6

\* What the server does with the message m on k, and what it answers.
ServedAs(k, m, status) ==
    /\ \A j \in Conns \ {k} : wire'[j] = wire[j] /\ replies'[j] = replies[j] /\ session'[j] = session[j]
    /\ wire'[k] = <<>>
    /\ \/ /\ session'[k] = SessionAfter(session[k], m)
          /\ index' = IF m.kind = "commit" THEN index \cup session[k].docs ELSE index
          /\ answer' = IF m.kind \in Queries THEN [answer EXCEPT ![m.by] = index] ELSE answer
       \/ /\ status # "OK"
          /\ UNCHANGED <<session, index, answer>>
    /\ replies[k] = <<>> /\ ~client[k].closed => replies'[k] = <<Reply(m.by, m.kind, status)>>

LEMMA ServesOne ==
    ASSUME SInv, NEW k \in Conns, Serve(k)
    PROVE  \E m \in Messages, status \in {"OK", "ERR", "junk"} :
              wire[k] = <<m>> /\ Sent(k, m) /\ ServedAs(k, m, status)
<1>1. TypeOK /\ wire[k] # <<>> /\ LineOK(k)
  BY DEF SInv, IInv, Lines, Serve
<1> PICK m : m = Head(wire[k])
  OBVIOUS
<1>2. wire[k] = <<m>> /\ Sent(k, m) /\ m \in Messages
  BY <1>1 DEF LineOK, TypeOK, ClientTypeOK
<1>3. Tail(wire[k]) = <<>>
  BY <1>2
<1>4. PICK status \in {"OK", "ERR", "junk"} :
         /\ \/ /\ status # "ERR"
               /\ Accepts(session[k], m.kind)
               /\ session' = [session EXCEPT ![k] = SessionAfter(@, m)]
               /\ index' = IF m.kind = "commit" THEN index \cup session[k].docs ELSE index
               /\ answer' = IF m.kind \in Queries THEN [answer EXCEPT ![m.by] = index]
                            ELSE answer
            \/ /\ status # "OK"
               /\ UNCHANGED <<session, index, answer>>
         /\ replies' = IF client[k].closed THEN replies
                       ELSE [replies EXCEPT ![k] = Append(@, Reply(m.by, m.kind, status))]
  BY DEF Serve
<1> PICK r : r = Reply(m.by, m.kind, status)
  OBVIOUS
<1>5. Append(<<>>, r) = <<r>>
  OBVIOUS
<1>6. /\ \A j \in Conns \ {k} : wire'[j] = wire[j] /\ replies'[j] = replies[j]
      /\ wire'[k] = <<>>
      /\ replies[k] = <<>> /\ ~client[k].closed => replies'[k] = <<r>>
  BY <1>1, <1>3, <1>4, <1>5 DEF Serve, TypeOK, ClientTypeOK
<1>7. /\ \A j \in Conns \ {k} : session'[j] = session[j]
      /\ \/ /\ session'[k] = SessionAfter(session[k], m)
            /\ index' = IF m.kind = "commit" THEN index \cup session[k].docs ELSE index
            /\ answer' = IF m.kind \in Queries THEN [answer EXCEPT ![m.by] = index] ELSE answer
         \/ /\ status # "OK"
            /\ UNCHANGED <<session, index, answer>>
  <2>1. CASE status # "OK" /\ UNCHANGED <<session, index, answer>>
    BY <2>1
  <2>2. CASE /\ session' = [session EXCEPT ![k] = SessionAfter(@, m)]
             /\ index' = IF m.kind = "commit" THEN index \cup session[k].docs ELSE index
             /\ answer' = IF m.kind \in Queries THEN [answer EXCEPT ![m.by] = index] ELSE answer
    BY <1>1, <2>2 DEF TypeOK, ClientTypeOK
  <2> QED
    BY <1>4, <2>1, <2>2
<1>8. ServedAs(k, m, status)
  BY <1>6, <1>7 DEF ServedAs
<1> QED
  BY <1>2, <1>8

LEMMA ServeKnows ==
    ASSUME SInv, IInv', NEW k \in Conns, Serve(k), UNCHANGED <<idle, poolVars>>
    PROVE  SInv'
<1> PICK m \in Messages, status \in {"OK", "ERR", "junk"} :
          wire[k] = <<m>> /\ Sent(k, m) /\ ServedAs(k, m, status)
  BY ServesOne
<1>1. /\ IInv /\ TypeOK
      /\ UNCHANGED <<client, link, at, stage, req, todo, outcome, got, phase, result>>
      /\ Head(wire[k]) = m /\ wire[k] # <<>>
  BY DEF SInv, IInv, Serve, methodVars, poolVars
<1>2. index \subseteq index'
  BY DEF ServedAs
<1>3. ASSUME NEW c \in Calls, answer'[c] # answer[c]
      PROVE  c = m.by /\ m.kind \in Queries /\ m.kind # "echo" /\ answer[c] = NoAnswer
  <2>1. c \in Users
    BY PoolAssumption
  <2>2. m.kind \in Queries /\ answer' = [answer EXCEPT ![m.by] = index]
    BY <1>3 DEF ServedAs
  <2>3. m.kind # "echo"
    BY <2>2 DEF Queries
  <2>4. c = m.by
    BY <1>1, <1>3, <2>1, <2>2 DEF TypeOK, ClientTypeOK
  <2> QED
    BY <2>2, <2>3, <2>4 DEF Sent
<1>4. Lines'
  <2>1. \A j \in Conns : wire'[j] # <<>> => j # k /\ wire'[j] = wire[j]
    BY DEF ServedAs
  <2>2. ASSUME NEW j \in Conns, j # k, wire[j] # <<>>, Sent(j, Head(wire[j]))
        PROVE  Sent(j, Head(wire[j]))'
    <3> PICK n : n = Head(wire[j])
      OBVIOUS
    <3>1. n.kind # "echo" /\ m.kind # "echo" => n.by # m.by
      BY <1>1, <2>2 DEF SInv, Lines, SentOnce
    <3>2. n.kind # "echo" => n.by \in Calls /\ answer'[n.by] = answer[n.by]
      BY <1>3, <2>2, <3>1 DEF Sent
    <3>3. session'[j] = session[j]
      BY <2>2 DEF ServedAs
    <3>4. wire'[j] = wire[j]
      BY <2>2 DEF ServedAs
    <3>5. Sent(j, n)'
      BY <1>1, <2>2, <3>2, <3>3 DEF Sent, Has
    <3> QED
      BY <3>4, <3>5
  <2>3. \A j \in Conns : wire'[j] # <<>> => wire'[j] = wire[j]
    BY <2>1
  <2>4. \A j \in Conns : wire'[j] # <<>> /\ Sent(j, Head(wire[j])) => Sent(j, Head(wire[j]))'
    BY <2>1, <2>2
  <2> QED
    BY <2>3, <2>4, LinesFrame DEF SInv
<1>5. ASSUME NEW v \in Users, at[v] # k PROVE Knows(v)'
  <2>1. Knows(v) /\ (at[v] # NoConn => at[v] \in Conns \ {k})
    BY <1>1, <1>5 DEF SInv, TypeOK, ClientTypeOK
  <2>2. at[v] # NoConn => ServerSame(at[v])
    BY <1>1, <2>1 DEF ServerSame, ServedAs
  <2>3. CASE v \in Calls => answer'[v] = answer[v]
    BY <1>1, <1>2, <2>1, <2>2, <2>3, KnowsFrame DEF KnowsSame
  <2>4. CASE v \in Calls /\ answer'[v] # answer[v]
    \* The query of a call that has failed meanwhile is served.
    <3>1. phase[v] = "done"
      BY <1>3, <1>5, <2>4 DEF Sent
    <3>2. StartsQuiet(v)' /\ EndsWith(v)' /\ PingOK(v)'
      <4>1. at[v] = NoConn /\ stage[v] = "idle"
        BY <1>1, <2>4, <3>1 DEF IInv, CallOK, UserOK
      <4> QED
        BY <1>1, <4>1 DEF StartsQuiet, EndsWith, PingOK, Active
    <3> QED
      BY <1>1, <2>1, <2>4, <3>1, <3>2 DEF Knows, SearchOK, InsertOK, CallEnds
  <2> QED
    BY <2>3, <2>4
<1>6. ASSUME NEW v \in Users, at[v] = k PROVE Knows(v)'
  <2>1. Knows(v) /\ UserOK(v) /\ k # NoConn /\ ~client[k].closed /\ ~Quiet(k)
    BY <1>1, <1>6, ClientAssumption DEF SInv, IInv, UserOK, Holds, IsOpen, Quiet
  <2>2. CASE stage[v] = "send"
    <3>1. req[v] = "rollback"
      BY <1>6, <2>1, <2>2 DEF Knows, StartsQuiet
    <3>2. ~Pings(v)
      BY <2>1, <2>2, <3>1 DEF Knows, PingOK, Active
    <3>3. v \in Calls => answer'[v] = answer[v]
      \* What is on the wire is another request of v.
      <4> SUFFICES ASSUME v \in Calls, answer'[v] # answer[v] PROVE FALSE
        OBVIOUS
      <4>1. Method[v] = "Search" /\ phase[v] = "run"
        BY <1>3, <1>6, <2>1 DEF Sent, IInv, SInv, CallOK
      <4> QED
        BY <2>1, <2>2, <3>1, <4>1 DEF Knows, SearchOK, Active
    <3>4. Progress(v, k)'
      BY <1>1, <2>2, <3>1 DEF Progress, Answered
    <3> QED
      BY <1>1, <1>6, <2>1, <2>2, <3>1, <3>2, <3>3, <3>4 DEF Knows, StartsQuiet, EndsWith, PingOK, Pings,
         SearchOK, InsertOK, CallEnds, Active, Answered
  <2>3. CASE stage[v] = "returned"
    <3>1. outcome[v] = "error"
      BY <1>6, <2>1, <2>3 DEF Knows, EndsWith, UserOK, Sound, Holds
    <3>2. v \in Calls => phase[v] \in {"ping", "run"}
      BY <1>1, <1>6, <2>1 DEF IInv, CallOK
    <3>3. v \in Calls /\ phase[v] = "ping" => answer'[v] = answer[v]
      BY <1>3, <1>6 DEF Sent
    <3> QED
      BY <1>1, <1>6, <2>1, <2>3, <3>1, <3>2, <3>3 DEF Knows, StartsQuiet, EndsWith, PingOK,
         SearchOK, InsertOK, CallEnds, Active, Answered
  <2>4. CASE stage[v] \in {"wrote", "read"}
    <3>1. /\ m.by = v /\ m.kind = req[v] /\ replies[k] = <<>>
          /\ replies'[k] = <<Reply(v, req[v], status)>>
      <4>1. Exchange(v, k)
        BY <1>6, <2>1, <2>4 DEF UserOK, Waits
      <4>2. PICK d \in SUBSET Docs : replies[k] = <<>> /\ wire[k] = <<Message(v, req[v], d)>>
        BY <1>1, <2>1, <4>1 DEF Exchange
      <4>3. m = Message(v, req[v], d)
        BY <1>1, <4>2
      <4> QED
        BY <2>1, <4>2, <4>3 DEF Message, ServedAs
    <3>2. Answered(v, k)' => /\ session'[k] = SessionAfter(session[k], m)
                             /\ index' = IF m.kind = "commit" THEN index \cup session[k].docs ELSE index
                             /\ answer' = IF m.kind \in Queries THEN [answer EXCEPT ![m.by] = index]
                                          ELSE answer
      <4>1. Head(replies'[k]).status = status
        BY <3>1 DEF Reply
      <4> QED
        BY <4>1 DEF Answered, ServedAs
    <3>3. StartsQuiet(v)' /\ EndsWith(v)' /\ PingOK(v)'
      BY <1>1, <2>1, <2>4 DEF Knows, StartsQuiet, EndsWith, PingOK, Pings, Active
    <3>4. ASSUME v \in Calls PROVE CallEnds(v)'
      <4>1. phase[v] = "ping" => answer'[v] = answer[v]
        BY <1>3, <1>6, <3>4 DEF Sent
      <4>2. phase[v] \in {"ping", "run"}
        BY <1>1, <1>6, <2>1, <3>4 DEF IInv, CallOK
      <4> QED
        BY <1>1, <2>1, <3>4, <4>1, <4>2 DEF Knows, CallEnds
    <3>5. ASSUME v \in Calls PROVE SearchOK(v)'
      <4> SUFFICES ASSUME phase[v] = "run", Method[v] = "Search" PROVE SearchOK(v)'
        BY <1>1 DEF SearchOK
      <4>1. req[v] = "search"
        BY <2>1, <2>4, <3>5 DEF Knows, SearchOK, Active
      <4>2. index # NoAnswer
        BY <1>1, ClientAssumption DEF TypeOK, ClientTypeOK
      <4>3. Answered(v, k)' => answer'[v] = index
        BY <1>1, <3>1, <3>2, <3>5, <4>1 DEF Queries, TypeOK, ClientTypeOK
      <4> QED
        BY <1>1, <1>6, <2>4, <4>1, <4>2, <4>3 DEF SearchOK
    <3>6. ASSUME v \in Calls PROVE InsertOK(v)'
      <4> SUFFICES ASSUME phase[v] = "run", Method[v] = "Insert" PROVE InsertOK(v)'
        BY <1>1 DEF InsertOK
      <4>1. req[v] \in TxRequests /\ Progress(v, k)
        BY <1>6, <2>1, <2>4, <3>6 DEF Knows, InsertOK, Active
      <4>2. /\ req[v] = "begin" => DocsIn(todo[v]) = BatchDocs(v)
            /\ req[v] = "commit" => todo[v] = <<>>
            /\ req[v] \in {"insert", "commit"} => Has(v, k, todo[v])
            /\ req[v] = "insert" => m.docs = {Head(todo[v])} /\ todo[v] # <<>>
        BY <1>1, <2>1, <2>4, <4>1 DEF Progress, UserOK
      <4>3. Answered(v, k)' /\ req[v] = "begin" => Has(v, k, todo[v])'
        <5> SUFFICES ASSUME Answered(v, k)', req[v] = "begin" PROVE Has(v, k, todo[v])'
          OBVIOUS
        <5>1. session'[k].docs = {}
          BY <3>1, <3>2 DEF SessionAfter
        <5> QED
          BY <1>1, <4>2, <5>1 DEF Has
      <4>4. Answered(v, k)' /\ req[v] = "insert" => Has(v, k, Tail(todo[v]))'
        <5> SUFFICES ASSUME Answered(v, k)', req[v] = "insert" PROVE Has(v, k, Tail(todo[v]))'
          OBVIOUS
        <5>1. session'[k].docs = session[k].docs \cup {Head(todo[v])}
          <6>1. session[k] \in [open : BOOLEAN, docs : SUBSET Docs]
            BY <1>1 DEF TypeOK, ClientTypeOK
          <6>2. session'[k] = [session[k] EXCEPT !.docs = @ \cup m.docs]
            BY <3>1, <3>2 DEF SessionAfter
          <6> QED
            BY <4>2, <6>1, <6>2
        <5>2. DocsIn(todo[v]) = {Head(todo[v])} \cup DocsIn(Tail(todo[v]))
          BY <1>1, <4>2, DocsInTail DEF TypeOK, ClientTypeOK
        <5>3. session[k].docs \cup DocsIn(todo[v]) = BatchDocs(v)
          BY <4>2 DEF Has
        <5>4. session'[k].docs \cup DocsIn(Tail(todo[v])) = BatchDocs(v)
          BY <5>1, <5>2, <5>3
        <5> QED
          BY <1>1, <5>4 DEF Has
      <4>5. Answered(v, k)' /\ req[v] = "commit" => BatchDocs(v) \subseteq index'
        <5> SUFFICES ASSUME Answered(v, k)', req[v] = "commit" PROVE BatchDocs(v) \subseteq index'
          OBVIOUS
        <5>1. index' = index \cup session[k].docs
          BY <3>1, <3>2
        <5>2. session[k].docs \cup DocsIn(<<>>) = BatchDocs(v)
          BY <4>2 DEF Has
        <5>3. DocsIn(<<>>) = {}
          BY DEF DocsIn
        <5> QED
          BY <5>1, <5>2, <5>3
      <4>6. Progress(v, k)'
        <5>1. wire'[k] = <<>>
          BY DEF ServedAs
        <5> QED
          BY <1>1, <2>4, <4>2, <4>3, <4>4, <4>5, <5>1 DEF Progress
      <4> QED
        BY <1>1, <1>6, <2>4, <4>1, <4>6 DEF InsertOK
    <3> QED
      BY <3>3, <3>4, <3>5, <3>6 DEF Knows
  <2>5. stage[v] \in {"send", "wrote", "read", "returned"}
    BY <1>1, <1>6, <2>1 DEF UserOK, TypeOK, ClientTypeOK
  <2> QED
    BY <2>2, <2>3, <2>4, <2>5
<1> QED
  BY <1>4, <1>5, <1>6 DEF SInv

LEMMA BreakKnows ==
    ASSUME SInv, IInv', NEW k \in Conns, Break(k), UNCHANGED <<idle, poolVars>>
    PROVE  SInv'
<1>1. /\ IInv /\ TypeOK
      /\ UNCHANGED <<index, answer, at, stage, req, todo, outcome, got, phase, result>>
      /\ \A j \in Conns \ {k} : ServerSame(j)
      /\ link'[k] = "down" /\ wire'[k] = <<>>
      /\ replies'[k] = replies[k] \/ replies'[k] = <<>>
  BY DEF SInv, IInv, Break, methodVars, poolVars, ServerSame, TypeOK, ClientTypeOK
<1>2. Lines'
  <2>1. \A j \in Conns : wire'[j] # <<>> => j # k /\ wire'[j] = wire[j]
    BY <1>1 DEF ServerSame
  <2>2. ASSUME NEW j \in Conns, NEW n, j # k, Sent(j, n) PROVE Sent(j, n)'
    BY <1>1, <2>2 DEF Sent, Has, ServerSame
  <2>3. ASSUME NEW j \in Conns, wire'[j] # <<>>, Sent(j, Head(wire[j])) PROVE Sent(j, Head(wire[j]))'
    <3> PICK n : n = Head(wire[j])
      OBVIOUS
    <3>1. wire'[j] = wire[j] /\ Sent(j, n)'
      BY <2>1, <2>2, <2>3
    <3> QED
      BY <3>1
  <2> QED
    BY <2>1, <2>3, LinesFrame DEF SInv
<1>3. ASSUME NEW v \in Users, at[v] # k PROVE Knows(v)'
  <2>1. Knows(v) /\ (at[v] # NoConn => at[v] \in Conns \ {k})
    BY <1>1, <1>3 DEF SInv, TypeOK, ClientTypeOK
  <2> QED
    BY <1>1, <2>1, KnowsFrame DEF KnowsSame
<1>4. ASSUME NEW v \in Users, at[v] = k PROVE Knows(v)'
  <2>1. Knows(v)
    BY DEF SInv
  <2>2. (Answered(v, k)' => Answered(v, k)) /\ (Quiet(k) => Quiet(k)')
    BY <1>1 DEF Answered, Quiet
  <2>3. StartsQuiet(v)' /\ EndsWith(v)' /\ PingOK(v)'
    BY <1>1, <1>4, <2>1, <2>2 DEF Knows, StartsQuiet, EndsWith, PingOK, Pings, Active
  <2>4. ASSUME v \in Calls PROVE SearchOK(v)' /\ CallEnds(v)'
    BY <1>1, <1>4, <2>1, <2>2, <2>4 DEF Knows, SearchOK, CallEnds, Active
  <2>5. Progress(v, k) => Progress(v, k)'
    BY <1>1, <2>2 DEF Progress
  <2>6. ASSUME v \in Calls PROVE InsertOK(v)'
    BY <1>1, <1>4, <2>1, <2>5, <2>6 DEF Knows, InsertOK, Active
  <2> QED
    BY <2>3, <2>4, <2>6 DEF Knows
<1> QED
  BY <1>2, <1>3, <1>4 DEF SInv

\* A step that changes nothing a user or the server knows.
LEMMA QuietStep ==
    ASSUME SInv, IInv', UNCHANGED <<wire, index, answer>>,
           \A v \in Users : KnowsSame(v) /\ (at[v] # NoConn => ServerSame(at[v])),
           \A k \in Conns : wire[k] # <<>> => session'[k] = session[k]
    PROVE  SInv'
<1>1. ASSUME NEW v \in Users PROVE Knows(v)'
  BY <1>1, KnowsFrame DEF SInv
<1>2. ASSUME NEW k \in Conns, NEW n, wire[k] # <<>>, Sent(k, n) PROVE Sent(k, n)'
  BY <1>2, PoolAssumption DEF Sent, Has, KnowsSame
<1>3. ASSUME NEW k \in Conns, wire[k] # <<>>, Sent(k, Head(wire[k])) PROVE Sent(k, Head(wire[k]))'
  <2> PICK n : n = Head(wire[k])
    OBVIOUS
  <2>1. Sent(k, n)' /\ wire' = wire
    BY <1>2, <1>3
  <2> QED
    BY <2>1
<1>4. Lines'
  BY <1>3, LinesFrame DEF SInv
<1> QED
  BY <1>1, <1>4 DEF SInv

LEMMA HangUpKnows ==
    ASSUME SInv, IInv', NEW k \in Conns, HangUp(k), UNCHANGED <<idle, poolVars>>
    PROVE  SInv'
<1>1. IInv /\ TypeOK
  BY DEF SInv, IInv
<1>2. ASSUME NEW v \in Users PROVE at[v] # k
  BY <1>1, ClientAssumption DEF IInv, UserOK, Holds, IsOpen, HangUp
<1>3. ASSUME NEW j \in Conns \ {k} PROVE ServerSame(j)
  BY <1>1 DEF ServerSame, HangUp, TypeOK, ClientTypeOK
<1>4. ASSUME NEW v \in Users, at[v] # NoConn PROVE ServerSame(at[v])
  BY <1>1, <1>2, <1>3, <1>4 DEF TypeOK, ClientTypeOK
<1>5. \A v \in Users : KnowsSame(v)
  BY DEF KnowsSame, HangUp, methodVars, poolVars
<1>6. ASSUME NEW j \in Conns, wire[j] # <<>> PROVE session'[j] = session[j]
  BY <1>3, <1>6 DEF HangUp, ServerSame
<1> QED
  BY <1>4, <1>5, <1>6, QuietStep DEF HangUp

LEMMA ContextKnows ==
    ASSUME SInv, IInv', NEW u \in Users, DeadlinePasses(u) \/ ContextEnds(u), UNCHANGED <<idle, poolVars>>
    PROVE  SInv'
<1>1. UNCHANGED <<netVars, at, methodVars, poolVars>>
  BY DEF DeadlinePasses, ContextEnds
<1> QED
  BY <1>1, QuietStep DEF KnowsSame, ServerSame, netVars, methodVars, poolVars

-----------------------------------------------------------------------------
(* The pool                                                                *)

\* A step of one user that asks the server nothing.  When it is the last of a
\* call, the call leaves a quiet connection behind or has failed.
LEMMA PoolStep ==
    ASSUME SInv, IInv', NEW u \in Users, Knows(u)',
           UNCHANGED <<wire, session, index, answer>>,
           \A v \in Users \ {u} : KnowsSame(v) /\ (at[v] # NoConn => ServerSame(at[v])),
           u \in Calls => \/ phase[u] \in {"new", "borrow", "ping"}
                          \/ phase[u] = "run" /\ Quiet(at[u])
                          \/ phase'[u] = "done" /\ result'[u] = "error"
    PROVE  SInv'
<1>1. ASSUME NEW v \in Users \ {u} PROVE Knows(v)'
  BY <1>1, KnowsFrame DEF SInv
<1>2. ASSUME NEW k \in Conns, NEW n, wire[k] # <<>>, Sent(k, n) PROVE Sent(k, n)'
  <2>1. CASE n.by # u
    BY <1>2, <2>1, PoolAssumption DEF Sent, Has, KnowsSame
  <2>2. CASE n.by = u
    BY <1>2, <2>2 DEF Sent, Has, Quiet
  <2> QED
    BY <2>1, <2>2
<1>3. ASSUME NEW k \in Conns, wire[k] # <<>>, Sent(k, Head(wire[k])) PROVE Sent(k, Head(wire[k]))'
  <2> PICK n : n = Head(wire[k])
    OBVIOUS
  <2>1. Sent(k, n)' /\ wire' = wire
    BY <1>2, <1>3
  <2> QED
    BY <2>1
<1>4. Lines'
  BY <1>3, LinesFrame DEF SInv
<1> QED
  BY <1>1, <1>4 DEF SInv

\* A call starts its method on a connection that nothing is left on.
LEMMA RunKnows ==
    ASSUME SInv, IInv', NEW c \in Calls, NEW k \in Conns, Run(c, k),
           phase[c] \in {"borrow", "ping"}, at'[c] = k, Quiet(k)', UNCHANGED <<answer, got>>
    PROVE  Knows(c)'
<1>1. /\ TypeOK /\ Knows(c) /\ c \in Users /\ ~Pings(c)'
      /\ phase'[c] = "run" /\ result'[c] = result[c] /\ answer'[c] = answer[c] /\ got'[c] = got[c]
  BY PoolAssumption DEF SInv, IInv, TypeOK, Run, Pings
<1>2. CallEnds(c)' /\ PingOK(c)' /\ answer'[c] = NoAnswer
  BY <1>1 DEF Knows, CallEnds, PingOK
<1>3. \/ stage'[c] = "send" /\ req'[c] = "search" /\ Method[c] = "Search"
      \/ stage'[c] = "returned" /\ outcome'[c] = "ok" /\ Method[c] = "Insert" /\ Batch[c] = <<>>
      \/ stage'[c] = "returned" /\ outcome'[c] = "error" /\ Method[c] = "Insert"
      \/ stage'[c] = "send" /\ req'[c] = "begin" /\ todo'[c] = Batch[c] /\ Method[c] = "Insert"
  <2>1. ASSUME NEW r, NEW rest, Send(c, r, rest)
        PROVE  stage'[c] = "send" /\ req'[c] = r /\ todo'[c] = rest
    BY <1>1, <2>1 DEF Send, TypeOK, ClientTypeOK
  <2>2. ASSUME NEW r, Return(c, r) PROVE stage'[c] = "returned" /\ outcome'[c] = r
    BY <1>1, <2>2 DEF Return, TypeOK, ClientTypeOK
  <2>3. Method[c] \in {"Search", "Insert"} /\ Invoke(c, k, Method[c], Batch[c])
    BY PoolAssumption DEF Run
  <2> QED
    BY <2>1, <2>2, <2>3 DEF Invoke
<1>4. StartsQuiet(c)' /\ EndsWith(c)'
  BY <1>3 DEF StartsQuiet, EndsWith
<1>5. SearchOK(c)'
  BY <1>2, <1>3 DEF SearchOK, Active, Answered
<1>6. InsertOK(c)'
  <2>1. Batch[c] = <<>> => BatchDocs(c) = {}
    BY DEF BatchDocs
  <2>2. todo'[c] = Batch[c] => DocsIn(todo'[c]) = BatchDocs(c)
    BY DEF BatchDocs, DocsIn
  <2> QED
    BY <1>3, <2>1, <2>2 DEF InsertOK, Progress, Answered, Active, TxRequests
<1> QED
  BY <1>2, <1>4, <1>5, <1>6 DEF Knows

\* A user without a request, and a call that is not running.
LEMMA IdleKnows ==
    ASSUME NEW u \in Users, stage'[u] = "idle", u \in Calls => phase'[u] # "run" /\ CallEnds(u)'
    PROVE  Knows(u)'
BY DEF Knows, StartsQuiet, EndsWith, PingOK, Active, SearchOK, InsertOK

LEMMA PingKnows ==
    ASSUME SInv, NEW u \in Users, NEW k \in Conns, Invoke(u, k, "Ping", <<>>), at'[u] = k, Quiet(k)',
           u \in Calls => phase'[u] = "ping" /\ CallEnds(u)'
    PROVE  Knows(u)'
<1>1. stage'[u] = "send" /\ req'[u] = "echo"
  BY DEF Invoke, Send, SInv, IInv, TypeOK, ClientTypeOK
<1> QED
  BY <1>1 DEF Knows, StartsQuiet, EndsWith, PingOK, SearchOK, InsertOK

LEMMA ArriveKnows ==
    ASSUME SInv, IInv', NEW c \in Calls, Arrive(c)
    PROVE  SInv'
<1>1. /\ TypeOK /\ IInv /\ Knows(c) /\ c \in Users /\ CallOK(c) /\ UserOK(c)
      /\ UNCHANGED <<netVars, at, methodVars, result>>
  BY CallFacts DEF SInv, Arrive
<1>2. /\ \A d \in Calls \ {c} : phase'[d] = phase[d]
      /\ phase[c] = "new" /\ phase'[c] = "borrow"
  BY <1>1 DEF Arrive, TypeOK
<1>3. stage'[c] = "idle" /\ CallEnds(c)'
  BY <1>1, <1>2 DEF CallOK, UserOK, Knows, CallEnds, netVars, methodVars
<1>4. Knows(c)'
  BY <1>1, <1>2, <1>3, IdleKnows
<1>5. \A v \in Users \ {c} : KnowsSame(v) /\ (at[v] # NoConn => ServerSame(at[v]))
  BY <1>1, <1>2 DEF KnowsSame, ServerSame, netVars, methodVars
<1> QED
  BY <1>1, <1>2, <1>4, <1>5, PoolStep DEF netVars

\* A call that borrows in vain fails.
LEMMA FinishKnows ==
    ASSUME SInv, IInv', NEW c \in Calls, phase[c] = "borrow", Finish(c, "error"),
           UNCHANGED <<client, sockDl, netVars, at, methodVars, idle>>
    PROVE  SInv'
<1>1. /\ TypeOK /\ IInv /\ Knows(c) /\ c \in Users /\ CallOK(c) /\ UserOK(c)
  BY CallFacts DEF SInv
<1>2. /\ \A d \in Calls \ {c} : phase'[d] = phase[d] /\ result'[d] = result[d]
      /\ phase'[c] = "done" /\ result'[c] = "error"
  BY <1>1 DEF Finish, TypeOK
<1>3. stage'[c] = "idle" /\ CallEnds(c)'
  BY <1>1, <1>2 DEF CallOK, UserOK, Knows, CallEnds, netVars, methodVars
<1>4. Knows(c)'
  BY <1>1, <1>2, <1>3, IdleKnows
<1>5. \A v \in Users \ {c} : KnowsSame(v) /\ (at[v] # NoConn => ServerSame(at[v]))
  BY <1>2 DEF KnowsSame, ServerSame, netVars, methodVars
<1> QED
  BY <1>1, <1>4, <1>5, PoolStep DEF netVars

LEMMA DiscardKnows ==
    ASSUME SInv, IInv', NEW k \in idle, Close(k),
           UNCHANGED <<link, wire, session, index, answer, at, methodVars, poolVars>>
    PROVE  SInv'
<1>1. TypeOK /\ IInv /\ k \in Conns /\ \A v \in Users : at[v] # k
  BY IdleConn, Unowned DEF SInv, IInv
<1>2. \A j \in Conns \ {k} : ServerSame(j)
  BY <1>1 DEF ServerSame, Close, TypeOK, ClientTypeOK
<1>3. \A v \in Users : KnowsSame(v) /\ (at[v] # NoConn => ServerSame(at[v]))
  BY <1>1, <1>2 DEF KnowsSame, methodVars, poolVars, TypeOK, ClientTypeOK
<1> QED
  BY <1>3, QuietStep

\* An idle connection is taken by u, which is Evictor or a call that borrows.
LEMMA TakeKnows ==
    ASSUME SInv, IInv', NEW u \in Users, NEW k \in idle, at' = [at EXCEPT ![u] = k], Continued(u),
           UNCHANGED <<netVars, got, result>>, Knows(u)',
           u \in Calls => phase[u] = "borrow",
           \A c \in Calls \ {u} : phase'[c] = phase[c]
    PROVE  SInv'
<1>1. TypeOK
  BY DEF SInv, IInv
<1>2. \A v \in Users \ {u} : KnowsSame(v) /\ (at[v] # NoConn => ServerSame(at[v]))
  BY <1>1 DEF KnowsSame, ServerSame, Continued, netVars, TypeOK, ClientTypeOK
<1> QED
  BY <1>2, PoolStep DEF netVars

\* u gives its connection back.
LEMMA GiveBackKnows ==
    ASSUME SInv, IInv', NEW u \in Users, stage[u] = "returned", Leave(u), Knows(u)',
           Passivate(at[u]) \/ Close(at[u]),
           at' = [at EXCEPT ![u] = NoConn],
           UNCHANGED <<link, wire, session, index, answer, got>>,
           \A c \in Calls \ {u} : phase'[c] = phase[c] /\ result'[c] = result[c],
           u \in Calls => \/ phase[u] = "ping"
                          \/ phase[u] = "run" /\ Quiet(at[u])
                          \/ phase'[u] = "done" /\ result'[u] = "error"
    PROVE  SInv'
<1> PICK k \in Conns : k = at[u]
  BY ActiveUser DEF SInv
<1>1. TypeOK /\ IInv /\ \A v \in Users \ {u} : at[v] # k
  BY ActiveUser DEF SInv, IInv
<1>2. \A j \in Conns \ {k} : ServerSame(j)
  BY <1>1 DEF ServerSame, Passivate, Close, TypeOK, ClientTypeOK
<1>3. \A v \in Users \ {u} : KnowsSame(v) /\ (at[v] # NoConn => ServerSame(at[v]))
  BY <1>1, <1>2 DEF KnowsSame, Leave, TypeOK, ClientTypeOK
<1> QED
  BY <1>3, PoolStep

LEMMA BorrowKnows ==
    ASSUME SInv, IInv', NEW c \in Calls, NEW k \in Conns,
           BorrowRefused(c, k) \/ BorrowPinged(c, k) \/ BorrowIdle(c, k)
    PROVE  SInv'
<1>1. /\ TypeOK /\ IInv /\ Knows(c) /\ c \in Users /\ phase[c] = "borrow" /\ k \in idle /\ Quiet(k)
      /\ at[c] = NoConn
  BY CallFacts, IdleConn DEF SInv, BorrowRefused, BorrowPinged, BorrowIdle
<1>2. CASE BorrowRefused(c, k)
  BY <1>1, <1>2, DiscardKnows DEF BorrowRefused
<1>3. CASE BorrowPinged(c, k)
  <2>1. /\ Continued(c) /\ at'[c] = k /\ Quiet(k)' /\ phase'[c] = "ping"
        /\ \A d \in Calls \ {c} : phase'[d] = phase[d]
    BY <1>1, <1>3, CallFacts, InvokeContinues DEF BorrowPinged, Quiet, netVars, TypeOK, ClientTypeOK
  <2>2. CallEnds(c)'
    BY <1>1, <1>3, <2>1 DEF BorrowPinged, Knows, CallEnds, netVars
  <2>3. Knows(c)'
    BY <1>1, <1>3, <2>1, <2>2, PingKnows DEF BorrowPinged
  <2> QED
    BY <1>1, <1>3, <2>1, <2>3, TakeKnows DEF BorrowPinged
<1>4. CASE BorrowIdle(c, k)
  <2>1. /\ Continued(c) /\ at'[c] = k /\ Quiet(k)' /\ UNCHANGED <<answer, got, result>>
        /\ \A d \in Calls \ {c} : phase'[d] = phase[d]
    BY <1>1, <1>4, CallFacts, InvokeContinues DEF BorrowIdle, Run, Quiet, netVars, TypeOK, ClientTypeOK
  <2>2. Knows(c)'
    BY <1>1, <1>4, <2>1, RunKnows DEF BorrowIdle
  <2> QED
    BY <1>1, <1>4, <2>1, <2>2, TakeKnows DEF BorrowIdle
<1> QED
  BY <1>2, <1>3, <1>4

LEMMA PingReturnsKnows ==
    ASSUME SInv, IInv', NEW c \in Calls, PingReturns(c)
    PROVE  SInv'
<1>1. /\ TypeOK /\ IInv /\ Knows(c) /\ c \in Users /\ UserOK(c)
      /\ phase[c] = "ping" /\ stage[c] = "returned"
      /\ UNCHANGED <<link, wire, session, index, answer, got, result>>
  BY CallFacts DEF SInv, PingReturns, Run
<1> PICK k \in Conns : k = at[c]
  BY <1>1, ActiveUser
<1>2. CASE outcome[c] = "ok" /\ Run(c, k) /\ UNCHANGED <<client, replies, at>>
  <2>1. Quiet(k)
    BY <1>1, <1>2, ClientAssumption DEF UserOK, Sound, Holds
  <2>2. Continued(c) /\ \A d \in Calls \ {c} : phase'[d] = phase[d]
    BY <1>1, <1>2, CallFacts, InvokeContinues DEF Run, TypeOK
  <2>3. Knows(c)'
    BY <1>1, <1>2, <2>1, RunKnows DEF Quiet
  <2>4. \A v \in Users \ {c} : KnowsSame(v) /\ (at[v] # NoConn => ServerSame(at[v]))
    BY <1>1, <1>2, <2>2 DEF KnowsSame, ServerSame, Continued
  <2> QED
    BY <1>1, <2>3, <2>4, PoolStep
<1>3. CASE /\ Close(k)
           /\ at' = [at EXCEPT ![c] = NoConn]
           /\ phase' = [phase EXCEPT ![c] = "borrow"]
           /\ Leave(c)
  <2>1. stage'[c] = "idle" /\ phase'[c] = "borrow" /\ \A d \in Calls \ {c} : phase'[d] = phase[d]
    BY <1>1, <1>3 DEF Leave, TypeOK, ClientTypeOK
  <2>2. CallEnds(c)'
    BY <1>1, <2>1 DEF Knows, CallEnds
  <2>3. Knows(c)'
    BY <1>1, <2>1, <2>2, IdleKnows
  <2> QED
    BY <1>1, <1>3, <2>1, <2>3, GiveBackKnows
<1> QED
  BY <1>2, <1>3 DEF PingReturns

LEMMA CreateKnows ==
    ASSUME SInv, IInv', NEW c \in Calls, NEW k \in Conns, Create(c, k)
    PROVE  SInv'
<1>1. /\ TypeOK /\ IInv /\ c \in Users /\ phase[c] = "borrow" /\ ConnOK(k) /\ link[k] = "free"
      /\ \A v \in Users : at[v] # k
  BY CallFacts, Unowned DEF SInv, IInv, Create, Open
<1>2. /\ Continued(c) /\ at'[c] = k /\ Quiet(k)' /\ UNCHANGED <<answer, got, result>>
      /\ \A d \in Calls \ {c} : phase'[d] = phase[d]
  BY <1>1, CallFacts, InvokeContinues DEF Create, Run, Quiet, ConnOK, Deserted, TypeOK, ClientTypeOK
<1>3. Knows(c)'
  BY <1>1, <1>2, RunKnows DEF Create
<1>4. \A j \in Conns \ {k} : ServerSame(j)
  BY <1>1 DEF Create, Open, ServerSame, TypeOK, ClientTypeOK
<1>5. \A v \in Users \ {c} : KnowsSame(v) /\ (at[v] # NoConn => ServerSame(at[v]))
  BY <1>1, <1>2, <1>4 DEF Create, KnowsSame, Continued, TypeOK, ClientTypeOK
<1> QED
  BY <1>1, <1>3, <1>5, PoolStep DEF Create

LEMMA ReturnObjectKnows ==
    ASSUME SInv, IInv', NEW c \in Calls, ReturnObject(c)
    PROVE  SInv'
<1>1. /\ TypeOK /\ IInv /\ Knows(c) /\ c \in Users /\ UserOK(c) /\ at[c] # NoConn
      /\ phase[c] = "run" /\ stage[c] = "returned" /\ outcome[c] \in {"ok", "error"}
  BY CallFacts DEF SInv, ReturnObject, UserOK, Knows, EndsWith
<1>2. /\ phase'[c] = "done" /\ result'[c] = outcome[c] /\ stage'[c] = "idle"
      /\ \A d \in Calls \ {c} : phase'[d] = phase[d] /\ result'[d] = result[d]
  BY <1>1 DEF ReturnObject, Finish, Leave, TypeOK, ClientTypeOK
<1>3. CallEnds(c)'
  BY <1>1, <1>2 DEF Knows, CallEnds, ReturnObject
<1>4. Knows(c)'
  BY <1>1, <1>2, <1>3, IdleKnows
<1>5. outcome[c] = "ok" => Quiet(at[c])
  BY <1>1 DEF UserOK, Sound, Holds
<1> QED
  BY <1>1, <1>2, <1>4, <1>5, GiveBackKnows DEF ReturnObject

LEMMA EvictorKnows ==
    ASSUME SInv, IInv', EvictorStep
    PROVE  SInv'
<1>1. TypeOK /\ IInv /\ Evictor \in Users /\ Evictor \notin Calls /\ <<>> \in Seq(Docs)
  BY PoolAssumption DEF SInv, IInv
<1>2. ASSUME NEW k \in Conns, Evict(k) PROVE SInv'
  BY <1>2, DiscardKnows DEF Evict
<1>3. ASSUME NEW k \in Conns, EvictorPing(k) PROVE SInv'
  <2>1. Continued(Evictor) /\ at'[Evictor] = k /\ k \in idle /\ Quiet(k)'
    BY <1>1, <1>3, IdleConn, InvokeContinues DEF EvictorPing, Quiet, netVars, TypeOK, ClientTypeOK
  <2>2. Knows(Evictor)'
    BY <1>1, <1>3, <2>1, PingKnows DEF EvictorPing
  <2> QED
    BY <1>1, <1>3, <2>1, <2>2, TakeKnows DEF EvictorPing, poolVars
<1>4. ASSUME EvictorPingReturns PROVE SInv'
  <2>1. stage'[Evictor] = "idle"
    BY <1>1, <1>4 DEF EvictorPingReturns, Leave, TypeOK, ClientTypeOK
  <2>2. Knows(Evictor)'
    BY <1>1, <2>1, IdleKnows
  <2> QED
    BY <1>1, <1>4, <2>2, GiveBackKnows DEF EvictorPingReturns, poolVars
<1> QED
  BY <1>2, <1>3, <1>4 DEF EvictorStep

-----------------------------------------------------------------------------
(* The invariant                                                           *)

LEMMA SInvInit == Init => SInv
<1> SUFFICES ASSUME Init PROVE SInv
  OBVIOUS
<1>1. IInv
  BY InitInv
<1>2. ASSUME NEW u \in Users PROVE Knows(u)
  BY PoolAssumption DEF Init, ClientInit, Knows, StartsQuiet, EndsWith, PingOK, Active, SearchOK,
     InsertOK, CallEnds
<1>3. Lines
  BY DEF Init, ClientInit, Lines, LineOK, SentOnce
<1> QED
  BY <1>1, <1>2, <1>3 DEF SInv

LEMMA SInvNext == SInv /\ [Next]_vars => SInv'
<1> SUFFICES ASSUME SInv, [Next]_vars PROVE SInv'
  OBVIOUS
<1>1. IInv'
  BY NextInv DEF SInv
<1>2. ASSUME NEW c \in Calls, CallStep(c) PROVE SInv'
  <2>1. CASE CreateFails(c) \/ BorrowInterrupted(c)
    BY <1>1, <2>1, FinishKnows DEF CreateFails, BorrowInterrupted
  <2> QED
    BY <1>1, <1>2, <2>1, BorrowKnows, PingReturnsKnows, CreateKnows, ReturnObjectKnows DEF CallStep
<1>3. CASE Environment
  <2>1. Calls \subseteq Users
    BY PoolAssumption
  <2> QED
    BY <1>1, <1>3, <2>1, ClientStepKnows, ServeKnows, BreakKnows, HangUpKnows, ContextKnows
       DEF Environment, TimerFires, Cancel, ServerStep
<1>4. CASE UNCHANGED vars
  BY <1>1, <1>4, QuietStep DEF KnowsSame, ServerSame, vars, clientVars, netVars, methodVars, poolVars
<1> QED
  BY <1>1, <1>2, <1>3, <1>4, ArriveKnows, EvictorKnows DEF Next

\* The server and every call know of the batch and of the query what SInv says.
THEOREM ServiceInvariant == Spec => []SInv
BY SInvInit, SInvNext, PTL DEF Spec

-----------------------------------------------------------------------------
(* The refinement.  StatusOf and FoundBy are what the instance Service sees  *)
(* of a call; CallSame says that it sees no difference.                      *)

StatusOf(c) == IF phase[c] = "new" THEN "new" ELSE IF phase[c] = "done" THEN result[c] ELSE "active"

FoundBy(c) == IF result[c] = "ok" THEN got[c] ELSE NoAnswer

CallSame(c) ==
    /\ StatusOf(c)' = StatusOf(c)
    /\ answer'[c] = answer[c]
    /\ FoundBy(c)' = FoundBy(c)

LEMMA Stutters ==
    ASSUME index' = index, \A c \in Calls : CallSame(c)
    PROVE  UNCHANGED Service!vars
BY DEF Service!vars, CallSame, StatusOf, FoundBy

LEMMA Arrives ==
    ASSUME NEW c \in Calls, index' = index, \A d \in Calls \ {c} : CallSame(d),
           StatusOf(c) = "new", StatusOf(c)' = "active",
           answer'[c] = answer[c], FoundBy(c)' = FoundBy(c)
    PROVE  Service!Arrive(c)
BY DEF Service!Arrive, CallSame, StatusOf, FoundBy

LEMMA Fails ==
    ASSUME NEW c \in Calls, index' = index, \A d \in Calls \ {c} : CallSame(d),
           StatusOf(c) = "active", StatusOf(c)' = "error",
           answer'[c] = answer[c], FoundBy(c)' = FoundBy(c)
    PROVE  Service!Fail(c)
BY DEF Service!Fail, CallSame, StatusOf, FoundBy

LEMMA Succeeds ==
    ASSUME NEW c \in Calls, index' = index, \A d \in Calls \ {c} : CallSame(d),
           StatusOf(c) = "active", StatusOf(c)' = "ok", answer'[c] = answer[c],
           \/ Method[c] = "Insert" /\ BatchDocs(c) \subseteq index /\ FoundBy(c)' = FoundBy(c)
           \/ Method[c] = "Search" /\ answer[c] # NoAnswer /\ FoundBy(c)' = answer[c]
    PROVE  Service!Succeed(c)
BY DEF Service!Succeed, Service!DocsOf, BatchDocs, CallSame, StatusOf, FoundBy

LEMMA Looks ==
    ASSUME NEW c \in Calls, index' = index, \A d \in Calls \ {c} : CallSame(d),
           Method[c] = "Search", StatusOf(c) \in {"active", "error"}, StatusOf(c)' = StatusOf(c),
           answer[c] = NoAnswer, answer'[c] = index, FoundBy(c)' = FoundBy(c)
    PROVE  Service!Look(c)
BY DEF Service!Look, CallSame, StatusOf, FoundBy

LEMMA Applies ==
    ASSUME NEW c \in Calls, index' = index \cup BatchDocs(c), \A d \in Calls : CallSame(d),
           Method[c] = "Insert", StatusOf(c) \in {"active", "error"}
    PROVE  Service!Apply(c)
BY DEF Service!Apply, Service!DocsOf, BatchDocs, CallSame, StatusOf, FoundBy

\* What a client does changes nothing of a call that is done.
LEMMA ClientStutters ==
    ASSUME SInv, NEW u \in Users, ClientStep(u), UNCHANGED <<idle, poolVars>>
    PROVE  UNCHANGED Service!vars
<1>1. UNCHANGED <<index, answer, phase, result>>
  BY DEF ClientStep, Refuse, Write, WriteFails, CheckContext, ReadOK, ReadERR, ReadJunk, ReadFails,
     Accept, netVars, poolVars
<1>2. \A v \in Users \ {u} : got'[v] = got[v]
  BY DEF ClientStep, Refuse, Write, WriteFails, CheckContext, ReadOK, ReadERR, ReadJunk, ReadFails,
     SInv, IInv, TypeOK, ClientTypeOK
<1>3. u \in Calls => result[u] = "none"
  <2>1. Active(u)
    BY DEF ClientStep, Refuse, Write, WriteFails, CheckContext, ReadOK, ReadERR, ReadJunk, ReadFails,
       Accept, Active
  <2> QED
    BY <2>1 DEF SInv, IInv, UserOK, CallOK, Active, Knows, CallEnds
<1>4. ASSUME NEW c \in Calls PROVE CallSame(c)
  <2>1. c \in Users
    BY PoolAssumption
  <2> QED
    BY <1>1, <1>2, <1>3, <2>1 DEF CallSame, StatusOf, FoundBy
<1> QED
  BY <1>1, <1>4, Stutters

LEMMA ServeImplements ==
    ASSUME SInv, NEW k \in Conns, Serve(k), UNCHANGED <<idle, poolVars>>
    PROVE  [Service!Next]_(Service!vars)
<1> PICK m \in Messages, status \in {"OK", "ERR", "junk"} : Sent(k, m) /\ ServedAs(k, m, status)
  BY ServesOne
<1>1. TypeOK /\ UNCHANGED <<phase, result, got>>
  BY DEF SInv, IInv, Serve, methodVars, poolVars
<1>2. m.kind # "echo" => m.by \in Calls /\ StatusOf(m.by) \in {"active", "error"}
  BY <1>1 DEF Sent, StatusOf
<1>3. ASSUME NEW c \in Calls PROVE answer'[c] = answer[c] => CallSame(c)
  BY <1>1 DEF CallSame, StatusOf, FoundBy
<1>4. CASE UNCHANGED <<index, answer>>
  BY <1>3, <1>4, Stutters
<1>5. CASE m.kind \in Queries /\ index' = index /\ answer' = [answer EXCEPT ![m.by] = index]
  <2>1. m.by \in Calls /\ m.by \in Users /\ Method[m.by] = "Search" /\ answer[m.by] = NoAnswer
    BY <1>2, <1>5, PoolAssumption DEF Sent, Queries
  <2>2. answer'[m.by] = index /\ \A d \in Calls \ {m.by} : CallSame(d)
    BY <1>1, <1>3, <1>5, <2>1 DEF TypeOK, ClientTypeOK
  <2>3. StatusOf(m.by)' = StatusOf(m.by) /\ FoundBy(m.by)' = FoundBy(m.by)
    BY <1>1 DEF StatusOf, FoundBy
  <2>4. Service!Look(m.by)
    BY <1>2, <1>5, <2>1, <2>2, <2>3, Looks DEF Queries
  <2> QED
    BY <2>1, <2>4 DEF Service!Next
<1>6. CASE m.kind = "commit" /\ index' = index \cup session[k].docs /\ UNCHANGED answer
  <2>1. m.by \in Calls /\ Method[m.by] = "Insert" /\ session[k].docs \cup DocsIn(<<>>) = BatchDocs(m.by)
    BY <1>6 DEF Sent, Has
  <2>2. session[k].docs = BatchDocs(m.by)
    BY <2>1 DEF DocsIn
  <2>3. Service!Apply(m.by)
    BY <1>2, <1>3, <1>6, <2>1, <2>2, Applies
  <2> QED
    BY <2>1, <2>3 DEF Service!Next
<1> QED
  BY <1>4, <1>5, <1>6 DEF ServedAs, Queries

LEMMA ReturnImplements ==
    ASSUME SInv, NEW c \in Calls, ReturnObject(c)
    PROVE  Service!Succeed(c) \/ Service!Fail(c)
<1>1. /\ TypeOK /\ Knows(c) /\ UNCHANGED <<index, answer, got>>
      /\ phase[c] = "run" /\ stage[c] = "returned" /\ outcome[c] \in {"ok", "error"}
      /\ result[c] = "none" /\ Method[c] \in {"Search", "Insert"}
  BY CallFacts, PoolAssumption DEF SInv, ReturnObject, Knows, EndsWith, CallEnds, TypeOK
<1>2. /\ phase'[c] = "done" /\ result'[c] = outcome[c]
      /\ \A d \in Calls \ {c} : phase'[d] = phase[d] /\ result'[d] = result[d]
  BY <1>1 DEF ReturnObject, Finish, TypeOK
<1>3. \A d \in Calls \ {c} : CallSame(d)
  BY <1>1, <1>2 DEF CallSame, StatusOf, FoundBy
<1>4. StatusOf(c) = "active" /\ StatusOf(c)' = outcome[c] /\ answer'[c] = answer[c]
  BY <1>1, <1>2 DEF StatusOf
<1>5. CASE outcome[c] = "error"
  BY <1>1, <1>2, <1>3, <1>4, <1>5, Fails DEF FoundBy
<1>6. CASE outcome[c] = "ok"
  <2>1. /\ Method[c] = "Insert" => BatchDocs(c) \subseteq index /\ got[c] = NoAnswer
        /\ Method[c] = "Search" => answer[c] # NoAnswer /\ got[c] = answer[c]
    BY <1>1, <1>6 DEF Knows, SearchOK, InsertOK, CallEnds
  <2>2. FoundBy(c)' = got[c] /\ FoundBy(c) = NoAnswer
    BY <1>1, <1>2, <1>6 DEF FoundBy
  <2> QED
    BY <1>1, <1>3, <1>4, <1>6, <2>1, <2>2, Succeeds
<1> QED
  BY <1>1, <1>5, <1>6

\* The other steps of a call: it arrives, it fails, or nothing can be seen.
LEMMA CallImplements ==
    ASSUME SInv, NEW c \in Calls, Arrive(c) \/ CallStep(c)
    PROVE  [Service!Next]_(Service!vars)
<1>1. TypeOK /\ Knows(c)
  BY CallFacts DEF SInv
<1>2. CASE Arrive(c)
  <2>1. /\ UNCHANGED <<index, answer, got, result>> /\ phase[c] = "new" /\ phase'[c] = "borrow"
        /\ \A d \in Calls \ {c} : phase'[d] = phase[d]
    BY <1>1, <1>2 DEF Arrive, netVars, methodVars, TypeOK
  <2>2. Service!Arrive(c)
    BY <2>1, Arrives DEF CallSame, StatusOf, FoundBy
  <2> QED
    BY <2>2 DEF Service!Next
<1>3. CASE CreateFails(c) \/ BorrowInterrupted(c)
  <2>1. /\ UNCHANGED <<index, answer, got>>
        /\ phase[c] = "borrow" /\ phase'[c] = "done" /\ result'[c] = "error"
        /\ \A d \in Calls \ {c} : phase'[d] = phase[d] /\ result'[d] = result[d]
    BY <1>1, <1>3 DEF CreateFails, BorrowInterrupted, Finish, netVars, methodVars, TypeOK
  <2>2. result[c] = "none"
    BY <1>1, <2>1 DEF Knows, CallEnds
  <2>3. Service!Fail(c)
    BY <2>1, <2>2, Fails DEF CallSame, StatusOf, FoundBy
  <2> QED
    BY <2>3 DEF Service!Next
<1>4. CASE ReturnObject(c)
  BY <1>4, ReturnImplements DEF Service!Next
<1>5. CASE \/ PingReturns(c)
           \/ \E k \in Conns : BorrowRefused(c, k) \/ BorrowPinged(c, k) \/ BorrowIdle(c, k) \/ Create(c, k)
  <2>1. /\ UNCHANGED <<index, answer, got, result>>
        /\ phase[c] \in {"borrow", "ping"} /\ phase'[c] \in {"borrow", "ping", "run"}
        /\ \A d \in Calls \ {c} : phase'[d] = phase[d]
    BY <1>1, <1>5 DEF PingReturns, BorrowRefused, BorrowPinged, BorrowIdle, Create, Run,
       netVars, methodVars, poolVars, TypeOK
  <2> QED
    BY <2>1, Stutters DEF CallSame, StatusOf, FoundBy
<1> QED
  BY <1>2, <1>3, <1>4, <1>5 DEF CallStep

LEMMA NextImplements == SInv /\ [Next]_vars => [Service!Next]_(Service!vars)
<1> SUFFICES ASSUME SInv, [Next]_vars PROVE [Service!Next]_(Service!vars)
  OBVIOUS
<1>1. ASSUME UNCHANGED <<index, answer, got, poolVars>> PROVE UNCHANGED Service!vars
  BY <1>1, Stutters DEF CallSame, StatusOf, FoundBy, poolVars
<1>2. CASE EvictorStep
  BY <1>1, <1>2 DEF EvictorStep, EvictorPingReturns, Evict, EvictorPing, netVars, methodVars
<1>3. CASE Environment
  <2>1. CASE \E u \in Users : ClientStep(u)
    BY <1>3, <2>1, ClientStutters DEF Environment
  <2>2. CASE \E k \in Conns : Serve(k)
    BY <1>3, <2>2, ServeImplements DEF Environment
  <2>3. CASE \E u \in Users : DeadlinePasses(u) \/ ContextEnds(u)
    BY <1>1, <1>3, <2>3 DEF Environment, DeadlinePasses, ContextEnds, netVars, methodVars
  <2>4. CASE \E k \in Conns : Break(k) \/ HangUp(k)
    BY <1>1, <1>3, <2>4 DEF Environment, Break, HangUp, methodVars
  <2> QED
    BY <1>3, <2>1, <2>2, <2>3, <2>4, PoolAssumption DEF Environment, TimerFires, Cancel, ServerStep
<1>4. CASE UNCHANGED vars
  BY <1>1, <1>4 DEF vars, clientVars, netVars, methodVars
<1> QED
  BY <1>2, <1>3, <1>4, CallImplements DEF Next

\* Whatever happens to connections, contexts, replies and transactions, the
\* proxy does what IndexService promises: a Search that succeeds returns the
\* index as it was at one moment of the call, a batch is inserted in one step,
\* and an Insert that was reported as done is in the index (client.go, proxy.go).
THEOREM PoolImplementsService == Spec => ImplementsService
<1>1. Init => Service!Init
  BY PoolAssumption DEF Init, ClientInit, Service!Init
<1> QED
  BY <1>1, NextImplements, ServiceInvariant, PTL DEF Spec, ImplementsService, Service!Spec

\* If no two calls insert the same fingerprint, a batch is never in the index
\* in part, whichever request, reply or connection of it was lost (Insert, the
\* transaction of client.go).
THEOREM BatchesAreAtomic ==
    ASSUME \A c, d \in Calls : c # d => BatchDocs(c) \cap BatchDocs(d) = {}
    PROVE  Spec => []AllOrNothing
<1>1. Init => AllOrNothing
  BY DEF Init, ClientInit, AllOrNothing
<1>2. SInv /\ AllOrNothing /\ [Next]_vars => AllOrNothing'
  <2> SUFFICES ASSUME AllOrNothing, [Service!Next]_(Service!vars) PROVE AllOrNothing'
    BY NextImplements
  <2>1. index' = index \/ \E c \in Calls : index' = index \cup BatchDocs(c)
    BY DEF Service!Next, Service!Arrive, Service!Apply, Service!Look, Service!Succeed, Service!Fail,
       Service!vars, Service!DocsOf, BatchDocs
  <2> QED
    BY <2>1 DEF AllOrNothing, BatchDocs
<1> QED
  BY <1>1, <1>2, ServiceInvariant, PTL DEF Spec

-----------------------------------------------------------------------------
(* What clients may conclude from the service, they may of the pool.       *)

Client == INSTANCE IndexServiceProofs WITH
    status <- [c \in Calls |-> IF phase[c] = "new" THEN "new"
                               ELSE IF phase[c] = "done" THEN result[c] ELSE "active"],
    seen   <- [c \in Calls |-> answer[c]],
    found  <- [c \in Calls |-> IF result[c] = "ok" THEN got[c] ELSE NoAnswer]

LEMMA PoolServesClients == Spec => Client!Spec
<1>1. Spec => Service!Init /\ [][Service!Next]_(Service!vars)
  BY PoolImplementsService DEF ImplementsService, Service!Spec
<1>2. Service!Init => Client!Init
  BY DEF Service!Init, Client!Init
<1>3. [Service!Next]_(Service!vars) => [Client!Next]_(Client!vars)
  BY DEF Service!Next, Service!Arrive, Service!Apply, Service!Look, Service!Succeed, Service!Fail,
         Service!DocsOf, Service!vars, Client!Next, Client!Arrive, Client!Apply, Client!Look,
         Client!Succeed, Client!Fail, Client!DocsOf, Client!vars
<1> QED
  BY <1>1, <1>2, <1>3, PTL DEF Client!Spec

\* A search that starts after an Insert of the proxy has returned finds its
\* documents, whichever connections the two use and whatever was lost, late or
\* cancelled on them before (Search and Insert of proxy.go).
THEOREM PoolFindsAckedInserts == Spec => Client!SearchSeesAckedInserts
BY PoolServesClients, Client!AckedInsertsAreSeen, PTL

\* A search that starts after another has returned finds what that one found
\* (Search of proxy.go).
THEOREM PoolSearchesSeeMore == Spec => Client!SearchesAreMonotonic
BY PoolServesClients, Client!LaterSearchesSeeMore, PTL

=============================================================================
