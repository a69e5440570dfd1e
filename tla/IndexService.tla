----------------------------- MODULE IndexService -----------------------------
(***************************************************************************)
(* What the index proxy promises to its gRPC clients (pkg/fpindex/proxy.go)*)
(* whatever happens to connections, contexts and replies behind it.  A     *)
(* Search that succeeds returns the index as it was at one moment while    *)
(* the call ran.  A batch of Insert goes into the index in one step; when  *)
(* the call fails the batch may still get there, even later.               *)
(***************************************************************************)
EXTENDS Sequences

CONSTANTS Calls, Docs, Method, Batch, NoAnswer

VARIABLES
    index,      \* the documents that searches find
    status,     \* per call: "new", "active", "ok" or "error"
    seen,       \* per call: the index when its search looked at it
    found       \* per call: what its search returned

vars == <<index, status, seen, found>>

Searches == {c \in Calls : Method[c] = "Search"}
Inserts  == {c \in Calls : Method[c] = "Insert"}

DocsOf(c) == {Batch[c][i] : i \in DOMAIN Batch[c]}

Arrive(c) ==
    /\ status[c] = "new"
    /\ status' = [status EXCEPT ![c] = "active"]
    /\ UNCHANGED <<index, seen, found>>

Apply(c) ==
    /\ Method[c] = "Insert"
    /\ status[c] \in {"active", "error"}
    /\ index' = index \cup DocsOf(c)
    /\ UNCHANGED <<status, seen, found>>

Look(c) ==
    /\ Method[c] = "Search"
    /\ status[c] \in {"active", "error"}
    /\ seen[c] = NoAnswer
    /\ seen' = [seen EXCEPT ![c] = index]
    /\ UNCHANGED <<index, status, found>>

Succeed(c) ==
    /\ status[c] = "active"
    /\ status' = [status EXCEPT ![c] = "ok"]
    /\ \/ /\ Method[c] = "Insert"
          /\ DocsOf(c) \subseteq index
          /\ UNCHANGED found
       \/ /\ Method[c] = "Search"
          /\ seen[c] # NoAnswer
          /\ found' = [found EXCEPT ![c] = seen[c]]
    /\ UNCHANGED <<index, seen>>

Fail(c) ==
    /\ status[c] = "active"
    /\ status' = [status EXCEPT ![c] = "error"]
    /\ UNCHANGED <<index, seen, found>>

Init ==
    /\ index = {}
    /\ status = [c \in Calls |-> "new"]
    /\ seen = [c \in Calls |-> NoAnswer]
    /\ found = [c \in Calls |-> NoAnswer]

Next == \E c \in Calls : Arrive(c) \/ Apply(c) \/ Look(c) \/ Succeed(c) \/ Fail(c)

Spec == Init /\ [][Next]_vars

-----------------------------------------------------------------------------
Found(c) == IF found[c] = NoAnswer THEN {} ELSE found[c]

\* A search that starts after an insert was acknowledged finds its documents,
\* and so does every later one: nothing an Insert of the proxy reported as done
\* is ever missing from a Search.
SearchSeesAckedInserts ==
    \A s \in Searches, i \in Inserts :
        [](status[s] = "new" /\ status[i] = "ok" =>
            [](status[s] = "ok" => DocsOf(i) \subseteq Found(s)))

\* Searches never go back: one that starts after another has answered finds at
\* least as much, although the two may have used different connections.
SearchesAreMonotonic ==
    \A s, t \in Searches :
        [](status[s] = "ok" /\ status[t] = "new" =>
            [](status[t] = "ok" => Found(s) \subseteq Found(t)))

=============================================================================
