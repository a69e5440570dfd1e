------------------------- MODULE IndexServiceProofs -------------------------
(***************************************************************************)
(* What clients may rely on follows from the abstract service, for every   *)
(* set of calls: the index only grows, a search looks at it after it was   *)
(* asked, and an insert is not acknowledged before it is there.            *)
(***************************************************************************)
EXTENDS IndexService, TLAPS

Statuses == {"new", "active", "ok", "error"}

\* The documents of all calls.
AllDocs == UNION {DocsOf(c) : c \in Inserts}

\* The variables keep their types.
TypeOK ==
    /\ index \in SUBSET AllDocs
    /\ status \in [Calls -> Statuses]
    /\ seen \in [Calls -> (SUBSET AllDocs) \cup {NoAnswer}]
    /\ found \in [Calls -> (SUBSET AllDocs) \cup {NoAnswer}]

\* Nothing is seen before it is asked for, and what is answered was seen; an
\* acknowledged insert is in the index, and whatever was seen is.
Inv ==
    /\ TypeOK
    /\ \A c \in Searches : status[c] = "new" => seen[c] = NoAnswer
    /\ \A c \in Searches : status[c] = "ok" => seen[c] # NoAnswer /\ found[c] = seen[c]
    /\ \A c \in Searches : seen[c] # NoAnswer => seen[c] \subseteq index
    /\ \A c \in Inserts : status[c] = "ok" => DocsOf(c) \subseteq index

THEOREM InvHolds == Spec => []Inv
<1>1. Init => Inv
  BY DEF Init, Inv, TypeOK, Statuses, Searches, Inserts
<1>2. Inv /\ [Next]_vars => Inv'
  <2> SUFFICES ASSUME Inv, [Next]_vars PROVE Inv'
    OBVIOUS
  <2> USE DEF Inv, TypeOK, Statuses, Searches, Inserts
  <2>1. CASE UNCHANGED vars
    BY <2>1 DEF vars
  <2>2. ASSUME NEW c \in Calls, Arrive(c) PROVE Inv'
    BY <2>2 DEF Arrive
  <2>3. ASSUME NEW c \in Calls, Apply(c) PROVE Inv'
    <3>1. DocsOf(c) \subseteq AllDocs
      BY <2>3 DEF Apply, AllDocs
    <3> QED
      BY <2>3, <3>1 DEF Apply
  <2>4. ASSUME NEW c \in Calls, Look(c) PROVE Inv'
    BY <2>4 DEF Look
  <2>5. ASSUME NEW c \in Calls, Succeed(c) PROVE Inv'
    BY <2>5 DEF Succeed
  <2>6. ASSUME NEW c \in Calls, Fail(c) PROVE Inv'
    BY <2>6 DEF Fail
  <2> QED
    BY <2>1, <2>2, <2>3, <2>4, <2>5, <2>6 DEF Next
<1> QED
  BY <1>1, <1>2, PTL DEF Spec

\* The index has the documents, and so has what the search saw of it.
Keeps(s, docs) ==
    /\ docs \subseteq index
    /\ seen[s] # NoAnswer => docs \subseteq seen[s]

LEMMA KeptStays ==
    ASSUME NEW s \in Searches, NEW docs, Inv, Keeps(s, docs), [Next]_vars
    PROVE  Keeps(s, docs)'
<1> USE DEF Inv, TypeOK, Searches, Keeps
<1>1. CASE UNCHANGED vars
  BY <1>1 DEF vars
<1>2. ASSUME NEW c \in Calls, Look(c) PROVE Keeps(s, docs)'
  BY <1>2 DEF Look
<1>3. ASSUME NEW c \in Calls, Apply(c) PROVE Keeps(s, docs)'
  BY <1>3 DEF Apply
<1>4. ASSUME NEW c \in Calls, Arrive(c) \/ Succeed(c) \/ Fail(c) PROVE Keeps(s, docs)'
  BY <1>4 DEF Arrive, Succeed, Fail
<1> QED
  BY <1>1, <1>2, <1>3, <1>4 DEF Next

LEMMA KeptIsFound ==
    ASSUME NEW s \in Searches, NEW docs, Inv, Keeps(s, docs)
    PROVE  status[s] = "ok" => docs \subseteq Found(s)
BY DEF Inv, Keeps, Found

\* A search that starts after an insert of the proxy was acknowledged finds its
\* documents, for all calls.
THEOREM AckedInsertsAreSeen == Spec => SearchSeesAckedInserts
<1> SUFFICES ASSUME NEW s \in Searches, NEW i \in Inserts
             PROVE  Spec => [](status[s] = "new" /\ status[i] = "ok" =>
                                [](status[s] = "ok" => DocsOf(i) \subseteq Found(s)))
  BY DEF SearchSeesAckedInserts
<1> DEFINE K == Keeps(s, DocsOf(i))
           A == status[s] = "new" /\ status[i] = "ok"
           B == status[s] = "ok" => DocsOf(i) \subseteq Found(s)
<1>1. Inv /\ A => K
  BY DEF Inv, Keeps
<1>2. Inv /\ K /\ [Next]_vars => K'
  BY KeptStays
<1>3. Inv /\ K => B
  BY KeptIsFound
<1> HIDE DEF K, A, B
<1>4. Spec => [](A => []B)
  BY <1>1, <1>2, <1>3, InvHolds, PTL DEF Spec
<1> QED
  BY <1>4 DEF A, B

-----------------------------------------------------------------------------
\* What a search has found stays found, and a later search keeps it.
KeepsFound(s, t) ==
    /\ status[s] = "ok"
    /\ Found(s) \subseteq index
    /\ seen[t] # NoAnswer => Found(s) \subseteq seen[t]

LEMMA FoundStays ==
    ASSUME NEW s \in Searches, NEW t \in Searches, Inv, KeepsFound(s, t), [Next]_vars
    PROVE  KeepsFound(s, t)'
<1>1. status'[s] = "ok" /\ found'[s] = found[s]
  <2> USE DEF Inv, TypeOK, Searches, KeepsFound
  <2>1. CASE UNCHANGED vars
    BY <2>1 DEF vars
  <2>2. ASSUME NEW c \in Calls, Arrive(c) \/ Apply(c) \/ Look(c) PROVE status'[s] = "ok" /\ found'[s] = found[s]
    BY <2>2 DEF Arrive, Apply, Look
  <2>3. ASSUME NEW c \in Calls, Succeed(c) \/ Fail(c) PROVE status'[s] = "ok" /\ found'[s] = found[s]
    BY <2>3 DEF Succeed, Fail
  <2> QED
    BY <2>1, <2>2, <2>3 DEF Next
<1>2. Found(s)' = Found(s)
  BY <1>1 DEF Found
<1>3. ASSUME NEW docs, Keeps(t, docs) PROVE docs \subseteq index' /\ (seen'[t] # NoAnswer => docs \subseteq seen'[t])
  BY <1>3, KeptStays DEF Keeps
<1>4. Found(s) \subseteq index' /\ (seen'[t] # NoAnswer => Found(s) \subseteq seen'[t])
  BY <1>3 DEF Keeps, KeepsFound
<1> QED
  BY <1>1, <1>2, <1>4 DEF KeepsFound

\* Searches never go back: what one has answered, every search that starts
\* after it finds as well, for all calls.
THEOREM LaterSearchesSeeMore == Spec => SearchesAreMonotonic
<1> SUFFICES ASSUME NEW s \in Searches, NEW t \in Searches
             PROVE  Spec => [](status[s] = "ok" /\ status[t] = "new" =>
                                [](status[t] = "ok" => Found(s) \subseteq Found(t)))
  BY DEF SearchesAreMonotonic
<1> DEFINE K == KeepsFound(s, t)
           A == status[s] = "ok" /\ status[t] = "new"
           B == status[t] = "ok" => Found(s) \subseteq Found(t)
<1>1. Inv /\ A => K
  BY DEF Inv, KeepsFound, Found
<1>2. Inv /\ K /\ [Next]_vars => K'
  BY FoundStays
<1>3. Inv /\ K => B
  BY DEF Inv, KeepsFound, Found
<1> HIDE DEF K, A, B
<1>4. Spec => [](A => []B)
  BY <1>1, <1>2, <1>3, InvHolds, PTL DEF Spec
<1> QED
  BY <1>4 DEF A, B

=============================================================================
