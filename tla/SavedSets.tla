----------------------------- MODULE SavedSets ------------------------------
(***************************************************************************)
(* What intset.SparseBitSet and the files of vfs promise together: sets    *)
(* are sets, and what is loaded from a file is what was saved in it, as a  *)
(* whole, when the file was opened.  Only a file that is overwritten in    *)
(* place can be damaged, and loading it is then an error.                  *)
(***************************************************************************)
CONSTANTS
    Sets, Universe,
    FileNames,  \* the files sets are saved in
    InPlace,    \* those of them that are overwritten
    Nothing, Damaged, Loading

VARIABLES
    value,      \* per set: its elements
    saved,      \* per file: the set in it
    opened,     \* per set: what is being loaded into it
    failed      \* per set: whether the last load was an error

vars == <<value, saved, opened, failed>>

Init ==
    /\ value = [s \in Sets |-> {}]
    /\ saved = [n \in FileNames |-> Nothing]
    /\ opened = [s \in Sets |-> Nothing]
    /\ failed = [s \in Sets |-> FALSE]

Become(s, elements) ==
    /\ value[s] # Loading
    /\ value' = [value EXCEPT ![s] = elements]
    /\ UNCHANGED <<saved, opened, failed>>

Change(s) ==
    \/ \E x \in Universe : Become(s, value[s] \cup {x}) \/ Become(s, value[s] \ {x})
    \/ \E t \in Sets :
         /\ value[t] # Loading
         /\ \/ Become(s, value[s] \cup value[t])
            \/ Become(s, value[s] \cap value[t])
            \/ Become(s, value[t])

Save(s, n) ==
    /\ value[s] # Loading
    /\ saved' = [saved EXCEPT ![n] = value[s]]
    /\ UNCHANGED <<value, opened, failed>>

Overwrite(n) ==
    /\ saved' = [saved EXCEPT ![n] = Damaged]
    /\ UNCHANGED <<value, opened, failed>>

Move(m, n) ==
    /\ saved[m] # Nothing
    /\ saved' = [k \in FileNames |-> IF k = n THEN saved[m] ELSE IF k = m THEN Nothing ELSE saved[k]]
    /\ UNCHANGED <<value, opened, failed>>

Drop(n) ==
    /\ saved' = [saved EXCEPT ![n] = Nothing]
    /\ UNCHANGED <<value, opened, failed>>

Open(s, n) ==
    /\ opened[s] = Nothing
    /\ saved[n] # Nothing
    /\ opened' = [opened EXCEPT ![s] = saved[n]]
    /\ UNCHANGED <<value, saved, failed>>

Load(s) ==
    /\ opened[s] # Nothing
    /\ value' = [value EXCEPT ![s] = Loading]
    /\ UNCHANGED <<saved, opened, failed>>

Loaded(s) ==
    /\ value[s] = Loading
    /\ opened[s] # Damaged
    /\ value' = [value EXCEPT ![s] = opened[s]]
    /\ failed' = [failed EXCEPT ![s] = FALSE]
    /\ opened' = [opened EXCEPT ![s] = Nothing]
    /\ UNCHANGED saved

\* The set is left as it was, or with a part of what was in the file.
LoadFails(s) ==
    /\ opened[s] = Damaged
    /\ \/ UNCHANGED value
       \/ \E part \in SUBSET Universe : value' = [value EXCEPT ![s] = part]
    /\ value'[s] # Loading
    /\ failed' = [failed EXCEPT ![s] = TRUE]
    /\ opened' = [opened EXCEPT ![s] = Nothing]
    /\ UNCHANGED saved

Next ==
    \/ \E s \in Sets :
         \/ Change(s) \/ Load(s) \/ Loaded(s) \/ LoadFails(s)
         \/ \E n \in FileNames : Save(s, n) \/ Open(s, n)
    \/ \E n \in InPlace : Overwrite(n)
    \/ \E n \in FileNames \ InPlace : Drop(n) \/ \E m \in FileNames \ InPlace : Move(m, n)

Spec == Init /\ [][Next]_vars

=============================================================================
