------------------------------ MODULE SetFiles ------------------------------
(***************************************************************************)
(* Users who keep a SparseBitSet each and share a directory: they save     *)
(* their set with vfs.WriteFile, or overwrite a file while they hold a     *)
(* lock, and load what they or the other saved.  Nothing in the repository *)
(* puts the two packages together yet; the set of a user is written and    *)
(* read through the io.Writer and io.Reader the files are.                 *)
(*                                                                         *)
(* A set has no lock: a user does nothing else with it meanwhile, and no   *)
(* other user looks at it.                                                 *)
(***************************************************************************)
EXTENDS SparseBitSet, MemFS

CONSTANTS
    AtomicNames,    \* files saved with WriteFile
    PlainName,      \* a file that is overwritten
    LockName,       \* the lock for it
    MaxCalls,       \* bound: calls that change sets or begin to use a file
    Nothing, Loading

ASSUME SharedAssumption ==
    /\ Sets = Users
    /\ Names = AtomicNames \cup {PlainName, LockName}
    /\ PlainName \notin AtomicNames /\ LockName \notin AtomicNames \cup {PlainName}
    /\ Nothing # Loading /\ Nothing # Damaged /\ Loading # Damaged
    /\ \A set \in SUBSET Universe : set \notin {Nothing, Loading}

VARIABLES
    left,       \* per user: the blocks SparseBitSet.Read still expects
    index,      \* per user: the index it has read last
    failed,     \* per user: whether its last Read returned an error
    calls       \* how many calls there have been

readVars == <<left, index, failed>>
vars == <<setVars, fsVars, readVars, calls>>

Init ==
    /\ SetInit
    /\ FSInit
    /\ left = [u \in Users |-> 0]
    /\ index = [u \in Users |-> 0]
    /\ failed = [u \in Users |-> FALSE]
    /\ calls = 0

Idle(u) == handle[u].kind = "none"

NextCall == calls < MaxCalls /\ calls' = calls + 1

-----------------------------------------------------------------------------
Edit(u) ==
    /\ Idle(u)
    /\ NextCall
    /\ \/ \E x \in Universe : AddElement(u, x) \/ RemoveElement(u, x)
       \/ \E v \in Users \ {u} :
            /\ Idle(v)
            /\ Union(u, v) \/ MakeSet(u, Intersection(u, v).set) \/ MakeSet(u, Clone(v))
    /\ UNCHANGED <<fsVars, readVars>>

\* Looking for the least or the greatest element deletes blocks.
Look(u) ==
    /\ Idle(u)
    /\ MinDeletes(u) \/ MaxDeletes(u)
    /\ UNCHANGED <<fsVars, readVars, calls>>

-----------------------------------------------------------------------------
(* WriteFile, or CreateFile under the lock, with SparseBitSet.Write        *)

StartWriteFile(u) ==
    /\ Idle(u)
    /\ NextCall
    /\ \E n \in AtomicNames : CreateAtomicFile(u, n)
    /\ UNCHANGED <<setVars, readVars>>

StartOverwrite(u) ==
    /\ Idle(u)
    /\ NextCall
    /\ lock[u] = LockName
    /\ CreateFile(u, PlainName, TRUE)
    /\ UNCHANGED <<setVars, readVars>>

Writing(u) == handle[u].kind \in {"out", "atomic"} /\ ~handle[u].committed

Progress(u) == Len(data[handle[u].file])

WriteCount(u) ==
    /\ Writing(u)
    /\ Progress(u) = 0
    /\ Compact(u)
    /\ Write(u, Written(u)[1])
    /\ UNCHANGED <<readVars, calls>>

WriteNext(u) ==
    /\ Writing(u)
    /\ Progress(u) \in 1..(Len(Written(u)) - 1)
    /\ Write(u, Written(u)[Progress(u) + 1])
    /\ UNCHANGED <<setVars, readVars, calls>>

CommitFile(u) ==
    /\ handle[u].kind = "atomic"
    /\ Progress(u) = Len(Written(u))
    /\ Commit(u)
    /\ UNCHANGED <<setVars, readVars, calls>>

\* The deferred Close: the set is written, or the function given to WriteFile
\* has failed for a reason of its own.
EndWrite(u) ==
    /\ handle[u].kind \in {"out", "atomic"}
    /\ CloseFile(u)
    /\ UNCHANGED <<setVars, readVars, calls>>

-----------------------------------------------------------------------------
(* SparseBitSet.Read                                                       *)

StartLoad(u) ==
    /\ Idle(u)
    /\ NextCall
    /\ \/ \E n \in AtomicNames : OpenFile(u, n)
       \/ lock[u] = LockName /\ OpenFile(u, PlainName)
    /\ UNCHANGED <<setVars, readVars>>

ReadCount(u) ==
    /\ handle[u].pos = 0
    /\ Read(u)
    /\ left' = [left EXCEPT ![u] = NextPiece(u)[2]]
    /\ MakeSet(u, <<>>)
    /\ UNCHANGED <<index, failed, calls>>

\* The block is made before it is read.
ReadIndex(u) ==
    /\ handle[u].pos % 2 = 1
    /\ left[u] > 0
    /\ Read(u)
    /\ index' = [index EXCEPT ![u] = NextPiece(u)[2]]
    /\ MakeSet(u, [i \in DOMAIN blocks[u] \cup {NextPiece(u)[2]} |->
                    IF i = NextPiece(u)[2] THEN {} ELSE BlockOf(u, i)])
    /\ UNCHANGED <<left, failed, calls>>

ReadBlock(u) ==
    /\ handle[u].pos > 0 /\ handle[u].pos % 2 = 0
    /\ Read(u)
    /\ left' = [left EXCEPT ![u] = @ - 1]
    /\ heap' = [heap EXCEPT ![blocks[u][index[u]]] = NextPiece(u)[2]]
    /\ index' = [index EXCEPT ![u] = 0]
    /\ UNCHANGED <<blocks, failed, calls>>

\* Faulty variant: the end of the file is taken for the end of the set.
EndOfFile(u) == AtEnd(u)

EndOfSet(u) == handle[u].pos % 2 = 1 /\ left[u] = 0

\* All blocks are read, or the file ends before them and Read returns an error.
EndLoad(u) ==
    /\ handle[u].kind = "in"
    /\ EndOfSet(u) \/ AtEnd(u)
    /\ CloseFile(u)
    /\ failed' = [failed EXCEPT ![u] = ~EndOfSet(u)]
    /\ left' = [left EXCEPT ![u] = 0]
    /\ index' = [index EXCEPT ![u] = 0]
    /\ UNCHANGED <<setVars, calls>>

-----------------------------------------------------------------------------
(* Other use of the directory                                              *)

TakeLock(u) == Idle(u) /\ Lock(u, LockName) /\ NextCall /\ UNCHANGED <<setVars, readVars>>
ReleaseLock(u) == Idle(u) /\ Unlock(u) /\ UNCHANGED <<setVars, readVars, calls>>

RenameFile == (\E m, n \in AtomicNames : Rename(m, n)) /\ NextCall /\ UNCHANGED <<setVars, readVars>>
DropFile == (\E n \in AtomicNames : RemoveFile(n)) /\ NextCall /\ UNCHANGED <<lock, setVars, readVars>>

Next ==
    \/ \E u \in Users :
         \/ Edit(u) \/ Look(u)
         \/ StartWriteFile(u) \/ StartOverwrite(u)
         \/ WriteCount(u) \/ WriteNext(u) \/ CommitFile(u) \/ EndWrite(u)
         \/ StartLoad(u) \/ ReadCount(u) \/ ReadIndex(u) \/ ReadBlock(u) \/ EndLoad(u)
         \/ TakeLock(u) \/ ReleaseLock(u)
    \/ RenameFile
    \/ DropFile

Spec == Init /\ [][Next]_vars

-----------------------------------------------------------------------------
\* What Len, Min, Max, Contains and Intersection compute from blocks and bits
\* is what they compute of the set, although removed elements leave empty
\* blocks behind, and the least element and the greatest of no set are 0.
QueriesAgree ==
    \A u \in Users :
        LET set == Elements(u) IN
        /\ Size(u) = Cardinality(set)
        /\ Lowest(u) = IF set = {} THEN 0 ELSE Min(set)
        /\ Highest(u) = IF set = {} THEN 0 ELSE Max(set)
        /\ \A x \in Universe : Has(u, x) <=> x \in set
        /\ \A v \in Users : Intersection(u, v).n = Cardinality(set \cap Elements(v))

\* A set that is being read is nobody's business; a file has in it what is
\* complete in it.
value == [u \in Users |-> IF handle[u].kind = "in" /\ handle[u].pos > 0 THEN Loading ELSE Elements(u)]
saved == [n \in AtomicNames \cup {PlainName} |-> IF files[n] = NoFile THEN Nothing ELSE SetIn(data[files[n]])]
opened == [u \in Users |-> IF handle[u].kind = "in" THEN SetIn(data[handle[u].file]) ELSE Nothing]

Saved == INSTANCE SavedSets WITH FileNames <- AtomicNames \cup {PlainName}, InPlace <- {PlainName}

\* Blocks make up sets that share nothing, and what is loaded is what was saved,
\* as a whole: a file saved with WriteFile has its name only when it is complete
\* and does not change under a reader, one that is overwritten is not read
\* before it is complete, and a file that ends too soon is noticed.
ImplementsSavedSets == Saved!Spec

=============================================================================
