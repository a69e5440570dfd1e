------------------------------- MODULE MemFS --------------------------------
(***************************************************************************)
(* A directory of files in memory: util/vfs/mem.go.  A file has data, here *)
(* the sequence of the pieces written; names stand for files, and a handle *)
(* keeps its file whatever becomes of the name.  Every method of the code  *)
(* holds fs.mu or the mutex of the file, and is one step.                  *)
(*                                                                         *)
(* A user has one handle and one lock at a time.  A file that has neither  *)
(* name nor handle is unused.                                              *)
(***************************************************************************)
EXTENDS Integers, Sequences

CONSTANTS
    Users,
    Names,
    MemFiles,      \* bound: files with a name or a handle at one time
    NoFile, NoName

ASSUME FileAssumption == NoFile \notin MemFiles /\ NoName \notin Names

VARIABLES
    files,      \* per name: the file
    data,       \* per file: what has been written
    handle,     \* per user
    lock        \* per user: the name of the lock it has taken

fsVars == <<files, data, handle, lock>>

Closed == [kind |-> "none", file |-> NoFile, name |-> NoName, committed |-> FALSE, pos |-> 0]

FSInit ==
    /\ files = [n \in Names |-> NoFile]
    /\ data = [f \in MemFiles |-> <<>>]
    /\ handle = [u \in Users |-> Closed]
    /\ lock = [u \in Users |-> NoName]

Unused(f) == (\A n \in Names : files[n] # f) /\ (\A u \in Users : handle[u].file # f)

\* The contents after a step, without those of files it has left unused.
Collected(contents) ==
    [f \in MemFiles |-> IF (\A n \in Names : files'[n] # f) /\ (\A u \in Users : handle'[u].file # f)
                     THEN <<>> ELSE contents[f]]

\* A new file, with its address.
New(f) == Unused(f) /\ \A g \in MemFiles : Unused(g) => f <= g

-----------------------------------------------------------------------------
(* The directory *)

\* Faulty variant: nothing tells that the lock is taken.
LockUnchecked(u, n) ==
    /\ lock[u] = NoName
    /\ \E f \in MemFiles : New(f) /\ files' = [files EXCEPT ![n] = f]
    /\ lock' = [lock EXCEPT ![u] = n]
    /\ UNCHANGED handle
    /\ data' = Collected(data)

\* A lock is a file: it can be taken when no file has its name.
Lock(u, n) ==
    /\ lock[u] = NoName
    /\ files[n] = NoFile
    /\ \E f \in MemFiles : New(f) /\ files' = [files EXCEPT ![n] = f]
    /\ lock' = [lock EXCEPT ![u] = n]
    /\ UNCHANGED <<data, handle>>

RemoveFile(n) ==
    /\ files[n] # NoFile
    /\ files' = [files EXCEPT ![n] = NoFile]
    /\ UNCHANGED handle
    /\ data' = Collected(data)

\* memLock.Close, which a user calls once: it removes the name.
Unlock(u) ==
    /\ lock[u] # NoName
    /\ RemoveFile(lock[u])
    /\ lock' = [lock EXCEPT ![u] = NoName]

Rename(old, new) ==
    /\ files[old] # NoFile
    /\ files' = [m \in Names |-> IF m = new THEN files[old] ELSE IF m = old THEN NoFile ELSE files[m]]
    /\ UNCHANGED <<handle, lock>>
    /\ data' = Collected(data)

OpenFile(u, n) ==
    /\ files[n] # NoFile
    /\ handle' = [handle EXCEPT ![u] = [Closed EXCEPT !.kind = "in", !.file = files[n], !.name = n]]
    /\ UNCHANGED <<files, data, lock>>

\* Overwriting empties the file that handles may have open.  Without overwrite
\* it is an error if the file exists.
CreateFile(u, n, overwrite) ==
    /\ files[n] = NoFile \/ overwrite
    /\ \E f \in MemFiles :
         /\ IF files[n] = NoFile THEN New(f) ELSE f = files[n]
         /\ files' = [files EXCEPT ![n] = f]
         /\ data' = [data EXCEPT ![f] = <<>>]
         /\ handle' = [handle EXCEPT ![u] = [Closed EXCEPT !.kind = "out", !.file = f, !.name = n]]
    /\ UNCHANGED lock

\* Faulty variant: the file has its name from the start.
CreateVisibleFile(u, n) == CreateFile(u, n, TRUE)

CreateAtomicFile(u, n) ==
    /\ \E f \in MemFiles :
         /\ New(f)
         /\ handle' = [handle EXCEPT ![u] = [Closed EXCEPT !.kind = "atomic", !.file = f, !.name = n]]
    /\ UNCHANGED <<files, data, lock>>

-----------------------------------------------------------------------------
(* Open files *)

Write(u, piece) ==
    /\ handle[u].kind \in {"out", "atomic"}
    /\ data' = [data EXCEPT ![handle[u].file] = Append(@, piece)]
    /\ UNCHANGED <<files, handle, lock>>

\* The second time it is an error, errCommitted.
Commit(u) ==
    /\ handle[u].kind = "atomic"
    /\ files' = IF handle[u].committed THEN files
                ELSE [files EXCEPT ![handle[u].name] = handle[u].file]
    /\ handle' = [handle EXCEPT ![u].committed = TRUE]
    /\ UNCHANGED lock
    /\ data' = Collected(data)

AtEnd(u) == handle[u].pos >= Len(data[handle[u].file])

NextPiece(u) == data[handle[u].file][handle[u].pos + 1]

\* One piece is read.  Read gives io.EOF at the end.
Read(u) ==
    /\ handle[u].kind = "in"
    /\ ~AtEnd(u)
    /\ handle' = [handle EXCEPT ![u].pos = @ + 1]
    /\ UNCHANGED <<files, data, lock>>

CloseFile(u) ==
    /\ handle[u].kind # "none"
    /\ handle' = [handle EXCEPT ![u] = Closed]
    /\ UNCHANGED <<files, lock>>
    /\ data' = Collected(data)

-----------------------------------------------------------------------------
\* A lock is held by one user at most, and as long as it is held the name of
\* the lock stands for a file that nobody else can lock.
LockIsExclusive ==
    \A u \in Users : lock[u] # NoName =>
        /\ files[lock[u]] # NoFile
        /\ \A v \in Users \ {u} : lock[v] # lock[u]

=============================================================================
