--------------------------- MODULE SetFilesProofs ---------------------------
(***************************************************************************)
(* Locks exclude, readers of a file see one version of it, what is loaded  *)
(* from a file is a set that was saved in it, and the queries of a set     *)
(* answer for its elements: for every number of users, names and files,    *)
(* and for every finite universe of elements.                              *)
(***************************************************************************)
EXTENDS SetFiles, FiniteSetTheorems, TLAPS

Handles == [kind : {"none", "in", "out", "atomic"}, file : MemFiles \cup {NoFile},
            name : Names \cup {NoName}, committed : BOOLEAN, pos : Nat]

Unsaved(u) == handle[u].kind = "atomic" /\ ~handle[u].committed

\* The directory, handles and locks keep their types.
TypeOK ==
    /\ files \in [Names -> MemFiles \cup {NoFile}]
    /\ handle \in [Users -> Handles]
    /\ lock \in [Users -> {NoName, LockName}]
    /\ DOMAIN data = MemFiles
    /\ \A u \in Users : handle[u].kind # "none" => handle[u].file \in MemFiles
    /\ \A u \in Users : handle[u].kind = "none" => handle[u].file = NoFile
    /\ \A u \in Users : handle[u].kind = "atomic" => handle[u].name \in AtomicNames

\* No two names stand for one file.
NamesDiffer ==
    \A m, n \in Names : files[m] = files[n] /\ files[m] # NoFile => m = n

\* A file that is being saved has no name and nobody else has it open.
UnsavedIsPrivate ==
    \A u \in Users : Unsaved(u) =>
        /\ \A n \in Names : files[n] # handle[u].file
        /\ \A v \in Users \ {u} : handle[v].file # handle[u].file

\* The file that is overwritten is open to whoever has the lock.
PlainIsLocked ==
    \A u \in Users : handle[u].kind # "none" =>
        /\ handle[u].file = files[PlainName] => lock[u] = LockName
        /\ handle[u].kind = "out" => handle[u].file = files[PlainName]

IInv == TypeOK /\ LockIsExclusive /\ NamesDiffer /\ UnsavedIsPrivate /\ PlainIsLocked

-----------------------------------------------------------------------------
(* What a step does to the directory                                       *)

StepOf(u) ==
    \/ Idle(u) /\ \E n \in AtomicNames : CreateAtomicFile(u, n)
    \/ Idle(u) /\ lock[u] = LockName /\ CreateFile(u, PlainName, TRUE)
    \/ Writing(u) /\ \E piece : Write(u, piece)
    \/ Commit(u)
    \/ CloseFile(u)
    \/ Idle(u) /\ \E n \in AtomicNames : OpenFile(u, n)
    \/ Idle(u) /\ lock[u] = LockName /\ OpenFile(u, PlainName)
    \/ Read(u)
    \/ Lock(u, LockName)
    \/ Idle(u) /\ Unlock(u)

Shared ==
    \/ \E m, n \in AtomicNames : Rename(m, n)
    \/ \E n \in AtomicNames : RemoveFile(n) /\ UNCHANGED lock

\* Every step of the system is one of these or leaves the directory alone.
LEMMA StepsOfDirectory ==
    ASSUME [Next]_vars
    PROVE  UNCHANGED fsVars \/ Shared \/ \E u \in Users : StepOf(u)
<1>1. CASE UNCHANGED vars
  BY <1>1 DEF vars
<1>2. ASSUME NEW u \in Users, Edit(u) \/ Look(u) PROVE UNCHANGED fsVars
  BY <1>2 DEF Edit, Look
<1>3. ASSUME NEW u \in Users, StartWriteFile(u) \/ StartOverwrite(u) PROVE StepOf(u)
  BY <1>3 DEF StartWriteFile, StartOverwrite, StepOf
<1>4. ASSUME NEW u \in Users, WriteCount(u) \/ WriteNext(u) PROVE StepOf(u)
  <2>1. Writing(u) /\ \E piece : Write(u, piece)
    BY <1>4 DEF WriteCount, WriteNext
  <2> QED
    BY <2>1 DEF StepOf
<1>5. ASSUME NEW u \in Users, CommitFile(u) \/ EndWrite(u) \/ EndLoad(u) PROVE StepOf(u)
  BY <1>5 DEF CommitFile, EndWrite, EndLoad, StepOf
<1>6. ASSUME NEW u \in Users, StartLoad(u) PROVE StepOf(u)
  BY <1>6 DEF StartLoad, StepOf
<1>7. ASSUME NEW u \in Users, ReadCount(u) \/ ReadIndex(u) \/ ReadBlock(u) PROVE StepOf(u)
  BY <1>7 DEF ReadCount, ReadIndex, ReadBlock, StepOf
<1>8. ASSUME NEW u \in Users, TakeLock(u) \/ ReleaseLock(u) PROVE StepOf(u)
  BY <1>8 DEF TakeLock, ReleaseLock, StepOf
<1>9. ASSUME RenameFile \/ DropFile PROVE Shared
  BY <1>9 DEF RenameFile, DropFile, Shared
<1> QED
  BY <1>1, <1>2, <1>3, <1>4, <1>5, <1>6, <1>7, <1>8, <1>9 DEF Next

-----------------------------------------------------------------------------
LEMMA InitHolds == Init => IInv
BY FileAssumption, SharedAssumption
   DEF Init, FSInit, IInv, TypeOK, Handles, Closed, LockIsExclusive, NamesDiffer,
       UnsavedIsPrivate, Unsaved, PlainIsLocked

LEMMA CreateAtomicKeeps ==
    ASSUME IInv, NEW u \in Users, NEW n \in AtomicNames, Idle(u), CreateAtomicFile(u, n)
    PROVE  IInv'
<1> USE FileAssumption, SharedAssumption DEF IInv, TypeOK, Idle, CreateAtomicFile
<1>1. PICK f \in MemFiles : New(f) /\ handle' = [handle EXCEPT ![u] = [Closed EXCEPT !.kind = "atomic", !.file = f, !.name = n]]
  OBVIOUS
<1>2. Unused(f)
  BY <1>1 DEF New
<1>3. /\ handle' \in [Users -> Handles]
      /\ handle'[u].kind = "atomic" /\ handle'[u].file = f /\ handle'[u].name = n
      /\ \A v \in Users \ {u} : handle'[v] = handle[v]
  BY <1>1 DEF Handles, Closed
<1>4. TypeOK'
  BY <1>3
<1>5. LockIsExclusive' /\ NamesDiffer'
  BY DEF LockIsExclusive, NamesDiffer
<1>6. UnsavedIsPrivate'
  BY <1>2, <1>3 DEF UnsavedIsPrivate, Unsaved, Unused
<1>7. PlainIsLocked'
  BY <1>2, <1>3 DEF PlainIsLocked, Unused
<1> QED
  BY <1>4, <1>5, <1>6, <1>7

LEMMA CreateFileKeeps ==
    ASSUME IInv, NEW u \in Users, Idle(u), lock[u] = LockName, CreateFile(u, PlainName, TRUE)
    PROVE  IInv'
<1> USE FileAssumption, SharedAssumption DEF IInv, TypeOK, Idle, CreateFile
<1>1. PICK f \in MemFiles :
        /\ IF files[PlainName] = NoFile THEN New(f) ELSE f = files[PlainName]
        /\ files' = [files EXCEPT ![PlainName] = f]
        /\ data' = [data EXCEPT ![f] = <<>>]
        /\ handle' = [handle EXCEPT ![u] = [Closed EXCEPT !.kind = "out", !.file = f, !.name = PlainName]]
  OBVIOUS
<1>2. files[PlainName] = f \/ Unused(f)
  BY <1>1 DEF New
<1>3. /\ handle' \in [Users -> Handles]
      /\ handle'[u].kind = "out" /\ handle'[u].file = f
      /\ \A v \in Users \ {u} : handle'[v] = handle[v]
  <2> PICK h : h = [Closed EXCEPT !.kind = "out", !.file = f, !.name = PlainName]
    OBVIOUS
  <2>1. h \in Handles /\ h.kind = "out" /\ h.file = f
    BY DEF Handles, Closed
  <2>2. handle' = [handle EXCEPT ![u] = h] /\ handle \in [Users -> Handles]
    BY <1>1
  <2> HIDE DEF IInv, TypeOK, Idle, CreateFile
  <2> QED
    BY <2>1, <2>2
<1>4. /\ files' \in [Names -> MemFiles \cup {NoFile}]
      /\ files'[PlainName] = f
      /\ \A n \in Names \ {PlainName} : files'[n] = files[n]
  BY <1>1
<1>5. TypeOK'
  BY <1>1, <1>3, <1>4
<1>6. LockIsExclusive'
  BY <1>4 DEF LockIsExclusive
<1>7. NamesDiffer'
  BY <1>2, <1>4 DEF NamesDiffer, Unused
<1>8. UnsavedIsPrivate'
  BY <1>2, <1>3, <1>4 DEF UnsavedIsPrivate, Unsaved, Unused
<1>9. PlainIsLocked'
  BY <1>2, <1>3, <1>4 DEF PlainIsLocked, LockIsExclusive, Unused
<1> QED
  BY <1>5, <1>6, <1>7, <1>8, <1>9

LEMMA WriteKeeps ==
    ASSUME IInv, NEW u \in Users, NEW piece, Write(u, piece)
    PROVE  IInv'
BY DEF IInv, TypeOK, LockIsExclusive, NamesDiffer, UnsavedIsPrivate, Unsaved, PlainIsLocked, Write

LEMMA CommitKeeps ==
    ASSUME IInv, NEW u \in Users, Commit(u)
    PROVE  IInv'
<1> USE FileAssumption, SharedAssumption DEF IInv, TypeOK
<1>1. /\ handle' \in [Users -> Handles]
      /\ handle[u].kind = "atomic" /\ handle'[u].kind = "atomic" /\ handle'[u].committed
      /\ handle'[u].file = handle[u].file /\ handle'[u].name = handle[u].name
      /\ \A v \in Users \ {u} : handle'[v] = handle[v]
  <2> PICK old, h : old = handle[u] /\ h = [old EXCEPT !.committed = TRUE]
    OBVIOUS
  <2>1. handle \in [Users -> Handles] /\ old \in Handles /\ old.kind = "atomic"
    BY DEF Commit
  <2> HIDE DEF IInv, TypeOK
  <2>2. h \in Handles /\ h.kind = old.kind /\ h.committed /\ h.file = old.file /\ h.name = old.name
    BY <2>1 DEF Handles
  <2>3. handle' = [handle EXCEPT ![u] = h]
    BY DEF Commit
  <2> QED
    BY <2>1, <2>2, <2>3
<1>2. files' \in [Names -> MemFiles \cup {NoFile}] /\ files'[PlainName] = files[PlainName]
  BY DEF Commit
<1>3. \A n \in Names : files'[n] = files[n] \/ (Unsaved(u) /\ n = handle[u].name /\ files'[n] = handle[u].file)
  BY DEF Commit, Unsaved
<1>4. lock' = lock /\ DOMAIN data' = MemFiles
  BY DEF Commit, Collected
<1>5. TypeOK'
  BY <1>1, <1>2, <1>4
<1>6. LockIsExclusive'
  BY <1>3, <1>4 DEF LockIsExclusive, Unsaved
<1>7. NamesDiffer'
  BY <1>3 DEF NamesDiffer, UnsavedIsPrivate
<1>8. UnsavedIsPrivate'
  BY <1>1, <1>3 DEF UnsavedIsPrivate, Unsaved
<1>9. PlainIsLocked'
  BY <1>1, <1>2, <1>4 DEF PlainIsLocked
<1> QED
  BY <1>5, <1>6, <1>7, <1>8, <1>9

LEMMA CloseFileKeeps ==
    ASSUME IInv, NEW u \in Users, CloseFile(u)
    PROVE  IInv'
<1> USE FileAssumption, SharedAssumption DEF IInv, TypeOK, CloseFile
<1>1. /\ handle' \in [Users -> Handles]
      /\ handle'[u].kind = "none" /\ handle'[u].file = NoFile
      /\ \A v \in Users \ {u} : handle'[v] = handle[v]
  BY DEF Handles, Closed
<1>2. TypeOK'
  BY <1>1 DEF Collected
<1>3. LockIsExclusive' /\ NamesDiffer'
  BY DEF LockIsExclusive, NamesDiffer
<1>4. UnsavedIsPrivate' /\ PlainIsLocked'
  BY <1>1 DEF UnsavedIsPrivate, Unsaved, PlainIsLocked
<1> QED
  BY <1>2, <1>3, <1>4

LEMMA OpenFileKeeps ==
    ASSUME IInv, NEW u \in Users, NEW n \in Names, Idle(u), OpenFile(u, n),
           n \in AtomicNames \/ (n = PlainName /\ lock[u] = LockName)
    PROVE  IInv'
<1> USE FileAssumption, SharedAssumption DEF IInv, TypeOK, Idle, OpenFile
<1>1. /\ handle' \in [Users -> Handles]
      /\ handle'[u].kind = "in" /\ handle'[u].file = files[n]
      /\ \A v \in Users \ {u} : handle'[v] = handle[v]
  BY DEF Handles, Closed
<1>2. TypeOK'
  BY <1>1
<1>3. LockIsExclusive' /\ NamesDiffer'
  BY DEF LockIsExclusive, NamesDiffer
<1>4. UnsavedIsPrivate'
  BY <1>1 DEF UnsavedIsPrivate, Unsaved
<1>5. PlainIsLocked'
  BY <1>1 DEF PlainIsLocked, NamesDiffer
<1> QED
  BY <1>2, <1>3, <1>4, <1>5

LEMMA ReadKeeps ==
    ASSUME IInv, NEW u \in Users, Read(u)
    PROVE  IInv'
<1> USE FileAssumption, SharedAssumption DEF IInv, TypeOK, Read
<1>1. /\ handle' \in [Users -> Handles]
      /\ handle'[u].kind = "in" /\ handle'[u].file = handle[u].file
      /\ \A v \in Users \ {u} : handle'[v] = handle[v]
  BY DEF Handles
<1>2. TypeOK'
  BY <1>1
<1>3. LockIsExclusive' /\ NamesDiffer'
  BY DEF LockIsExclusive, NamesDiffer
<1>4. UnsavedIsPrivate' /\ PlainIsLocked'
  BY <1>1 DEF UnsavedIsPrivate, Unsaved, PlainIsLocked
<1> QED
  BY <1>2, <1>3, <1>4

LEMMA LockKeeps ==
    ASSUME IInv, NEW u \in Users, Lock(u, LockName)
    PROVE  IInv'
<1> USE FileAssumption, SharedAssumption DEF IInv, TypeOK, Lock
<1>1. PICK f \in MemFiles : New(f) /\ files' = [files EXCEPT ![LockName] = f]
  OBVIOUS
<1>2. /\ files' \in [Names -> MemFiles \cup {NoFile}]
      /\ files'[LockName] = f
      /\ \A n \in Names \ {LockName} : files'[n] = files[n]
  BY <1>1
<1>3. \A n \in Names : files[n] # f
  BY <1>1 DEF New, Unused
<1>4. \A v \in Users : handle[v].file # f
  BY <1>1 DEF New, Unused
<1>5. TypeOK'
  BY <1>2
<1>6. LockIsExclusive'
  BY <1>2 DEF LockIsExclusive
<1>7. NamesDiffer'
  BY <1>2, <1>3 DEF NamesDiffer
<1>8. UnsavedIsPrivate'
  BY <1>2, <1>4 DEF UnsavedIsPrivate, Unsaved
<1>9. PlainIsLocked'
  BY <1>2 DEF PlainIsLocked
<1> QED
  BY <1>5, <1>6, <1>7, <1>8, <1>9

LEMMA UnlockKeeps ==
    ASSUME IInv, NEW u \in Users, Idle(u), Unlock(u)
    PROVE  IInv'
<1> USE FileAssumption, SharedAssumption DEF IInv, TypeOK, Idle, Unlock, RemoveFile
<1>1. lock[u] = LockName /\ files' = [files EXCEPT ![LockName] = NoFile]
  BY DEF LockIsExclusive
<1>2. /\ files' \in [Names -> MemFiles \cup {NoFile}]
      /\ files'[LockName] = NoFile
      /\ \A n \in Names \ {LockName} : files'[n] = files[n]
  BY <1>1
<1>3. TypeOK'
  BY <1>2 DEF Collected
<1>4. LockIsExclusive'
  BY <1>1, <1>2 DEF LockIsExclusive
<1>5. NamesDiffer'
  BY <1>2 DEF NamesDiffer
<1>6. UnsavedIsPrivate'
  BY <1>2 DEF UnsavedIsPrivate, Unsaved
<1>7. PlainIsLocked'
  BY <1>2 DEF PlainIsLocked
<1> QED
  BY <1>3, <1>4, <1>5, <1>6, <1>7

LEMMA RenameKeeps ==
    ASSUME IInv, NEW m \in AtomicNames, NEW n \in AtomicNames, Rename(m, n)
    PROVE  IInv'
<1> USE FileAssumption, SharedAssumption DEF IInv, TypeOK, Rename
<1>1. /\ files' \in [Names -> MemFiles \cup {NoFile}]
      /\ \A k \in Names : files'[k] = IF k = n THEN files[m] ELSE IF k = m THEN NoFile ELSE files[k]
      /\ files'[PlainName] = files[PlainName] /\ files'[LockName] = files[LockName]
  OBVIOUS
<1>2. TypeOK'
  BY <1>1 DEF Collected
<1>3. LockIsExclusive'
  BY <1>1 DEF LockIsExclusive
<1>4. NamesDiffer'
  BY <1>1 DEF NamesDiffer
<1>5. UnsavedIsPrivate'
  BY <1>1 DEF UnsavedIsPrivate, Unsaved
<1>6. PlainIsLocked'
  BY <1>1 DEF PlainIsLocked
<1> QED
  BY <1>2, <1>3, <1>4, <1>5, <1>6

LEMMA RemoveFileKeeps ==
    ASSUME IInv, NEW n \in AtomicNames, RemoveFile(n), UNCHANGED lock
    PROVE  IInv'
<1> USE FileAssumption, SharedAssumption DEF IInv, TypeOK, RemoveFile
<1>1. /\ files' \in [Names -> MemFiles \cup {NoFile}]
      /\ \A k \in Names : files'[k] = IF k = n THEN NoFile ELSE files[k]
      /\ files'[PlainName] = files[PlainName] /\ files'[LockName] = files[LockName]
  OBVIOUS
<1>2. TypeOK'
  BY <1>1 DEF Collected
<1>3. LockIsExclusive'
  BY <1>1 DEF LockIsExclusive
<1>4. NamesDiffer'
  BY <1>1 DEF NamesDiffer
<1>5. UnsavedIsPrivate'
  BY <1>1 DEF UnsavedIsPrivate, Unsaved
<1>6. PlainIsLocked'
  BY <1>1 DEF PlainIsLocked
<1> QED
  BY <1>2, <1>3, <1>4, <1>5, <1>6

LEMMA StepKeeps == IInv /\ [Next]_vars => IInv'
<1> SUFFICES ASSUME IInv, [Next]_vars PROVE IInv'
  OBVIOUS
<1>1. CASE UNCHANGED fsVars
  BY <1>1 DEF IInv, TypeOK, LockIsExclusive, NamesDiffer, UnsavedIsPrivate, Unsaved,
       PlainIsLocked, fsVars
<1>2. CASE Shared
  BY <1>2, RenameKeeps, RemoveFileKeeps DEF Shared
<1>3. ASSUME NEW u \in Users, StepOf(u) PROVE IInv'
  <2>1. CASE Idle(u) /\ \E n \in AtomicNames : CreateAtomicFile(u, n)
    BY <2>1, CreateAtomicKeeps
  <2>2. CASE Idle(u) /\ lock[u] = LockName /\ CreateFile(u, PlainName, TRUE)
    BY <2>2, CreateFileKeeps
  <2>3. CASE Writing(u) /\ \E piece : Write(u, piece)
    BY <2>3, WriteKeeps
  <2>4. CASE Commit(u) \/ CloseFile(u) \/ Read(u) \/ Lock(u, LockName)
    BY <2>4, CommitKeeps, CloseFileKeeps, ReadKeeps, LockKeeps
  <2>5. CASE Idle(u) /\ \E n \in AtomicNames : OpenFile(u, n)
    BY <2>5, OpenFileKeeps, SharedAssumption
  <2>6. CASE Idle(u) /\ lock[u] = LockName /\ OpenFile(u, PlainName)
    BY <2>6, OpenFileKeeps, SharedAssumption
  <2>7. CASE Idle(u) /\ Unlock(u)
    BY <2>7, UnlockKeeps
  <2> QED
    BY <1>3, <2>1, <2>2, <2>3, <2>4, <2>5, <2>6, <2>7 DEF StepOf
<1> QED
  BY <1>1, <1>2, <1>3, StepsOfDirectory

LEMMA InvHolds == Spec => []IInv
BY InitHolds, StepKeeps, PTL DEF Spec

-----------------------------------------------------------------------------
\* memFS.Lock gives a lock to one user at a time, and the name of a lock that is
\* held stays taken, however many users and locks there are.
THEOREM LocksExclude == Spec => []LockIsExclusive
BY InvHolds, PTL DEF IInv

\* What SparseBitSet.Read is given is one version of a file: while a reader has
\* it open nothing writes to it, neither a file that was saved atomically and
\* may have lost its name since, nor the one that is overwritten under the lock.
ReadersSeeOneVersion ==
    [][\A u \in Users :
          handle[u].kind = "in" /\ handle'[u].kind = "in"
          => data'[handle[u].file] = data[handle[u].file]]_vars

\* Nobody writes to a file that somebody reads.
LEMMA WritersAreNotReaders ==
    ASSUME IInv, NEW u \in Users, NEW v \in Users, handle[v].kind = "in",
           handle[u].kind = "out" \/ Unsaved(u)
    PROVE  handle[u].file # handle[v].file
<1>1. CASE Unsaved(u)
  BY <1>1 DEF IInv, UnsavedIsPrivate, Unsaved
<1>2. CASE handle[u].kind = "out"
  <2>1. LockName # NoName
    BY FileAssumption, SharedAssumption
  <2> QED
    BY <1>2, <2>1 DEF IInv, PlainIsLocked, LockIsExclusive
<1> QED
  BY <1>1, <1>2

LEMMA StepKeepsVersion ==
    ASSUME IInv, [Next]_vars, NEW v \in Users, handle[v].kind = "in", handle'[v].kind = "in"
    PROVE  data'[handle[v].file] = data[handle[v].file]
<1> DEFINE g == handle[v].file
           Same == data'[g] = data[g]
<1>1. g \in MemFiles /\ DOMAIN data = MemFiles
  BY DEF IInv, TypeOK
<1>2. ASSUME handle'[v].file = g, data' = Collected(data) PROVE Same
  BY <1>1, <1>2 DEF Collected
<1>3. CASE UNCHANGED fsVars
  BY <1>3 DEF fsVars
<1>4. CASE Shared
  BY <1>2, <1>4 DEF Shared, Rename, RemoveFile
<1>5. ASSUME NEW u \in Users, StepOf(u) PROVE Same
  <2>1. CASE \E n \in AtomicNames : CreateAtomicFile(u, n)
    BY <2>1 DEF CreateAtomicFile
  <2>2. CASE Idle(u) /\ lock[u] = LockName /\ CreateFile(u, PlainName, TRUE)
    <3>1. PICK f \in MemFiles :
            /\ IF files[PlainName] = NoFile THEN New(f) ELSE f = files[PlainName]
            /\ data' = [data EXCEPT ![f] = <<>>]
      BY <2>2 DEF CreateFile
    <3>2. CASE files[PlainName] = NoFile
      BY <3>1, <3>2 DEF New, Unused
    <3>3. CASE f = files[PlainName]
      <4>1. LockName # NoName
        BY FileAssumption, SharedAssumption
      <4> QED
        BY <1>1, <2>2, <3>1, <3>3, <4>1 DEF IInv, PlainIsLocked, LockIsExclusive, Idle
    <3> QED
      BY <1>1, <3>1, <3>2, <3>3
  <2>3. CASE Writing(u) /\ \E piece : Write(u, piece)
    <3>1. handle[u].file # g
      BY <2>3, WritersAreNotReaders DEF Writing, Unsaved
    <3> QED
      BY <1>1, <2>3, <3>1 DEF Write
  <2>4. CASE Commit(u)
    <3>1. u # v /\ handle'[v] = handle[v]
      BY <2>4 DEF Commit, IInv, TypeOK
    <3> QED
      BY <1>2, <2>4, <3>1 DEF Commit
  <2>5. CASE CloseFile(u)
    <3>1. u # v /\ handle'[v] = handle[v]
      BY <2>5 DEF CloseFile, Closed, IInv, TypeOK
    <3> QED
      BY <1>2, <2>5, <3>1 DEF CloseFile
  <2>6. CASE Read(u) \/ Lock(u, LockName) \/ \E n : OpenFile(u, n)
    BY <2>6 DEF Read, Lock, OpenFile
  <2>7. CASE Unlock(u)
    BY <1>2, <2>7 DEF Unlock, RemoveFile
  <2> QED
    BY <1>5, <2>1, <2>2, <2>3, <2>4, <2>5, <2>6, <2>7 DEF StepOf
<1> QED
  BY <1>3, <1>4, <1>5, StepsOfDirectory

\* SparseBitSet.Read is given one version of a file, for every number of users
\* that save, overwrite, rename and remove files meanwhile.
THEOREM OneVersionIsRead == Spec => ReadersSeeOneVersion
<1>1. IInv /\ [Next]_vars => [\A u \in Users :
          handle[u].kind = "in" /\ handle'[u].kind = "in"
          => data'[handle[u].file] = data[handle[u].file]]_vars
  BY StepKeepsVersion
<1> QED
  BY <1>1, InvHolds, PTL DEF Spec, ReadersSeeOneVersion

-----------------------------------------------------------------------------
(***************************************************************************)
(* What is loaded is what was saved.  The invariant says of the sets that  *)
(* their blocks are their own, of the files that they hold the beginning   *)
(* of a written set, of a writer how far it is with its set, and of a      *)
(* reader that it has what it has read.                                    *)
(***************************************************************************)

Bits == 0..(BlockBits - 1)
Pieces == {"count", "index", "block"} \X (Nat \cup SUBSET Bits)

SetsOK ==
    /\ blocks = [s \in Users |-> [i \in DOMAIN blocks[s] |-> <<s, i>>]]
    /\ \A s \in Users : DOMAIN blocks[s] \subseteq Indexes
    /\ heap \in [Addresses -> SUBSET Bits]
    /\ \A s \in Users, i \in Indexes :
         /\ heap[<<s, i>>] # {} => i \in DOMAIN blocks[s]
         /\ \A k \in heap[<<s, i>>] : i * BlockBits + k \in Universe

\* The chunks are the first of those of a set with n blocks.
Begins(chunks, n) ==
    /\ n \in Nat /\ Len(chunks) <= 1 + 2 * n
    /\ \A k \in 1..n : 2 * k <= Len(chunks) => chunks[2 * k][2] \in Indexes
    /\ \A k \in 1..n : 2 * k + 1 <= Len(chunks) =>
         /\ chunks[2 * k + 1][2] \subseteq Bits
         /\ \A bit \in chunks[2 * k + 1][2] : chunks[2 * k][2] * BlockBits + bit \in Universe
    /\ \A k, l \in 1..n :
         2 * k <= Len(chunks) /\ 2 * l <= Len(chunks) /\ chunks[2 * k][2] = chunks[2 * l][2] => k = l

FilesOK ==
    /\ data \in [MemFiles -> Seq(Pieces)]
    /\ \A f \in MemFiles : data[f] = <<>> \/ Begins(data[f], data[f][1][2])
    /\ \A f \in MemFiles : Unused(f) => data[f] = <<>>

WriterOK(u) ==
    LET chunks == data[handle[u].file]
    IN  /\ Len(chunks) <= Len(Written(u))
        /\ \A p \in 1..Len(chunks) : chunks[p] = Written(u)[p]

\* A reader that has the number of blocks has the complete ones among what it
\* has read, and expects the others.
HasRead(u, chunks, p) ==
    /\ left[u] = chunks[1][2] - (p - 1) \div 2
    /\ DOMAIN blocks[u] = {chunks[2 * k][2] : k \in 1..(p \div 2)}
    /\ \A k \in 1..((p - 1) \div 2) : heap[<<u, chunks[2 * k][2]>>] = chunks[2 * k + 1][2]
    /\ p % 2 = 0 => index[u] = chunks[p][2]

ReaderOK(u) ==
    LET chunks == data[handle[u].file]
        p == handle[u].pos
    IN  /\ p <= Len(chunks)
        /\ p > 0 => HasRead(u, chunks, p)

ReadTypeOK ==
    /\ left \in [Users -> Int]
    /\ index \in [Users -> Nat]
    /\ failed \in [Users -> BOOLEAN]

UserOK(u) ==
    /\ Writing(u) => WriterOK(u)
    /\ handle[u].kind = "in" => ReaderOK(u)

UsersOK == \A u \in Users : UserOK(u)

RInv == IInv /\ SetsOK /\ FilesOK /\ ReadTypeOK /\ UsersOK

-----------------------------------------------------------------------------
(* Blocks and bits                                                         *)

\* An integer has one block and one bit.
LEMMA Quotient ==
    ASSUME NEW x \in Nat, NEW i \in Int, i = x \div BlockBits, NEW k \in Int, k = x % BlockBits
    PROVE  i \in Nat /\ k \in Bits /\ x = i * BlockBits + k
<1>1. BlockBits \in Nat \ {0}
  BY SetAssumption
<1>2. x = i * BlockBits + k
  BY <1>1, Z3
<1>3. k \in Bits
  BY <1>1 DEF Bits
<1>4. i \in Nat
  BY <1>1
<1> QED
  BY <1>2, <1>3, <1>4

\* Blocks do not overlap.
LEMMA BlocksAreApart ==
    ASSUME NEW i \in Nat, NEW j \in Nat, i < j
    PROVE  (j * BlockBits) - (i * BlockBits) >= BlockBits
<1> DEFINE B == BlockBits
<1>1. B \in Nat \ {0}
  BY SetAssumption
<1>2. PICK d \in Nat : j = i + 1 + d
  <2>1. j - i - 1 \in Nat /\ j = i + 1 + (j - i - 1)
    OBVIOUS
  <2> QED
    BY <2>1
<1>3. d * B \in Nat
  BY <1>1
<1>4. j * B = (i * B) + B + (d * B)
  BY <1>1, <1>2
<1>5. i * B \in Nat
  BY <1>1
<1> QED
  BY <1>1, <1>3, <1>4, <1>5

LEMMA BlockAndBit ==
    /\ \A x \in Nat : \E i \in Nat, k \in Bits :
         i = x \div BlockBits /\ k = x % BlockBits /\ x = i * BlockBits + k
    /\ \A i, j \in Nat : \A k, l \in Bits :
         i * BlockBits + k = j * BlockBits + l => i = j /\ k = l
<1> DEFINE B == BlockBits
<1>1. B \in Nat \ {0}
  BY SetAssumption
<1>2. ASSUME NEW x \in Nat
      PROVE  \E i \in Nat, k \in Bits : i = x \div B /\ k = x % B /\ x = i * B + k
  <2>1. x \div B \in Int /\ x % B \in Int
    BY <1>1
  <2>2. \A i, k \in Int : i = x \div B /\ k = x % B => i \in Nat /\ k \in Bits /\ x = i * B + k
    BY Quotient
  <2> HIDE DEF B
  <2> QED
    BY <2>1, <2>2
<1>3. ASSUME NEW i \in Nat, NEW j \in Nat, i < j PROVE (j * B) - (i * B) >= B
  BY <1>3, BlocksAreApart
<1>4. ASSUME NEW i \in Nat, NEW j \in Nat, NEW k \in Bits, NEW l \in Bits,
             i * B + k = j * B + l
      PROVE  i = j /\ k = l
  <2>1. i * B \in Nat /\ j * B \in Nat
    BY <1>1
  <2>2. ~(i < j) /\ ~(j < i)
    BY <1>1, <1>3, <1>4, <2>1 DEF Bits
  <2>3. i = j
    BY <2>2
  <2> QED
    BY <1>4, <2>1, <2>3 DEF Bits
<1> QED
  BY <1>2, <1>4

\* The elements of a set are those whose bits are in its blocks.
LEMMA ElementsHaveBits ==
    ASSUME NEW s \in Users, SetsOK
    PROVE  /\ \A i \in DOMAIN blocks[s] : i \in Indexes /\ blocks[s][i] = <<s, i>> /\ BlockOf(s, i) = heap[<<s, i>>]
           /\ \A i : Target(s, i) = <<s, i>>
           /\ Elements(s) = {x \in Universe : x % BlockBits \in heap[<<s, x \div BlockBits>>]}
<1>1. \A i \in DOMAIN blocks[s] : i \in Indexes /\ blocks[s][i] = <<s, i>>
  BY DEF SetsOK
<1>2. \A i \in DOMAIN blocks[s] : BlockOf(s, i) = heap[<<s, i>>]
  BY <1>1 DEF BlockOf
<1>3. \A i : Target(s, i) = <<s, i>>
  BY <1>1 DEF Target
<1>4. ASSUME NEW x \in Elements(s) PROVE x \in Universe /\ x % BlockBits \in heap[<<s, x \div BlockBits>>]
  <2>1. PICK i \in DOMAIN blocks[s] : x \in {i * BlockBits + k : k \in BlockOf(s, i)}
    BY DEF Elements
  <2>2. PICK k \in BlockOf(s, i) : x = i * BlockBits + k
    BY <2>1
  <2>3. k \in heap[<<s, i>>] /\ i \in Indexes
    BY <1>1, <1>2, <2>2
  <2>4. x \in Universe /\ k \in Bits
    BY <2>2, <2>3, SharedAssumption DEF SetsOK, Addresses
  <2>5. x \in Nat /\ i \in Nat
    <3>1. PICK y \in Universe : i = y \div BlockBits
      BY <2>3 DEF Indexes
    <3>2. y \in Nat /\ x \in Nat
      BY <2>4, SetAssumption
    <3>3. PICK j \in Nat, l \in Bits : j = y \div BlockBits
      BY <3>2, BlockAndBit
    <3> QED
      BY <3>1, <3>2, <3>3
  <2>6. PICK j \in Nat, l \in Bits : j = x \div BlockBits /\ l = x % BlockBits /\ x = j * BlockBits + l
    BY <2>5, BlockAndBit
  <2>7. i * BlockBits + k = j * BlockBits + l
    BY <2>2, <2>6
  <2>8. i = j /\ k = l
    BY <2>4, <2>5, <2>6, <2>7, BlockAndBit
  <2> QED
    BY <2>3, <2>4, <2>6, <2>8, Zenon
<1>5. ASSUME NEW x \in Universe, x % BlockBits \in heap[<<s, x \div BlockBits>>] PROVE x \in Elements(s)
  <2>1. x \in Nat
    BY SetAssumption
  <2>2. PICK j \in Nat, l \in Bits : j = x \div BlockBits /\ l = x % BlockBits /\ x = j * BlockBits + l
    BY <2>1, BlockAndBit
  <2>3. j \in Indexes /\ l \in heap[<<s, j>>]
    BY <1>5, <2>2, Zenon DEF Indexes
  <2>4. j \in DOMAIN blocks[s]
    BY <2>3 DEF SetsOK
  <2>5. x \in {j * BlockBits + k : k \in BlockOf(s, j)}
    BY <1>2, <2>2, <2>3, <2>4, Zenon
  <2> QED
    BY <2>4, <2>5, Zenon DEF Elements
<1>6. Elements(s) = {x \in Universe : x % BlockBits \in heap[<<s, x \div BlockBits>>]}
  BY <1>4, <1>5, Zenon
<1> QED
  BY <1>1, <1>2, <1>3, <1>6, Zenon

BitsTell ==
    \A s \in Users : Elements(s) = {x \in Universe : x % BlockBits \in heap[<<s, x \div BlockBits>>]}

LEMMA BitsTellElements == SetsOK => BitsTell
BY ElementsHaveBits DEF BitsTell

LEMMA BitsTellElementsNext == SetsOK' => BitsTell'
BY BitsTellElements, PTL

\* The set of u gets other blocks, which are its own.
GetsBlocks(u, keys, contents) ==
    /\ keys \subseteq Indexes
    /\ contents \in [Indexes -> SUBSET Bits]
    /\ \A i \in Indexes :
         /\ contents[i] # {} => i \in keys
         /\ \A k \in contents[i] : i * BlockBits + k \in Universe
    /\ blocks' = [blocks EXCEPT ![u] = [i \in keys |-> <<u, i>>]]
    /\ DOMAIN heap' = Addresses
    /\ heap' = [a \in Addresses |-> heap'[a]]
    /\ \A v \in Users : \A i \in Indexes : heap'[<<v, i>>] = IF v = u THEN contents[i] ELSE heap[<<v, i>>]

LEMMA GetsBlocksKeeps ==
    ASSUME NEW u \in Users, NEW keys, NEW contents, SetsOK, GetsBlocks(u, keys, contents)
    PROVE  /\ SetsOK'
           /\ Elements(u)' = {x \in Universe : x % BlockBits \in contents[x \div BlockBits]}
           /\ DOMAIN blocks'[u] = keys
           /\ \A v \in Users \ {u} :
                /\ Elements(v)' = Elements(v)
                /\ blocks'[v] = blocks[v]
<1> USE DEF GetsBlocks
<1>1. DOMAIN blocks = Users /\ Addresses = Users \X Indexes
  BY SharedAssumption DEF SetsOK, Addresses
<1>2. blocks' = [s \in Users |-> [i \in DOMAIN blocks'[s] |-> <<s, i>>]]
  <2>1. blocks'[u] = [i \in keys |-> <<u, i>>]
    BY <1>1
  <2>2. \A s \in Users \ {u} : blocks'[s] = blocks[s] /\ blocks[s] = [i \in DOMAIN blocks[s] |-> <<s, i>>]
    BY <1>1 DEF SetsOK
  <2>3. DOMAIN blocks' = Users /\ blocks' = [s \in DOMAIN blocks' |-> blocks'[s]]
    BY <1>1
  <2>4. \A s \in Users : blocks'[s] = [i \in DOMAIN blocks'[s] |-> <<s, i>>]
    BY <2>1, <2>2
  <2> QED
    BY <2>3, <2>4
<1>3. \A s \in Users : DOMAIN blocks'[s] = IF s = u THEN keys ELSE DOMAIN blocks[s]
  BY <1>1
<1>4. ASSUME NEW a \in Addresses PROVE heap'[a] \in SUBSET Bits
  <2>1. PICK v \in Users, i \in Indexes : a = <<v, i>>
    BY <1>1
  <2>2. heap[<<v, i>>] \in SUBSET Bits /\ contents[i] \in SUBSET Bits
    BY <1>1, <2>1 DEF SetsOK
  <2> QED
    BY <2>1, <2>2
<1>5. heap' \in [Addresses -> SUBSET Bits]
  BY <1>4
<1>6. SetsOK'
  BY <1>2, <1>3, <1>5 DEF SetsOK
<1>7. \A x \in Universe : x \div BlockBits \in Indexes
  BY DEF Indexes
<1>8. ASSUME NEW s \in Users
      PROVE  Elements(s)' = {x \in Universe : x % BlockBits \in heap'[<<s, x \div BlockBits>>]}
  BY <1>6, BitsTellElementsNext DEF BitsTell
<1> QED
  <2>1. \A s \in Users : Elements(s) = {x \in Universe : x % BlockBits \in heap[<<s, x \div BlockBits>>]}
    BY BitsTellElements DEF BitsTell
  <2>2. ASSUME NEW v \in Users \ {u} PROVE Elements(v)' = Elements(v)
    <3>1. \A i \in Indexes : heap'[<<v, i>>] = heap[<<v, i>>]
      OBVIOUS
    <3>2. \A x \in Universe : heap'[<<v, x \div BlockBits>>] = heap[<<v, x \div BlockBits>>]
      BY <1>7, <3>1, Zenon
    <3>3. {x \in Universe : x % BlockBits \in heap'[<<v, x \div BlockBits>>]}
            = {x \in Universe : x % BlockBits \in heap[<<v, x \div BlockBits>>]}
      BY <3>2, Zenon
    <3> QED
      BY <1>8, <2>1, <3>3, Zenon
  <2>3. Elements(u)' = {x \in Universe : x % BlockBits \in contents[x \div BlockBits]}
    BY <1>7, <1>8
  <2> QED
    BY <1>1, <1>3, <1>6, <2>2, <2>3

\* What is true of a set that has been changed, and of the others.
OthersStay(u) ==
    \A v \in Users \ {u} :
        /\ Elements(v)' = Elements(v)
        /\ blocks'[v] = blocks[v]
        /\ \A i \in Indexes : heap'[<<v, i>>] = heap[<<v, i>>]

SetBecomes(u, elements) == SetsOK' /\ Elements(u)' = elements /\ OthersStay(u)

LEMMA GetsBlocksBecomes ==
    ASSUME NEW u \in Users, NEW keys, NEW contents, SetsOK, GetsBlocks(u, keys, contents)
    PROVE  SetBecomes(u, {x \in Universe : x % BlockBits \in contents[x \div BlockBits]})
<1>1. \A v \in Users \ {u}, i \in Indexes : heap'[<<v, i>>] = heap[<<v, i>>]
  BY DEF GetsBlocks
<1> QED
  BY <1>1, GetsBlocksKeeps DEF SetBecomes, OthersStay

LEMMA MakeSetGets ==
    ASSUME NEW u \in Users, NEW contents, SetsOK, MakeSet(u, contents),
           DOMAIN contents \subseteq Indexes,
           \A i \in DOMAIN contents :
               /\ contents[i] \subseteq Bits
               /\ \A k \in contents[i] : i * BlockBits + k \in Universe
    PROVE  GetsBlocks(u, DOMAIN contents,
                      [i \in Indexes |-> IF i \in DOMAIN contents THEN contents[i] ELSE {}])
<1> DEFINE keys == DOMAIN contents
           all == [i \in Indexes |-> IF i \in DOMAIN contents THEN contents[i] ELSE {}]
<1>1. Addresses = Users \X Indexes
  BY SharedAssumption DEF Addresses
<1>2. all \in [Indexes -> SUBSET Bits]
  OBVIOUS
<1>3. \A i \in Indexes : (all[i] # {} => i \in keys) /\ \A k \in all[i] : i * BlockBits + k \in Universe
  OBVIOUS
<1>4. \A v \in Users, i \in Indexes : heap'[<<v, i>>] = IF v = u THEN all[i] ELSE heap[<<v, i>>]
  BY <1>1 DEF MakeSet
<1>5. heap' = [a \in Addresses |-> heap'[a]] /\ DOMAIN heap' = Addresses
  BY DEF MakeSet
<1>6. blocks' = [blocks EXCEPT ![u] = [i \in keys |-> <<u, i>>]]
  BY DEF MakeSet
<1> QED
  BY <1>2, <1>3, <1>4, <1>5, <1>6 DEF GetsBlocks

LEMMA KeepBlocksGets ==
    ASSUME NEW u \in Users, NEW keep, SetsOK, KeepBlocks(u, keep),
           keep \subseteq DOMAIN blocks[u], Used(u) \subseteq keep
    PROVE  GetsBlocks(u, keep, [i \in Indexes |-> heap[<<u, i>>]])
<1> DEFINE all == [i \in Indexes |-> heap[<<u, i>>]]
<1>1. Addresses = Users \X Indexes
  BY SharedAssumption DEF Addresses
<1>2. all \in [Indexes -> SUBSET Bits]
  BY <1>1 DEF SetsOK
<1>3. ASSUME NEW i \in Indexes
      PROVE  (all[i] # {} => i \in keep) /\ \A k \in all[i] : i * BlockBits + k \in Universe
  <2>1. all[i] # {} => i \in DOMAIN blocks[u] /\ BlockOf(u, i) = heap[<<u, i>>]
    BY <1>3, ElementsHaveBits DEF SetsOK
  <2> QED
    BY <1>3, <2>1 DEF SetsOK, Used
<1>4. ASSUME NEW v \in Users, NEW i \in Indexes
      PROVE  heap'[<<v, i>>] = IF v = u THEN all[i] ELSE heap[<<v, i>>]
  <2>1. heap'[<<v, i>>] = IF \E j \in DOMAIN blocks[u] \ keep : <<v, i>> = blocks[u][j] THEN {} ELSE heap[<<v, i>>]
    BY <1>1, <1>4 DEF KeepBlocks
  <2>2. ASSUME NEW j \in DOMAIN blocks[u] \ keep, <<v, i>> = blocks[u][j]
        PROVE  v = u /\ heap[<<v, i>>] = {}
    <3>1. blocks[u][j] = <<u, j>> /\ j \in Indexes /\ BlockOf(u, j) = heap[<<u, j>>]
      BY ElementsHaveBits
    <3>2. v = u /\ j = i
      BY <2>2, <3>1
    <3> QED
      BY <2>2, <3>1, <3>2 DEF Used
  <2> QED
    BY <1>4, <2>1, <2>2
<1>5. heap' = [a \in Addresses |-> heap'[a]] /\ DOMAIN heap' = Addresses
  BY DEF KeepBlocks
<1>6. blocks' = [blocks EXCEPT ![u] = [i \in keep |-> <<u, i>>]]
  <2>1. [i \in keep |-> blocks[u][i]] = [i \in keep |-> <<u, i>>]
    BY ElementsHaveBits
  <2> QED
    BY <2>1 DEF KeepBlocks
<1>7. keep \subseteq Indexes
  BY ElementsHaveBits
<1> QED
  BY <1>2, <1>3, <1>4, <1>5, <1>6, <1>7 DEF GetsBlocks

\* Deleting blocks that are empty leaves the set as it is.
LEMMA KeepBlocksBecomes ==
    ASSUME NEW u \in Users, NEW keep, SetsOK, KeepBlocks(u, keep),
           keep \subseteq DOMAIN blocks[u], Used(u) \subseteq keep
    PROVE  SetBecomes(u, Elements(u)) /\ \A i \in Indexes : heap'[<<u, i>>] = heap[<<u, i>>]
<1> DEFINE all == [i \in Indexes |-> heap[<<u, i>>]]
<1>1. GetsBlocks(u, keep, all)
  BY KeepBlocksGets
<1>2. {x \in Universe : x % BlockBits \in all[x \div BlockBits]} = Elements(u)
  <2>1. \A x \in Universe : x \div BlockBits \in Indexes
    BY DEF Indexes
  <2>2. \A x \in Universe : all[x \div BlockBits] = heap[<<u, x \div BlockBits>>]
    BY <2>1, Zenon
  <2>3. {x \in Universe : x % BlockBits \in all[x \div BlockBits]}
          = {x \in Universe : x % BlockBits \in heap[<<u, x \div BlockBits>>]}
    BY <2>2, Zenon
  <2> QED
    BY <2>3, ElementsHaveBits, Zenon
<1>3. SetBecomes(u, {x \in Universe : x % BlockBits \in all[x \div BlockBits]})
  BY <1>1, GetsBlocksBecomes, Zenon
<1>4. \A i \in Indexes : heap'[<<u, i>>] = heap[<<u, i>>]
  BY <1>1 DEF GetsBlocks
<1> QED
  BY <1>2, <1>3, <1>4, Zenon

\* Adding an element adds it to the set, and removing it removes it.
LEMMA AddBecomes ==
    ASSUME NEW u \in Users, NEW x \in Universe, SetsOK, AddElement(u, x)
    PROVE  SetBecomes(u, Elements(u) \cup {x})
<1>0. x \in Nat /\ Addresses = Users \X Indexes /\ DOMAIN blocks = Users
  BY SetAssumption, SharedAssumption DEF Addresses, SetsOK
<1>1. PICK i \in Nat, k \in Bits : i = x \div BlockBits /\ k = x % BlockBits /\ x = i * BlockBits + k
  BY <1>0, BlockAndBit
<1>2. i \in Indexes
  BY <1>1 DEF Indexes
<1>3. /\ blocks' = [blocks EXCEPT ![u] = [j \in DOMAIN blocks[u] \cup {i} |-> Target(u, j)]]
      /\ heap' = [heap EXCEPT ![Target(u, i)] = heap[Target(u, i)] \cup {k}]
  BY <1>1, Zenon DEF AddElement
<1>4. \A j : Target(u, j) = <<u, j>>
  BY ElementsHaveBits
<1> DEFINE keys == DOMAIN blocks[u] \cup {i}
           all == [j \in Indexes |-> IF j = i THEN heap[<<u, i>>] \cup {k} ELSE heap[<<u, j>>]]
<1>5. heap' = [heap EXCEPT ![<<u, i>>] = heap[<<u, i>>] \cup {k}]
  BY <1>3, <1>4
<1>6. blocks' = [blocks EXCEPT ![u] = [j \in keys |-> <<u, j>>]]
  BY <1>3, <1>4, Zenon
<1>7. all \in [Indexes -> SUBSET Bits]
  BY <1>0, <1>1, <1>2 DEF SetsOK
<1>8. \A j \in Indexes : (all[j] # {} => j \in keys) /\ \A l \in all[j] : j * BlockBits + l \in Universe
  BY <1>0, <1>1, <1>2 DEF SetsOK
<1>9. /\ \A v \in Users, j \in Indexes : heap'[<<v, j>>] = IF v = u THEN all[j] ELSE heap[<<v, j>>]
      /\ heap' = [a \in Addresses |-> heap'[a]] /\ DOMAIN heap' = Addresses
  BY <1>0, <1>2, <1>5 DEF SetsOK
<1>10. keys \subseteq Indexes
  BY <1>2 DEF SetsOK
<1>11. GetsBlocks(u, keys, all)
  BY <1>6, <1>7, <1>8, <1>9, <1>10 DEF GetsBlocks
<1>12. SetBecomes(u, {y \in Universe : y % BlockBits \in all[y \div BlockBits]})
  BY <1>11, GetsBlocksBecomes, Zenon
<1>13. ASSUME NEW y \in Universe
       PROVE  y % BlockBits \in all[y \div BlockBits] <=> y \in Elements(u) \cup {x}
  <2>1. y \in Elements(u) <=> y % BlockBits \in heap[<<u, y \div BlockBits>>]
    BY ElementsHaveBits, Zenon
  <2>2. PICK j \in Nat, l \in Bits : j = y \div BlockBits /\ l = y % BlockBits /\ y = j * BlockBits + l
    BY BlockAndBit, SetAssumption
  <2>3. j \in Indexes
    BY <2>2 DEF Indexes
  <2>4. y = x <=> j = i /\ l = k
    BY <1>1, <2>2, BlockAndBit, Zenon
  <2>5. l \in all[j] <=> l \in heap[<<u, j>>] \/ (j = i /\ l = k)
    BY <2>3
  <2> QED
    BY <2>1, <2>2, <2>4, <2>5, Zenon
<1>14. Elements(u) \subseteq Universe
  BY ElementsHaveBits
<1>15. {y \in Universe : y % BlockBits \in all[y \div BlockBits]} = Elements(u) \cup {x}
  BY <1>13, <1>14, Zenon
<1> QED
  BY <1>12, <1>15, Zenon

LEMMA RemoveBecomes ==
    ASSUME NEW u \in Users, NEW x \in Universe, SetsOK, RemoveElement(u, x)
    PROVE  SetBecomes(u, Elements(u) \ {x})
<1>0. x \in Nat /\ Addresses = Users \X Indexes /\ DOMAIN blocks = Users
  BY SetAssumption, SharedAssumption DEF Addresses, SetsOK
<1>1. PICK i \in Nat, k \in Bits : i = x \div BlockBits /\ k = x % BlockBits /\ x = i * BlockBits + k
  BY <1>0, BlockAndBit
<1>2. i \in Indexes
  BY <1>1 DEF Indexes
<1>3. /\ i \in DOMAIN blocks[u] /\ blocks' = blocks
      /\ heap' = [heap EXCEPT ![blocks[u][i]] = heap[blocks[u][i]] \ {k}]
  BY <1>1, Zenon DEF RemoveElement
<1> DEFINE keys == DOMAIN blocks[u]
           all == [j \in Indexes |-> IF j = i THEN heap[<<u, i>>] \ {k} ELSE heap[<<u, j>>]]
<1>5. heap' = [heap EXCEPT ![<<u, i>>] = heap[<<u, i>>] \ {k}]
  BY <1>3, ElementsHaveBits
<1>6. blocks' = [blocks EXCEPT ![u] = [j \in keys |-> <<u, j>>]]
  <2>1. blocks[u] = [j \in keys |-> <<u, j>>] /\ blocks = [s \in Users |-> blocks[s]]
    BY DEF SetsOK
  <2> QED
    BY <1>3, <2>1
<1>7. all \in [Indexes -> SUBSET Bits]
  BY <1>0, <1>1, <1>2 DEF SetsOK
<1>8. \A j \in Indexes : (all[j] # {} => j \in keys) /\ \A l \in all[j] : j * BlockBits + l \in Universe
  BY <1>0, <1>1, <1>2, <1>3 DEF SetsOK
<1>9. /\ \A v \in Users, j \in Indexes : heap'[<<v, j>>] = IF v = u THEN all[j] ELSE heap[<<v, j>>]
      /\ heap' = [a \in Addresses |-> heap'[a]] /\ DOMAIN heap' = Addresses
  BY <1>0, <1>2, <1>5 DEF SetsOK
<1>10. keys \subseteq Indexes
  BY DEF SetsOK
<1>11. GetsBlocks(u, keys, all)
  BY <1>6, <1>7, <1>8, <1>9, <1>10 DEF GetsBlocks
<1>12. SetBecomes(u, {y \in Universe : y % BlockBits \in all[y \div BlockBits]})
  BY <1>11, GetsBlocksBecomes, Zenon
<1>13. ASSUME NEW y \in Universe
       PROVE  y % BlockBits \in all[y \div BlockBits] <=> y \in Elements(u) \ {x}
  <2>1. y \in Elements(u) <=> y % BlockBits \in heap[<<u, y \div BlockBits>>]
    BY ElementsHaveBits, Zenon
  <2>2. PICK j \in Nat, l \in Bits : j = y \div BlockBits /\ l = y % BlockBits /\ y = j * BlockBits + l
    BY BlockAndBit, SetAssumption
  <2>3. j \in Indexes
    BY <2>2 DEF Indexes
  <2>4. y = x <=> j = i /\ l = k
    BY <1>1, <2>2, BlockAndBit, Zenon
  <2>5. l \in all[j] <=> l \in heap[<<u, j>>] /\ ~(j = i /\ l = k)
    BY <2>3
  <2> QED
    BY <2>1, <2>2, <2>4, <2>5, Zenon
<1>14. Elements(u) \subseteq Universe
  BY ElementsHaveBits
<1>15. {y \in Universe : y % BlockBits \in all[y \div BlockBits]} = Elements(u) \ {x}
  BY <1>13, <1>14, Zenon
<1> QED
  BY <1>12, <1>15, Zenon

\* The union is copied block by block: nothing is shared afterwards.
LEMMA UnionBecomes ==
    ASSUME NEW u \in Users, NEW v \in Users, SetsOK, Union(u, v)
    PROVE  SetBecomes(u, Elements(u) \cup Elements(v))
<1>0. Addresses = Users \X Indexes /\ DOMAIN blocks = Users
  BY SharedAssumption DEF Addresses, SetsOK
<1> DEFINE keys == DOMAIN blocks[u] \cup DOMAIN blocks[v]
           all == [j \in Indexes |-> heap[<<u, j>>] \cup heap[<<v, j>>]]
<1>1. \A j : Target(u, j) = <<u, j>>
  BY ElementsHaveBits
<1>2. blocks' = [blocks EXCEPT ![u] = [j \in keys |-> <<u, j>>]]
  BY <1>1, Zenon DEF Union
<1>3. keys \subseteq Indexes /\ all \in [Indexes -> SUBSET Bits]
  BY <1>0 DEF SetsOK
<1>4. \A j \in Indexes : (all[j] # {} => j \in keys) /\ \A l \in all[j] : j * BlockBits + l \in Universe
  BY <1>0 DEF SetsOK
<1>5. heap' = [a \in Addresses |-> heap'[a]] /\ DOMAIN heap' = Addresses
  BY DEF Union
<1>6. ASSUME NEW w \in Users, NEW j \in Indexes
      PROVE  heap'[<<w, j>>] = IF w = u THEN all[j] ELSE heap[<<w, j>>]
  <2> DEFINE Met == {i \in DOMAIN blocks[v] : Target(u, i) = <<w, j>>}
  <2>1. heap'[<<w, j>>] = heap[<<w, j>>] \cup UNION {BlockOf(v, i) : i \in Met}
    BY <1>0 DEF Union
  <2>2. \A i \in Met : w = u /\ i = j /\ BlockOf(v, i) = heap[<<v, j>>]
    BY <1>1, ElementsHaveBits
  <2>3. CASE w = u /\ j \in DOMAIN blocks[v]
    <3>1. j \in Met
      BY <1>1, <2>3
    <3>2. UNION {BlockOf(v, i) : i \in Met} = heap[<<v, j>>]
      BY <2>2, <3>1
    <3> QED
      BY <2>1, <2>3, <3>2
  <2>4. CASE w # u
    <3>1. Met = {}
      BY <2>2, <2>4
    <3> QED
      BY <2>1, <2>4, <3>1
  <2>5. CASE w = u /\ j \notin DOMAIN blocks[v]
    <3>1. Met = {}
      BY <2>2, <2>5
    <3>2. heap[<<v, j>>] = {}
      BY <2>5 DEF SetsOK
    <3> QED
      BY <2>1, <2>5, <3>1, <3>2
  <2> QED
    BY <2>3, <2>4, <2>5
<1>7. GetsBlocks(u, keys, all)
  BY <1>2, <1>3, <1>4, <1>5, <1>6 DEF GetsBlocks
<1>8. SetBecomes(u, {y \in Universe : y % BlockBits \in all[y \div BlockBits]})
  BY <1>7, GetsBlocksBecomes, Zenon
<1>9. ASSUME NEW y \in Universe
      PROVE  y % BlockBits \in all[y \div BlockBits] <=> y \in Elements(u) \cup Elements(v)
  <2>1. /\ y \in Elements(u) <=> y % BlockBits \in heap[<<u, y \div BlockBits>>]
        /\ y \in Elements(v) <=> y % BlockBits \in heap[<<v, y \div BlockBits>>]
    BY ElementsHaveBits, Zenon
  <2>2. y \div BlockBits \in Indexes
    BY DEF Indexes
  <2>3. all[y \div BlockBits] = heap[<<u, y \div BlockBits>>] \cup heap[<<v, y \div BlockBits>>]
    BY <2>2, Zenon
  <2> QED
    BY <2>1, <2>3, Zenon
<1>10. Elements(u) \subseteq Universe /\ Elements(v) \subseteq Universe
  BY ElementsHaveBits
<1>11. {y \in Universe : y % BlockBits \in all[y \div BlockBits]} = Elements(u) \cup Elements(v)
  BY <1>9, <1>10, Zenon
<1> QED
  BY <1>8, <1>11, Zenon

LEMMA IntersectionBecomes ==
    ASSUME NEW u \in Users, NEW v \in Users, SetsOK, MakeSet(u, Intersection(u, v).set)
    PROVE  SetBecomes(u, Elements(u) \cap Elements(v))
<1> DEFINE both == {i \in DOMAIN blocks[u] \cap DOMAIN blocks[v] : BlockOf(u, i) \cap BlockOf(v, i) # {}}
           contents == [i \in both |-> BlockOf(u, i) \cap BlockOf(v, i)]
           all == [i \in Indexes |-> IF i \in DOMAIN contents THEN contents[i] ELSE {}]
<1>1. MakeSet(u, contents)
  BY DEF Intersection
<1>2. /\ DOMAIN contents = both /\ both \subseteq Indexes
      /\ \A i \in both : contents[i] = heap[<<u, i>>] \cap heap[<<v, i>>]
  BY ElementsHaveBits
<1>3. \A i \in DOMAIN contents :
          /\ contents[i] \subseteq Bits
          /\ \A k \in contents[i] : i * BlockBits + k \in Universe
  BY <1>2, SharedAssumption DEF SetsOK, Addresses
<1>4. GetsBlocks(u, DOMAIN contents, all)
  <2> HIDE DEF contents
  <2> QED
    BY <1>1, <1>2, <1>3, MakeSetGets
<1>5. SetBecomes(u, {y \in Universe : y % BlockBits \in all[y \div BlockBits]})
  BY <1>4, GetsBlocksBecomes, Zenon
<1>6. ASSUME NEW i \in Indexes PROVE all[i] = heap[<<u, i>>] \cap heap[<<v, i>>]
  <2>1. CASE i \in both
    BY <1>2, <2>1
  <2>2. CASE i \notin both
    <3>1. all[i] = {}
      BY <1>2, <2>2
    <3>2. ASSUME heap[<<u, i>>] \cap heap[<<v, i>>] # {} PROVE FALSE
      <4>1. i \in DOMAIN blocks[u] /\ i \in DOMAIN blocks[v]
        BY <3>2 DEF SetsOK
      <4>2. BlockOf(u, i) = heap[<<u, i>>] /\ BlockOf(v, i) = heap[<<v, i>>]
        BY <4>1, ElementsHaveBits
      <4> QED
        BY <2>2, <3>2, <4>1, <4>2
    <3> QED
      BY <3>1, <3>2
  <2> QED
    BY <2>1, <2>2
<1>7. ASSUME NEW y \in Universe
      PROVE  y % BlockBits \in all[y \div BlockBits] <=> y \in Elements(u) \cap Elements(v)
  <2>1. /\ y \in Elements(u) <=> y % BlockBits \in heap[<<u, y \div BlockBits>>]
        /\ y \in Elements(v) <=> y % BlockBits \in heap[<<v, y \div BlockBits>>]
    BY ElementsHaveBits, Zenon
  <2>2. y \div BlockBits \in Indexes
    BY DEF Indexes
  <2>3. all[y \div BlockBits] = heap[<<u, y \div BlockBits>>] \cap heap[<<v, y \div BlockBits>>]
    BY <1>6, <2>2, Zenon
  <2> QED
    BY <2>1, <2>3, Zenon
<1>8. Elements(u) \subseteq Universe /\ Elements(v) \subseteq Universe
  BY ElementsHaveBits
<1>9. {y \in Universe : y % BlockBits \in all[y \div BlockBits]} = Elements(u) \cap Elements(v)
  BY <1>7, <1>8, Zenon
<1> QED
  BY <1>5, <1>9, Zenon

LEMMA CloneBecomes ==
    ASSUME NEW u \in Users, NEW v \in Users, SetsOK, MakeSet(u, Clone(v))
    PROVE  SetBecomes(u, Elements(v))
<1> DEFINE contents == [i \in DOMAIN blocks[v] |-> BlockOf(v, i)]
           all == [i \in Indexes |-> IF i \in DOMAIN contents THEN contents[i] ELSE {}]
<1>1. MakeSet(u, contents)
  BY DEF Clone
<1>2. /\ DOMAIN contents = DOMAIN blocks[v] /\ DOMAIN blocks[v] \subseteq Indexes
      /\ \A i \in DOMAIN contents : contents[i] = heap[<<v, i>>]
  BY ElementsHaveBits
<1>3. \A i \in DOMAIN contents :
          /\ contents[i] \subseteq Bits
          /\ \A k \in contents[i] : i * BlockBits + k \in Universe
  BY <1>2, SharedAssumption DEF SetsOK, Addresses
<1>4. GetsBlocks(u, DOMAIN contents, all)
  <2> HIDE DEF contents
  <2> QED
    BY <1>1, <1>2, <1>3, MakeSetGets
<1>5. SetBecomes(u, {y \in Universe : y % BlockBits \in all[y \div BlockBits]})
  BY <1>4, GetsBlocksBecomes, Zenon
<1>6. ASSUME NEW i \in Indexes PROVE all[i] = heap[<<v, i>>]
  BY <1>2 DEF SetsOK
<1>7. \A y \in Universe : y \div BlockBits \in Indexes
  BY DEF Indexes
<1>8. \A y \in Universe : all[y \div BlockBits] = heap[<<v, y \div BlockBits>>]
  BY <1>6, <1>7, Zenon
<1>9. {y \in Universe : y % BlockBits \in all[y \div BlockBits]}
        = {y \in Universe : y % BlockBits \in heap[<<v, y \div BlockBits>>]}
  BY <1>8, Zenon
<1> QED
  BY <1>5, <1>9, ElementsHaveBits, Zenon

\* What Edit does to the set of u is one of the changes of SavedSets.
EditsTo(u, elements) ==
    \/ \E x \in Universe : elements = Elements(u) \cup {x} \/ elements = Elements(u) \ {x}
    \/ \E v \in Users :
         /\ Idle(v)
         /\ \/ elements = Elements(u) \cup Elements(v)
            \/ elements = Elements(u) \cap Elements(v)
            \/ elements = Elements(v)

LEMMA EditBecomes ==
    ASSUME NEW u \in Users, SetsOK, Edit(u)
    PROVE  \E elements : EditsTo(u, elements) /\ SetBecomes(u, elements)
<1>1. CASE \E x \in Universe : AddElement(u, x) \/ RemoveElement(u, x)
  BY <1>1, AddBecomes, RemoveBecomes DEF EditsTo
<1>2. CASE \E v \in Users \ {u} :
               Idle(v) /\ (Union(u, v) \/ MakeSet(u, Intersection(u, v).set) \/ MakeSet(u, Clone(v)))
  BY <1>2, UnionBecomes, IntersectionBecomes, CloneBecomes DEF EditsTo
<1> QED
  BY <1>1, <1>2 DEF Edit

\* Looking, and compacting, leave the set as it is.
LEMMA LookBecomes ==
    ASSUME NEW u \in Users, SetsOK, Look(u)
    PROVE  SetBecomes(u, Elements(u))
<1>1. \A i \in Used(u) : i \in DOMAIN blocks[u] /\ i \in Int
  <2>1. \A x \in Universe : x \div BlockBits \in Int
    BY SetAssumption
  <2>2. \A i \in Used(u) : i \in DOMAIN blocks[u]
    BY DEF Used
  <2>3. \A i \in DOMAIN blocks[u] : i \in Indexes
    BY ElementsHaveBits
  <2>4. \A i \in Indexes : i \in Int
    BY <2>1 DEF Indexes
  <2> QED
    BY <2>2, <2>3, <2>4
<1> DEFINE low == {i \in DOMAIN blocks[u] : \E k \in Used(u) : k <= i}
           high == {i \in DOMAIN blocks[u] : \E k \in Used(u) : k >= i}
<1>2. low \subseteq DOMAIN blocks[u] /\ Used(u) \subseteq low
  BY <1>1
<1>3. high \subseteq DOMAIN blocks[u] /\ Used(u) \subseteq high
  BY <1>1
<1>4. KeepBlocks(u, low) \/ KeepBlocks(u, high)
  BY DEF Look, MinDeletes, MaxDeletes
<1> QED
  BY <1>2, <1>3, <1>4, KeepBlocksBecomes

-----------------------------------------------------------------------------
(* The written form                                                        *)

\* Nth counts some integers through, from the first to the last.
LEMMA NthCounts ==
    ASSUME NEW ints \in SUBSET Int, IsFiniteSet(ints), NEW n \in Nat, n = Cardinality(ints)
    PROVE  /\ \A k \in 1..n : Nth(ints, k) \in ints /\ Cardinality({j \in ints : j < Nth(ints, k)}) = k - 1
           /\ \A k, l \in 1..n : Nth(ints, k) = Nth(ints, l) => k = l
           /\ \A i \in ints : \E k \in 1..n : Nth(ints, k) = i
<1> DEFINE Below(i) == {j \in ints : j < i}
           f == [i \in ints |-> Cardinality(Below(i))]
<1>1. ASSUME NEW i \in ints
      PROVE  IsFiniteSet(Below(i)) /\ f[i] \in 0..(n - 1) /\ f[i] = Cardinality(Below(i))
  <2>1. Below(i) \subseteq ints \ {i}
    OBVIOUS
  <2>2. IsFiniteSet(ints \ {i}) /\ Cardinality(ints \ {i}) = n - 1
    BY FS_RemoveElement
  <2>3. IsFiniteSet(Below(i)) /\ Cardinality(Below(i)) <= n - 1
    BY <2>1, <2>2, FS_Subset
  <2>4. Cardinality(Below(i)) \in Nat
    BY <2>3, FS_CardinalityType
  <2>5. f[i] = Cardinality(Below(i))
    OBVIOUS
  <2> HIDE DEF f, Below
  <2> QED
    BY <2>3, <2>4, <2>5
<1>2. ASSUME NEW i \in ints, NEW j \in ints, i < j PROVE f[i] # f[j]
  <2>0. i \in Int /\ j \in Int /\ \A k \in ints : k \in Int
    OBVIOUS
  <2>1. Below(i) \subseteq Below(j) /\ i \in Below(j) /\ i \notin Below(i)
    <3>1. ASSUME NEW k \in ints, k < i PROVE k < j
      BY <1>2, <2>0, <3>1
    <3>2. ~(i < i)
      BY <2>0
    <3> QED
      BY <1>2, <3>1, <3>2
  <2>2. Below(i) # Below(j)
    BY <2>1
  <2>3. Cardinality(Below(i)) # Cardinality(Below(j))
    BY <1>1, <2>1, <2>2, FS_Subset
  <2> QED
    BY <1>1, <2>3
<1>3. \A i, j \in ints : f[i] = f[j] => i = j
  <2>1. \A i, j \in ints : i < j \/ j < i \/ i = j
    OBVIOUS
  <2> HIDE DEF f
  <2> QED
    BY <1>2, <2>1
<1>4. f \in Injection(ints, 0..(n - 1))
  <2>1. f \in [ints -> 0..(n - 1)]
    BY <1>1
  <2> HIDE DEF f
  <2> QED
    BY <1>3, <2>1 DEF Injection, IsInjective
<1>5. IsFiniteSet(0..(n - 1)) /\ Cardinality(0..(n - 1)) = n
  <2>1. PICK m \in Int : m = n - 1
    OBVIOUS
  <2>2. 0 \in Int
    OBVIOUS
  <2>3. IsFiniteSet(0..m) /\ Cardinality(0..m) = IF 0 > m THEN 0 ELSE m - 0 + 1
    BY <2>2, FS_Interval, Zenon
  <2> QED
    BY <2>1, <2>3
<1>6. f \in Surjection(ints, 0..(n - 1))
  BY <1>4, <1>5, FS_Injection
<1>7. ASSUME NEW k \in 1..n PROVE Nth(ints, k) \in ints /\ f[Nth(ints, k)] = k - 1
  <2>1. k - 1 \in 0..(n - 1)
    OBVIOUS
  <2>2. \E i \in ints : f[i] = k - 1
    BY <1>6, <2>1 DEF Surjection
  <2>3. \E i \in ints : Cardinality(Below(i)) = k - 1
    BY <2>2
  <2>4. Nth(ints, k) = CHOOSE i \in ints : Cardinality(Below(i)) = k - 1
    BY DEF Nth
  <2>5. Nth(ints, k) \in ints /\ Cardinality(Below(Nth(ints, k))) = k - 1
    BY <2>3, <2>4
  <2> QED
    BY <1>1, <2>5
<1> HIDE DEF f
<1>8. ASSUME NEW k \in 1..n, NEW l \in 1..n, Nth(ints, k) = Nth(ints, l) PROVE k = l
  <2>1. k - 1 = l - 1
    BY <1>7, <1>8
  <2> QED
    BY <2>1
<1>9. ASSUME NEW i \in ints PROVE \E k \in 1..n : Nth(ints, k) = i
  <2>1. PICK m \in 0..(n - 1) : m = f[i]
    BY <1>1
  <2>2. m + 1 \in 1..n /\ (m + 1) - 1 = m
    OBVIOUS
  <2>3. Nth(ints, m + 1) \in ints /\ f[Nth(ints, m + 1)] = m
    BY <1>7, <2>2
  <2> QED
    BY <1>3, <2>1, <2>2, <2>3
<1>10. \A k \in 1..n : Nth(ints, k) \in ints /\ Cardinality({j \in ints : j < Nth(ints, k)}) = k - 1
  BY <1>1, <1>7
<1> QED
  BY <1>8, <1>9, <1>10

\* The chunks are those of the set of u, of which keys are the blocks.
Describes(u, chunks, n) ==
    /\ n \in Nat /\ Len(chunks) = 1 + 2 * n
    /\ chunks[1] = <<"count", n>>
    /\ \A k \in 1..n :
         /\ chunks[2 * k][2] \in Used(u)
         /\ chunks[2 * k] = <<"index", chunks[2 * k][2]>>
         /\ chunks[2 * k + 1] = <<"block", BlockOf(u, chunks[2 * k][2])>>
    /\ \A k, l \in 1..n : chunks[2 * k][2] = chunks[2 * l][2] => k = l
    /\ \A i \in Used(u) : \E k \in 1..n : chunks[2 * k][2] = i

LEMMA UsedIsFinite ==
    ASSUME NEW u \in Users, SetsOK
    PROVE  IsFiniteSet(Used(u)) /\ Used(u) \subseteq Indexes /\ Indexes \subseteq Nat
<1>1. IsFiniteSet(Indexes)
  <2>1. IsFiniteSet(Universe)
    BY SetAssumption
  <2> DEFINE f == [x \in Universe |-> x \div BlockBits]
  <2>2. f \in Surjection(Universe, Indexes)
    <3>1. f \in [Universe -> Indexes] /\ \A i \in Indexes : \E x \in Universe : f[x] = i
      BY DEF Indexes
    <3> HIDE DEF f
    <3> QED
      BY <3>1 DEF Surjection
  <2> HIDE DEF f
  <2> QED
    BY <2>1, <2>2, FS_Surjection
<1>2. Used(u) \subseteq Indexes
  BY DEF SetsOK, Used
<1>3. ASSUME NEW x \in Universe PROVE x \div BlockBits \in Nat
  <2>1. x \in Nat
    BY SetAssumption
  <2>2. PICK i \in Nat, k \in Bits : i = x \div BlockBits
    BY <2>1, BlockAndBit
  <2> QED
    BY <2>2
<1> QED
  BY <1>1, <1>2, <1>3, FS_Subset DEF Indexes

LEMMA WrittenDescribes ==
    ASSUME NEW u \in Users, SetsOK
    PROVE  Describes(u, Written(u), Cardinality(Used(u)))
<1> DEFINE w == Written(u)
<1>1. PICK n \in Nat : n = Cardinality(Used(u))
  BY UsedIsFinite, FS_CardinalityType
<1>2. /\ \A k \in 1..n : Nth(Used(u), k) \in Used(u)
      /\ \A k, l \in 1..n : Nth(Used(u), k) = Nth(Used(u), l) => k = l
      /\ \A i \in Used(u) : \E k \in 1..n : Nth(Used(u), k) = i
  <2>1. Used(u) \in SUBSET Int /\ IsFiniteSet(Used(u))
    BY UsedIsFinite
  <2> QED
    BY <1>1, <2>1, NthCounts
<1>3. w = [p \in 1..(1 + 2 * n) |->
              IF p = 1 THEN <<"count", n>>
              ELSE IF p % 2 = 0 THEN <<"index", Nth(Used(u), p \div 2)>>
                   ELSE <<"block", BlockOf(u, Nth(Used(u), p \div 2))>>]
  BY <1>1 DEF Written
<1> HIDE DEF w
<1>4. Len(w) = 1 + 2 * n /\ w[1] = <<"count", n>>
  BY <1>3
<1>5. ASSUME NEW k \in 1..n
      PROVE  /\ w[2 * k] = <<"index", Nth(Used(u), k)>>
             /\ w[2 * k + 1] = <<"block", BlockOf(u, Nth(Used(u), k))>>
  <2>1. /\ 2 * k \in 1..(1 + 2 * n) /\ 2 * k # 1 /\ (2 * k) % 2 = 0 /\ (2 * k) \div 2 = k
        /\ 2 * k + 1 \in 1..(1 + 2 * n) /\ 2 * k + 1 # 1 /\ (2 * k + 1) % 2 = 1 /\ (2 * k + 1) \div 2 = k
    OBVIOUS
  <2> QED
    BY <1>3, <2>1
<1>6. \A k \in 1..n : w[2 * k][2] = Nth(Used(u), k)
  BY <1>5
<1>7. ASSUME NEW k \in 1..n
      PROVE  /\ w[2 * k][2] \in Used(u)
             /\ w[2 * k] = <<"index", w[2 * k][2]>>
             /\ w[2 * k + 1] = <<"block", BlockOf(u, w[2 * k][2])>>
  <2>1. w[2 * k][2] = Nth(Used(u), k) /\ Nth(Used(u), k) \in Used(u)
    BY <1>2, <1>6
  <2>2. w[2 * k] = <<"index", Nth(Used(u), k)>> /\ w[2 * k + 1] = <<"block", BlockOf(u, Nth(Used(u), k))>>
    BY <1>5
  <2> QED
    BY <2>1, <2>2, Zenon
<1>8. \A k, l \in 1..n : w[2 * k][2] = w[2 * l][2] => k = l
  BY <1>2, <1>6
<1>9. \A i \in Used(u) : \E k \in 1..n : w[2 * k][2] = i
  BY <1>2, <1>6
<1>10. Describes(u, w, n)
  BY <1>4, <1>7, <1>8, <1>9 DEF Describes
<1> QED
  BY <1>1, <1>10 DEF w

\* What is in a file is no set as long as chunks are missing, and then the set
\* of the writer.
LEMMA PrefixIsSet ==
    ASSUME NEW u \in Users, SetsOK, NEW w, NEW n, Describes(u, w, n),
           NEW chunks \in Seq(Pieces), Len(chunks) <= Len(w),
           \A p \in 1..Len(chunks) : chunks[p] = w[p]
    PROVE  /\ Len(chunks) < Len(w) => SetIn(chunks) = Damaged
           /\ Len(chunks) = Len(w) => SetIn(chunks) = Elements(u)
           /\ chunks = <<>> \/ Begins(chunks, chunks[1][2])
<1>1. n \in Nat /\ Len(w) = 1 + 2 * n /\ Len(chunks) \in Nat
  BY DEF Describes
<1>2. CASE chunks = <<>>
  BY <1>1, <1>2 DEF SetIn
<1>3. CASE chunks # <<>>
  <2>1. Len(chunks) >= 1 /\ chunks[1][2] = n
    BY <1>1, <1>3 DEF Describes
  <2>2. Len(chunks) < Len(w) => SetIn(chunks) = Damaged
    BY <1>1, <2>1 DEF SetIn
  <2>3. ASSUME Len(chunks) = Len(w) PROVE SetIn(chunks) = Elements(u)
    <3> DEFINE Part(k) == {chunks[2 * k][2] * BlockBits + bit : bit \in chunks[2 * k + 1][2]}
    <3>1. SetIn(chunks) = UNION {Part(k) : k \in 1..n}
      <4>1. ~(Len(chunks) < 1 + 2 * chunks[1][2])
        BY <1>1, <2>1, <2>3
      <4> QED
        BY <1>3, <2>1, <4>1, Zenon DEF SetIn
    <3>2. ASSUME NEW k \in 1..n
          PROVE  /\ chunks[2 * k][2] \in Used(u) /\ chunks[2 * k + 1][2] = BlockOf(u, chunks[2 * k][2])
                 /\ Part(k) = {chunks[2 * k][2] * BlockBits + bit : bit \in BlockOf(u, chunks[2 * k][2])}
      <4>1. 2 * k \in 1..Len(chunks) /\ 2 * k + 1 \in 1..Len(chunks)
        BY <1>1, <2>3
      <4>2. chunks[2 * k] = w[2 * k] /\ chunks[2 * k + 1] = w[2 * k + 1]
        BY <4>1
      <4>3. chunks[2 * k][2] \in Used(u) /\ chunks[2 * k + 1][2] = BlockOf(u, chunks[2 * k][2])
        BY <4>2 DEF Describes
      <4> QED
        BY <4>3, Zenon
    <3>3. ASSUME NEW i \in DOMAIN blocks[u], NEW bit \in BlockOf(u, i)
          PROVE  \E k \in 1..n : chunks[2 * k][2] = i
      <4>1. i \in Used(u)
        BY DEF Used
      <4>2. PICK k \in 1..n : w[2 * k][2] = i
        BY <4>1 DEF Describes
      <4>3. 2 * k \in 1..Len(chunks)
        BY <1>1, <2>3
      <4> QED
        BY <4>2, <4>3
    <3>4. ASSUME NEW x \in Elements(u) PROVE \E k \in 1..n : x \in Part(k)
      <4>1. PICK i \in DOMAIN blocks[u] : x \in {i * BlockBits + bit : bit \in BlockOf(u, i)}
        BY DEF Elements
      <4>2. PICK bit \in BlockOf(u, i) : x = i * BlockBits + bit
        BY <4>1
      <4>3. PICK k \in 1..n : chunks[2 * k][2] = i
        BY <3>3
      <4>4. Part(k) = {chunks[2 * k][2] * BlockBits + b : b \in BlockOf(u, chunks[2 * k][2])}
        BY <3>2
      <4>5. Part(k) = {i * BlockBits + b : b \in BlockOf(u, i)}
        BY <4>3, <4>4, Zenon
      <4> QED
        BY <4>1, <4>5, Zenon
    <3>5. ASSUME NEW k \in 1..n PROVE Part(k) \subseteq Elements(u)
      <4>1. PICK i \in DOMAIN blocks[u] : i = chunks[2 * k][2]
        BY <3>2 DEF Used
      <4>2. Part(k) = {chunks[2 * k][2] * BlockBits + b : b \in BlockOf(u, chunks[2 * k][2])}
        BY <3>2
      <4>3. Part(k) = {i * BlockBits + b : b \in BlockOf(u, i)}
        BY <4>1, <4>2, Zenon
      <4> HIDE DEF Part
      <4> QED
        BY <4>3 DEF Elements
    <3> HIDE DEF Part
    <3> QED
      BY <3>1, <3>4, <3>5
  <2>4. Begins(chunks, n)
    <3>1. ASSUME NEW k \in 1..n, 2 * k <= Len(chunks)
          PROVE  chunks[2 * k] = w[2 * k] /\ chunks[2 * k][2] \in Used(u) /\ chunks[2 * k][2] \in Indexes
      <4>1. 2 * k \in 1..Len(chunks)
        BY <1>1, <3>1
      <4>2. chunks[2 * k] = w[2 * k]
        BY <4>1
      <4> QED
        BY <4>2, UsedIsFinite DEF Describes
    <3>2. ASSUME NEW k \in 1..n, 2 * k + 1 <= Len(chunks)
          PROVE  /\ chunks[2 * k + 1][2] \subseteq Bits
                 /\ \A bit \in chunks[2 * k + 1][2] : chunks[2 * k][2] * BlockBits + bit \in Universe
      <4>1. 2 * k + 1 \in 1..Len(chunks) /\ 2 * k <= Len(chunks)
        BY <1>1, <3>2
      <4>2. chunks[2 * k + 1] = w[2 * k + 1] /\ chunks[2 * k] = w[2 * k]
        BY <3>1, <4>1
      <4>3. PICK i : i = chunks[2 * k][2] /\ i \in Used(u) /\ i \in Indexes
        BY <3>1, <4>1
      <4>4. chunks[2 * k + 1][2] = BlockOf(u, i) /\ i \in DOMAIN blocks[u]
        BY <4>2, <4>3 DEF Describes, Used
      <4>5. BlockOf(u, i) = heap[<<u, i>>]
        BY <4>4, ElementsHaveBits
      <4>6. heap[<<u, i>>] \subseteq Bits /\ \A bit \in heap[<<u, i>>] : i * BlockBits + bit \in Universe
        BY <4>3, SharedAssumption DEF SetsOK, Addresses
      <4> QED
        BY <4>3, <4>4, <4>5, <4>6
    <3>3. ASSUME NEW k \in 1..n, NEW l \in 1..n, 2 * k <= Len(chunks), 2 * l <= Len(chunks),
                 chunks[2 * k][2] = chunks[2 * l][2]
          PROVE  k = l
      BY <3>1, <3>3 DEF Describes
    <3> QED
      BY <1>1, <3>1, <3>2, <3>3 DEF Begins
  <2> QED
    BY <2>1, <2>2, <2>3, <2>4
<1> QED
  BY <1>2, <1>3

\* A file holds a set or is damaged.
LEMMA FilesHoldSets ==
    ASSUME FilesOK, NEW f \in MemFiles
    PROVE  SetIn(data[f]) \in (SUBSET Universe) \cup {Damaged}
<1> DEFINE c == data[f]
           n == c[1][2]
<1>1. CASE c = <<>> \/ Len(c) < 1 + 2 * n
  BY <1>1 DEF SetIn
<1>2. CASE ~(c = <<>> \/ Len(c) < 1 + 2 * n)
  <2>1. Begins(c, n) /\ c \in Seq(Pieces)
    BY <1>2 DEF FilesOK
  <2>2. n \in Nat /\ Len(c) = 1 + 2 * n
    <3>0. Len(c) \in Nat
      BY <2>1
    <3>1. n \in Nat /\ Len(c) <= 1 + 2 * n
      BY <2>1, Zenon DEF Begins
    <3> HIDE DEF n
    <3> QED
      BY <1>2, <3>0, <3>1
  <2>3. ASSUME NEW k \in 1..n, NEW bit \in c[2 * k + 1][2] PROVE c[2 * k][2] * BlockBits + bit \in Universe
    <3>1. 2 * k + 1 <= Len(c)
      BY <2>2
    <3> QED
      BY <2>1, <2>3, <3>1, Zenon DEF Begins
  <2> DEFINE Part(k) == {c[2 * k][2] * BlockBits + bit : bit \in c[2 * k + 1][2]}
  <2>4. SetIn(c) = UNION {Part(k) : k \in 1..n}
    BY <1>2, Zenon DEF SetIn
  <2>5. \A k \in 1..n : Part(k) \subseteq Universe
    BY <2>3
  <2> HIDE DEF Part
  <2> QED
    BY <2>4, <2>5
<1> QED
  BY <1>1, <1>2

-----------------------------------------------------------------------------
(* Who stays out of a step                                                 *)

Holds(v) == handle[v].kind = "in" \/ Writing(v)

\* A step that does nothing to v, to its set and to the file it has open.
Waits(v) ==
    /\ handle'[v] = handle[v] /\ left'[v] = left[v] /\ index'[v] = index[v]
    /\ blocks'[v] = blocks[v]
    /\ \A i \in Indexes : heap'[<<v, i>>] = heap[<<v, i>>]
    /\ Holds(v) => data'[handle[v].file] = data[handle[v].file]

BlocksTell ==
    \A s \in Users :
        /\ Used(s) = {i \in Indexes : heap[<<s, i>>] # {}}
        /\ \A i \in Used(s) : BlockOf(s, i) = heap[<<s, i>>]

LEMMA BlocksTellUsed == SetsOK => BlocksTell
<1> SUFFICES ASSUME SetsOK, NEW s \in Users
             PROVE  /\ Used(s) = {i \in Indexes : heap[<<s, i>>] # {}}
                    /\ \A i \in Used(s) : BlockOf(s, i) = heap[<<s, i>>]
  BY DEF BlocksTell
<1>1. \A i \in DOMAIN blocks[s] : i \in Indexes /\ BlockOf(s, i) = heap[<<s, i>>]
  BY ElementsHaveBits
<1>2. \A i \in Indexes : heap[<<s, i>>] # {} => i \in DOMAIN blocks[s]
  BY DEF SetsOK
<1> QED
  BY <1>1, <1>2 DEF Used

LEMMA BlocksTellUsedNext == SetsOK' => BlocksTell'
BY BlocksTellUsed, PTL

\* Bits make up the set and what is written of it.
LEMMA BitsStay ==
    ASSUME NEW v \in Users, SetsOK, SetsOK', \A i \in Indexes : heap'[<<v, i>>] = heap[<<v, i>>]
    PROVE  Elements(v)' = Elements(v) /\ Written(v)' = Written(v)
<1>1. /\ Used(v) = {i \in Indexes : heap[<<v, i>>] # {}}
      /\ \A i \in Used(v) : BlockOf(v, i) = heap[<<v, i>>]
  BY BlocksTellUsed DEF BlocksTell
<1>2. /\ Used(v)' = {i \in Indexes : heap'[<<v, i>>] # {}}
      /\ \A i \in Used(v)' : BlockOf(v, i)' = heap'[<<v, i>>]
  BY BlocksTellUsedNext DEF BlocksTell
<1>3. Used(v)' = Used(v)
  BY <1>1, <1>2
<1>4. Elements(v)' = Elements(v)
  <2>1. Elements(v)' = {x \in Universe : x % BlockBits \in heap'[<<v, x \div BlockBits>>]}
    BY BitsTellElementsNext DEF BitsTell
  <2>2. \A x \in Universe : x \div BlockBits \in Indexes
    BY DEF Indexes
  <2>3. \A x \in Universe : heap'[<<v, x \div BlockBits>>] = heap[<<v, x \div BlockBits>>]
    BY <2>2, Zenon
  <2>4. {x \in Universe : x % BlockBits \in heap'[<<v, x \div BlockBits>>]}
          = {x \in Universe : x % BlockBits \in heap[<<v, x \div BlockBits>>]}
    BY <2>3, Zenon
  <2> QED
    BY <2>1, <2>4, ElementsHaveBits, Zenon
<1>5. Written(v)' = Written(v)
  <2>1. PICK n \in Nat : n = Cardinality(Used(v))
    BY UsedIsFinite, FS_CardinalityType
  <2>2. \A k \in 1..n : Nth(Used(v), k) \in Used(v)
    <3>1. Used(v) \in SUBSET Int /\ IsFiniteSet(Used(v))
      BY UsedIsFinite
    <3> QED
      BY <2>1, <3>1, NthCounts
  <2>3. ASSUME NEW p \in 1..(1 + 2 * n), p # 1
        PROVE  BlockOf(v, Nth(Used(v), p \div 2))' = BlockOf(v, Nth(Used(v), p \div 2))
    <3>1. p \div 2 \in 1..n
      BY <2>3
    <3>2. Nth(Used(v), p \div 2) \in Used(v)
      BY <2>2, <3>1
    <3>3. PICK i \in Used(v) : i = Nth(Used(v), p \div 2)
      BY <3>2
    <3>4. BlockOf(v, i)' = BlockOf(v, i)
      BY <1>1, <1>2, <1>3
    <3>5. Nth(Used(v), p \div 2)' = i
      BY <1>3, <3>3 DEF Nth
    <3> QED
      BY <3>3, <3>4, <3>5 DEF BlockOf
  <2>4. \A k : Nth(Used(v), k)' = Nth(Used(v), k)
    BY <1>3 DEF Nth
  <2> DEFINE chunk(p) == IF p = 1 THEN <<"count", n>>
                         ELSE IF p % 2 = 0 THEN <<"index", Nth(Used(v), p \div 2)>>
                              ELSE <<"block", BlockOf(v, Nth(Used(v), p \div 2))>>
  <2>5. Written(v) = [p \in 1..(1 + 2 * n) |-> chunk(p)]
    BY <2>1 DEF Written
  <2>6. Written(v)' = [p \in 1..(1 + 2 * n) |-> chunk(p)']
    BY <1>3, <2>1 DEF Written
  <2>7. \A p \in 1..(1 + 2 * n) : chunk(p)' = chunk(p)
    BY <1>3, <2>3, <2>4
  <2> HIDE DEF chunk
  <2> QED
    BY <2>5, <2>6, <2>7
<1> QED
  BY <1>4, <1>5

\* Whoever waits has got as far as before, and is seen as before.
LEMMA WaitingStays ==
    ASSUME RInv, SetsOK', NEW v \in Users, Waits(v)
    PROVE  UserOK(v)' /\ value'[v] = value[v] /\ opened'[v] = opened[v]
<1> DEFINE chunks == data[handle[v].file]
           p == handle[v].pos
<1>1. Elements(v)' = Elements(v) /\ Written(v)' = Written(v)
  BY BitsStay DEF RInv, Waits
<1>2. value'[v] = value[v] /\ opened'[v] = opened[v]
  BY <1>1 DEF Waits, Holds, value, opened
<1>3. ASSUME Writing(v)' PROVE WriterOK(v)'
  <2>1. Writing(v) /\ data'[handle'[v].file] = chunks
    BY <1>3 DEF Waits, Writing, Holds
  <2>2. WriterOK(v)
    BY <2>1 DEF RInv, UsersOK, UserOK
  <2> QED
    BY <1>1, <2>1, <2>2 DEF WriterOK
<1>4. ASSUME handle'[v].kind = "in" PROVE ReaderOK(v)'
  <2>1. handle[v].kind = "in" /\ data'[handle'[v].file] = chunks /\ handle'[v].pos = p
    BY <1>4 DEF Waits, Holds
  <2>2. ReaderOK(v)
    BY <2>1 DEF RInv, UsersOK, UserOK
  <2>3. p \in Nat /\ handle[v].file \in MemFiles
    BY <2>1 DEF RInv, IInv, TypeOK, Handles
  <2>4. p <= Len(chunks) /\ Len(chunks) \in Nat
    BY <2>2, <2>3 DEF ReaderOK, RInv, FilesOK
  <2>5. ASSUME p > 0 PROVE HasRead(v, chunks, p)'
    <3>1. HasRead(v, chunks, p)
      BY <2>2, <2>5 DEF ReaderOK
    <3>2. chunks # <<>>
      BY <2>3, <2>4, <2>5
    <3>3. Begins(chunks, chunks[1][2])
      BY <2>3, <3>2 DEF RInv, FilesOK
    <3>4. ASSUME NEW k \in 1..((p - 1) \div 2) PROVE chunks[2 * k][2] \in Indexes
      <4>1. 2 * k <= Len(chunks) /\ 2 * k <= 1 + 2 * chunks[1][2] /\ chunks[1][2] \in Nat
        <5>1. chunks[1][2] \in Nat /\ Len(chunks) <= 1 + 2 * chunks[1][2]
          BY <3>3 DEF Begins
        <5>2. PICK length \in Nat : length = Len(chunks)
          BY <2>4
        <5>3. 2 * k <= p
          BY <2>3
        <5> HIDE DEF p, chunks
        <5> QED
          BY <2>3, <2>4, <5>1, <5>2, <5>3
      <4>2. k \in 1..chunks[1][2]
        BY <4>1
      <4> QED
        BY <3>3, <4>1, <4>2 DEF Begins
    <3>5. \A k \in 1..((p - 1) \div 2) : heap'[<<v, chunks[2 * k][2]>>] = heap[<<v, chunks[2 * k][2]>>]
      BY <3>4 DEF Waits
    <3>6. chunks' = chunks /\ p' = p
      BY <2>1
    <3> HIDE DEF chunks, p
    <3> QED
      BY <3>1, <3>5, <3>6 DEF HasRead, Waits
  <2>6. ReaderOK(v)' = (p <= Len(chunks) /\ (p > 0 => HasRead(v, chunks, p)'))
    BY <2>1 DEF ReaderOK
  <2> QED
    BY <2>4, <2>5, <2>6
<1> QED
  BY <1>2, <1>3, <1>4 DEF UserOK

\* A step does what SavedSets allows, or nothing that it sees.
Simulates == [Saved!Next]_(Saved!vars)

AbstractNames == AtomicNames \cup {PlainName}

LEMMA Shapes ==
    /\ value = [u \in Users |-> value[u]] /\ value' = [u \in Users |-> value'[u]]
    /\ saved = [n \in AbstractNames |-> saved[n]] /\ saved' = [n \in AbstractNames |-> saved'[n]]
    /\ opened = [u \in Users |-> opened[u]] /\ opened' = [u \in Users |-> opened'[u]]
BY DEF value, saved, opened, AbstractNames

SavedStays == \A n \in AbstractNames : saved'[n] = saved[n]

LEMMA Stutters ==
    ASSUME \A u \in Users : value'[u] = value[u] /\ opened'[u] = opened[u],
           SavedStays, failed' = failed
    PROVE  Simulates
<1>1. value' = value /\ opened' = opened
  BY Shapes
<1>2. saved' = saved
  BY Shapes DEF SavedStays
<1> QED
  BY <1>1, <1>2 DEF Simulates, Saved!vars

LEMMA OthersWait ==
    ASSUME RInv, IInv', SetsOK', FilesOK', ReadTypeOK', NEW u \in Users, UserOK(u)',
           \A v \in Users \ {u} : Waits(v)
    PROVE  RInv' /\ \A v \in Users \ {u} : value'[v] = value[v] /\ opened'[v] = opened[v]
<1>1. \A v \in Users \ {u} : UserOK(v)' /\ value'[v] = value[v] /\ opened'[v] = opened[v]
  BY WaitingStays
<1> QED
  BY <1>1 DEF RInv, UsersOK

-----------------------------------------------------------------------------
(* Sets that change                                                        *)

\* No marker is a set.
LEMMA MarkersAreNoSets ==
    ASSUME NEW u \in Users, SetsOK
    PROVE  Elements(u) \subseteq Universe /\ Elements(u) \notin {Loading, Nothing, Damaged}
<1>1. Elements(u) \subseteq Universe
  BY ElementsHaveBits
<1> QED
  BY <1>1, SetAssumption, SharedAssumption

\* A step that changes the set of one user and no file.
LEMMA SetStep ==
    ASSUME RInv, IInv', NEW u \in Users, Idle(u), NEW elements, SetBecomes(u, elements),
           UNCHANGED <<fsVars, readVars>>
    PROVE  /\ RInv'
           /\ value[u] = Elements(u)
           /\ value' = [value EXCEPT ![u] = elements]
           /\ UNCHANGED <<saved, opened, failed>>
<1>1. SetsOK' /\ FilesOK' /\ ReadTypeOK' /\ UserOK(u)'
  <2>1. FilesOK' /\ ReadTypeOK'
    BY DEF fsVars, readVars, RInv, FilesOK, ReadTypeOK, Unused
  <2>2. UserOK(u)'
    BY DEF UserOK, Idle, Writing, fsVars
  <2> QED
    BY <2>1, <2>2 DEF SetBecomes
<1>2. \A v \in Users \ {u} : Waits(v)
  BY DEF SetBecomes, OthersStay, Waits, fsVars, readVars
<1>3. RInv' /\ \A v \in Users \ {u} : value'[v] = value[v]
  BY <1>1, <1>2, OthersWait
<1>4. value[u] = Elements(u) /\ value'[u] = elements
  BY DEF value, Idle, fsVars, SetBecomes
<1>5. value' = [value EXCEPT ![u] = elements]
  BY <1>3, <1>4, Shapes
<1>6. UNCHANGED <<saved, opened, failed>>
  BY DEF saved, opened, fsVars, readVars
<1> QED
  BY <1>3, <1>4, <1>5, <1>6

LEMMA EditSimulates ==
    ASSUME RInv, IInv', NEW u \in Users, Edit(u)
    PROVE  RInv' /\ Simulates
<1>1. SetsOK /\ Idle(u) /\ UNCHANGED <<fsVars, readVars>>
  BY DEF Edit, RInv
<1>2. PICK elements : EditsTo(u, elements) /\ SetBecomes(u, elements)
  BY <1>1, EditBecomes
<1>3. /\ RInv' /\ value[u] = Elements(u)
      /\ value' = [value EXCEPT ![u] = elements] /\ UNCHANGED <<saved, opened, failed>>
  BY <1>1, <1>2, SetStep
<1>4. \A v \in Users : Elements(v) # Loading
  BY <1>1, MarkersAreNoSets
<1>5. Saved!Become(u, elements)
  BY <1>3, <1>4 DEF Saved!Become
<1>6. Saved!Change(u)
  <2>1. CASE \E x \in Universe : elements = Elements(u) \cup {x} \/ elements = Elements(u) \ {x}
    BY <1>3, <1>5, <2>1 DEF Saved!Change
  <2>2. CASE \E v \in Users :
                 Idle(v) /\ \/ elements = Elements(u) \cup Elements(v)
                            \/ elements = Elements(u) \cap Elements(v)
                            \/ elements = Elements(v)
    <3>1. PICK v \in Users :
              Idle(v) /\ \/ elements = Elements(u) \cup Elements(v)
                         \/ elements = Elements(u) \cap Elements(v)
                         \/ elements = Elements(v)
      BY <2>2
    <3>2. value[v] = Elements(v)
      BY <3>1 DEF value, Idle
    <3>3. v \in Sets /\ value[v] # Loading
      BY <1>4, <3>2, SharedAssumption
    <3> QED
      BY <1>3, <1>5, <3>1, <3>2, <3>3 DEF Saved!Change
  <2> QED
    BY <1>2, <2>1, <2>2 DEF EditsTo
<1> QED
  BY <1>3, <1>6, SharedAssumption DEF Simulates, Saved!Next

LEMMA LookSimulates ==
    ASSUME RInv, IInv', NEW u \in Users, Look(u)
    PROVE  RInv' /\ Simulates
<1>1. SetsOK /\ Idle(u) /\ UNCHANGED <<fsVars, readVars>>
  BY DEF Look, RInv
<1>2. SetBecomes(u, Elements(u))
  BY <1>1, LookBecomes
<1>3. /\ RInv' /\ value[u] = Elements(u)
      /\ value' = [value EXCEPT ![u] = Elements(u)] /\ UNCHANGED <<saved, opened, failed>>
  BY <1>1, <1>2, SetStep
<1>4. value' = value
  BY <1>3, Shapes
<1> QED
  BY <1>3, <1>4 DEF Simulates, Saved!vars

-----------------------------------------------------------------------------
(* Files that change                                                       *)

LEMMA CollectedFiles ==
    ASSUME RInv, data' = Collected(data)
    PROVE  /\ FilesOK'
           /\ \A v \in Users : handle'[v] = handle[v] /\ Holds(v) => data'[handle[v].file] = data[handle[v].file]
           /\ \A n \in Names : files'[n] \in MemFiles => data'[files'[n]] = data[files'[n]]
<1> USE DEF RInv, FilesOK
<1>1. \A f \in MemFiles :
         data'[f] = IF (\A n \in Names : files'[n] # f) /\ (\A u \in Users : handle'[u].file # f)
                    THEN <<>> ELSE data[f]
  BY DEF Collected
<1>2. data' \in [MemFiles -> Seq(Pieces)]
  <2>1. data' = [f \in MemFiles |-> data'[f]]
    BY DEF Collected
  <2>2. ASSUME NEW f \in MemFiles PROVE data'[f] \in Seq(Pieces)
    <3>1. data'[f] = <<>> \/ data'[f] = data[f]
      BY <1>1
    <3>2. <<>> \in Seq(Pieces) /\ data[f] \in Seq(Pieces)
      OBVIOUS
    <3> QED
      BY <3>1, <3>2
  <2> QED
    BY <2>1, <2>2
<1>3. ASSUME NEW f \in MemFiles PROVE data'[f] = <<>> \/ Begins(data'[f], data'[f][1][2])
  <2>1. data'[f] = <<>> \/ data'[f] = data[f]
    BY <1>1
  <2>2. data[f] = <<>> \/ Begins(data[f], data[f][1][2])
    OBVIOUS
  <2> QED
    BY <2>1, <2>2, Zenon
<1>4. ASSUME NEW f \in MemFiles, Unused(f)' PROVE data'[f] = <<>>
  BY <1>1, <1>4 DEF Unused
<1>5. FilesOK'
  BY <1>2, <1>3, <1>4
<1>6. ASSUME NEW v \in Users, handle'[v] = handle[v], Holds(v)
      PROVE  data'[handle[v].file] = data[handle[v].file]
  <2>1. handle[v].file \in MemFiles
    BY <1>6 DEF IInv, TypeOK, Holds, Writing
  <2> QED
    BY <1>1, <1>6, <2>1
<1>7. ASSUME NEW n \in Names, files'[n] \in MemFiles PROVE data'[files'[n]] = data[files'[n]]
  BY <1>1, <1>7
<1> QED
  BY <1>5, <1>6, <1>7

LEMMA SameFiles ==
    ASSUME RInv, data' = data, \A f \in MemFiles : Unused(f)' => Unused(f)
    PROVE  FilesOK'
BY DEF RInv, FilesOK

\* A name keeps its set if it keeps its file and the file its chunks.
LEMMA SavedStaysIf ==
    ASSUME RInv,
           \A n \in AbstractNames :
               files'[n] = files[n] /\ (files[n] \in MemFiles => data'[files[n]] = data[files[n]])
    PROVE  SavedStays
<1> SUFFICES ASSUME NEW n \in AbstractNames PROVE saved'[n] = saved[n]
  BY DEF SavedStays
<1>1. files[n] = NoFile \/ files[n] \in MemFiles
  BY SharedAssumption DEF RInv, IInv, TypeOK, AbstractNames
<1> QED
  BY <1>1, FileAssumption DEF saved, AbstractNames

\* A step of u that leaves the sets alone.
LEMMA OthersWaitFor ==
    ASSUME RInv, NEW u \in Users, UNCHANGED setVars,
           \A v \in Users \ {u} : handle'[v] = handle[v] /\ left'[v] = left[v] /\ index'[v] = index[v],
           \A v \in Users \ {u} : Holds(v) => data'[handle[v].file] = data[handle[v].file]
    PROVE  \A v \in Users \ {u} : Waits(v)
BY DEF Waits, setVars

LEMMA SetsStay ==
    ASSUME RInv, UNCHANGED setVars
    PROVE  SetsOK' /\ \A u \in Users : Elements(u)' = Elements(u) /\ Written(u)' = Written(u)
<1>1. SetsOK'
  BY DEF RInv, SetsOK, setVars
<1> QED
  BY <1>1, BitsStay DEF RInv, setVars

LEMMA StartWriteFileSimulates ==
    ASSUME RInv, IInv', NEW u \in Users, StartWriteFile(u)
    PROVE  RInv' /\ Simulates
<1>1. PICK n \in AtomicNames, f \in MemFiles :
        /\ New(f) /\ UNCHANGED <<files, data, lock>>
        /\ handle' = [handle EXCEPT ![u] = [Closed EXCEPT !.kind = "atomic", !.file = f, !.name = n]]
  BY DEF StartWriteFile, CreateAtomicFile
<1>2. Idle(u) /\ UNCHANGED <<setVars, readVars>> /\ DOMAIN handle = Users
  BY DEF StartWriteFile, RInv, IInv, TypeOK
<1>3. /\ handle'[u] = [Closed EXCEPT !.kind = "atomic", !.file = f, !.name = n]
      /\ handle'[u].kind = "atomic" /\ handle'[u].file = f
      /\ \A v \in Users \ {u} : handle'[v] = handle[v]
  BY <1>1, <1>2 DEF Closed
<1>4. handle[u].file = NoFile /\ NoFile \notin MemFiles
  BY <1>2, FileAssumption DEF RInv, IInv, TypeOK, Idle
<1>5. FilesOK'
  <2>1. \A g \in MemFiles : Unused(g)' => Unused(g)
    BY <1>1, <1>3, <1>4 DEF Unused
  <2> QED
    BY <1>1, <2>1, SameFiles
<1>6. SetsOK' /\ ReadTypeOK' /\ \A v \in Users : Elements(v)' = Elements(v)
  BY <1>2, SetsStay DEF RInv, ReadTypeOK, readVars
<1>7. UserOK(u)'
  <2>1. data'[f] = <<>>
    BY <1>1 DEF New, RInv, FilesOK
  <2>2. Describes(u, Written(u), Cardinality(Used(u)))
    BY WrittenDescribes DEF RInv
  <2>3. Len(Written(u)) \in Nat /\ Written(u)' = Written(u)
    BY <1>2, <2>2, SetsStay DEF Describes
  <2>4. WriterOK(u)'
    BY <1>3, <2>1, <2>3 DEF WriterOK
  <2> QED
    BY <1>3, <2>4 DEF UserOK
<1>8. \A v \in Users \ {u} : Waits(v)
  BY <1>1, <1>2, <1>3, OthersWaitFor DEF readVars
<1>9. RInv' /\ \A v \in Users \ {u} : value'[v] = value[v] /\ opened'[v] = opened[v]
  BY <1>5, <1>6, <1>7, <1>8, OthersWait DEF RInv
<1>10. value'[u] = value[u] /\ opened'[u] = opened[u]
  BY <1>2, <1>3, <1>6 DEF value, opened, Idle
<1>11. SavedStays
  BY <1>1, SavedStaysIf
<1> QED
  BY <1>2, <1>9, <1>10, <1>11, Stutters DEF readVars

\* Two users do not write to one file.
LEMMA WritersDiffer ==
    ASSUME IInv, NEW u \in Users, NEW v \in Users, u # v, Writing(u), Writing(v)
    PROVE  handle[u].file # handle[v].file
<1>1. LockName # NoName
  BY FileAssumption, SharedAssumption
<1>2. CASE Unsaved(u) \/ Unsaved(v)
  BY <1>2 DEF IInv, UnsavedIsPrivate
<1>3. CASE handle[u].kind = "out" /\ handle[v].kind = "out"
  BY <1>1, <1>3 DEF IInv, PlainIsLocked, LockIsExclusive
<1> QED
  BY <1>2, <1>3 DEF Writing, Unsaved

LEMMA WrittenArePieces ==
    ASSUME NEW u \in Users, SetsOK, NEW p \in 1..Len(Written(u))
    PROVE  Written(u)[p] \in Pieces
<1> DEFINE w == Written(u)
<1>1. PICK n : Describes(u, w, n)
  BY WrittenDescribes
<1> HIDE DEF w
<1>0. /\ \A x \in Nat : <<"count", x>> \in Pieces /\ <<"index", x>> \in Pieces
      /\ \A x \in SUBSET Bits : <<"block", x>> \in Pieces
  BY Zenon DEF Pieces
<1>2. n \in Nat /\ Len(w) = 1 + 2 * n /\ w[1] = <<"count", n>>
  BY <1>1 DEF Describes
<1>3. ASSUME NEW k \in 1..n PROVE w[2 * k] \in Pieces /\ w[2 * k + 1] \in Pieces
  <2>1. PICK i : i = w[2 * k][2] /\ i \in Used(u) /\ w[2 * k] = <<"index", i>> /\ w[2 * k + 1] = <<"block", BlockOf(u, i)>>
    BY <1>1 DEF Describes
  <2>2. i \in Nat /\ i \in Indexes
    BY <2>1, UsedIsFinite
  <2>3. BlockOf(u, i) = heap[<<u, i>>]
    BY <2>1, BlocksTellUsed DEF BlocksTell
  <2>4. BlockOf(u, i) \in SUBSET Bits
    BY <2>2, <2>3, SharedAssumption DEF SetsOK, Addresses
  <2> QED
    BY <1>0, <2>1, <2>2, <2>4
<1>4. p = 1 \/ \E k \in 1..n : p = 2 * k \/ p = 2 * k + 1
  <2>1. p \in 1..(1 + 2 * n)
    BY <1>2 DEF w
  <2>2. p = 1 \/ (p \div 2 \in 1..n /\ (p = 2 * (p \div 2) \/ p = 2 * (p \div 2) + 1))
    BY <1>2, <2>1
  <2> QED
    BY <2>2
<1>5. w[p] \in Pieces
  BY <1>0, <1>2, <1>3, <1>4
<1> QED
  BY <1>5 DEF w

LEMMA StartOverwriteSimulates ==
    ASSUME RInv, IInv', NEW u \in Users, StartOverwrite(u)
    PROVE  RInv' /\ Simulates
<1>1. PICK f \in MemFiles :
        /\ IF files[PlainName] = NoFile THEN New(f) ELSE f = files[PlainName]
        /\ files' = [files EXCEPT ![PlainName] = f]
        /\ data' = [data EXCEPT ![f] = <<>>]
        /\ handle' = [handle EXCEPT ![u] = [Closed EXCEPT !.kind = "out", !.file = f, !.name = PlainName]]
  BY DEF StartOverwrite, CreateFile
<1>2. /\ Idle(u) /\ lock[u] = LockName /\ UNCHANGED <<setVars, readVars>>
      /\ DOMAIN handle = Users /\ DOMAIN files = Names /\ data \in [MemFiles -> Seq(Pieces)]
      /\ PlainName \in Names /\ AtomicNames \subseteq Names /\ PlainName \notin AtomicNames
  BY SharedAssumption DEF StartOverwrite, RInv, IInv, TypeOK, FilesOK
<1>3. /\ handle'[u].kind = "out" /\ handle'[u].file = f
      /\ \A v \in Users \ {u} : handle'[v] = handle[v]
      /\ files'[PlainName] = f /\ \A n \in Names \ {PlainName} : files'[n] = files[n]
      /\ data'[f] = <<>> /\ \A g \in MemFiles \ {f} : data'[g] = data[g]
  BY <1>1, <1>2 DEF Closed
<1>4. /\ handle[u].file = NoFile /\ NoFile \notin MemFiles
      /\ \A n \in Names : files[n] \in MemFiles \cup {NoFile}
  BY <1>2, FileAssumption DEF RInv, IInv, TypeOK, Idle
<1>5. (files[PlainName] = NoFile /\ New(f)) \/ f = files[PlainName]
  BY <1>1
<1>6. FilesOK'
  <2>1. ASSUME NEW g \in MemFiles \ {f}, Unused(g)' PROVE Unused(g)
    <3>1. ASSUME NEW n \in Names PROVE files[n] # g
      BY <1>3, <1>4, <1>5, <2>1 DEF Unused
    <3>2. ASSUME NEW v \in Users PROVE handle[v].file # g
      BY <1>3, <1>4, <2>1 DEF Unused
    <3> QED
      BY <3>1, <3>2 DEF Unused
  <2>2. data' \in [MemFiles -> Seq(Pieces)]
    BY <1>1, <1>2
  <2>3. \A g \in MemFiles : data'[g] = <<>> \/ Begins(data'[g], data'[g][1][2])
    <3> SUFFICES ASSUME NEW g \in MemFiles, data'[g] # <<>> PROVE Begins(data'[g], data'[g][1][2])
      OBVIOUS
    <3>1. data'[g] = data[g]
      BY <1>3
    <3>2. data[g] = <<>> \/ Begins(data[g], data[g][1][2])
      BY DEF RInv, FilesOK
    <3> QED
      BY <3>1, <3>2, Zenon
  <2>4. \A g \in MemFiles : Unused(g)' => data'[g] = <<>>
    BY <1>3, <2>1 DEF RInv, FilesOK
  <2> QED
    BY <2>2, <2>3, <2>4 DEF FilesOK
<1>7. SetsOK' /\ ReadTypeOK' /\ \A v \in Users : Elements(v)' = Elements(v)
  BY <1>2, SetsStay DEF RInv, ReadTypeOK, readVars
<1>8. UserOK(u)'
  <2>1. Describes(u, Written(u), Cardinality(Used(u)))
    BY WrittenDescribes DEF RInv
  <2>2. Len(Written(u)) \in Nat /\ Written(u)' = Written(u)
    BY <1>2, <2>1, SetsStay DEF Describes
  <2>3. WriterOK(u)'
    BY <1>3, <2>2 DEF WriterOK
  <2> QED
    BY <1>3, <2>3 DEF UserOK
<1>9. ASSUME NEW v \in Users \ {u}, Holds(v) PROVE data'[handle[v].file] = data[handle[v].file]
  <2>1. handle[v].kind # "none" /\ handle[v].file \in MemFiles
    BY <1>9 DEF Holds, Writing, RInv, IInv, TypeOK
  <2>2. LockName # NoName
    BY FileAssumption, SharedAssumption
  <2>3. handle[v].file # f
    BY <1>2, <1>5, <2>1, <2>2 DEF New, Unused, RInv, IInv, PlainIsLocked, LockIsExclusive
  <2> QED
    BY <1>3, <2>1, <2>3
<1>10. \A v \in Users \ {u} : Waits(v)
  BY <1>2, <1>3, <1>9, OthersWaitFor DEF readVars
<1>11. RInv' /\ \A v \in Users \ {u} : value'[v] = value[v] /\ opened'[v] = opened[v]
  BY <1>6, <1>7, <1>8, <1>10, OthersWait DEF RInv
<1>12. value' = value /\ opened' = opened /\ failed' = failed
  <2>1. value'[u] = value[u] /\ opened'[u] = opened[u]
    BY <1>2, <1>3, <1>7 DEF value, opened, Idle
  <2> QED
    BY <1>2, <1>11, <2>1, Shapes DEF readVars
<1>13. saved' = [saved EXCEPT ![PlainName] = Damaged]
  <2>1. saved'[PlainName] = Damaged
    BY <1>3, <1>4 DEF saved, SetIn
  <2>2. ASSUME NEW n \in AtomicNames PROVE saved'[n] = saved[n]
    <3>1. files'[n] = files[n] /\ (files[n] \in MemFiles => files[n] # f)
      BY <1>2, <1>3, <1>4, <1>5 DEF RInv, IInv, NamesDiffer, New, Unused
    <3> QED
      BY <1>2, <1>3, <1>4, <3>1 DEF saved
  <2> QED
    BY <2>1, <2>2, Shapes DEF AbstractNames
<1>14. Saved!Overwrite(PlainName)
  BY <1>12, <1>13 DEF Saved!Overwrite
<1> QED
  BY <1>11, <1>14 DEF Simulates, Saved!Next

\* A writer writes the next chunk of its set.
LEMMA NextChunkSimulates ==
    ASSUME RInv, IInv', NEW u \in Users, Writing(u), SetBecomes(u, Elements(u)), Written(u)' = Written(u),
           Progress(u) < Len(Written(u)), Write(u, Written(u)[Progress(u) + 1]), UNCHANGED readVars
    PROVE  RInv' /\ Simulates
<1> DEFINE f == handle[u].file
           w == Written(u)
           c == data[f]
<1>1. /\ f \in MemFiles /\ c \in Seq(Pieces) /\ data \in [MemFiles -> Seq(Pieces)]
      /\ handle[u].kind \in {"out", "atomic"} /\ UNCHANGED <<files, handle, lock>>
  BY DEF Writing, RInv, IInv, TypeOK, FilesOK, Write
<1>2. PICK n : Describes(u, w, n)
  BY WrittenDescribes DEF RInv
<1>3. n \in Nat /\ Len(w) = 1 + 2 * n /\ Len(c) \in Nat /\ Len(c) < Len(w)
  BY <1>1, <1>2 DEF Describes, Progress
<1>4. \A p \in 1..Len(c) : c[p] = w[p]
  BY DEF RInv, UsersOK, UserOK, WriterOK
<1>5. data' = [data EXCEPT ![f] = Append(c, w[Len(c) + 1])]
  BY DEF Write, Progress
<1> DEFINE d == Append(c, w[Len(c) + 1])
<1>6. w[Len(c) + 1] \in Pieces
  <2>1. Len(c) + 1 \in 1..Len(w)
    BY <1>3
  <2> QED
    BY <2>1, WrittenArePieces DEF RInv
<1>7. /\ d \in Seq(Pieces) /\ Len(d) = Len(c) + 1 /\ d # <<>>
      /\ \A p \in 1..Len(c) : d[p] = c[p]
      /\ d[Len(c) + 1] = w[Len(c) + 1]
  <2> HIDE DEF w, c
  <2> QED
    BY <1>1, <1>6
<1>8. data'[f] = d /\ (\A g \in MemFiles \ {f} : data'[g] = data[g]) /\ data' \in [MemFiles -> Seq(Pieces)]
  BY <1>1, <1>5, <1>7
<1> HIDE DEF d
<1>9. Len(d) <= Len(w) /\ \A p \in 1..Len(d) : d[p] = w[p]
  <2> HIDE DEF c, w
  <2> QED
    BY <1>3, <1>4, <1>7
<1>10. /\ Len(d) < Len(w) => SetIn(d) = Damaged
       /\ Len(d) = Len(w) => SetIn(d) = Elements(u)
       /\ Begins(d, d[1][2])
  BY <1>2, <1>7, <1>9, PrefixIsSet DEF RInv
<1>11. FilesOK'
  <2>1. \A g \in MemFiles : data'[g] = <<>> \/ Begins(data'[g], data'[g][1][2])
    <3> SUFFICES ASSUME NEW g \in MemFiles, data'[g] # <<>> PROVE Begins(data'[g], data'[g][1][2])
      OBVIOUS
    <3>1. CASE g = f
      BY <1>8, <1>10, <3>1, Zenon
    <3>2. CASE g # f
      <4>1. data'[g] = data[g]
        BY <1>8, <3>2
      <4>2. data[g] = <<>> \/ Begins(data[g], data[g][1][2])
        BY DEF RInv, FilesOK
      <4> QED
        BY <4>1, <4>2, Zenon
    <3> QED
      BY <3>1, <3>2
  <2>2. ASSUME NEW g \in MemFiles, Unused(g)' PROVE data'[g] = <<>>
    <3>1. Unused(g)
      BY <1>1, <2>2 DEF Unused
    <3>2. g # f
      BY <3>1 DEF Unused
    <3> QED
      BY <1>8, <3>1, <3>2 DEF RInv, FilesOK
  <2> QED
    BY <1>8, <2>1, <2>2 DEF FilesOK
<1>12. SetsOK' /\ ReadTypeOK' /\ OthersStay(u)
  BY DEF SetBecomes, RInv, ReadTypeOK, readVars
<1>13. UserOK(u)'
  <2>1. WriterOK(u)'
    BY <1>1, <1>8, <1>9 DEF WriterOK
  <2> QED
    BY <1>1, <2>1 DEF UserOK
<1>14. ASSUME NEW v \in Users \ {u}, Holds(v) PROVE data'[handle[v].file] = data[handle[v].file]
  <2>1. handle[v].file \in MemFiles
    BY <1>14 DEF Holds, Writing, RInv, IInv, TypeOK
  <2>2. handle[v].file # f
    BY <1>14, WritersAreNotReaders, WritersDiffer DEF RInv, Holds, Writing, Unsaved
  <2> QED
    BY <1>8, <2>1, <2>2
<1>15. \A v \in Users \ {u} : Waits(v)
  BY <1>1, <1>12, <1>14 DEF Waits, OthersStay, readVars
<1>16. RInv' /\ \A v \in Users \ {u} : value'[v] = value[v] /\ opened'[v] = opened[v]
  BY <1>11, <1>12, <1>13, <1>15, OthersWait DEF RInv
<1>17. value' = value /\ opened' = opened /\ failed' = failed /\ value[u] = Elements(u)
  <2>1. value'[u] = value[u] /\ opened'[u] = opened[u] /\ value[u] = Elements(u)
    BY <1>1 DEF value, opened, SetBecomes
  <2> QED
    BY <1>16, <2>1, Shapes DEF readVars
<1>18. CASE handle[u].kind = "out"
  <2>1. f = files[PlainName] /\ f # NoFile /\ PlainName \in Names /\ AtomicNames \subseteq Names /\ PlainName \notin AtomicNames
    BY <1>1, <1>18, FileAssumption, SharedAssumption DEF RInv, IInv, PlainIsLocked
  <2>2. saved'[PlainName] = SetIn(d)
    BY <1>1, <1>8, <2>1 DEF saved
  <2>3. ASSUME NEW m \in AtomicNames PROVE saved'[m] = saved[m]
    <3>1. files[m] # f /\ files[m] \in MemFiles \cup {NoFile}
      BY <2>1 DEF RInv, IInv, NamesDiffer, TypeOK
    <3> QED
      BY <1>1, <1>8, <3>1 DEF saved
  <2>4. saved' = [saved EXCEPT ![PlainName] = SetIn(d)]
    BY <2>2, <2>3, Shapes DEF AbstractNames
  <2>5. CASE Len(d) < Len(w)
    <3>1. Saved!Overwrite(PlainName)
      BY <1>10, <1>17, <2>4, <2>5 DEF Saved!Overwrite
    <3> QED
      BY <1>16, <3>1 DEF Simulates, Saved!Next
  <2>6. CASE Len(d) = Len(w)
    <3>1. value[u] # Loading
      BY <1>17, MarkersAreNoSets DEF RInv
    <3>2. Saved!Save(u, PlainName)
      BY <1>10, <1>17, <2>4, <2>6, <3>1 DEF Saved!Save
    <3> QED
      BY <1>16, <3>2, SharedAssumption DEF Simulates, Saved!Next
  <2> QED
    BY <1>3, <1>7, <1>9, <2>5, <2>6
<1>19. CASE handle[u].kind = "atomic"
  <2>1. \A m \in Names : files[m] # f
    BY <1>19 DEF RInv, IInv, UnsavedIsPrivate, Unsaved, Writing
  <2>2. SavedStays
    BY <1>1, <1>8, <2>1, SavedStaysIf, SharedAssumption DEF AbstractNames
  <2> QED
    BY <1>16, <1>17, <2>2, Stutters
<1> QED
  BY <1>1, <1>18, <1>19

LEMMA WriteCountSimulates ==
    ASSUME RInv, IInv', NEW u \in Users, WriteCount(u)
    PROVE  RInv' /\ Simulates
<1>1. Writing(u) /\ Progress(u) = 0 /\ Write(u, Written(u)[1]) /\ UNCHANGED readVars /\ SetsOK
  BY DEF WriteCount, RInv
<1>2. SetBecomes(u, Elements(u)) /\ \A i \in Indexes : heap'[<<u, i>>] = heap[<<u, i>>]
  BY <1>1, KeepBlocksBecomes DEF WriteCount, Compact, Used
<1>3. Written(u)' = Written(u)
  BY <1>1, <1>2, BitsStay DEF SetBecomes
<1>4. Progress(u) < Len(Written(u)) /\ Progress(u) + 1 = 1
  BY <1>1, WrittenDescribes DEF Describes
<1> QED
  BY <1>1, <1>2, <1>3, <1>4, NextChunkSimulates

LEMMA WriteNextSimulates ==
    ASSUME RInv, IInv', NEW u \in Users, WriteNext(u)
    PROVE  RInv' /\ Simulates
<1>1. /\ Writing(u) /\ Progress(u) \in 1..(Len(Written(u)) - 1) /\ Write(u, Written(u)[Progress(u) + 1])
      /\ UNCHANGED <<setVars, readVars>>
  BY DEF WriteNext
<1>2. SetBecomes(u, Elements(u)) /\ Written(u)' = Written(u)
  BY <1>1, SetsStay DEF SetBecomes, OthersStay, setVars
<1>3. Progress(u) < Len(Written(u))
  <2>1. PICK n \in Nat : Len(Written(u)) = 1 + 2 * n
    BY WrittenDescribes DEF Describes, RInv
  <2> QED
    BY <1>1, <2>1
<1> QED
  BY <1>1, <1>2, <1>3, NextChunkSimulates

\* A step that only gives up, takes or moves names, or closes a handle that
\* nobody reads from: u is the only one it may concern.
LEMMA DirectoryStep ==
    ASSUME RInv, IInv', NEW u \in Users, UNCHANGED <<setVars, readVars>>, data' = Collected(data),
           \A v \in Users \ {u} : handle'[v] = handle[v],
           UserOK(u)', value'[u] = value[u], opened'[u] = opened[u]
    PROVE  /\ RInv' /\ value' = value /\ opened' = opened /\ failed' = failed
           /\ SavedStays => Simulates
<1>1. FilesOK' /\ SetsOK' /\ ReadTypeOK'
  BY CollectedFiles, SetsStay DEF RInv, ReadTypeOK, readVars
<1>2. \A v \in Users \ {u} : Waits(v)
  BY CollectedFiles, OthersWaitFor DEF readVars
<1>3. RInv' /\ \A v \in Users \ {u} : value'[v] = value[v] /\ opened'[v] = opened[v]
  BY <1>1, <1>2, OthersWait DEF RInv
<1>4. value' = value /\ opened' = opened /\ failed' = failed
  BY <1>3, Shapes DEF readVars
<1>5. SavedStays => Simulates
  BY <1>4, Stutters
<1> QED
  BY <1>3, <1>4, <1>5

LEMMA CommitFileSimulates ==
    ASSUME RInv, IInv', NEW u \in Users, CommitFile(u)
    PROVE  RInv' /\ Simulates
<1> DEFINE f == handle[u].file
           name == handle[u].name
<1>1. /\ handle[u].kind = "atomic" /\ UNCHANGED <<setVars, readVars>> /\ data' = Collected(data)
      /\ files' = IF handle[u].committed THEN files ELSE [files EXCEPT ![name] = f]
      /\ handle' = [handle EXCEPT ![u].committed = TRUE]
      /\ Progress(u) = Len(Written(u))
  BY DEF CommitFile, Commit
<1>2. /\ handle \in [Users -> Handles] /\ f \in MemFiles /\ name \in AtomicNames
      /\ DOMAIN files = Names /\ AtomicNames \subseteq Names /\ PlainName \in Names
      /\ \A n \in Names : files[n] \in MemFiles \cup {NoFile}
  BY <1>1, SharedAssumption DEF RInv, IInv, TypeOK
<1>3. /\ handle'[u].kind = "atomic" /\ handle'[u].committed
      /\ \A v \in Users \ {u} : handle'[v] = handle[v]
  BY <1>1, <1>2 DEF Handles
<1>4. UserOK(u)'
  BY <1>3 DEF UserOK, Writing
<1>5. value'[u] = value[u] /\ opened'[u] = opened[u] /\ value[u] = Elements(u)
  BY <1>1, <1>3, SetsStay DEF value, opened
<1>6. /\ RInv' /\ value' = value /\ opened' = opened /\ failed' = failed
      /\ SavedStays => Simulates
  BY <1>1, <1>3, <1>4, <1>5, DirectoryStep
<1>7. \A n \in Names : files'[n] \in MemFiles => data'[files'[n]] = data[files'[n]]
  BY <1>1, CollectedFiles
<1>8. CASE handle[u].committed
  <2>1. SavedStays
    BY <1>1, <1>2, <1>7, <1>8, SavedStaysIf DEF AbstractNames
  <2> QED
    BY <1>6, <2>1
<1>9. CASE ~handle[u].committed
  <2>1. files'[name] = f /\ \A n \in Names \ {name} : files'[n] = files[n]
    BY <1>1, <1>2, <1>9
  <2>2. SetIn(data[f]) = Elements(u)
    <3>1. WriterOK(u)
      BY <1>1, <1>9 DEF RInv, UsersOK, UserOK, Writing
    <3>2. data[f] \in Seq(Pieces)
      BY <1>2 DEF RInv, FilesOK
    <3>3. PICK n : Describes(u, Written(u), n)
      BY WrittenDescribes DEF RInv
    <3>4. Len(data[f]) = Len(Written(u)) /\ Len(data[f]) <= Len(Written(u))
      BY <1>1, <3>1 DEF Progress, WriterOK
    <3> QED
      BY <3>1, <3>2, <3>3, <3>4, PrefixIsSet DEF RInv, WriterOK
  <2>3. saved'[name] = Elements(u)
    <3>1. f # NoFile
      BY <1>2, FileAssumption
    <3>2. data'[f] = data[f]
      BY <1>2, <1>7, <2>1
    <3> QED
      BY <1>2, <2>1, <2>2, <3>1, <3>2 DEF saved
  <2>4. ASSUME NEW n \in AbstractNames, n # name PROVE saved'[n] = saved[n]
    <3>1. n \in Names /\ files'[n] = files[n] /\ (files[n] = NoFile \/ files[n] \in MemFiles)
      BY <1>2, <2>1, <2>4 DEF AbstractNames
    <3>2. files[n] \in MemFiles => data'[files[n]] = data[files[n]]
      BY <1>7, <3>1
    <3> QED
      BY <3>1, <3>2 DEF saved, AbstractNames
  <2>5. saved' = [saved EXCEPT ![name] = value[u]]
    BY <1>2, <1>5, <2>3, <2>4, Shapes DEF AbstractNames
  <2>6. value[u] # Loading
    BY <1>5, MarkersAreNoSets DEF RInv
  <2>7. Saved!Save(u, name)
    BY <1>6, <2>5, <2>6 DEF Saved!Save
  <2> QED
    BY <1>2, <1>6, <2>7, SharedAssumption DEF Simulates, Saved!Next
<1> QED
  BY <1>8, <1>9

LEMMA EndWriteSimulates ==
    ASSUME RInv, IInv', NEW u \in Users, EndWrite(u)
    PROVE  RInv' /\ Simulates
<1>1. /\ handle[u].kind \in {"out", "atomic"} /\ UNCHANGED <<setVars, readVars, files>>
      /\ handle' = [handle EXCEPT ![u] = Closed] /\ data' = Collected(data)
  BY DEF EndWrite, CloseFile
<1>2. /\ handle'[u].kind = "none" /\ \A v \in Users \ {u} : handle'[v] = handle[v]
      /\ \A n \in AbstractNames : n \in Names
  BY <1>1, SharedAssumption DEF RInv, IInv, TypeOK, Closed, AbstractNames
<1>3. UserOK(u)'
  BY <1>2 DEF UserOK, Writing
<1>4. value'[u] = value[u] /\ opened'[u] = opened[u]
  BY <1>1, <1>2, SetsStay DEF value, opened
<1>5. SavedStays
  BY <1>1, <1>2, CollectedFiles, SavedStaysIf
<1> QED
  BY <1>1, <1>2, <1>3, <1>4, <1>5, DirectoryStep

-----------------------------------------------------------------------------
(* Names and locks                                                         *)

\* A step that leaves every handle alone.
LEMMA NamesStep ==
    ASSUME RInv, IInv', UNCHANGED <<setVars, readVars, handle>>, data' = Collected(data)
    PROVE  /\ RInv' /\ value' = value /\ opened' = opened /\ failed' = failed
           /\ SavedStays => Simulates
<1>1. FilesOK' /\ SetsOK' /\ ReadTypeOK'
  BY CollectedFiles, SetsStay DEF RInv, ReadTypeOK, readVars
<1>2. \A v \in Users : Waits(v)
  BY CollectedFiles DEF Waits, setVars, readVars
<1>3. \A v \in Users : UserOK(v)' /\ value'[v] = value[v] /\ opened'[v] = opened[v]
  BY <1>1, <1>2, WaitingStays
<1>4. value' = value /\ opened' = opened /\ failed' = failed
  BY <1>3, Shapes DEF readVars
<1> QED
  BY <1>1, <1>3, <1>4, Stutters DEF RInv, UsersOK

LEMMA TakeLockSimulates ==
    ASSUME RInv, IInv', NEW u \in Users, TakeLock(u)
    PROVE  RInv' /\ Simulates
<1>1. PICK f \in MemFiles : New(f) /\ files' = [files EXCEPT ![LockName] = f]
  BY DEF TakeLock, Lock
<1>2. UNCHANGED <<setVars, readVars, data, handle>> /\ files[LockName] = NoFile /\ DOMAIN files = Names
  BY DEF TakeLock, Lock, RInv, IInv, TypeOK
<1>3. LockName \in Names /\ LockName \notin AbstractNames /\ AbstractNames \subseteq Names
  BY SharedAssumption DEF AbstractNames
<1>4. \A n \in Names \ {LockName} : files'[n] = files[n]
  BY <1>1, <1>2
<1>5. FilesOK'
  <2>1. \A g \in MemFiles : Unused(g)' => Unused(g)
    BY <1>2, <1>4, FileAssumption DEF Unused
  <2> QED
    BY <1>2, <2>1, SameFiles
<1>6. SetsOK' /\ ReadTypeOK'
  BY <1>2, SetsStay DEF RInv, ReadTypeOK, readVars
<1>7. \A v \in Users : Waits(v)
  BY <1>2 DEF Waits, setVars, readVars
<1>8. \A v \in Users : UserOK(v)' /\ value'[v] = value[v] /\ opened'[v] = opened[v]
  BY <1>6, <1>7, WaitingStays
<1>9. SavedStays
  BY <1>2, <1>3, <1>4, SavedStaysIf
<1> QED
  BY <1>2, <1>5, <1>6, <1>8, <1>9, Stutters DEF RInv, UsersOK, readVars

LEMMA ReleaseLockSimulates ==
    ASSUME RInv, IInv', NEW u \in Users, ReleaseLock(u)
    PROVE  RInv' /\ Simulates
<1>1. /\ UNCHANGED <<setVars, readVars, handle>> /\ data' = Collected(data)
      /\ files' = [files EXCEPT ![lock[u]] = NoFile] /\ lock[u] # NoName
  BY DEF ReleaseLock, Unlock, RemoveFile
<1>2. /\ lock[u] = LockName /\ DOMAIN files = Names
      /\ LockName \in Names /\ LockName \notin AbstractNames /\ AbstractNames \subseteq Names
  BY <1>1, SharedAssumption DEF RInv, IInv, TypeOK, AbstractNames
<1>3. \A n \in AbstractNames : files'[n] = files[n]
  BY <1>1, <1>2
<1>4. SavedStays
  BY <1>1, <1>2, <1>3, CollectedFiles, SavedStaysIf
<1> QED
  BY <1>1, <1>4, NamesStep

LEMMA RenameFileSimulates ==
    ASSUME RInv, IInv', RenameFile
    PROVE  RInv' /\ Simulates
<1>1. PICK m \in AtomicNames, n \in AtomicNames :
        /\ files[m] # NoFile /\ UNCHANGED <<setVars, readVars, handle>> /\ data' = Collected(data)
        /\ files' = [k \in Names |-> IF k = n THEN files[m] ELSE IF k = m THEN NoFile ELSE files[k]]
  BY DEF RenameFile, Rename
<1>2. AbstractNames \subseteq Names /\ PlainName \notin AtomicNames /\ \A k \in Names : files[k] = NoFile \/ files[k] \in MemFiles
  BY SharedAssumption DEF RInv, IInv, TypeOK, AbstractNames
<1>3. /\ RInv' /\ value' = value /\ opened' = opened /\ failed' = failed
  BY <1>1, NamesStep
<1>4. \A k \in Names : files'[k] \in MemFiles => data'[files'[k]] = data[files'[k]]
  BY <1>1, CollectedFiles
<1>5. ASSUME NEW k \in AbstractNames
      PROVE  saved'[k] = IF k = n THEN saved[m] ELSE IF k = m THEN Nothing ELSE saved[k]
  <2>1. files'[k] = IF k = n THEN files[m] ELSE IF k = m THEN NoFile ELSE files[k]
    BY <1>1, <1>2
  <2>2. files'[k] = NoFile \/ data'[files'[k]] = data[files'[k]]
    BY <1>2, <1>4, <2>1 DEF AbstractNames
  <2>3. saved'[k] = IF files'[k] = NoFile THEN Nothing ELSE SetIn(data[files'[k]])
    BY <2>2 DEF saved, AbstractNames
  <2> QED
    BY <2>1, <2>3 DEF saved, AbstractNames
<1>6. saved[m] # Nothing
  <2>1. files[m] \in MemFiles
    BY <1>1, <1>2 DEF AbstractNames
  <2>2. saved[m] = SetIn(data[files[m]])
    BY <1>1 DEF saved
  <2> QED
    BY <2>1, <2>2, FilesHoldSets, SharedAssumption DEF RInv
<1>7. saved' = [k \in AbstractNames |-> IF k = n THEN saved[m] ELSE IF k = m THEN Nothing ELSE saved[k]]
  BY <1>5, Shapes
<1>8. Saved!Move(m, n)
  BY <1>3, <1>6, <1>7 DEF Saved!Move, AbstractNames
<1>9. m \in (AtomicNames \cup {PlainName}) \ {PlainName} /\ n \in (AtomicNames \cup {PlainName}) \ {PlainName}
  BY <1>2
<1> QED
  BY <1>3, <1>8, <1>9 DEF Simulates, Saved!Next

LEMMA DropFileSimulates ==
    ASSUME RInv, IInv', DropFile
    PROVE  RInv' /\ Simulates
<1>1. PICK n \in AtomicNames :
        /\ UNCHANGED <<setVars, readVars, handle>> /\ data' = Collected(data)
        /\ files' = [files EXCEPT ![n] = NoFile]
  BY DEF DropFile, RemoveFile
<1>2. /\ AbstractNames \subseteq Names /\ PlainName \notin AtomicNames /\ DOMAIN files = Names
      /\ \A k \in Names : files[k] = NoFile \/ files[k] \in MemFiles
  BY SharedAssumption DEF RInv, IInv, TypeOK, AbstractNames
<1>3. /\ RInv' /\ value' = value /\ opened' = opened /\ failed' = failed
  BY <1>1, NamesStep
<1>4. \A k \in Names : files'[k] \in MemFiles => data'[files'[k]] = data[files'[k]]
  BY <1>1, CollectedFiles
<1>5. ASSUME NEW k \in AbstractNames PROVE saved'[k] = IF k = n THEN Nothing ELSE saved[k]
  <2>1. files'[k] = IF k = n THEN NoFile ELSE files[k]
    BY <1>1, <1>2
  <2>2. files'[k] = NoFile \/ data'[files'[k]] = data[files'[k]]
    BY <1>2, <1>4, <2>1 DEF AbstractNames
  <2> QED
    BY <2>1, <2>2 DEF saved, AbstractNames
<1>6. saved' = [saved EXCEPT ![n] = Nothing]
  BY <1>5, Shapes
<1>7. Saved!Drop(n)
  BY <1>3, <1>6 DEF Saved!Drop
<1>8. n \in (AtomicNames \cup {PlainName}) \ {PlainName}
  BY <1>2
<1> QED
  BY <1>3, <1>7, <1>8 DEF Simulates, Saved!Next

-----------------------------------------------------------------------------
(* Sets that are read                                                      *)

\* A reader has a place in a file that begins as that of a set.
LEMMA ReaderFacts ==
    ASSUME RInv, NEW u \in Users, handle[u].kind = "in"
    PROVE  /\ handle[u].file \in MemFiles /\ handle[u].pos \in Nat
           /\ data[handle[u].file] \in Seq(Pieces) /\ Len(data[handle[u].file]) \in Nat
           /\ handle[u].pos <= Len(data[handle[u].file])
           /\ data[handle[u].file] # <<>> => Begins(data[handle[u].file], data[handle[u].file][1][2])
           /\ handle[u].pos > 0 => HasRead(u, data[handle[u].file], handle[u].pos)
<1>1. handle[u].file \in MemFiles /\ handle[u].pos \in Nat
  BY DEF RInv, IInv, TypeOK, Handles
<1>2. data[handle[u].file] \in Seq(Pieces) /\ Len(data[handle[u].file]) \in Nat
  BY <1>1 DEF RInv, FilesOK
<1>3. data[handle[u].file] # <<>> => Begins(data[handle[u].file], data[handle[u].file][1][2])
  BY <1>1 DEF RInv, FilesOK
<1>4. ReaderOK(u)
  BY DEF RInv, UsersOK, UserOK
<1> QED
  BY <1>1, <1>2, <1>3, <1>4 DEF ReaderOK

LEMMA StartLoadSimulates ==
    ASSUME RInv, IInv', NEW u \in Users, StartLoad(u)
    PROVE  RInv' /\ Simulates
<1>1. PICK n \in AbstractNames :
        /\ files[n] # NoFile /\ UNCHANGED <<files, data, lock>>
        /\ handle' = [handle EXCEPT ![u] = [Closed EXCEPT !.kind = "in", !.file = files[n], !.name = n]]
  BY DEF StartLoad, OpenFile, AbstractNames
<1>2. /\ Idle(u) /\ UNCHANGED <<setVars, readVars>> /\ DOMAIN handle = Users
      /\ n \in Names /\ files[n] \in MemFiles
  BY <1>1, SharedAssumption DEF StartLoad, RInv, IInv, TypeOK, AbstractNames
<1>3. /\ handle'[u].kind = "in" /\ handle'[u].file = files[n] /\ handle'[u].pos = 0
      /\ \A v \in Users \ {u} : handle'[v] = handle[v]
  BY <1>1, <1>2 DEF Closed
<1>4. FilesOK'
  <2>1. handle[u].file = NoFile /\ NoFile \notin MemFiles
    BY <1>2, FileAssumption DEF RInv, IInv, TypeOK, Idle
  <2>2. \A g \in MemFiles : Unused(g)' => Unused(g)
    BY <1>1, <1>3, <2>1 DEF Unused
  <2> QED
    BY <1>1, <2>2, SameFiles
<1>5. SetsOK' /\ ReadTypeOK' /\ \A v \in Users : Elements(v)' = Elements(v)
  BY <1>2, SetsStay DEF RInv, ReadTypeOK, readVars
<1>6. UserOK(u)'
  <2>1. data[files[n]] \in Seq(Pieces)
    BY <1>2 DEF RInv, FilesOK
  <2>2. ReaderOK(u)'
    BY <1>1, <1>3, <2>1 DEF ReaderOK
  <2> QED
    BY <1>3, <2>2 DEF UserOK, Writing
<1>7. \A v \in Users \ {u} : Waits(v)
  BY <1>1, <1>2, <1>3, OthersWaitFor DEF readVars
<1>8. RInv' /\ \A v \in Users \ {u} : value'[v] = value[v] /\ opened'[v] = opened[v]
  BY <1>4, <1>5, <1>6, <1>7, OthersWait DEF RInv
<1>9. value' = value /\ saved' = saved /\ failed' = failed
  <2>1. value'[u] = value[u]
    BY <1>2, <1>3, <1>5 DEF value, Idle
  <2> QED
    BY <1>1, <1>2, <1>8, <2>1, Shapes DEF saved, readVars
<1>10. opened[u] = Nothing /\ opened'[u] = saved[n] /\ saved[n] # Nothing
  <2>1. saved[n] = SetIn(data[files[n]])
    BY <1>1 DEF saved, AbstractNames
  <2>2. opened[u] = Nothing /\ opened'[u] = SetIn(data[files[n]])
    BY <1>1, <1>2, <1>3 DEF opened, Idle, SetIn
  <2>3. saved[n] # Nothing
    BY <1>2, <2>1, FilesHoldSets, SharedAssumption DEF RInv
  <2> QED
    BY <2>1, <2>2, <2>3
<1>11. opened' = [opened EXCEPT ![u] = saved[n]]
  BY <1>8, <1>10, Shapes
<1>12. Saved!Open(u, n)
  BY <1>9, <1>10, <1>11 DEF Saved!Open
<1> QED
  BY <1>8, <1>12, SharedAssumption DEF Simulates, Saved!Next, AbstractNames

\* A step that reads one chunk and makes something of it.
LEMMA ReadStep ==
    ASSUME RInv, IInv', NEW u \in Users, Read(u), NEW keys, NEW contents, GetsBlocks(u, keys, contents),
           ReadTypeOK', failed' = failed,
           \A v \in Users \ {u} : left'[v] = left[v] /\ index'[v] = index[v],
           NEW chunks, chunks = data[handle[u].file], NEW next, next = handle[u].pos + 1,
           HasRead(u, chunks, next)'
    PROVE  /\ RInv'
           /\ value' = [value EXCEPT ![u] = Loading] /\ opened[u] # Nothing
           /\ UNCHANGED <<saved, opened, failed>>
<1> DEFINE f == handle[u].file
           p == handle[u].pos
<1>1. /\ handle[u].kind = "in" /\ UNCHANGED <<files, data>> /\ p < Len(data[f])
      /\ handle' = [handle EXCEPT ![u].pos = p + 1] /\ handle \in [Users -> Handles]
      /\ f \in MemFiles /\ p \in Nat
  <2>1. handle[u].kind = "in" /\ ~(p >= Len(data[f])) /\ UNCHANGED <<files, data>> /\ handle' = [handle EXCEPT ![u].pos = p + 1]
    BY DEF Read, AtEnd
  <2>2. Len(data[f]) \in Nat /\ p \in Nat /\ f \in MemFiles
    BY <2>1, ReaderFacts
  <2>3. handle \in [Users -> Handles]
    BY DEF RInv, IInv, TypeOK
  <2> QED
    BY <2>1, <2>2, <2>3
<1>2. /\ handle'[u].kind = "in" /\ handle'[u].file = f /\ handle'[u].pos = p + 1
      /\ \A v \in Users \ {u} : handle'[v] = handle[v]
  BY <1>1 DEF Handles
<1>3. FilesOK'
  <2>1. \A g \in MemFiles : Unused(g)' => Unused(g)
    BY <1>1, <1>2 DEF Unused
  <2> QED
    BY <1>1, <2>1, SameFiles
<1>4. SetsOK' /\ \A v \in Users \ {u} : blocks'[v] = blocks[v] /\ \A i \in Indexes : heap'[<<v, i>>] = heap[<<v, i>>]
  BY GetsBlocksBecomes DEF RInv, SetBecomes, OthersStay
<1>5. UserOK(u)'
  <2>1. p + 1 <= Len(data[f])
    <3>1. Len(data[f]) \in Nat
      BY <1>1, ReaderFacts
    <3> QED
      BY <1>1, <3>1
  <2>2. data'[handle'[u].file] = chunks /\ handle'[u].pos = next /\ next <= Len(chunks)
    BY <1>1, <1>2, <2>1
  <2>3. HasRead(u, data[handle[u].file], handle[u].pos)'
    <3>1. /\ left'[u] = chunks[1][2] - (next - 1) \div 2
          /\ DOMAIN blocks'[u] = {chunks[2 * k][2] : k \in 1..(next \div 2)}
          /\ \A k \in 1..((next - 1) \div 2) : heap'[<<u, chunks[2 * k][2]>>] = chunks[2 * k + 1][2]
          /\ next % 2 = 0 => index'[u] = chunks[next][2]
      BY Zenon DEF HasRead
    <3>2. data'[handle'[u].file] = chunks /\ handle'[u].pos = next
      BY <2>2
    <3> QED
      BY <3>1, <3>2 DEF HasRead
  <2>4. ReaderOK(u)'
    BY <2>2, <2>3 DEF ReaderOK
  <2> QED
    BY <1>2, <2>4 DEF UserOK, Writing
<1>6. \A v \in Users \ {u} : Waits(v)
  BY <1>1, <1>2, <1>4 DEF Waits
<1>7. RInv' /\ \A v \in Users \ {u} : value'[v] = value[v] /\ opened'[v] = opened[v]
  BY <1>3, <1>4, <1>5, <1>6, OthersWait DEF RInv
<1>8. value'[u] = Loading /\ opened'[u] = opened[u] /\ opened[u] # Nothing
  <2>1. value'[u] = Loading
    BY <1>1, <1>2 DEF value
  <2>2. opened[u] = SetIn(data[f]) /\ opened'[u] = SetIn(data[f])
    BY <1>1, <1>2 DEF opened, SetIn
  <2> QED
    BY <1>1, <2>1, <2>2, FilesHoldSets, SharedAssumption DEF RInv
<1>9. value' = [value EXCEPT ![u] = Loading] /\ opened' = opened
  BY <1>7, <1>8, Shapes
<1>10. saved' = saved
  BY <1>1 DEF saved
<1> QED
  BY <1>7, <1>8, <1>9, <1>10

LEMMA ReadCountSimulates ==
    ASSUME RInv, IInv', NEW u \in Users, ReadCount(u)
    PROVE  RInv' /\ Simulates
<1>1. PICK c : c = data[handle[u].file]
  OBVIOUS
<1>2. /\ handle[u].kind = "in" /\ handle[u].pos = 0 /\ Read(u) /\ ~(0 >= Len(c))
      /\ left' = [left EXCEPT ![u] = c[1][2]] /\ index' = index /\ failed' = failed
      /\ MakeSet(u, <<>>)
  BY <1>1 DEF ReadCount, Read, NextPiece, AtEnd
<1>3. c # <<>> /\ Begins(c, c[1][2]) /\ c[1][2] \in Nat
  <2>1. c # <<>>
    BY <1>2
  <2>2. Begins(c, c[1][2])
    BY <1>1, <1>2, <2>1, ReaderFacts
  <2> QED
    BY <2>1, <2>2 DEF Begins
<1>4. ReadTypeOK' /\ left'[u] = c[1][2] /\ \A v \in Users \ {u} : left'[v] = left[v] /\ index'[v] = index[v]
  BY <1>2, <1>3 DEF RInv, ReadTypeOK
<1> DEFINE all == [i \in Indexes |-> IF i \in DOMAIN <<>> THEN <<>>[i] ELSE {}]
<1>5. DOMAIN <<>> = {}
  OBVIOUS
<1>6. GetsBlocks(u, DOMAIN <<>>, all)
  <2>1. DOMAIN <<>> \subseteq Indexes
    BY <1>5
  <2>2. \A i \in DOMAIN <<>> : <<>>[i] \subseteq Bits /\ \A k \in <<>>[i] : i * BlockBits + k \in Universe
    BY <1>5
  <2> QED
    BY <1>2, <2>1, <2>2, MakeSetGets DEF RInv
<1>7. DOMAIN blocks'[u] = {}
  BY <1>5, <1>6, GetsBlocksKeeps DEF RInv
<1>8. HasRead(u, c, 1)'
  <2>1. 1 \div 2 = 0 /\ (1 - 1) \div 2 = 0 /\ 1 % 2 # 0 /\ c[1][2] - 0 = c[1][2] /\ 1..0 = {}
    BY <1>3
  <2>2. {c[2 * k][2] : k \in 1..0} = {}
    BY <2>1
  <2> QED
    BY <1>4, <1>7, <2>1, <2>2 DEF HasRead
<1>9. handle[u].pos + 1 = 1
  BY <1>2
<1> HIDE DEF all
<1>10. /\ RInv' /\ value' = [value EXCEPT ![u] = Loading] /\ opened[u] # Nothing
       /\ UNCHANGED <<saved, opened, failed>>
  BY <1>1, <1>2, <1>4, <1>6, <1>8, <1>9, ReadStep
<1>11. Saved!Load(u)
  BY <1>10 DEF Saved!Load
<1> QED
  BY <1>10, <1>11, SharedAssumption DEF Simulates, Saved!Next

\* Reading on, the set stays one that is being loaded.
LEMMA ReadingStutters ==
    ASSUME NEW u \in Users, handle[u].kind = "in", handle[u].pos > 0,
           value' = [value EXCEPT ![u] = Loading], UNCHANGED <<saved, opened, failed>>
    PROVE  Simulates
<1>1. value[u] = Loading
  BY DEF value
<1>2. value' = value
  BY <1>1, Shapes
<1> QED
  BY <1>2 DEF Simulates, Saved!vars

LEMMA ReadIndexSimulates ==
    ASSUME RInv, IInv', NEW u \in Users, ReadIndex(u)
    PROVE  RInv' /\ Simulates
<1>1. PICK c : c = data[handle[u].file]
  OBVIOUS
<1>2. PICK p : p = handle[u].pos
  OBVIOUS
<1>3. PICK j : j = c[p + 1][2]
  OBVIOUS
<1> DEFINE contents == [i \in DOMAIN blocks[u] \cup {j} |-> IF i = j THEN {} ELSE BlockOf(u, i)]
           all == [i \in Indexes |-> IF i \in DOMAIN contents THEN contents[i] ELSE {}]
<1>4. /\ handle[u].kind = "in" /\ p % 2 = 1 /\ Read(u) /\ ~(p >= Len(c))
      /\ index' = [index EXCEPT ![u] = j] /\ left' = left /\ failed' = failed
      /\ MakeSet(u, contents)
  BY <1>1, <1>2, <1>3 DEF ReadIndex, Read, NextPiece, AtEnd
<1>5. p \in Nat /\ c \in Seq(Pieces) /\ Len(c) \in Nat /\ p < Len(c) /\ p > 0 /\ HasRead(u, c, p)
  <2>1. p \in Nat /\ c \in Seq(Pieces) /\ Len(c) \in Nat
    BY <1>1, <1>2, <1>4, ReaderFacts
  <2>2. p < Len(c) /\ p > 0
    BY <1>4, <2>1
  <2> QED
    BY <1>1, <1>2, <1>4, <2>1, <2>2, ReaderFacts
<1>6. PICK n : n = c[1][2]
  OBVIOUS
<1>7. Begins(c, n) /\ n \in Nat /\ Len(c) <= 1 + 2 * n
  <2>1. c # <<>>
    BY <1>5
  <2> QED
    BY <1>1, <1>4, <1>6, <2>1, ReaderFacts DEF Begins
<1>8. PICK m \in Nat : p = 2 * m + 1 /\ m + 1 \in 1..n /\ p \div 2 = m /\ (p + 1) \div 2 = m + 1 /\ (p - 1) \div 2 = m /\ (p + 1) % 2 = 0 /\ (p + 1 - 1) \div 2 = m
  <2>1. p = 2 * (p \div 2) + 1 /\ p \div 2 \in Nat
    BY <1>4, <1>5
  <2>2. PICK m \in Nat : m = p \div 2
    BY <2>1
  <2>3. p = 2 * m + 1 /\ m + 1 \in 1..n
    BY <1>5, <1>7, <2>1, <2>2
  <2>4. (p + 1) \div 2 = m + 1 /\ (p - 1) \div 2 = m /\ (p + 1) % 2 = 0 /\ (p + 1 - 1) \div 2 = m
    BY <2>3
  <2> QED
    BY <2>2, <2>3, <2>4
<1>9. /\ left[u] = n - m
      /\ DOMAIN blocks[u] = {c[2 * k][2] : k \in 1..m}
      /\ \A k \in 1..m : heap[<<u, c[2 * k][2]>>] = c[2 * k + 1][2]
  BY <1>5, <1>6, <1>8 DEF HasRead
<1>10. j = c[2 * (m + 1)][2] /\ j \in Indexes
  <2>1. p + 1 = 2 * (m + 1) /\ 2 * (m + 1) <= Len(c)
    BY <1>5, <1>8
  <2> QED
    BY <1>3, <1>7, <1>8, <2>1 DEF Begins
<1>11. \A k \in 1..m : c[2 * k][2] # j /\ c[2 * k][2] \in Indexes
  <2>1. \A k \in 1..m : k \in 1..n /\ 2 * k <= Len(c) /\ k # m + 1 /\ 2 * (m + 1) <= Len(c)
    BY <1>5, <1>7, <1>8
  <2> QED
    BY <1>7, <1>8, <1>10, <2>1 DEF Begins
<1>12. DOMAIN contents = DOMAIN blocks[u] \cup {j} /\ DOMAIN contents \subseteq Indexes
  BY <1>10, ElementsHaveBits DEF RInv
<1>13. \A i \in DOMAIN contents :
           /\ contents[i] \subseteq Bits
           /\ \A k \in contents[i] : i * BlockBits + k \in Universe
  <2> SUFFICES ASSUME NEW i \in DOMAIN contents
               PROVE  contents[i] \subseteq Bits /\ \A k \in contents[i] : i * BlockBits + k \in Universe
    OBVIOUS
  <2>1. contents[i] = {} \/ (i \in DOMAIN blocks[u] /\ contents[i] = heap[<<u, i>>] /\ i \in Indexes)
    BY ElementsHaveBits DEF RInv
  <2>2. i \in Indexes => heap[<<u, i>>] \subseteq Bits /\ \A k \in heap[<<u, i>>] : i * BlockBits + k \in Universe
    BY SharedAssumption DEF RInv, SetsOK, Addresses
  <2> HIDE DEF contents
  <2> QED
    BY <2>1, <2>2
<1>14. GetsBlocks(u, DOMAIN contents, all)
  <2> HIDE DEF contents
  <2> QED
    BY <1>4, <1>12, <1>13, MakeSetGets DEF RInv
<1>15. ReadTypeOK' /\ index'[u] = j /\ \A v \in Users \ {u} : left'[v] = left[v] /\ index'[v] = index[v]
  <2>1. j \in Nat
    BY <1>10, UsedIsFinite DEF RInv
  <2> QED
    BY <1>4, <2>1 DEF RInv, ReadTypeOK
<1>16. HasRead(u, c, p + 1)'
  <2>1. left'[u] = n - m
    BY <1>4, <1>9
  <2>2. DOMAIN blocks'[u] = {c[2 * k][2] : k \in 1..(m + 1)}
    <3>1. DOMAIN blocks'[u] = DOMAIN blocks[u] \cup {j}
      BY <1>12, <1>14, GetsBlocksKeeps DEF RInv
    <3>2. 1..(m + 1) = (1..m) \cup {m + 1}
      BY <1>8
    <3> QED
      BY <1>9, <1>10, <3>1, <3>2
  <2>3. ASSUME NEW k \in 1..m PROVE heap'[<<u, c[2 * k][2]>>] = c[2 * k + 1][2]
    <3>1. PICK i \in Indexes : i = c[2 * k][2] /\ i # j /\ i \in DOMAIN blocks[u]
      BY <1>9, <1>11
    <3>2. contents[i] = heap[<<u, i>>]
      BY <3>1, ElementsHaveBits DEF RInv
    <3>3. all[i] = heap[<<u, i>>]
      BY <1>12, <3>1, <3>2
    <3>4. heap'[<<u, i>>] = all[i]
      BY <1>14, <3>1 DEF GetsBlocks
    <3> QED
      BY <1>9, <3>1, <3>3, <3>4
  <2> HIDE DEF contents, all
  <2> QED
    BY <1>3, <1>6, <1>8, <1>15, <2>1, <2>2, <2>3 DEF HasRead
<1> HIDE DEF contents, all
<1>17. /\ RInv' /\ value' = [value EXCEPT ![u] = Loading]
       /\ UNCHANGED <<saved, opened, failed>>
  <2>1. PICK next : next = p + 1
    OBVIOUS
  <2>2. HasRead(u, c, next)'
    BY <1>16, <2>1
  <2> QED
    BY <1>1, <1>2, <1>4, <1>14, <1>15, <2>1, <2>2, ReadStep
<1>18. Simulates
  BY <1>2, <1>4, <1>5, <1>17, ReadingStutters
<1> QED
  BY <1>17, <1>18

LEMMA ReadBlockSimulates ==
    ASSUME RInv, IInv', NEW u \in Users, ReadBlock(u)
    PROVE  RInv' /\ Simulates
<1>1. PICK c : c = data[handle[u].file]
  OBVIOUS
<1>2. PICK p : p = handle[u].pos
  OBVIOUS
<1>3. PICK j : j = index[u]
  OBVIOUS
<1>4. /\ handle[u].kind = "in" /\ p > 0 /\ p % 2 = 0 /\ Read(u) /\ ~(p >= Len(c))
      /\ left' = [left EXCEPT ![u] = left[u] - 1] /\ index' = [index EXCEPT ![u] = 0] /\ failed' = failed
      /\ blocks' = blocks /\ heap' = [heap EXCEPT ![blocks[u][j]] = c[p + 1][2]]
  BY <1>1, <1>2, <1>3 DEF ReadBlock, Read, NextPiece, AtEnd
<1>5. p \in Nat /\ c \in Seq(Pieces) /\ Len(c) \in Nat /\ p < Len(c) /\ HasRead(u, c, p)
  <2>1. p \in Nat /\ c \in Seq(Pieces) /\ Len(c) \in Nat
    BY <1>1, <1>2, <1>4, ReaderFacts
  <2>2. p < Len(c)
    BY <1>4, <2>1
  <2> QED
    BY <1>1, <1>2, <1>4, <2>1, <2>2, ReaderFacts
<1>6. PICK n : n = c[1][2]
  OBVIOUS
<1>7. Begins(c, n) /\ n \in Nat /\ Len(c) <= 1 + 2 * n
  <2>1. c # <<>>
    BY <1>5
  <2> QED
    BY <1>1, <1>4, <1>6, <2>1, ReaderFacts DEF Begins
<1>8. PICK m \in 1..n : p = 2 * m /\ p \div 2 = m /\ (p + 1) \div 2 = m /\ (p - 1) \div 2 = m - 1 /\ (p + 1) % 2 = 1 /\ (p + 1 - 1) \div 2 = m
  <2>1. p = 2 * (p \div 2) /\ p \div 2 \in Nat
    BY <1>4, <1>5
  <2>2. PICK m \in Nat : m = p \div 2
    BY <2>1
  <2>3. p = 2 * m /\ m \in 1..n
    BY <1>4, <1>5, <1>7, <2>1, <2>2
  <2>4. (p + 1) \div 2 = m /\ (p - 1) \div 2 = m - 1 /\ (p + 1) % 2 = 1 /\ (p + 1 - 1) \div 2 = m
    BY <2>3
  <2> QED
    BY <2>2, <2>3, <2>4
<1>9. /\ left[u] = n - (m - 1)
      /\ DOMAIN blocks[u] = {c[2 * k][2] : k \in 1..m}
      /\ \A k \in 1..(m - 1) : heap[<<u, c[2 * k][2]>>] = c[2 * k + 1][2]
      /\ j = c[2 * m][2]
  BY <1>3, <1>4, <1>5, <1>6, <1>8 DEF HasRead
<1>10. j \in Indexes /\ j \in DOMAIN blocks[u] /\ blocks[u][j] = <<u, j>>
  <2>1. m \in 1..m
    BY <1>8
  <2>2. j \in DOMAIN blocks[u]
    BY <1>9, <2>1
  <2> QED
    BY <2>2, ElementsHaveBits DEF RInv
<1>11. \A k \in 1..(m - 1) : c[2 * k][2] # j /\ c[2 * k][2] \in Indexes
  <2>1. \A k \in 1..(m - 1) : k \in 1..n /\ 2 * k <= Len(c) /\ k # m /\ 2 * m <= Len(c)
    BY <1>5, <1>7, <1>8
  <2> QED
    BY <1>7, <1>8, <1>9, <2>1 DEF Begins
<1>12. PICK bits : bits = c[p + 1][2]
  OBVIOUS
<1>13. bits \subseteq Bits /\ \A k \in bits : j * BlockBits + k \in Universe
  <2>1. 2 * m + 1 <= Len(c) /\ p + 1 = 2 * m + 1
    BY <1>5, <1>8
  <2> QED
    BY <1>7, <1>8, <1>9, <1>12, <2>1 DEF Begins
<1> DEFINE keys == DOMAIN blocks[u]
           all == [i \in Indexes |-> IF i = j THEN bits ELSE heap[<<u, i>>]]
<1>14. GetsBlocks(u, keys, all)
  <2>1. heap' = [heap EXCEPT ![<<u, j>>] = bits]
    BY <1>4, <1>10, <1>12
  <2>2. blocks' = [blocks EXCEPT ![u] = [i \in keys |-> <<u, i>>]]
    <3>1. blocks[u] = [i \in keys |-> <<u, i>>] /\ blocks = [s \in Users |-> blocks[s]]
      BY DEF RInv, SetsOK
    <3> QED
      BY <1>4, <3>1
  <2>3. Addresses = Users \X Indexes /\ keys \subseteq Indexes
    BY SharedAssumption DEF Addresses, RInv, SetsOK
  <2>4. all \in [Indexes -> SUBSET Bits]
    BY <1>13, <2>3 DEF RInv, SetsOK
  <2>5. \A i \in Indexes : (all[i] # {} => i \in keys) /\ \A k \in all[i] : i * BlockBits + k \in Universe
    BY <1>10, <1>13, <2>3 DEF RInv, SetsOK
  <2>6. /\ \A v \in Users, i \in Indexes : heap'[<<v, i>>] = IF v = u THEN all[i] ELSE heap[<<v, i>>]
        /\ heap' = [a \in Addresses |-> heap'[a]] /\ DOMAIN heap' = Addresses
    BY <1>10, <2>1, <2>3 DEF RInv, SetsOK
  <2> QED
    BY <2>2, <2>3, <2>4, <2>5, <2>6 DEF GetsBlocks
<1>15. ReadTypeOK' /\ left'[u] = n - m /\ \A v \in Users \ {u} : left'[v] = left[v] /\ index'[v] = index[v]
  BY <1>4, <1>7, <1>8, <1>9 DEF RInv, ReadTypeOK
<1>16. HasRead(u, c, p + 1)'
  <2>1. DOMAIN blocks'[u] = {c[2 * k][2] : k \in 1..m}
    BY <1>4, <1>9
  <2>2. \A i \in Indexes : heap'[<<u, i>>] = IF i = j THEN bits ELSE heap[<<u, i>>]
    BY <1>14 DEF GetsBlocks
  <2>3. ASSUME NEW k \in 1..m PROVE heap'[<<u, c[2 * k][2]>>] = c[2 * k + 1][2]
    <3>1. CASE k = m
      BY <1>8, <1>9, <1>10, <1>12, <2>2, <3>1
    <3>2. CASE k # m
      <4>1. k \in 1..(m - 1)
        BY <1>8, <3>2
      <4> QED
        BY <1>9, <1>11, <2>2, <4>1
    <3> QED
      BY <3>1, <3>2
  <2>4. PICK next : next = p + 1
    OBVIOUS
  <2>5. next \div 2 = m /\ (next - 1) \div 2 = m /\ next % 2 # 0
    BY <1>8, <2>4
  <2> HIDE DEF all
  <2>6. HasRead(u, c, next)'
    BY <1>6, <1>15, <2>1, <2>3, <2>5 DEF HasRead
  <2> QED
    BY <2>4, <2>6
<1> HIDE DEF keys, all
<1>17. /\ RInv' /\ value' = [value EXCEPT ![u] = Loading]
       /\ UNCHANGED <<saved, opened, failed>>
  <2>1. PICK next : next = p + 1
    OBVIOUS
  <2>2. HasRead(u, c, next)'
    BY <1>16, <2>1
  <2> QED
    BY <1>1, <1>2, <1>4, <1>14, <1>15, <2>1, <2>2, ReadStep
<1>18. Simulates
  BY <1>2, <1>4, <1>17, ReadingStutters
<1> QED
  BY <1>17, <1>18

\* A reader that has all blocks has the set that is in the file, and one that is
\* at the end of the file without them has read a damaged one.
LEMMA WholeSetIsRead ==
    ASSUME RInv, NEW u \in Users, handle[u].kind = "in", EndOfSet(u)
    PROVE  SetIn(data[handle[u].file]) = Elements(u)
<1>1. PICK c : c = data[handle[u].file]
  OBVIOUS
<1>2. PICK p : p = handle[u].pos
  OBVIOUS
<1>3. PICK n : n = c[1][2]
  OBVIOUS
<1>4. p % 2 = 1 /\ left[u] = 0
  BY <1>2 DEF EndOfSet
<1>5. p \in Nat /\ c \in Seq(Pieces) /\ Len(c) \in Nat /\ p <= Len(c)
  BY <1>1, <1>2, ReaderFacts
<1>6. p > 0 /\ HasRead(u, c, p) /\ c # <<>>
  BY <1>1, <1>2, <1>4, <1>5, ReaderFacts
<1>7. n \in Nat /\ Len(c) <= 1 + 2 * n
  BY <1>1, <1>3, <1>6, ReaderFacts DEF Begins
<1>8. left[u] = n - ((p - 1) \div 2)
  BY <1>3, <1>6 DEF HasRead
<1>9. p = 1 + 2 * n /\ (p - 1) \div 2 = n /\ p \div 2 = n /\ Len(c) = 1 + 2 * n
  <2>1. p = 2 * ((p - 1) \div 2) + 1 /\ (p - 1) \div 2 \in Nat
    BY <1>4, <1>5, <1>6
  <2>2. PICK m \in Nat : m = (p - 1) \div 2
    BY <2>1
  <2>3. m = n
    BY <1>4, <1>7, <1>8, <2>2
  <2>4. p = 2 * n + 1
    BY <2>1, <2>2, <2>3
  <2>5. Len(c) = 1 + 2 * n
    BY <1>5, <1>7, <2>4
  <2>6. p \div 2 = n
    BY <1>7, <2>4
  <2> QED
    BY <1>7, <2>2, <2>3, <2>4, <2>5, <2>6
<1>10. /\ DOMAIN blocks[u] = {c[2 * k][2] : k \in 1..n}
       /\ \A k \in 1..n : heap[<<u, c[2 * k][2]>>] = c[2 * k + 1][2]
  BY <1>6, <1>9 DEF HasRead
<1>11. \A k \in 1..n : c[2 * k][2] \in DOMAIN blocks[u] /\ BlockOf(u, c[2 * k][2]) = c[2 * k + 1][2]
  BY <1>10, ElementsHaveBits DEF RInv
<1> DEFINE Part(k) == {c[2 * k][2] * BlockBits + bit : bit \in c[2 * k + 1][2]}
           Mine(i) == {i * BlockBits + bit : bit \in BlockOf(u, i)}
<1>12. SetIn(c) = UNION {Part(k) : k \in 1..n}
  <2>1. ~(Len(c) < 1 + 2 * c[1][2])
    BY <1>3, <1>7, <1>9
  <2> QED
    BY <1>3, <1>6, <2>1, Zenon DEF SetIn
<1>13. Elements(u) = UNION {Mine(i) : i \in DOMAIN blocks[u]}
  BY Zenon DEF Elements
<1>14. \A k \in 1..n : Part(k) = Mine(c[2 * k][2])
  BY <1>11, Zenon
<1> HIDE DEF Part, Mine
<1>15. UNION {Part(k) : k \in 1..n} = UNION {Mine(i) : i \in DOMAIN blocks[u]}
  BY <1>10, <1>14
<1> QED
  BY <1>1, <1>12, <1>13, <1>15

LEMMA PartIsDamaged ==
    ASSUME RInv, NEW u \in Users, handle[u].kind = "in", AtEnd(u), ~EndOfSet(u)
    PROVE  SetIn(data[handle[u].file]) = Damaged
<1>1. PICK c : c = data[handle[u].file]
  OBVIOUS
<1>2. PICK p : p = handle[u].pos
  OBVIOUS
<1>3. PICK n : n = c[1][2]
  OBVIOUS
<1>4. p \in Nat /\ Len(c) \in Nat /\ p = Len(c) /\ c \in Seq(Pieces)
  <2>1. p \in Nat /\ Len(c) \in Nat /\ p <= Len(c) /\ p >= Len(c) /\ c \in Seq(Pieces)
    BY <1>1, <1>2, ReaderFacts DEF AtEnd
  <2> QED
    BY <2>1
<1>5. CASE c = <<>>
  BY <1>1, <1>5 DEF SetIn
<1>6. CASE c # <<>>
  <2>1. n \in Nat /\ Len(c) <= 1 + 2 * n
    BY <1>1, <1>3, <1>6, ReaderFacts DEF Begins
  <2>2. p > 0
    BY <1>4, <1>6
  <2>3. left[u] = n - ((p - 1) \div 2)
    BY <1>1, <1>2, <1>3, <2>2, ReaderFacts DEF HasRead
  <2>4. p # 1 + 2 * n
    <3> SUFFICES ASSUME p = 1 + 2 * n PROVE FALSE
      OBVIOUS
    <3>1. p % 2 = 1 /\ (p - 1) \div 2 = n
      BY <2>1
    <3>2. left[u] = 0
      BY <2>1, <2>3, <3>1
    <3> QED
      BY <1>2, <3>1, <3>2 DEF EndOfSet
  <2>5. Len(c) < 1 + 2 * n
    BY <1>4, <2>1, <2>4
  <2> QED
    BY <1>1, <1>3, <2>5 DEF SetIn
<1> QED
  BY <1>5, <1>6

LEMMA EndLoadSimulates ==
    ASSUME RInv, IInv', NEW u \in Users, EndLoad(u)
    PROVE  RInv' /\ Simulates
<1> DEFINE f == handle[u].file
<1>1. /\ handle[u].kind = "in" /\ (EndOfSet(u) \/ AtEnd(u)) /\ UNCHANGED <<files, setVars>>
      /\ handle' = [handle EXCEPT ![u] = Closed] /\ data' = Collected(data)
      /\ failed' = [failed EXCEPT ![u] = ~EndOfSet(u)]
      /\ left' = [left EXCEPT ![u] = 0] /\ index' = [index EXCEPT ![u] = 0]
  BY DEF EndLoad, CloseFile
<1>2. /\ handle'[u].kind = "none" /\ (\A v \in Users \ {u} : handle'[v] = handle[v])
      /\ AbstractNames \subseteq Names /\ f \in MemFiles
  BY <1>1, SharedAssumption DEF RInv, IInv, TypeOK, Closed, AbstractNames
<1>3. ReadTypeOK' /\ \A v \in Users \ {u} : left'[v] = left[v] /\ index'[v] = index[v]
  <2>1. (~EndOfSet(u)) \in BOOLEAN
    BY Zenon DEF EndOfSet
  <2>2. failed' \in [Users -> BOOLEAN]
    BY <1>1, <2>1, Zenon DEF RInv, ReadTypeOK
  <2>3. left' \in [Users -> Int] /\ index' \in [Users -> Nat]
    BY <1>1 DEF RInv, ReadTypeOK
  <2> QED
    BY <1>1, <2>2, <2>3 DEF RInv, ReadTypeOK
<1>4. FilesOK' /\ SetsOK' /\ Elements(u)' = Elements(u)
  BY <1>1, CollectedFiles, SetsStay
<1>5. UserOK(u)'
  BY <1>2 DEF UserOK, Writing
<1>6. \A v \in Users \ {u} : Waits(v)
  BY <1>1, <1>2, <1>3, CollectedFiles, OthersWaitFor
<1>7. RInv' /\ \A v \in Users \ {u} : value'[v] = value[v] /\ opened'[v] = opened[v]
  BY <1>3, <1>4, <1>5, <1>6, OthersWait DEF RInv
<1>8. saved' = saved
  <2>1. SavedStays
    BY <1>1, <1>2, CollectedFiles, SavedStaysIf
  <2> QED
    BY <2>1, Shapes DEF SavedStays
<1>9. value'[u] = Elements(u) /\ opened'[u] = Nothing /\ opened[u] = SetIn(data[f])
  BY <1>1, <1>2, <1>4 DEF value, opened
<1>10. value' = [value EXCEPT ![u] = Elements(u)] /\ opened' = [opened EXCEPT ![u] = Nothing]
  BY <1>7, <1>9, Shapes
<1>11. CASE EndOfSet(u)
  <2>1. opened[u] = Elements(u) /\ opened[u] # Damaged
    BY <1>1, <1>9, <1>11, WholeSetIsRead, MarkersAreNoSets DEF RInv
  <2>2. value[u] = Loading
    <3>1. handle[u].pos # 0 /\ handle[u].pos \in Nat
      BY <1>1, <1>11, ReaderFacts DEF EndOfSet
    <3>2. handle[u].pos > 0
      BY <3>1
    <3> QED
      BY <1>1, <3>2 DEF value
  <2>3. failed' = [failed EXCEPT ![u] = FALSE]
    BY <1>1, <1>11, Zenon
  <2>4. Saved!Loaded(u)
    BY <1>8, <1>10, <2>1, <2>2, <2>3 DEF Saved!Loaded
  <2> QED
    BY <1>7, <2>4, SharedAssumption DEF Simulates, Saved!Next
<1>12. CASE ~EndOfSet(u)
  <2>1. opened[u] = Damaged
    BY <1>1, <1>9, <1>12, PartIsDamaged
  <2>2. failed' = [failed EXCEPT ![u] = TRUE]
    BY <1>1, <1>12, Zenon
  <2>3. Elements(u) \in SUBSET Universe /\ Elements(u) # Loading
    BY MarkersAreNoSets DEF RInv
  <2>4. Saved!LoadFails(u)
    BY <1>8, <1>9, <1>10, <2>1, <2>2, <2>3 DEF Saved!LoadFails
  <2> QED
    BY <1>7, <2>4, SharedAssumption DEF Simulates, Saved!Next
<1> QED
  BY <1>11, <1>12

-----------------------------------------------------------------------------
LEMMA UnchangedSimulates ==
    ASSUME RInv, UNCHANGED vars
    PROVE  RInv' /\ Simulates
<1>1. RInv'
  <2>1. UNCHANGED <<setVars, fsVars, readVars>>
    BY DEF vars
  <2>2. IInv'
    BY <2>1 DEF RInv, IInv, TypeOK, LockIsExclusive, NamesDiffer, UnsavedIsPrivate, Unsaved, PlainIsLocked, fsVars
  <2>3. SetsOK' /\ ReadTypeOK' /\ \A v \in Users : Waits(v)
    BY <2>1, SetsStay DEF RInv, ReadTypeOK, Waits, setVars, fsVars, readVars
  <2>4. FilesOK'
    BY <2>1 DEF RInv, FilesOK, Unused, fsVars
  <2> QED
    BY <2>2, <2>3, <2>4, WaitingStays DEF RInv, UsersOK
<1>2. UNCHANGED <<value, saved, opened, failed>>
  BY DEF vars, setVars, fsVars, readVars, value, saved, opened, Elements, BlockOf, SetIn
<1> QED
  BY <1>1, <1>2 DEF Simulates, Saved!vars

LEMMA StepSimulates == RInv /\ [Next]_vars => RInv' /\ Simulates
<1> SUFFICES ASSUME RInv, [Next]_vars PROVE RInv' /\ Simulates
  OBVIOUS
<1>1. IInv'
  BY StepKeeps DEF RInv
<1>2. CASE UNCHANGED vars
  BY <1>2, UnchangedSimulates
<1>3. ASSUME NEW u \in Users, Edit(u) \/ Look(u) PROVE RInv' /\ Simulates
  BY <1>1, <1>3, EditSimulates, LookSimulates
<1>4. ASSUME NEW u \in Users, StartWriteFile(u) \/ StartOverwrite(u) PROVE RInv' /\ Simulates
  BY <1>1, <1>4, StartWriteFileSimulates, StartOverwriteSimulates
<1>5. ASSUME NEW u \in Users, WriteCount(u) \/ WriteNext(u) \/ CommitFile(u) \/ EndWrite(u)
      PROVE  RInv' /\ Simulates
  BY <1>1, <1>5, WriteCountSimulates, WriteNextSimulates, CommitFileSimulates, EndWriteSimulates
<1>6. ASSUME NEW u \in Users, StartLoad(u) \/ ReadCount(u) \/ ReadIndex(u) \/ ReadBlock(u) \/ EndLoad(u)
      PROVE  RInv' /\ Simulates
  BY <1>1, <1>6, StartLoadSimulates, ReadCountSimulates, ReadIndexSimulates, ReadBlockSimulates, EndLoadSimulates
<1>7. ASSUME NEW u \in Users, TakeLock(u) \/ ReleaseLock(u) PROVE RInv' /\ Simulates
  BY <1>1, <1>7, TakeLockSimulates, ReleaseLockSimulates
<1>8. CASE RenameFile \/ DropFile
  BY <1>1, <1>8, RenameFileSimulates, DropFileSimulates
<1> QED
  BY <1>2, <1>3, <1>4, <1>5, <1>6, <1>7, <1>8 DEF Next

LEMMA InitSimulates == Init => RInv /\ Saved!Init
<1> SUFFICES ASSUME Init PROVE RInv /\ Saved!Init
  OBVIOUS
<1> USE DEF Init, SetInit, FSInit, Closed
<1>1. IInv
  BY InitHolds
<1>2. SetsOK
  BY SharedAssumption DEF SetsOK, Addresses
<1>3. FilesOK /\ ReadTypeOK
  BY DEF FilesOK, ReadTypeOK
<1>4. UsersOK
  BY DEF UsersOK, UserOK, Writing
<1>5. \A u \in Users : Elements(u) = {}
  BY SharedAssumption DEF Elements
<1>6. value = [s \in Sets |-> {}]
  BY <1>5, SharedAssumption DEF value
<1>7. opened = [s \in Sets |-> Nothing] /\ saved = [n \in AtomicNames \cup {PlainName} |-> Nothing]
  BY SharedAssumption DEF opened, saved
<1>8. failed = [s \in Sets |-> FALSE]
  BY SharedAssumption
<1> QED
  BY <1>1, <1>2, <1>3, <1>4, <1>6, <1>7, <1>8 DEF RInv, Saved!Init

\* Blocks, files and locks implement sets that are saved and loaded as a whole,
\* for every number of users, files and elements, and every size of the blocks.
THEOREM SetsAreLoadedAsSaved == Spec => ImplementsSavedSets
<1>1. Init => RInv /\ Saved!Init
  BY InitSimulates
<1>2. RInv /\ [Next]_vars => RInv' /\ [Saved!Next]_(Saved!vars)
  BY StepSimulates DEF Simulates
<1> QED
  BY <1>1, <1>2, PTL DEF Spec, ImplementsSavedSets, Saved!Spec


-----------------------------------------------------------------------------
(* What the queries of a set answer                                        *)

\* Blocks have as many bits as the set they make has elements.
LEMMA BitsAreElements ==
    ASSUME NEW contents, NEW set \in SUBSET Universe,
           \A i \in DOMAIN contents : i \in Nat /\ contents[i] \subseteq Bits,
           \A i \in DOMAIN contents : \A k \in contents[i] : i * BlockBits + k \in set,
           \A x \in set : x \div BlockBits \in DOMAIN contents /\ x % BlockBits \in contents[x \div BlockBits]
    PROVE  BitCount(contents) = Cardinality(set)
<1> DEFINE pairs == UNION {{<<i, k>> : k \in contents[i]} : i \in DOMAIN contents}
           f == [x \in set |-> <<x \div BlockBits, x % BlockBits>>]
<1>1. \A x \in set : \E i \in Nat, k \in Bits : i = x \div BlockBits /\ k = x % BlockBits /\ x = i * BlockBits + k
  <2>1. \A x \in set : x \in Nat
    BY SetAssumption
  <2> QED
    BY <2>1, BlockAndBit
<1>2. \A i \in DOMAIN contents : \A k \in contents[i] : <<i, k>> \in pairs
  OBVIOUS
<1>3. ASSUME NEW p \in pairs PROVE \E i \in DOMAIN contents : \E k \in contents[i] : p = <<i, k>>
  OBVIOUS
<1>4. ASSUME NEW x \in set PROVE f[x] = <<x \div BlockBits, x % BlockBits>> /\ f[x] \in pairs
  <2>1. f[x] = <<x \div BlockBits, x % BlockBits>>
    OBVIOUS
  <2> HIDE DEF f, pairs
  <2> QED
    BY <1>2, <2>1
<1>5. ASSUME NEW x \in set, NEW y \in set, f[x] = f[y] PROVE x = y
  <2>1. x \div BlockBits = y \div BlockBits /\ x % BlockBits = y % BlockBits
    BY <1>4, <1>5
  <2>2. PICK i \in Nat, k \in Bits : i = x \div BlockBits /\ k = x % BlockBits /\ x = i * BlockBits + k
    BY <1>1
  <2>3. PICK j \in Nat, l \in Bits : j = y \div BlockBits /\ l = y % BlockBits /\ y = j * BlockBits + l
    BY <1>1
  <2>4. i = j /\ k = l
    BY <2>1, <2>2, <2>3, Zenon
  <2> QED
    BY <2>2, <2>3, <2>4, Zenon
<1>6. ASSUME NEW p \in pairs PROVE \E x \in set : f[x] = p
  <2>1. PICK i \in DOMAIN contents : \E k \in contents[i] : p = <<i, k>>
    BY <1>3
  <2>2. PICK k \in contents[i] : p = <<i, k>>
    BY <2>1
  <2>3. i \in Nat /\ k \in Bits
    OBVIOUS
  <2>4. PICK x \in set : x = i * BlockBits + k
    OBVIOUS
  <2>5. PICK j \in Nat, l \in Bits : j = x \div BlockBits /\ l = x % BlockBits /\ x = j * BlockBits + l
    BY <1>1
  <2>6. i * BlockBits + k = j * BlockBits + l
    BY <2>4, <2>5
  <2>7. i = j /\ k = l
    <3> HIDE DEF f, pairs
    <3> QED
      BY <2>3, <2>5, <2>6, BlockAndBit
  <2>8. f[x] = <<i, k>>
    BY <1>4, <2>5, <2>7, Zenon
  <2> QED
    BY <2>2, <2>8
<1>7. IsFiniteSet(set)
  BY SetAssumption, FS_Subset
<1>8. f \in [set -> pairs]
  <2> HIDE DEF pairs
  <2> QED
    BY <1>4
<1>9. f \in Bijection(set, pairs)
  <2> HIDE DEF f, pairs
  <2> QED
    BY <1>5, <1>6, <1>8 DEF Bijection, Injection, Surjection, IsInjective
<1>10. Cardinality(pairs) = Cardinality(set)
  <2> HIDE DEF f, pairs
  <2>1. ExistsBijection(set, pairs)
    BY <1>9 DEF ExistsBijection
  <2> QED
    BY <1>7, <2>1, FS_Bijection
<1> QED
  BY <1>10 DEF BitCount

\* Some integers have a least and a greatest.
LEMMA EndsExist ==
    ASSUME NEW ints \in SUBSET Int, IsFiniteSet(ints), ints # {}
    PROVE  /\ Min(ints) \in ints /\ \A i \in ints : Min(ints) <= i
           /\ Max(ints) \in ints /\ \A i \in ints : Max(ints) >= i
<1>1. PICK n \in Nat : n = Cardinality(ints)
  BY FS_CardinalityType
<1>2. n > 0
  BY <1>1, FS_EmptySet
<1>3. \A i, j \in ints : i < j \/ j < i \/ i = j
  OBVIOUS
<1>4. \A k \in 1..n : Nth(ints, k) \in ints /\ Cardinality({j \in ints : j < Nth(ints, k)}) = k - 1
  BY <1>1, NthCounts
<1>5. \E least \in ints : \A i \in ints : least <= i
  <2>1. 1 \in 1..n
    BY <1>2
  <2>2. PICK least \in ints : Cardinality({j \in ints : j < least}) = 0
    <3>1. Nth(ints, 1) \in ints /\ Cardinality({j \in ints : j < Nth(ints, 1)}) = 1 - 1
      BY <1>4, <2>1, Zenon
    <3>2. 1 - 1 = 0
      OBVIOUS
    <3> QED
      BY <3>1, <3>2, Zenon
  <2>3. IsFiniteSet({j \in ints : j < least})
    BY FS_Subset
  <2>4. {j \in ints : j < least} = {}
    BY <2>2, <2>3, FS_EmptySet
  <2>5. \A i \in ints : ~(i < least)
    BY <2>4
  <2> QED
    BY <2>5
<1>6. \E greatest \in ints : \A i \in ints : greatest >= i
  <2>1. n \in 1..n
    BY <1>2
  <2>2. PICK greatest \in ints : Cardinality({j \in ints : j < greatest}) = n - 1
    BY <1>4, <2>1, Zenon
  <2>3. IsFiniteSet(ints \ {greatest}) /\ Cardinality(ints \ {greatest}) = n - 1
    BY <1>1, FS_RemoveElement
  <2>4. {j \in ints : j < greatest} \subseteq ints \ {greatest}
    OBVIOUS
  <2>5. {j \in ints : j < greatest} = ints \ {greatest}
    BY <2>2, <2>3, <2>4, FS_Subset
  <2>6. \A i \in ints : i # greatest => i < greatest
    BY <2>5
  <2> QED
    BY <2>6
<1>7. Min(ints) \in ints /\ \A i \in ints : Min(ints) <= i
  BY <1>5 DEF Min
<1>8. Max(ints) \in ints /\ \A i \in ints : Max(ints) >= i
  BY <1>6 DEF Max
<1> QED
  BY <1>7, <1>8

\* The blocks of a set, the bits in them, and the elements, are finitely many
\* integers, and the elements are in the order of their blocks and bits.
LEMMA ElementsInOrder ==
    ASSUME NEW u \in Users, SetsOK
    PROVE  /\ Used(u) \subseteq Nat /\ IsFiniteSet(Used(u))
           /\ \A i \in Used(u) : BlockOf(u, i) \subseteq Bits /\ IsFiniteSet(BlockOf(u, i)) /\ BlockOf(u, i) # {}
           /\ Elements(u) \subseteq Nat /\ IsFiniteSet(Elements(u))
           /\ \A i \in Used(u) : \A k \in BlockOf(u, i) : i * BlockBits + k \in Elements(u)
           /\ \A x \in Elements(u) : \E i \in Used(u) : \E k \in BlockOf(u, i) : x = i * BlockBits + k
<1>1. Used(u) \subseteq Nat /\ IsFiniteSet(Used(u))
  BY UsedIsFinite
<1>2. ASSUME NEW i \in Used(u)
      PROVE  BlockOf(u, i) \subseteq Bits /\ IsFiniteSet(BlockOf(u, i)) /\ BlockOf(u, i) # {}
  <2>1. i \in DOMAIN blocks[u] /\ BlockOf(u, i) # {}
    BY DEF Used
  <2>2. BlockOf(u, i) = heap[<<u, i>>] /\ <<u, i>> \in Addresses
    BY <2>1, ElementsHaveBits, SharedAssumption DEF Addresses
  <2>3. BlockOf(u, i) \subseteq Bits
    BY <2>2 DEF SetsOK
  <2>4. IsFiniteSet(Bits)
    <3>1. 0 \in Int /\ BlockBits - 1 \in Int
      BY SetAssumption
    <3> QED
      BY <3>1, FS_Interval DEF Bits
  <2> QED
    BY <2>1, <2>3, <2>4, FS_Subset
<1>3. Elements(u) \subseteq Nat /\ IsFiniteSet(Elements(u))
  <2>1. Elements(u) \subseteq Universe
    BY ElementsHaveBits
  <2> QED
    BY <2>1, SetAssumption, FS_Subset
<1>4. ASSUME NEW i \in Used(u), NEW k \in BlockOf(u, i) PROVE i * BlockBits + k \in Elements(u)
  <2>1. i \in DOMAIN blocks[u]
    BY DEF Used
  <2>2. i * BlockBits + k \in {i * BlockBits + bit : bit \in BlockOf(u, i)}
    OBVIOUS
  <2> QED
    BY <2>1, <2>2, Zenon DEF Elements
<1>5. ASSUME NEW x \in Elements(u) PROVE \E i \in Used(u) : \E k \in BlockOf(u, i) : x = i * BlockBits + k
  <2>1. PICK i \in DOMAIN blocks[u] : x \in {i * BlockBits + k : k \in BlockOf(u, i)}
    BY DEF Elements
  <2>2. PICK k \in BlockOf(u, i) : x = i * BlockBits + k
    BY <2>1
  <2>3. i \in Used(u)
    BY <2>2 DEF Used
  <2> QED
    BY <2>2, <2>3
<1> QED
  BY <1>1, <1>2, <1>3, <1>4, <1>5

LEMMA BitsAreInts == Bits \subseteq Int
BY SetAssumption DEF Bits

LEMMA LaterIsHigher ==
    ASSUME NEW i \in Nat, NEW j \in Nat, i < j, NEW k \in Bits, NEW l \in Bits
    PROVE  i * BlockBits + k <= j * BlockBits + l
<1>1. BlockBits \in Nat \ {0}
  BY SetAssumption
<1>2. i * BlockBits \in Nat /\ j * BlockBits \in Nat
  BY <1>1
<1>3. (j * BlockBits) - (i * BlockBits) >= BlockBits
  BY BlocksAreApart
<1>4. 0 <= l /\ l \in Int /\ k < BlockBits /\ k \in Int
  BY <1>1 DEF Bits
<1> QED
  BY <1>1, <1>2, <1>3, <1>4

\* The least and the greatest element are in the first and the last of the
\* blocks that have one.
LEMMA EndsAreFound ==
    ASSUME NEW u \in Users, SetsOK
    PROVE  /\ Lowest(u) = IF Elements(u) = {} THEN 0 ELSE Min(Elements(u))
           /\ Highest(u) = IF Elements(u) = {} THEN 0 ELSE Max(Elements(u))
<1> DEFINE set == Elements(u)
<1>1. CASE Used(u) = {}
  <2>1. Elements(u) = {}
    BY <1>1, ElementsInOrder
  <2> QED
    BY <1>1, <2>1 DEF Lowest, Highest
<1>2. CASE Used(u) # {}
  <2>1. set # {}
    BY <1>2, ElementsInOrder
  <2>2. /\ Min(set) \in set /\ \A x \in set : Min(set) <= x
        /\ Max(set) \in set /\ \A x \in set : Max(set) >= x
    BY <2>1, ElementsInOrder, EndsExist
  <2>3. PICK first \in Nat, last \in Nat :
           /\ first = Min(Used(u)) /\ first \in Used(u) /\ \A i \in Used(u) : first <= i
           /\ last = Max(Used(u)) /\ last \in Used(u) /\ \A i \in Used(u) : last >= i
    BY <1>2, ElementsInOrder, EndsExist
  <2>4. PICK low \in Bits : low = Min(BlockOf(u, first)) /\ low \in BlockOf(u, first) /\ \A k \in BlockOf(u, first) : low <= k
    <3>1. BlockOf(u, first) \in SUBSET Int /\ BlockOf(u, first) \subseteq Bits /\ IsFiniteSet(BlockOf(u, first)) /\ BlockOf(u, first) # {}
      BY <2>3, ElementsInOrder, BitsAreInts
    <3> QED
      BY <3>1, EndsExist
  <2>5. PICK high \in Bits : high = Max(BlockOf(u, last)) /\ high \in BlockOf(u, last) /\ \A k \in BlockOf(u, last) : high >= k
    <3>1. BlockOf(u, last) \in SUBSET Int /\ BlockOf(u, last) \subseteq Bits /\ IsFiniteSet(BlockOf(u, last)) /\ BlockOf(u, last) # {}
      BY <2>3, ElementsInOrder, BitsAreInts
    <3> QED
      BY <3>1, EndsExist
  <2>6. ASSUME NEW x \in set
        PROVE  first * BlockBits + low <= x /\ last * BlockBits + high >= x
    <3>1. PICK i \in Used(u) : \E k \in BlockOf(u, i) : x = i * BlockBits + k
      BY ElementsInOrder
    <3>2. PICK k \in BlockOf(u, i) : x = i * BlockBits + k
      BY <3>1
    <3>3. i \in Nat /\ k \in Bits
      BY ElementsInOrder
    <3>4. first < i => first * BlockBits + low <= i * BlockBits + k
      BY <2>3, <2>4, <3>3, LaterIsHigher
    <3>5. first = i => first * BlockBits + low <= i * BlockBits + k
      <4> SUFFICES ASSUME first = i PROVE i * BlockBits + low <= i * BlockBits + k
        OBVIOUS
      <4>1. low <= k
        BY <2>4
      <4>2. i * BlockBits \in Int /\ low \in Int /\ k \in Int
        BY <3>3, SetAssumption, BitsAreInts
      <4> QED
        BY <4>1, <4>2
    <3>6. i < last => i * BlockBits + k <= last * BlockBits + high
      BY <2>3, <2>5, <3>3, LaterIsHigher
    <3>7. i = last => i * BlockBits + k <= last * BlockBits + high
      <4> SUFFICES ASSUME i = last PROVE last * BlockBits + k <= last * BlockBits + high
        OBVIOUS
      <4>1. k <= high
        <5>1. high >= k /\ high \in Int /\ k \in Int
          BY <2>5, <3>3, BitsAreInts
        <5> QED
          BY <5>1
      <4>2. last * BlockBits \in Int /\ high \in Int /\ k \in Int
        BY <3>3, SetAssumption, BitsAreInts
      <4> QED
        BY <4>1, <4>2
    <3>8. (first < i \/ first = i) /\ (i < last \/ i = last)
      <4>1. first <= i /\ last >= i
        BY <2>3
      <4> QED
        BY <3>3, <4>1
    <3>9. first * BlockBits + low <= i * BlockBits + k /\ i * BlockBits + k <= last * BlockBits + high
      BY <3>4, <3>5, <3>6, <3>7, <3>8, Zenon
    <3>10. x \in Int /\ last * BlockBits + high \in Int
      BY <3>2, <3>3, SetAssumption, BitsAreInts
    <3> QED
      BY <3>2, <3>9, <3>10
  <2>7. first * BlockBits + low \in set /\ last * BlockBits + high \in set
    BY <2>3, <2>4, <2>5, ElementsInOrder, Zenon
  <2>8. \A x \in set : x \in Int
    BY ElementsInOrder
  <2>9. Min(set) = first * BlockBits + low /\ Max(set) = last * BlockBits + high
    <3>1. PICK a \in Int : a = first * BlockBits + low
      BY <2>7, <2>8
    <3>2. PICK b \in Int : b = last * BlockBits + high
      BY <2>7, <2>8
    <3>3. a \in set /\ b \in set /\ \A x \in set : a <= x /\ b >= x
      BY <2>6, <2>7, <3>1, <3>2, Zenon
    <3>4. Min(set) = a /\ Max(set) = b
      <4> HIDE DEF set
      <4>1. Min(set) <= a /\ a <= Min(set) /\ Max(set) >= b /\ b >= Max(set)
        BY <2>2, <3>3
      <4>2. Min(set) \in Int /\ Max(set) \in Int
        BY <2>2, <2>8
      <4> QED
        BY <4>1, <4>2
    <3> QED
      BY <3>1, <3>2, <3>4
  <2>10. Lowest(u) = first * BlockBits + low /\ Highest(u) = last * BlockBits + high
    BY <1>2, <2>3, <2>4, <2>5, Zenon DEF Lowest, Highest
  <2> QED
    BY <2>1, <2>9, <2>10
<1> QED
  BY <1>1, <1>2

\* The counts of the bits are the numbers of the elements.
LEMMA CountsAreRight ==
    ASSUME NEW u \in Users, NEW v \in Users, SetsOK
    PROVE  /\ Size(u) = Cardinality(Elements(u))
           /\ Intersection(u, v).n = Cardinality(Elements(u) \cap Elements(v))
<1>1. \A i \in Indexes : i \in Nat
  BY UsedIsFinite
<1>2. Size(u) = Cardinality(Elements(u))
  <2> DEFINE contents == [i \in DOMAIN blocks[u] |-> heap[<<u, i>>]]
  <2>1. Clone(u) = contents
    BY ElementsHaveBits DEF Clone
  <2>2. \A i \in DOMAIN blocks[u] : i \in Indexes /\ contents[i] = heap[<<u, i>>]
    BY ElementsHaveBits
  <2>3. DOMAIN contents = DOMAIN blocks[u]
    OBVIOUS
  <2> HIDE DEF contents
  <2>4. \A i \in DOMAIN contents : i \in Nat /\ contents[i] \subseteq Bits
    BY <1>1, <2>2, <2>3, SharedAssumption DEF SetsOK, Addresses
  <2>5. ASSUME NEW i \in DOMAIN contents, NEW k \in contents[i] PROVE i * BlockBits + k \in Elements(u)
    <3>1. k \in BlockOf(u, i) /\ i \in Used(u)
      BY <2>2, <2>3, ElementsHaveBits DEF Used
    <3> QED
      BY <3>1, ElementsInOrder, Zenon
  <2>6. ASSUME NEW x \in Elements(u)
        PROVE  x \div BlockBits \in DOMAIN contents /\ x % BlockBits \in contents[x \div BlockBits]
    <3>1. x \div BlockBits \in Indexes /\ x % BlockBits \in heap[<<u, x \div BlockBits>>]
      BY ElementsHaveBits, Zenon DEF Indexes
    <3>2. x \div BlockBits \in DOMAIN blocks[u]
      BY <3>1 DEF SetsOK
    <3> QED
      BY <2>2, <2>3, <3>1, <3>2, Zenon
  <2>7. Elements(u) \subseteq Universe
    BY ElementsHaveBits
  <2>8. BitCount(contents) = Cardinality(Elements(u))
    BY <2>4, <2>5, <2>6, <2>7, BitsAreElements
  <2> QED
    BY <2>1, <2>8 DEF Size
<1>3. Intersection(u, v).n = Cardinality(Elements(u) \cap Elements(v))
  <2> DEFINE both == {i \in DOMAIN blocks[u] \cap DOMAIN blocks[v] : BlockOf(u, i) \cap BlockOf(v, i) # {}}
             contents == [i \in both |-> BlockOf(u, i) \cap BlockOf(v, i)]
             set == Elements(u) \cap Elements(v)
  <2>1. Intersection(u, v).n = BitCount(contents)
    BY DEF Intersection
  <2>2. \A i \in both : i \in Indexes /\ contents[i] = heap[<<u, i>>] \cap heap[<<v, i>>]
    BY ElementsHaveBits
  <2>3. DOMAIN contents = both
    OBVIOUS
  <2>4. \A i \in both : /\ i \in Used(u) /\ i \in Used(v)
                        /\ BlockOf(u, i) = heap[<<u, i>>] /\ BlockOf(v, i) = heap[<<v, i>>]
    BY ElementsHaveBits DEF Used
  <2>5. \A i \in Indexes : heap[<<u, i>>] \cap heap[<<v, i>>] # {} => i \in both
    <3> SUFFICES ASSUME NEW i \in Indexes, heap[<<u, i>>] \cap heap[<<v, i>>] # {} PROVE i \in both
      OBVIOUS
    <3>1. i \in DOMAIN blocks[u] /\ i \in DOMAIN blocks[v]
      BY DEF SetsOK
    <3>2. BlockOf(u, i) = heap[<<u, i>>] /\ BlockOf(v, i) = heap[<<v, i>>]
      BY <3>1, ElementsHaveBits
    <3> QED
      BY <3>1, <3>2
  <2> HIDE DEF contents, both
  <2>6. \A i \in DOMAIN contents : i \in Nat /\ contents[i] \subseteq Bits
    BY <1>1, <2>2, <2>3, SharedAssumption DEF SetsOK, Addresses
  <2>7. ASSUME NEW i \in DOMAIN contents, NEW k \in contents[i] PROVE i * BlockBits + k \in set
    <3>1. i \in Used(u) /\ i \in Used(v) /\ k \in BlockOf(u, i) /\ k \in BlockOf(v, i)
      <4>1. i \in both /\ k \in heap[<<u, i>>] \cap heap[<<v, i>>]
        BY <2>2, <2>3, Zenon
      <4> QED
        BY <2>4, <4>1, Zenon
    <3>2. i * BlockBits + k \in Elements(u) /\ i * BlockBits + k \in Elements(v)
      BY <3>1, ElementsInOrder, Zenon
    <3> QED
      BY <3>2
  <2>8. ASSUME NEW x \in set
        PROVE  x \div BlockBits \in DOMAIN contents /\ x % BlockBits \in contents[x \div BlockBits]
    <3>1. /\ x \div BlockBits \in Indexes
          /\ x % BlockBits \in heap[<<u, x \div BlockBits>>]
          /\ x % BlockBits \in heap[<<v, x \div BlockBits>>]
      BY ElementsHaveBits, Zenon DEF Indexes
    <3>2. x % BlockBits \in heap[<<u, x \div BlockBits>>] \cap heap[<<v, x \div BlockBits>>]
      BY <3>1, Zenon
    <3>3. x \div BlockBits \in both
      BY <2>5, <3>1, <3>2, Zenon
    <3> QED
      BY <2>2, <2>3, <3>2, <3>3, Zenon
  <2>9. set \subseteq Universe
    BY ElementsHaveBits
  <2>10. BitCount(contents) = Cardinality(set)
    <3> HIDE DEF set
    <3> QED
      BY <2>6, <2>7, <2>8, <2>9, BitsAreElements
  <2> QED
    BY <2>1, <2>10
<1> QED
  BY <1>2, <1>3

LEMMA HasAgrees ==
    ASSUME NEW u \in Users, NEW x \in Universe, SetsOK
    PROVE  Has(u, x) <=> x \in Elements(u)
<1>1. x \in Elements(u) <=> x % BlockBits \in heap[<<u, x \div BlockBits>>]
  BY ElementsHaveBits, Zenon
<1>2. PICK i \in Indexes : i = x \div BlockBits
  BY DEF Indexes
<1>3. i \in DOMAIN blocks[u] => BlockOf(u, i) = heap[<<u, i>>]
  BY ElementsHaveBits
<1>4. heap[<<u, i>>] # {} => i \in DOMAIN blocks[u]
  BY DEF SetsOK
<1>5. Has(u, x) <=> i \in DOMAIN blocks[u] /\ x % BlockBits \in BlockOf(u, i)
  BY <1>2, Zenon DEF Has
<1> QED
  BY <1>1, <1>2, <1>3, <1>4, <1>5, Zenon

\* Every query of a set answers for its elements, whatever blocks Remove left
\* empty and Min, Max and Write deleted, and in whatever state a load left it.
THEOREM QueriesAnswerForElements == Spec => []QueriesAgree
<1>1. SetsOK => QueriesAgree
  BY CountsAreRight, EndsAreFound, HasAgrees DEF QueriesAgree
<1>2. Init => RInv
  BY InitSimulates
<1>3. RInv /\ [Next]_vars => RInv'
  BY StepSimulates
<1> QED
  BY <1>1, <1>2, <1>3, PTL DEF Spec, RInv
=============================================================================
