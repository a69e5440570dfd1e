--------------------------- MODULE ExporterProofs ---------------------------
(***************************************************************************)
(* The data files of the exporter: none is written twice, each has the     *)
(* rows of its day, and a run leaves none out.  Its index files: what was  *)
(* uploaded can be reached, and updateindexfiles repairs the lists.  For   *)
(* every number of days, tables and rows, whatever fails and whenever the  *)
(* command is killed.                                                      *)
(***************************************************************************)
EXTENDS Exporter, FiniteSetTheorems, SequenceTheorems, TLAPS

Fields == {"name", "pc", "end", "left", "todo", "found", "changed", "calls",
           "started", "uploaded", "trouble"}

\* Rows have their times, files are those of tables and of days that are over.
TypeOK ==
    /\ today \in Days
    /\ DOMAIN cmd = Fields
    /\ \A x \in DOMAIN rows : rows[x] \in [created : Int, updated : Int]
    /\ \A f \in DOMAIN files : \E d \in Days, t \in Tables : f = <<d, t>> /\ d < today

\* The days that are done begin at "end": their files are all there.
DaysDone ==
    /\ cmd.started \in Days /\ cmd.started <= today
    /\ cmd.end \in Int /\ cmd.end <= cmd.started
    /\ cmd.left = MaxDays(cmd.started) - (cmd.started - cmd.end)
    /\ \A d \in Days, t \in Tables :
          cmd.end <= d /\ d < cmd.started => <<d, t>> \in DOMAIN files

\* Of the tables still to do those have a file that were found, of the others
\* all have.
TablesDone ==
    /\ Day \in Days
    /\ cmd.todo \in Seq(Tables)
    /\ IsInjective(cmd.todo)
    /\ \A t \in cmd.found : <<Day, t>> \in DOMAIN files
    /\ \A i \in DOMAIN cmd.todo :
          cmd.todo[i] \notin cmd.found => <<Day, cmd.todo[i]>> \notin DOMAIN files
    /\ \A t \in Tables :
          (\E i \in DOMAIN cmd.todo : cmd.todo[i] = t) \/ <<Day, t>> \in DOMAIN files

IInv ==
    /\ TypeOK
    /\ At("list") \/ At("tables") => DaysDone
    /\ At("tables") => TablesDone
    /\ LookBackIsComplete
    /\ FilesAreComplete

-----------------------------------------------------------------------------
(* Days                                                                    *)

\* The day before the first of a month is at most a month after each day of
\* its folder.
LEMMA MonthIsCovered ==
    ASSUME NEW s \in Days, s > 1, NEW d \in Days, d < s, FolderOf[d] = FolderOf[s - 1]
    PROVE  s - d <= MonthDays
<1> DEFINE Month == {e \in Days : FolderOf[e] = FolderOf[d]}
           Between == d..(s - 1)
<1>1. /\ LastDay \in Nat /\ MonthDays \in Nat
      /\ Cardinality(Month) <= MonthDays
      /\ \A a, b, c \in Days : a < b /\ b < c /\ FolderOf[a] = FolderOf[c] => FolderOf[b] = FolderOf[c]
  BY ExporterAssumption
<1>2. Between \subseteq Month
  <2> SUFFICES ASSUME NEW e \in Between PROVE e \in Days /\ FolderOf[e] = FolderOf[d]
    OBVIOUS
  <2>1. e \in Days /\ s - 1 \in Days /\ e <= s - 1 /\ d <= e
    BY <1>1 DEF Days
  <2>2. CASE d < e /\ e < s - 1
    BY <1>1, <2>1, <2>2
  <2>3. CASE e = d \/ e = s - 1
    BY <2>1, <2>3
  <2> QED
    BY <2>1, <2>2, <2>3 DEF Days
<1>3. IsFiniteSet(Days)
  BY <1>1, FS_Interval DEF Days
<1>4. IsFiniteSet(Month)
  BY <1>3, FS_Subset
<1>5. Cardinality(Between) <= Cardinality(Month) /\ Cardinality(Month) \in Nat
  BY <1>2, <1>4, FS_Subset, FS_CardinalityType
<1>6. Cardinality(Between) = s - d
  <2>1. d \in Int /\ s - 1 \in Int /\ d <= s - 1
    BY <1>1 DEF Days
  <2>2. Cardinality(d..(s - 1)) = (s - 1) - d + 1
    BY <2>1, FS_Interval
  <2> QED
    BY <2>1, <2>2 DEF Days
<1> HIDE DEF Month, Between
<1> QED
  BY <1>1, <1>5, <1>6 DEF Days

\* When the loop over the days ends, no day is left out.
LEMMA LoopCovers ==
    ASSUME TypeOK, DaysDone, cmd.left = 0 \/ Day \notin Days,
           NEW d \in Days, d < cmd.started,
           \/ d >= cmd.started - RecentDays
           \/ FirstOfMonth(cmd.started) /\ FolderOf[d] = FolderOf[cmd.started - 1]
    PROVE  cmd.end <= d
<1>1. LastDay \in Nat /\ RecentDays \in Nat /\ MonthDays \in Nat /\ RecentDays <= MonthDays
  BY ExporterAssumption
<1>2. CASE Day \notin Days
  BY <1>1, <1>2 DEF DaysDone, Day, Days
<1>3. CASE cmd.left = 0
  <2>1. cmd.end = cmd.started - MaxDays(cmd.started)
    BY <1>1, <1>3 DEF DaysDone, MaxDays, Days
  <2>2. CASE d >= cmd.started - RecentDays
    BY <1>1, <2>1, <2>2 DEF DaysDone, MaxDays, Days
  <2>3. CASE FirstOfMonth(cmd.started) /\ FolderOf[d] = FolderOf[cmd.started - 1]
    <3>1. cmd.started - d <= MonthDays
      BY <2>3, MonthIsCovered DEF FirstOfMonth, DaysDone
    <3> QED
      BY <1>1, <2>1, <2>3, <3>1 DEF DaysDone, MaxDays, Days
  <2> QED
    BY <2>2, <2>3
<1> QED
  BY <1>2, <1>3

-----------------------------------------------------------------------------
(* Steps                                                                   *)

LEMMA InitHolds == Init => IInv
<1> SUFFICES ASSUME Init PROVE IInv
  OBVIOUS
<1>1. TypeOK
  BY ExporterAssumption DEF Init, TypeOK, NoCommand, Fields, Days
<1>2. LookBackIsComplete /\ FilesAreComplete
  BY DEF Init, LookBackIsComplete, FilesAreComplete, NoCommand
<1> QED
  BY <1>1, <1>2 DEF Init, IInv, At, NoCommand

\* Steps that leave files and rows alone, outside of the loop over the days.
LEMMA OutsideKeeps ==
    ASSUME IInv, UNCHANGED <<today, rows, late, files, cut>>, DOMAIN cmd' = Fields,
           cmd'.pc \notin {"list", "tables"},
           \/ cmd'.pc = "idle"
           \/ cmd'.name # "export"
           \/ /\ cmd.name = "export" /\ cmd.pc \in {"folders", "visit", "json", "ok"}
              /\ cmd'.started = cmd.started
    PROVE  IInv'
<1>1. TypeOK' /\ FilesAreComplete'
  BY DEF IInv, TypeOK, FilesAreComplete, Selected, InWindow
<1>2. LookBackIsComplete'
  BY DEF IInv, LookBackIsComplete
<1> QED
  BY <1>1, <1>2 DEF IInv, At

LEMMA ExitKeeps ==
    ASSUME IInv, Exit, UNCHANGED <<today, rows, late, files, cut>>
    PROVE  IInv'
BY OutsideKeeps DEF Exit, NoCommand, Fields

\* A command goes on with some fields changed.
LEMMA ContinueFrame ==
    ASSUME TypeOK, NEW pc, NEW changes, DOMAIN changes \subseteq Fields \ {"pc", "name", "started"},
           Continue(pc, changes)
    PROVE  /\ DOMAIN cmd' = Fields /\ cmd'.pc = pc
           /\ cmd'.name = cmd.name /\ cmd'.started = cmd.started
BY DEF TypeOK, Continue, Over, Fields

LEMMA UpdateKeeps ==
    ASSUME IInv, UpdateIndex
    PROVE  IInv'
<1>1. TypeOK
  BY DEF IInv
<1>2. UNCHANGED <<today, rows, late, files, cut>>
  BY DEF UpdateIndex, StartUpdateIndexFiles, ListFolder, Nest, WriteHtml, WriteJson, database, bucket
<1>3. ASSUME NEW pc \in {"visit", "json", "folders", "ok"}, NEW changes,
             DOMAIN changes \subseteq {"calls", "trouble"},
             Continue(pc, changes), cmd.pc \in {"visit", "json"}
      PROVE  IInv'
  <2>1. /\ DOMAIN cmd' = Fields /\ cmd'.pc = pc
        /\ cmd'.name = cmd.name /\ cmd'.started = cmd.started
    BY <1>1, <1>3, ContinueFrame DEF Fields
  <2> QED
    BY <1>2, <1>3, <2>1, OutsideKeeps
<1>4. CASE StartUpdateIndexFiles
  <2>1. Continue("visit", [name |-> "updateindexfiles",
                           calls |-> <<[folder |-> <<>>, open |-> TRUE]>>])
    BY <1>4 DEF StartUpdateIndexFiles
  <2>2. DOMAIN cmd' = Fields /\ cmd'.pc = "visit" /\ cmd'.name = "updateindexfiles"
    BY <1>1, <2>1 DEF TypeOK, Continue, Over, Fields
  <2> QED
    BY <1>2, <2>2, OutsideKeeps
<1>5. CASE ListFolder
  BY <1>3, <1>5 DEF ListFolder, At
<1>6. CASE Nest
  BY <1>3, <1>6 DEF Nest, At
<1>7. ASSUME NEW failed, Return(failed), cmd.pc \in {"visit", "json"}
      PROVE  IInv'
  <2>1. \/ Exit
        \/ \E pc \in {"visit", "folders", "ok"} : \E changes :
              DOMAIN changes \subseteq {"calls", "trouble"} /\ Continue(pc, changes)
    <3>1. CASE Continue("visit", [calls |-> Front(cmd.calls), trouble |-> cmd.trouble \/ failed])
      BY <3>1
    <3>2. CASE Continue(IF cmd.name = "export" THEN "folders" ELSE "ok", [calls |-> <<>>])
      BY <3>2
    <3> QED
      BY <1>7, <3>1, <3>2 DEF Return
  <2> QED
    BY <1>2, <1>3, <1>7, <2>1, ExitKeeps
<1>8. CASE WriteHtml
  <2>1. cmd.pc = "visit" /\ (Continue("json", <<>>) \/ Return(TRUE))
    BY <1>8 DEF WriteHtml, At
  <2>2. DOMAIN <<>> = {}
    OBVIOUS
  <2>3. CASE Continue("json", <<>>)
    BY <1>3, <2>1, <2>2, <2>3
  <2> QED
    BY <1>7, <2>1, <2>3
<1>9. CASE WriteJson
  <2>1. cmd.pc = "json" /\ \E failed : Return(failed)
    BY <1>9 DEF WriteJson, At
  <2> QED
    BY <1>7, <2>1
<1> QED
  BY <1>4, <1>5, <1>6, <1>8, <1>9 DEF UpdateIndex

LEMMA StartExportKeeps ==
    ASSUME IInv, StartExport
    PROVE  IInv'
<1> DEFINE changes == [name |-> "export", end |-> EndTime, left |-> MaxDays(today), started |-> today]
<1>1. TypeOK /\ Continue("list", changes) /\ UNCHANGED <<today, rows, late, files, index, cut>>
  BY DEF IInv, StartExport, database, bucket
<1>2. /\ DOMAIN cmd' = Fields /\ cmd'.pc = "list"
      /\ cmd'.end = today /\ cmd'.left = MaxDays(today) /\ cmd'.started = today
  BY <1>1 DEF TypeOK, Continue, Over, Fields, EndTime
<1>3. TypeOK' /\ FilesAreComplete'
  BY <1>1, <1>2 DEF IInv, TypeOK, FilesAreComplete, Selected, InWindow
<1>4. today \in Int /\ MaxDays(today) \in Int
  BY <1>1, ExporterAssumption DEF TypeOK, MaxDays, Days
<1>5. DaysDone'
  BY <1>1, <1>2, <1>4 DEF TypeOK, DaysDone, MaxDays, FirstOfMonth, Days
<1>6. LookBackIsComplete'
  BY <1>2 DEF LookBackIsComplete
<1> QED
  BY <1>2, <1>3, <1>5, <1>6 DEF IInv, At

LEMMA ListDayKeeps ==
    ASSUME IInv, ListDay
    PROVE  IInv'
<1> DEFINE changes == [todo |-> tables, found |-> {t \in Tables : <<Day, t>> \in DOMAIN files}]
<1>1. /\ TypeOK /\ DaysDone /\ Day \in Days
      /\ UNCHANGED <<today, rows, late, files, index, cut>>
  BY DEF IInv, ListDay, database, bucket
<1>2. CASE Exit
  BY <1>1, <1>2, ExitKeeps
<1>3. CASE Continue("tables", changes)
  <2>1. /\ DOMAIN cmd' = Fields /\ cmd'.pc = "tables" /\ cmd'.todo = tables
        /\ cmd'.found = {t \in Tables : <<Day, t>> \in DOMAIN files}
        /\ cmd'.end = cmd.end /\ cmd'.left = cmd.left /\ cmd'.started = cmd.started
    BY <1>1, <1>3 DEF TypeOK, Continue, Over, Fields
  <2>2. TypeOK' /\ FilesAreComplete'
    BY <1>1, <2>1 DEF IInv, TypeOK, FilesAreComplete, Selected, InWindow
  <2>3. DaysDone'
    BY <1>1, <2>1 DEF DaysDone, MaxDays, FirstOfMonth
  <2>4. Day' = Day
    BY <2>1 DEF Day
  <2>5. \A i \in DOMAIN tables : tables[i] \in Tables
    BY DEF Tables, Range
  <2>6. \A t \in Tables : \E i \in DOMAIN tables : tables[i] = t
    BY DEF Tables, Range
  <2>7. tables \in Seq(Tables) /\ IsInjective(tables)
    BY ExporterAssumption
  <2>8. TablesDone'
    BY <1>1, <2>1, <2>4, <2>5, <2>6, <2>7 DEF TablesDone
  <2>9. LookBackIsComplete'
    BY <2>1 DEF LookBackIsComplete
  <2> QED
    BY <2>1, <2>2, <2>3, <2>8, <2>9 DEF IInv, At
<1> QED
  BY <1>2, <1>3 DEF ListDay

\* The first table is done: its file is there.
LEMMA NextTableKeeps ==
    ASSUME TablesDone, cmd.todo # <<>>, Day' = Day,
           DOMAIN files \subseteq DOMAIN files', <<Day, Head(cmd.todo)>> \in DOMAIN files',
           DOMAIN files' \subseteq DOMAIN files \cup {<<Day, Head(cmd.todo)>>},
           cmd'.todo = Tail(cmd.todo), cmd'.found = cmd.found
    PROVE  TablesDone'
<1> DEFINE n == Len(cmd.todo)
<1>1. cmd.todo \in Seq(Tables) /\ n \in Nat /\ n > 0 /\ DOMAIN cmd.todo = 1..n
  BY DEF TablesDone
<1>2. /\ cmd'.todo \in Seq(Tables)
      /\ DOMAIN cmd'.todo = 1..(n - 1)
      /\ \A i \in 1..(n - 1) : cmd'.todo[i] = cmd.todo[i + 1]
      /\ Head(cmd.todo) = cmd.todo[1]
  BY <1>1
<1>3. \A i, j \in 1..n : cmd.todo[i] = cmd.todo[j] => i = j
  BY <1>1 DEF TablesDone, IsInjective
<1>4. IsInjective(cmd'.todo)
  <2>1. ASSUME NEW i \in 1..(n - 1), NEW j \in 1..(n - 1), cmd'.todo[i] = cmd'.todo[j]
        PROVE  i = j
    <3>1. /\ cmd.todo[i + 1] = cmd.todo[j + 1] /\ i + 1 \in 1..n /\ j + 1 \in 1..n
          /\ i \in Int /\ j \in Int
      BY <1>1, <1>2, <2>1
    <3>2. i + 1 = j + 1
      BY <1>3, <3>1
    <3> QED
      BY <3>1, <3>2
  <2> QED
    BY <1>2, <2>1 DEF IsInjective
<1>5. ASSUME NEW i \in DOMAIN cmd'.todo, cmd'.todo[i] \notin cmd.found
      PROVE  <<Day, cmd'.todo[i]>> \notin DOMAIN files'
  <2>1. i + 1 \in 1..n /\ i + 1 # 1 /\ cmd'.todo[i] = cmd.todo[i + 1]
    BY <1>1, <1>2, <1>5
  <2>2. cmd.todo[i + 1] # cmd.todo[1]
    BY <1>1, <1>3, <2>1
  <2>3. <<Day, cmd.todo[i + 1]>> \notin DOMAIN files
    BY <1>1, <1>5, <2>1 DEF TablesDone
  <2> QED
    BY <1>2, <2>1, <2>2, <2>3
<1>6. ASSUME NEW t \in Tables
      PROVE  (\E i \in DOMAIN cmd'.todo : cmd'.todo[i] = t) \/ <<Day, t>> \in DOMAIN files'
  <2>1. CASE <<Day, t>> \in DOMAIN files
    BY <2>1
  <2>2. ASSUME NEW i \in 1..n, cmd.todo[i] = t
        PROVE  (\E j \in DOMAIN cmd'.todo : cmd'.todo[j] = t) \/ <<Day, t>> \in DOMAIN files'
    <3>1. CASE i = 1
      BY <1>2, <2>2, <3>1
    <3>2. CASE i # 1
      <4>1. i - 1 \in 1..(n - 1) /\ cmd'.todo[i - 1] = t
        BY <1>1, <1>2, <2>2, <3>2
      <4> QED
        BY <1>2, <4>1
    <3> QED
      BY <3>1, <3>2
  <2> QED
    BY <1>1, <2>1, <2>2 DEF TablesDone
<1> QED
  BY <1>2, <1>4, <1>5, <1>6 DEF TablesDone

LEMMA SkipTableKeeps ==
    ASSUME IInv, SkipTable
    PROVE  IInv'
<1>1. /\ TypeOK /\ DaysDone /\ TablesDone /\ cmd.todo # <<>> /\ Head(cmd.todo) \in cmd.found
      /\ Continue("tables", [todo |-> Tail(cmd.todo)])
      /\ UNCHANGED <<today, rows, late, files, index, cut>>
  BY DEF IInv, SkipTable, database, bucket
<1>2. /\ DOMAIN cmd' = Fields /\ cmd'.pc = "tables"
      /\ cmd'.todo = Tail(cmd.todo) /\ cmd'.found = cmd.found
      /\ cmd'.end = cmd.end /\ cmd'.left = cmd.left /\ cmd'.started = cmd.started
  BY <1>1 DEF TypeOK, Continue, Over, Fields
<1>3. TypeOK' /\ FilesAreComplete'
  BY <1>1, <1>2 DEF IInv, TypeOK, FilesAreComplete, Selected, InWindow
<1>4. DaysDone'
  BY <1>1, <1>2 DEF DaysDone, MaxDays, FirstOfMonth
<1>5. Day' = Day /\ <<Day, Head(cmd.todo)>> \in DOMAIN files
  BY <1>1, <1>2 DEF Day, TablesDone
<1>6. TablesDone'
  BY <1>1, <1>2, <1>5, NextTableKeeps
<1>7. LookBackIsComplete'
  BY <1>2 DEF LookBackIsComplete
<1> QED
  BY <1>2, <1>3, <1>4, <1>6, <1>7 DEF IInv, At

\* The table that is exported next has no file yet.
LEMMA NextHasNoFile ==
    ASSUME TypeOK, DaysDone, TablesDone, cmd.todo # <<>>, Head(cmd.todo) \notin cmd.found
    PROVE  <<Day, Head(cmd.todo)>> \notin DOMAIN files /\ Head(cmd.todo) \in Tables
           /\ Day \in Days /\ Day < today
<1>1. cmd.todo \in Seq(Tables) /\ 1 \in DOMAIN cmd.todo /\ Head(cmd.todo) = cmd.todo[1]
  BY DEF TablesDone
<1>2. Day < today
  <2>1. today \in Int /\ cmd.started \in Int
    BY ExporterAssumption DEF DaysDone, TypeOK, Days
  <2> QED
    BY <2>1 DEF DaysDone, Day
<1>3. cmd.todo[1] \in Tables
  BY <1>1
<1>4. <<Day, cmd.todo[1]>> \notin DOMAIN files
  BY <1>1 DEF TablesDone
<1>5. Day \in Days
  BY DEF TablesDone
<1> QED
  BY <1>1, <1>2, <1>3, <1>4, <1>5

LEMMA ExportTableKeeps ==
    ASSUME IInv, ExportTable
    PROVE  IInv'
<1>1. /\ TypeOK /\ DaysDone /\ TablesDone /\ FilesAreComplete /\ At("tables")
      /\ cmd.todo # <<>> /\ Head(cmd.todo) \notin cmd.found
      /\ UNCHANGED <<today, rows, late, index>>
  BY DEF IInv, ExportTable, database
<1>2. CASE Exit /\ UNCHANGED <<files, cut>>
  BY <1>1, <1>2, ExitKeeps
<1>3. ASSUME NEW file, file = <<Day, Head(cmd.todo)>>,
             NEW selected, selected = Selected(Day, Head(cmd.todo)),
             NEW written \in SUBSET selected,
             files' = Put(file, written, files),
             cut' = IF written = selected THEN cut ELSE cut \cup {file},
             \/ Continue("tables", [todo |-> Tail(cmd.todo),
                                    changed |-> cmd.changed \cup AddFolder(FolderOf[Day]),
                                    uploaded |-> cmd.uploaded \cup {file}])
             \/ Exit
      PROVE  IInv'
  <2>1. file \notin DOMAIN files /\ Head(cmd.todo) \in Tables /\ Day \in Days /\ Day < today
    BY <1>1, <1>3, NextHasNoFile
  <2>2. /\ DOMAIN files' = DOMAIN files \cup {file}
        /\ files'[file] = written
        /\ \A f \in DOMAIN files : files'[f] = files[f]
    BY <1>3, <2>1 DEF Put, Over
  <2>3. FilesAreComplete'
    <3>1. \A d, t : Selected(d, t)' = Selected(d, t)
      BY <1>1 DEF Selected, InWindow
    <3>2. ASSUME NEW f \in DOMAIN files' \ cut', NEW x \in Selected(f[1], f[2])
          PROVE  x \in files'[f] \/ <<x, f[1]>> \in late
      <4>1. CASE f = file
        <5>1. written = selected /\ f[1] = Day /\ f[2] = Head(cmd.todo)
          BY <1>3, <3>2, <4>1
        <5> QED
          BY <1>3, <2>2, <3>2, <4>1, <5>1
      <4>2. CASE f # file
        <5>1. f \in DOMAIN files \ cut /\ files'[f] = files[f]
          BY <1>3, <2>2, <3>2, <4>2
        <5> QED
          BY <1>1, <3>2, <5>1 DEF FilesAreComplete
      <4> QED
        BY <4>1, <4>2
    <3> QED
      BY <1>1, <3>1, <3>2 DEF FilesAreComplete
  <2>4. CASE Exit
    <3>1. TypeOK'
      BY <1>1, <1>3, <2>1, <2>2, <2>4 DEF TypeOK, Exit, NoCommand, Fields
    <3>2. LookBackIsComplete' /\ cmd'.pc = "idle"
      BY <2>4 DEF Exit, NoCommand, LookBackIsComplete
    <3> QED
      BY <2>3, <3>1, <3>2 DEF IInv, At
  <2>5. CASE Continue("tables", [todo |-> Tail(cmd.todo),
                                 changed |-> cmd.changed \cup AddFolder(FolderOf[Day]),
                                 uploaded |-> cmd.uploaded \cup {file}])
    <3>1. /\ DOMAIN cmd' = Fields /\ cmd'.pc = "tables"
          /\ cmd'.todo = Tail(cmd.todo) /\ cmd'.found = cmd.found
          /\ cmd'.end = cmd.end /\ cmd'.left = cmd.left /\ cmd'.started = cmd.started
      BY <1>1, <2>5 DEF TypeOK, Continue, Over, Fields
    <3>2. TypeOK'
      BY <1>1, <1>3, <2>1, <2>2, <3>1 DEF TypeOK
    <3>3. DaysDone'
      BY <1>1, <2>2, <3>1 DEF DaysDone, MaxDays, FirstOfMonth
    <3>4. Day' = Day
      BY <3>1 DEF Day
    <3>5. TablesDone'
      BY <1>1, <1>3, <2>2, <3>1, <3>4, NextTableKeeps
    <3>6. LookBackIsComplete'
      BY <3>1 DEF LookBackIsComplete
    <3> QED
      BY <2>3, <3>1, <3>2, <3>3, <3>5, <3>6 DEF IInv, At
  <2> QED
    BY <1>3, <2>4, <2>5
<1> QED
  BY <1>2, <1>3 DEF ExportTable

LEMMA NextDayKeeps ==
    ASSUME IInv, NextDay
    PROVE  IInv'
<1>1. /\ TypeOK /\ DaysDone /\ TablesDone /\ cmd.todo = <<>>
      /\ Continue("list", [end |-> Day, left |-> cmd.left - 1, found |-> {}])
      /\ UNCHANGED <<today, rows, late, files, index, cut>>
  BY DEF IInv, NextDay, database, bucket
<1>2. /\ DOMAIN cmd' = Fields /\ cmd'.pc = "list" /\ cmd'.started = cmd.started
      /\ cmd'.end = Day /\ cmd'.left = cmd.left - 1
  BY <1>1 DEF TypeOK, Continue, Over, Fields
<1>3. TypeOK' /\ FilesAreComplete'
  BY <1>1, <1>2 DEF IInv, TypeOK, FilesAreComplete, Selected, InWindow
<1>4. \A t \in Tables : <<Day, t>> \in DOMAIN files
  BY <1>1 DEF TablesDone
<1>5. MaxDays(cmd.started) \in Int /\ Days \subseteq Int
  BY ExporterAssumption DEF MaxDays, Days
<1>6. ASSUME NEW d \in Days, NEW t \in Tables, Day <= d, d < cmd.started
      PROVE  <<d, t>> \in DOMAIN files
  <2>1. d = Day \/ cmd.end <= d
    BY <1>1, <1>5, <1>6 DEF Day, DaysDone
  <2> QED
    BY <1>1, <1>4, <1>6, <2>1 DEF DaysDone
<1>7. DaysDone'
  <2>1. MaxDays(cmd.started)' = MaxDays(cmd.started)
    BY <1>2 DEF MaxDays, FirstOfMonth
  <2>2. /\ cmd.started \in Days /\ cmd.started <= today /\ cmd.end \in Int /\ cmd.end <= cmd.started
        /\ cmd.left = MaxDays(cmd.started) - (cmd.started - cmd.end)
    BY <1>1 DEF DaysDone
  <2>3. /\ Day \in Int /\ Day <= cmd.started
        /\ cmd.left - 1 = MaxDays(cmd.started) - (cmd.started - Day)
    <3>1. cmd.started \in Int
      BY <1>5, <2>2
    <3> QED
      BY <1>5, <2>2, <3>1 DEF Day
  <2> QED
    BY <1>1, <1>2, <1>6, <2>1, <2>2, <2>3 DEF DaysDone
<1>8. LookBackIsComplete'
  BY <1>2 DEF LookBackIsComplete
<1> QED
  BY <1>2, <1>3, <1>7, <1>8 DEF IInv, At

LEMMA FinishDaysKeeps ==
    ASSUME IInv, FinishDays
    PROVE  IInv'
<1>1. /\ TypeOK /\ DaysDone /\ (cmd.left = 0 \/ Day \notin Days)
      /\ Continue("folders", [end |-> 0, left |-> 0])
      /\ UNCHANGED <<today, rows, late, files, index, cut>>
  BY DEF IInv, FinishDays, database, bucket
<1>2. DOMAIN cmd' = Fields /\ cmd'.pc = "folders" /\ cmd'.started = cmd.started
  BY <1>1 DEF TypeOK, Continue, Over, Fields
<1>3. TypeOK' /\ FilesAreComplete'
  BY <1>1, <1>2 DEF IInv, TypeOK, FilesAreComplete, Selected, InWindow
<1>4. ASSUME NEW d \in Days, NEW t \in Tables, d < cmd.started,
             \/ d >= cmd.started - RecentDays
             \/ FirstOfMonth(cmd.started) /\ FolderOf[d] = FolderOf[cmd.started - 1]
      PROVE  <<d, t>> \in DOMAIN files
  <2>1. cmd.end <= d
    BY <1>1, <1>4, LoopCovers
  <2> QED
    BY <1>1, <1>4, <2>1 DEF DaysDone
<1>5. LookBackIsComplete'
  <2>1. \A d \in Days, t \in Tables :
            /\ d < cmd.started
            /\ \/ d >= cmd.started - RecentDays
               \/ FirstOfMonth(cmd.started) /\ FolderOf[d] = FolderOf[cmd.started - 1]
            => <<d, t>> \in DOMAIN files
    BY <1>4
  <2> QED
    BY <1>1, <1>2, <2>1 DEF LookBackIsComplete, FirstOfMonth
<1> QED
  BY <1>2, <1>3, <1>5 DEF IInv, At

LEMMA NextFolderKeeps ==
    ASSUME IInv, NextFolder
    PROVE  IInv'
<1>1. TypeOK /\ cmd.pc = "folders" /\ UNCHANGED <<today, rows, late, files, cut>>
  BY DEF IInv, NextFolder, At, database, bucket
<1>2. ASSUME NEW pc \in {"visit", "ok"}, NEW changes,
             DOMAIN changes \subseteq {"changed", "calls"}, Continue(pc, changes)
      PROVE  IInv'
  <2>1. /\ DOMAIN cmd' = Fields /\ cmd'.pc = pc
        /\ cmd'.name = cmd.name /\ cmd'.started = cmd.started
    BY <1>1, <1>2, ContinueFrame DEF Fields
  <2> QED
    BY <1>1, <1>2, <2>1, OutsideKeeps
<1>3. DOMAIN <<>> = {}
  OBVIOUS
<1>4. CASE Continue("ok", <<>>)
  BY <1>2, <1>3, <1>4
<1>5. ASSUME NEW f, Continue("visit", [changed |-> cmd.changed \ {f},
                                      calls |-> <<[folder |-> f, open |-> TRUE]>>])
      PROVE  IInv'
  BY <1>2, <1>5
<1> QED
  BY <1>4, <1>5 DEF NextFolder

-----------------------------------------------------------------------------
(* The database                                                            *)

LEMMA MidnightKeeps ==
    ASSUME IInv, Midnight
    PROVE  IInv'
<1>1. /\ TypeOK /\ today' = today + 1 /\ today < LastDay
      /\ UNCHANGED <<rows, late, files, cut, cmd>>
  BY DEF IInv, Midnight, database, bucket
<1>2. today \in Int /\ Days \subseteq Int
  BY <1>1, ExporterAssumption DEF TypeOK, Days
<1>3. today' \in Days
  BY <1>1, <1>2, ExporterAssumption DEF TypeOK, Days
<1>4. TypeOK'
  BY <1>1, <1>2, <1>3 DEF TypeOK
<1>5. At("list") \/ At("tables") => DaysDone'
  <2> SUFFICES ASSUME DaysDone PROVE DaysDone'
    BY DEF IInv
  <2>1. MaxDays(cmd.started)' = MaxDays(cmd.started)
    BY <1>1 DEF MaxDays, FirstOfMonth
  <2>2. cmd.started \in Int /\ cmd.started <= today'
    <3>1. cmd.started \in Days /\ cmd.started <= today
      BY DEF DaysDone
    <3>2. cmd.started \in Int /\ today \in Int /\ today' = today + 1
      BY <1>1, <1>2, <3>1
    <3> QED
      BY <3>1, <3>2
  <2>3. /\ cmd.started \in Days /\ cmd.end \in Int /\ cmd.end <= cmd.started
        /\ cmd.left = MaxDays(cmd.started) - (cmd.started - cmd.end)
        /\ \A d \in Days, t \in Tables :
              cmd.end <= d /\ d < cmd.started => <<d, t>> \in DOMAIN files
    BY DEF DaysDone
  <2>4. cmd' = cmd /\ files' = files
    BY <1>1
  <2>5. cmd'.left = MaxDays(cmd.started)' - (cmd'.started - cmd'.end)
    BY <2>1, <2>3, <2>4
  <2> QED
    BY <2>2, <2>3, <2>4, <2>5 DEF DaysDone
<1>6. At("tables") => TablesDone'
  BY <1>1 DEF IInv, TablesDone, Day
<1>7. LookBackIsComplete'
  BY <1>1 DEF IInv, LookBackIsComplete, FirstOfMonth
<1>8. FilesAreComplete'
  BY <1>1 DEF IInv, FilesAreComplete, Selected, InWindow
<1> QED
  BY <1>1, <1>4, <1>5, <1>6, <1>7, <1>8 DEF IInv, At

\* Rows come and are updated: what is in the window of a file may only grow by
\* rows that were late.
LEMMA RowsKeep ==
    ASSUME IInv, UNCHANGED <<today, files, cut, cmd>>, late \subseteq late',
           \A x \in DOMAIN rows' : rows'[x] \in [created : Int, updated : Int],
           \A d \in Days, t \in Tables : \A x \in Selected(d, t)' :
              d < today => x \in Selected(d, t) \/ <<x, d>> \in late'
    PROVE  IInv'
<1>1. TypeOK'
  BY DEF IInv, TypeOK
<1>2. (At("list") \/ At("tables") => DaysDone)' /\ (At("tables") => TablesDone)'
  BY DEF IInv, DaysDone, TablesDone, MaxDays, FirstOfMonth, Day, At
<1>3. LookBackIsComplete'
  BY DEF IInv, LookBackIsComplete, FirstOfMonth
<1>4. FilesAreComplete'
  <2> SUFFICES ASSUME NEW f \in DOMAIN files \ cut, NEW x \in Selected(f[1], f[2])'
               PROVE  x \in files[f] \/ <<x, f[1]>> \in late'
    BY DEF FilesAreComplete
  <2>1. PICK d \in Days, t \in Tables : f = <<d, t>> /\ d < today
    BY DEF IInv, TypeOK
  <2>2. x \in Selected(d, t) \/ <<x, d>> \in late'
    BY <2>1
  <2>3. x \in Selected(d, t) => x \in files[f] \/ <<x, d>> \in late
    BY <2>1 DEF IInv, FilesAreComplete
  <2> QED
    BY <2>1, <2>2, <2>3
<1> QED
  BY <1>1, <1>2, <1>3, <1>4 DEF IInv

LEMMA AddRowKeeps ==
    ASSUME IInv, NEW x \in Rows, AddRow(x)
    PROVE  IInv'
<1>1. PICK d \in {today - 1, today} \cap Days :
        /\ rows' = Put(x, [created |-> d, updated |-> 0], rows)
        /\ late' = IF d < today THEN late \cup {<<x, d>>} ELSE late
  BY DEF AddRow
<1>2. x \notin DOMAIN rows /\ UNCHANGED <<today, files, cut, cmd>>
  BY DEF AddRow, bucket
<1>3. /\ DOMAIN rows' = DOMAIN rows \cup {x}
      /\ rows'[x] = [created |-> d, updated |-> 0]
      /\ \A y \in DOMAIN rows : rows'[y] = rows[y]
  BY <1>1, <1>2 DEF Put, Over
<1>4. Days \subseteq Int /\ 0 \notin Days
  BY ExporterAssumption DEF Days
<1>5. \A y \in DOMAIN rows' : rows'[y] \in [created : Int, updated : Int]
  BY <1>3, <1>4 DEF IInv, TypeOK
<1>6. ASSUME NEW e \in Days, NEW t \in Tables, NEW y \in Selected(e, t)', e < today
      PROVE  y \in Selected(e, t) \/ <<y, e>> \in late'
  <2>1. CASE y = x
    <3>1. e = d
      BY <1>3, <1>4, <1>6, <2>1 DEF Selected, InWindow
    <3> QED
      BY <1>1, <1>6, <2>1, <3>1
  <2>2. CASE y # x
    BY <1>3, <1>6, <2>2 DEF Selected, InWindow
  <2> QED
    BY <2>1, <2>2
<1> QED
  BY <1>1, <1>2, <1>5, <1>6, RowsKeep

LEMMA UpdateRowKeeps ==
    ASSUME IInv, NEW x \in Rows, UpdateRow(x)
    PROVE  IInv'
<1>1. /\ x \in DOMAIN rows /\ rows' = [rows EXCEPT ![x].updated = today]
      /\ UNCHANGED <<today, late, files, cut, cmd>>
  BY DEF UpdateRow, bucket
<1>2. rows[x] \in [created : Int, updated : Int] /\ today \in Int /\ Days \subseteq Int
  BY <1>1, ExporterAssumption DEF IInv, TypeOK, Days
<1>3. /\ DOMAIN rows' = DOMAIN rows
      /\ rows'[x] \in [created : Int, updated : Int]
      /\ rows'[x].created = rows[x].created /\ rows'[x].updated = today
      /\ \A y \in DOMAIN rows \ {x} : rows'[y] = rows[y]
  BY <1>1, <1>2
<1>4. \A y \in DOMAIN rows' : rows'[y] \in [created : Int, updated : Int]
  BY <1>3 DEF IInv, TypeOK
<1>5. ASSUME NEW e \in Days, NEW t \in Tables, NEW y \in Selected(e, t)', e < today
      PROVE  y \in Selected(e, t) \/ <<y, e>> \in late'
  BY <1>2, <1>3, <1>5 DEF Selected, InWindow
<1> QED
  BY <1>1, <1>4, <1>5, RowsKeep

-----------------------------------------------------------------------------
LEMMA NextHolds == IInv /\ [Next]_vars => IInv'
<1> SUFFICES ASSUME IInv, [Next]_vars PROVE IInv'
  OBVIOUS
<1>1. CASE UNCHANGED vars
  BY <1>1, RowsKeep DEF vars, IInv, TypeOK, Selected, InWindow
<1>2. CASE Export
  BY <1>2, StartExportKeeps, ListDayKeeps, SkipTableKeeps, ExportTableKeeps, NextDayKeeps,
     FinishDaysKeeps, NextFolderKeeps DEF Export
<1>3. CASE Kill
  BY <1>3, ExitKeeps DEF Kill, database, bucket
<1> QED
  BY <1>1, <1>2, <1>3, MidnightKeeps, AddRowKeeps, UpdateRowKeeps, UpdateKeeps DEF Next

LEMMA InvHolds == Spec => []IInv
BY InitHolds, NextHolds, PTL DEF Spec

\* Files that were uploaded have the rows of their day.
THEOREM FilesHaveTheirRows == Spec => []FilesAreComplete
BY InvHolds, PTL DEF IInv

\* The looks back of runs leave no day out.
THEOREM NoDayIsLeftOut == Spec => []LookBackIsComplete
BY InvHolds, PTL DEF IInv

LEMMA FilesStay ==
    ASSUME IInv, [Next]_vars
    PROVE  \A f \in DOMAIN files : f \in DOMAIN files' /\ files'[f] = files[f]
<1>1. CASE ExportTable
  <2>1. <<Day, Head(cmd.todo)>> \notin DOMAIN files
    BY <1>1, NextHasNoFile DEF IInv, ExportTable
  <2> QED
    BY <1>1, <2>1 DEF ExportTable, Put, Over
<1>2. CASE UNCHANGED files
  BY <1>2
<1> QED
  BY <1>1, <1>2 DEF Next, vars, Midnight, AddRow, UpdateRow, Export, StartExport, ListDay,
     SkipTable, NextDay, FinishDays, NextFolder, UpdateIndex, StartUpdateIndexFiles, ListFolder,
     Nest, WriteHtml, WriteJson, Kill, bucket

\* A file that has been uploaded is never written again.
THEOREM FilesAreNeverRewritten == Spec => NeverRewritten
<1>1. IInv /\ [Next]_vars =>
        [\A f \in DOMAIN files : f \in DOMAIN files' /\ files'[f] = files[f]]_vars
  BY FilesStay
<1> QED
  BY <1>1, InvHolds, PTL DEF Spec, NeverRewritten

-----------------------------------------------------------------------------
(* The index files.  As long as no listing broke off and no nested call     *)
(* failed, each folder that has to be listed is, or is still to be: it is   *)
(* among the changed ones, or a call that has not returned will come to it. *)

Folders == UNION {Prefixes(FolderOf[d]) : d \in Days}

\* The folders whose index files the command has to write.
Owed ==
    UNION {Prefixes(FolderOf[f[1]]) :
        f \in IF cmd.name = "export" THEN cmd.uploaded ELSE DOMAIN files}

\* p is q or below it.
Below(p, q) == Len(q) <= Len(p) /\ \A i \in 1..Len(q) : p[i] = q[i]

\* A call that writes the files of p, or makes a call that does.
Covers(c, p) ==
    /\ Below(p, c.folder)
    /\ p = c.folder \/ IF c.open THEN Descends(c.folder) ELSE p[Len(c.folder) + 1] \in c.nested

Opened(c) == DOMAIN c = {"folder", "open"} /\ c.open = TRUE /\ c.folder \in Folders

Closed(c) ==
    /\ DOMAIN c = {"folder", "open", "names", "nested"} /\ c.open = FALSE
    /\ c.folder \in Folders /\ c.names = Children(c.folder) /\ c.nested \subseteq c.names
    /\ c.nested # {} => Descends(c.folder)

\* Only the call on top has not listed its folder yet; export makes no nested ones.
StackOK ==
    /\ cmd.calls \in Seq(Range(cmd.calls)) /\ Len(cmd.calls) > 0
    /\ \A i \in 1..Len(cmd.calls) :
          Closed(cmd.calls[i]) \/ (i = Len(cmd.calls) /\ Opened(cmd.calls[i]))
    /\ cmd.name = "export" => Len(cmd.calls) = 1

\* Between the two files of a folder.
HalfWritten ==
    /\ Closed(Top) /\ Top.nested = {}
    /\ Top.folder \in DOMAIN index /\ index[Top.folder].html = Top.names

ToCome(p) ==
    p \in cmd.changed \/ (cmd.pc \in {"visit", "json"} /\ \E i \in 1..Len(cmd.calls) : Covers(cmd.calls[i], p))

CommandOK ==
    /\ \A p \in DOMAIN index : DOMAIN index[p] = {"html", "json"}
    /\ cmd.trouble \in BOOLEAN
    /\ At("idle") => cmd = NoCommand
    /\ cmd.name \in {"none", "export", "updateindexfiles"}
    /\ cmd.pc \in {"list", "tables", "folders"} => cmd.name = "export"
    /\ cmd.uploaded \subseteq DOMAIN files /\ cmd.changed \subseteq Folders
    /\ cmd.pc \in {"list", "tables"} => Owed \subseteq cmd.changed
    /\ cmd.name # "export" \/ At("ok") => cmd.changed = {}

ListInv ==
    /\ CommandOK
    /\ ~cmd.trouble =>
          /\ cmd.pc \in {"visit", "json"} => StackOK
          /\ At("json") => HalfWritten
          /\ cmd.pc \in {"folders", "visit", "json", "ok"} =>
                \A p \in Owed : Lists(p) \/ ToCome(p)

LEMMA FolderShape ==
    ASSUME NEW d \in Days
    PROVE  /\ FolderOf[d] \in Seq(Nat) /\ Len(FolderOf[d]) = 2
           /\ \A p \in Prefixes(FolderOf[d]) :
                 p \in Seq(Nat) /\ Len(p) <= 2 /\ Below(FolderOf[d], p)
           /\ \A p \in Seq(Nat) : Below(FolderOf[d], p) => p \in Prefixes(FolderOf[d])
<1>1. PICK y \in Nat, m \in Nat : FolderOf[d] = <<y, m>>
  BY ExporterAssumption
<1>2. FolderOf[d] \in Seq(Nat) /\ Len(FolderOf[d]) = 2
  BY <1>1
<1> DEFINE F == FolderOf[d]
<1> HIDE DEF F
<1>3. F \in Seq(Nat) /\ Len(F) = 2
  BY <1>2 DEF F
<1>4. ASSUME NEW p \in Prefixes(F) PROVE p \in Seq(Nat) /\ Len(p) <= 2 /\ Below(F, p)
  <2>1. PICK l \in 0..2 : p = SubSeq(F, 1, l)
    BY <1>3, <1>4 DEF Prefixes
  <2>2. p \in Seq(Nat) /\ Len(p) = l /\ \A i \in 1..l : p[i] = F[i]
    BY <1>3, <2>1
  <2> QED
    BY <1>3, <2>2 DEF Below
<1>5. ASSUME NEW p \in Seq(Nat), Below(F, p) PROVE p \in Prefixes(F)
  <2>0. Len(p) \in Nat
    BY <1>5
  <2>1. Len(p) <= 2 /\ \A i \in 1..Len(p) : F[i] = p[i]
    <3>1. Len(p) <= Len(F) /\ \A i \in 1..Len(p) : F[i] = p[i]
      BY <1>5, Zenon DEF Below
    <3>2. Len(p) <= 2
      BY <1>3, <2>0, <3>1
    <3> QED
      BY <3>1, <3>2
  <2>2. PICK q \in Seq(Nat) : q = SubSeq(F, 1, Len(p))
    BY <1>3, <2>1
  <2>3. Len(q) = Len(p) /\ \A i \in 1..Len(p) : q[i] = F[i]
    BY <1>3, <2>1, <2>2
  <2>4. q = p
    <3>1. \A i \in 1..Len(q) : q[i] = p[i]
      BY <2>1, <2>3
    <3> QED
      BY <1>5, <2>3, <3>1, SeqEqual
  <2> QED
    BY <1>3, <2>1, <2>2, <2>4 DEF Prefixes
<1> QED
  BY <1>3, <1>4, <1>5 DEF F

LEMMA FolderIsSeq ==
    ASSUME NEW p \in Folders
    PROVE  p \in Seq(Nat) /\ Len(p) <= 2 /\ Below(p, p)
<1>1. PICK d \in Days : p \in Prefixes(FolderOf[d])
  BY DEF Folders
<1>2. p \in Seq(Nat) /\ Len(p) <= 2
  BY <1>1, FolderShape
<1> QED
  BY <1>2 DEF Below

\* The paths that are below a folder of a year, or below the root.
LEMMA ChildrenAreParts ==
    ASSUME TypeOK, NEW p \in Folders, Len(p) < 2
    PROVE  Children(p) = {FolderOf[g[1]][Len(p) + 1] :
                            g \in {h \in DOMAIN files : Below(FolderOf[h[1]], p)}}
<1>1. p \in Seq(Nat) /\ Len(p) <= 1
  <2>1. p \in Seq(Nat) /\ Len(p) <= 2
    BY FolderIsSeq
  <2> QED
    BY <2>1
<1>2. ASSUME NEW g \in DOMAIN files
      PROVE  /\ IsPrefix(p, Path(g)) <=> Below(FolderOf[g[1]], p)
             /\ Path(g)[Len(p) + 1] = FolderOf[g[1]][Len(p) + 1]
  <2>1. PICK d \in Days : g[1] = d
    BY DEF TypeOK
  <2>2. PICK F \in Seq(Nat) : F = FolderOf[d] /\ Len(F) = 2
    BY FolderShape
  <2> DEFINE S == Nat \cup {g}
  <2>3. F \in Seq(S) /\ g \in S /\ p \in Seq(S)
    BY <1>1
  <2> HIDE DEF S
  <2>4. PICK path \in Seq(S) : path = Path(g) /\ path = Append(F, g)
    BY <2>1, <2>2, <2>3, AppendProperties DEF Path
  <2>5. Len(path) = 3 /\ path[1] = F[1] /\ path[2] = F[2]
    <3>1. Len(path) = Len(F) + 1 /\ \A i \in 1..Len(F) : path[i] = F[i]
      BY <2>3, <2>4, AppendProperties
    <3>2. 1 \in 1..Len(F) /\ 2 \in 1..Len(F) /\ Len(F) + 1 = 3
      BY <2>2
    <3> QED
      BY <3>1, <3>2
  <2>6. SubSeq(p, 1, Len(p)) = p
    BY <1>1
  <2>7. PICK q \in Seq(S) : q = SubSeq(path, 1, Len(p))
    <3>1. \A i \in 1..Len(p) : i \in 1..Len(path)
      BY <1>1, <2>5
    <3>2. SubSeq(path, 1, Len(p)) \in Seq(S)
      BY <1>1, <2>4, <3>1, SubSeqProperties
    <3> QED
      BY <3>2
  <2>8. Len(q) = Len(p) /\ \A i \in 1..Len(p) : q[i] = path[i]
    BY <1>1, <2>4, <2>5, <2>7
  <2>9. p = q <=> \A i \in 1..Len(p) : F[i] = p[i]
    <3>1. \A i \in 1..Len(p) : i = 1
      BY <1>1
    <3>2. p = q <=> \A i \in 1..Len(p) : q[i] = p[i]
      BY <2>3, <2>7, <2>8
    <3> QED
      BY <2>5, <2>8, <3>1, <3>2
  <2>10. IsPrefix(p, Path(g)) <=> p = q
    BY <1>1, <2>4, <2>5, <2>6, <2>7 DEF IsPrefix
  <2>11. Below(F, p) <=> \A i \in 1..Len(p) : F[i] = p[i]
    BY <1>1, <2>2 DEF Below
  <2>12. path[Len(p) + 1] = F[Len(p) + 1]
    <3>1. Len(p) = 0 \/ Len(p) = 1
      <4>1. PICK l \in Nat : l = Len(p)
        BY <1>1
      <4> QED
        BY <1>1, <4>1
    <3> QED
      BY <2>5, <3>1
  <2> QED
    BY <2>1, <2>2, <2>4, <2>9, <2>10, <2>11, <2>12
<1> QED
  BY <1>2 DEF Children

\* A nested call is for a folder.
LEMMA ChildIsFolder ==
    ASSUME TypeOK, NEW p \in Folders, Len(p) < 2, NEW n \in Children(p)
    PROVE  /\ Append(p, n) \in Folders /\ Len(Append(p, n)) = Len(p) + 1
           /\ Append(p, n)[Len(p) + 1] = n
           /\ \A i \in 1..Len(p) : Append(p, n)[i] = p[i]
<1>1. p \in Seq(Nat) /\ Len(p) <= 1
  <2>1. p \in Seq(Nat) /\ Len(p) <= 2
    BY FolderIsSeq
  <2> QED
    BY <2>1
<1>2. PICK g \in DOMAIN files : Below(FolderOf[g[1]], p) /\ n = FolderOf[g[1]][Len(p) + 1]
  BY ChildrenAreParts
<1>3. PICK d \in Days : g[1] = d
  BY DEF TypeOK
<1>4. PICK F \in Seq(Nat) : F = FolderOf[d] /\ Len(F) = 2
  BY <1>3, FolderShape
<1>5. n \in Nat /\ Below(F, p) /\ n = F[Len(p) + 1]
  BY <1>1, <1>2, <1>3, <1>4
<1>6. PICK q \in Seq(Nat) : q = Append(p, n)
  <2>1. n \in Nat
    BY <1>5
  <2>2. Append(p, n) \in Seq(Nat)
    BY <1>1, <2>1, AppendProperties
  <2> QED
    BY <2>2
<1>7. /\ Len(q) = Len(p) + 1 /\ q[Len(p) + 1] = n
      /\ \A i \in 1..Len(p) : q[i] = p[i]
  BY <1>1, <1>5, <1>6
<1>8. Below(F, q)
  <2>1. \A i \in 1..(Len(p) + 1) : i \in 1..Len(p) \/ i = Len(p) + 1
    BY <1>1
  <2> QED
    BY <1>1, <1>4, <1>5, <1>7, <2>1 DEF Below
<1>9. q \in Prefixes(FolderOf[d])
  BY <1>3, <1>4, <1>8, FolderShape
<1> QED
  BY <1>6, <1>7, <1>9 DEF Folders

\* The part of the path to a folder that comes after p is found when p is listed.
LEMMA OwedIsFound ==
    ASSUME TypeOK, CommandOK, NEW p \in Folders, NEW q \in Owed, Below(q, p), q # p
    PROVE  Len(p) < 2 /\ Len(p) < Len(q) /\ q[Len(p) + 1] \in Children(p)
<1>1. PICK g \in DOMAIN files : q \in Prefixes(FolderOf[g[1]])
  BY DEF Owed, CommandOK
<1>2. PICK d \in Days : g[1] = d
  BY DEF TypeOK
<1>3. PICK F \in Seq(Nat) : F = FolderOf[d] /\ Len(F) = 2
  BY FolderShape
<1>4. q \in Seq(Nat) /\ Len(q) <= 2 /\ Below(F, q)
  BY <1>1, <1>2, <1>3, FolderShape
<1>5. p \in Seq(Nat) /\ Len(p) <= 2
  BY FolderIsSeq
<1>6. Len(p) < Len(q)
  <2> SUFFICES ASSUME Len(p) = Len(q) PROVE FALSE
    BY <1>4, <1>5 DEF Below
  <2>1. \A i \in 1..Len(q) : q[i] = p[i]
    BY <1>5 DEF Below
  <2> QED
    BY <1>4, <1>5, <2>1
<1>7. Below(F, p) /\ q[Len(p) + 1] = F[Len(p) + 1]
  <2>1. \A i \in 1..Len(p) : i \in 1..Len(q) /\ q[i] = p[i]
    BY <1>4, <1>5 DEF Below
  <2>2. \A i \in 1..Len(q) : F[i] = q[i]
    BY <1>4 DEF Below
  <2>3. Len(p) + 1 \in 1..Len(q)
    BY <1>4, <1>5, <1>6
  <2> QED
    BY <1>3, <1>4, <1>5, <2>1, <2>2, <2>3 DEF Below
<1>8. q[Len(p) + 1] \in Children(p)
  <2>1. Len(p) < 2
    BY <1>4, <1>5, <1>6
  <2>2. Children(p) = {FolderOf[h[1]][Len(p) + 1] :
                         h \in {k \in DOMAIN files : Below(FolderOf[k[1]], p)}}
    BY <2>1, ChildrenAreParts
  <2>3. FolderOf[g[1]] = F
    BY <1>2, <1>3
  <2> QED
    BY <1>7, <2>2, <2>3
<1> QED
  BY <1>4, <1>5, <1>6, <1>8

-----------------------------------------------------------------------------
LEMMA ListInit == Init => ListInv
BY DEF Init, ListInv, CommandOK, NoCommand, At

LEMMA ListSame ==
    ASSUME ListInv, UNCHANGED <<files, index, cmd>>
    PROVE  ListInv'
<1>1. \A p : Children(p)' = Children(p)
  BY DEF Children
<1>2. \A p : Lists(p)' = Lists(p) /\ ToCome(p)' = ToCome(p)
  BY <1>1 DEF Lists, ToCome, Covers, Descends
<1>3. Owed' = Owed
  BY DEF Owed
<1>4. StackOK' = StackOK /\ HalfWritten' = HalfWritten
  BY <1>1 DEF StackOK, HalfWritten, Closed, Opened, Top, Descends
<1>5. CommandOK'
  BY <1>3 DEF ListInv, CommandOK, At
<1> QED
  BY <1>2, <1>3, <1>4, <1>5 DEF ListInv, At

LEMMA ListExit ==
    ASSUME Exit, \A p \in DOMAIN index' : DOMAIN index'[p] = {"html", "json"}
    PROVE  ListInv'
BY DEF Exit, ListInv, CommandOK, NoCommand, At

\* The loop over the days: what is uploaded is noted in changedFolders.
LEMMA ListLoop ==
    ASSUME CommandOK, index' = index, cmd'.pc \in {"list", "tables"}, cmd'.name = "export",
           cmd'.trouble \in BOOLEAN, cmd'.uploaded \subseteq DOMAIN files',
           cmd'.changed \subseteq Folders,
           \A f \in cmd'.uploaded : Prefixes(FolderOf[f[1]]) \subseteq cmd'.changed
    PROVE  ListInv'
<1>1. Owed' \subseteq cmd'.changed
  BY DEF Owed
<1> QED
  BY <1>1 DEF ListInv, CommandOK, At

LEMMA NotedSoFar ==
    ASSUME CommandOK, cmd.pc \in {"list", "tables"}
    PROVE  /\ cmd.name = "export" /\ cmd.trouble \in BOOLEAN
           /\ cmd.uploaded \subseteq DOMAIN files /\ cmd.changed \subseteq Folders
           /\ \A f \in cmd.uploaded : Prefixes(FolderOf[f[1]]) \subseteq cmd.changed
BY DEF CommandOK, Owed

LEMMA ExportLists ==
    ASSUME IInv, ListInv, StartExport \/ ListDay \/ SkipTable \/ NextDay
    PROVE  ListInv'
<1>1. TypeOK /\ CommandOK /\ index' = index /\ files' = files
  BY DEF IInv, ListInv, StartExport, ListDay, SkipTable, NextDay, bucket
<1>2. CASE StartExport
  <2>1. cmd = NoCommand
    BY <1>1, <1>2 DEF StartExport, CommandOK
  <2>2. /\ cmd'.pc = "list" /\ cmd'.name = "export" /\ cmd'.trouble = FALSE
        /\ cmd'.uploaded = {} /\ cmd'.changed = {}
    BY <1>2, <2>1 DEF StartExport, Continue, Over, NoCommand
  <2> QED
    BY <1>1, <2>2, ListLoop
<1>3. CASE ListDay
  <2>1. CASE Exit
    BY <1>1, <2>1, ListExit DEF CommandOK
  <2>2. CASE ~Exit
    <3>1. Continue("tables", [todo |-> tables, found |-> {t \in Tables : <<Day, t>> \in DOMAIN files}])
          /\ At("list")
      BY <1>3, <2>2 DEF ListDay
    <3>2. /\ cmd'.pc = "tables" /\ cmd'.name = cmd.name /\ cmd'.trouble = cmd.trouble
          /\ cmd'.uploaded = cmd.uploaded /\ cmd'.changed = cmd.changed
      BY <1>1, <3>1 DEF TypeOK, Continue, Over, Fields
    <3> QED
      BY <1>1, <3>1, <3>2, NotedSoFar, ListLoop DEF At
  <2> QED
    BY <2>1, <2>2
<1>4. CASE SkipTable
  <2>1. At("tables") /\ Continue("tables", [todo |-> Tail(cmd.todo)])
    BY <1>4 DEF SkipTable
  <2>2. /\ cmd'.pc = "tables" /\ cmd'.name = cmd.name /\ cmd'.trouble = cmd.trouble
        /\ cmd'.uploaded = cmd.uploaded /\ cmd'.changed = cmd.changed
    BY <1>1, <2>1 DEF TypeOK, Continue, Over, Fields
  <2> QED
    BY <1>1, <2>1, <2>2, NotedSoFar, ListLoop DEF At
<1>5. CASE NextDay
  <2>1. At("tables") /\ Continue("list", [end |-> Day, left |-> cmd.left - 1, found |-> {}])
    BY <1>5 DEF NextDay
  <2>2. /\ cmd'.pc = "list" /\ cmd'.name = cmd.name /\ cmd'.trouble = cmd.trouble
        /\ cmd'.uploaded = cmd.uploaded /\ cmd'.changed = cmd.changed
    BY <1>1, <2>1 DEF TypeOK, Continue, Over, Fields
  <2> QED
    BY <1>1, <2>1, <2>2, NotedSoFar, ListLoop DEF At
<1> QED
  BY <1>2, <1>3, <1>4, <1>5

LEMMA ExportTableLists ==
    ASSUME IInv, ListInv, ExportTable
    PROVE  ListInv'
<1>1. /\ TypeOK /\ CommandOK /\ index' = index /\ At("tables") /\ Day \in Days
      /\ DOMAIN files \subseteq DOMAIN files'
  BY DEF IInv, ListInv, ExportTable, TablesDone, Put, Over
<1>2. CASE Exit
  BY <1>1, <1>2, ListExit DEF CommandOK
<1>3. CASE ~Exit
  <2>1. PICK file : file = <<Day, Head(cmd.todo)>>
    OBVIOUS
  <2>2. /\ Continue("tables", [todo |-> Tail(cmd.todo),
                               changed |-> cmd.changed \cup AddFolder(FolderOf[Day]),
                               uploaded |-> cmd.uploaded \cup {file}])
        /\ file \in DOMAIN files'
    BY <1>3, <2>1 DEF ExportTable, Put, Over
  <2>3. /\ cmd'.pc = "tables" /\ cmd'.name = cmd.name /\ cmd'.trouble = cmd.trouble
        /\ cmd'.uploaded = cmd.uploaded \cup {file}
        /\ cmd'.changed = cmd.changed \cup Prefixes(FolderOf[Day])
    BY <1>1, <2>2 DEF TypeOK, Continue, Over, Fields, AddFolder
  <2>4. file[1] = Day /\ Prefixes(FolderOf[Day]) \subseteq Folders
    BY <1>1, <2>1 DEF Folders
  <2> QED
    BY <1>1, <2>2, <2>3, <2>4, NotedSoFar, ListLoop DEF At
<1> QED
  BY <1>2, <1>3

LEMMA FinishDaysLists ==
    ASSUME IInv, ListInv, FinishDays
    PROVE  ListInv'
<1>1. /\ TypeOK /\ CommandOK /\ index' = index /\ files' = files /\ At("list")
      /\ Continue("folders", [end |-> 0, left |-> 0])
  BY DEF IInv, ListInv, FinishDays, bucket
<1>2. /\ cmd'.pc = "folders" /\ cmd'.name = cmd.name /\ cmd'.trouble = cmd.trouble
      /\ cmd'.uploaded = cmd.uploaded /\ cmd'.changed = cmd.changed
  BY <1>1 DEF TypeOK, Continue, Over, Fields
<1>3. Owed' = Owed
  BY <1>1, <1>2 DEF Owed
<1>4. Owed \subseteq cmd.changed
  BY <1>1 DEF CommandOK, At
<1>5. CommandOK'
  BY <1>1, <1>2 DEF CommandOK, At
<1> QED
  BY <1>2, <1>3, <1>4, <1>5 DEF ListInv, ToCome, At

-----------------------------------------------------------------------------
(* The stack of calls                                                      *)

LEMMA OneCall ==
    ASSUME NEW c, NEW s, s = <<c>>
    PROVE  s \in Seq(Range(s)) /\ Len(s) = 1 /\ s[1] = c
<1> DEFINE S == {c}
<1>1. c \in S
  OBVIOUS
<1> HIDE DEF S
<1>2. <<c>> \in Seq(S)
  BY <1>1
<1> QED
  BY <1>2, SeqOfRange

LEMMA StackPopped ==
    ASSUME NEW S, NEW s \in Seq(S), Len(s) > 0
    PROVE  /\ Front(s) \in Seq(S) /\ Len(Front(s)) = Len(s) - 1
           /\ \A i \in 1..(Len(s) - 1) : Front(s)[i] = s[i]
<1>1. PICK n \in Nat : n = Len(s) - 1
  OBVIOUS
<1>2. \A i \in 1..n : s[i] \in S
  BY <1>1
<1>3. /\ SubSeq(s, 1, n) \in Seq(S)
      /\ Len(SubSeq(s, 1, n)) = IF 1 <= n THEN n - 1 + 1 ELSE 0
      /\ \A i \in 1..(n - 1 + 1) : SubSeq(s, 1, n)[i] = s[1 + i - 1]
  BY <1>2, SubSeqProperties
<1>4. n - 1 + 1 = n /\ \A i \in 1..n : 1 + i - 1 = i
  BY <1>1
<1>5. Len(SubSeq(s, 1, n)) = n /\ \A i \in 1..n : SubSeq(s, 1, n)[i] = s[i]
  BY <1>3, <1>4
<1> QED
  BY <1>1, <1>3, <1>5 DEF Front

\* t is s with c instead of its top.
Replaces(t, s, c) ==
    /\ t \in Seq(Range(t)) /\ Len(t) = Len(s) /\ t[Len(s)] = c
    /\ \A i \in 1..(Len(s) - 1) : t[i] = s[i]

LEMMA StackReplaced ==
    ASSUME NEW S, NEW s \in Seq(S), Len(s) > 0, NEW c, NEW t, t = Append(Front(s), c)
    PROVE  Replaces(t, s, c)
<1> DEFINE R == S \cup {c}
<1>1. Front(s) \in Seq(R) /\ c \in R
  <2>1. s \in Seq(R)
    OBVIOUS
  <2> QED
    BY <2>1, StackPopped
<1> HIDE DEF R
<1>2. /\ t \in Seq(R) /\ Len(t) = Len(Front(s)) + 1 /\ t[Len(Front(s)) + 1] = c
      /\ \A i \in 1..Len(Front(s)) : t[i] = Front(s)[i]
  BY <1>1, AppendProperties
<1>3. Len(s) \in Nat /\ Len(Front(s)) = Len(s) - 1 /\ \A i \in 1..(Len(s) - 1) : Front(s)[i] = s[i]
  BY StackPopped
<1>4. t \in Seq(Range(t))
  BY <1>2, SeqOfRange
<1> QED
  BY <1>2, <1>3, <1>4 DEF Replaces

\* t is s with b instead of its top, and c on it.
Pushes(t, s, b, c) ==
    /\ t \in Seq(Range(t)) /\ Len(t) = Len(s) + 1 /\ t[Len(s)] = b /\ t[Len(s) + 1] = c
    /\ \A i \in 1..(Len(s) - 1) : t[i] = s[i]

LEMMA StackPushed ==
    ASSUME NEW S, NEW s \in Seq(S), Len(s) > 0, NEW b, NEW c, NEW t, t = Front(s) \o <<b, c>>
    PROVE  Pushes(t, s, b, c)
<1> DEFINE R == S \cup {b, c}
<1>1. Front(s) \in Seq(R) /\ b \in R /\ c \in R
  <2>1. s \in Seq(R)
    OBVIOUS
  <2> QED
    BY <2>1, StackPopped
<1> HIDE DEF R
<1>2. <<b, c>> \in Seq(R) /\ Len(<<b, c>>) = 2 /\ <<b, c>>[1] = b /\ <<b, c>>[2] = c
  BY <1>1
<1>3. PICK u \in Seq(R) : u = <<b, c>>
  BY <1>2
<1>4. Len(u) = 2 /\ u[1] = b /\ u[2] = c
  BY <1>2, <1>3
<1>5. PICK n \in Nat : n = Len(s) /\ n > 0
  OBVIOUS
<1>6. Len(Front(s)) = n - 1 /\ \A i \in 1..(n - 1) : Front(s)[i] = s[i]
  BY <1>5, StackPopped
<1>7. /\ t \in Seq(R) /\ Len(t) = n - 1 + 2
      /\ \A i \in 1..(n - 1 + 2) : t[i] = IF i <= n - 1 THEN Front(s)[i] ELSE u[i - (n - 1)]
  BY <1>1, <1>3, <1>4, <1>6, ConcatProperties
<1>8. t \in Seq(Range(t))
  BY <1>7, SeqOfRange
<1>9. t[n] = u[1] /\ t[n + 1] = u[2] /\ Len(t) = n + 1
  <2>1. n - (n - 1) = 1 /\ (n + 1) - (n - 1) = 2 /\ n \in 1..(n - 1 + 2) /\ n + 1 \in 1..(n - 1 + 2)
    BY <1>5
  <2>2. ~(n <= n - 1) /\ ~(n + 1 <= n - 1) /\ n - 1 + 2 = n + 1
    BY <1>5
  <2>3. \A i \in 1..(n - 1 + 2) : ~(i <= n - 1) => t[i] = u[i - (n - 1)]
    BY <1>7, Zenon
  <2>4. t[n] = u[n - (n - 1)]
    BY <2>1, <2>2, <2>3, Zenon
  <2>5. t[n + 1] = u[(n + 1) - (n - 1)]
    BY <2>1, <2>2, <2>3
  <2> QED
    BY <1>7, <2>1, <2>2, <2>4, <2>5, Zenon
<1>10. \A i \in 1..(n - 1) : t[i] = s[i]
  <2>1. \A i \in 1..(n - 1) : i \in 1..(n - 1 + 2) /\ i <= n - 1
    BY <1>5
  <2> QED
    BY <1>6, <1>7, <2>1
<1> QED
  BY <1>4, <1>5, <1>8, <1>9, <1>10 DEF Pushes

-----------------------------------------------------------------------------
(* Starting calls                                                          *)

\* What goes on outside of the loop over the days leaves the files alone.
LEMMA CommandGoesOn ==
    ASSUME CommandOK, TypeOK, files' = files, DOMAIN cmd' = Fields,
           \A p \in DOMAIN index' : DOMAIN index'[p] = {"html", "json"},
           cmd'.pc \in {"folders", "visit", "json", "ok"}, cmd'.name = cmd.name,
           cmd'.pc = "folders" => cmd.name = "export",
           cmd'.uploaded = cmd.uploaded, cmd'.changed \subseteq cmd.changed,
           cmd'.trouble \in BOOLEAN, cmd'.pc = "ok" => cmd.changed = {}
    PROVE  CommandOK' /\ Owed' = Owed
<1>1. Owed' = Owed
  BY DEF Owed
<1>2. CommandOK'
  BY <1>1 DEF CommandOK, At
<1> QED
  BY <1>1, <1>2

LEMMA NextFolderLists ==
    ASSUME IInv, ListInv, NextFolder
    PROVE  ListInv'
<1>1. /\ TypeOK /\ CommandOK /\ index' = index /\ files' = files /\ At("folders")
      /\ cmd.name = "export"
      /\ IF cmd.changed = {} THEN Continue("ok", <<>>)
         ELSE \E f \in cmd.changed :
                 Continue("visit", [changed |-> cmd.changed \ {f},
                                    calls |-> <<[folder |-> f, open |-> TRUE]>>])
  BY DEF IInv, ListInv, NextFolder, bucket, CommandOK, At
<1>2. \A p : Children(p)' = Children(p)
  BY <1>1 DEF Children
<1>3. \A p : Lists(p)' = Lists(p)
  BY <1>1, <1>2 DEF Lists
<1>4. CASE cmd.changed = {}
  <2>1. DOMAIN <<>> = {}
    OBVIOUS
  <2>2. /\ DOMAIN cmd' = Fields /\ cmd'.pc = "ok" /\ cmd'.name = cmd.name
        /\ cmd'.trouble = cmd.trouble
        /\ cmd'.uploaded = cmd.uploaded /\ cmd'.changed = cmd.changed
    BY <1>1, <1>4, <2>1 DEF TypeOK, Continue, Over, Fields
  <2>3. CommandOK' /\ Owed' = Owed
    <3>1. cmd.trouble \in BOOLEAN /\ \A p \in DOMAIN index' : DOMAIN index'[p] = {"html", "json"}
      BY <1>1 DEF CommandOK
    <3> QED
      BY <1>1, <1>4, <2>2, <3>1, CommandGoesOn
  <2>4. ASSUME ~cmd.trouble, NEW p \in Owed PROVE Lists(p)'
    BY <1>1, <1>3, <1>4, <2>4 DEF ListInv, ToCome, At
  <2> QED
    BY <2>2, <2>3, <2>4 DEF ListInv, At
<1>5. ASSUME NEW f \in cmd.changed,
             Continue("visit", [changed |-> cmd.changed \ {f},
                                calls |-> <<[folder |-> f, open |-> TRUE]>>])
      PROVE  ListInv'
  <2>1. PICK c : c = [folder |-> f, open |-> TRUE]
    OBVIOUS
  <2>2. /\ DOMAIN cmd' = Fields /\ cmd'.pc = "visit" /\ cmd'.name = cmd.name
        /\ cmd'.trouble = cmd.trouble /\ cmd'.calls = <<c>>
        /\ cmd'.uploaded = cmd.uploaded /\ cmd'.changed = cmd.changed \ {f}
    BY <1>1, <1>5, <2>1 DEF TypeOK, Continue, Over, Fields
  <2>3. CommandOK' /\ Owed' = Owed
    <3>1. cmd.trouble \in BOOLEAN /\ \A p \in DOMAIN index' : DOMAIN index'[p] = {"html", "json"}
      BY <1>1 DEF CommandOK
    <3> QED
      BY <1>1, <2>2, <3>1, CommandGoesOn
  <2>4. f \in Folders /\ Below(f, f)
    BY <1>1, FolderIsSeq DEF CommandOK
  <2>5. PICK s : s = <<c>>
    OBVIOUS
  <2>6. Len(s) = 1 /\ s[1] = c /\ s \in Seq(Range(s))
    BY <2>5, OneCall
  <2>7. DOMAIN c = {"folder", "open"} /\ c.folder = f /\ c.open = TRUE
    BY <2>1
  <2>8. StackOK'
    BY <1>1, <2>2, <2>4, <2>5, <2>6, <2>7 DEF StackOK, Opened
  <2>9. ASSUME ~cmd.trouble, NEW p \in Owed PROVE Lists(p)' \/ ToCome(p)'
    <3>1. Lists(p) \/ p \in cmd.changed
      BY <1>1, <2>9 DEF ListInv, ToCome, At
    <3>2. CASE p = f
      <4>1. Covers(s[1], p)'
        BY <2>4, <2>6, <2>7, <3>2 DEF Covers
      <4> QED
        BY <2>2, <2>5, <2>6, <4>1 DEF ToCome
    <3> QED
      BY <1>3, <2>2, <3>1, <3>2 DEF ToCome
  <2> QED
    BY <2>2, <2>3, <2>8, <2>9 DEF ListInv, At
<1> QED
  BY <1>1, <1>4, <1>5

LEMMA StartUpdateLists ==
    ASSUME IInv, ListInv, StartUpdateIndexFiles
    PROVE  ListInv'
<1>1. PICK c : c = [folder |-> <<>>, open |-> TRUE]
  OBVIOUS
<1>2. /\ TypeOK /\ CommandOK /\ index' = index /\ files' = files /\ cmd = NoCommand
      /\ Continue("visit", [name |-> "updateindexfiles", calls |-> <<c>>])
  BY <1>1 DEF IInv, ListInv, StartUpdateIndexFiles, bucket, CommandOK
<1>3. /\ DOMAIN cmd' = Fields /\ cmd'.pc = "visit" /\ cmd'.name = "updateindexfiles"
      /\ cmd'.trouble = FALSE /\ cmd'.calls = <<c>> /\ cmd'.uploaded = {} /\ cmd'.changed = {}
  BY <1>2 DEF TypeOK, Continue, Over, Fields, NoCommand
<1>4. DOMAIN c = {"folder", "open"} /\ c.folder = <<>> /\ c.open = TRUE
  BY <1>1
<1>5. PICK r : r = <<>>
  OBVIOUS
<1>6. r \in Seq(Nat) /\ Len(r) = 0
  BY <1>5
<1>7. \A p : Below(p, r) <=> 0 <= Len(p)
  BY <1>6 DEF Below
<1>8. r \in Folders
  <2>1. 1 \in Days
    BY ExporterAssumption DEF Days
  <2>2. Len(FolderOf[1]) = 2
    BY <2>1, FolderShape
  <2>3. Below(FolderOf[1], r)
    BY <1>7, <2>2
  <2>4. r \in Prefixes(FolderOf[1])
    BY <1>6, <2>1, <2>3, FolderShape
  <2> QED
    BY <2>1, <2>4 DEF Folders
<1>9. PICK s : s = <<c>>
  OBVIOUS
<1>10. Len(s) = 1 /\ s[1] = c /\ s \in Seq(Range(s))
  BY <1>9, OneCall
<1>11. StackOK'
  BY <1>3, <1>4, <1>5, <1>8, <1>9, <1>10 DEF StackOK, Opened
<1>12. CommandOK'
  BY <1>2, <1>3 DEF CommandOK, At
<1>13. ASSUME NEW p \in Owed' PROVE ToCome(p)'
  <2>1. PICK g \in DOMAIN files : p \in Prefixes(FolderOf[g[1]])
    BY <1>2, <1>3, <1>13 DEF Owed
  <2>2. PICK d \in Days : g[1] = d
    BY <1>2 DEF TypeOK
  <2>3. p \in Seq(Nat)
    BY <2>1, <2>2, FolderShape
  <2>4. Below(p, r)
    BY <1>7, <2>3
  <2>5. Covers(s[1], p)'
    BY <1>3, <1>4, <1>5, <1>6, <1>10, <2>4 DEF Covers, Descends
  <2> QED
    BY <1>3, <1>9, <1>10, <2>5 DEF ToCome
<1> QED
  BY <1>3, <1>11, <1>12, <1>13 DEF ListInv, At

-----------------------------------------------------------------------------
(* Listing a folder and the nested calls                                   *)

LEMMA TopCall ==
    ASSUME StackOK
    PROVE  /\ cmd.calls \in Seq(Range(cmd.calls)) /\ Len(cmd.calls) \in Nat /\ Len(cmd.calls) > 0
           /\ Len(cmd.calls) \in 1..Len(cmd.calls)
           /\ Top.open => Opened(Top)
           /\ ~Top.open => Closed(Top)
           /\ \A i \in 1..(Len(cmd.calls) - 1) : i \in 1..Len(cmd.calls) /\ Closed(cmd.calls[i])
           /\ \A i \in 1..Len(cmd.calls) : i = Len(cmd.calls) \/ i \in 1..(Len(cmd.calls) - 1)
<1>1. cmd.calls \in Seq(Range(cmd.calls)) /\ Len(cmd.calls) > 0
  BY DEF StackOK
<1>2. PICK n \in Nat : n = Len(cmd.calls)
  BY <1>1
<1>3. /\ n \in 1..n /\ \A i \in 1..(n - 1) : i \in 1..n /\ i # n
      /\ \A i \in 1..n : i = n \/ i \in 1..(n - 1)
  BY <1>1, <1>2
<1>4. Closed(Top) \/ Opened(Top)
  BY <1>2, <1>3 DEF StackOK, Top
<1>5. (Top.open => Opened(Top)) /\ (~Top.open => Closed(Top))
  BY <1>4 DEF Opened, Closed
<1>6. \A i \in 1..(n - 1) : Closed(cmd.calls[i])
  BY <1>2, <1>3 DEF StackOK
<1> QED
  BY <1>1, <1>2, <1>3, <1>5, <1>6

\* What a call covers does not depend on where it is.
LEMMA CallsStay ==
    ASSUME files' = files, cmd'.name = cmd.name
    PROVE  /\ \A c : Closed(c)' <=> Closed(c)
           /\ \A c : Opened(c)' <=> Opened(c)
           /\ \A c, p : Covers(c, p)' <=> Covers(c, p)
           /\ \A p : Children(p)' = Children(p) /\ Descends(p)' = Descends(p)
<1>1. \A p : Children(p)' = Children(p) /\ Descends(p)' = Descends(p)
  BY DEF Children, Descends
<1> QED
  BY <1>1 DEF Closed, Opened, Covers

LEMMA ListFolderLists ==
    ASSUME IInv, ListInv, ListFolder
    PROVE  ListInv'
<1>1. /\ TypeOK /\ CommandOK /\ index' = index /\ files' = files /\ At("visit") /\ Top.open
  BY DEF IInv, ListInv, ListFolder, bucket
<1>2. PICK names, c, t :
          /\ c = [folder |-> Top.folder, open |-> FALSE, names |-> names,
                  nested |-> IF Descends(Top.folder) THEN names ELSE {}]
          /\ t = Append(Front(cmd.calls), c)
          /\ Continue("visit", [calls |-> t, trouble |-> cmd.trouble \/ names # Children(Top.folder)])
  BY DEF ListFolder
<1>3. /\ DOMAIN cmd' = Fields /\ cmd'.pc = "visit" /\ cmd'.name = cmd.name
      /\ cmd'.trouble = (cmd.trouble \/ names # Children(Top.folder)) /\ cmd'.calls = t
      /\ cmd'.uploaded = cmd.uploaded /\ cmd'.changed = cmd.changed
  BY <1>1, <1>2 DEF TypeOK, Continue, Over, Fields
<1>4. CommandOK' /\ Owed' = Owed
  <2>1. cmd'.trouble \in BOOLEAN /\ \A p \in DOMAIN index' : DOMAIN index'[p] = {"html", "json"}
    BY <1>1, <1>3 DEF CommandOK
  <2> QED
    BY <1>1, <1>3, <2>1, CommandGoesOn
<1>5. ASSUME ~cmd'.trouble
      PROVE  StackOK' /\ \A p \in Owed' : Lists(p)' \/ ToCome(p)'
  <2>1. names = Children(Top.folder) /\ ~cmd.trouble /\ StackOK
    BY <1>1, <1>3, <1>5 DEF ListInv, At
  <2>2. PICK n \in Nat : n = Len(cmd.calls)
    BY <2>1, TopCall
  <2>3. /\ n > 0 /\ n \in 1..n /\ Opened(Top) /\ Top = cmd.calls[n]
        /\ \A i \in 1..(n - 1) : i \in 1..n /\ Closed(cmd.calls[i])
        /\ \A i \in 1..n : i = n \/ i \in 1..(n - 1)
    BY <1>1, <2>1, <2>2, TopCall DEF Top
  <2>4. /\ t \in Seq(Range(t)) /\ Len(t) = n /\ t[n] = c
        /\ \A i \in 1..(n - 1) : t[i] = cmd.calls[i]
    <3>1. cmd.calls \in Seq(Range(cmd.calls)) /\ Len(cmd.calls) > 0
      BY <2>1, TopCall
    <3>2. /\ t \in Seq(Range(t)) /\ Len(t) = Len(cmd.calls) /\ t[Len(cmd.calls)] = c
          /\ \A i \in 1..(Len(cmd.calls) - 1) : t[i] = cmd.calls[i]
      <4>1. t = Append(Front(cmd.calls), c)
        BY <1>2
      <4>2. PICK s, S : s = cmd.calls /\ S = Range(cmd.calls)
        OBVIOUS
      <4>3. s \in Seq(S) /\ Len(s) > 0 /\ t = Append(Front(s), c)
        BY <3>1, <4>1, <4>2
      <4>4. Replaces(t, s, c)
        BY <4>3, StackReplaced
      <4> QED
        BY <4>2, <4>4 DEF Replaces
    <3> QED
      BY <2>2, <3>2
  <2>5. /\ DOMAIN c = {"folder", "open", "names", "nested"} /\ c.open = FALSE
        /\ c.folder = Top.folder /\ c.names = names
        /\ c.nested = IF Descends(Top.folder) THEN names ELSE {}
    BY <1>2
  <2>6. Closed(c)
    BY <2>1, <2>3, <2>5 DEF Opened, Closed
  <2>7. StackOK'
    <3>1. \A i \in 1..n : Closed(t[i])'
      BY <1>1, <1>3, <2>3, <2>4, <2>6, CallsStay
    <3>2. cmd'.name = "export" => n = 1
      BY <1>3, <2>1, <2>2 DEF StackOK
    <3> QED
      BY <1>3, <2>3, <2>4, <3>1, <3>2 DEF StackOK
  <2>8. ASSUME NEW p \in Owed, ~Lists(p) PROVE ToCome(p)'
    <3>1. ToCome(p)
      BY <1>1, <2>1, <2>8 DEF ListInv, At
    <3>2. ASSUME NEW i \in 1..n, Covers(cmd.calls[i], p) PROVE Covers(t[i], p)
      <4>1. CASE i \in 1..(n - 1)
        BY <2>4, <3>2, <4>1
      <4>2. CASE i = n
        <5>1. Below(p, Top.folder) /\ (p = Top.folder \/ Descends(Top.folder))
          BY <2>3, <3>2, <4>2 DEF Covers, Opened
        <5>2. CASE p = Top.folder
          BY <2>4, <2>5, <4>2, <5>1, <5>2 DEF Covers
        <5>3. CASE p # Top.folder
          <6>1. Top.folder \in Folders
            BY <2>3 DEF Opened
          <6>2. p[Len(Top.folder) + 1] \in Children(Top.folder)
            BY <1>1, <5>1, <5>3, <6>1, OwedIsFound
          <6> QED
            BY <2>1, <2>4, <2>5, <4>2, <5>1, <5>3, <6>2 DEF Covers
        <5> QED
          BY <5>2, <5>3
      <4> QED
        BY <2>3, <4>1, <4>2
    <3>3. \A i \in 1..n : Covers(t[i], p)' <=> Covers(t[i], p)
      BY <1>1, <1>3, CallsStay
    <3> QED
      BY <1>3, <2>2, <2>4, <3>1, <3>2, <3>3 DEF ToCome
  <2>9. \A p : Lists(p)' = Lists(p)
    BY <1>1, <1>3, CallsStay DEF Lists
  <2> QED
    BY <1>4, <2>7, <2>8, <2>9
<1> QED
  BY <1>3, <1>4, <1>5 DEF ListInv, At

LEMMA NestLists ==
    ASSUME IInv, ListInv, Nest
    PROVE  ListInv'
<1>1. /\ TypeOK /\ CommandOK /\ index' = index /\ files' = files /\ At("visit") /\ ~Top.open
  BY DEF IInv, ListInv, Nest, bucket
<1>2. PICK name \in Top.nested : \E b, c, t :
          /\ b = [Top EXCEPT !.nested = @ \ {name}]
          /\ c = [folder |-> Append(Top.folder, name), open |-> TRUE]
          /\ t = Front(cmd.calls) \o <<b, c>>
          /\ Continue("visit", [calls |-> t])
  BY DEF Nest
<1>3. PICK b, c, t :
          /\ b = [Top EXCEPT !.nested = @ \ {name}]
          /\ c = [folder |-> Append(Top.folder, name), open |-> TRUE]
          /\ t = Front(cmd.calls) \o <<b, c>>
          /\ Continue("visit", [calls |-> t])
  BY <1>2
<1>4. /\ DOMAIN cmd' = Fields /\ cmd'.pc = "visit" /\ cmd'.name = cmd.name
      /\ cmd'.trouble = cmd.trouble /\ cmd'.calls = t
      /\ cmd'.uploaded = cmd.uploaded /\ cmd'.changed = cmd.changed
  BY <1>1, <1>3 DEF TypeOK, Continue, Over, Fields
<1>5. CommandOK' /\ Owed' = Owed
  <2>1. cmd'.trouble \in BOOLEAN /\ \A p \in DOMAIN index' : DOMAIN index'[p] = {"html", "json"}
    BY <1>1, <1>4 DEF CommandOK
  <2> QED
    BY <1>1, <1>4, <2>1, CommandGoesOn
<1>6. ASSUME ~cmd.trouble
      PROVE  StackOK' /\ \A p \in Owed' : Lists(p)' \/ ToCome(p)'
  <2>1. StackOK
    BY <1>1, <1>6 DEF ListInv, At
  <2>2. PICK n \in Nat : n = Len(cmd.calls)
    BY <2>1, TopCall
  <2>3. /\ n > 0 /\ n \in 1..n /\ Closed(Top) /\ Top = cmd.calls[n]
        /\ \A i \in 1..(n - 1) : i \in 1..n /\ Closed(cmd.calls[i])
        /\ \A i \in 1..n : i = n \/ i \in 1..(n - 1)
    BY <1>1, <2>1, <2>2, TopCall DEF Top
  <2>4. /\ t \in Seq(Range(t)) /\ Len(t) = n + 1 /\ t[n] = b /\ t[n + 1] = c
        /\ \A i \in 1..(n - 1) : t[i] = cmd.calls[i]
    <3>1. cmd.calls \in Seq(Range(cmd.calls)) /\ Len(cmd.calls) > 0
      BY <2>1, TopCall
    <3>2. /\ t \in Seq(Range(t)) /\ Len(t) = Len(cmd.calls) + 1
          /\ t[Len(cmd.calls)] = b /\ t[Len(cmd.calls) + 1] = c
          /\ \A i \in 1..(Len(cmd.calls) - 1) : t[i] = cmd.calls[i]
      <4>1. t = Front(cmd.calls) \o <<b, c>>
        BY <1>3
      <4>2. PICK s, S : s = cmd.calls /\ S = Range(cmd.calls)
        OBVIOUS
      <4>3. s \in Seq(S) /\ Len(s) > 0 /\ t = Front(s) \o <<b, c>>
        BY <3>1, <4>1, <4>2
      <4>4. Pushes(t, s, b, c)
        BY <4>3, StackPushed
      <4> QED
        BY <4>2, <4>4 DEF Pushes
    <3> QED
      BY <2>2, <3>2
  <2>5. PICK f : f = Top.folder
    OBVIOUS
  <2>6. /\ f \in Folders /\ Descends(f) /\ Len(f) < 2 /\ name \in Children(f)
        /\ cmd.name = "updateindexfiles"
    BY <1>2, <2>3, <2>5 DEF Closed, Descends
  <2>7. /\ DOMAIN b = {"folder", "open", "names", "nested"} /\ b.open = FALSE
        /\ b.folder = f /\ b.names = Top.names /\ b.nested = Top.nested \ {name}
    BY <1>3, <2>3, <2>5 DEF Closed
  <2>8. Closed(b)
    BY <2>3, <2>5, <2>6, <2>7 DEF Closed
  <2>9. PICK q : q = Append(f, name)
    OBVIOUS
  <2>10. DOMAIN c = {"folder", "open"} /\ c.folder = q /\ c.open = TRUE
    BY <1>3, <2>5, <2>9
  <2>11. /\ q \in Folders /\ Len(q) = Len(f) + 1 /\ q[Len(f) + 1] = name
         /\ \A i \in 1..Len(f) : q[i] = f[i]
    BY <1>1, <2>6, <2>9, ChildIsFolder
  <2>12. Opened(c)
    BY <2>10, <2>11 DEF Opened
  <2>13. StackOK'
    <3>1. \A i \in 1..(n + 1) : i = n + 1 \/ i = n \/ i \in 1..(n - 1)
      BY <2>3
    <3>2. \A i \in 1..(n + 1) : Closed(t[i])' \/ (i = n + 1 /\ Opened(t[i])')
      BY <1>1, <1>4, <2>3, <2>4, <2>8, <2>12, <3>1, CallsStay
    <3>3. n + 1 > 0 /\ cmd'.name # "export"
      BY <1>4, <2>6
    <3> QED
      BY <1>4, <2>4, <3>2, <3>3 DEF StackOK
  <2>14. ASSUME NEW p \in Owed, ~Lists(p) PROVE ToCome(p)'
    <3>1. ToCome(p)
      BY <1>1, <1>6, <2>14 DEF ListInv, At
    <3>2. ASSUME NEW i \in 1..n, Covers(cmd.calls[i], p)
          PROVE  \E j \in 1..(n + 1) : Covers(t[j], p)
      <4>1. CASE i \in 1..(n - 1)
        <5>1. i \in 1..(n + 1)
          OBVIOUS
        <5> QED
          BY <2>4, <3>2, <4>1, <5>1
      <4>2. CASE i = n
        <5>1. n \in 1..(n + 1) /\ n + 1 \in 1..(n + 1)
          BY <2>3
        <5>2. Below(p, f) /\ (p = f \/ p[Len(f) + 1] \in Top.nested)
          BY <2>3, <2>5, <3>2, <4>2 DEF Covers, Closed
        <5>3. CASE p = f \/ p[Len(f) + 1] # name
          <6>1. Covers(b, p)
            BY <2>7, <5>2, <5>3 DEF Covers
          <6> QED
            BY <2>4, <5>1, <6>1
        <5>4. CASE p # f /\ p[Len(f) + 1] = name
          <6>1. Len(f) < Len(p)
            BY <1>1, <2>6, <5>2, <5>4, OwedIsFound
          <6>2. Below(p, q)
            <7>1. Len(f) \in Nat /\ Len(p) \in Nat
              <8>1. p \in Folders
                <9>1. PICK g \in DOMAIN files : p \in Prefixes(FolderOf[g[1]])
                  BY <1>1 DEF Owed, CommandOK
                <9>2. PICK d \in Days : g[1] = d
                  BY <1>1 DEF TypeOK
                <9> QED
                  BY <9>1, <9>2 DEF Folders
              <8> QED
                BY <2>6, <8>1, FolderIsSeq
            <7>2. \A k \in 1..(Len(f) + 1) : k \in 1..Len(f) \/ k = Len(f) + 1
              BY <7>1
            <7>3. \A k \in 1..(Len(f) + 1) : p[k] = q[k]
              BY <2>11, <5>2, <5>4, <7>2 DEF Below
            <7>4. Len(q) <= Len(p)
              BY <2>11, <6>1, <7>1
            <7> QED
              BY <2>11, <7>3, <7>4 DEF Below
          <6>3. p = q \/ Descends(q)
            <7>1. p # q => Len(q) < 2
              BY <1>1, <2>11, <6>2, OwedIsFound
            <7> QED
              BY <2>6, <7>1 DEF Descends
          <6>4. Covers(c, p)
            BY <2>10, <6>2, <6>3 DEF Covers
          <6> QED
            BY <2>4, <5>1, <6>4
        <5> QED
          BY <5>3, <5>4
      <4> QED
        BY <2>3, <4>1, <4>2
    <3>3. \A i \in 1..(n + 1) : Covers(t[i], p)' <=> Covers(t[i], p)
      BY <1>1, <1>4, CallsStay
    <3> QED
      BY <1>4, <2>2, <2>4, <3>1, <3>2, <3>3 DEF ToCome
  <2>15. \A p : Lists(p)' = Lists(p)
    BY <1>1, <1>4, CallsStay DEF Lists
  <2> QED
    BY <1>5, <2>13, <2>14, <2>15
<1> QED
  BY <1>4, <1>5, <1>6 DEF ListInv, At

-----------------------------------------------------------------------------
(* Writing the files of a folder                                           *)

\* The files of one folder are written, the lists of the others stay.
LEMMA OthersStayListed ==
    ASSUME CommandOK, files' = files, NEW folder, NEW entry, DOMAIN entry = {"html", "json"},
           index' = index \/ index' = Put(folder, entry, index)
    PROVE  /\ \A p \in DOMAIN index' : DOMAIN index'[p] = {"html", "json"}
           /\ \A p : p # folder /\ Lists(p) => Lists(p)'
<1>1. \A p : Children(p)' = Children(p)
  BY DEF Children
<1>2. CASE index' = index
  BY <1>1, <1>2 DEF CommandOK, Lists
<1>3. CASE index' = Put(folder, entry, index)
  <2>1. /\ DOMAIN index' = DOMAIN index \cup {folder} /\ index'[folder] = entry
        /\ \A k \in DOMAIN index : k # folder => index'[k] = index[k]
    BY <1>3 DEF Put, Over
  <2> QED
    BY <1>1, <2>1 DEF CommandOK, Lists
<1> QED
  BY <1>2, <1>3

\* A call returns that has made its nested calls: what it covered is listed.
LEMMA ReturnLists ==
    ASSUME TypeOK, CommandOK, files' = files, cmd.pc \in {"visit", "json"},
           \A p \in DOMAIN index' : DOMAIN index'[p] = {"html", "json"},
           NEW failed \in BOOLEAN, Return(failed), NEW folder, folder = Top.folder,
           ~cmd.trouble /\ ~failed =>
              /\ StackOK /\ ~Top.open /\ Top.nested = {} /\ Lists(folder)'
              /\ \A p \in Owed : Lists(p)' \/ ToCome(p)
    PROVE  ListInv'
<1>1. CASE Len(cmd.calls) > 1
  <2>1. PICK t : t = Front(cmd.calls)
    OBVIOUS
  <2>2. Continue("visit", [calls |-> t, trouble |-> cmd.trouble \/ failed])
    BY <1>1, <2>1 DEF Return
  <2>3. /\ DOMAIN cmd' = Fields /\ cmd'.pc = "visit" /\ cmd'.name = cmd.name
        /\ cmd'.trouble = (cmd.trouble \/ failed) /\ cmd'.calls = t
        /\ cmd'.uploaded = cmd.uploaded /\ cmd'.changed = cmd.changed
    BY <2>2 DEF TypeOK, Continue, Over, Fields
  <2>4. CommandOK' /\ Owed' = Owed
    <3>1. cmd'.trouble \in BOOLEAN
      BY <2>3 DEF CommandOK
    <3> QED
      BY <2>3, <3>1, CommandGoesOn
  <2>5. ASSUME ~cmd'.trouble
        PROVE  StackOK' /\ \A p \in Owed' : Lists(p)' \/ ToCome(p)'
    <3>1. /\ StackOK /\ ~Top.open /\ Top.nested = {} /\ Lists(folder)'
          /\ \A p \in Owed : Lists(p)' \/ ToCome(p)
      BY <2>3, <2>5
    <3>2. PICK n \in Nat : n = Len(cmd.calls)
      BY <3>1, TopCall
    <3>3. /\ n > 1 /\ n - 1 \in Nat /\ n - 1 > 0
          /\ \A i \in 1..(n - 1) : i \in 1..n /\ Closed(cmd.calls[i])
          /\ \A i \in 1..n : i = n \/ i \in 1..(n - 1)
      BY <1>1, <3>1, <3>2, TopCall
    <3>4. PICK S : S = Range(cmd.calls)
      OBVIOUS
    <3>5. cmd.calls \in Seq(S) /\ Len(cmd.calls) > 0
      BY <3>1, <3>4, TopCall
    <3>6. t \in Seq(S) /\ Len(t) = n - 1 /\ \A i \in 1..(n - 1) : t[i] = cmd.calls[i]
      BY <2>1, <3>2, <3>5, StackPopped
    <3>7. t \in Seq(Range(t))
      BY <3>6, SeqOfRange
    <3>8. StackOK'
      <4>1. \A i \in 1..(n - 1) : Closed(t[i])'
        BY <2>3, <3>3, <3>6, CallsStay
      <4>2. cmd'.name # "export"
        BY <2>3, <3>1, <3>2, <3>3 DEF StackOK
      <4> QED
        BY <2>3, <3>3, <3>6, <3>7, <4>1, <4>2 DEF StackOK
    <3>9. ASSUME NEW p \in Owed, ~Lists(p)' PROVE ToCome(p)'
      <4>1. ToCome(p)
        BY <3>1, <3>9
      <4>2. \A c : Covers(c, p)' <=> Covers(c, p)
        BY <2>3, CallsStay
      <4>3. ~Covers(Top, p)
        BY <3>1, <3>9 DEF Covers
      <4>4. ASSUME NEW i \in 1..n, Covers(cmd.calls[i], p)
            PROVE  i \in 1..(n - 1) /\ Covers(t[i], p)
        BY <3>2, <3>3, <3>6, <4>3, <4>4 DEF Top
      <4> QED
        BY <2>3, <3>2, <3>6, <4>1, <4>2, <4>4 DEF ToCome
    <3> QED
      BY <2>4, <3>8, <3>9
  <2> QED
    BY <2>3, <2>4, <2>5 DEF ListInv, At
<1>2. CASE ~(Len(cmd.calls) > 1) /\ failed
  BY <1>2, ListExit DEF Return
<1>3. CASE ~(Len(cmd.calls) > 1) /\ ~failed
  <2>1. PICK pc : pc = IF cmd.name = "export" THEN "folders" ELSE "ok"
    OBVIOUS
  <2>2. Continue(pc, [calls |-> <<>>])
    BY <1>3, <2>1 DEF Return
  <2>3. /\ DOMAIN cmd' = Fields /\ cmd'.pc = pc /\ cmd'.name = cmd.name
        /\ cmd'.trouble = cmd.trouble
        /\ cmd'.uploaded = cmd.uploaded /\ cmd'.changed = cmd.changed
    BY <2>2 DEF TypeOK, Continue, Over, Fields
  <2>4. CommandOK' /\ Owed' = Owed
    <3>1. cmd'.trouble \in BOOLEAN /\ (pc = "ok" => cmd.changed = {})
      BY <2>1, <2>3 DEF CommandOK
    <3> QED
      BY <2>1, <2>3, <3>1, CommandGoesOn
  <2>5. ASSUME ~cmd.trouble, NEW p \in Owed, ~Lists(p)' PROVE ToCome(p)'
    <3>1. StackOK /\ ~Top.open /\ Top.nested = {} /\ Lists(folder)' /\ ToCome(p)
      BY <1>3, <2>5
    <3>2. PICK n \in Nat : n = Len(cmd.calls)
      BY <3>1, TopCall
    <3>3. n > 0 /\ ~(n > 1)
      BY <1>3, <3>1, <3>2, TopCall
    <3>4. \A i \in 1..n : i = n
      BY <3>3
    <3>5. ~Covers(Top, p)
      BY <2>5, <3>1 DEF Covers
    <3>6. p \in cmd.changed
      BY <3>1, <3>2, <3>4, <3>5 DEF ToCome, Top
    <3> QED
      BY <2>3, <3>6 DEF ToCome
  <2> QED
    BY <2>1, <2>3, <2>4, <2>5 DEF ListInv, At
<1> QED
  BY <1>1, <1>2, <1>3

LEMMA WriteHtmlLists ==
    ASSUME IInv, ListInv, WriteHtml
    PROVE  ListInv'
<1>1. /\ TypeOK /\ CommandOK /\ files' = files /\ At("visit")
      /\ ~Top.open /\ Top.nested = {}
  BY DEF IInv, ListInv, WriteHtml
<1>2. PICK folder, entry :
         folder = Top.folder /\ entry = [Indexed(Top.folder) EXCEPT !.html = Top.names]
  OBVIOUS
<1>3. \/ index' = Put(folder, entry, index) /\ (Continue("json", <<>>) \/ Return(TRUE))
      \/ index' = index /\ Return(TRUE)
  BY <1>2 DEF WriteHtml
<1>4. DOMAIN entry = {"html", "json"} /\ entry.html = Top.names
  <2>1. DOMAIN Indexed(Top.folder) = {"html", "json"}
    BY <1>1 DEF Indexed, CommandOK
  <2> QED
    BY <1>2, <2>1
<1>5. /\ \A p \in DOMAIN index' : DOMAIN index'[p] = {"html", "json"}
      /\ \A p : p # folder /\ Lists(p) => Lists(p)'
  BY <1>1, <1>3, <1>4, OthersStayListed
<1>6. CASE Return(TRUE)
  BY <1>1, <1>2, <1>5, <1>6, ReturnLists DEF At
<1>7. CASE ~Return(TRUE)
  <2>1. DOMAIN <<>> = {}
    OBVIOUS
  <2>2. Continue("json", <<>>) /\ index' = Put(folder, entry, index)
    BY <1>3, <1>7
  <2>3. /\ DOMAIN cmd' = Fields /\ cmd'.pc = "json" /\ cmd'.name = cmd.name
        /\ cmd'.trouble = cmd.trouble /\ cmd'.calls = cmd.calls
        /\ cmd'.uploaded = cmd.uploaded /\ cmd'.changed = cmd.changed
    BY <1>1, <2>1, <2>2 DEF TypeOK, Continue, Over, Fields
  <2>4. CommandOK' /\ Owed' = Owed
    <3>1. cmd'.trouble \in BOOLEAN
      BY <1>1, <2>3 DEF CommandOK
    <3> QED
      BY <1>1, <1>5, <2>3, <3>1, CommandGoesOn
  <2>5. ASSUME ~cmd.trouble
        PROVE  StackOK' /\ HalfWritten' /\ \A p \in Owed' : Lists(p)' \/ ToCome(p)'
    <3>1. StackOK /\ \A p \in Owed : Lists(p) \/ ToCome(p)
      BY <1>1, <2>5 DEF ListInv, At
    <3>2. Closed(Top)
      BY <1>1, <3>1, TopCall
    <3>3. StackOK'
      <4>1. \A c : (Closed(c)' <=> Closed(c)) /\ (Opened(c)' <=> Opened(c))
        BY <1>1, <2>3, CallsStay
      <4> QED
        BY <2>3, <3>1, <4>1 DEF StackOK
    <3>4. HalfWritten'
      <4>1. Top' = Top
        BY <2>3 DEF Top
      <4>2. Closed(Top)'
        BY <1>1, <2>3, <3>2, <4>1 DEF Closed, Children, Descends
      <4>3. folder \in DOMAIN index' /\ index'[folder] = entry
        BY <2>2 DEF Put, Over
      <4> QED
        BY <1>1, <1>2, <1>4, <4>1, <4>2, <4>3 DEF HalfWritten
    <3>5. ASSUME NEW p \in Owed PROVE Lists(p)' \/ ToCome(p)'
      <4>1. \A c : Covers(c, p)' <=> Covers(c, p)
        BY <1>1, <2>3, CallsStay
      <4>2. CASE p # folder /\ Lists(p)
        BY <1>5, <4>2
      <4>3. CASE p = folder
        <5>1. Below(p, p)
          BY <1>2, <3>2, <4>3, FolderIsSeq DEF Closed
        <5>2. Covers(Top, p)
          BY <1>2, <4>3, <5>1 DEF Covers
        <5>3. Len(cmd.calls) \in 1..Len(cmd.calls)
          BY <3>1, TopCall
        <5> QED
          BY <2>3, <4>1, <5>2, <5>3 DEF ToCome, Top
      <4>4. CASE ToCome(p)
        BY <2>3, <4>1, <4>4 DEF ToCome
      <4> QED
        BY <3>1, <4>2, <4>3, <4>4
    <3> QED
      BY <2>4, <3>3, <3>4, <3>5
  <2> QED
    BY <2>3, <2>4, <2>5 DEF ListInv, At
<1> QED
  BY <1>6, <1>7

LEMMA WriteJsonLists ==
    ASSUME IInv, ListInv, WriteJson
    PROVE  ListInv'
<1>1. TypeOK /\ CommandOK /\ files' = files /\ At("json")
  BY DEF IInv, ListInv, WriteJson
<1>2. PICK folder, entry :
         folder = Top.folder /\ entry = [Indexed(Top.folder) EXCEPT !.json = Top.names]
  OBVIOUS
<1>3. \/ index' = Put(folder, entry, index) /\ \E failed \in BOOLEAN : Return(failed)
      \/ index' = index /\ Return(TRUE)
  BY <1>2 DEF WriteJson
<1>4. /\ DOMAIN Indexed(Top.folder) = {"html", "json"} /\ DOMAIN entry = {"html", "json"}
      /\ entry.json = Top.names /\ entry.html = Indexed(Top.folder).html
  <2>1. DOMAIN Indexed(Top.folder) = {"html", "json"}
    BY <1>1 DEF Indexed, CommandOK
  <2> QED
    BY <1>2, <2>1
<1>5. /\ \A p \in DOMAIN index' : DOMAIN index'[p] = {"html", "json"}
      /\ \A p : p # folder /\ Lists(p) => Lists(p)'
  BY <1>1, <1>3, <1>4, OthersStayListed
<1>6. CASE Return(TRUE)
  BY <1>1, <1>2, <1>5, <1>6, ReturnLists DEF At
<1>7. CASE Return(FALSE) /\ ~Return(TRUE)
  <2>1. index' = Put(folder, entry, index)
    BY <1>3, <1>7
  <2>2. ASSUME ~cmd.trouble
        PROVE  /\ StackOK /\ ~Top.open /\ Top.nested = {} /\ Lists(folder)'
               /\ \A p \in Owed : Lists(p)' \/ ToCome(p)
    <3>1. StackOK /\ HalfWritten /\ \A p \in Owed : Lists(p) \/ ToCome(p)
      BY <1>1, <2>2 DEF ListInv, At
    <3>2. PICK f : f = folder
      OBVIOUS
    <3>3. /\ Closed(Top) /\ Top.open = FALSE /\ Top.nested = {} /\ Top.names = Children(f)
          /\ f \in DOMAIN index /\ index[f].html = Top.names
      BY <1>2, <3>1, <3>2 DEF HalfWritten, Closed
    <3>4. f \in DOMAIN index' /\ index'[f] = entry
      BY <2>1, <3>2 DEF Put, Over
    <3>5. entry.html = Children(f) /\ entry.json = Children(f)
      BY <1>2, <1>4, <3>2, <3>3 DEF Indexed
    <3>6. Children(f)' = Children(f)
      BY <1>1 DEF Children
    <3>7. entry = [html |-> Children(f), json |-> Children(f)]
      <4>1. entry = [k \in DOMAIN entry |-> entry[k]]
        BY <1>2, <1>4
      <4> QED
        BY <1>4, <3>5, <4>1
    <3>8. Lists(f)'
      BY <3>4, <3>6, <3>7 DEF Lists
    <3> QED
      BY <1>5, <3>1, <3>2, <3>3, <3>8
  <2> QED
    BY <1>1, <1>2, <1>5, <1>7, <2>2, ReturnLists DEF At
<1> QED
  BY <1>3, <1>6, <1>7

LEMMA ListNext == IInv /\ ListInv /\ [Next]_vars => ListInv'
<1> SUFFICES ASSUME IInv, ListInv, [Next]_vars PROVE ListInv'
  OBVIOUS
<1>1. CASE StartExport \/ ListDay \/ SkipTable \/ NextDay
  BY <1>1, ExportLists
<1>2. CASE ExportTable
  BY <1>2, ExportTableLists
<1>3. CASE FinishDays
  BY <1>3, FinishDaysLists
<1>4. CASE NextFolder
  BY <1>4, NextFolderLists
<1>5. CASE StartUpdateIndexFiles
  BY <1>5, StartUpdateLists
<1>6. CASE ListFolder
  BY <1>6, ListFolderLists
<1>7. CASE Nest
  BY <1>7, NestLists
<1>8. CASE WriteHtml
  BY <1>8, WriteHtmlLists
<1>9. CASE WriteJson
  BY <1>9, WriteJsonLists
<1>10. CASE Kill
  BY <1>10, ListExit DEF Kill, bucket, ListInv, CommandOK
<1>11. CASE Midnight \/ (\E x \in Rows : AddRow(x) \/ UpdateRow(x)) \/ UNCHANGED vars
  <2>1. UNCHANGED <<files, index, cmd>>
    BY <1>11 DEF Midnight, AddRow, UpdateRow, bucket, vars
  <2> QED
    BY <2>1, ListSame
<1> QED
  BY <1>1, <1>2, <1>3, <1>4, <1>5, <1>6, <1>7, <1>8, <1>9, <1>10, <1>11
  DEF Next, Export, UpdateIndex

LEMMA ListHolds == Spec => []ListInv
<1>1. Init => ListInv
  BY ListInit
<1>2. IInv /\ ListInv /\ [Next]_vars => ListInv'
  BY ListNext
<1> QED
  BY <1>1, <1>2, InvHolds, PTL DEF Spec

LEMMA OkIsListed ==
    ASSUME ListInv, At("ok"), ~cmd.trouble, NEW p \in Owed
    PROVE  Lists(p)
BY DEF ListInv, CommandOK, ToCome, At

\* UpdateIndexFile is called for every folder in changedFolders, and addFolder
\* puts the folder of an uploaded file there with all those above it.  When export
\* succeeds and no listing broke off, each file it uploaded can be reached from
\* the root.
THEOREM UploadsCanBeReached == Spec => []UploadsAreListed
<1>1. ListInv => UploadsAreListed
  <2> SUFFICES ASSUME ListInv, cmd.name = "export", At("ok"), ~cmd.trouble,
                      NEW f \in cmd.uploaded, NEW folder \in Prefixes(FolderOf[f[1]])
               PROVE  Lists(folder)
    BY DEF UploadsAreListed
  <2>1. folder \in Owed
    BY DEF Owed
  <2> QED
    BY <2>1, OkIsListed
<1> QED
  BY <1>1, ListHolds, PTL

\* UpdateIndexFile calls itself for the folders it finds.  When updateindexfiles
\* succeeds without an error it drops, every folder above a data file lists what
\* is in it, whatever earlier commands left undone.
THEOREM RebuildListsAll == Spec => []RebuildRepairs
<1>1. ListInv => RebuildRepairs
  <2> SUFFICES ASSUME ListInv, cmd.name = "updateindexfiles", At("ok"), ~cmd.trouble,
                      NEW f \in DOMAIN files, NEW folder \in Prefixes(FolderOf[f[1]])
               PROVE  Lists(folder)
    BY DEF RebuildRepairs
  <2>1. folder \in Owed
    BY DEF Owed
  <2> QED
    BY <2>1, OkIsListed
<1> QED
  BY <1>1, ListHolds, PTL

=============================================================================
