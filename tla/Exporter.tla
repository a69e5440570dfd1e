------------------------------ MODULE Exporter ------------------------------
(***************************************************************************)
(* The public data exporter (pkg/publicdata): the command "export", which  *)
(* uploads one file per table for each of the last days it does not find   *)
(* in the bucket and then writes index files for the folders it changed,   *)
(* and the command "updateindexfiles", which writes all of them.  A        *)
(* command may be killed anywhere, and any call to the storage or the      *)
(* database may fail.  One command runs at a time.                         *)
(*                                                                         *)
(* Days are numbers; a file holds the set of rows it was written with.     *)
(* The bucket, the database and what writes to it are external.            *)
(***************************************************************************)
EXTENDS Integers, Sequences, SequencesExt, FiniteSets, Functions

CONSTANTS
    tables,         \* ex.tables: their names, in order
    Updatable,      \* those whose query also asks for "updated"
    Rows,           \* the rows that will be written
    TableOf,        \* row -> table
    LastDay,        \* bound on the days that pass
    FolderOf,       \* day -> <<year, month>>
    RecentDays,     \* maxDays on most days: 7
    BreaksAfter,    \* bound: after how many names a listing may break off
    MonthDays       \* maxDays on the first of a month: 32

Days == 1..LastDay

Tables == Range(tables)

ASSUME ExporterAssumption ==
    /\ LastDay \in Nat \ {0}
    /\ RecentDays \in Nat \ {0}
    /\ BreaksAfter \subseteq Nat
    /\ tables \in Seq(Tables) /\ IsInjective(tables)
    /\ Updatable \subseteq Tables
    /\ TableOf \in [Rows -> Tables]
    /\ FolderOf \in [Days -> Nat \X Nat]
    /\ MonthDays \in Nat /\ RecentDays <= MonthDays
    /\ \A d \in Days : Cardinality({e \in Days : FolderOf[e] = FolderOf[d]}) <= MonthDays
    /\ \A c, d, e \in Days : c < d /\ d < e /\ FolderOf[c] = FolderOf[e] => FolderOf[d] = FolderOf[e]

VARIABLES
    today,
    rows,       \* committed rows: row -> [created, updated], updated 0: null
    files,      \* the data files in the bucket: <<day, table>> -> rows in it
    index,      \* the index files: folder -> [html, json], the names they list
    cmd,        \* the command that runs
    late,       \* for the properties: rows committed after their day was over
    cut         \* for the properties: files whose query lost its connection

vars == <<today, rows, files, index, cmd, late, cut>>

bucket == <<files, index, cut>>
database == <<rows, late>>

\* "end" is endTime, "left" the days still to do, "todo" the tables of this
\* day, "found" those in foundKeys, "changed" changedFolders, "calls" the nested
\* calls of UpdateIndexFile.  For the properties: when the command started, what
\* it uploaded, and whether a listing was cut short or a nested call failed.
NoCommand ==
    [name |-> "none", pc |-> "idle", end |-> 0, left |-> 0, todo |-> <<>>, found |-> {},
     changed |-> {}, calls |-> <<>>, started |-> 0, uploaded |-> {}, trouble |-> FALSE]

\* f, and g where f is not defined.
Over(f, g) == [x \in DOMAIN f \cup DOMAIN g |-> IF x \in DOMAIN f THEN f[x] ELSE g[x]]

Put(key, value, map) == Over([k \in {key} |-> value], map)

Continue(pc, changes) == cmd' = Over(changes, Over([pc |-> pc], cmd))

At(pc) == cmd.pc = pc

\* The command returns an error, or is killed: nothing of it is left.
Exit == cmd' = NoCommand

-----------------------------------------------------------------------------
(* The database.  "created" is the time a transaction began, it may commit *)
(* after midnight; updates are taken to commit on their day.               *)

AddRow(x) ==
    /\ x \notin DOMAIN rows
    /\ \E d \in {today - 1, today} \cap Days :
          /\ rows' = Put(x, [created |-> d, updated |-> 0], rows)
          /\ late' = IF d < today THEN late \cup {<<x, d>>} ELSE late
    /\ UNCHANGED <<today, bucket, cmd>>

UpdateRow(x) ==
    /\ x \in DOMAIN rows
    /\ rows' = [rows EXCEPT ![x].updated = today]
    /\ UNCHANGED <<today, late, bucket, cmd>>

Midnight ==
    /\ today < LastDay
    /\ today' = today + 1
    /\ UNCHANGED <<database, bucket, cmd>>

\* The queries: [StartTime, EndTime) is one day.
InWindow(x, day, table) ==
    \/ rows[x].created = day
    \/ table \in Updatable /\ rows[x].updated = day

Selected(day, table) ==
    {x \in DOMAIN rows : TableOf[x] = table /\ InWindow(x, day, table)}

-----------------------------------------------------------------------------
(* export.                                                                 *)

FirstOfMonth(day) == day > 1 /\ FolderOf[day] # FolderOf[day - 1]

\* Faulty variant: the longer look back once a month is forgotten.
RecentDaysOnly(day) == RecentDays

MaxDays(day) == IF FirstOfMonth(day) THEN MonthDays ELSE RecentDays

\* Faulty variant: the day that has begun counts as the last one.
EndOfToday == today + 1

EndTime == today

StartExport ==
    /\ At("idle")
    /\ Continue("list", [name |-> "export", end |-> EndTime, left |-> MaxDays(today),
                         started |-> today])
    /\ UNCHANGED <<today, database, bucket>>

Day == cmd.end - 1

\* Faulty variant: a listing that fails halfway is taken for the whole.
ListDayUnchecked ==
    /\ At("list")
    /\ cmd.left > 0 /\ Day \in Days
    /\ \E found \in SUBSET {t \in Tables : <<Day, t>> \in DOMAIN files} :
          Continue("tables", [todo |-> tables, found |-> found])
    /\ UNCHANGED <<today, database, bucket>>

\* ExportDeltaFiles: which files of the day are there.
ListDay ==
    /\ At("list")
    /\ cmd.left > 0 /\ Day \in Days
    /\ \/ Continue("tables", [todo |-> tables,
                              found |-> {t \in Tables : <<Day, t>> \in DOMAIN files}])
       \/ Exit
    /\ UNCHANGED <<today, database, bucket>>

\* Faulty variant: only the folder of the file itself.
FolderAlone(folder) == {folder}

\* addFolder: a folder and all above it; the root is <<>>.
AddFolder(folder) == Prefixes(folder)

SkipTable ==
    /\ At("tables") /\ cmd.todo # <<>>
    /\ Head(cmd.todo) \in cmd.found
    /\ Continue("tables", [todo |-> Tail(cmd.todo)])
    /\ UNCHANGED <<today, database, bucket>>

\* ExportQuery: the rows go to a temporary file and, when no more of them come,
\* to the bucket.  rows.Err() is not asked, so a connection lost in between is
\* the end of the rows.
ExportTable ==
    /\ At("tables") /\ cmd.todo # <<>>
    /\ Head(cmd.todo) \notin cmd.found
    /\ \/ LET file == <<Day, Head(cmd.todo)>>
               selected == Selected(Day, Head(cmd.todo))
           IN  \E written \in SUBSET selected :
             /\ files' = Put(file, written, files)
             /\ cut' = IF written = selected THEN cut ELSE cut \cup {file}
             /\ \/ Continue("tables", [todo |-> Tail(cmd.todo),
                                       changed |-> cmd.changed \cup AddFolder(FolderOf[Day]),
                                       uploaded |-> cmd.uploaded \cup {file}])
                \/ \* the upload took place, its reply was lost
                   Exit
       \/ /\ Exit
          /\ UNCHANGED <<files, cut>>
    /\ UNCHANGED <<today, database, index>>

NextDay ==
    /\ At("tables") /\ cmd.todo = <<>>
    /\ Continue("list", [end |-> Day, left |-> cmd.left - 1, found |-> {}])
    /\ UNCHANGED <<today, database, bucket>>

\* Before the first day there is nothing.
FinishDays ==
    /\ At("list")
    /\ cmd.left = 0 \/ Day \notin Days
    /\ Continue("folders", [end |-> 0, left |-> 0])
    /\ UNCHANGED <<today, database, bucket>>

\* The loop over changedFolders, in any order.
NextFolder ==
    /\ At("folders")
    /\ IF cmd.changed = {} THEN Continue("ok", <<>>)
       ELSE \E f \in cmd.changed :
               Continue("visit", [changed |-> cmd.changed \ {f},
                                  calls |-> <<[folder |-> f, open |-> TRUE]>>])
    /\ UNCHANGED <<today, database, bucket>>

-----------------------------------------------------------------------------
(* UpdateIndexFile, for both commands.                                     *)

StartUpdateIndexFiles ==
    /\ At("idle")
    /\ Continue("visit", [name |-> "updateindexfiles",
                          calls |-> <<[folder |-> <<>>, open |-> TRUE]>>])
    /\ UNCHANGED <<today, database, bucket>>

Path(file) == Append(FolderOf[file[1]], file)

\* What ListObjects finds in a folder: the next part of each path below it.
Children(folder) ==
    {Path(file)[Len(folder) + 1] : file \in {g \in DOMAIN files : IsPrefix(folder, Path(g))}}

\* Faulty variant: the flag is not handed on to the nested calls.
DescendsFromRootOnly(folder) == cmd.name = "updateindexfiles" /\ folder = <<>>

\* Only files are in the folders of months.
Descends(folder) == cmd.name = "updateindexfiles" /\ Len(folder) < 2

\* What a listing may get to: the names come one after the other.
ListedOf(names) ==
    LET keys == SetToSeq(names)
    IN  {names} \cup {{keys[i] : i \in 1..n} : n \in BreaksAfter \cap 0..Len(keys)}

Top == cmd.calls[Len(cmd.calls)]

\* The listing.  obj.Err is not asked: a listing that fails is taken for
\* complete.  The nested calls come before the files of the folder are written.
ListFolder ==
    /\ At("visit") /\ Top.open
    /\ \E names \in ListedOf(Children(Top.folder)) :
          Continue("visit",
              [calls |-> Append(Front(cmd.calls),
                  [folder |-> Top.folder, open |-> FALSE, names |-> names,
                   nested |-> IF Descends(Top.folder) THEN names ELSE {}]),
               trouble |-> cmd.trouble \/ names # Children(Top.folder)])
    /\ UNCHANGED <<today, database, bucket>>

Nest ==
    /\ At("visit") /\ ~Top.open /\ Top.nested # {}
    /\ \E n \in Top.nested :
          Continue("visit",
              [calls |-> Front(cmd.calls) \o
                  << [Top EXCEPT !.nested = @ \ {n}],
                     [folder |-> Append(Top.folder, n), open |-> TRUE] >>])
    /\ UNCHANGED <<today, database, bucket>>

\* The call returns.  The caller drops the error of a nested call.
Return(failed) ==
    IF Len(cmd.calls) > 1
    THEN Continue("visit", [calls |-> Front(cmd.calls), trouble |-> cmd.trouble \/ failed])
    ELSE IF failed THEN Exit
    ELSE Continue(IF cmd.name = "export" THEN "folders" ELSE "ok", [calls |-> <<>>])

Indexed(folder) ==
    IF folder \in DOMAIN index THEN index[folder] ELSE [html |-> {}, json |-> {}]

WriteHtml ==
    /\ At("visit") /\ ~Top.open /\ Top.nested = {}
    /\ \/ /\ index' = Put(Top.folder, [Indexed(Top.folder) EXCEPT !.html = Top.names], index)
          /\ Continue("json", <<>>) \/ Return(TRUE)
       \/ /\ Return(TRUE)
          /\ UNCHANGED index
    /\ UNCHANGED <<today, database, files, cut>>

WriteJson ==
    /\ At("json")
    /\ \/ /\ index' = Put(Top.folder, [Indexed(Top.folder) EXCEPT !.json = Top.names], index)
          /\ \E failed \in BOOLEAN : Return(failed)
       \/ /\ Return(TRUE)
          /\ UNCHANGED index
    /\ UNCHANGED <<today, database, files, cut>>

-----------------------------------------------------------------------------
\* The process ends, by itself or not.
Kill ==
    /\ ~At("idle")
    /\ Exit
    /\ UNCHANGED <<today, database, bucket>>

Export ==
    StartExport \/ ListDay \/ SkipTable \/ ExportTable \/ NextDay \/ FinishDays \/ NextFolder

UpdateIndex == StartUpdateIndexFiles \/ ListFolder \/ Nest \/ WriteHtml \/ WriteJson

Init ==
    /\ today = 1
    /\ rows = <<>>
    /\ files = <<>>
    /\ index = <<>>
    /\ cmd = NoCommand
    /\ late = {}
    /\ cut = {}

Next ==
    \/ Midnight \/ \E x \in Rows : AddRow(x) \/ UpdateRow(x)
    \/ Export \/ UpdateIndex \/ Kill

Spec == Init /\ [][Next]_vars

-----------------------------------------------------------------------------
\* What users have downloaded stays as it is: no command, killed or repeated
\* however often, writes a data file a second time.
NeverRewritten ==
    [][\A f \in DOMAIN files : f \in DOMAIN files' /\ files'[f] = files[f]]_vars

\* A file has all rows of its day, although rows are still added and updated
\* while it is there, but for those whose transaction was still open at
\* midnight and those lost with the connection of the query.
FilesAreComplete ==
    \A f \in DOMAIN files \ cut :
        \A x \in Selected(f[1], f[2]) : x \in files[f] \/ <<x, f[1]>> \in late

\* A run that gets past the files leaves none out: the last days are there, and
\* on the first of a month the whole month before, whatever earlier runs missed.
LookBackIsComplete ==
    cmd.name = "export" /\ cmd.pc \in {"folders", "visit", "json", "ok"} =>
        \A d \in Days, t \in Tables :
            /\ d < cmd.started
            /\ \/ d >= cmd.started - RecentDays
               \/ FirstOfMonth(cmd.started) /\ FolderOf[d] = FolderOf[cmd.started - 1]
            => <<d, t>> \in DOMAIN files

Lists(folder) ==
    folder \in DOMAIN index /\ index[folder] =
        [html |-> Children(folder), json |-> Children(folder)]

\* When export succeeds and no listing broke off, each file it uploaded can be
\* reached from the root, in the pages and in the JSON files.
UploadsAreListed ==
    cmd.name = "export" /\ At("ok") /\ ~cmd.trouble =>
        \A f \in cmd.uploaded : \A folder \in Prefixes(FolderOf[f[1]]) : Lists(folder)

\* Index files left behind by commands that failed between an upload and the
\* index are made good by updateindexfiles: when it succeeds, without an error
\* that UpdateIndexFile drops, every folder lists what is in it.
RebuildRepairs ==
    cmd.name = "updateindexfiles" /\ At("ok") /\ ~cmd.trouble =>
        \A f \in DOMAIN files : \A folder \in Prefixes(FolderOf[f[1]]) : Lists(folder)

=============================================================================
