# Verification of go-acoustid

TLA+ modules of the parts of this repository whose correctness depends on the
order in which things happen, configurations that check them with TLC, and
proofs checked with TLAPS. Paths are relative to the root of the repository
(`src/` stands for it in `PROJECT.json`).

The repository has no design documents. Its comments and tests are the only
statements of intent besides the code, and are quoted where a run contradicts
one.

## The system

AcoustID identifies audio by fingerprints, arrays of 32-bit hashes. The
programs of this repository sit around two stores they do not contain: a
PostgreSQL database and the fingerprint index, a server with a line protocol
(one request per line, one reply per request, replies in order, transactions
per connection).

| component | state it keeps | operations | talks to |
| --- | --- | --- | --- |
| index client, `pkg/fpindex/client.go` | per connection: `closed`, `hasError`, `hasDeadline`, counts of requests and responses, `tx` | `Ping`, `GetAttribute`, `Search`, `Insert`, `Close`, `sendRequest` | the index server |
| index pool, `pkg/fpindex/client_pool.go` | idle and lent connections, a limit | borrow (activate, validate, ping), return (passivate), evict | index client |
| index proxy, `pkg/fpindex/proxy.go` | none | gRPC `Search`, `Insert`, with an optional timeout | pool |
| index updater, `pkg/fpindex/updater.go` | one connection | an endless loop: highest indexed id, next rows, insert | index client, PostgreSQL |
| fingerprint store, `pkg/fpstore` | none; a Redis cache and two tables | gRPC `Insert`, `Get`, `Compare`, `Search`; retries | Redis, PostgreSQL, pool |
| public data exporter, `pkg/publicdata` | none; objects in a bucket | export the missing files of the last days, write index files | PostgreSQL, S3 |
| API server, `server` | none | `/v2/lookup` | legacy searcher |
| legacy searcher, `server/services`, `database/fingerprint_db` | none | `Search`: candidates from the index, `ScoreSearchMatches` | pool, PostgreSQL |
| chromaprint, `pkg/chromaprint` | none | parse, compress, align and compare fingerprints | - |
| integers, `util` | none | pack and unpack 1 to 7 bits, varints, arrays of PostgreSQL | - |
| integer sets, `util/intset` | blocks of bits per set | `Add`, `Delete`, `Union`, `Intersection`, `Min`, `Max`, `Write`, `Read` | any reader and writer |
| virtual file system, `util/vfs` | files, open files and locks of `memFS` | create, commit, rename, remove, open, lock; `WriteFile` | - |

What is hard about them, and where:

* **Index client and pool.** Several goroutines, contexts that end at any
  moment, replies that come after the caller has gone, a connection that is
  handed from one call to the next, a server whose transaction lives on that
  connection. Correct means: a call gets the reply to its own request, a
  connection carries nothing from one call into the next, none is lost or used
  twice, a batch is indexed as a whole or not at all, and every call returns.
* **Updater.** Crashes, truncated result sets, commits that are applied after the
  updater has given them up, rows that become visible out of order. Correct
  means: no row is skipped for ever, and it catches up.
* **Fingerprint store.** A cache filled by two paths over tables read by one;
  retries that must not repeat an insert. Correct means: an id is never answered
  with the fingerprint of another, trouble with the cache or the database is never
  reported as an absent fingerprint, no match is lost, an insert is stored once.
* **Exporter.** Partial failures between uploads and index files. Correct means:
  an uploaded file is complete and stays as it is, no day is left out, and index
  files list what is there.
* **Lookup.** Three services that fail or hang between the steps of one request, a
  time limit, rows that end early, and three filters one after the other
  (candidates, share of hits, window of durations). Correct means: a fingerprint that
  is there is found, answers are ordered, every lookup ends.
* **Sets and files.** Sets that could share blocks, files that are replaced, removed
  or overwritten under a reader, writers that fail half-way, locks. Correct means:
  sets behave as sets, what is loaded is a whole set that was saved or an error,
  two users never hold a lock.
* **Algorithms** (query extraction, result filter, candidates, packing, varints,
  alignment). Boundaries. Correct means: what is written is read as it was and what was cut
  off is noticed, a query is full, alignment stays within the fingerprints, the best is kept.

`PROJECT.json` lists all of these, the hazards at their lines, and which
property catches which.

## Modules

| module | models | refines / composes |
| --- | --- | --- |
| `IndexClient` | client, socket, context; external: server, network, clock | - |
| `IndexClientPool` | pool, factory callbacks, proxy handlers, evictor | extends `IndexClient`, implements `IndexService` |
| `IndexService` | what the proxy promises to its clients | abstract |
| `IndexServiceProofs` | what a client may conclude from those promises | extends `IndexService` |
| `IndexClientPoolProofs` | theorems about `IndexClientPool`, among them that it implements `IndexService` | extends it, instantiates `IndexServiceProofs` |
| `Updater` | `RunUpdater`, the table it reads | extends `IndexClient` |
| `UpdaterProofs` | theorems about `Updater` | extends it |
| `IndexQueries` | the query for the index and the filter of its results, as operators | - |
| `FingerprintStore` | gRPC handlers of the store, cache, tables, retries | extends `IndexQueries` |
| `FingerprintStoreProofs` | theorems about `FingerprintStore` | extends it |
| `Exporter` | the commands `export` and `updateindexfiles`, the bucket | - |
| `ExporterProofs` | theorems about `Exporter` | extends it |
| `LegacySearcher` | index query and candidates of the API server's searcher, as operators | extends `IndexQueries` |
| `Lookup` | `/v2/lookup` from request to response, the database | extends `LegacySearcher` |
| `LookupProofs` | theorems about `Lookup` | extends it |
| `SparseBitSet` | sets of integers in blocks of memory | - |
| `MemFS` | a directory of files, handles and locks | - |
| `SetFiles` | users who save and load sets in files | extends `SparseBitSet` and `MemFS`, implements `SavedSets` |
| `SavedSets` | what sets and files promise together | abstract |
| `SetFilesProofs` | theorems about `SetFiles` | extends it |
| `FingerprintEncoding` | writing and reading binary fingerprints, as operators | - |
| `FingerprintMatching` | alignment, comparison, matching sections, as operators | - |
| `BitPacking`, `Varints` | integers of few bits, varints, arrays, as operators | - |
| `Algorithms` | one call of one of these functions | extends the modules of operators |
| `AlgorithmsProofs` | theorems about `Algorithms` | extends it |
| `MC*` | small constants for TLC | extend the module they are named after |

### IndexClient

`client[k]` holds the fields of the `IndexClient` object of connection `k`.
`numRequests` and `numResponses` are only compared for equality, so their
difference `unanswered` stands for both. The two ends of a connection are `wire[k]`
(requests not served), `replies[k]` (replies not read), `session[k]` (the
server's transaction) and `link[k]`; `sockDl[k]` names the user whose deadline
the socket carries. A slot of `Conns` is used again once both ends are gone.

`sendRequest` (client.go:163-212) is split where others can act: `Write` installs
the deadline, looks at the context and writes; `CheckContext` looks at the
context again; `ReadOK`, `ReadERR`, `ReadJunk` and `ReadFails` are the four ways of
`ReadLine` and the prefixes. `Refuse` is an end of the context seen before the
write, by `sendRequest` or by the methods of the transaction (which leave the
deadline alone). `AfterOK`, `AfterError` and `NextInsert` say how the method
around it goes on: `Insert` is begin, one insert per fingerprint, commit, and a
rollback after a failed insert; that rollback too is a `sendRequest` and can be
refused. `req[u] = "rollback"` never starts from `Close`, because `c.tx` is never
set (see the findings).

The server (external) accepts `begin` outside a transaction and the other three
inside one, answers with an OK, ERR or unintelligible line, serves what it has
received from a client that has hung up, and drops a transaction with its
connection. It may refuse anything without changing anything. A connection can
break at any moment. A deadline passes some time before the timer of the
context fires, because the socket and the context look at the clock
separately.

### IndexClientPool

A call of `Calls` is one gRPC request. It arrives with or without a deadline,
borrows (`BorrowIdle`, `BorrowPinged` followed by `PingReturns`, `BorrowRefused`,
`Create`, `CreateFails`, `BorrowInterrupted`), runs its method, and
`ReturnObject` gives the connection back through `Passivate`. The age of a
connection and the time since it was last borrowed are free: an idle connection
may be refused, pinged or used at any time, which covers every value of
`MaxKeepAlive` and `PingInterval`. The evictor pings idle connections with a
context that never ends (`Evict`, `EvictorPing`, `EvictorPingReturns`). Each call is
made once, so a behaviour ends when all are done: deadlock checking is off.

### IndexService

Five actions per call: arrive, look at the index (search), apply the batch
(insert), succeed, fail. A failed call may still be applied later: the reply to its
commit was lost, or the commit was served after the connection was closed.
`IndexClientPool!ImplementsService` is the refinement; the mapping takes `seen` from the
index the server had in the call's query and `found` from the reply the client
accepted.

### Updater

The loop of `RunUpdater`, one action per step between two calls to the index or
the database, with `IndexClient` underneath. `rows`, `uncommitted` and `nextId` are
the table: an id is taken from the sequence before its transaction commits or
aborts. With `InOrder` transactions commit in the order of their ids.
`NextFingerprints` yields any prefix of the matching rows, at most a batch,
because the loop in stream.go:40-48 does not ask `rows.Err()`. `Crash` is the end of
the process at any point; `ConnectFails` is the `log.Fatal` of a failed reconnect.
How long the loop sleeps is left out. An attribute that is not a number ends
the round exactly as `FetchFails` does.

### FingerprintStore

`req[r]` is the handler of one gRPC request: where it stands, its context, and the
local variables of `getFingerprints` (`ids`, `missing`, `rows`, `got`; `missing` is the set of places
in `ids` the cache had nothing for, which are read in their order). `legacy` is the set of
rows of the table `fingerprint`, whose contents are `LegacyRow`; `new` is the table
`fingerprint_v2`, `cache` is Redis. A handler yields at each call to the index, the
cache or the database: `SearchIndex`, `ReadCache`, `ReadRow` (one attempt for one id),
`FillCache` (one `cache.Set`), `InsertRow`, `KeepInserted`, and `Answer`, which has no call
and is one step. A cache read fails as a whole, or leaves any keys unanswered; a
value that does not decode fails it as a whole too, and is not kept as a state. A
`cache.Set` may fail unnoticed. `ReadRow` succeeds, loses its connection (`Retry`) or fails;
`InsertRow` may commit and fail. After its context has ended nothing a request asks
of the outside succeeds; a cancelled one is given up by `compareFingerprints`, one
past its deadline is not. Scores are a relation, `Similar`; a fingerprint that cannot be
compared is similar to none. A `Compare` or `Search` whose message has no
fingerprint at all is not an input: the handlers dereference it.

An inserted fingerprint is in `fingerprint_v2` and, for a while, in the cache. `Get`,
`Compare` and `Search` read the cache and the table `fingerprint` only: `getV2` has no caller.
In the model an inserted id is found until its key expires and absent afterwards,
as in the code, and no property says otherwise.

### Exporter

`cmd` is the command that runs, with the local variables of `Run` (`end` is `endTime`, as
a day number; `todo` are the tables left, `found` is `foundKeys`) and the stack of `UpdateIndexFile` calls. `files` maps a day and a table
to the rows written; `index` maps a folder to the names its `index.html` and its
`index.json` list. `ListDay` is the listing of `ExportDeltaFiles`, `SkipTable` a file it has
found, `ExportTable` is one `ExportQuery`
(its rows may end early, its upload may take place although the command fails),
`ListFolder`, `Nest`, `WriteHtml` and `WriteJson` are the parts of `UpdateIndexFile`. The listing
may break off without an error; an error of a nested call is dropped
(`Return`). Rows are created in transactions that may commit after midnight, and
updated later, which takes them out of the window of an earlier update. Before the
first day there is nothing to export. Commands do not overlap.

### Lookup

One action per step of the handler between two calls: `Refuse` is any of the
errors of the input, in the order the code finds them; `SearchIndex` the query and
the candidates of `LegacySearcher`; `BeginTx`, `QueryRows`, `NextRow` and `EndOfRows` the parts of
`ScoreSearchMatches`. `EndOfRows` may come with rows left: `rows.Err()` is not asked, and the rows
so far are the answer (`cut`). `BeginFails` closes the connection without a response, as
the error of `BeginTx` is dropped and the nil transaction panics. `Duration` and `Window` are counted in
halves of a second, where the rounding of the code differs. The time limit of one
second (`Timeout`) and the end of the client's connection (`Disconnect`) end the context; index
and database may answer, fail or never answer. A NaN duration passes the range check
(`InRange`) and is an input. Requests share nothing but the two stores.

### SparseBitSet and MemFS

A set maps the index of a block to an address, and `heap` has the bits at each address, so
two sets could share a block if `Clone` or `Union` did not copy it. Blocks are removed where the
code removes them: not by `Delete`, but by `Min`, `Max` and `Write` (`MinDeletes`, `MaxDeletes`, `Compact`).

A file of `memFS` has contents, a sequence of the pieces written; names stand for files, and an
open handle keeps its file whatever becomes of the name. An atomic file has no name
before `Commit`. Every method holds `fs.mu` or the mutex of the file and is one step.

### SetFiles

Each user has one set, one handle and one lock. A user saves its set with `WriteFile`
(`StartWriteFile`, the pieces of `SparseBitSet.Write`, `CommitFile`, and `EndWrite`, the deferred `Close`, which may
come at any time), or overwrites `PlainName` in place while it holds `LockName`, or loads a
set piece by piece as `SparseBitSet.Read` does, while others save, rename and remove. No code of the
repository uses the two packages together; the composition goes through the reader and
writer interfaces both were written for. The users follow two rules, which the
abstract module `SavedSets` needs: a set has one user at a time, and a file overwritten
in place is opened under its lock (a reader without the lock would see it shrink).

### Algorithms

A call chooses a function and its arguments, `answer` is what it returns. Hashes have 32
bits and are the set of them, except in the queries, where only masking and equality
count and they are numbers. `BitPacking` is the generated code of `pack.go` for
any width, on sequences of bits: `PackedBit` says which bit of a group its values make, joined by
"or" and cut off after the last byte, so a value that is too wide spoils those behind it. The loops of
`CompressFingerprint`, of `unpackFingerprint` and of the query extraction are functions
of the number of turns (`PutValue`, `AllBits`, `lastBit`, `hash`); no operator is `RECURSIVE`, so all of them can be proved about.
TLC's integers would overflow where the code's must not, so `Varints` keeps an integer of 32 bits as the set of its bits
for the first form, which shifts them, and as its four bytes for the second, which compares and divides.

Floating point is replaced by fractions. The Gaussian of three points is 0.299, 0.401, 0.299
and becomes 3, 4, 3 tenths: the comparisons the properties depend on, of 5 pairs with the
threshold of 2 and of a count with its neighbours, come out the same, but two smoothed counts
that are equal here may differ in the last digit there. The join of two sorted arrays is
written as the join. Where the code's outcome hangs on more than that, an operator gives
the set of outcomes: which of the hits with the highest count is first, where the smoothed
differences have edges (anywhere but at the ends), in what order equal results of the index
come. `reduced` marks a score that the code raises to a power, which leaves 0 and 1 as they are.

A fingerprint of two hashes in turn, `ABAB`, is aligned with itself at an offset of one: the
pairs at 0 and 2, smoothed together, outweigh those at 0. `ExcerptIsFound` therefore asks for
hashes that can be told apart. It also asks that the master has no more than 20 times as many different
hashes behind the beginning of the excerpt as the excerpt has hashes: beyond that `CompareFingerprints` takes the number of pairs for chance and
scores 0 however well they agree. `TruncationIsRefused` asks for less than `MaxTotal` hashes, as the header counts them modulo
that: with more, a fingerprint that lost most of its bytes may be just what the header says.

## Runs

| run | checks | shows | bounds |
| --- | --- | --- | --- |
| `PoolShared` | `TypeOK`, `OneOwner`, `AllOrNothing`, `IdleIsClean`, `OwnReply`, `DeadlineIsTheCallers`, `ImplementsService` | calls that run at the same time or use one connection after the other do not disturb each other | 1 insert of 2 documents, 1 search, limit 2, 2 slots |
| `PoolReturns` | `DeadlinedCallReturns`, `EveryCallReturns` | every call returns | insert and search of 1 document, limit 1, 1 slot |
| `PoolTxActive` | `NoBeginInsideTx`, violated | see the findings | 2 inserts of 1 document |
| `Updater` | `TypeOK`, `NothingSkipped` | no row is skipped, ids in order | 3 rows, batches of 2 |
| `UpdaterRecovers` | `CatchesUp` | all rows are indexed in the end | 2 rows, batches of 2, 1 slot |
| `UpdaterOutOfOrder` | `NothingSkipped`, violated | see the findings | 2 rows |
| `Store` | `AnswersAreStored`, `NotFoundIsAbsent`, `NoMatchIsLost` | what requests of all kinds answer while they share a failing cache | 2 requests at a time, again and again; 2 legacy rows, 1 insert |
| `StoreAlone` | `InsertsOnce`, `EveryRequestEnds` | an insert is not repeated, retries end | 1 request at a time, refused and silent ones too; 2 inserts |
| `Export` | `FilesAreComplete`, `LookBackIsComplete`, `UploadsAreListed`, `RebuildRepairs`, `NeverRewritten` | which files there are, what is in them, what index files list | 3 days in 2 months, 2 tables, 1 row |
| `Lookup` | `AnswersAreBest`, `FoundOnceIndexed`, `EveryLookupEnds` | what a lookup finds while fingerprints are imported and services fail | 1 request, 21 inputs, 4 fingerprints |
| `SetFiles` | `LockIsExclusive`, `QueriesAgree`, `ImplementsSavedSets` | sets that are edited, saved, loaded, renamed and removed by two users | 2 users, 3 elements in blocks of 2, 5 calls |
| `Algorithms` | `RoundTrip`, `TruncationIsRefused`, `AcceptedCanBeWritten`, `HitsOverlap`, `ExcerptIsFound`, `SectionsAgree`, `QueryIsFull`, `CandidatesAreBest`, `PackedReadsBack`, `VarintsReadBack`, `VarintNeverWraps`, `ArraysReadBack` | the functions without state, each for every input of a set | up to 4 hashes, 4 bytes, 9 hashes to match, 6 to search for, 4 results, 18 packed integers |

Bounds. Two calls and the evictor are three users of a connection: the one that
leaves something behind, the one that meets it, and one that takes the
connection in between. A second slot lets an old, closed connection go on being
served while a new one is used. Batches of two have an inside: a failure
between two inserts. Three rows and batches of two give a full batch, a partial
one and a gap inside each. Symmetry is used for connections, requests and users, never
in a run with a liveness property; of the two refinements checked with it, connections do not
appear in `IndexService`, and users are interchangeable in `SavedSets`.
In `Store` two requests suffice for a cache entry to appear or vanish between any
two steps of another; one `Compare` asks for a cached, an uncached and an inserted
id in an order in which positions and ids differ, and `Search` has a limit of one and
two matching candidates. In `Export` the third day is the first of a month,
so the short look back misses a day that the long one makes up. A listing that breaks
off has got to no name yet (`BreaksAfter = {0}`): names come in pages, and no folder here
has more than one page of them. In `Lookup` the durations lie around both ends of the
window of each fingerprint, in whole and half seconds, and one more fingerprint shares
hashes with the query than the limit of candidates admits; one request suffices as
requests share nothing but the stores, which change while it runs. In `SetFiles` five
calls are enough to take the lock, overwrite, edit, overwrite again and load, or for
two users to save, rename and load each other's file; three elements in blocks of two
give a full block, a partial one and an empty one, and six files one for each name and
handle. In `Algorithms` the bits of hashes are 1, 6, 7, 8 and 32 apart, bytes
are those that make ends, exceptional bits and sums past 255; `MaxOffset` is 2 and excerpts begin at 0
to 3, of lengths around the 5 hashes that are found; the limits of the queries and of
candidates are one and two, so every list passes them; integers are those next to where
their written form gets longer, lengths of packed ones leave every rest of every width.

Deadlock. Calls of the pool, lookups and functions are made once each, and the rows of the
updater end, so these runs stop: deadlock checking is off there. In `Store`, `StoreAlone`,
`Export` and `SetFiles` it is on: a user, handler or command can always go on.

Fairness. `IndexClientPool!FairSpec` assumes that the goroutine of a call does not
stop by itself and that its clock runs; nothing is assumed of server and
network, and `DeadlinedCallReturns` needs no more. `EveryCallReturns` adds, as a
premise written in `ServerAnswers`, that the server serves what it received, that
the evictor finishes a ping, and that a borrower that could get a connection
again and again gets one: the evictor holds one for a ping every ten seconds.
`Updater!FairSpec` assumes that the loop and the server run; time owes nothing, as a
round need not take 60 seconds. `CatchesUp` has the premise that from some moment
on nothing fails (`Calm`), and excepts two ends that the code really has: the
process has exited, or its connection is `Wedged`. `FingerprintStore!FairSpec` assumes that
a handler goes on and that each of its calls is answered or fails, however often it
fails; clients, contexts, expiry and importer owe nothing. `Lookup!FairSpec` assumes that
the handler runs (it refuses bad input and gives up when its context is over) and that
the timer of its context fires: index and database may never answer, as the call of either
ends with the context.

## Findings

* `BeginTx` (client.go:277-287) never stores the transaction in `c.tx`. The check for
  `ErrTxActive` cannot fire, and `Close` cannot roll back. When the context ends
  during an `Insert`, between two requests, `Insert`, `Rollback` or `Commit` return
  without a request (client.go:298, 319, 335): the counts agree, the connection is
  `IsOK`, and it goes back to the pool with a transaction open on the server. The next
  `Insert` sends `begin` inside it (`PoolTxActive`); with a server that refuses this,
  every insert on the connection fails until the connection is replaced. The
  updater, which replaces its connection only when it is not `IsOK`, stays in
  that state (`Wedged` in `CatchesUp`).
* `fingerprint_db/stream.go:10-12` says that an append-only table can be
  synchronized from its highest id. Ids are taken before the commit;
  `UpdaterOutOfOrder` shows a row that commits after a higher id was indexed and is
  never fetched. With commits in the order of ids (`Updater`) the claim holds,
  through truncated batches, late commits and crashes.

Seen while modelling, and part of the modules as the code has it, with no statement in the
repository that a run could contradict:

* `database/fingerprint_db/search.go` counts the time left with the wrong sign, so
  `statement_timeout` is never set, and drops the error of `BeginTx`, so a nil transaction panics
  (`BeginFails`). Rows cut short are answered as complete (`cut`). A NaN duration passes the range check.
* An empty array of integers is written as `{}` and cannot be scanned again: `ArraysReadBack` leaves
  it out.
* `Uvarint32` reports an overflow also for small values written with too many bytes
  (`VarintNeverWraps` says only that nothing that overflows is accepted).

Seen outside of the modules: the file system of the operating system seeks with its two
arguments swapped, so `Size` of its files is always 2; the interface declares `Rename(newname,
oldname)` while both implementations take the old name first; `ReadDir` promises sorted names
and `memFS` ranges over a map.

## Proofs

Each theorem holds for every value of the constants that satisfies the named assumptions of
the modules; TLC evaluates these on every run. Each module of proofs has one inductive invariant and one lemma per action
(or per kind of step), and ends in the theorems.

| module | theorems | assumptions |
| --- | --- | --- |
| `IndexClientPoolProofs` | `TypeOK`, `IdleIsClean`, `OwnReply`, `DeadlineIsTheCallers`, `OneOwner` always hold | users are calls or the evictor, null values are not members, methods and batches have their types, the limit is positive |
| the same, second part | `ImplementsService`: the refinement of `IndexService` holds; `AllOrNothing`, if no two calls insert the same fingerprint; what `IndexServiceProofs` says holds of the pool (`PoolFindsAckedInserts`, `PoolSearchesSeeMore`) | as above; "no answer" is not a set of fingerprints |
| `UpdaterProofs` | `TypeOK`; `NothingSkipped`, if transactions commit in the order of their ids | one updater, ids are `1..MaxId`, the batch size is positive |
| `IndexServiceProofs` | a search that looks after an acknowledged insert finds its documents; of two searches the later sees all the earlier saw | none |
| `SetFilesProofs` | `LockIsExclusive`; a reader goes on reading the version it opened (`OneVersionIsRead`); the refinement of `SavedSets` holds: `ImplementsSavedSets`; `QueriesAgree` | the lock, the plain file and the atomic files have different names; the universe is a finite set of natural numbers, blocks have at least one bit; `Nothing`, `Loading` and `Damaged` differ and are no sets of elements |
| `FingerprintStoreProofs` | `AnswersAreStored`, `InsertsOnce`, `NotFoundIsAbsent`, `NoMatchIsLost` | ids are positive numbers and differ between the two tables, the first is finite; a `Get` has one id, a limit is any integer; an error is no fingerprint |
| `ExporterProofs` | `FilesAreComplete`, `LookBackIsComplete`, `NeverRewritten`, `UploadsAreListed`, `RebuildRepairs` | tables differ, a folder is a pair of numbers (year and month) and a run of days, no longer than the long look back, which is no shorter than the short one |
| `LookupProofs` | `AnswersAreBest`, `FoundOnceIndexed` | fingerprints and the hashes of an input are finitely many; `MinHits` is not zero, `MinHitsPercent` is a share |
| `AlgorithmsProofs` | all twelve invariants of the run: `RoundTrip`, `TruncationIsRefused`, `AcceptedCanBeWritten`, `HitsOverlap`, `ExcerptIsFound`, `SectionsAgree`, `QueryIsFull`, `CandidatesAreBest`, `PackedReadsBack`, `VarintsReadBack`, `VarintNeverWraps`, `ArraysReadBack` | hashes have their bits, 38 at most; values to be packed are bytes, integers have 32 bits, data has a header whose fields have their ranges; the index answers with each document once, limits are not negative, arrays have unsigned integers, words are an even number; the limits of matching, queries and candidates are natural numbers (`MatchingAssumption`, `QueryAssumption`, `SearcherAssumption`) |

**Pool.** None of the five is inductive. That the reply is one's own depends on the
connection having been clean when it was borrowed, that on the count of
unanswered requests and on what `Passivate` lets through, and that again on what
was left on the connection by each way a method can end. `IInv` says:

* `UserOK(u)`: before a request (`MayWrite`) nothing is under way on the connection
  of `u`, or the request will not be written because the deadline has passed or
  the context is over; after it (`Waits`) at most one line is under way, its own,
  exactly one request is unanswered unless there was an error, and the socket
  has the deadline of `u`; a method that succeeded leaves a connection that `IsOK`
  (`Sound`); a held connection that `IsOK` is quiet (`Holds`).
* `ConnOK(k)`: a free slot is as new; an idle connection is open, `IsOK` and quiet; an
  open one is idle or somebody's; `hasDeadline` says whether the socket has one.
* `Owners` and `CallOK`: one user per connection; who holds one.

The delicate case is a rollback after a failed insert: it may find an error on the
connection, and then it must not be written. It is not, because a socket
error without a dead connection means that the deadline has passed, and it
stays passed (second disjunct of `MayWrite`). Every step touches one user and one
connection. `UserFrame` and `ConnFrame` carry the
other users and connections over; `ClientFrame`, `ServerFrame` and `PoolFrame` reduce a
step of the client, the server or the pool to what it does to its own two.

**Service.** `IndexService` is small enough for its own consequences to be proved rather than
checked: whatever was seen is in the index, which only grows. They are what a client of the proxy may rely on:
`IndexClientPoolProofs` instantiates these theorems with the refinement mapping and `PoolServesClients` carries them over to the pool.

**Refinement.** `SInv` adds to `IInv` what the server knows. The documents in the server's transaction
and those not sent yet (`Has`) make up the batch of the call, from the reply to `begin` on (`Progress`), so a
commit on its way ends a transaction with the whole batch; `SearchOK` says that a query is asked once, and that what
was got is what the server saw. A message left on a connection by a call that has failed stays there until
it is served or dropped: `Sent` says of every message but a ping that its call runs on this connection
or has failed, and `SentOnce` that a call has one under way, so that serving an old commit is still an
`Apply` of its call and an old query still a `Look`. `KnowsFrame`, `LinesFrame`, `QuietStep` and `PoolStep` carry over what a step
does not touch. `StatusOf` and `FoundBy` are the mapping of one call; `NextImplements` maps each step to the service:
`Serve` to `Apply` or `Look`, `ReturnObject` to `Succeed` or `Fail`, a borrower that gives up to `Fail`, every other
step but `Arrive` to a stutter. `AllOrNothing` is then a fact about `IndexService`.

**Updater.** `NothingSkipped` looks at the index only; what must not be lost is on its way there. `Down(S)` says that a set
of rows leaves no row below its members out. Such sets are closed under union, and rows that
commit on top of the others (`TableOK`, from `InOrder`) do not disturb them. `DInv` says that the index is
`Down`, that it stays so with the transaction and the rest of the batch of the current
connection (`Progress`) and with every transaction whose commit is on a wire (`CommitOK`), also one that
was given up long ago. A batch continues the index because it is a prefix of the rows above an id that is in the
index (`BatchFits`), however short it was cut. `PInv` is the exchange with the server, as
in `IInv` but for one user, and that the updater was told of indexed documents only (`Hears`); it holds for
every order of commits.

**Sets and files.** `OneVersionIsRead` is an action property: what a reader has not read yet does not
change under it, whatever becomes of the name. It needs that a file being saved has no name and
no other handle (`UnsavedIsPrivate`), that two names never stand for one file (`NamesDiffer`, or a file
renamed away could be overwritten through its other name), and that whoever has the plain file
open has the lock (`PlainIsLocked`), which rests on `LockIsExclusive`. `StepsOfDirectory` first reduces each step
of the composition to one of `MemFS`, so that the sets do not appear in this part of the proof.

That what is loaded is what was saved (`SetsAreLoadedAsSaved`) needs the sets. `RInv` adds to this `IInv`: the blocks of a set are its own, so what one user does to
its set leaves the others as they are (`SetsOK`; this is where a `Union` that kept the blocks of the other set would fail); a file holds the beginning of what some set
wrote, with each block once (`FilesOK`); a writer has written the beginning of its own set as it is now (`WriterOK`), so the one that commits has
written all of it; a reader has in its set the complete ones of the blocks it has read and counts down the others (`HasRead`), so the one that ends without an error has them all.
The mapping is `value`, `saved` and `opened` of `SetFiles`. Elements and their block and bit stand for each other (`BlockAndBit`, from `\div` and `%`);
the blocks of a set in the order in which they are written are numbered without gaps (`NthCounts`, by cardinality), so that what `Write` writes describes the set
(`WrittenDescribes`). Then each action is a step of `SavedSets` or a stutter: `CommitFile`, and the last piece of a file written in place, are its `Save`,
an end with all blocks its `Loaded`, one that finds the file too short `LoadFails`.

`QueriesAgree` follows from `SetsOK` alone, so it holds also of a set that is half loaded. The bits of the blocks and the elements are as many (`BitsAreElements`, a bijection), and
the first of the blocks that are not empty has the least element (`EndsAreFound`), since all elements of a block come before those of the next (`LaterIsHigher`).
For this the counts are written as the number of all bits (`BitCount`), not as a sum over the blocks.

**Store.** `AnswersAreStored` needs that everything a handler holds between two calls is stored under its id
(`HoldsStored`: rows read, cache answers, results), for a fingerprint read before a step is
put into the cache after it. `DecodedIsStored` is the lemma about `MGET`: positions, not
ids, tell the answers apart. `InsertsOnce` follows from `InsertOK`: rows are inserted at one
`pc`, which a handler leaves with its first row.

The other two say that nothing is missed, which needs to know of every place in the list of ids where it stands.
`PlacesOK` says that the places still to be read are places of the list, `NothingSkipped` that each place is still to be read,
or its id has been answered, if it was in the table when the request arrived; `AnswerOK` is the two properties for one request. That an id appears twice in the list (a `Compare` may ask so) does no harm, because places
are counted and not ids. For the cut to the limit, `FilterKeepsLimit` shows that `filterIndexSearchResults` keeps a
part of the results that is no longer than the limit it is given: the order of the results is total, so `Rank` numbers them
without gaps (`PlacesAreTaken`). `NoMoreThanAsked` adds that the fast search gives it the limit of the answer itself; with the factor of the slow
search the theorem fails at this lemma, as the run does.

**Exporter.** The loop of `Run` counts down days and stops at the look back, or at the month before
(`MonthIsCovered`, `LoopCovers`). `DaysDone` says that the days behind the loop have all their files, `TablesDone` that
of the day in hand those tables have one that are done or were found, and that no other has: so
a file is written only where there was none. `FilesHaveTheirRows` adds that the rows
selected for a file that exists only become fewer, but for those in `late`: the day of a file is
over, so new rows and updates belong to later days.

What the index files list is the work of nested calls, so the invariant has to speak of the whole stack. `Owed` are the folders that must
be listed in the end: those above the files a run of `export` has uploaded, all of them for `updateindexfiles`. `ListInv` says that an owed folder lists its contents, or is still
to come: it is one of the changed folders the loop has not reached, or a call on the stack is at it or goes down to it (`ToCome`). `StackOK`
gives the stack its shape: only the call on top has not listed its folder yet, and the others hold the names that are there; `Covers` says which folders a call
writes or will have written by the calls it makes; `HalfWritten` that the call between its two files has written the page. A folder that was listed is not spoiled by a later call,
since a call writes what is there. A command in which a listing broke off or an error was dropped (`trouble`) owes nothing.

**Lookup.** Both theorems hang on one sequence that the code never has as a whole: the rows of the query, read and unread. The invariant
says that the matches so far, continued by any best-first order of what is left, are a `Ranking` of the candidates within
the window; so a cut at any row leaves the best. For `FoundOnceIndexed` the fingerprint is followed from one filter to the next: it is `Sure` to be a
candidate (no more than `MaxCandidates` others can stand before it, and each result before it has enough hits, so the `break` of the loop comes after it), it is a row whenever
the query runs, and its length is in the window (`Window`, in halves of a second, where the code rounds). The proof showed that `MinHits` must not be zero: with 0 a fingerprint that shares nothing with the query would count as sure, and the index does not answer with it.

**Algorithms.** A call is one step, so there is no invariant to strengthen, and the theorems are lemmas about operators: `AnswersHold`
says that the answer is what the operator gives. `HitsOverlap` rests on `PeaksHavePairs`: a distance
without pairs, with none on one side of it either, has a smoothed count of 3 tenths of the other neighbour, whose own is at least 4 tenths of it, and so is no peak; and
the distances just outside of the overlap and of `MaxOffset` are such. `CandidatesAreBest` rests on `FirstAreBest`, that whatever is kept of results in the order of their hits is the best of them if with each
place those before it are kept; this holds of the cut by the filter (`FilterKeepsFirst`) and of the `break` in the loop of `GetCandidates` (`CandidatesHaveTheirShare`), for
every order `sort.Slice` may leave equal results in.

A loop is a function that is defined by itself, which TLA+ takes as one that may be chosen if it exists. So each loop is proved first to have such
a function (`StepsAreThere`, used by `LoopIsThere`, `PutIsThere`, `WriteIsThere`, `HashesAreRead`), and what the loop does is then proved turn by turn: a set of numbers
that has 0, and each number after one it has, has all of them (`Climb`, from the least number that is missing).

`RoundTrip` needs to know what the normal and exceptional bits mean before there are all of them. `Trace` gives each normal bit, from the first to the
last, three numbers: how many hashes are closed (`hs`), the bit of the hash that was last set (`bs`), how many exceptional bits were used (`ks`). `Told` says that the
trace tells the differences of the hashes written so far, and the bits of the open one; `BitIsTold` and `ValueIsTold` keep it when a bit or the 0 at
the end of a hash is written, since the bits of a hash come in ascending order. The reader counts zeros and sevens, and as far as it has the
normal bits its counts are the traced ones (`CountsAreTraced`), so it ends at the zero of the last hash (`SizeIsThere`), finds the exceptional bit that belongs
to each 7, and its last bits are the traced ones (`LastBitsAreTraced`; here the width of 38 is needed, as the rest of a longer distance would not fit in 5 bits).
`BothAreRead` is about the two packed groups in one sequence: of a beginning of it, each value is read whose bits are there, and one that lost a byte lacks a value of the first
group or of the second. In the first case a zero is missing, as the last normal bit is one, and in the second the exceptional bits are too few: that is `CutIsRefused`, and it is why nothing but the end of
the data needs to be looked at. `AcceptedIsPrint` says that whatever was accepted is a fingerprint in the sense of `RoundTrip`, so `AcceptedCanBeWritten` follows from it.

`PackedReadsBack` rests on `ValueIsPacked` (the only value that can disturb a bit is one before it in its group that is too wide) and `ValueIsUnpacked`.
`VarintsReadBack` and `VarintNeverWraps` rest on each bit of an integer being one bit of one group of seven (`Sevens`), and the second form on its five classes having first bytes in the order of their integers (`SQLiteClasses`).
`QueryIsFull` has two halves: cutting off the first hashes takes no more than as many of those that are not silence (`CleanIsLeft`), so the start the code computes has enough of them behind it; and a loop that stops early has asked for
every loud hash (`Asked`, `AskingFillsQuery`). `SectionsAgree` rests on `SectionsFit`, that the sections lie one after the other within the overlap. For `ExcerptIsFound`, hashes that can be told apart have all their
pairs at the distance of the excerpt (`PairsOfExcerpt`), so that smoothing makes one peak (`OnePeak`) and there is one hit; no bit differs there, and the score is the highest (`ScoreOfExcerpt`).

The inductive invariants were checked by TLC on the instances of the runs before they were proved.

Only model-checked: liveness (`DeadlinedCallReturns`, `EveryCallReturns`, `CatchesUp`, `EveryRequestEnds`, `EveryLookupEnds`), as fairness and ENABLED are
out of reach of the prover. Every safety property that a passing run checks has a theorem.

## Not modelled

* Text: the encoding of fingerprints and results in lines (a search whose text does
  not parse fails with the connection intact, `AfterOK`). Sizes of buffers: a line is
  written and read as a whole, a partial line ends in `ReadFails`. After a failed
  write the `bufio.Writer` refuses further writes; the model also lets such a write go
  nowhere, with the same effect.
* What has no caller: `SetAttribute`, `client_v2.go` (one HTTP request per search, without state), `getV2`
  and `Delete` of the store, `ExportDay`, `ExtractQuery`, and `fixed.go` and `map.go` of `intset`, which wrap a slice
  and a map statement by statement.
* `os.go` of `vfs`, which passes each call to the operating system; `ReadAt`, `Seek`, `Size` and `ReadDir`
  of `memFS`, which change nothing but a position; the second `Close` of a lock, which nothing
  says anything about, so `LockIsExclusive` is about users who close a lock once.
* `filterIndexSearchResults` with limit 0 and an empty answer, where the look at the best result (`index.go:72`) would
  panic: its only caller passes the limit of the request or 10 (`service.go:258`), or twice that, never 0. All other
  pairs of an answer and a limit are inputs (`FilterCalls`), and limit 0 is checked with answers that are not empty.
* Rows committed after their day (`FilesAreComplete` names them in `late`): the files are chosen by the clock, and none has them.
* `database/sql`: that it repeats a call by itself after `ErrBadConn`, which a driver may return only before anything was sent.
* The bit counts of `popcount.go` and `bits.go` are used as what they mean; that their arithmetic computes it
  is not checked.
* Processes: flags, configuration, wiring, gateways, health checks, metrics, the end of the whole
  pool. Generated stubs, SQL, scripts.
* The scores of matching fingerprints, computed by a PostgreSQL extension, are data, as are the fingerprint
  server and Redis beyond what their callers see.

## Plan

Done, in the order of importance: the index client, the pool and its abstract service; the
updater; the store; the exporter; the algorithms; sets, files and their abstract
specification; the lookup; and the proofs above.

Left: the five hazards of `PROJECT.json` that no property covers, each with its reason there, and the parts listed
under "Not modelled".
