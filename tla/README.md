# marchilogs: TLA+ models, TLC checks and TLAPS proofs

marchilogs is a log store in one Go process: package `storage` (`src/storage`)
keeps rows in memory, flushes them into immutable part directories, merges
small parts, prunes queries with two indexes, and optionally writes a log
ahead; `src/cmd/marchilogs` puts HTTP handlers in front of it. This directory
holds TLA+ modules of the storage engine, the TLC instances that check them,
and proofs about them.

## Inventory

Paths are relative to `src/storage` unless they start with `cmd`.

| Component | State | Operations | What is hard | What makes it correct |
|---|---|---|---|---|
| Day partition (`storage.go`, `manifest.go`) | `buffers`, `partSeq`, `manifests`; on disk `parts/<id>`, `.publishing-<id>`, `manifest.json` | `Append`, `Flush`, `flushPartitionLocked`, `addPartToManifestLocked`, `replaceManifestPartsLocked`, `Open` and its `load*`/`cleanup*` helpers | two file writes and a rename per flush, a crash between any two, error paths that undo only part of what was done | what is listed exists; no row twice; no id twice; a row is durable as soon as it is recoverable and stays so |
| Compaction (`compaction.go`) | inputs, output id and rows of a running merge; `.merging-<id>` | `runMergePass`, `ForceMerge`, `mergeDayIfNeeded`, `mergeParts`, `writeMergedPart` | reads and writes files with no lock between two locked regions; the worker and `POST /internal/force_merge` run at the same time; the rollback of a failed merge is half outside the lock | the merged part holds exactly the rows of its inputs and replaces them in one step; nobody else's part is touched |
| Search (`storage.go`, `inmemory_part.go`, `stream_index.go`) | part list and rows of a running query | `SearchWithStats`, `searchBuffersRLocked`, `streamsForPart` | snapshot under RLock, file reads after it | every row stored at the snapshot that matches, once |
| Indexes (`indexdb.go`, `stream_index.go`) | `indexdbs`, `indexdb.json`, `by_tag` in a part's `meta.json` | `rebuildDayIndexDBLocked`, `partsMatchingStreamEq`, `matchStreamIDs` | written after the manifest, trusted at `Open` | pruning never skips a part with a matching row |
| Retention (`retention.go`) | none of its own | `applyRetentionAt`, `dropDayLocked` | forgets `partSeq` while merges and searches still hold ids of the day; a removal that stops half-way is tried again | dropped rows stay away; later rows of the day are safe |
| Write-ahead log (`wal.go`) | `nextSeq`, `checkpoint`; `wal.log`, `checkpoint` | `openWAL`, `appendEntries`, `setCheckpoint`, `compactLocked`, replay | one log and one checkpoint for all days; torn records; restarts | an acknowledged row survives; a row is not replayed once it is in a part |
| Deletes (`delete.go`) | `deletes`, `deleteSeq`, `deletes.json` per day | `Delete`, `hidesEntry`, `loadDeletesLocked` | buffers purged before tombstones are written, day by day; log replay and drops | a deleted row is not shown again; nothing else is hidden |
| Blocks (`block.go`), bloom (`bloom.go`), entries (`entry.go`) | columns of a memBlock | `addWithSeq`, `writeTo`, `readBlock`, trigram filter, normalisation | padding, collisions of names, false negatives, bounds of windows | reading returns what was written, also after merges; no block is wrongly skipped |
| Workers and shutdown (`storage.go`, `cmd/marchilogs`) | stop channels, where each worker and handler is | `startPeriodic*`, `Close`, `main` | the order in which workers stop; handlers that go on; passes over several days of which one fails | no answered row is lost by a shutdown, which ends; passes get to every day |
| HTTP server (`cmd/marchilogs`) | handlers in progress | insert, flush, force_merge, query, delete | append and flush are two calls | "flushed" is not answered early |
| Demo, query statistics | counters | none | none | nothing reads them |

How they interact: handlers and tickers call `Storage`; everything meets in
`Storage.mu` and in the files of a day partition. The write lock covers a whole
`Append` (with the flushes its full blocks cause), a whole `Flush`, the first
and the last part of a merge, `Delete` and a retention run. The read lock
covers the first part of a search and the selection of merge inputs. Merging
and searching touch files without any lock.

The hazards of this code are listed one by one, with their lines and the
properties aimed at them, in `PROJECT.json`.

## Modules

| Module | Models | Notes |
|---|---|---|
| `StreamIndex` | `stream_index.go`, `indexdb.go` | pure operators: `ByTag`, `MatchStreamIDs`, `RebuildDayIndexDB`, `PartsMatchingStreamEq` |
| `LogStore` | nothing of the code: the abstract promise to a client | rows are in the tip or durable |
| `DayPartition` | one day partition with the log off: `storage.go`, `manifest.go`, `compaction.go`, `retention.go`, search | extends `StreamIndex`; implements `LogStore` under the refinement mapping `Promise` |
| `DayPartitionProofs`, `DayPartitionRefinement`, `DayPartitionSearchProofs` | theorems about `DayPartition`: its invariants, that it implements `LogStore`, its searches and index | see Proofs |
| `WalBuffer` | `wal.go` and its callers, several days | a flush's part publication is one step |
| `WalBufferProofs` | theorems about `WalBuffer` | see Proofs |
| `Deletes` | `delete.go`, with append, flush, log, retention and restart as far as they move rows past tombstones | several days |
| `DeletesProofs` | theorems about `Deletes` | see Proofs |
| `Bloom` | `bloom.go` | pure operators |
| `BloomProofs` | theorem about `Bloom` | see Proofs |
| `Entries` | `entry.go`, names of streams | pure operators |
| `Blocks` | `block.go`, the rows of `writeMergedPart`, the pruning of `SearchWithStats` | extends `Bloom` and `Entries`; one process, no failures |
| `BlocksProofs` | theorems about `Blocks` | see Proofs |
| `Workers` | the three workers, `runMergePass`, `applyRetentionAt`, `Close`, the handlers and `main` of `cmd/marchilogs` | a locked region is one step |
| `WorkersProofs` | theorems about `Workers` | see Proofs |
| `MCDayPartition`, `MCWalBuffer`, `MCDeletes`, `MCBlocks`, `MCWorkers` | constants for TLC | `MC*_<run>.cfg` is the instance of a run |

### DayPartition

State and code: `buffers` is the rows of the day's memBlocks, `manifest`,
`indexdb`, `partSeq` are the maps of `Storage` at this day, `parts[i]` the rows
of directory `parts/<i>` (`{}`: no directory), `big` the ids with tier big,
`merging[i]` the rows in `.merging-<i>`, `manifestFile` and `indexFile` the two
JSON files. A row is a model value of which only the stream matters. A thread
in the middle of a locked region keeps its position in `flush`, `mergePc`,
`drop` or `pending`; `LockFree` says that nobody is inside one, which is how
`Storage.mu` is modelled.

Steps are cut where another thread or a crash can tell the difference: a rename
is a step, a manifest write is a step (with the assignment of the map, which
nobody reads in between), an index write is a step, and each unlocked stretch of
a merge or a search is cut where another thread's step would matter:

    FlushCall/Apply -> FlushPublish -> FlushManifest -> FlushIndex
    MergeSelect -> MergeAlloc -> MergeRead -> MergeWrite -> MergePublish
                -> MergeSwap -> MergeIndex -> MergeClean (one step per input)
    SearchBegin -> SearchRead (one step per part) -> SearchEnd

with the error paths `FlushRenameFails`, `FlushAlreadyListed`,
`FlushIndexFails`, `FlushFault`, `MergeRaced`, `MergeAbort`, `MergeIndexFails`,
`MergeRollback`, `MergeRemove`, `MergeFault`. `Crash` may come at any step.
A drop is `DropDay`, one `DropRemove` per entry and `DropDone`, or `DropFails`
anywhere in between: memory has forgotten the day and any of its files may be
left, over which ids start at 1 again until the next drop (`drop = "failed"` as
long as no drop has succeeded and no restart has listed the files again).

Abstractions: a directory appears by its rename and is removed in one step (the
removal of a whole day is entry by entry); `.publishing-<id>` is private to the
flush and removed by `Open`, so it is not state; `MergeRead` reads all inputs at
once, which fails in the same cases as reading them one by one because inputs
are removed in the order they are read (with a second thread that removes or
replaces a listed part in between, what is read may differ: only in states that
`Undisturbed` excludes); one day; no time range, `Contains`,
`Limit` or tombstones in a search; manifest and index files are missing or well
formed, never corrupt; a completed file operation survives a crash (part files
are never fsynced by the code, so after a power failure more could be lost).

### WalBuffer

State and code: a log record is a pair of row and sequence number; `log` is what
`forEachRecord` reaches, `tail` says whether a torn record follows and whether
more was written behind it; `checkpoint` is the file, always equal to
`wal.checkpoint` in memory. `pc` is where the call that holds `Storage.mu`
stands. A flush of one day is `Publish`, `Checkpoint`, `Compact`; a block that
fills up in the middle of a batch starts one from `Apply`. Closing is a flush
followed by `Crash` with empty buffers, so restarts count as crashes.

Abstractions: publishing a part is one step; a completed write survives a crash,
so `WALSync` makes no difference except that its failure is modelled; reading a
garbled tail may fail or end early, whichever the bytes happen to give.

### Deletes

State and code: `buffers` holds rows with their sequence numbers (`b.seqs`),
`deletes` and `deleteSeq` are the maps of `Storage`, `tombFile[d]` is
`deletes.json` of day `d`, `dayDir` the days with a directory. `leftover` and
`orphans` are rows in part directories that no list in memory names: those the
next `Open` lists, because `manifest.json` names them or is gone, and those it
deletes - if it can (`manifest.go:141` ignores the error), else they stay, for a
later drop that removes `manifest.json` first to bring back. A flush or merge
writes a new manifest, which makes orphans of the leftovers (`NewManifest`).
Drops may fail again and again (`DropDayFails`), each removing more.

`merges` are merges in flight. A merge keeps the rows of its day, so one that
ends before the day is dropped is no step here; over a drop it holds the rows it
has read and may publish them in the day's second life (`MergeResurrects`), make
the directory again (`MergeWrites`), or remove a live part when it rolls back
(`MergeRollsBack`).

`call` is the `Delete` in progress: `DeleteCall`
purges and resolves the days, `DeleteDay` is one iteration of its loop,
`DeleteDayFails` its error, `DeleteReturns` the return of nil. A tombstone is
its bounds and one predicate that stands for `StreamEq` and `Contains`.

`DeletedStaysHidden` is not plainly true. The observer `loose` collects, where
it happens, the rows that have outlived the tombstones of their day or never got
one; the property says that only these come back: rows whose records are still
in the log when their day has no directory or is dropped, rows of an incomplete
drop that has removed `deletes.json` (or whose file the next delete replaces),
and rows a merge has carried over a drop. `gone` collects the rows that crashes,
drops and such merges have taken.

Abstractions: append and flush are single steps (`DayPartition` and `WalBuffer`
detail them), so is all a merge does to the parts; which of its rows a merge
replaces is any set; a flush whose id is taken by a left-over directory fails at
the rename and changes nothing, so it is no step; a lookup of a directory never
fails, `deletes.json` is never corrupt.

### Bloom, Entries and Blocks

A value is a sequence of characters (`Chars`); a field name is a model value and
counts as one character in a stream id. `Entries` joins stream ids and takes them
apart again. `SafeStreamDir` replaces what no directory may have; the constant
`FileOf` says which file a field gets (`fieldFileName`). `BitOf` is any hash. A
memBlock is its columns; a block on disk has one column per file, and where two
fields share a file either may have been written last (Go's map order).

`parts` maps the id of a part to its day, its tier, the time range of each stream
it lists and the block found in each directory. One `partSeq` counts over all
days: only the order of a day's ids matters. `MergeDay` merges the
`MergeMaxPartsPerJob` oldest small parts of a day. A time column that a field has
overwritten either fails to decode, which fails the merge (a stutter), or decodes
to other times, when the values have at least four bytes on average
(`block.go:158`): the merge goes on, with `GarbageTime` for each of them. The
loops over rows and over input parts (`AddAll`, `MergedBlock`) are recursive
functions over their counters, so that the module can be proved about.

`RowsReadBack` compares the pairs of day and entry that are read back from a
stream with those that were added, and says that no entry is read in two places
and no time column is garbled. It and `PruningExact` speak of streams in
`Separate`, whose names stay distinct on disk; `PruningExact` also wants them in
`Plain`: no comma in a value. The instance has streams outside of both, and each
exception is needed.

### Workers

State and code: `worker[w]` is where the loop of a worker stands ("select",
inside a call, or ended), `stop` the closed channels, `todo` and `job` the merge
pass and its running merge, `toDrop` the list of a retention pass, `handler[i]`
the position of an insert request, `main` that of `main`. `Flush` is one step,
because it holds `Storage.mu` throughout; a merge is two, because others run
between its locked regions; a retention pass is two. A merge pass may fail on a
broken day when it reads the tiers of its parts (`MergeSelectFails`) or its
inputs; either ends the pass. `broken` and `stuck` are
days with an unreadable part and days that cannot be removed, chosen at the
start.

Abstractions: only the number of small parts of a day matters; a forced merge of
a day is one step (`DayPartition` has its interior and races), a forced pass
over all days is absent; parts that stay behind in a stuck directory are not
counted; the log is off, as `main` never turns it on; every interval is set, so
that all three workers run.

## Runs

`tlc -config <cfg> <module>` runs one; the full list is in `PROJECT.json`.

| Run | Question | Bounds |
|---|---|---|
| `core` | do the list, the files and the ids stay consistent through crashes, is `LogStore` implemented, do buffered rows reach a part and small parts get merged? | 4 rows, 2 streams, 1 merger, 8 ids, 2 crashes |
| `search` | is index pruning sound, does a search show rows early or twice, which rows can it miss? | 4 rows, 1 merger, 1 search, 3 kinds of query |
| `two_mergers` | when can racing merges store a row twice, what can bring rows back that retention has dropped? | 5 rows, one per block, 2 mergers with different `minParts`, 5 ids, 1 drop |
| `faults` | do all error paths, those of a drop included, leave a well-formed state and give the lock back, and does a drop that fails bring rows back? | 3 rows, 2 mergers, 3 ids, 1 failing operation, 1 crash, 2 drops |
| `wal` | is an acknowledged row lost in a crash or by a failing file operation, which rows can be stored twice, does the checkpoint pass every row? | 4 rows, 2 days, batches of up to 2, 1 restart, 1 failing operation |
| `deletes` | what may a delete hide, what stays hidden, what do restarts, drops that fail and are tried again, and a merge in flight over a drop bring back? | 2 days, 2 rows at the first and last instant of the second; 2 deletes, 2 restarts, 2 failing operations, 2 drops, 1 merge, log on and off |
| `blocks` | do rows survive columns, files and merges; does pruning read exactly the blocks it should? | 6 rows, 4 streams of which 2 share a directory and 1 has a comma, 2 days, merges of 2 parts, messages of 1 to 4 characters, 120 queries |
| `workers` | does a shutdown keep what was answered, does it end, do passes reach every day? | 2 requests, 2 days with 2 small parts each, 1 bad day, 1 failing flush |

Four rows in two streams with two rows per block give a part with one stream,
one with both, and two generations of small parts, enough for a merge of merged
and fresh parts to race with a flush. `two_mergers` has five rows, each a part of
its own: two parts for a merge that is in flight when the day is dropped, three
more for the day's second life. Eight ids let every flush and merge of
four rows take an id of its own although crashed merges waste some. A second
crash covers a crash of the recovered state; a third would repeat it. In
`deletes`, two drops, two restarts and two failing operations let a drop meet
what an earlier one left, before and after an `Open` that could not remove it,
around two deletes whose bounds are absent, at the epoch (where no row is), at
the last instant of the first day, or at the first or last of the second. Both
rows are of one day, so that one may be left behind while the other is written
anew; the first day has a directory and tombstones, which is what the choice of
days looks at. In `blocks`, three rows of one stream with different
fields, messages with and without trigrams and windows that end on a row's time
exercise padding and pruning; the other rows are there to collide. In `workers`,
two small parts per day are one merge each, and a third part is in the way when
a request is flushed; the later of the two days may be bad, so the earlier must
still be served. Larger days would only repeat passes.

These runs end in a counterexample: the code does something else than its
comments and documents say.

| Run | What happens |
|---|---|
| `v_search_merge` | a merge removes parts a search has listed but not read; the search misses their rows silently (`SearchMissesOnlyMerged` says that this is the only way) |
| `v_two_mergers` | the rollback of a failed merge removes the directory of an id that another thread has taken since; a listed part is gone |
| `v_index_crash` | after a crash between manifest and index write, queries by stream skip the newest part |
| `wal_v_reopen` | sequence numbers restart below the checkpoint; acknowledged rows are lost in the next crash |

The models show more of the kind; each is a hazard in `PROJECT.json` and marks
the limit of a property that does hold:

- after a failed index write the id given back is still listed, in the file too
  (`ManifestBacked` and `PartSeqAhead` are checked without failing operations);
- a merge in flight when the day is dropped may, by its rollback, give away and
  delete an id of the day's second life; the next merge then writes under an id
  that is still listed and its rows are listed twice;
- even if no listed part is removed, a merge that took its id before the drop
  shares it, and the directory `.merging-<id>`, with a merge of the day's second
  life (`compaction.go:179`), and one of them may publish what the other wrote: a
  row is listed twice. `RowsApartUndisturbed` says that rows are stored twice only
  after one of these two accidents or a drop that failed half-way, which leaves
directories under the ids the day will use again. This one takes six rows and was found in the
  attempt to prove a stronger property that held on the smaller instance;
- a merge in flight brings rows back that retention has dropped, and so does a
  crash in the middle of the removal, or after one that failed
  (`OnlyMergesResurrect` excludes both);
- a flush in the middle of a batch moves the checkpoint past the rest of the
  batch (`AckedVisible` excepts these rows, and those behind a torn record);
- rows of a flushed day are replayed because another day holds the checkpoint
  back (allowed by `DuplicatesExplained`, not by `storage.go:464`);
- records are appended behind a torn one, where no reader finds them (`tail`);
- a replay brings rows back that were deleted while their day had no directory,
  or whose day was dropped, a restart rows of a drop that failed after it had
  removed `deletes.json`, a merge in flight rows it read before a drop (`loose` of
  `Deletes`); `TOMBSTONE.md` speaks of the
  union of manifests, directories and calendar days, `delete.go:241` adds the
  calendar days only when there is no other;
- a delete with a bound at the epoch hides rows outside its window
  (`HiddenOnlyByRequest` excepts it);
- rows of streams or fields whose names collide on disk are overwritten, and a
  field that takes the file of the time column makes queries and merges that read
  the block fail, or read garbage times (`RowsReadBack` and `PruningExact` are about the other streams);
- a comma in the value of a stream field makes other tags of it (`PruningExact`
  excepts such streams);
- a day that fills up again before every merge pass starves later days, as does
  a day with an unreadable part (`PassesReachDays` is checked with rows that end
  and for days before a broken one).

## Fairness

A goroutine inside a locked region, or working on files alone, runs on: weak
fairness of the flush steps, of `Apply`, of the drop. The flush and merge
tickers fire again and again and `sync.RWMutex` admits waiters in turn, so the
steps that need the lock (`FlushCall`, `Flush`, `MergeSelect`, the steps of a
merge) are strongly fair. A dead process is started again. Clients owe nothing: no fairness
for `Append`, searches or forced merges. A log with a garbled tail may keep the
process from starting for ever, so the fairness of `Open` does not cover it.

In `Workers`, tickers fire again and again (weak fairness of the flush, merge and
retention ticks), a call returns and `main` goes on (weak fairness). A closed
stop channel and a tick may both be ready: `select` picks at random, so the
channel is taken eventually (strong fairness of `WorkerStops`). Signals, clients
and the passing of time owe nothing. Handlers neither: nothing waits for them.

## Proofs

Every theorem is about all values of the constants that satisfy the named
assumptions of its module (`ConfigAssumption`, `BoundsAssumption`,
`StreamAssumption`; `WalAssumption`; `DeletesAssumption`; `EntriesAssumption`,
`BlocksAssumption`; `WorkersAssumption`): types of the constants, thresholds
above zero, and in `Blocks` that no two entries are equal and that the separators
`,` and `=` are not in configured field names. The bounds on ids, crashes and
faults are among the constants, so they bound nothing here. The table lists the
theorems that state a property of a run.

| Theorem | Property | Hypotheses |
|---|---|---|
| `DayPartitionProofs!TypeCorrect` | `TypeOK` | none |
| `DayPartitionProofs!RacingRowsApart` | `RowsApartUndisturbed` | none |
| `DayPartitionProofs!DroppedRowsComeBackMerged` | `OnlyMergesResurrect` | none |
| `DayPartitionProofs!ListedPartsExist` | `ManifestBacked` | `Reliable` |
| `DayPartitionProofs!RowsHaveOneHome` | `NoRowTwice` | `Reliable` |
| `DayPartitionProofs!IdsStayAhead` | `PartSeqAhead` | `Reliable` |
| `DayPartitionRefinement!PartitionImplementsLogStore` | `ImplementsLogStore` | `Reliable` |
| `DayPartitionSearchProofs!SearchesReadTheirSnapshot` | `SearchSnapshot` | `Reliable` |
| `DayPartitionSearchProofs!IndexSkipsNothing` | `IndexSound` | `Reliable`, until the first crash |
| `DayPartitionSearchProofs!MissedRowsWereMerged` | `SearchMissesOnlyMerged` | `Reliable`, until the first crash |
| `WalBufferProofs!TypeCorrect` | `TypeOK` | none |
| `WalBufferProofs!OnlyExplainedDuplicates` | `DuplicatesExplained` | none |
| `WalBufferProofs!AckedSafeAboveCheckpoint` | `AckedVisible` | `[]SeqAboveCheckpoint` |
| `WalBufferProofs!AckedSurvivesOneRestart` | `AckedVisible` | until the second restart |
| `DeletesProofs!TypeCorrect`, `TombstonesAgree`, `NothingHiddenUnasked`, `DeletedRowsStayHidden` | `TypeOK`, `TombstonesMirrored`, `HiddenOnlyByRequest`, `DeletedStaysHidden` | none |
| `BlocksProofs!TypeCorrect`, `EveryRowReadsBack`, `SearchPrunesExactly` | `TypeOK`, `RowsReadBack`, `PruningExact` | none |
| `WorkersProofs!TypeCorrect`, `ShutdownKeepsAcked`, `FlushedAnswersKept` | `TypeOK`, `AckedDurable`, `FlushedIsDurable` | none |

`Reliable` is: no failing file operation, no retention drop, at most one merger;
any number of crashes, rows, ids and searches. Each part of it is needed:
`v_two_mergers` for the single merger; a failed index write leaves the id it
gives back listed (`manifest.go:159`); a drop starts the ids at 1 while a merge
still owns one (`retention.go:107`). "Until the first crash" is needed because
`Open` trusts an index that a crash has left behind (`v_index_crash`), and "until
the second restart" because of `wal_v_reopen`: the runs show what goes wrong
beyond it.

### One day partition

`TypeCorrect` is not a mere typing: `partSeq` goes up and down on
several threads' error paths, and that it never leaves `0..MaxId` (nor does a
decrement start from 0, nor does `parts` get indexed with an id nobody owns)
needs the strengthening `TypeInv`. Its other conjunct, `LockInv`, says that at
most one thread is inside a locked region, that the storage is up while anybody
is at work, and that a merge between its two locked regions owns a real id. The
invariance of `TypeOK` is proved one action at a time from `TypeInv`
(`TypeOKNext`), that of `LockInv` likewise (`LockInvNext`); `MinOfMember` and
`MaxOfBound` give the facts about choosing the lowest and highest id.

`DroppedRowsComeBackMerged` rests on `SentInv`, that no row is anywhere before it
was sent (so none is sent again), and on `DropInv`: a dropped row is never in the
buffers again, and no part that is listed or about to be (`Claimed`) holds one
unless a merge published it. What a failed drop has left behind does not count:
it is not listed, and its directories keep a flush or merge from publishing
under their ids.

`ListedPartsExist`, `RowsHaveOneHome` and `IdsStayAhead` are not inductive.
`IInv` adds to `TypeInv`

- `ListInv`: memory and `manifest.json` agree while the storage is up, both name
  existing directories only, no directory is ahead of `partSeq`, and before the
  first manifest is written the only directory is that of the running flush
  (without this a crash at that point would adopt a part and another one);
- `FlushInv`: a published part is what the buffers hold, which is why dropping
  the buffers at the end loses nothing and keeps one copy;
- `MergeInv`: the inputs of a merge stay listed until it replaces them, its
  output id is free until it renames, and what it has written is what its inputs
  hold;
- `RowInv`: a row is waiting, buffered or in the listed parts, never in two of
  these, but for the part a flush has just published.

`IInvNext` has a lemma per conjunct and in it a step per action. `NoErrorPaths`
comes first: under `IInv` and `Reliable` no rename fails, no rebuild meets an
unreadable part, no merge aborts and `Open` succeeds, so the error actions need
no further step.

`RacingRowsApart` does without `Reliable`: any number of mergers, failing
operations, drops and crashes. It is an implication between two "always": while
the states are `Undisturbed` - no listed part has been removed, no merge with
an id outlives the day, and no drop has failed half-way - no row is stored twice. Its invariant `RaceInv`, kept by
every step between two undisturbed states, is `TypeInv` and

- `IdInv`: listed ids are at most `partSeq`; the output ids of running merges
  differ from each other, from the running flush's, from every listed id (until
  the merge lists it) and from the other merges' inputs, although rollbacks of
  several threads give ids back;
- `FilesInv`: what memory, `manifest.json` and the directories have to do with
  each other at each point; unlisted directories are those of a flush or merge
  under way (`Stray`);
- `CopyInv`: as long as its inputs are listed, what a merge has read or written is
  what they hold - which the second look at the inputs before the rename turns
  into a fact about the published part;
- `ApartInv`: the parts that are listed, or that a restart would list, are
  pairwise disjoint and disjoint from the buffers and from rows still to apply.

There is one lemma per action (`RaceFlushPublish`, `RaceMergeSwap`, ...).
TLC checked `RaceInv` on instances of up to three mergers before the proof.

`PartitionImplementsLogStore` is a step simulation from `IInv` under the
refinement mapping `Promise`: `FlushManifest` (or `FlushPublish`, before the first
manifest) is the step that makes the buffers durable, `Crash` loses the tip, and
every other step but `Apply` is a stutter, merges included, because a merged part
holds the rows of its inputs.

In `DayPartitionSearchProofs`, `SnapshotInv` says that the parts a search has yet
to read are no longer written, that their rows are of its snapshot and new to it;
merges only take them away. `IndexInv`: outside the regions that change them, the
index in memory is that of the listed parts. `BigInv` and `CompleteInv`: a merge
has the rows of its inputs in a big part before it removes the first, so what a
search of the snapshot has not found is in a part it will read or in a big one.

### The log

`IInv` is `TypeOK`, `RecordInv` (a row has one record and a sequence number one
row, a call applies its records in the order it logged them, before any of them
is in a part) and `CallInv` (what the call in progress has logged, applied or
published).
`DupInv` adds which records a replay would bring back although their rows are in
a part: those ahead of an older row of another day. `OnlyExplainedDuplicates`
follows.

`BuffersReplayable` says that a crash finds every acknowledged buffered row in the
log, above the checkpoint, unless it is in `unreplayable`; `AckedDurable` is
`AckedVisible` while the process is down. Both are kept as long as new records
are numbered above the checkpoint (`SeqAboveCheckpoint`), which gives
`AckedSafeAboveCheckpoint`: whatever the number of restarts, the restarted
numbering is the only other way to lose a row. `FirstRunInv` shows that the
hypothesis holds before the first restart, hence `AckedSurvivesOneRestart`.

### Deletes

`IInv` is `TypeOK`, `ShapeInv` (types of tombstones and of the call in progress),
`RowInv` (rows lie in their own day, and only acknowledged ones) and `TombInv`
(tombstones in memory are those of the file unless a drop has forgotten them; in
the file their ids grow, and each is the record of a delete some client asked
for). It gives `TypeCorrect` and
`TombstonesAgree`. `AskedInv` - an acknowledged row that is not in `gone` is in
the storage, or where the next `Open` finds it, or was asked for - gives
`NothingHiddenUnasked`. `DeletedRowsStayHidden` needs `HideInv` and
`VictimInv`: a deleted row is `Covered`, which says of a row in memory or in a part
that a tombstone in memory hides it, and of one in the replayable log or in a
directory that is not listed (leftover or orphan) that one in the file does. This
is what lets drops fail any number of times: a drop either keeps `deletes.json`,
which then still covers what it leaves, or puts what it leaves in `loose`; rows of the delete in progress are
covered from the day's tombstone on.

### Blocks and filters

`BloomProofs` proves `NoFalseNegative`: for every sequence of messages, every
needle that occurs in one of them and every hash function, the filter built for
the messages lets the needle pass. `SubstringTrigrams` shifts the trigrams of the
needle to where it occurs, `AddedIsFound` says that what was added is found.

`BlocksProofs` starts with three theorems about single blocks: `AddedRowReadsBack`
(adding an entry appends exactly that entry to what the block reads as, whatever
columns it pads), `BlockReadsBack` (reading what was written gives the block back,
unless two fields share a file) and `NoBlockSkipped` (header and filter let a
block through that has a matching row). Its inductive invariant `Inv` has
`PlacesInv` over every place that holds a block, buffered or on disk: each is
`Sound` (a well-formed block whose entries were added to its stream and day, with
the header and filter of its rows), any two are `Apart` (no entry is in both), and
all added rows of separate streams are `Covered` (each is in some place); further
`PartsInv` (ids, tiers and directories) and `BufferKeys`.
The loops of a merge are recursive functions over a counter; the invariant of a
loop is proved from the least counter at which it would fail, which the
well-foundedness of `<` gives (`WFMin`), because the library's induction
theorems cannot be instantiated here.

### Workers

`ShutdownKeepsAcked` and `FlushedAnswersKept` follow from `Durable`: a handler
past `Append` has its row in memory or in a part, one past a successful `Flush`
has it in a part, whoever flushed it, and once the process has ended without a
failure of the last flush the buffers are empty. No step takes a row out of sight
(`KeepsRows`), so most actions are dealt with by `QuietStep`; only the three steps
of a request and `CloseFlush` need more. Type correctness rests on `JobFits`:
while none of a job's inputs was replaced, its day has at least as many small
parts as the job will remove. Without the second look at the inputs
(`InputsListed`) the number of small parts could fall below zero.

### Only model-checked

Every safety property of a passing run is the conclusion of a theorem, under
hypotheses that the run's instance satisfies. What stays with TLC:

- the liveness properties (`GuaranteedFlush`, `MergesCatchUp`, `LockReleased`,
  `CheckpointCatchesUp`, `ShutdownEnds`, `PassesReachDays`, `ExpiredDropped`):
  fairness is about ENABLED, out of reach of the prover;
- the violations, which are counterexamples anyway.

## Plan

Proofs: hypotheses weaker than `Reliable` for `ManifestBacked` and `PartSeqAhead`
(several mergers whose reads do not fail; drops while no merge has an id), and
`SearchSnapshot` with racing mergers in undisturbed states, both from `RaceInv`.
Models: `Limit` and several days in one search; concurrent forced passes in
`Workers`.

## Not modelled

The demo program and query statistics (no decision depends on them); decoding of
requests and encoding of answers; the binary encoding of columns, filters and
JSON files; corrupt JSON files; `Limit`; legacy parts without a stream index;
`deleteRecord.mayHideBlock` (no caller); searches over a day that retention
removes (no search run has a drop); a listener that cannot start (`log.Fatalf` leaves
without `Close`, but nothing was served); power failures that lose completed
writes.
