---------------------------- MODULE DayPartition ----------------------------
(* One day partition of a Storage (package storage): the buffered rows, the  *)
(* numbered part directories, manifest.json, indexdb.json and the threads    *)
(* that work on them - appenders, the flusher, mergers (the background       *)
(* worker and POST /admin/merge), searches, the retention worker - through   *)
(* crashes and reopening.                                                    *)
(*                                                                           *)
(* The write-ahead log is off here (Options.EnableWAL defaults to false); it *)
(* is modelled in WalBuffer.                                                 *)
(*                                                                           *)
(* Storage.mu.  Whoever is between two steps of a locked region holds it:    *)
(* LockFree says nobody does.  A region that takes the lock has LockFree in  *)
(* its first step's guard; the file operations of a region are steps of      *)
(* their own because a crash may fall between them and because mergers and   *)
(* searches touch the files without the lock.                                *)
EXTENDS Naturals, FiniteSets, StreamIndex

CONSTANTS Mergers,              \* goroutines that may run mergeDayIfNeeded
          MinPartsOf,           \* minParts each of them passes
          MergeMaxPartsPerJob,
          MaxRowsPerBlock,
          Searchers,            \* goroutines inside SearchWithStats
          Queries,              \* the StreamEq sets they ask for
          MaxId,                \* bound: part ids 1..MaxId
          MaxBatch,             \* bound: rows of one Append call
          MaxCrashes,           \* bound: process crashes
          MaxFaults,            \* bound: failing file operations
          MaxDrops              \* bound: retention drops of this day

Ids == 1..MaxId

(* The content of a manifest.json, of an indexdb.json that does not exist: 0 *)
(* is not the id of a part.                                                  *)
NoFile  == {0}
NoIndex == [t \in Tags |-> {0}]

ASSUME ConfigAssumption ==
    /\ MinPartsOf \in [Mergers -> Nat]
    /\ MergeMaxPartsPerJob \in Nat \ {0}
    /\ MaxRowsPerBlock \in Nat \ {0}
    /\ Queries \subseteq SUBSET Tags

ASSUME BoundsAssumption ==
    /\ MaxId \in Nat /\ MaxBatch \in Nat
    /\ MaxCrashes \in Nat /\ MaxFaults \in Nat /\ MaxDrops \in Nat

VARIABLES
  (* Storage: lost in a crash. *)
    mode,          \* "up": a Storage is open; "down": only the files exist
    buffers,       \* rows in the day's memBlocks
    pending,       \* rows the running Append call has yet to apply
    manifest,      \* manifests[day]
    indexdb,       \* indexdbs[day]
    partSeq,       \* partSeq[day]
  (* Threads. *)
    flush,         \* progress of flushPartitionLocked
    mergePc,       \* progress of each merger,
    inputs,        \*   the parts it merges,
    out,           \*   the id of the merged part
    rows,          \*   and the rows it has read
    searchPc,      \* progress of each search,
    query,         \*   its StreamEq,
    todo,          \*   the parts it has yet to read
    found,         \*   and the rows it has collected
    drop,          \* progress of dropDayLocked; "failed": it has returned
                   \* with files of the day left, until a later drop ends
  (* partitions/<day>: survives a crash. *)
    dayDir,        \* the directory exists
    parts,         \* rows of parts/<id>; {} when there is no such directory
    big,           \* ids whose meta.json has tier "big"
    merging,       \* rows of parts/.merging-<id>
    manifestFile,
    indexFile,
  (* Observers: no action reads them except to respect a bound. *)
    sent,          \* rows passed to Append so far
    seen,          \* rows stored when a search took its snapshot
    twice,         \* rows a search has collected more than once
    dropped,       \* rows retention has deleted
    crashes, faults, drops

memory  == <<mode, buffers, pending, manifest, indexdb, partSeq>>
merge   == <<mergePc, inputs, out, rows>>
search  == <<searchPc, query, todo, found, seen, twice>>
threads == <<flush, merge, search, drop>>
disk    == <<dayDir, parts, big, merging, manifestFile, indexFile>>
ghosts  == <<sent, dropped, crashes, faults, drops>>
vars    == <<memory, threads, disk, ghosts>>

FlushPcs == {"idle", "start", "published", "listed"}
MergePcs == {"idle", "selected", "reading", "writing", "written", "renamed",
             "swapped", "cleaning", "failed", "unlocked"}

MemoryTypeOK ==
    /\ mode \in {"up", "down"}
    /\ buffers \subseteq Rows /\ pending \subseteq Rows
    /\ manifest \subseteq Ids
    /\ indexdb \in [Tags -> SUBSET Ids]
    /\ partSeq \in 0..MaxId

ThreadsTypeOK ==
    /\ flush \in FlushPcs
    /\ mergePc \in [Mergers -> MergePcs]
    /\ inputs \in [Mergers -> SUBSET Ids]
    /\ out \in [Mergers -> 0..MaxId]
    /\ rows \in [Mergers -> SUBSET Rows]
    /\ drop \in {"idle", "removing", "failed"}

SearchTypeOK ==
    /\ searchPc \in [Searchers -> {"idle", "reading"}]
    /\ query \in [Searchers -> SUBSET Tags]
    /\ todo \in [Searchers -> SUBSET Ids]
    /\ found \in [Searchers -> SUBSET Rows]
    /\ seen \in [Searchers -> SUBSET Rows]
    /\ twice \in [Searchers -> SUBSET Rows]

DiskTypeOK ==
    /\ dayDir \in BOOLEAN
    /\ parts \in [Ids -> SUBSET Rows]
    /\ big \subseteq Ids
    /\ merging \in [Ids -> SUBSET Rows]
    /\ manifestFile = NoFile \/ manifestFile \subseteq Ids
    /\ indexFile = NoIndex \/ indexFile \in [Tags -> SUBSET Ids]

GhostTypeOK ==
    /\ sent \subseteq Rows /\ dropped \subseteq Rows
    /\ crashes \in 0..MaxCrashes /\ faults \in 0..MaxFaults
    /\ drops \in 0..MaxDrops

TypeOK == /\ MemoryTypeOK /\ ThreadsTypeOK /\ SearchTypeOK
          /\ DiskTypeOK /\ GhostTypeOK

-----------------------------------------------------------------------------
(* Shared helpers.                                                           *)

Dirs == {p \in Ids : parts[p] # {}}

(* Mutant of MaxOf: the number of parts instead of the highest id.           *)
MaxOfCounts(S) == Cardinality(S)

MaxOf(S) == IF S = {} THEN 0 ELSE CHOOSE m \in S : \A n \in S : n <= m
MinOf(S) == CHOOSE m \in S : \A n \in S : m <= n

(* Mutant of LockFree: a flush that has started no longer excludes others.   *)
LockFreeDuringFlush ==
    /\ mode = "up" /\ pending = {} /\ drop # "removing"
    /\ \A m \in Mergers : mergePc[m] \notin {"renamed", "swapped", "cleaning"}

(* Nobody is inside a region that holds Storage.mu for writing.              *)
LockFree == /\ mode = "up"
            /\ pending = {} /\ flush = "idle" /\ drop # "removing"
            /\ \A m \in Mergers :
                  mergePc[m] \notin {"renamed", "swapped", "cleaning"}

(* rebuildDayIndexDBLocked opens meta.json of every listed part and gives up *)
(* at the first one it cannot read.                                          *)
CanRebuildIndex(ids) == ids \subseteq Dirs

RemoveDir(p) == /\ parts' = [parts EXCEPT ![p] = {}]
                /\ big' = big \ {p}

Fault == /\ faults < MaxFaults
         /\ faults' = faults + 1
         /\ UNCHANGED <<sent, dropped, crashes, drops>>

Init ==
    /\ mode = "down"
    /\ buffers = {} /\ pending = {} /\ manifest = {} /\ partSeq = 0
    /\ indexdb = EmptyIndex
    /\ flush = "idle" /\ drop = "idle"
    /\ mergePc = [m \in Mergers |-> "idle"]
    /\ inputs = [m \in Mergers |-> {}]
    /\ out = [m \in Mergers |-> 0]
    /\ rows = [m \in Mergers |-> {}]
    /\ searchPc = [s \in Searchers |-> "idle"]
    /\ query = [s \in Searchers |-> {}]
    /\ todo = [s \in Searchers |-> {}]
    /\ found = [s \in Searchers |-> {}]
    /\ seen = [s \in Searchers |-> {}]
    /\ twice = [s \in Searchers |-> {}]
    /\ dayDir = FALSE
    /\ parts = [p \in Ids |-> {}] /\ big = {}
    /\ merging = [p \in Ids |-> {}]
    /\ manifestFile = NoFile /\ indexFile = NoIndex
    /\ sent = {} /\ dropped = {}
    /\ crashes = 0 /\ faults = 0 /\ drops = 0

-----------------------------------------------------------------------------
(* Append takes the lock once for the whole batch and applies its entries    *)
(* one by one; a stream block that fills up is flushed on the spot.          *)

Append(B) ==
    /\ LockFree
    /\ B # {} /\ B \cap sent = {} /\ Cardinality(B) <= MaxBatch
    /\ partSeq + Cardinality(B) <= MaxId
    /\ pending' = B
    /\ sent' = sent \cup B
    /\ UNCHANGED <<mode, buffers, manifest, indexdb, partSeq, threads, disk,
                   dropped, crashes, faults, drops>>

BlockFull(stream, R) ==
    Cardinality({r \in R : StreamOf[r] = stream}) >= MaxRowsPerBlock

Apply(r) ==
    /\ r \in pending /\ flush = "idle"
    /\ buffers' = buffers \cup {r}
    /\ pending' = pending \ {r}
    /\ flush' = IF BlockFull(StreamOf[r], buffers') THEN "start" ELSE "idle"
    /\ UNCHANGED <<mode, manifest, indexdb, partSeq, merge, search, drop,
                   disk, ghosts>>

-----------------------------------------------------------------------------
(* flushPartitionLocked, called by the full block above, by the flush        *)
(* ticker, by POST /flush and by Close.  It runs under the lock from "start" *)
(* to its return.                                                            *)

(* Mutant of FlushCall: the ticker only flushes a worthwhile amount.         *)
FlushCallWhenFull ==
    /\ LockFree
    /\ Cardinality(buffers) >= MaxRowsPerBlock /\ partSeq < MaxId
    /\ flush' = "start"
    /\ UNCHANGED <<memory, merge, search, drop, disk, ghosts>>

FlushCall ==
    /\ LockFree
    /\ buffers # {} /\ partSeq < MaxId
    /\ flush' = "start"
    /\ UNCHANGED <<memory, merge, search, drop, disk, ghosts>>

NextId == partSeq + 1

(* Everything up to the rename of .publishing-<id> to <id>: the temporary    *)
(* directory is private to this call and Open deletes it, so it is not kept  *)
(* as state.                                                                 *)
FlushPublish ==
    /\ flush = "start" /\ NextId \in Ids
    /\ parts[NextId] = {}
    /\ parts' = [parts EXCEPT ![NextId] = buffers]
    /\ partSeq' = NextId
    /\ dayDir' = TRUE
    /\ flush' = "published"
    /\ UNCHANGED <<mode, buffers, pending, manifest, indexdb, merge, search,
                   drop, big, merging, manifestFile, indexFile, ghosts>>

(* A failed flush keeps the buffers; if Append called it, the rest of the    *)
(* batch is abandoned.                                                       *)
FlushReturnsError == flush' = "idle" /\ pending' = {}

(* os.Rename refuses to replace a directory that has files.                  *)
FlushRenameFails ==
    /\ flush = "start" /\ NextId \in Ids
    /\ parts[NextId] # {}
    /\ FlushReturnsError
    /\ UNCHANGED <<mode, buffers, manifest, indexdb, partSeq, merge, search,
                   drop, disk, ghosts>>

(* addPartToManifestLocked up to s.manifests[day] = cur.  The file and the   *)
(* map change together: nobody reads the map in between.                     *)
FlushManifest ==
    /\ flush = "published" /\ partSeq \notin manifest
    /\ manifest' = manifest \cup {partSeq}
    /\ manifestFile' = manifest'
    /\ flush' = "listed"
    /\ UNCHANGED <<mode, buffers, pending, indexdb, partSeq, merge, search,
                   drop, dayDir, parts, big, merging, indexFile, ghosts>>

(* The id is already listed: addPartToManifestLocked returns before it       *)
(* rebuilds the index.                                                       *)
FlushAlreadyListed ==
    /\ flush = "published" /\ partSeq \in manifest
    /\ buffers' = {}
    /\ flush' = "idle"
    /\ UNCHANGED <<mode, pending, manifest, indexdb, partSeq, merge, search,
                   drop, disk, ghosts>>

(* Mutant of FlushIndex: the index is rebuilt from the list before the       *)
(* flush.                                                                    *)
FlushIndexStale ==
    /\ flush = "listed" /\ CanRebuildIndex(manifest)
    /\ indexdb' = RebuildDayIndexDB(manifest \ {partSeq}, parts)
    /\ indexFile' = indexdb'
    /\ buffers' = {}
    /\ flush' = "idle"
    /\ UNCHANGED <<mode, pending, manifest, partSeq, merge, search, drop,
                   dayDir, parts, big, merging, manifestFile, ghosts>>

(* The index rebuild, and the buffers of the part are dropped.               *)
FlushIndex ==
    /\ flush = "listed" /\ CanRebuildIndex(manifest)
    /\ indexdb' = RebuildDayIndexDB(manifest, parts)
    /\ indexFile' = indexdb'
    /\ buffers' = {}
    /\ flush' = "idle"
    /\ UNCHANGED <<mode, pending, manifest, partSeq, merge, search, drop,
                   dayDir, parts, big, merging, manifestFile, ghosts>>

(* rollback() and the removal of the published directory.                    *)
FlushRollback ==
    /\ partSeq' = partSeq - 1
    /\ RemoveDir(partSeq)
    /\ FlushReturnsError
    /\ UNCHANGED <<mode, buffers, manifest, indexdb, merge, search, drop,
                   dayDir, merging, manifestFile, indexFile>>

FlushIndexFails ==
    /\ flush = "listed" /\ ~CanRebuildIndex(manifest)
    /\ FlushRollback
    /\ UNCHANGED ghosts

(* A file operation fails: while the part is built, in the manifest write or *)
(* in the index write.                                                       *)
FlushFault ==
    /\ Fault
    /\ \/ /\ flush = "start"
          /\ FlushReturnsError
          /\ dayDir' \in {dayDir, TRUE}
          /\ UNCHANGED <<mode, buffers, manifest, indexdb, partSeq, merge,
                         search, drop, parts, big, merging, manifestFile,
                         indexFile>>
       \/ /\ flush \in {"published", "listed"}
          /\ FlushRollback

-----------------------------------------------------------------------------
(* mergeDayIfNeeded and mergeParts.                                          *)

MergeGoesTo(m, pc) == mergePc' = [mergePc EXCEPT ![m] = pc]

MergeReturns(m) == /\ MergeGoesTo(m, "idle")
                   /\ inputs' = [inputs EXCEPT ![m] = {}]
                   /\ out' = [out EXCEPT ![m] = 0]
                   /\ rows' = [rows EXCEPT ![m] = {}]

MinParts(m) == IF MinPartsOf[m] < 2 THEN 2 ELSE MinPartsOf[m]

Lowest(n, S) == {p \in S : Cardinality({q \in S : q <= p}) <= n}

SmallParts == manifest \ big

(* Mutant of MergeSelect: more than minParts instead of at least.            *)
MergeSelectLate(m) ==
    /\ LockFree /\ mergePc[m] = "idle"
    /\ manifest \subseteq Dirs
    /\ Cardinality(SmallParts) > MinParts(m)
    /\ MergeGoesTo(m, "selected")
    /\ inputs' = [inputs EXCEPT ![m] = Lowest(MergeMaxPartsPerJob, SmallParts)]
    /\ UNCHANGED <<out, rows>>
    /\ UNCHANGED <<memory, flush, search, drop, disk, ghosts>>

(* Reads the manifest under RLock and then, unlocked, the tier of every      *)
(* listed part (an unreadable one ends the attempt: nothing changes).  A     *)
(* tier never changes, so one step is enough.                                *)
MergeSelect(m) ==
    /\ LockFree /\ mergePc[m] = "idle"
    /\ manifest \subseteq Dirs
    /\ Cardinality(SmallParts) >= MinParts(m)
    /\ MergeGoesTo(m, "selected")
    /\ inputs' = [inputs EXCEPT ![m] = Lowest(MergeMaxPartsPerJob, SmallParts)]
    /\ UNCHANGED <<out, rows>>
    /\ UNCHANGED <<memory, flush, search, drop, disk, ghosts>>

(* Under the lock: the inputs must still be listed; take the output id.      *)
MergeAlloc(m) ==
    /\ LockFree /\ mergePc[m] = "selected"
    /\ inputs[m] \subseteq manifest
    /\ partSeq < MaxId
    /\ partSeq' = NextId
    /\ MergeGoesTo(m, "reading")
    /\ out' = [out EXCEPT ![m] = NextId]
    /\ UNCHANGED <<inputs, rows>>
    /\ dayDir' = TRUE
    /\ UNCHANGED <<mode, buffers, pending, manifest, indexdb, flush, search,
                   drop, parts, big, merging, manifestFile, indexFile, ghosts>>

MergeRaced(m) ==
    /\ LockFree /\ mergePc[m] = "selected"
    /\ ~(inputs[m] \subseteq manifest)
    /\ MergeReturns(m)
    /\ dayDir' = TRUE
    /\ UNCHANGED <<memory, flush, search, drop, parts, big, merging,
                   manifestFile, indexFile, ghosts>>

(* Mutant of InputRows: only the first input is read.                        *)
InputRowsFirst(m) == parts[MinOf(inputs[m])]

InputRows(m) == UNION {parts[p] : p \in inputs[m]}

(* Unlocked: clear .merging-<id>, read every input.  Inputs are removed in   *)
(* the order they are read, so reading them at once or one by one fails in   *)
(* the same cases.                                                           *)
MergeRead(m) ==
    /\ mode = "up" /\ mergePc[m] = "reading"
    /\ merging' = [merging EXCEPT ![out[m]] = {}]
    /\ \/ /\ inputs[m] \subseteq Dirs
          /\ MergeGoesTo(m, "writing")
          /\ rows' = [rows EXCEPT ![m] = InputRows(m)]
       \/ /\ ~(inputs[m] \subseteq Dirs)
          /\ MergeGoesTo(m, "failed")
          /\ UNCHANGED rows
    /\ UNCHANGED <<inputs, out>>
    /\ UNCHANGED <<memory, flush, search, drop, dayDir, parts, big,
                   manifestFile, indexFile, ghosts>>

(* Unlocked: write the merged blocks and meta.json.                          *)
MergeWrite(m) ==
    /\ mode = "up" /\ mergePc[m] = "writing"
    /\ merging' = [merging EXCEPT ![out[m]] = rows[m]]
    /\ MergeGoesTo(m, "written")
    /\ UNCHANGED <<inputs, out, rows>>
    /\ dayDir' = TRUE
    /\ UNCHANGED <<memory, flush, search, drop, parts, big, manifestFile,
                   indexFile, ghosts>>

(* Mutant of CanPublishMerge: the inputs are not checked again.              *)
CanPublishUnchecked(m) == /\ merging[out[m]] # {}
                          /\ parts[out[m]] = {}

(* Under the lock again: the inputs are still listed and the rename works.   *)
CanPublishMerge(m) == /\ inputs[m] \subseteq manifest
                      /\ merging[out[m]] # {}
                      /\ parts[out[m]] = {}

MergePublish(m) ==
    /\ LockFree /\ mergePc[m] = "written"
    /\ CanPublishMerge(m)
    /\ parts' = [parts EXCEPT ![out[m]] = merging[out[m]]]
    /\ big' = big \cup {out[m]}
    /\ merging' = [merging EXCEPT ![out[m]] = {}]
    /\ MergeGoesTo(m, "renamed")
    /\ rows' = [rows EXCEPT ![m] = {}]
    /\ UNCHANGED <<inputs, out>>
    /\ UNCHANGED <<memory, flush, search, drop, dayDir, manifestFile,
                   indexFile, ghosts>>

(* Mutant of MergeRollbackLocked: the sequence number goes back even when    *)
(* another thread has taken a later one.                                     *)
MergeRollbackAlways(m) ==
    /\ partSeq' = partSeq - 1
    /\ RemoveDir(out[m])
    /\ MergeReturns(m)
    /\ UNCHANGED <<mode, buffers, pending, manifest, indexdb, flush, search,
                   drop, dayDir, manifestFile, indexFile>>

(* rollbackSeqUnlocked, under the lock.                                      *)
MergeRollbackLocked(m) ==
    /\ partSeq' = IF partSeq = out[m] THEN partSeq - 1 ELSE partSeq
    /\ RemoveDir(out[m])
    /\ MergeReturns(m)
    /\ UNCHANGED <<mode, buffers, pending, manifest, indexdb, flush, search,
                   drop, dayDir, manifestFile, indexFile>>

MergeAbort(m) ==
    /\ LockFree /\ mergePc[m] = "written"
    /\ ~CanPublishMerge(m)
    /\ merging' = [merging EXCEPT ![out[m]] = {}]
    /\ MergeRollbackLocked(m)
    /\ UNCHANGED ghosts

(* Mutant of MergeSwap: the inputs stay listed.                              *)
MergeSwapKeepsInputs(m) ==
    /\ mergePc[m] = "renamed"
    /\ manifest' = manifest \cup {out[m]}
    /\ manifestFile' = manifest'
    /\ MergeGoesTo(m, "swapped")
    /\ UNCHANGED <<inputs, out, rows>>
    /\ UNCHANGED <<mode, buffers, pending, indexdb, partSeq, flush, search,
                   drop, dayDir, parts, big, merging, indexFile, ghosts>>

(* replaceManifestPartsLocked: file and map.                                 *)
MergeSwap(m) ==
    /\ mergePc[m] = "renamed"
    /\ manifest' = (manifest \ inputs[m]) \cup {out[m]}
    /\ manifestFile' = manifest'
    /\ MergeGoesTo(m, "swapped")
    /\ UNCHANGED <<inputs, out, rows>>
    /\ UNCHANGED <<mode, buffers, pending, indexdb, partSeq, flush, search,
                   drop, dayDir, parts, big, merging, indexFile, ghosts>>

MergeIndex(m) ==
    /\ mergePc[m] = "swapped" /\ CanRebuildIndex(manifest)
    /\ indexdb' = RebuildDayIndexDB(manifest, parts)
    /\ indexFile' = indexdb'
    /\ MergeGoesTo(m, "cleaning")
    /\ UNCHANGED <<inputs, out, rows>>
    /\ UNCHANGED <<mode, buffers, pending, manifest, partSeq, flush, search,
                   drop, dayDir, parts, big, merging, manifestFile, ghosts>>

(* Mutant of MergeIndexFails: the failed rebuild is retried under the lock.  *)
MergeIndexRetries(m) ==
    /\ mergePc[m] = "swapped" /\ ~CanRebuildIndex(manifest)
    /\ UNCHANGED vars

MergeIndexFails(m) ==
    /\ mergePc[m] = "swapped" /\ ~CanRebuildIndex(manifest)
    /\ MergeRollbackLocked(m)
    /\ UNCHANGED <<merging, ghosts>>

(* Still under the lock: remove the inputs one after the other.              *)
MergeClean(m) ==
    /\ mergePc[m] = "cleaning"
    /\ LET p    == MinOf(inputs[m])
           rest == inputs[m] \ {p}
       IN  /\ RemoveDir(p)
           /\ \/ rest = {} /\ MergeReturns(m)
              \/ /\ rest # {} /\ inputs' = [inputs EXCEPT ![m] = rest]
                 /\ UNCHANGED <<mergePc, out, rows>>
    /\ UNCHANGED <<memory, flush, search, drop, dayDir, merging,
                   manifestFile, indexFile, ghosts>>

(* rollbackSeq after a failed writeMergedPart: the sequence number under the *)
(* lock, the directories after it is released.                               *)
MergeRollback(m) ==
    /\ LockFree /\ mergePc[m] = "failed"
    /\ partSeq' = IF partSeq = out[m] THEN partSeq - 1 ELSE partSeq
    /\ MergeGoesTo(m, "unlocked")
    /\ UNCHANGED <<inputs, out, rows>>
    /\ UNCHANGED <<mode, buffers, pending, manifest, indexdb, flush, search,
                   drop, disk, ghosts>>

MergeRemove(m) ==
    /\ mode = "up" /\ mergePc[m] = "unlocked"
    /\ merging' = [merging EXCEPT ![out[m]] = {}]
    /\ RemoveDir(out[m])
    /\ MergeReturns(m)
    /\ UNCHANGED <<memory, flush, search, drop, dayDir, manifestFile,
                   indexFile, ghosts>>

MergeFault(m) ==
    /\ Fault
    /\ \/ /\ mode = "up" /\ mergePc[m] \in {"reading", "writing"}
          /\ MergeGoesTo(m, "failed")
          /\ rows' = [rows EXCEPT ![m] = {}]
          /\ UNCHANGED <<inputs, out>>
          /\ UNCHANGED <<memory, flush, search, drop, disk>>
       \/ /\ LockFree /\ mergePc[m] = "written"
          /\ merging' = [merging EXCEPT ![out[m]] = {}]
          /\ MergeRollbackLocked(m)
       \/ /\ mergePc[m] \in {"renamed", "swapped"}
          /\ MergeRollbackLocked(m)
          /\ UNCHANGED merging

-----------------------------------------------------------------------------
(* SearchWithStats: buffers and part list under RLock, then the part files   *)
(* without it.                                                               *)

Stored == buffers \cup UNION {parts[p] : p \in manifest}

SearchBegin(s, eq) ==
    /\ LockFree /\ searchPc[s] = "idle"
    /\ searchPc' = [searchPc EXCEPT ![s] = "reading"]
    /\ query' = [query EXCEPT ![s] = eq]
    /\ todo' = [todo EXCEPT ![s] = PartsMatchingStreamEq(indexdb, manifest, eq)]
    /\ found' = [found EXCEPT ![s] = MatchingRows(eq, buffers)]
    /\ seen' = [seen EXCEPT ![s] = MatchingRows(eq, Stored)]
    /\ UNCHANGED <<memory, flush, merge, drop, disk, ghosts, twice>>

(* A directory that is gone reads as a part without streams: streamsForPart  *)
(* returns nil, nil.                                                         *)
SearchRead(s) ==
    /\ mode = "up" /\ searchPc[s] = "reading" /\ todo[s] # {}
    /\ LET p   == MinOf(todo[s])
           hit == RowsForQuery(parts[p], query[s])
       IN  /\ todo' = [todo EXCEPT ![s] = todo[s] \ {p}]
           /\ found' = [found EXCEPT ![s] = found[s] \cup hit]
           /\ twice' = [twice EXCEPT ![s] = twice[s] \cup (hit \cap found[s])]
    /\ UNCHANGED <<memory, flush, merge, searchPc, query, seen, drop, disk,
                   ghosts>>

SearchEnd(s) ==
    /\ mode = "up" /\ searchPc[s] = "reading" /\ todo[s] = {}
    /\ searchPc' = [searchPc EXCEPT ![s] = "idle"]
    /\ query' = [query EXCEPT ![s] = {}]
    /\ found' = [found EXCEPT ![s] = {}]
    /\ seen' = [seen EXCEPT ![s] = {}]
    /\ twice' = [twice EXCEPT ![s] = {}]
    /\ UNCHANGED <<memory, flush, merge, todo, drop, disk, ghosts>>

-----------------------------------------------------------------------------
(* Retention: dropDayLocked forgets the day and removes its directory.  The  *)
(* day need not have a manifest, but it is only found when it has a          *)
(* directory.                                                                *)

(* Mutant of DropDay: the buffers of the day survive it.                      *)
DropDayKeepsBuffers ==
    /\ LockFree /\ dayDir /\ drops < MaxDrops
    /\ manifest' = {} /\ indexdb' = EmptyIndex /\ partSeq' = 0
    /\ drop' = "removing"
    /\ dropped' = dropped \cup Stored
    /\ drops' = drops + 1
    /\ UNCHANGED <<mode, buffers, pending, flush, merge, search, disk, sent,
                   crashes, faults>>

DropDay ==
    /\ LockFree /\ dayDir /\ drops < MaxDrops
    /\ buffers' = {} /\ manifest' = {} /\ indexdb' = EmptyIndex /\ partSeq' = 0
    /\ drop' = "removing"
    /\ dropped' = dropped \cup Stored
    /\ drops' = drops + 1
    /\ UNCHANGED <<mode, pending, flush, merge, search, disk, sent, crashes,
                   faults>>

(* RemoveAll(dayDir) unlinks the entries in no particular order.             *)
DropRemove ==
    /\ drop = "removing"
    /\ \/ /\ \E p \in Dirs : RemoveDir(p)
          /\ UNCHANGED <<merging, manifestFile, indexFile>>
       \/ /\ \E p \in Ids : merging[p] # {} /\ merging' = [merging EXCEPT ![p] = {}]
          /\ UNCHANGED <<parts, big, manifestFile, indexFile>>
       \/ /\ manifestFile # NoFile /\ manifestFile' = NoFile
          /\ UNCHANGED <<parts, big, merging, indexFile>>
       \/ /\ indexFile # NoIndex /\ indexFile' = NoIndex
          /\ UNCHANGED <<parts, big, merging, manifestFile>>
    /\ UNCHANGED <<memory, threads, dayDir, ghosts>>

DropDone ==
    /\ drop = "removing"
    /\ Dirs = {} /\ manifestFile = NoFile /\ indexFile = NoIndex
    /\ drop' = "idle"
    /\ dayDir' = (\E p \in Ids : merging[p] # {})
    /\ UNCHANGED <<memory, flush, merge, search, parts, big, merging,
                   manifestFile, indexFile, ghosts>>

(* Mutant of DropFails: the parts that are left are listed again.            *)
DropFailsRelists ==
    /\ drop = "removing" /\ Fault
    /\ drop' = "failed"
    /\ manifest' = Dirs /\ partSeq' = MaxOf(Dirs)
    /\ UNCHANGED <<mode, buffers, pending, indexdb, flush, merge, search, disk>>

(* RemoveAll fails: the lock is released, the day is forgotten and some of   *)
(* its files are left, unlisted.  The day is found by its directory again.   *)
DropFails ==
    /\ drop = "removing" /\ Fault
    /\ drop' = "failed"
    /\ UNCHANGED <<memory, flush, merge, search, disk>>

-----------------------------------------------------------------------------
(* A crash of the process loses memory; completed file operations stay.  A   *)
(* shutdown through Close is a crash that happens to find the buffers empty. *)

Crash ==
    /\ mode = "up" /\ crashes < MaxCrashes
    /\ mode' = "down"
    /\ buffers' = {} /\ pending' = {} /\ manifest' = {} /\ partSeq' = 0
    /\ indexdb' = EmptyIndex
    /\ flush' = "idle" /\ drop' = "idle"
    /\ mergePc' = [m \in Mergers |-> "idle"]
    /\ inputs' = [m \in Mergers |-> {}]
    /\ out' = [m \in Mergers |-> 0]
    /\ rows' = [m \in Mergers |-> {}]
    /\ searchPc' = [s \in Searchers |-> "idle"]
    /\ query' = [s \in Searchers |-> {}]
    /\ todo' = [s \in Searchers |-> {}]
    /\ found' = [s \in Searchers |-> {}]
    /\ seen' = [s \in Searchers |-> {}]
    /\ twice' = [s \in Searchers |-> {}]
    /\ crashes' = crashes + 1
    /\ UNCHANGED <<disk, sent, dropped, faults, drops>>

(* Mutant of Recoverable: Open believes the directories, not the manifest.   *)
RecoverableDirs == Dirs

(* The part ids Open lists: those of the manifest, or every directory when   *)
(* there is no manifest.                                                     *)
Recoverable == IF manifestFile = NoFile THEN Dirs ELSE manifestFile

(* Open: leftovers of merges and unlisted part directories are removed, a    *)
(* missing manifest is rebuilt.  Each of these steps may be repeated, so     *)
(* that a crash within Open followed by another Open is one Open.            *)
OpenCleanup ==
    /\ mode = "down"
    /\ parts' = [p \in Ids |-> IF p \in Recoverable THEN parts[p] ELSE {}]
    /\ big' = big \cap Recoverable
    /\ merging' = [p \in Ids |-> {}]
    /\ manifestFile' = IF dayDir THEN Recoverable ELSE NoFile
    /\ UNCHANGED <<threads, dayDir, ghosts>>

OpenedIndex == IF ~dayDir THEN EmptyIndex
               ELSE IF indexFile # NoIndex THEN indexFile
               ELSE RebuildDayIndexDB(Recoverable, parts)

CanOpen == indexFile # NoIndex \/ CanRebuildIndex(Recoverable)

(* The index file is taken as it is; only a missing one is rebuilt.          *)
Open ==
    /\ CanOpen
    /\ OpenCleanup
    /\ mode' = "up"
    /\ manifest' = Recoverable
    /\ indexdb' = OpenedIndex
    /\ indexFile' = IF dayDir THEN OpenedIndex ELSE NoIndex
    /\ partSeq' = MaxOf(Recoverable)
    /\ UNCHANGED <<buffers, pending>>

OpenFails ==
    /\ ~CanOpen
    /\ OpenCleanup
    /\ UNCHANGED <<memory, indexFile>>

-----------------------------------------------------------------------------
FlushStep == \/ FlushPublish \/ FlushRenameFails \/ FlushManifest
             \/ FlushAlreadyListed \/ FlushIndex \/ FlushIndexFails

MergeStep(m) == \/ MergeAlloc(m) \/ MergeRaced(m) \/ MergeRead(m)
                \/ MergeWrite(m) \/ MergePublish(m) \/ MergeAbort(m)
                \/ MergeSwap(m) \/ MergeIndex(m) \/ MergeIndexFails(m)
                \/ MergeClean(m) \/ MergeRollback(m) \/ MergeRemove(m)

Next == \/ \E B \in SUBSET Rows : Append(B)
        \/ \E r \in Rows : Apply(r)
        \/ FlushCall \/ FlushStep \/ FlushFault
        \/ \E m \in Mergers : MergeSelect(m) \/ MergeStep(m) \/ MergeFault(m)
        \/ \E s \in Searchers : \/ \E eq \in Queries : SearchBegin(s, eq)
                                \/ SearchRead(s) \/ SearchEnd(s)
        \/ DropDay \/ DropRemove \/ DropDone \/ DropFails
        \/ Crash \/ Open \/ OpenFails

Spec == Init /\ [][Next]_vars

(* Fairness.  A goroutine that holds the lock or works on files alone keeps  *)
(* running: weak fairness.  The flush and merge tickers fire again and       *)
(* again, and a goroutine that waits for Storage.mu is not overtaken for     *)
(* ever (sync.RWMutex admits waiters in turn): strong fairness for the steps *)
(* that need the lock.  A process that died is started again.  Nothing makes *)
(* a client append, search or force a merge.                                 *)
Fairness ==
    /\ WF_vars(\E r \in Rows : Apply(r)) /\ WF_vars(FlushStep)
    /\ SF_vars(FlushCall)
    /\ \A m \in Mergers : SF_vars(MergeSelect(m)) /\ SF_vars(MergeStep(m))
    /\ WF_vars(DropRemove \/ DropDone)
    /\ WF_vars(Open)

FairSpec == Spec /\ Fairness
-----------------------------------------------------------------------------
(* Properties.                                                               *)

(* Every listed part is on disk: what s.manifests names, and what            *)
(* manifest.json names, "source of truth for Search" (storage.go), always    *)
(* has its directory, so no search opens a dangling id and no index rebuild  *)
(* or Open can fail on one.                                                  *)
ManifestBacked ==
    drop = "idle" => /\ manifest \subseteq Dirs
                     /\ manifestFile # NoFile => manifestFile \subseteq Dirs

(* No row has two copies a reader could see: the parts a restart would list  *)
(* are pairwise disjoint at every instant - between the rename of a merged   *)
(* part and the removal of its inputs, between publish and manifest - and    *)
(* outside a flush no buffered row is also in one of them.                   *)
NoRowTwice ==
    /\ \A p, q \in Recoverable : p # q => parts[p] \cap parts[q] = {}
    /\ flush = "idle" => \A p \in Recoverable : parts[p] \cap buffers = {}

(* A merge with an output id of its own: from MergeAlloc until it returns or *)
(* gives the id back.                                                        *)
HasId(m) == mergePc[m] \notin {"idle", "selected", "unlocked"}

(* No thread has removed a part that is listed, no drop has left files of    *)
(* the day, and no merge with an id has outlived it: dropDayLocked starts    *)
(* the ids at 1 again, and such a merge shares its id and .merging-<id> with *)
(* one of the day's second life.                                             *)
Undisturbed == /\ ManifestBacked /\ drop # "failed"
               /\ drop = "removing" => \A m \in Mergers : ~HasId(m)

(* Merges that race with each other, with flushes and with a retention drop  *)
(* store a row twice only after one of these accidents: without them the     *)
(* check of the inputs before publishing (mergeParts) keeps a second merge   *)
(* of the same parts out, and no rollback lets two threads have one id.      *)
RowsApartUndisturbed == []Undisturbed => []NoRowTwice

(* Whenever a search may start, pruning by indexdb skips no part that holds  *)
(* a matching row (partsMatchingStreamEq: "part ids that may contain         *)
(* streams matching streamEq").                                              *)
IndexSound ==
    LockFree => \A p \in manifest, eq \in Queries :
        MatchingRows(eq, parts[p]) # {}
            => p \in PartsMatchingStreamEq(indexdb, manifest, eq)

(* A search returns only rows that were stored when it took its snapshot,    *)
(* and none of them twice, whatever flushes and merges do while it reads     *)
(* the files without the lock (QUERY_CONCURRENCY.md: no double counting).    *)
SearchSnapshot ==
    \A s \in Searchers : searchPc[s] = "reading" =>
        /\ found[s] \subseteq seen[s]
        /\ twice[s] = {}

(* A finished search has found every matching row that was stored when it    *)
(* took its snapshot.                                                        *)
SearchComplete ==
    \A s \in Searchers : searchPc[s] = "reading" /\ todo[s] = {}
        => seen[s] \subseteq found[s]

(* The only rows a finished search may have missed are rows a merge has      *)
(* moved: they are in a merged part now.  Flushes, index pruning and the     *)
(* reading of buffers and parts lose none.                                   *)
SearchMissesOnlyMerged ==
    \A s \in Searchers : searchPc[s] = "reading" /\ todo[s] = {}
        => seen[s] \ found[s] \subseteq UNION {parts[p] : p \in big}

(* What a client is promised, LogStore: rows become durable in the step that *)
(* makes them recoverable, merges and restarts change nothing, a crash takes *)
(* the buffered rows only.                                                   *)
Durable == UNION {parts[p] : p \in Recoverable}

Promise == INSTANCE LogStore WITH tip <- buffers \ Durable, durable <- Durable

ImplementsLogStore == Promise!Spec

(* Once retention has dropped the day, nothing but a merge that was already  *)
(* reading its parts brings rows of it back (and a crash in the middle of    *)
(* the removal): no flush does, no error path, no second use of an id, no    *)
(* drop that fails half-way.                                                 *)
OnlyMergesResurrect ==
    crashes = 0 /\ LockFree
        => Stored \cap dropped \subseteq UNION {parts[p] : p \in big}

(* No part id will be handed out again: every directory and every listed id  *)
(* is at most partSeq when a thread may take the next one.                   *)
PartSeqAhead == LockFree => \A p \in Dirs \cup manifest : p <= partSeq

(* "Guaranteed flush" (DURABILITY.md): a buffered row reaches a part that a  *)
(* restart finds, unless the process crashes first.                          *)
GuaranteedFlush ==
    \A r \in Rows : r \in buffers ~> (r \in Durable \/ mode = "down")

(* The background worker catches up: a day does not keep a mergeable number  *)
(* of small parts.                                                           *)
MergesCatchUp ==
    \A m \in Mergers : Cardinality(SmallParts) >= MinParts(m)
                          ~> Cardinality(SmallParts) < MinParts(m)

(* Every locked region ends, on its error paths too: no failure leaves       *)
(* Storage.mu held or a thread waiting inside it.                            *)
LockReleased == (mode = "up" /\ ~LockFree) ~> (LockFree \/ mode = "down")
=============================================================================
