---------------------- MODULE DayPartitionSearchProofs ----------------------
(* Proofs about the searches of DayPartition, for every value of the         *)
(* constants that rules out failing file operations, drops and racing        *)
(* mergers (Reliable): what SearchWithStats returns although it reads the    *)
(* part directories without the lock, and what its index lets it skip.       *)
EXTENDS DayPartitionProofs

-----------------------------------------------------------------------------
(* The operators of StreamIndex.                                             *)

(* Choosing the streams of a part through by_tag selects the matching rows,  *)
(* no more and no fewer.                                                     *)
LEMMA RowsForQueryExact ==
    ASSUME NEW R \in SUBSET Rows, NEW eq \in SUBSET Tags
    PROVE  RowsForQuery(R, eq) = MatchingRows(eq, R)
  <1>1. ASSUME NEW r \in R
        PROVE  StreamOf[r] \in MatchStreamIDs(R, eq)
                  <=> eq \subseteq TagsOf[StreamOf[r]]
    <2>1. StreamOf[r] \in StreamsIn(R)
      BY DEF StreamsIn
    <2>2. \A t \in Tags : ByTag(R)[t] = {s \in StreamsIn(R) : t \in TagsOf[s]}
      BY DEF ByTag
    <2>3. CASE eq = {}
      BY <2>1, <2>3 DEF MatchStreamIDs
    <2>4. CASE eq # {} /\ \A t \in Tags : ByTag(R)[t] = {}
      BY <2>1, <2>4 DEF MatchStreamIDs, StreamMatchesTags
    <2>5. CASE eq # {} /\ ~ \A t \in Tags : ByTag(R)[t] = {}
      <3>1. StreamOf[r] \in MatchStreamIDs(R, eq)
               <=> \A t \in eq : StreamOf[r] \in ByTag(R)[t]
        BY <2>1, <2>5 DEF MatchStreamIDs
      <3> QED
        BY <2>1, <2>2, <3>1
    <2> QED
      BY <2>3, <2>4, <2>5
  <1> QED
    BY <1>1 DEF RowsForQuery, MatchingRows, StreamMatchesTags

(* A rebuilt index prunes no part with a matching row.                       *)
LEMMA RebuiltIndexSound ==
    ASSUME NEW ids, NEW eq \in SUBSET Tags, NEW p \in ids,
           MatchingRows(eq, parts[p]) # {}
    PROVE  p \in PartsMatchingStreamEq(RebuildDayIndexDB(ids, parts), ids, eq)
  <1>1. PICK r \in parts[p] : eq \subseteq TagsOf[StreamOf[r]]
    BY DEF MatchingRows, StreamMatchesTags
  <1>2. StreamOf[r] \in StreamsIn(parts[p])
    BY DEF StreamsIn
  <1>3. \A t \in eq : p \in RebuildDayIndexDB(ids, parts)[t]
    BY <1>1, <1>2 DEF RebuildDayIndexDB
  <1> QED
    BY <1>3 DEF PartsMatchingStreamEq

-----------------------------------------------------------------------------
(* What a search will return.                                                *)

Reads(s) == searchPc[s] = "reading"
Busy(m)  == mergePc[m] \in {"reading", "writing", "written"}

(* The parts a search has yet to read are not written any more: their ids    *)
(* are used up and none is the output of a merge that has not renamed yet.   *)
(* Their matching rows are new to the search, and of its snapshot.           *)
Snapshot(s) ==
    /\ mode = "up"
    /\ \A p \in todo[s] : p <= partSeq
    /\ \A m \in Mergers : Busy(m) => out[m] \notin todo[s]
    /\ \A p \in todo[s] : MatchingRows(query[s], parts[p]) \subseteq seen[s] \ found[s]
    /\ \A p, q \in todo[s] : p # q => parts[p] \cap parts[q] = {}
    /\ found[s] \subseteq seen[s]

SnapshotInv == \A s \in Searchers : twice[s] = {} /\ (Reads(s) => Snapshot(s))

(* What others may do while searches read: nothing appears in a part that is *)
(* to be read.                                                               *)
SparesSearches ==
    /\ UNCHANGED <<search, mode>> /\ partSeq <= partSeq'
    /\ \A s \in Searchers : Reads(s) =>
          /\ \A p \in todo[s] : parts'[p] \subseteq parts[p]
          /\ \A m \in Mergers : Busy(m)' => out'[m] \notin todo[s]

(* A step that spares the parts a search has yet to read spares the          *)
(* search.                                                                   *)
LEMMA SparedSearches ==
    ASSUME TypeOK, partSeq' \in Nat, SnapshotInv, SparesSearches
    PROVE  SnapshotInv'
  <1> SUFFICES ASSUME NEW s \in Searchers, Reads(s)
               PROVE  Snapshot(s)'
    BY DEF SnapshotInv, SparesSearches, Reads, search
  <1>1. Snapshot(s) /\ partSeq \in Nat /\ todo[s] \subseteq Nat
    BY DEF SnapshotInv, TypeOK, MemoryTypeOK, SearchTypeOK, Ids
  <1>2. /\ UNCHANGED <<todo, query, seen, found, mode>> /\ partSeq <= partSeq'
        /\ \A p \in todo[s] : parts'[p] \subseteq parts[p]
        /\ \A m \in Mergers : Busy(m)' => out'[m] \notin todo[s]
    BY DEF SparesSearches, search
  <1>3. \A p \in todo[s] : p <= partSeq'
    BY <1>1, <1>2 DEF Snapshot
  <1>4. \A p \in todo[s] :
            MatchingRows(query[s], parts'[p]) \subseteq seen[s] \ found[s]
    BY <1>1, <1>2 DEF Snapshot, MatchingRows
  <1>5. \A p, q \in todo[s] : p # q => parts'[p] \cap parts'[q] = {}
    BY <1>1, <1>2 DEF Snapshot
  <1> QED
    BY <1>1, <1>2, <1>3, <1>4, <1>5 DEF Snapshot

(* The types the steps below need.                                           *)
LEMMA SearchTypes ==
    ASSUME IInv
    PROVE  /\ parts \in [Ids -> SUBSET Rows] /\ partSeq \in Nat
           /\ buffers \subseteq Rows /\ manifest \subseteq Ids /\ Ids \subseteq Nat
           /\ mergePc \in [Mergers -> MergePcs] /\ out \in [Mergers -> 0..MaxId]
           /\ inputs \in [Mergers -> SUBSET Ids]
           /\ query \in [Searchers -> SUBSET Tags]
           /\ todo \in [Searchers -> SUBSET Ids]
           /\ seen \in [Searchers -> SUBSET Rows]
           /\ found \in [Searchers -> SUBSET Rows]
           /\ searchPc \in [Searchers -> {"idle", "reading"}]
           /\ twice \in [Searchers -> SUBSET Rows]
  BY DEF IInv, TypeInv, TypeOK, MemoryTypeOK, ThreadsTypeOK, SearchTypeOK,
     DiskTypeOK, Ids

(* A search starts from the parts listed in its snapshot.                    *)
LEMMA SearchBeginSnapshot ==
    ASSUME IInv, SnapshotInv, NEW s \in Searchers, NEW eq \in Queries,
           SearchBegin(s, eq)
    PROVE  SnapshotInv'
  <1>1. /\ mode = "up" /\ flush = "idle" /\ searchPc[s] = "idle"
        /\ searchPc' = [searchPc EXCEPT ![s] = "reading"]
        /\ query' = [query EXCEPT ![s] = eq]
        /\ todo' = [todo EXCEPT ![s] = PartsMatchingStreamEq(indexdb, manifest, eq)]
        /\ found' = [found EXCEPT ![s] = MatchingRows(eq, buffers)]
        /\ seen' = [seen EXCEPT ![s] = MatchingRows(eq, Stored)]
        /\ UNCHANGED <<mode, partSeq, parts, out, mergePc, twice>>
    BY DEF SearchBegin, LockFree, memory, merge, disk
  <1>2. todo'[s] \subseteq manifest
    BY <1>1, SearchTypes DEF PartsMatchingStreamEq
  <1>3. query'[s] = eq /\ found'[s] = MatchingRows(eq, buffers)
           /\ seen'[s] = MatchingRows(eq, Stored) /\ Reads(s)'
    BY <1>1, SearchTypes DEF Reads
  <1>4. todo'[s] \subseteq Dirs /\ todo'[s] \subseteq Recoverable
    <2>1. CASE manifest = {}
      BY <1>2, <2>1
    <2>2. CASE manifest # {}
      BY <1>1, <1>2, <2>2, ListedOnDisk DEF IInv, ListInv, ListAgrees, Recoverable
    <2> QED
      BY <2>1, <2>2
  <1>5. \A p \in todo'[s] : p <= partSeq
    BY <1>1, <1>4 DEF IInv, ListInv, SeqAhead
  <1>6. \A m \in Mergers : Busy(m) => out[m] \notin todo'[s]
    BY <1>4 DEF IInv, MergeInv, MergeOwns, Busy, Dirs
  <1>7. \A p \in todo'[s] : /\ parts[p] \cap buffers = {} /\ parts[p] \subseteq Stored
    BY <1>1, <1>2, <1>4 DEF IInv, RowInv, Stored
  <1>8. \A p, q \in todo'[s] : p # q => parts[p] \cap parts[q] = {}
    BY <1>4 DEF IInv, RowInv
  <1>9. MatchingRows(eq, buffers) \subseteq MatchingRows(eq, Stored)
    BY DEF MatchingRows, Stored
  <1>10. \A p \in todo'[s] : MatchingRows(eq, parts[p])
             \subseteq MatchingRows(eq, Stored) \ MatchingRows(eq, buffers)
    BY <1>7 DEF MatchingRows
  <1>11. Snapshot(s)'
    BY <1>1, <1>3, <1>5, <1>6, <1>8, <1>9, <1>10 DEF Snapshot, Busy
  <1>12. ASSUME NEW t \in Searchers, t # s, Reads(t)' PROVE Snapshot(t)'
    <2>1. /\ todo'[t] = todo[t] /\ query'[t] = query[t] /\ Reads(t)
          /\ seen'[t] = seen[t] /\ found'[t] = found[t]
      BY <1>1, <1>12, SearchTypes DEF Reads
    <2> QED
      BY <1>1, <2>1 DEF SnapshotInv, Snapshot, Busy
  <1> QED
    BY <1>1, <1>11, <1>12 DEF SnapshotInv

(* Reading a part brings rows of the snapshot that were not found before.    *)
LEMMA SearchReadSnapshot ==
    ASSUME IInv, SnapshotInv, NEW s \in Searchers, SearchRead(s)
    PROVE  SnapshotInv'
  <1> DEFINE p   == MinOf(todo[s])
             hit == RowsForQuery(parts[p], query[s])
  <1>1. /\ Reads(s) /\ todo[s] # {}
        /\ todo' = [todo EXCEPT ![s] = todo[s] \ {p}]
        /\ found' = [found EXCEPT ![s] = found[s] \cup hit]
        /\ twice' = [twice EXCEPT ![s] = twice[s] \cup (hit \cap found[s])]
        /\ UNCHANGED <<mode, partSeq, parts, out, mergePc, searchPc, query, seen>>
    BY DEF SearchRead, Reads, memory, merge, disk
  <1>2. p \in todo[s]
    BY <1>1, SearchTypes, MinOfMember
  <1>3. hit = MatchingRows(query[s], parts[p])
    BY <1>2, SearchTypes, RowsForQueryExact
  <1> HIDE DEF p, hit
  <1>4. Snapshot(s) /\ twice[s] = {}
    BY <1>1 DEF SnapshotInv
  <1>5. hit \subseteq seen[s] \ found[s]
    BY <1>2, <1>3, <1>4 DEF Snapshot
  <1>6. twice'[s] = {} /\ found'[s] = found[s] \cup hit /\ todo'[s] = todo[s] \ {p}
    BY <1>1, <1>4, <1>5, SearchTypes
  <1>7. \A q \in todo'[s] : MatchingRows(query[s], parts[q]) \cap hit = {}
    <2>1. \A q \in todo'[s] : parts[p] \cap parts[q] = {}
      BY <1>2, <1>4, <1>6 DEF Snapshot
    <2>2. hit \subseteq parts[p]
      BY <1>3 DEF MatchingRows
    <2> QED
      BY <2>1, <2>2 DEF MatchingRows
  <1>8. Snapshot(s)'
    BY <1>1, <1>4, <1>5, <1>6, <1>7 DEF Snapshot, Busy
  <1>9. ASSUME NEW t \in Searchers, t # s
        PROVE  twice'[t] = {} /\ (Reads(t)' => Snapshot(t)')
    <2>1. todo'[t] = todo[t] /\ found'[t] = found[t] /\ twice'[t] = twice[t]
      BY <1>1, <1>9, SearchTypes
    <2> QED
      BY <1>1, <2>1 DEF SnapshotInv, Snapshot, Busy, Reads
  <1> QED
    BY <1>6, <1>8, <1>9 DEF SnapshotInv

(* A search that ends leaves the others as they are.                         *)
LEMMA SearchEndSnapshot ==
    ASSUME IInv, SnapshotInv, NEW s \in Searchers, SearchEnd(s)
    PROVE  SnapshotInv'
  <1>1. /\ searchPc' = [searchPc EXCEPT ![s] = "idle"]
        /\ query' = [query EXCEPT ![s] = {}] /\ found' = [found EXCEPT ![s] = {}]
        /\ seen' = [seen EXCEPT ![s] = {}] /\ twice' = [twice EXCEPT ![s] = {}]
        /\ UNCHANGED <<mode, partSeq, parts, out, mergePc, todo>>
    BY DEF SearchEnd, memory, merge, disk
  <1>2. ~Reads(s)' /\ twice'[s] = {}
    BY <1>1, SearchTypes DEF Reads
  <1>3. ASSUME NEW t \in Searchers, t # s
        PROVE  twice'[t] = {} /\ (Reads(t)' => Snapshot(t)')
    <2>1. /\ query'[t] = query[t] /\ found'[t] = found[t] /\ seen'[t] = seen[t]
          /\ twice'[t] = twice[t] /\ searchPc'[t] = searchPc[t]
      BY <1>1, <1>3, SearchTypes
    <2> QED
      BY <1>1, <2>1 DEF SnapshotInv, Snapshot, Busy, Reads
  <1> QED
    BY <1>2, <1>3 DEF SnapshotInv

(* No flush and no merge writes into a part a search has yet to read.        *)
LEMMA FlushSpares ==
    ASSUME Reliable, IInv, SnapshotInv, FlushStep
    PROVE  SparesSearches
  <1>1. CASE FlushPublish
    <2>1. /\ parts' = [parts EXCEPT ![NextId] = buffers] /\ partSeq' = NextId
          /\ UNCHANGED <<search, mode, mergePc, out>>
      BY <1>1 DEF FlushPublish, merge
    <2>2. NextId = partSeq + 1
      BY DEF NextId
    <2>3. \A s \in Searchers : Reads(s) => NextId \notin todo[s]
      BY <2>2, SearchTypes DEF SnapshotInv, Snapshot
    <2> QED
      BY <2>1, <2>2, <2>3, SearchTypes DEF SparesSearches, SnapshotInv,
         Snapshot, Busy
  <1>2. CASE FlushManifest \/ FlushIndex
    <2>1. UNCHANGED <<search, mode, partSeq, parts, mergePc, out>>
      BY <1>2 DEF FlushManifest, FlushIndex, merge
    <2> QED
      BY <2>1, SearchTypes DEF SparesSearches, SnapshotInv, Snapshot, Busy
  <1> QED
    BY <1>1, <1>2, NoErrorPaths DEF FlushStep

(* The steps of the one merge add no row to a part searches have yet to      *)
(* read.                                                                     *)
LEMMA MergeSpares ==
    ASSUME Reliable, IInv, SnapshotInv, NEW m \in Mergers,
           MergeSelect(m) \/ MergeStep(m)
    PROVE  SparesSearches
  <1>1. \A n \in Mergers : n = m
    BY DEF Reliable
  <1>2. CASE MergeAlloc(m)
    <2>1. /\ partSeq' = NextId /\ out' = [out EXCEPT ![m] = NextId]
          /\ UNCHANGED <<search, mode, parts>>
      BY <1>2 DEF MergeAlloc
    <2>2. NextId = partSeq + 1 /\ out'[m] = NextId
      BY <2>1, SearchTypes DEF NextId
    <2>3. \A s \in Searchers : Reads(s) => NextId \notin todo[s]
      BY <2>2, SearchTypes DEF SnapshotInv, Snapshot
    <2> QED
      BY <1>1, <2>1, <2>2, <2>3, SearchTypes DEF SparesSearches
  <1>3. CASE MergeSelect(m) \/ MergeRead(m) \/ MergeWrite(m) \/ MergeSwap(m)
                \/ MergeIndex(m)
    <2>1. UNCHANGED <<search, mode, partSeq, parts, out>>
      BY <1>3 DEF MergeSelect, MergeRead, MergeWrite, MergeSwap, MergeIndex,
         memory, disk
    <2>2. Busy(m)' => Busy(m)
      BY <1>3, SearchTypes DEF MergeSelect, MergeRead, MergeWrite, MergeSwap,
         MergeIndex, MergeGoesTo, Busy
    <2> QED
      BY <1>1, <2>1, <2>2, SearchTypes DEF SparesSearches, SnapshotInv, Snapshot
  <1>4. CASE MergePublish(m)
    <2>1. /\ parts' = [parts EXCEPT ![out[m]] = merging[out[m]]] /\ Busy(m)
          /\ mergePc' = [mergePc EXCEPT ![m] = "renamed"]
          /\ UNCHANGED <<search, mode, partSeq, out>>
      BY <1>4 DEF MergePublish, MergeGoesTo, Busy, memory
    <2>2. ~Busy(m)'
      BY <2>1, SearchTypes DEF Busy
    <2>3. \A s \in Searchers : Reads(s) => out[m] \notin todo[s]
      BY <2>1 DEF SnapshotInv, Snapshot
    <2> QED
      BY <1>1, <2>1, <2>2, <2>3, SearchTypes DEF SparesSearches
  <1>5. CASE MergeClean(m)
    <2>1. /\ mergePc[m] = "cleaning"
          /\ mergePc' = mergePc \/ mergePc' = [mergePc EXCEPT ![m] = "idle"]
          /\ parts' = [parts EXCEPT ![MinOf(inputs[m])] = {}]
          /\ UNCHANGED <<search, mode, partSeq>>
      BY <1>5 DEF MergeClean, MergeReturns, MergeGoesTo, RemoveDir, memory
    <2>2. ~Busy(m)'
      BY <2>1, SearchTypes DEF Busy
    <2>3. \A p \in Ids : parts'[p] \subseteq parts[p]
      BY <2>1, SearchTypes
    <2> QED
      BY <1>1, <2>1, <2>2, <2>3, SearchTypes DEF SparesSearches
  <1> QED
    BY <1>2, <1>3, <1>4, <1>5, NoErrorPaths DEF MergeStep

(* The snapshot invariant is kept by every step.                             *)
LEMMA SnapshotInvNext ==
    ASSUME Reliable, IInv, SnapshotInv, [Next]_vars
    PROVE  SnapshotInv'
  <1>1. TypeOK /\ partSeq' \in Nat
    BY TypeOKNext DEF IInv, TypeInv, TypeOK, MemoryTypeOK
  <1>2. ASSUME UNCHANGED <<search, mode, partSeq, parts, mergePc, out>>
        PROVE  SnapshotInv'
    <2>1. SparesSearches
      BY <1>2, SearchTypes DEF SparesSearches, SnapshotInv, Snapshot, Busy
    <2> QED
      BY <1>1, <2>1, SparedSearches
  <1>3. CASE FlushStep
    BY <1>1, <1>3, FlushSpares, SparedSearches
  <1>4. ASSUME NEW m \in Mergers, MergeSelect(m) \/ MergeStep(m)
        PROVE  SnapshotInv'
    BY <1>1, <1>4, MergeSpares, SparedSearches
  <1>5. ASSUME NEW s \in Searchers,
               \/ \E eq \in Queries : SearchBegin(s, eq)
               \/ SearchRead(s) \/ SearchEnd(s)
        PROVE  SnapshotInv'
    BY <1>5, SearchBeginSnapshot, SearchReadSnapshot, SearchEndSnapshot
  <1>6. CASE (\E B \in SUBSET Rows : Append(B)) \/ (\E r \in Rows : Apply(r))
                \/ FlushCall \/ UNCHANGED vars
    BY <1>2, <1>6 DEF Append, Apply, FlushCall, vars, memory, threads, merge, disk
  <1>7. CASE Crash
    BY <1>7 DEF Crash, SnapshotInv, Reads
  <1>8. CASE Open
    <2>1. mode = "down" /\ UNCHANGED threads
      BY <1>8 DEF Open, OpenCleanup
    <2>2. UNCHANGED <<searchPc, twice>>
      BY <2>1 DEF threads, search
    <2> QED
      BY <2>1, <2>2 DEF SnapshotInv, Snapshot, Reads
  <1> QED
    BY <1>3, <1>4, <1>5, <1>6, <1>7, <1>8, NoErrorPaths
    DEF Next, FlushFault, MergeFault

(* No search runs at the start.                                              *)
LEMMA SnapshotInvInit == Init => SnapshotInv
  BY DEF Init, SnapshotInv, Reads

(* Hence the snapshot invariant always holds.                                *)
LEMMA SnapshotInvCorrect == Reliable => (Spec => []SnapshotInv)
  <1>1. Reliable /\ IInv /\ SnapshotInv /\ [Next]_vars => SnapshotInv'
    BY SnapshotInvNext
  <1>2. CASE Reliable
    <2>1. IInv /\ SnapshotInv /\ [Next]_vars => SnapshotInv'
      BY <1>1, <1>2
    <2>2. Spec => []IInv
      BY <1>2, IInvCorrect
    <2>3. Spec => []SnapshotInv
      BY <2>1, <2>2, SnapshotInvInit, PTL DEF Spec
    <2> QED
      BY <2>3
  <1> QED
    BY <1>2

(* A search returns rows of its snapshot only and none of them twice: the    *)
(* part files it reads without the lock hold what they held when it started, *)
(* or are gone.                                                              *)
THEOREM SearchesReadTheirSnapshot == Reliable => (Spec => []SearchSnapshot)
  <1>1. SnapshotInv => SearchSnapshot
    BY DEF SnapshotInv, Snapshot, SearchSnapshot, Reads
  <1>2. CASE Reliable
    <2>1. Spec => []SnapshotInv
      BY <1>2, SnapshotInvCorrect
    <2> QED
      BY <1>1, <2>1, PTL
  <1> QED
    BY <1>2

-----------------------------------------------------------------------------
(* What the index of the day lets a search skip.  A crash between the two    *)
(* files leaves indexdb.json behind manifest.json, and Open takes it as it   *)
(* is: until the first crash nothing is skipped wrongly.                     *)

(* indexdb is rebuilt for the listed parts before the lock is released.      *)
IndexInv ==
    crashes = 0 =>
        /\ mode = "down" => ~dayDir
        /\ \/ mode = "down" \/ flush = "listed"
           \/ \E m \in Mergers : mergePc[m] = "swapped"
           \/ indexdb = RebuildDayIndexDB(manifest, parts)

(* The index of the same parts with the same rows is the same.               *)
LEMMA SameIndex ==
    ASSUME manifest' = manifest, \A p \in manifest : parts'[p] = parts[p]
    PROVE  RebuildDayIndexDB(manifest, parts)' = RebuildDayIndexDB(manifest, parts)
  BY DEF RebuildDayIndexDB, StreamsIn

(* A step that changes no listed part keeps the index fitting.               *)
LEMMA IndexFrame ==
    ASSUME IInv, IndexInv, crashes' = crashes, mode' = mode, mode = "up",
           UNCHANGED <<manifest, indexdb>>,
           \A p \in manifest : parts'[p] = parts[p],
           flush # "listed" \/ flush' = "listed",
           \A m \in Mergers : mergePc[m] = "swapped" => mergePc'[m] = "swapped"
    PROVE  IndexInv'
  BY SameIndex DEF IndexInv

(* Before the first crash, the index is that of the listed parts.            *)
LEMMA IndexInvNext ==
    ASSUME Reliable, IInv, IndexInv, [Next]_vars
    PROVE  IndexInv'
  <1> SUFFICES ASSUME crashes' = 0 PROVE IndexInv'
    BY DEF IndexInv
  <1>0. ~Crash
    BY DEF Crash, IInv, TypeInv, TypeOK, GhostTypeOK
  <1>1. ASSUME UNCHANGED <<mode, manifest, indexdb, parts, flush, mergePc, dayDir, crashes>>
        PROVE  IndexInv'
    BY <1>1 DEF IndexInv, RebuildDayIndexDB
  <1>2. CASE FlushCall \/ (\E r \in Rows : Apply(r))
    <2>1. /\ mode = "up" /\ flush = "idle"
          /\ UNCHANGED <<mode, manifest, indexdb, parts, mergePc, crashes>>
      <3>1. mode = "up" /\ flush = "idle"
        BY <1>2 DEF FlushCall, Apply, LockFree, IInv, TypeInv, LockInv, TypeOK,
           MemoryTypeOK
      <3> QED
        BY <1>2, <3>1 DEF FlushCall, Apply, memory, merge, disk, ghosts
    <2> QED
      BY <2>1, IndexFrame
  <1>3. CASE FlushPublish
    <2>1. /\ flush = "start" /\ flush' = "published" /\ parts[NextId] = {}
          /\ parts' = [parts EXCEPT ![NextId] = buffers]
          /\ UNCHANGED <<mode, manifest, indexdb, mergePc, crashes>>
      BY <1>3 DEF FlushPublish, merge, ghosts
    <2>2. mode = "up"
      BY <2>1 DEF IInv, TypeInv, LockInv, TypeOK, MemoryTypeOK
    <2>3. \A p \in manifest : parts'[p] = parts[p]
      BY <2>1, SearchTypes, ListedOnDisk DEF Dirs
    <2> QED
      BY <2>1, <2>2, <2>3, IndexFrame
  <1>4. CASE FlushManifest
    <2>1. flush' = "listed" /\ mode' = mode /\ crashes' = crashes /\ mode = "up"
      BY <1>4 DEF FlushManifest, ghosts, IInv, TypeInv, LockInv, TypeOK,
         MemoryTypeOK
    <2> QED
      BY <2>1 DEF IndexInv
  <1>5. CASE FlushIndex
    <2>1. mode = "up"
      BY <1>5 DEF FlushIndex, IInv, TypeInv, LockInv, TypeOK, MemoryTypeOK
    <2>2. /\ indexdb' = RebuildDayIndexDB(manifest, parts)
          /\ UNCHANGED <<mode, manifest, parts>>
      BY <1>5 DEF FlushIndex
    <2>3. indexdb' = RebuildDayIndexDB(manifest', parts')
      BY <2>2
    <2> QED
      BY <2>1, <2>2, <2>3 DEF IndexInv
  <1>6. ASSUME NEW m \in Mergers,
               MergeSelect(m) \/ MergeAlloc(m) \/ MergeRead(m) \/ MergeWrite(m)
        PROVE  IndexInv'
    <2>1. /\ mode = "up" /\ mergePc[m] # "swapped"
          /\ UNCHANGED <<mode, manifest, indexdb, parts, flush, crashes>>
      BY <1>6 DEF MergeSelect, MergeAlloc, MergeRead, MergeWrite, LockFree,
         memory, disk, ghosts
    <2>2. \A n \in Mergers : n = m
      BY DEF Reliable
    <2> QED
      BY <2>1, <2>2, IndexFrame
  <1>7. ASSUME NEW m \in Mergers, MergePublish(m)
        PROVE  IndexInv'
    <2>1. /\ mode = "up" /\ mergePc[m] # "swapped" /\ parts[out[m]] = {}
          /\ parts' = [parts EXCEPT ![out[m]] = merging[out[m]]]
          /\ UNCHANGED <<mode, manifest, indexdb, flush, crashes>>
      BY <1>7 DEF MergePublish, CanPublishMerge, LockFree, memory, ghosts
    <2>2. \A n \in Mergers : n = m
      BY DEF Reliable
    <2>3. \A p \in manifest : parts'[p] = parts[p]
      BY <2>1, SearchTypes, ListedOnDisk DEF Dirs
    <2> QED
      BY <2>1, <2>2, <2>3, IndexFrame
  <1>8. ASSUME NEW m \in Mergers, MergeSwap(m)
        PROVE  IndexInv'
    <2>1. mergePc'[m] = "swapped" /\ mode' = mode /\ crashes' = crashes /\ mode = "up"
      BY <1>8, SearchTypes DEF MergeSwap, MergeGoesTo, ghosts, IInv, TypeInv,
         LockInv, TypeOK, MemoryTypeOK
    <2> QED
      BY <2>1 DEF IndexInv
  <1>9. ASSUME NEW m \in Mergers, MergeIndex(m)
        PROVE  IndexInv'
    <2>1. mode = "up"
      BY <1>9 DEF MergeIndex, IInv, TypeInv, LockInv, TypeOK, MemoryTypeOK
    <2>2. /\ indexdb' = RebuildDayIndexDB(manifest, parts)
          /\ UNCHANGED <<mode, manifest, parts>>
      BY <1>9 DEF MergeIndex
    <2>3. indexdb' = RebuildDayIndexDB(manifest', parts')
      BY <2>2
    <2> QED
      BY <2>1, <2>2, <2>3 DEF IndexInv
  <1>10. ASSUME NEW m \in Mergers, MergeClean(m)
        PROVE  IndexInv'
    <2>1. /\ mergePc[m] = "cleaning"
          /\ parts' = [parts EXCEPT ![MinOf(inputs[m])] = {}]
          /\ UNCHANGED <<mode, manifest, indexdb, flush, crashes>>
      BY <1>10 DEF MergeClean, RemoveDir, memory, ghosts
    <2>2. inputs[m] # {} /\ inputs[m] \cap manifest = {} /\ mode = "up"
      BY <2>1 DEF IInv, MergeInv, MergeOwns, TypeInv, LockInv, TypeOK,
         MemoryTypeOK
    <2>3. MinOf(inputs[m]) \notin manifest
      BY <2>2, SearchTypes, MinOfMember
    <2>4. \A p \in manifest : parts'[p] = parts[p]
      BY <2>1, <2>3, SearchTypes
    <2>5. \A n \in Mergers : n = m
      BY DEF Reliable
    <2> QED
      BY <2>1, <2>2, <2>4, <2>5, IndexFrame
  <1>11. ASSUME NEW s \in Searchers,
               \/ \E eq \in Queries : SearchBegin(s, eq)
               \/ SearchRead(s) \/ SearchEnd(s)
        PROVE  IndexInv'
    BY <1>1, <1>11 DEF SearchBegin, SearchRead, SearchEnd, memory, merge,
       disk, ghosts
  <1>12. CASE (\E B \in SUBSET Rows : Append(B)) \/ UNCHANGED vars
    BY <1>1, <1>12 DEF Append, vars, memory, threads, merge, disk, ghosts
  <1>13. CASE Open
    <2>1. mode = "down" /\ crashes' = crashes /\ ~dayDir
      BY <1>13 DEF Open, OpenCleanup, ghosts, IndexInv
    <2>2. Dirs = {} /\ manifestFile = NoFile
      BY <2>1 DEF IInv, ListInv, DayDirInv
    <2>3. Recoverable = {}
      BY <2>2 DEF Recoverable
    <2>4. manifest' = {} /\ indexdb' = EmptyIndex /\ mode' = "up"
      BY <1>13, <2>1, <2>3 DEF Open, OpenedIndex
    <2>5. RebuildDayIndexDB({}, parts') = EmptyIndex
      BY DEF RebuildDayIndexDB, EmptyIndex
    <2> QED
      BY <2>4, <2>5 DEF IndexInv
  <1> QED
    BY <1>0, <1>2, <1>3, <1>4, <1>5, <1>6, <1>7, <1>8, <1>9, <1>10, <1>11,
       <1>12, <1>13, NoErrorPaths
    DEF Next, FlushStep, MergeStep, FlushFault, MergeFault

(* The empty index is that of no parts.                                      *)
LEMMA IndexInvInit == Init => IndexInv
  BY DEF Init, IndexInv

(* Hence the index invariant always holds.                                   *)
LEMMA IndexInvCorrect == Reliable => (Spec => []IndexInv)
  <1>1. Reliable /\ IInv /\ IndexInv /\ [Next]_vars => IndexInv'
    BY IndexInvNext
  <1>2. CASE Reliable
    <2>1. IInv /\ IndexInv /\ [Next]_vars => IndexInv'
      BY <1>1, <1>2
    <2>2. Spec => []IInv
      BY <1>2, IInvCorrect
    <2>3. Spec => []IndexInv
      BY <2>1, <2>2, IndexInvInit, PTL DEF Spec
    <2> QED
      BY <2>3
  <1> QED
    BY <1>2

(* An index rebuilt from the listed parts prunes none that matches.          *)
LEMMA FreshIndexSound ==
    ASSUME IndexInv, crashes = 0
    PROVE  IndexSound
  <1> SUFFICES ASSUME LockFree, NEW p \in manifest, NEW eq \in Queries,
                      MatchingRows(eq, parts[p]) # {}
               PROVE  p \in PartsMatchingStreamEq(indexdb, manifest, eq)
    BY DEF IndexSound
  <1>1. indexdb = RebuildDayIndexDB(manifest, parts)
    BY DEF IndexInv, LockFree
  <1>2. eq \in SUBSET Tags
    BY ConfigAssumption
  <1> QED
    BY <1>1, <1>2, RebuiltIndexSound

(* Until the first crash the day's index makes no search skip a part with a  *)
(* matching row, whatever flushes and merges have done to the list of parts. *)
THEOREM IndexSkipsNothing == Reliable => (Spec => [](crashes = 0 => IndexSound))
  <1>1. IndexInv => (crashes = 0 => IndexSound)
    BY FreshIndexSound
  <1>2. CASE Reliable
    <2>1. Spec => []IndexInv
      BY <1>2, IndexInvCorrect
    <2> QED
      BY <1>1, <2>1, PTL
  <1> QED
    BY <1>2

-----------------------------------------------------------------------------
(* What a search may miss.  A merge that removes a part before the search    *)
(* reads it is the only way: its rows are in a big part then.                *)

BigRows == UNION {parts[p] : p \in big}

(* A merge takes small parts, and has their rows in a big one before it      *)
(* removes the first of them.                                                *)
BigInv ==
    \A m \in Mergers :
        /\ mergePc[m] # "idle" => inputs[m] \cap big = {}
        /\ Inside(m) => /\ out[m] \in big
                        /\ \A p \in inputs[m] : parts[p] \subseteq parts[out[m]]

Owed(s) == found[s] \cup BigRows \cup UNION {parts[p] : p \in todo[s]}

CompleteInv ==
    crashes = 0 => \A s \in Searchers : Reads(s) =>
        /\ seen[s] \subseteq Owed(s)
        /\ seen[s] \subseteq MatchingRows(query[s], Rows)

(* No row of a part disappears but into a big part, and those stay.          *)
KeepsParts ==
    /\ BigRows \subseteq BigRows'
    /\ \A p \in Ids : parts[p] \subseteq parts'[p] \cup BigRows'

(* The conjuncts of IInv that say which files a step writes.                 *)
LEMMA FlushKeepsParts ==
    ASSUME Reliable, IInv, FlushStep
    PROVE  KeepsParts /\ UNCHANGED big
  <1>1. CASE FlushPublish
    <2>1. /\ parts[NextId] = {} /\ UNCHANGED big
          /\ parts' = [parts EXCEPT ![NextId] = buffers]
      BY <1>1 DEF FlushPublish
    <2>2. \A p \in Ids : parts[p] \subseteq parts'[p]
      BY <2>1, SearchTypes
    <2>3. big \subseteq Ids
      BY DEF IInv, TypeInv, TypeOK, DiskTypeOK
    <2> QED
      BY <2>1, <2>2, <2>3 DEF KeepsParts, BigRows
  <1>2. CASE FlushManifest \/ FlushIndex
    BY <1>2 DEF FlushManifest, FlushIndex, KeepsParts, BigRows
  <1> QED
    BY <1>1, <1>2, NoErrorPaths DEF FlushStep

(* So do the steps of a merge.                                               *)
LEMMA MergeKeepsParts ==
    ASSUME Reliable, IInv, BigInv, NEW m \in Mergers,
           MergeSelect(m) \/ MergeStep(m)
    PROVE  KeepsParts /\ BigInv'
  <1>1. \A n \in Mergers : n = m
    BY DEF Reliable
  <1>2. big \subseteq Ids
    BY DEF IInv, TypeInv, TypeOK, DiskTypeOK
  <1>3. CASE MergeSelect(m)
    <2>1. /\ mergePc' = [mergePc EXCEPT ![m] = "selected"]
          /\ inputs' = [inputs EXCEPT ![m] = Lowest(MergeMaxPartsPerJob, SmallParts)]
          /\ UNCHANGED <<parts, big>>
      BY <1>3 DEF MergeSelect, MergeGoesTo, disk
    <2>2. Lowest(MergeMaxPartsPerJob, SmallParts) \subseteq manifest \ big
      BY DEF Lowest, SmallParts
    <2>3. inputs'[m] \cap big = {} /\ ~Inside(m)'
      BY <2>1, <2>2, SearchTypes DEF Inside
    <2> QED
      BY <1>1, <2>1, <2>3 DEF KeepsParts, BigRows, BigInv
  <1>4. CASE MergeAlloc(m) \/ MergeRead(m) \/ MergeWrite(m)
    <2>1. /\ mergePc[m] # "idle" /\ ~Inside(m)'
          /\ UNCHANGED <<inputs, parts, big>>
      BY <1>4, SearchTypes DEF MergeAlloc, MergeRead, MergeWrite, MergeGoesTo,
         Inside
    <2> QED
      BY <1>1, <2>1 DEF KeepsParts, BigRows, BigInv
  <1>5. CASE MergePublish(m)
    <2>1. /\ mergePc[m] = "written" /\ parts[out[m]] = {}
          /\ parts' = [parts EXCEPT ![out[m]] = merging[out[m]]]
          /\ big' = big \cup {out[m]}
          /\ mergePc' = [mergePc EXCEPT ![m] = "renamed"]
          /\ UNCHANGED <<inputs, out>>
      BY <1>5 DEF MergePublish, CanPublishMerge, MergeGoesTo
    <2>2. /\ inputs[m] \subseteq manifest /\ merging[out[m]] = InputRows(m)
          /\ out[m] \in Ids
      BY <2>1 DEF IInv, MergeInv, MergeOwns, TypeInv, LockInv, Allocated
    <2>3. out[m] \notin inputs[m]
      BY <2>1, <2>2, ListedOnDisk DEF Dirs
    <2>4. /\ parts'[out[m]] = InputRows(m)
          /\ \A p \in Ids : parts[p] \subseteq parts'[p]
          /\ \A p \in inputs[m] : parts'[p] = parts[p]
      BY <2>1, <2>2, <2>3, SearchTypes
    <2>5. \A p \in inputs[m] : parts'[p] \subseteq parts'[out[m]]
      BY <2>4 DEF InputRows
    <2>6. KeepsParts
      BY <1>2, <2>1, <2>4 DEF KeepsParts, BigRows
    <2>7. inputs'[m] \cap big' = {}
      BY <2>1, <2>3 DEF BigInv
    <2> QED
      BY <1>1, <2>1, <2>5, <2>6, <2>7 DEF BigInv
  <1>6. CASE MergeSwap(m) \/ MergeIndex(m)
    <2>1. /\ Inside(m) /\ UNCHANGED <<inputs, out, parts, big>>
      BY <1>6 DEF MergeSwap, MergeIndex, Inside
    <2>2. mergePc[m] # "idle"
      BY <2>1 DEF Inside
    <2> QED
      BY <1>1, <2>1, <2>2 DEF KeepsParts, BigRows, BigInv
  <1>7. CASE MergeClean(m)
    <2> DEFINE p == MinOf(inputs[m])
    <2>1. /\ mergePc[m] = "cleaning" /\ parts' = [parts EXCEPT ![p] = {}]
          /\ big' = big \ {p}
          /\ \/ mergePc' = [mergePc EXCEPT ![m] = "idle"]
             \/ /\ inputs' = [inputs EXCEPT ![m] = inputs[m] \ {p}]
                /\ UNCHANGED <<mergePc, out>>
      BY <1>7 DEF MergeClean, MergeReturns, MergeGoesTo, RemoveDir
    <2>2. inputs[m] # {}
      BY <2>1 DEF IInv, MergeInv, MergeOwns
    <2>3. p \in inputs[m]
      BY <2>2, SearchTypes, MinOfMember
    <2> HIDE DEF p
    <2>4. /\ inputs[m] \cap big = {} /\ out[m] \in big
          /\ \A q \in inputs[m] : parts[q] \subseteq parts[out[m]]
      BY <2>1 DEF BigInv, Inside
    <2>5. big' = big /\ p \in Ids /\ p # out[m] /\ p \notin big
      BY <2>1, <2>3, <2>4, SearchTypes
    <2>6. \A q \in Ids : q # p => parts'[q] = parts[q]
      BY <2>1, SearchTypes
    <2>7. BigRows' = BigRows
      BY <1>2, <2>5, <2>6 DEF BigRows
    <2>8. parts[p] \subseteq BigRows
      BY <2>3, <2>4 DEF BigRows
    <2>9. KeepsParts
      BY <2>6, <2>7, <2>8 DEF KeepsParts
    <2>10. CASE mergePc' = [mergePc EXCEPT ![m] = "idle"]
      <3>1. mergePc'[m] = "idle"
        BY <2>10, SearchTypes
      <3> QED
        BY <1>1, <2>9, <3>1 DEF BigInv, Inside
    <2>11. CASE /\ inputs' = [inputs EXCEPT ![m] = inputs[m] \ {p}]
                /\ UNCHANGED <<mergePc, out>>
      <3>1. inputs'[m] = inputs[m] \ {p} /\ out'[m] = out[m]
        BY <2>11, SearchTypes
      <3>2. \A q \in inputs'[m] : parts'[q] \subseteq parts'[out[m]]
        BY <1>2, <2>4, <2>5, <2>6, <3>1, SearchTypes
      <3> QED
        BY <1>1, <2>4, <2>5, <2>9, <3>1, <3>2 DEF BigInv
    <2> QED
      BY <2>1, <2>10, <2>11
  <1> QED
    BY <1>3, <1>4, <1>5, <1>6, <1>7, NoErrorPaths DEF MergeStep

(* Every step keeps what a merge owes to its big part.                       *)
LEMMA BigInvNext ==
    ASSUME Reliable, IInv, BigInv, [Next]_vars
    PROVE  BigInv'
  <1>1. ASSUME UNCHANGED <<merge, parts, big>>
        PROVE  BigInv'
    BY <1>1 DEF BigInv, Inside, merge
  <1>2. CASE FlushPublish
    <2>1. /\ flush = "start" /\ UNCHANGED <<merge, big>>
      BY <1>2 DEF FlushPublish
    <2>2. \A m \in Mergers : ~Inside(m)
      BY <2>1 DEF IInv, TypeInv, LockInv
    <2> QED
      BY <2>1, <2>2 DEF BigInv, Inside, merge
  <1>3. ASSUME NEW m \in Mergers, MergeSelect(m) \/ MergeStep(m)
        PROVE  BigInv'
    BY <1>3, MergeKeepsParts
  <1>4. CASE Crash
    BY <1>4 DEF Crash, BigInv, Inside
  <1>5. CASE Open
    <2>1. mode = "down" /\ UNCHANGED merge
      BY <1>5 DEF Open, OpenCleanup, threads
    <2>2. \A m \in Mergers : mergePc[m] = "idle"
      BY <2>1 DEF IInv, TypeInv, LockInv
    <2> QED
      BY <2>1, <2>2 DEF BigInv, Inside, merge
  <1>6. CASE \/ \E B \in SUBSET Rows : Append(B)
             \/ \E r \in Rows : Apply(r)
             \/ FlushCall \/ FlushManifest \/ FlushIndex
             \/ \E s \in Searchers : \/ \E eq \in Queries : SearchBegin(s, eq)
                                     \/ SearchRead(s) \/ SearchEnd(s)
             \/ UNCHANGED vars
    BY <1>1, <1>6 DEF Append, Apply, FlushCall, FlushManifest, FlushIndex,
       SearchBegin, SearchRead, SearchEnd, vars, threads, disk
  <1> QED
    BY <1>2, <1>3, <1>4, <1>5, <1>6, NoErrorPaths
    DEF Next, FlushStep, FlushFault, MergeFault

(* A step that keeps the parts leaves a search's debts payable.              *)
LEMMA OwedStays ==
    ASSUME IInv, CompleteInv, KeepsParts, UNCHANGED <<search, crashes>>
    PROVE  CompleteInv'
  <1> SUFFICES ASSUME crashes = 0, NEW s \in Searchers, Reads(s)
               PROVE  seen[s] \subseteq Owed(s)'
    BY DEF CompleteInv, Reads, search
  <1>1. seen[s] \subseteq Owed(s) /\ todo[s] \subseteq Ids
    BY SearchTypes DEF CompleteInv
  <1>2. Owed(s) \subseteq Owed(s)'
    BY <1>1 DEF KeepsParts, Owed, search
  <1> QED
    BY <1>1, <1>2

(* What a search has not found when it begins is in a part it will read.     *)
LEMMA SearchBeginOwes ==
    ASSUME IInv, IndexInv, CompleteInv, NEW s \in Searchers, NEW eq \in Queries,
           SearchBegin(s, eq)
    PROVE  CompleteInv'
  <1>1. /\ LockFree
        /\ searchPc' = [searchPc EXCEPT ![s] = "reading"]
        /\ query' = [query EXCEPT ![s] = eq]
        /\ todo' = [todo EXCEPT ![s] = PartsMatchingStreamEq(indexdb, manifest, eq)]
        /\ found' = [found EXCEPT ![s] = MatchingRows(eq, buffers)]
        /\ seen' = [seen EXCEPT ![s] = MatchingRows(eq, Stored)]
        /\ UNCHANGED <<parts, big, crashes>>
    BY DEF SearchBegin, disk, ghosts
  <1> SUFFICES ASSUME crashes = 0
               PROVE  CompleteInv'
    BY <1>1 DEF CompleteInv
  <1>2. Stored \subseteq Rows
    BY SearchTypes DEF Stored
  <1>3. \A p \in manifest : MatchingRows(eq, parts[p]) # {} =>
            p \in PartsMatchingStreamEq(indexdb, manifest, eq)
    BY <1>1, FreshIndexSound DEF IndexSound
  <1>4. /\ query'[s] = eq /\ found'[s] = MatchingRows(eq, buffers)
        /\ todo'[s] = PartsMatchingStreamEq(indexdb, manifest, eq)
        /\ seen'[s] = MatchingRows(eq, Stored)
    BY <1>1, SearchTypes
  <1>5. seen'[s] \subseteq Owed(s)'
    <2> SUFFICES ASSUME NEW r \in MatchingRows(eq, Stored)
                 PROVE  r \in Owed(s)'
      BY <1>4
    <2>1. CASE r \in buffers
      BY <1>4, <2>1 DEF Owed, MatchingRows
    <2>2. CASE r \notin buffers
      <3>1. PICK p \in manifest : r \in parts[p]
        BY <2>2 DEF MatchingRows, Stored
      <3>2. p \in todo'[s]
        BY <1>3, <1>4, <3>1 DEF MatchingRows
      <3> QED
        BY <1>1, <3>1, <3>2 DEF Owed
    <2> QED
      BY <2>1, <2>2
  <1>6. seen'[s] \subseteq MatchingRows(query'[s], Rows)
    BY <1>2, <1>4 DEF MatchingRows
  <1>7. ASSUME NEW t \in Searchers, t # s, Reads(t)'
        PROVE  /\ seen'[t] \subseteq Owed(t)'
               /\ seen'[t] \subseteq MatchingRows(query'[t], Rows)
    <2>1. /\ todo'[t] = todo[t] /\ query'[t] = query[t] /\ Reads(t)
          /\ seen'[t] = seen[t] /\ found'[t] = found[t]
      BY <1>1, <1>7, SearchTypes DEF Reads
    <2> QED
      BY <1>1, <2>1 DEF CompleteInv, Owed, BigRows
  <1> QED
    BY <1>5, <1>6, <1>7 DEF CompleteInv

(* Reading a part finds what the search still owed there.                    *)
LEMMA SearchReadPays ==
    ASSUME IInv, CompleteInv, NEW s \in Searchers, SearchRead(s)
    PROVE  CompleteInv'
  <1> DEFINE p   == MinOf(todo[s])
             hit == RowsForQuery(parts[p], query[s])
  <1>1. /\ Reads(s) /\ todo[s] # {}
        /\ todo' = [todo EXCEPT ![s] = todo[s] \ {p}]
        /\ found' = [found EXCEPT ![s] = found[s] \cup hit]
        /\ UNCHANGED <<parts, big, crashes, searchPc, query, seen>>
    BY DEF SearchRead, Reads, disk, ghosts
  <1>2. p \in todo[s]
    BY <1>1, SearchTypes, MinOfMember
  <1>3. hit = MatchingRows(query[s], parts[p])
    BY <1>2, SearchTypes, RowsForQueryExact
  <1> HIDE DEF p, hit
  <1> SUFFICES ASSUME crashes = 0
               PROVE  CompleteInv'
    BY <1>1 DEF CompleteInv
  <1>4. seen[s] \subseteq Owed(s) /\ seen[s] \subseteq MatchingRows(query[s], Rows)
    BY <1>1 DEF CompleteInv
  <1>5. found'[s] = found[s] \cup hit /\ todo'[s] = todo[s] \ {p}
    BY <1>1, SearchTypes
  <1>6. seen[s] \cap parts[p] \subseteq hit
    BY <1>3, <1>4 DEF MatchingRows
  <1>7. Owed(s) \subseteq Owed(s)' \cup parts[p]
    BY <1>1, <1>5 DEF Owed, BigRows
  <1>8. hit \subseteq Owed(s)'
    BY <1>5 DEF Owed
  <1>9. seen'[s] \subseteq Owed(s)'
    BY <1>1, <1>4, <1>6, <1>7, <1>8
  <1>10. ASSUME NEW t \in Searchers, t # s, Reads(t)'
        PROVE  /\ seen'[t] \subseteq Owed(t)'
               /\ seen'[t] \subseteq MatchingRows(query'[t], Rows)
    <2>1. todo'[t] = todo[t] /\ found'[t] = found[t]
      BY <1>1, <1>10, SearchTypes
    <2> QED
      BY <1>1, <1>10, <2>1 DEF CompleteInv, Owed, BigRows, Reads
  <1> QED
    BY <1>1, <1>4, <1>9, <1>10 DEF CompleteInv

(* A search that ends owes nothing.                                          *)
LEMMA SearchEndPaid ==
    ASSUME IInv, CompleteInv, NEW s \in Searchers, SearchEnd(s)
    PROVE  CompleteInv'
  <1>1. /\ searchPc' = [searchPc EXCEPT ![s] = "idle"]
        /\ query' = [query EXCEPT ![s] = {}] /\ found' = [found EXCEPT ![s] = {}]
        /\ seen' = [seen EXCEPT ![s] = {}]
        /\ UNCHANGED <<parts, big, crashes, todo>>
    BY DEF SearchEnd, disk, ghosts
  <1>2. ~Reads(s)'
    BY <1>1, SearchTypes DEF Reads
  <1>3. ASSUME NEW t \in Searchers, t # s, Reads(t)', crashes = 0
        PROVE  /\ seen'[t] \subseteq Owed(t)'
               /\ seen'[t] \subseteq MatchingRows(query'[t], Rows)
    <2>1. /\ query'[t] = query[t] /\ found'[t] = found[t] /\ seen'[t] = seen[t]
          /\ searchPc'[t] = searchPc[t]
      BY <1>1, <1>3, SearchTypes
    <2> QED
      BY <1>1, <1>3, <2>1 DEF CompleteInv, Owed, BigRows, Reads
  <1> QED
    BY <1>1, <1>2, <1>3 DEF CompleteInv

(* The completeness invariant is kept by every step.                         *)
LEMMA CompleteInvNext ==
    ASSUME Reliable, IInv, IndexInv, BigInv, CompleteInv, SnapshotInv, [Next]_vars
    PROVE  CompleteInv'
  <1>1. ASSUME UNCHANGED <<search, parts, big, crashes>>
        PROVE  CompleteInv'
    <2>1. KeepsParts
      BY <1>1 DEF KeepsParts, BigRows
    <2> QED
      BY <1>1, <2>1, OwedStays
  <1>2. CASE FlushStep
    <2>1. UNCHANGED <<search, crashes>>
      BY <1>2, NoErrorPaths DEF FlushStep, FlushPublish, FlushManifest,
         FlushIndex, ghosts
    <2> QED
      BY <1>2, <2>1, FlushKeepsParts, OwedStays
  <1>3. ASSUME NEW m \in Mergers, MergeSelect(m) \/ MergeStep(m)
        PROVE  CompleteInv'
    <2>1. UNCHANGED <<search, crashes>>
      BY <1>3, NoErrorPaths DEF MergeSelect, MergeStep, MergeAlloc, MergeRead,
         MergeWrite, MergePublish, MergeSwap, MergeIndex, MergeClean, ghosts
    <2> QED
      BY <1>3, <2>1, MergeKeepsParts, OwedStays
  <1>4. ASSUME NEW s \in Searchers,
               \/ \E eq \in Queries : SearchBegin(s, eq)
               \/ SearchRead(s) \/ SearchEnd(s)
        PROVE  CompleteInv'
    BY <1>4, SearchBeginOwes, SearchReadPays, SearchEndPaid
  <1>5. CASE Crash
    <2>1. crashes' # 0
      BY <1>5 DEF Crash, IInv, TypeInv, TypeOK, GhostTypeOK
    <2> QED
      BY <2>1 DEF CompleteInv
  <1>6. CASE Open
    <2>1. mode = "down" /\ UNCHANGED threads
      BY <1>6 DEF Open, OpenCleanup
    <2>2. \A s \in Searchers : ~Reads(s)'
      BY <2>1 DEF SnapshotInv, Snapshot, threads, search, Reads
    <2> QED
      BY <2>2 DEF CompleteInv
  <1>7. CASE (\E B \in SUBSET Rows : Append(B)) \/ (\E r \in Rows : Apply(r))
                \/ FlushCall \/ UNCHANGED vars
    BY <1>1, <1>7 DEF Append, Apply, FlushCall, vars, memory, threads, disk, ghosts
  <1> QED
    BY <1>2, <1>3, <1>4, <1>5, <1>6, <1>7, NoErrorPaths
    DEF Next, FlushFault, MergeFault

(* Hence the completeness invariant always holds.                            *)
LEMMA CompleteInvCorrect == Reliable => (Spec => []CompleteInv)
  <1>1. Reliable /\ IInv /\ BigInv /\ [Next]_vars => BigInv'
    BY BigInvNext
  <1>2. Reliable /\ IInv /\ IndexInv /\ BigInv /\ CompleteInv /\ SnapshotInv
            /\ [Next]_vars => CompleteInv'
    BY CompleteInvNext
  <1>3. Init => BigInv /\ CompleteInv
    BY DEF Init, BigInv, Inside, CompleteInv, Reads
  <1>4. CASE Reliable
    <2>1. Spec => []IInv /\ []IndexInv /\ []SnapshotInv
      BY <1>4, IInvCorrect, IndexInvCorrect, SnapshotInvCorrect
    <2>2. IInv /\ BigInv /\ [Next]_vars => BigInv'
      BY <1>1, <1>4
    <2>3. IInv /\ IndexInv /\ BigInv /\ CompleteInv /\ SnapshotInv
              /\ [Next]_vars => CompleteInv'
      BY <1>2, <1>4
    <2>4. Spec => []CompleteInv
      BY <1>3, <2>1, <2>2, <2>3, PTL DEF Spec
    <2> QED
      BY <2>4
  <1> QED
    BY <1>4

(* Until the first crash a search that has ended misses no row of its        *)
(* snapshot but those a merge has meanwhile moved to a big part: index and   *)
(* by_tag pruning, the buffers and flushes lose it none.                     *)
THEOREM MissedRowsWereMerged ==
    Reliable => (Spec => [](crashes = 0 => SearchMissesOnlyMerged))
  <1>1. CompleteInv => (crashes = 0 => SearchMissesOnlyMerged)
    <2> SUFFICES ASSUME CompleteInv, crashes = 0, NEW s \in Searchers,
                        searchPc[s] = "reading", todo[s] = {}
                 PROVE  seen[s] \ found[s] \subseteq BigRows
      BY DEF SearchMissesOnlyMerged, BigRows
    <2> QED
      BY DEF CompleteInv, Owed, Reads
  <1>2. CASE Reliable
    <2>1. Spec => []CompleteInv
      BY <1>2, CompleteInvCorrect
    <2> QED
      BY <1>1, <2>1, PTL
  <1> QED
    BY <1>2
=============================================================================
