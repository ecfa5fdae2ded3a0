----------------------- MODULE DayPartitionRefinement -----------------------
(* DayPartition implements LogStore, for every value of the constants that   *)
(* rules out failing file operations, drops and racing mergers (Reliable):   *)
(* under the mapping Promise every step is an Append, a Persist or a Crash   *)
(* of the abstract store, or changes nothing a client could tell.            *)
EXTENDS DayPartitionProofs

(* Rows become durable in one step: the rename of the first part of a day    *)
(* without manifest.json, the new manifest.json of every later one.          *)
Stutter == UNCHANGED Promise!vars

(* A step that moves no row is a stutter of the promise.                     *)
LEMMA StutterIfSameFiles ==
    ASSUME UNCHANGED <<buffers, parts, manifestFile>>
    PROVE  Stutter
  BY DEF Stutter, Promise!vars, Durable, Recoverable, Dirs

(* The union over the same ids of the same directories.                      *)
LEMMA DurableFrame ==
    ASSUME Recoverable' = Recoverable,
           \A p \in Recoverable : parts'[p] = parts[p]
    PROVE  Durable' = Durable
  BY DEF Durable

(* While a part is listed, manifest.json lists the same parts.               *)
LEMMA ListedIsRecoverable ==
    ASSUME IInv, mode = "up", manifest # {}
    PROVE  manifestFile # NoFile /\ manifestFile = manifest
           /\ Recoverable = manifest
  BY DEF IInv, ListInv, ListAgrees, Recoverable

(* A thread inside a locked region runs while the storage is up.             *)
LEMMA InsideIsUp ==
    ASSUME IInv, flush # "idle" \/ \E m \in Mergers : mergePc[m] # "idle"
    PROVE  mode = "up"
  BY DEF IInv, TypeInv, TypeOK, MemoryTypeOK, LockInv

(* A day without manifest.json has no directory but the one being flushed.   *)
LEMMA NoManifestNoParts ==
    ASSUME IInv, mode = "up", manifestFile = NoFile, flush # "published"
    PROVE  Dirs = {} /\ Recoverable = {} /\ manifest = {} /\ Durable = {}
  <1>1. Dirs = {} /\ manifest = {}
    BY DEF IInv, ListInv, ListAgrees, FreshDir
  <1> QED
    BY <1>1 DEF Recoverable, Durable

-----------------------------------------------------------------------------
(* One lemma for each kind of step.                                          *)

(* A row applied to its block is appended to the tip.                        *)
LEMMA ApplyAppends ==
    ASSUME IInv, NEW r \in Rows, Apply(r)
    PROVE  Promise!Append(r)
  <1>1. r \in pending /\ buffers' = buffers \cup {r} /\ UNCHANGED <<parts, manifestFile>>
    BY DEF Apply, disk
  <1>2. r \notin buffers /\ \A p \in Ids : r \notin parts[p]
    BY <1>1 DEF IInv, RowInv
  <1>3. Recoverable \subseteq Ids
    BY DiskSets DEF IInv, TypeInv, TypeOK
  <1>4. r \notin Durable
    BY <1>2, <1>3 DEF Durable
  <1>5. Durable' = Durable
    BY <1>1 DEF Durable, Recoverable, Dirs
  <1> QED
    BY <1>1, <1>2, <1>4, <1>5 DEF Promise!Append

(* Publishing a part persists the tip only if no manifest.json hides it.     *)
LEMMA PublishPersistsOrStutters ==
    ASSUME IInv, FlushPublish
    PROVE  Promise!Persist \/ Stutter
  <1>1. /\ flush = "start" /\ NextId \in Ids /\ parts[NextId] = {}
        /\ parts' = [parts EXCEPT ![NextId] = buffers]
        /\ UNCHANGED <<buffers, manifestFile>>
    BY DEF FlushPublish
  <1>2. mode = "up" /\ buffers # {} /\ parts \in [Ids -> SUBSET Rows]
    BY <1>1, InsideIsUp DEF IInv, FlushInv, TypeInv, TypeOK, DiskTypeOK
  <1>3. CASE manifestFile = NoFile
    <2>1. Durable = {} /\ Dirs = {}
      BY <1>1, <1>2, <1>3, NoManifestNoParts
    <2>2. Dirs' = {NextId} /\ parts'[NextId] = buffers
      BY <1>1, <1>2, <2>1 DEF Dirs
    <2>3. Durable' = buffers
      BY <1>1, <1>3, <2>2 DEF Durable, Recoverable
    <2> QED
      BY <1>1, <1>2, <2>1, <2>3 DEF Promise!Persist
  <1>4. CASE manifestFile # NoFile
    <2>1. NextId \notin Recoverable
      BY <1>1, ListedOnDisk DEF Dirs
    <2>2. Recoverable' = Recoverable
      BY <1>1, <1>4 DEF Recoverable
    <2>3. \A p \in Recoverable : parts'[p] = parts[p]
      BY <1>1, <1>2, <2>1, ListedOnDisk DEF Dirs
    <2>4. Durable' = Durable
      BY <2>2, <2>3, DurableFrame
    <2> QED
      BY <1>1, <2>4 DEF Stutter, Promise!vars
  <1> QED
    BY <1>3, <1>4

(* Listing the part persists the tip, unless publishing it has done so.      *)
LEMMA ListingPersistsOrStutters ==
    ASSUME IInv, FlushManifest
    PROVE  Promise!Persist \/ Stutter
  <1>1. /\ flush = "published" /\ partSeq \notin manifest
        /\ manifestFile' = manifest \cup {partSeq}
        /\ UNCHANGED <<buffers, parts>>
    BY DEF FlushManifest
  <1>2. /\ mode = "up" /\ buffers # {} /\ parts[partSeq] = buffers
        /\ partSeq \in Ids /\ manifest \subseteq Ids
    BY <1>1, InsideIsUp DEF IInv, FlushInv, LockInv, TypeInv, TypeOK, MemoryTypeOK
  <1>3. Recoverable' = manifest \cup {partSeq}
    BY <1>1, <1>2 DEF Recoverable, NoFile, Ids
  <1> DEFINE Listed == UNION {parts[p] : p \in manifest}
  <1>4. Durable' = Listed \cup buffers
    <2>1. Durable' = UNION {parts[p] : p \in manifest \cup {partSeq}}
      BY <1>1, <1>3 DEF Durable
    <2>2. UNION {parts[p] : p \in manifest \cup {partSeq}}
             = Listed \cup parts[partSeq]
      OBVIOUS
    <2> QED
      BY <1>2, <2>1, <2>2
  <1>5. CASE manifestFile = NoFile
    <2>1. manifest = {}
      BY <1>2, <1>5 DEF IInv, ListInv, ListAgrees
    <2>2. Recoverable = {partSeq}
      <3>1. \A p \in Dirs : p = partSeq
        BY <1>1, <1>2, <1>5 DEF IInv, ListInv, FreshDir
      <3>2. partSeq \in Dirs
        BY <1>2 DEF Dirs
      <3> QED
        BY <1>5, <3>1, <3>2 DEF Recoverable
    <2>3. Listed = {}
      BY <2>1
    <2>4. Durable = buffers
      BY <1>2, <2>2 DEF Durable
    <2> HIDE DEF Listed
    <2>5. Durable' = buffers
      BY <1>4, <2>3
    <2> QED
      BY <1>1, <2>4, <2>5 DEF Stutter, Promise!vars
  <1>6. CASE manifestFile # NoFile
    <2>1. Recoverable = manifest
      BY <1>2, <1>6 DEF IInv, ListInv, ListAgrees, Recoverable
    <2>2. Durable' = Durable \cup buffers
      <3>1. Durable = Listed
        BY <2>1 DEF Durable
      <3> HIDE DEF Listed
      <3> QED
        BY <1>4, <3>1
    <2>3. \A p \in Recoverable : parts[p] \cap buffers = {}
      BY <1>1, <2>1 DEF IInv, RowInv
    <2>4. Durable \cap buffers = {}
      BY <2>3 DEF Durable
    <2> QED
      BY <1>1, <1>2, <2>2, <2>4 DEF Promise!Persist
  <1> QED
    BY <1>5, <1>6

(* Dropping the buffers at the end of a flush takes nothing from the tip.    *)
LEMMA FlushEndStutters ==
    ASSUME IInv, FlushIndex
    PROVE  Stutter
  <1>1. flush = "listed" /\ buffers' = {} /\ UNCHANGED <<parts, manifestFile>>
    BY DEF FlushIndex
  <1>2. mode = "up" /\ parts[partSeq] = buffers /\ partSeq \in manifest
    BY <1>1, InsideIsUp DEF IInv, FlushInv
  <1>3. buffers \subseteq Durable
    BY <1>2, ListedIsRecoverable DEF Durable
  <1>4. Durable' = Durable
    BY <1>1 DEF Durable, Recoverable, Dirs
  <1> QED
    BY <1>1, <1>3, <1>4 DEF Stutter, Promise!vars

(* The rename of a merged part shows nothing while its id is not listed.     *)
LEMMA MergePublishStutters ==
    ASSUME IInv, NEW m \in Mergers, MergePublish(m)
    PROVE  Stutter
  <1>1. /\ mergePc[m] = "written" /\ parts[out[m]] = {} /\ mode = "up"
        /\ parts' = [parts EXCEPT ![out[m]] = merging[out[m]]]
        /\ UNCHANGED <<buffers, manifestFile>>
    BY DEF MergePublish, CanPublishMerge, LockFree, memory
  <1>2. inputs[m] # {} /\ inputs[m] \subseteq manifest
    BY <1>1 DEF IInv, MergeInv, MergeOwns
  <1>3. Recoverable = manifest /\ manifestFile # NoFile
    BY <1>1, <1>2, ListedIsRecoverable
  <1>4. out[m] \notin manifest /\ manifest \subseteq Ids
    BY <1>1, ListedOnDisk DEF Dirs
  <1>5. \A p \in manifest : parts'[p] = parts[p]
    BY <1>1, <1>4 DEF IInv, TypeInv, TypeOK, DiskTypeOK
  <1>6. Durable' = Durable
    BY <1>1, <1>3, <1>5, DurableFrame DEF Recoverable
  <1> QED
    BY <1>1, <1>6 DEF Stutter, Promise!vars

(* The merged part takes the place of its inputs: the same rows.             *)
LEMMA MergeSwapStutters ==
    ASSUME IInv, NEW m \in Mergers, MergeSwap(m)
    PROVE  Stutter
  <1>1. /\ mergePc[m] = "renamed"
        /\ manifestFile' = (manifest \ inputs[m]) \cup {out[m]}
        /\ UNCHANGED <<buffers, parts>>
    BY DEF MergeSwap
  <1>2. /\ inputs[m] # {} /\ inputs[m] \subseteq manifest
        /\ parts[out[m]] = InputRows(m) /\ out[m] \in Ids /\ mode = "up"
        /\ manifest \subseteq Ids
    BY <1>1, InsideIsUp DEF IInv, MergeInv, MergeOwns, TypeInv, LockInv,
       Allocated, TypeOK, MemoryTypeOK
  <1>3. Recoverable = manifest
    BY <1>2, ListedIsRecoverable
  <1>4. Recoverable' = (manifest \ inputs[m]) \cup {out[m]}
    BY <1>1, <1>2 DEF Recoverable, NoFile, Ids
  <1>5. Durable' = Durable
    BY <1>1, <1>2, <1>3, <1>4 DEF Durable, InputRows
  <1> QED
    BY <1>1, <1>5 DEF Stutter, Promise!vars

(* The inputs a merge removes are no longer listed.                          *)
LEMMA MergeCleanStutters ==
    ASSUME IInv, NEW m \in Mergers, MergeClean(m)
    PROVE  Stutter
  <1> DEFINE p == MinOf(inputs[m])
  <1>1. /\ mergePc[m] = "cleaning" /\ parts' = [parts EXCEPT ![p] = {}]
        /\ UNCHANGED <<buffers, manifestFile>>
    BY DEF MergeClean, RemoveDir, memory
  <1>2. /\ inputs[m] # {} /\ inputs[m] \cap manifest = {} /\ mode = "up"
        /\ flush = "idle" /\ inputs[m] \subseteq Ids
    BY <1>1, InsideIsUp DEF IInv, MergeInv, MergeOwns, TypeInv, LockInv,
       Inside, TypeOK, ThreadsTypeOK
  <1>3. p \in inputs[m]
    BY <1>2, MinOfMember
  <1> HIDE DEF p
  <1>4. parts \in [Ids -> SUBSET Rows] /\ Recoverable \subseteq Ids
    BY DiskSets DEF IInv, TypeInv, TypeOK, DiskTypeOK
  <1>5. CASE manifestFile = NoFile
    <2>1. Dirs = {}
      BY <1>2, <1>5, NoManifestNoParts
    <2>2. parts' = parts
      BY <1>1, <1>2, <1>3, <1>4, <2>1 DEF Dirs
    <2> QED
      BY <1>1, <2>2, StutterIfSameFiles
  <1>6. CASE manifestFile # NoFile
    <2>1. Recoverable = manifest /\ Recoverable' = Recoverable
      BY <1>1, <1>2, <1>6 DEF IInv, ListInv, ListAgrees, Recoverable
    <2>2. \A q \in Recoverable : parts'[q] = parts[q]
      BY <1>1, <1>2, <1>3, <1>4, <2>1
    <2>3. Durable' = Durable
      BY <2>1, <2>2, DurableFrame
    <2> QED
      BY <1>1, <2>3 DEF Stutter, Promise!vars
  <1> QED
    BY <1>5, <1>6

(* A crash loses the tip and nothing else.                                   *)
LEMMA CrashCrashes ==
    ASSUME Crash
    PROVE  Promise!Crash
  BY DEF Crash, disk, Promise!Crash, Durable, Recoverable, Dirs

(* Open removes only what no restart would list.                             *)
LEMMA OpenStutters ==
    ASSUME IInv, Open
    PROVE  Stutter
  <1>1. /\ parts' = [p \in Ids |-> IF p \in Recoverable THEN parts[p] ELSE {}]
        /\ manifestFile' = IF dayDir THEN Recoverable ELSE NoFile
        /\ UNCHANGED buffers
    BY DEF Open, OpenCleanup
  <1>2. Recoverable \subseteq Dirs /\ Recoverable \subseteq Ids
    BY ListedOnDisk DEF Dirs
  <1>3. Dirs' = Recoverable
    BY <1>1, <1>2 DEF Dirs
  <1>4. Recoverable' = Recoverable
    BY <1>1, <1>3 DEF Recoverable
  <1>5. Durable' = Durable
    BY <1>1, <1>2, <1>4, DurableFrame
  <1> QED
    BY <1>1, <1>5 DEF Stutter, Promise!vars

-----------------------------------------------------------------------------
(* The empty store is an initial state of the promise.                       *)
LEMMA InitImplements == Init => Promise!Init
  BY DEF Init, Promise!Init, Durable, Recoverable, Dirs

(* The step simulation.                                                      *)
LEMMA NextImplements ==
    ASSUME Reliable, IInv, [Next]_vars
    PROVE  [Promise!Next]_(Promise!vars)
  <1> USE DEF Stutter
  <1>1. ASSUME NEW r \in Rows, Apply(r)
        PROVE  Promise!Next
    BY <1>1, ApplyAppends DEF Promise!Next
  <1>2. CASE FlushPublish
    BY <1>2, PublishPersistsOrStutters DEF Promise!Next
  <1>3. CASE FlushManifest
    BY <1>3, ListingPersistsOrStutters DEF Promise!Next
  <1>4. CASE FlushIndex
    BY <1>4, FlushEndStutters
  <1>5. ASSUME NEW m \in Mergers,
               MergePublish(m) \/ MergeSwap(m) \/ MergeClean(m)
        PROVE  Stutter
    BY <1>5, MergePublishStutters, MergeSwapStutters, MergeCleanStutters
  <1>6. CASE Crash
    BY <1>6, CrashCrashes DEF Promise!Next
  <1>7. CASE Open
    BY <1>7, OpenStutters
  <1>8. ASSUME NEW m \in Mergers,
               \/ MergeSelect(m) \/ MergeAlloc(m) \/ MergeRead(m)
               \/ MergeWrite(m) \/ MergeIndex(m)
        PROVE  Stutter
    <2>1. UNCHANGED <<buffers, parts, manifestFile>>
      BY <1>8 DEF MergeSelect, MergeAlloc, MergeRead, MergeWrite, MergeIndex,
         memory, disk
    <2> QED
      BY <2>1, StutterIfSameFiles
  <1>9. ASSUME NEW s \in Searchers,
               \/ \E eq \in Queries : SearchBegin(s, eq)
               \/ SearchRead(s) \/ SearchEnd(s)
        PROVE  Stutter
    <2>1. UNCHANGED <<buffers, parts, manifestFile>>
      BY <1>9 DEF SearchBegin, SearchRead, SearchEnd, memory, disk
    <2> QED
      BY <2>1, StutterIfSameFiles
  <1>10. CASE (\E B \in SUBSET Rows : Append(B)) \/ FlushCall \/ UNCHANGED vars
    <2>1. UNCHANGED <<buffers, parts, manifestFile>>
      BY <1>10 DEF Append, FlushCall, vars, memory, disk
    <2> QED
      BY <2>1, StutterIfSameFiles
  <1> QED
    BY NoErrorPaths, <1>1, <1>2, <1>3, <1>4, <1>5, <1>6, <1>7, <1>8, <1>9,
       <1>10 DEF Next, FlushStep, MergeStep, FlushFault, MergeFault

(* With no failing operation, no drop and one merger, a day partition is a   *)
(* LogStore to its clients: appended rows become durable all at once, a      *)
(* crash at any point loses the buffered rows only, flushes, merges and      *)
(* restarts lose, duplicate and resurrect nothing.                           *)
THEOREM PartitionImplementsLogStore == Reliable => (Spec => ImplementsLogStore)
  <1>1. Reliable /\ IInv /\ [Next]_vars => [Promise!Next]_(Promise!vars)
    BY NextImplements
  <1>2. CASE Reliable
    <2>1. Spec => []IInv
      BY <1>2, IInvCorrect
    <2>2. IInv /\ [Next]_vars => [Promise!Next]_(Promise!vars)
      BY <1>1, <1>2
    <2>3. Spec => Promise!Spec
      BY <2>1, <2>2, InitImplements, PTL DEF Spec, Promise!Spec
    <2> QED
      BY <2>3 DEF ImplementsLogStore
  <1> QED
    BY <1>2
=============================================================================
