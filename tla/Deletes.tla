------------------------------ MODULE Deletes ------------------------------
(* Storage.Delete (delete.go): a delete purges the matching buffered rows    *)
(* and adds a tombstone, a predicate over time, stream and message, to       *)
(* deletes.json of every day it may concern; Search hides what a tombstone   *)
(* of the row's day matches.  Composed with what moves rows past tombstones: *)
(* Append and Flush, with or without the write-ahead log, retention's drops  *)
(* of a day (whole, failing half-way, again and again, or interrupted by a   *)
(* crash), merges in flight over a drop, crashes and Open.                   *)
(*                                                                           *)
(* DayPartition details the publication of a part, WalBuffer the log; here   *)
(* Append, the flush of one day and the reads of a merge are one step each,  *)
(* and part directories are the rows in them.  Delete holds Storage.mu       *)
(* throughout: only a crash comes between its files.                         *)
EXTENDS Naturals, FiniteSets, Sequences

CONSTANTS Rows,
          TimeOf,       \* UnixNano of each row, 0 the epoch
          Preds,        \* combinations of StreamEq and Contains
          Satisfying,   \* the rows that satisfy each of them
          NoPred,       \* neither StreamEq nor Contains
          Specs,        \* the DeleteSpecs clients send
          DayLen,       \* nanoseconds of a day
          Days,         \* calendar days, as day numbers since the epoch
          WALModes,     \* values Options.EnableWAL may have
          MaxDeletes, MaxRestarts, MaxFaults, MaxDrops,     \* bounds
          MaxMerges                    \* bound: merges in flight at a time

(* A bound of a spec is {} for the zero time.Time, or {t}.                   *)
Bounds(s) == s.start \cup s.end

ASSUME DeletesAssumption ==
    /\ TimeOf \in [Rows -> Nat] /\ DayLen \in Nat \ {0}
    /\ Satisfying \in [Preds -> SUBSET Rows] /\ NoPred \notin Preds
    /\ \A s \in Specs : /\ DOMAIN s = {"start", "end", "rest"}
                        /\ \A t, u \in s.start : t = u
                        /\ \A t, u \in s.end : t = u
                        /\ Bounds(s) \subseteq Nat
                        /\ s.rest \in Preds \cup {NoPred}
    /\ Days \subseteq Nat
    /\ \A r \in Rows : TimeOf[r] \div DayLen \in Days
    /\ \A s \in Specs : \A t \in Bounds(s) : t \div DayLen \in Days
    /\ WALModes \subseteq BOOLEAN
    /\ MaxRestarts \in Nat

VARIABLES
  (* Storage: lost when the process ends. *)
    mode,        \* "up" or "down"
    buffers,     \* buffered records <<row, seq>>
    parts,       \* rows in the listed parts of each day
    deletes,     \* tombstones of each day
    deleteSeq,
    nextSeq,     \* wal.nextSeq
    merges,      \* merges in flight: their day, the rows they have read, and
                 \*   whether the day was dropped since (late)
    call,        \* the running Delete, or NoCall: its spec (as a singleton),
                 \*   the days to do, and the rows it will have deleted
  (* On disk. *)
    enableWAL,   \* Options.EnableWAL, the same at every start
    dayDir,      \* days with a directory under partitions/
    leftover,    \* rows of part directories the next Open would list though
                 \*   no list in memory does: manifest.json names them, or
                 \*   it is gone
    orphans,     \* rows of part directories manifest.json does not name
    tombFile,    \* deletes.json of each day, << >> also when there is none
    log,         \* records of wal.log
    checkpoint,
  (* Observers. *)
    acked,       \* rows appended
    issued,      \* specs passed to Delete
    deleted,     \* stored rows matched by a Delete that returned nil
    loose,       \* deleted rows, and others, that have outlived the tombstones
                 \*   of their day, or never got one
    gone,        \* rows lost to a crash or a merge, or dropped with their day
    restarts, faults, drops

memory == <<mode, buffers, parts, deletes, deleteSeq, nextSeq, merges>>
disk   == <<enableWAL, dayDir, leftover, orphans, tombFile, log, checkpoint>>
ghosts == <<acked, issued, deleted, loose, gone, restarts, faults, drops>>
vars   == <<memory, call, disk, ghosts>>

NoCall == [spec |-> {}, todo |-> {}, victims |-> {}]

RowsIn(S)   == {e[1] : e \in S}
Seqs(S)     == {e[2] : e \in S}
DayOf(r)    == TimeOf[r] \div DayLen
OfDay(d, S) == {e \in S : DayOf(e[1]) = d}
Lowest(S)   == CHOOSE n \in S : \A m \in S : n <= m
Highest(S)  == CHOOSE n \in S : \A m \in S : m <= n
Kept        == {e \in log : e[2] > checkpoint}

Fault == faults < MaxFaults /\ faults' = faults + 1

(* A deleteRecord.  0 stands for "unbounded", and is what a bound at the     *)
(* epoch becomes as well.                                                    *)
AsNS(bound) == IF bound = {} THEN 0 ELSE CHOOSE t \in bound : TRUE
Record(n, s) ==
    [id |-> n, start |-> AsNS(s.start), end |-> AsNS(s.end), rest |-> s.rest]

(* Mutant of HidesEntry: the upper bound is forgotten.                       *)
HidesEntryNoEnd(rec, r) ==
    /\ rec.start # 0 => TimeOf[r] >= rec.start
    /\ rec.rest # NoPred => r \in Satisfying[rec.rest]

HidesEntry(rec, r) ==
    /\ rec.start # 0 => TimeOf[r] >= rec.start
    /\ rec.end # 0 => TimeOf[r] <= rec.end
    /\ rec.rest # NoPred => r \in Satisfying[rec.rest]

(* entryHiddenByDeletes with the tombstones of the row's own day.            *)
Hidden(r) == \E i \in DOMAIN deletes[DayOf(r)] :
                 HidesEntry(deletes[DayOf(r)][i], r)

(* Mutant of OverlapsWindow: a window that starts at the last instant of a   *)
(* day misses the day.                                                       *)
OverlapsWindowShort(d, s) ==
    /\ \A t \in s.end : d * DayLen <= t
    /\ \A t \in s.start : d * DayLen + DayLen - 1 > t

(* partitionOverlapsQuery.                                                   *)
OverlapsWindow(d, s) ==
    /\ \A t \in s.end : d * DayLen <= t
    /\ \A t \in s.start : d * DayLen + DayLen - 1 >= t

(* daysForDeleteLocked: manifests and deletes name only days with a          *)
(* directory; the days of the bounds are taken only when there is no other.  *)
DaysForDelete(s) ==
    LET known == {d \in dayDir : OverlapsWindow(d, s)} IN
    IF known # {} THEN known
    ELSE {d \in {t \div DayLen : t \in Bounds(s)} : OverlapsWindow(d, s)}

TypeOK ==
    /\ mode \in {"up", "down"} /\ enableWAL \in BOOLEAN
    /\ buffers \cup log \subseteq Rows \X Nat
    /\ nextSeq \in Nat \ {0} /\ checkpoint \in Nat
    /\ {parts, leftover, orphans} \subseteq [Days -> SUBSET Rows]
    /\ merges \subseteq [day : Days, rows : SUBSET Rows, late : BOOLEAN]
    /\ deleteSeq \in [Days -> Nat] /\ dayDir \subseteq Days
    /\ \A d \in Days : \A i \in DOMAIN deletes[d] :
           deletes[d][i].id \in 1..deleteSeq[d]
    /\ \A d \in Days : parts[d] # {} \/ tombFile[d] # << >> => d \in dayDir
    /\ call.todo \subseteq Days /\ call.victims \subseteq Rows
    /\ call # NoCall => mode = "up" /\ \E s \in Specs : call.spec = {s}
    /\ deleted \cup loose \cup gone \subseteq acked /\ acked \subseteq Rows
    /\ issued \subseteq Specs /\ restarts \in 0..MaxRestarts

Init ==
    /\ mode = "up" /\ enableWAL \in WALModes /\ call = NoCall
    /\ buffers = {} /\ log = {} /\ nextSeq = 1 /\ checkpoint = 0
    /\ parts = [d \in Days |-> {}] /\ leftover = parts /\ orphans = parts
    /\ merges = {}
    /\ deletes = [d \in Days |-> << >>] /\ tombFile = deletes
    /\ deleteSeq = [d \in Days |-> 0] /\ dayDir = {}
    /\ acked = {} /\ issued = {} /\ deleted = {} /\ loose = {} /\ gone = {}
    /\ restarts = 0 /\ faults = 0 /\ drops = 0

-----------------------------------------------------------------------------
Idle == mode = "up" /\ call = NoCall

(* Append of one row.  Without the log the sequence number is 0.             *)
Append1(r) ==
    /\ Idle /\ r \notin acked
    /\ acked' = acked \cup {r}
    /\ \/ /\ enableWAL
          /\ buffers' = buffers \cup {<<r, nextSeq>>}
          /\ log' = log \cup {<<r, nextSeq>>} /\ nextSeq' = nextSeq + 1
       \/ /\ ~enableWAL
          /\ buffers' = buffers \cup {<<r, 0>>} /\ UNCHANGED <<log, nextSeq>>
    /\ UNCHANGED <<mode, parts, deletes, deleteSeq, merges, call, enableWAL,
                   dayDir, leftover, orphans, tombFile, checkpoint, issued,
                   deleted, loose, gone, restarts, faults, drops>>

(* A new manifest.json names what memory lists and none of the leftovers,    *)
(* which makes them orphans for the next Open to delete.                     *)
NewManifest(d) ==
    /\ leftover' = [leftover EXCEPT ![d] = {}]
    /\ orphans' = [orphans EXCEPT ![d] = @ \cup leftover[d]]

(* flushPartitionLocked: the part, its manifest entry, the checkpoint, the   *)
(* compacted log.  A flush that finds its id taken by a left-over directory  *)
(* fails at the rename and changes nothing.                                  *)
FlushDay(d) ==
    LET stay == buffers \ OfDay(d, buffers)
        newCP == Lowest({nextSeq} \cup Seqs(stay)) - 1
    IN
    /\ Idle /\ OfDay(d, buffers) # {}
    /\ parts' = [parts EXCEPT ![d] = @ \cup RowsIn(OfDay(d, buffers))]
    /\ buffers' = stay
    /\ dayDir' = dayDir \cup {d}
    /\ NewManifest(d)
    /\ \/ /\ enableWAL
          /\ checkpoint' = IF newCP < checkpoint THEN checkpoint ELSE newCP
          /\ log' = {e \in log : e[2] > checkpoint'}
       \/ ~enableWAL /\ UNCHANGED <<checkpoint, log>>
    /\ UNCHANGED <<mode, deletes, deleteSeq, nextSeq, merges, call, enableWAL,
                   tombFile, ghosts>>

-----------------------------------------------------------------------------
(* Delete: reject the empty spec; purge; resolve the days.                   *)
EmptySpec(s) == Bounds(s) = {} /\ s.rest = NoPred

PurgeMatching(s) == {e \in buffers : HidesEntry(Record(0, s), e[1])}

(* What the client asked for: used by observers and properties only.         *)
Requested(s, r) == /\ \A t \in s.start : TimeOf[r] >= t
                   /\ \A t \in s.end : TimeOf[r] <= t
                   /\ s.rest # NoPred => r \in Satisfying[s.rest]

DeleteCall(s) ==
    /\ Idle /\ ~EmptySpec(s) /\ s \notin issued
    /\ Cardinality(issued) < MaxDeletes
    /\ issued' = issued \cup {s}
    /\ buffers' = buffers \ PurgeMatching(s)
    /\ call' = [spec |-> {s}, todo |-> DaysForDelete(s),
                victims |-> {r \in RowsIn(buffers)
                                       \cup UNION {parts[d] : d \in Days} :
                                 Requested(s, r)}]
    /\ loose' = IF enableWAL
                THEN loose \cup {r \in RowsIn(PurgeMatching(s)) :
                                     DayOf(r) \notin DaysForDelete(s)}
                ELSE loose
    /\ UNCHANGED <<mode, parts, deletes, deleteSeq, nextSeq, merges, disk, acked,
                   deleted, gone, restarts, faults, drops>>

(* One iteration of the loop over the sorted days: the file, then its copy.  *)
DeleteDay(d) ==
    LET spec == CHOOSE s \in call.spec : TRUE
        cur == Append(deletes[d], Record(deleteSeq[d] + 1, spec))
    IN
    /\ d \in call.todo /\ d = Lowest(call.todo)
    /\ deleteSeq' = [deleteSeq EXCEPT ![d] = @ + 1]
    /\ tombFile' = [tombFile EXCEPT ![d] = cur]
    /\ deletes' = [deletes EXCEPT ![d] = cur]
    /\ dayDir' = dayDir \cup {d}
    /\ call' = [call EXCEPT !.todo = @ \ {d}]
    /\ loose' = IF deletes[d] = tombFile[d] THEN loose
                ELSE loose \cup leftover[d] \cup orphans[d]
                           \cup RowsIn(OfDay(d, Kept))
    /\ UNCHANGED <<mode, buffers, parts, nextSeq, merges, enableWAL, leftover,
                   orphans, log, checkpoint, acked, issued, deleted, gone,
                   restarts, faults, drops>>

(* Mutant of DeleteDayFails: the copy for Search is set before the file.     *)
DeleteDayFailsEarly(d) ==
    /\ d \in call.todo /\ d = Lowest(call.todo) /\ Fault
    /\ deleteSeq' = [deleteSeq EXCEPT ![d] = @ + 1]
    /\ deletes' = [deletes EXCEPT ![d] = 
                     Append(@, Record(deleteSeq'[d], CHOOSE s \in call.spec : TRUE))]
    /\ dayDir' \in {dayDir, dayDir \cup {d}}
    /\ call' = NoCall
    /\ UNCHANGED <<mode, buffers, parts, nextSeq, merges, enableWAL, leftover,
                   orphans, tombFile, log, checkpoint, acked, issued, deleted,
                   loose, gone, restarts, drops>>

(* The file cannot be written or renamed: the call ends, the id is used up,  *)
(* the days before keep their tombstones and the purged rows stay purged.    *)
DeleteDayFails(d) ==
    /\ d \in call.todo /\ d = Lowest(call.todo) /\ Fault
    /\ deleteSeq' = [deleteSeq EXCEPT ![d] = @ + 1]
    /\ dayDir' \in {dayDir, dayDir \cup {d}}
    /\ call' = NoCall
    /\ UNCHANGED <<mode, buffers, parts, deletes, nextSeq, merges, enableWAL,
                   leftover, orphans, tombFile, log, checkpoint, acked, issued,
                   deleted, loose, gone, restarts, drops>>

DeleteReturns ==
    /\ call # NoCall /\ call.todo = {}
    /\ deleted' = deleted \cup call.victims
    /\ call' = NoCall
    /\ UNCHANGED <<memory, disk, acked, issued, loose, gone, restarts, faults,
                   drops>>

-----------------------------------------------------------------------------
(* mergeParts keeps the rows of its day: they move to one big part.  Only    *)
(* what it has read matters here, and only if the day is dropped before it   *)
(* ends.  The rows of some inputs: the rest may be read after the drop.      *)
MergeReads(d, S) ==
    /\ Idle /\ Cardinality(merges) < MaxMerges
    /\ S # {} /\ S \subseteq parts[d]
    /\ merges' = merges \cup {[day |-> d, rows |-> S, late |-> FALSE]}
    /\ UNCHANGED <<mode, buffers, parts, deletes, deleteSeq, nextSeq, call,
                   disk, ghosts>>

(* Unlocked, it makes the directory of a dropped day again.                  *)
MergeWrites(x) ==
    /\ mode = "up" /\ x.late
    /\ dayDir' = dayDir \cup {x.day}
    /\ UNCHANGED <<memory, call, enableWAL, leftover, orphans, tombFile, log,
                   checkpoint, ghosts>>

(* It is published, fails or finds its inputs no longer listed.              *)
MergeEnds(x) ==
    /\ mode = "up" /\ merges' = merges \ {x}
    /\ UNCHANGED <<mode, buffers, parts, deletes, deleteSeq, nextSeq, call,
                   disk, ghosts>>

(* The second life of the day lists the ids of the inputs again: what was    *)
(* read from the first takes the place of their rows.                        *)
MergeResurrects(x, lost) ==
    /\ Idle /\ x.late /\ parts[x.day] # {}
    /\ lost \subseteq parts[x.day]
    /\ parts' = [parts EXCEPT ![x.day] = (@ \ lost) \cup x.rows]
    /\ NewManifest(x.day)
    /\ merges' = merges \ {x}
    /\ gone' = gone \cup lost /\ loose' = loose \cup x.rows
    /\ UNCHANGED <<mode, buffers, deletes, deleteSeq, nextSeq, call, enableWAL,
                   dayDir, tombFile, log, checkpoint, acked, issued, deleted,
                   restarts, faults, drops>>

(* The rollback of a failed merge removes the directory of its output id,    *)
(* which a flush has taken meanwhile: in the second life of the day, or      *)
(* because the rollback had given it back already.                           *)
MergeRollsBack(x, lost) ==
    /\ mode = "up"
    /\ \/ x.late /\ UNCHANGED faults
       \/ Fault
    /\ lost \subseteq parts[x.day]
    /\ parts' = [parts EXCEPT ![x.day] = @ \ lost]
    /\ merges' = merges \ {x} /\ gone' = gone \cup lost
    /\ UNCHANGED <<mode, buffers, deletes, deleteSeq, nextSeq, call, disk, acked,
                   issued, deleted, loose, restarts, drops>>

-----------------------------------------------------------------------------
(* dropDayLocked forgets the day; with the log on, its records stay there,   *)
(* and merges in flight do not notice.                                       *)
Forget(d) ==
    /\ buffers' = buffers \ OfDay(d, buffers)
    /\ parts' = [parts EXCEPT ![d] = {}]
    /\ deletes' = [deletes EXCEPT ![d] = << >>]
    /\ deleteSeq' = [deleteSeq EXCEPT ![d] = 0]
    /\ merges' = {[x EXCEPT !.late = @ \/ x.day = d] : x \in merges}
    /\ gone' = gone \cup parts[d] \cup RowsIn(OfDay(d, buffers))

DropDay(d) ==
    /\ Idle /\ d \in dayDir /\ drops < MaxDrops /\ drops' = drops + 1
    /\ Forget(d)
    /\ dayDir' = dayDir \ {d}
    /\ leftover' = [leftover EXCEPT ![d] = {}]
    /\ orphans' = [orphans EXCEPT ![d] = {}]
    /\ tombFile' = [tombFile EXCEPT ![d] = << >>]
    /\ loose' = loose \cup RowsIn(OfDay(d, Kept))
    /\ UNCHANGED <<mode, nextSeq, call, enableWAL, log, checkpoint, acked, issued,
                   deleted, restarts, faults>>

(* RemoveAll(dayDir) stops with an error - a merge that writes there is      *)
(* enough - and any of its entries may be left: part directories,            *)
(* manifest.json, deletes.json.  The next retention run tries again.         *)
DropDayFails(d, left, orph) ==
    /\ Idle /\ d \in dayDir /\ drops < MaxDrops /\ drops' = drops + 1 /\ Fault
    /\ Forget(d)
    /\ \/ /\ leftover' = [leftover EXCEPT ![d] = left]
          /\ orphans' = [orphans EXCEPT ![d] = orph]
       \/ /\ leftover' = [leftover EXCEPT ![d] = left \cup orph]
          /\ orphans' = [orphans EXCEPT ![d] = {}]
    /\ \/ UNCHANGED <<tombFile, loose>>
       \/ /\ tombFile[d] # << >> /\ tombFile' = [tombFile EXCEPT ![d] = << >>]
          /\ loose' = loose \cup left \cup orph \cup RowsIn(OfDay(d, Kept))
    /\ UNCHANGED <<mode, nextSeq, call, enableWAL, dayDir, log, checkpoint, acked,
                   issued, deleted, restarts>>

Crash ==
    /\ mode = "up" /\ restarts < MaxRestarts /\ restarts' = restarts + 1
    /\ mode' = "down" /\ call' = NoCall /\ merges' = {}
    /\ buffers' = {} /\ parts' = [d \in Days |-> {}] /\ nextSeq' = 1
    /\ deletes' = [d \in Days |-> << >>] /\ deleteSeq' = [d \in Days |-> 0]
    /\ leftover' = [d \in Days |-> parts[d] \cup leftover[d]]
    /\ gone' = gone \cup (RowsIn(buffers) \ RowsIn(Kept))
    /\ UNCHANGED <<enableWAL, dayDir, orphans, tombFile, log, checkpoint, acked,
                   issued, deleted, loose, faults, drops>>

(* Mutant of LastId: the tombstones are counted.                             *)
LastIdCounts(d) == Len(tombFile[d])

(* An id used up by a failed attempt leaves a gap.                           *)
LastId(d) == Highest({0} \cup {tombFile[d][i].id : i \in DOMAIN tombFile[d]})

(* loadDeletesLocked and replayWAL.  The manifests, or the directories where *)
(* there is none, name the parts again; the orphans are removed, but nobody  *)
(* checks that they are.                                                     *)
Open ==
    /\ mode = "down" /\ mode' = "up"
    /\ parts' = leftover /\ leftover' = [d \in Days |-> {}]
    /\ \/ orphans' = [d \in Days |-> {}] /\ UNCHANGED faults
       \/ UNCHANGED orphans /\ Fault
    /\ deletes' = tombFile
    /\ deleteSeq' = [d \in Days |-> LastId(d)]
    /\ buffers' = Kept /\ nextSeq' = Highest({0} \cup Seqs(log)) + 1
    /\ UNCHANGED <<merges, call, enableWAL, dayDir, tombFile, log, checkpoint,
                   acked, issued, deleted, loose, gone, restarts, drops>>

-----------------------------------------------------------------------------
DeleteStep == \/ \E d \in Days : DeleteDay(d) \/ DeleteDayFails(d)
              \/ DeleteReturns

MergeStep == \/ \E d \in Days : \E S \in SUBSET parts[d] : MergeReads(d, S)
             \/ \E x \in merges :
                    \/ MergeWrites(x) \/ MergeEnds(x)
                    \/ \E lost \in SUBSET parts[x.day] :
                           MergeResurrects(x, lost) \/ MergeRollsBack(x, lost)

DropStep ==
    \E d \in Days : \/ DropDay(d)
                    \/ \E left \in SUBSET (parts[d] \cup leftover[d]),
                          orph \in SUBSET orphans[d] : DropDayFails(d, left, orph)

Next == \/ \E r \in Rows : Append1(r)
        \/ \E s \in Specs : DeleteCall(s)
        \/ DeleteStep \/ MergeStep \/ DropStep
        \/ \E d \in Days : FlushDay(d)
        \/ Crash \/ Open

Spec == Init /\ [][Next]_vars
-----------------------------------------------------------------------------
(* Properties.                                                               *)

Stored  == RowsIn(buffers) \cup UNION {parts[d] : d \in Days}
Visible == {r \in Stored : ~Hidden(r)}

(* "After Delete, matching rows are removed or become invisible to Search"   *)
(* (TOMBSTONE.md), and stay so through flushes, deletes that fail half-way,  *)
(* drops, crashes and Open.  Only rows that have outlived the tombstones of  *)
(* their day come back: replayed ones whose day had no directory to put a    *)
(* tombstone in or was dropped, those an incomplete drop left behind without *)
(* deletes.json, and those a merge has carried over a drop.                  *)
DeletedStaysHidden == Idle => deleted \cap Visible \subseteq loose

(* Nothing disappears unasked: every appended row that no crash and no merge *)
(* lost and no drop removed is visible, or matches a Delete that was called. *)
(* A bound at the epoch reads as no bound (delete.go:43) and may hide more.  *)
HiddenOnlyByRequest ==
    Idle => \A r \in acked \ (gone \cup Visible) :
                \E s \in issued : Requested(s, r) \/ 0 \in Bounds(s)

(* Search reads the tombstones in memory, a restart those of deletes.json:   *)
(* outside a call they agree for every day but those of a failed drop, and   *)
(* the ids of a day only ever grow.                                          *)
TombstonesMirrored ==
    Idle => \A d \in Days :
        /\ deletes[d] = tombFile[d] \/ (drops > 0 /\ deletes[d] = << >>)
        /\ \A i, j \in DOMAIN tombFile[d] :
               i < j => tombFile[d][i].id < tombFile[d][j].id
=============================================================================
