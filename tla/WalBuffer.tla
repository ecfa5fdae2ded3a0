----------------------------- MODULE WalBuffer -----------------------------
(* A Storage with Options.EnableWAL: the write-ahead log under wal/ (wal.go) *)
(* and the way Append, Flush, Close and Open of storage.go use it.  Several  *)
(* day partitions share the one log and its checkpoint.                      *)
(*                                                                           *)
(* What DayPartition details is one step here: Publish puts a day's buffered *)
(* rows into a listed part.  A record of the log is a pair <<row, seq>>.     *)
(* Append, Flush and their callees hold Storage.mu throughout; what is       *)
(* interleaved with their steps is a crash.  Close is Flush followed by the  *)
(* end of the process, which is Crash at an idle moment.                     *)
EXTENDS Naturals, FiniteSets

CONSTANTS Rows,             \* every row a client may append
          Blocks,           \* memBlocks: one stream of one day
          Days,
          BlockOf,          \* the block of each row
          DayOf,            \* the day of each block
          MaxRowsPerBlock,
          MaxBatch,         \* bound: rows of one Append call
          MaxRestarts,      \* bound: crashes and shutdowns
          MaxFaults         \* bound: failing file operations

ASSUME WalAssumption == /\ BlockOf \in [Rows -> Blocks]
                        /\ DayOf \in [Blocks -> Days]
                        /\ MaxRowsPerBlock \in Nat \ {0}
                        /\ MaxBatch \in Nat /\ MaxRestarts \in Nat
                        /\ MaxFaults \in Nat

VARIABLES
  (* Storage and wal: lost when the process ends. *)
    mode,        \* "up" or "down"
    pc,          \* where the call that holds Storage.mu stands
    buffers,     \* buffered records
    batch,       \* rows of the running Append call,
    unlogged,    \*   those without a record so far,
    unapplied,   \*   and the records not yet in a block
    flushDays,   \* days the running flush has not finished, one in progress:
    day,         \*   this one, from Publish to Compact
    nextSeq,     \* wal.nextSeq
    handle,      \* wal.f: "open", or "closed" by a failed compaction
  (* wal/ and partitions/. *)
    log,         \* the records a reader of wal.log reaches
    tail,        \* what follows them: "clean" nothing, "torn" part of a
                 \*   record, "garbled" that and more records behind it
    checkpoint,  \* the checkpoint file; wal.checkpoint always equals it
    published,   \* rows in listed parts
  (* Observers. *)
    sent,        \* rows passed to Append so far
    acked,       \* rows of Append calls that returned nil
    twice,       \* rows put into a part while another part had them
    exposed,     \* published rows left above the checkpoint: InWindow of a
                 \*   crash or a failing checkpoint, HeldBack at a crash
    unreplayable, \* rows whose record no replay would reach
    restarts, faults

memory == <<mode, buffers, batch, unlogged, unapplied, nextSeq, handle>>
disk   == <<log, tail, checkpoint, published>>
ghosts == <<sent, acked, twice, exposed, unreplayable, restarts, faults>>
vars   == <<memory, pc, flushDays, day, disk, ghosts>>

Records == Rows \X (Nat \ {0})

TypeOK ==
    /\ mode \in {"up", "down"} /\ handle \in {"open", "closed"}
    /\ pc \in {"idle", "logging", "applying", "publish", "checkpoint", "compact"}
    /\ buffers \subseteq Records /\ unapplied \subseteq Records
    /\ batch \subseteq Rows /\ unlogged \subseteq batch
    /\ flushDays \subseteq Days
    /\ pc \in {"checkpoint", "compact"} => day \in flushDays
    /\ nextSeq \in Nat \ {0} /\ checkpoint \in Nat
    /\ \A e \in buffers \cup unapplied \cup log : e[2] < nextSeq \/ mode = "down"
    /\ log \subseteq Records /\ tail \in {"clean", "torn", "garbled"}
    /\ published \cup twice \cup exposed \cup unreplayable \subseteq sent
    /\ sent \subseteq Rows
    /\ acked \subseteq sent
    /\ restarts \in 0..MaxRestarts /\ faults \in 0..MaxFaults

RowsIn(S) == {e[1] : e \in S}
Seqs(S)   == {e[2] : e \in S}
DayOfRow(r)  == DayOf[BlockOf[r]]
OfDay(d, S)  == {e \in S : DayOfRow(e[1]) = d}
Lowest(S)    == CHOOSE n \in S : \A m \in S : n <= m
Highest(S)   == CHOOSE n \in S : \A m \in S : m <= n

Fault == faults < MaxFaults /\ faults' = faults + 1

Init ==
    /\ mode = "down" /\ pc = "idle" /\ handle = "open"
    /\ buffers = {} /\ batch = {} /\ unlogged = {} /\ unapplied = {}
    /\ flushDays = {} /\ day \in Days
    /\ nextSeq = 1 /\ checkpoint = 0 /\ log = {} /\ tail = "clean"
    /\ published = {} /\ sent = {} /\ acked = {} /\ twice = {}
    /\ exposed = {} /\ unreplayable = {} /\ restarts = 0 /\ faults = 0

-----------------------------------------------------------------------------
(* Append: log the whole batch, sync, then apply it row by row.              *)

Append(B) ==
    /\ mode = "up" /\ pc = "idle"
    /\ B # {} /\ B \cap sent = {} /\ Cardinality(B) <= MaxBatch
    /\ batch' = B /\ unlogged' = B /\ sent' = sent \cup B
    /\ pc' = "logging"
    /\ UNCHANGED <<mode, buffers, unapplied, nextSeq, handle, flushDays, day,
                   disk, acked, twice, exposed, unreplayable, restarts, faults>>

(* A record behind a torn one is on disk, but no reader ever gets to it.     *)
LogRow(r) ==
    /\ pc = "logging" /\ r \in unlogged /\ handle = "open"
    /\ unlogged' = unlogged \ {r}
    /\ unapplied' = unapplied \cup {<<r, nextSeq>>}
    /\ nextSeq' = nextSeq + 1
    /\ \/ /\ tail = "clean"
          /\ log' = log \cup {<<r, nextSeq>>}
          /\ UNCHANGED <<tail, unreplayable>>
       \/ /\ tail # "clean"
          /\ tail' = "garbled"
          /\ unreplayable' = unreplayable \cup {r}
          /\ UNCHANGED log
    /\ UNCHANGED <<mode, pc, buffers, batch, handle, flushDays, day, checkpoint,
                   published, sent, acked, twice, exposed, restarts, faults>>

Sync ==
    /\ pc = "logging" /\ unlogged = {}
    /\ pc' = "applying"
    /\ UNCHANGED <<memory, flushDays, day, disk, ghosts>>

(* The call ends with an error: what it has not applied is forgotten.        *)
ReturnsError == /\ pc' = "idle"
                /\ batch' = {} /\ unlogged' = {} /\ unapplied' = {}
                /\ flushDays' = {}

(* An interrupted write leaves any part of the record.                       *)
Torn == IF tail = "clean" THEN "torn" ELSE "garbled"

(* A write fails - on a closed handle always - or the sync does.             *)
LogFails ==
    /\ pc = "logging"
    /\ ReturnsError
    /\ \/ /\ unlogged # {} /\ handle = "open" /\ Fault
          /\ nextSeq' = nextSeq + 1
          /\ tail' \in {tail, Torn}
       \/ /\ unlogged # {} /\ handle = "closed"
          /\ nextSeq' = nextSeq + 1
          /\ UNCHANGED <<tail, faults>>
       \/ /\ unlogged = {} /\ Fault
          /\ UNCHANGED <<nextSeq, tail>>
    /\ UNCHANGED <<mode, buffers, handle, day, log, checkpoint, published, sent,
                   acked, twice, exposed, unreplayable, restarts>>

BlockFull(b, S) ==
    Cardinality({e \in S : BlockOf[e[1]] = b}) >= MaxRowsPerBlock

(* The next entry goes into its block; a full block is flushed on the spot.  *)
Apply(r, seq) ==
    /\ pc = "applying" /\ <<r, seq>> \in unapplied
    /\ seq = Lowest(Seqs(unapplied))
    /\ buffers' = buffers \cup {<<r, seq>>}
    /\ unapplied' = unapplied \ {<<r, seq>>}
    /\ \/ /\ BlockFull(BlockOf[r], buffers')
          /\ pc' = "publish" /\ flushDays' = {DayOfRow(r)}
       \/ /\ ~BlockFull(BlockOf[r], buffers')
          /\ UNCHANGED <<pc, flushDays>>
    /\ UNCHANGED <<mode, batch, unlogged, nextSeq, handle, day, disk, ghosts>>

AppendReturns ==
    /\ pc = "applying" /\ unapplied = {}
    /\ acked' = acked \cup batch
    /\ batch' = {} /\ pc' = "idle"
    /\ UNCHANGED <<mode, buffers, unlogged, unapplied, nextSeq, handle,
                   flushDays, day, disk, sent, twice, exposed, unreplayable, restarts,
                   faults>>

-----------------------------------------------------------------------------
(* Flush, and flushPartitionLocked for one day after the other.              *)

Flush ==
    /\ mode = "up" /\ pc = "idle" /\ buffers # {}
    /\ flushDays' = {DayOfRow(r) : r \in RowsIn(buffers)}
    /\ pc' = "publish"
    /\ UNCHANGED <<memory, day, disk, ghosts>>

Publish(d) ==
    /\ pc = "publish" /\ d \in flushDays
    /\ day' = d
    /\ published' = published \cup RowsIn(OfDay(d, buffers))
    /\ twice' = twice \cup (RowsIn(OfDay(d, buffers)) \cap published)
    /\ pc' = "checkpoint"
    /\ UNCHANGED <<memory, flushDays, log, tail, checkpoint, sent, acked,
                   exposed, unreplayable, restarts, faults>>

(* Mutant of PublishFails: the blocks are dropped before the part is safe.   *)
PublishFailsDrops ==
    /\ pc = "publish" /\ Fault
    /\ ReturnsError
    /\ buffers' = {}
    /\ UNCHANGED <<mode, nextSeq, handle, day, disk, sent, acked, twice,
                   exposed, unreplayable, restarts>>

PublishFails ==
    /\ pc = "publish" /\ Fault
    /\ ReturnsError
    /\ UNCHANGED <<mode, buffers, nextSeq, handle, day, disk, sent, acked,
                   twice, exposed, unreplayable, restarts>>

(* Mutants of NewCheckpoint: blind to the other days; counting the flushed   *)
(* blocks as unflushed; one too low.                                         *)
NewCheckpointAll    == nextSeq - 1
NewCheckpointStuck  == Lowest({nextSeq} \cup Seqs(buffers)) - 1
NewCheckpointShort  == Lowest({nextSeq} \cup Seqs(buffers \ OfDay(day, buffers))) - 2

(* advanceWALCheckpointLocked: everything below the lowest sequence number   *)
(* that stays buffered.                                                      *)
NewCheckpoint == Lowest({nextSeq} \cup Seqs(buffers \ OfDay(day, buffers))) - 1

(* setCheckpoint never goes back; then the day's blocks are dropped.         *)
Checkpoint ==
    /\ pc = "checkpoint"
    /\ checkpoint' = IF NewCheckpoint < checkpoint THEN checkpoint
                                                   ELSE NewCheckpoint
    /\ buffers' = buffers \ OfDay(day, buffers)
    /\ pc' = "compact"
    /\ unreplayable' = unreplayable \cup
                          RowsIn({e \in unapplied : e[2] <= checkpoint'})
    /\ UNCHANGED <<mode, batch, unlogged, unapplied, nextSeq, handle, flushDays,
                   day, log, tail, published, sent, acked, twice, exposed,
                   restarts, faults>>

(* Rows of the day whose flush is between publication and checkpoint.        *)
InWindow == IF pc = "checkpoint" THEN RowsIn(OfDay(day, buffers)) ELSE {}

(* The part stays listed, and its rows stay buffered as well.                *)
CheckpointFails ==
    /\ pc = "checkpoint" /\ Fault
    /\ ReturnsError
    /\ exposed' = exposed \cup InWindow
    /\ UNCHANGED <<mode, buffers, nextSeq, handle, day, disk, sent, acked,
                   twice, unreplayable, restarts>>

Kept == {e \in log : e[2] > checkpoint}

(* compactLocked keeps what a reader reaches: a torn tail is cut off.  A     *)
(* garbled one may read as if it were torn.  The new file replaces the old   *)
(* one in a single rename.                                                   *)
Compact ==
    /\ pc = "compact" /\ handle = "open"
    /\ log' = Kept /\ tail' = "clean"
    /\ flushDays' = flushDays \ {day}
    /\ pc' = IF flushDays' # {} THEN "publish"
             ELSE IF batch # {} THEN "applying" ELSE "idle"
    /\ UNCHANGED <<memory, day, checkpoint, published, ghosts>>

(* Reading a garbled tail or a closed handle is an error before anything     *)
(* changed; so may an operation on wal.log.tmp be.  If the rename or the     *)
(* reopening fails, wal.f stays closed, with the old or the new file there.  *)
CompactFails ==
    /\ pc = "compact"
    /\ ReturnsError
    /\ \/ /\ tail = "garbled" \/ handle = "closed"
          /\ UNCHANGED <<handle, log, tail, faults>>
       \/ Fault /\ UNCHANGED <<handle, log, tail>>
       \/ /\ Fault /\ handle' = "closed"
          /\ \/ UNCHANGED <<log, tail>>
             \/ log' = Kept /\ tail' = "clean"
    /\ UNCHANGED <<mode, buffers, nextSeq, day, checkpoint, published, sent,
                   acked, twice, exposed, unreplayable, restarts>>

-----------------------------------------------------------------------------
(* Observed by Crash: published rows above the checkpoint because an older  *)
(* row of another day is still buffered.                                     *)
HeldBack == {r \in published : \E e \in Kept, b \in buffers :
                e[1] = r /\ b[2] < e[2] /\ DayOfRow(b[1]) # DayOfRow(r)}

Crash ==
    /\ mode = "up" /\ restarts < MaxRestarts
    /\ mode' = "down" /\ pc' = "idle" /\ handle' = "open"
    /\ buffers' = {} /\ batch' = {} /\ unlogged' = {} /\ unapplied' = {}
    /\ flushDays' = {} /\ nextSeq' = 1
    /\ tail' \in IF pc = "logging" /\ unlogged # {} /\ handle = "open"
                 THEN {tail, Torn} ELSE {tail}
    /\ exposed' = exposed \cup InWindow \cup HeldBack
    /\ restarts' = restarts + 1
    /\ UNCHANGED <<day, log, checkpoint, published, sent, acked, twice,
                   unreplayable, faults>>

(* Mutant of FirstSeq: the highest sequence number is used again.            *)
FirstSeqAgain == Highest({0} \cup Seqs(log))

(* scanMaxSeq looks at the log only, not at the checkpoint.                  *)
FirstSeq == Highest({0} \cup Seqs(log)) + 1

(* Open replays what is above the checkpoint.  With a garbled tail it either *)
(* fails (the storage stays down) or takes it for a torn one.  Appending     *)
(* continues at the end of the file: a torn tail stays where it is.          *)
Open ==
    /\ mode = "down"
    /\ mode' = "up"
    /\ buffers' = Kept
    /\ nextSeq' = FirstSeq
    /\ UNCHANGED <<pc, batch, unlogged, unapplied, flushDays, day, handle, disk,
                   ghosts>>

-----------------------------------------------------------------------------
AppendStep == \/ \E r \in Rows : LogRow(r)
              \/ Sync \/ LogFails
              \/ \E e \in unapplied : Apply(e[1], e[2])
              \/ AppendReturns

FlushStep == \/ \E d \in Days : Publish(d)
             \/ PublishFails \/ Checkpoint \/ CheckpointFails
             \/ Compact \/ CompactFails

Next == \/ \E B \in SUBSET Rows : Append(B)
        \/ AppendStep \/ Flush \/ FlushStep \/ Crash \/ Open

Spec == Init /\ [][Next]_vars

(* A call that holds the lock keeps running, the flush ticker comes back     *)
(* (and is not overtaken for ever at the lock), a dead process is started:   *)
(* with a garbled log that may fail every time.                              *)
Fairness == /\ WF_vars(AppendStep) /\ WF_vars(FlushStep) /\ SF_vars(Flush)
            /\ WF_vars(Open /\ tail # "garbled")

FairSpec == Spec /\ Fairness
-----------------------------------------------------------------------------
(* Properties.                                                               *)

(* No acknowledged row is lost: whenever the storage is open, every row of   *)
(* an Append that returned nil is buffered or in a part (WAL.md: after the   *)
(* sync a row is "recovered on replay").  Only a restart may lose rows, and  *)
(* only those whose record no replay reaches: written behind a torn record,  *)
(* or passed by the checkpoint of a flush in the middle of its batch.        *)
AckedVisible ==
    mode = "up" =>
        acked \subseteq RowsIn(buffers) \cup published
                         \cup (IF restarts = 0 THEN {} ELSE unreplayable)

(* A row is stored twice only if its own flush ended between publication    *)
(* and checkpoint (in a crash, the window WAL.md admits, or because the      *)
(* checkpoint could not be written), or if a crash came while an older row   *)
(* of another day held the checkpoint back.                                  *)
DuplicatesExplained ==
    pc # "checkpoint" =>
        twice \cup (RowsIn(buffers) \cap published) \subseteq exposed

(* No acknowledged row has to be replayed for ever: the flush ticker moves   *)
(* the checkpoint past its record, also after a restart or failed attempts,  *)
(* so that a compaction can drop it; only a garbled log may keep a process   *)
(* from starting again.                                                      *)
ToReplay(r) == r \in acked \cap RowsIn(Kept)
CheckpointCatchesUp ==
    \A r \in Rows : ToReplay(r) ~> ~ToReplay(r) \/ (mode = "down" /\ tail = "garbled")
=============================================================================
