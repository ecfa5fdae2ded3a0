--------------------------- MODULE WalBufferProofs ---------------------------
(* Proofs about WalBuffer for every set of rows, blocks and days and every   *)
(* bound: which rows a crash may lose and which it may store twice.          *)
EXTENDS WalBuffer, FiniteSetTheorems, TLAPS

-----------------------------------------------------------------------------
(* Lowest and Highest.                                                       *)

(* The least-number principle, from the library's well-foundedness of <.     *)
LEMMA LowestInSet ==
    ASSUME NEW S \in SUBSET Nat, S # {}
    PROVE  Lowest(S) \in S /\ \A n \in S : Lowest(S) <= n
  <1> DEFINE R == {ss \in Nat \X Nat : ss[1] < ss[2]}
  <1>1. R = OpToRel(<, Nat)
    BY DEF OpToRel
  <1>2. IsWellFoundedOn(R, Nat)
    BY <1>1, NatLessThanWellFounded
  <1> HIDE DEF R
  <1>3. \E m \in S : \A n \in S : ~ (<<n, m>> \in R)
    BY <1>2, WFMin
  <1>4. \A m, n \in Nat : <<n, m>> \notin R => m <= n
    BY DEF R
  <1>5. \E m \in S : \A n \in S : m <= n
    BY <1>3, <1>4
  <1> QED
    BY <1>5 DEF Lowest

(* A bounded set has a highest member: the distances from the bound have a   *)
(* lowest one.                                                               *)
LEMMA HighestInSet ==
    ASSUME NEW S \in SUBSET Nat, S # {}, NEW bound \in Nat,
           \A n \in S : n <= bound
    PROVE  Highest(S) \in S /\ \A n \in S : n <= Highest(S)
  <1> DEFINE T == {bound - n : n \in S}
  <1>0. \A n \in S : bound - n \in Nat
    OBVIOUS
  <1>1. T \in SUBSET Nat /\ T # {}
    BY <1>0
  <1>2. PICK m \in S : Lowest(T) = bound - m
    BY <1>1, LowestInSet
  <1>3. \A n \in S : bound - m <= bound - n
    BY <1>1, <1>2, LowestInSet
  <1>4. \A n \in S : n <= m
    BY <1>3
  <1> QED
    BY <1>4 DEF Highest

-----------------------------------------------------------------------------
(* The records: what the log, the blocks and the running call hold.          *)

Recs == buffers \cup unapplied \cup log

(* The log has a highest sequence number.  A row has one record, a number    *)
(* one row; Append applies its records in the order it logged them, and none *)
(* of them is in a part yet.                                                 *)
RecordInv ==
    /\ \E n \in Nat : \A e \in log : e[2] <= n
    /\ RowsIn(Recs) \subseteq sent
    /\ \A e, f \in Recs : e[1] = f[1] \/ e[2] = f[2] => e = f
    /\ \A e \in buffers, f \in unapplied : e[2] < f[2]
    /\ RowsIn(unapplied) \cap published = {}

(* The call that holds the lock: the rows of its batch are accounted for.    *)
CallInv ==
    /\ mode = "down" => pc = "idle" /\ buffers = {}
    /\ pc = "idle" => batch = {}
    /\ pc # "logging" => unlogged = {}
    /\ RowsIn(unapplied) \subseteq batch /\ batch \subseteq sent
    /\ unlogged \cap (published \cup RowsIn(Recs)) = {}
    /\ batch \subseteq unlogged \cup RowsIn(unapplied \cup buffers) \cup published
    /\ pc = "checkpoint" => RowsIn(OfDay(day, buffers)) \subseteq published

IInv == TypeOK /\ RecordInv /\ CallInv

(* The checkpoint of a flush: a number, and every record that stays buffered *)
(* is above it.                                                              *)
LEMMA NewCheckpointBelow ==
    ASSUME TypeOK, NEW rest, rest = buffers \ OfDay(day, buffers)
    PROVE  /\ NewCheckpoint \in Nat /\ NewCheckpoint < nextSeq
           /\ \A e \in rest : NewCheckpoint < e[2]
           /\ NewCheckpoint + 1 \in {nextSeq} \cup Seqs(rest)
  <1> DEFINE S == {nextSeq} \cup Seqs(rest)
  <1>1. \A n \in S : n \in Nat \ {0}
    BY DEF TypeOK, Records, Seqs
  <1>2. S \in SUBSET Nat /\ nextSeq \in S
    BY <1>1
  <1>3. Lowest(S) \in S /\ \A n \in S : Lowest(S) <= n
    BY <1>2, LowestInSet
  <1>4. NewCheckpoint = Lowest(S) - 1
    BY DEF NewCheckpoint
  <1>5. \A e \in rest : e[2] \in S
    BY DEF Seqs
  <1> HIDE DEF S
  <1>6. PICK low \in Nat \ {0} : low \in S /\ low = Lowest(S)
    BY <1>1, <1>3
  <1>7. NewCheckpoint = low - 1 /\ \A n \in S : n \in Nat /\ low <= n
    BY <1>1, <1>3, <1>4, <1>6
  <1>8. NewCheckpoint \in Nat /\ NewCheckpoint + 1 = low
    BY <1>7
  <1>9. \A n \in S : NewCheckpoint < n
    BY <1>7
  <1>10. NewCheckpoint < nextSeq /\ \A e \in rest : NewCheckpoint < e[2]
    BY <1>2, <1>5, <1>9
  <1> QED
    BY <1>6, <1>8, <1>10 DEF S

(* Open numbers new records above those of the log.                          *)
LEMMA FirstSeqAbove ==
    ASSUME TypeOK, RecordInv
    PROVE  FirstSeq \in Nat \ {0} /\ \A e \in log : e[2] < FirstSeq
  <1> DEFINE S == {0} \cup Seqs(log)
  <1>1. PICK n \in Nat : \A e \in log : e[2] <= n
    BY DEF RecordInv
  <1>2. S \in SUBSET Nat /\ 0 \in S /\ \A k \in S : k <= n
    BY <1>1 DEF TypeOK, Records, Seqs
  <1>3. Highest(S) \in S /\ \A k \in S : k <= Highest(S)
    BY <1>2, HighestInSet
  <1>4. \A e \in log : e[2] \in S
    BY DEF Seqs
  <1>5. FirstSeq = Highest(S) + 1
    BY DEF FirstSeq
  <1> HIDE DEF S
  <1>6. PICK high \in Nat : high = Highest(S) /\ \A k \in S : k <= high
    BY <1>2, <1>3
  <1>7. FirstSeq = high + 1
    BY <1>5, <1>6
  <1>8. \A k \in S : k < FirstSeq
    BY <1>2, <1>6, <1>7
  <1> QED
    BY <1>4, <1>7, <1>8

-----------------------------------------------------------------------------
(* IInv is inductive: a step per action, a step per part of the invariant.   *)

(* The invariant at the start.                                               *)
LEMMA InitIInv == Init => IInv
  BY WalAssumption DEF Init, IInv, TypeOK, RecordInv, CallInv, Recs, RowsIn,
     OfDay, Records

(* A record is a pair of a row and a positive number.                        *)
LEMMA RecordParts ==
    ASSUME TypeOK
    PROVE  \A e \in Recs : /\ e \in Records /\ e[1] \in Rows
                           /\ e[2] \in Nat \ {0}
                           /\ mode = "up" => e[2] < nextSeq
  BY DEF TypeOK, Recs, Records

(* A call that begins keeps it.                                              *)
LEMMA AppendKeepsIInv ==
    ASSUME IInv, NEW B \in SUBSET Rows, Append(B)
    PROVE  IInv'
  <1>1. TypeOK'
    BY DEF IInv, CallInv, Append, TypeOK, disk, Records
  <1>2. RecordInv'
    BY DEF IInv, RecordInv, Append, disk, Recs, RowsIn
  <1>3. CallInv'
    BY DEF IInv, TypeOK, RecordInv, CallInv, Append, disk, Recs, RowsIn
  <1> QED
    BY <1>1, <1>2, <1>3 DEF IInv

(* So does writing a record,                                                 *)
LEMMA LogRowKeepsIInv ==
    ASSUME IInv, NEW r \in Rows, LogRow(r)
    PROVE  IInv'
  <1>1. /\ mode = "up" /\ pc = "logging" /\ pc' = pc /\ mode' = mode
        /\ r \in unlogged /\ r \in batch /\ r \in sent
        /\ r \notin RowsIn(Recs) \cup published
        /\ nextSeq \in Nat \ {0} /\ nextSeq' = nextSeq + 1
        /\ <<r, nextSeq>> \in Records
    BY DEF LogRow, IInv, CallInv, TypeOK, Records
  <1>2. TypeOK'
    BY <1>1 DEF IInv, TypeOK, LogRow, Records
  <1>3. RecordInv'
    <2>1. \E n \in Nat : \A e \in log' : e[2] <= n
      <3>1. PICK n \in Nat : \A e \in log : e[2] <= n
        BY DEF IInv, RecordInv
      <3>2. \A e \in log' : e[2] <= n + nextSeq
        BY <1>1, <3>1 DEF LogRow, IInv, TypeOK, Records
      <3> QED
        BY <1>1, <3>2
    <2>2. Recs' = Recs \cup {<<r, nextSeq>>}
      BY DEF LogRow, Recs
    <2>3. RowsIn(Recs)' \subseteq sent'
      BY <1>1, <2>2 DEF IInv, RecordInv, LogRow, RowsIn
    <2>4. \A e \in Recs : e[1] # r /\ e[2] # nextSeq /\ e[2] < nextSeq
      BY <1>1, RecordParts DEF IInv, RowsIn
    <2>5. \A e, f \in Recs' : e[1] = f[1] \/ e[2] = f[2] => e = f
      BY <2>2, <2>4 DEF IInv, RecordInv
    <2>6. \A e \in buffers', f \in unapplied' : e[2] < f[2]
      BY <2>4 DEF LogRow, IInv, RecordInv, Recs
    <2>7. RowsIn(unapplied)' \cap published' = {}
      BY <1>1 DEF LogRow, IInv, RecordInv, RowsIn
    <2> QED
      BY <2>1, <2>3, <2>5, <2>6, <2>7 DEF RecordInv
  <1>4. CallInv'
    BY <1>1 DEF IInv, CallInv, RecordInv, LogRow, Recs, RowsIn
  <1> QED
    BY <1>2, <1>3, <1>4 DEF IInv

(* An error ends the call: its records, all but those in blocks, are gone.   *)
LEMMA ErrorKeepsIInv ==
    ASSUME IInv, ReturnsError,
           UNCHANGED <<mode, buffers, day, checkpoint, published, sent, acked,
                       twice, unreplayable, restarts>>,
           log' \subseteq log, mode = "up",
           nextSeq' \in {nextSeq, nextSeq + 1},
           handle' \in {"open", "closed"}, tail' \in {"clean", "torn", "garbled"},
           exposed' \subseteq sent, faults' \in 0..MaxFaults
    PROVE  IInv'
  <1>1. TypeOK'
    <2>1. nextSeq' \in Nat \ {0} /\ nextSeq <= nextSeq'
      BY DEF IInv, TypeOK
    <2>2. \A e \in buffers' \cup unapplied' \cup log' :
              e \in Records /\ e[2] < nextSeq'
      BY <2>1, RecordParts DEF IInv, TypeOK, Recs, ReturnsError
    <2> QED
      BY <2>1, <2>2 DEF IInv, TypeOK, ReturnsError
  <1>2. RecordInv'
    <2>1. Recs' \subseteq Recs /\ unapplied' = {}
      BY DEF ReturnsError, Recs
    <2>2. \E n \in Nat : \A e \in log' : e[2] <= n
      BY DEF IInv, RecordInv
    <2> QED
      BY <2>1, <2>2 DEF IInv, RecordInv, RowsIn
  <1>3. CallInv'
    <2>1. /\ mode' = "up" /\ pc' = "idle" /\ batch' = {} /\ unlogged' = {}
          /\ unapplied' = {}
      BY DEF ReturnsError
    <2>2. RowsIn(unapplied)' = {}
      BY <2>1 DEF RowsIn
    <2> QED
      BY <2>1, <2>2 DEF CallInv
  <1> QED
    BY <1>1, <1>2, <1>3 DEF IInv

(* failing to write one,                                                     *)
LEMMA LogFailsKeepsIInv ==
    ASSUME IInv, LogFails
    PROVE  IInv'
  <1>1. mode = "up" /\ faults' \in 0..MaxFaults
    BY WalAssumption DEF LogFails, IInv, CallInv, TypeOK, Fault
  <1>2. /\ nextSeq' \in {nextSeq, nextSeq + 1}
        /\ handle' \in {"open", "closed"} /\ tail' \in {"clean", "torn", "garbled"}
        /\ exposed' \subseteq sent
    BY DEF LogFails, IInv, TypeOK, Torn
  <1> QED
    BY <1>1, <1>2, ErrorKeepsIInv DEF LogFails

(* Records are applied in order: what stays unapplied has a higher number.   *)
LEMMA ApplyKeepsIInv ==
    ASSUME IInv, NEW e \in unapplied, Apply(e[1], e[2])
    PROVE  IInv'
  <1>0. e \in Records /\ e = <<e[1], e[2]>> /\ mode = "up"
    BY DEF IInv, TypeOK, Records, Apply, CallInv
  <1>1. /\ buffers' = buffers \cup {e} /\ unapplied' = unapplied \ {e}
        /\ e[2] = Lowest(Seqs(unapplied))
        /\ pc = "applying" /\ pc' \in {"applying", "publish"}
        /\ UNCHANGED <<mode, batch, unlogged, nextSeq, handle, day, disk, ghosts>>
    BY <1>0 DEF Apply
  <1>2. Recs' = Recs
    BY <1>1 DEF Recs, disk
  <1>3. flushDays' \subseteq Days
    BY <1>0, WalAssumption DEF IInv, TypeOK, Apply, DayOfRow, Records
  <1>4. TypeOK'
    BY <1>1, <1>3 DEF IInv, TypeOK, disk, ghosts
  <1>5. \A f \in unapplied \ {e} : e[2] < f[2]
    <2>1. Seqs(unapplied) \in SUBSET Nat /\ e[2] \in Seqs(unapplied)
      BY DEF IInv, TypeOK, Records, Seqs
    <2>2. \A n \in Seqs(unapplied) : e[2] <= n
      BY <1>1, <2>1, LowestInSet
    <2>3. \A f \in unapplied : f \in Recs /\ f[2] \in Seqs(unapplied)
      BY DEF Seqs, Recs
    <2>4. \A f \in unapplied \ {e} : f[2] # e[2]
      BY <2>3 DEF IInv, RecordInv
    <2>5. \A f \in unapplied : f[2] \in Nat /\ e[2] \in Nat
      BY <2>3, RecordParts DEF IInv
    <2> QED
      BY <2>2, <2>3, <2>4, <2>5
  <1>6. RecordInv'
    <2>1. \A f \in buffers', g \in unapplied' : f[2] < g[2]
      BY <1>1, <1>5 DEF IInv, RecordInv
    <2> QED
      BY <1>1, <1>2, <2>1 DEF IInv, RecordInv, RowsIn, disk, ghosts
  <1>7. CallInv'
    BY <1>1, <1>2 DEF IInv, CallInv, RowsIn, disk, ghosts
  <1> QED
    BY <1>4, <1>6, <1>7 DEF IInv

(* the end of an append,                                                     *)
LEMMA AppendReturnsKeepsIInv ==
    ASSUME IInv, AppendReturns
    PROVE  IInv'
  <1>1. /\ pc = "applying" /\ pc' = "idle" /\ unapplied = {} /\ batch' = {}
        /\ unlogged = {} /\ batch \subseteq sent /\ mode = "up"
        /\ acked' = acked \cup batch
        /\ UNCHANGED <<mode, buffers, unlogged, unapplied, nextSeq, handle,
                       flushDays, day, disk, sent, twice, exposed,
                       unreplayable, restarts, faults>>
    BY DEF AppendReturns, IInv, CallInv, TypeOK
  <1>2. TypeOK'
    BY <1>1 DEF IInv, TypeOK, disk
  <1>3. RecordInv'
    BY <1>1 DEF IInv, RecordInv, Recs, RowsIn, disk
  <1>4. CallInv'
    BY <1>1 DEF IInv, CallInv, Recs, RowsIn, disk
  <1> QED
    BY <1>2, <1>3, <1>4 DEF IInv

(* Steps that only move the call along.                                      *)
LEMMA MoveKeepsIInv ==
    ASSUME IInv, Sync \/ Flush
    PROVE  IInv'
  <1>1. /\ mode = "up" /\ unlogged = {} /\ pc' \in {"applying", "publish"}
        /\ UNCHANGED <<memory, day, disk, ghosts>>
    BY DEF Sync, Flush, IInv, CallInv, TypeOK
  <1>2. flushDays' \subseteq Days
    <2>1. \A e \in buffers : DayOfRow(e[1]) \in Days
      BY WalAssumption DEF IInv, TypeOK, Records, DayOfRow
    <2> QED
      BY <2>1 DEF Sync, Flush, IInv, TypeOK, RowsIn
  <1>3. TypeOK'
    BY <1>1, <1>2 DEF IInv, TypeOK, memory, disk, ghosts
  <1>4. RecordInv'
    BY <1>1 DEF IInv, RecordInv, Recs, RowsIn, memory, disk, ghosts
  <1>5. CallInv'
    BY <1>1 DEF IInv, CallInv, Recs, RowsIn, memory, disk, ghosts
  <1> QED
    BY <1>3, <1>4, <1>5 DEF IInv

(* publishing a part,                                                        *)
LEMMA PublishKeepsIInv ==
    ASSUME IInv, NEW d \in Days, Publish(d)
    PROVE  IInv'
  <1>1. /\ mode = "up" /\ pc = "publish" /\ unlogged = {}
        /\ pc' = "checkpoint" /\ day' = d /\ d \in flushDays
        /\ published' = published \cup RowsIn(OfDay(d, buffers))
        /\ twice' = twice \cup (RowsIn(OfDay(d, buffers)) \cap published)
        /\ UNCHANGED <<memory, flushDays, log, tail, checkpoint, sent, acked,
                       exposed, unreplayable, restarts, faults>>
    BY DEF Publish, IInv, CallInv, TypeOK
  <1>2. RowsIn(OfDay(d, buffers)) \subseteq RowsIn(buffers)
    BY DEF OfDay, RowsIn
  <1>3. RowsIn(buffers) \subseteq sent
    BY DEF IInv, RecordInv, RowsIn, Recs
  <1>4. TypeOK'
    BY <1>1, <1>2, <1>3 DEF IInv, TypeOK, memory
  <1>5. RowsIn(unapplied) \cap RowsIn(buffers) = {}
    <2> SUFFICES ASSUME NEW e \in unapplied, NEW f \in buffers, e[1] = f[1]
                 PROVE  FALSE
      BY DEF RowsIn
    <2>1. e = f /\ f[2] < e[2] /\ e[2] \in Nat
      BY RecordParts DEF IInv, RecordInv, Recs
    <2> QED
      BY <2>1
  <1>6. RecordInv'
    <2>1. RowsIn(unapplied)' \cap published' = {}
      BY <1>1, <1>2, <1>5 DEF IInv, RecordInv, RowsIn, memory
    <2> QED
      BY <1>1, <2>1 DEF IInv, RecordInv, Recs, RowsIn, memory
  <1>7. CallInv'
    BY <1>1 DEF IInv, CallInv, Recs, RowsIn, OfDay, memory
  <1> QED
    BY <1>4, <1>6, <1>7 DEF IInv

(* moving the checkpoint,                                                    *)
LEMMA CheckpointKeepsIInv ==
    ASSUME IInv, Checkpoint
    PROVE  IInv'
  <1>1. /\ mode = "up" /\ pc = "checkpoint" /\ unlogged = {} /\ pc' = "compact"
        /\ buffers' = buffers \ OfDay(day, buffers)
        /\ UNCHANGED <<mode, batch, unlogged, unapplied, nextSeq, handle,
                       flushDays, day, log, tail, published, sent, acked, twice,
                       exposed, restarts, faults>>
    BY DEF Checkpoint, IInv, CallInv, TypeOK
  <1>2. checkpoint' \in Nat
    BY NewCheckpointBelow DEF Checkpoint, IInv, TypeOK
  <1>3. unreplayable' \subseteq sent
    BY DEF Checkpoint, IInv, TypeOK, RecordInv, Recs, RowsIn
  <1>4. TypeOK'
    BY <1>1, <1>2, <1>3 DEF IInv, TypeOK
  <1>5. Recs' \subseteq Recs
    BY <1>1 DEF Recs
  <1>6. RecordInv'
    BY <1>1, <1>5 DEF IInv, RecordInv, RowsIn
  <1>7. RowsIn(buffers) \subseteq RowsIn(buffers)' \cup published
    BY <1>1 DEF IInv, CallInv, RowsIn
  <1>8. CallInv'
    BY <1>1, <1>5, <1>7 DEF IInv, CallInv, RowsIn
  <1> QED
    BY <1>4, <1>6, <1>8 DEF IInv

(* dropping the records below it,                                            *)
LEMMA CompactKeepsIInv ==
    ASSUME IInv, Compact
    PROVE  IInv'
  <1>1. /\ mode = "up" /\ unlogged = {} /\ log' \subseteq log /\ tail' = "clean"
        /\ flushDays' \subseteq flushDays
        /\ pc' \in {"publish", "applying", "idle"} /\ (pc' = "idle" => batch = {})
        /\ UNCHANGED <<memory, day, checkpoint, published, ghosts>>
    BY DEF Compact, IInv, CallInv, TypeOK, Kept
  <1>2. TypeOK'
    BY <1>1 DEF IInv, TypeOK, memory, ghosts
  <1>3. Recs' \subseteq Recs
    BY <1>1 DEF Recs, memory
  <1>4. RecordInv'
    BY <1>1, <1>3 DEF IInv, RecordInv, RowsIn, memory, ghosts
  <1>5. CallInv'
    BY <1>1, <1>3 DEF IInv, CallInv, RowsIn, memory, ghosts
  <1> QED
    BY <1>2, <1>4, <1>5 DEF IInv

(* The three ways a flush returns an error.                                  *)
LEMMA FlushFailsKeepsIInv ==
    ASSUME IInv, PublishFails \/ CheckpointFails \/ CompactFails
    PROVE  IInv'
  <1>1. /\ mode = "up" /\ faults' \in 0..MaxFaults /\ log' \subseteq log
        /\ handle' \in {"open", "closed"} /\ tail' \in {"clean", "torn", "garbled"}
    BY WalAssumption DEF PublishFails, CheckpointFails, CompactFails, IInv,
       CallInv, TypeOK, Fault, Kept, disk
  <1>2. exposed' \subseteq sent
    <2>1. InWindow \subseteq sent
      BY DEF IInv, TypeOK, CallInv, InWindow
    <2> QED
      BY <2>1 DEF PublishFails, CheckpointFails, CompactFails, IInv, TypeOK
  <1> QED
    BY <1>1, <1>2, ErrorKeepsIInv
    DEF PublishFails, CheckpointFails, CompactFails, disk

(* a crash,                                                                  *)
LEMMA CrashKeepsIInv ==
    ASSUME IInv, Crash
    PROVE  IInv'
  <1>1. /\ mode' = "down" /\ pc' = "idle" /\ handle' = "open"
        /\ buffers' = {} /\ batch' = {} /\ unlogged' = {} /\ unapplied' = {}
        /\ flushDays' = {} /\ nextSeq' = 1
        /\ tail' \in {"clean", "torn", "garbled"}
        /\ UNCHANGED <<log, checkpoint, published, sent, acked, twice,
                       unreplayable, faults>>
    BY DEF Crash, IInv, TypeOK, Torn
  <1>2. restarts' \in 0..MaxRestarts
    BY WalAssumption DEF Crash, IInv, TypeOK
  <1>3. exposed' \subseteq sent
    BY DEF Crash, IInv, TypeOK, CallInv, InWindow, HeldBack
  <1>4. TypeOK'
    BY <1>1, <1>2, <1>3 DEF IInv, TypeOK
  <1>5. Recs' \subseteq Recs /\ RowsIn(unapplied)' = {}
    BY <1>1 DEF Recs, RowsIn
  <1>6. RecordInv'
    BY <1>1, <1>5 DEF IInv, RecordInv, RowsIn
  <1>7. CallInv'
    BY <1>1, <1>5 DEF CallInv
  <1> QED
    BY <1>4, <1>6, <1>7 DEF IInv

(* and a replay.                                                             *)
LEMMA OpenKeepsIInv ==
    ASSUME IInv, Open
    PROVE  IInv'
  <1>1. /\ mode = "down" /\ mode' = "up" /\ pc = "idle" /\ pc' = "idle"
        /\ batch = {} /\ unlogged = {} /\ RowsIn(unapplied) = {}
        /\ buffers' = Kept /\ nextSeq' = FirstSeq
        /\ UNCHANGED <<batch, unlogged, unapplied, flushDays, day, handle, disk,
                       ghosts>>
    BY DEF Open, IInv, CallInv
  <1>2. unapplied = {}
    BY <1>1 DEF RowsIn
  <1>3. Kept \subseteq log
    BY DEF Kept
  <1>4. TypeOK'
    BY <1>1, <1>2, <1>3, FirstSeqAbove DEF IInv, TypeOK, disk, ghosts
  <1>5. Recs' \subseteq Recs
    BY <1>1, <1>3 DEF Recs, disk
  <1>6. RecordInv'
    BY <1>1, <1>2, <1>5 DEF IInv, RecordInv, RowsIn, disk, ghosts
  <1>7. CallInv'
    BY <1>1, <1>5 DEF IInv, CallInv, RowsIn, disk, ghosts
  <1> QED
    BY <1>4, <1>6, <1>7 DEF IInv

(* All steps together.                                                       *)
LEMMA IInvNext ==
    ASSUME IInv, [Next]_vars
    PROVE  IInv'
  <1>1. CASE UNCHANGED vars
    <2>1. UNCHANGED <<Recs, mode, pc, buffers, batch, unlogged, unapplied,
                      flushDays, day, nextSeq, handle, log, tail, checkpoint,
                      published, sent, acked, twice, exposed, unreplayable,
                      restarts, faults>>
      BY <1>1 DEF vars, memory, disk, ghosts, Recs
    <2>2. TypeOK' /\ RecordInv' /\ CallInv'
      BY <2>1 DEF IInv, TypeOK, RecordInv, CallInv, RowsIn, OfDay
    <2> QED
      BY <2>2 DEF IInv
  <1>2. CASE AppendStep
    BY <1>2, LogRowKeepsIInv, MoveKeepsIInv, LogFailsKeepsIInv, ApplyKeepsIInv,
       AppendReturnsKeepsIInv DEF AppendStep
  <1>3. CASE FlushStep
    BY <1>3, PublishKeepsIInv, CheckpointKeepsIInv, CompactKeepsIInv,
       FlushFailsKeepsIInv DEF FlushStep
  <1> QED
    BY <1>1, <1>2, <1>3, AppendKeepsIInv, MoveKeepsIInv, CrashKeepsIInv,
       OpenKeepsIInv DEF Next

(* Hence the invariant always holds.                                         *)
LEMMA IInvCorrect == Spec => []IInv
  BY InitIInv, IInvNext, PTL DEF Spec

(* Type correctness of WalBuffer, whatever crashes and fails.                *)
THEOREM TypeCorrect == Spec => []TypeOK
  <1>1. IInv => TypeOK
    BY DEF IInv
  <1> QED
    BY <1>1, IInvCorrect, PTL

-----------------------------------------------------------------------------
(* Rows stored twice.  A record that a replay would read although its row is *)
(* in a part, and that is not excused so far, is held back by an older       *)
(* buffered record of another day, and by none of its own day.               *)

Loose(e) == e \in Kept /\ e[1] \in published \ (exposed \cup InWindow)

HeldBackByOther(e) ==
    \E b \in buffers : b[2] < e[2] /\ DayOfRow(b[1]) # DayOfRow(e[1])

AheadOfItsDay(e) ==
    \A b \in buffers \cup unapplied : DayOfRow(b[1]) = DayOfRow(e[1]) => e[2] < b[2]

DupInv ==
    /\ twice \subseteq exposed
    /\ RowsIn(buffers) \cap published \subseteq exposed \cup InWindow
    /\ mode = "down" => RowsIn(Kept) \cap published \subseteq exposed
    /\ mode = "up" => \A e \in log : Loose(e) => /\ HeldBackByOther(e)
                                                 /\ AheadOfItsDay(e)

(* A step that takes nothing out of the blocks and puts nothing new in front *)
(* of a record, publishes no row and keeps the excuses, keeps DupInv.        *)
LEMMA DupInvKept ==
    ASSUME DupInv, mode = "up", mode' = "up",
           buffers \subseteq buffers', Kept' \subseteq Kept,
           buffers' \cup unapplied' \subseteq buffers \cup unapplied,
           RowsIn(buffers)' \cap published \subseteq RowsIn(buffers),
           exposed \cup InWindow \subseteq exposed' \cup InWindow',
           exposed \subseteq exposed', log' \subseteq log,
           UNCHANGED <<published, twice>>
    PROVE  DupInv'
  <1>1. /\ twice' \subseteq exposed'
        /\ RowsIn(buffers)' \cap published' \subseteq exposed' \cup InWindow'
    BY DEF DupInv
  <1>2. ASSUME NEW e \in log', Loose(e)'
        PROVE  HeldBackByOther(e)' /\ AheadOfItsDay(e)'
    <2>1. Loose(e)
      BY <1>2 DEF Loose
    <2>2. HeldBackByOther(e) /\ AheadOfItsDay(e)
      BY <2>1 DEF DupInv
    <2> QED
      BY <2>2 DEF HeldBackByOther, AheadOfItsDay
  <1> QED
    BY <1>1, <1>2 DEF DupInv

(* A new record is of a row that no part holds: no second copy.              *)
LEMMA LogRowKeepsDupInv ==
    ASSUME IInv, DupInv, NEW r \in Rows, LogRow(r)
    PROVE  DupInv'
  <1>1. /\ mode = "up" /\ pc = "logging" /\ pc' = pc /\ mode' = mode
        /\ r \notin published /\ nextSeq \in Nat
        /\ unapplied' = unapplied \cup {<<r, nextSeq>>}
        /\ log' \subseteq log \cup {<<r, nextSeq>>}
        /\ UNCHANGED <<buffers, day, checkpoint, published, twice, exposed>>
    BY DEF LogRow, IInv, CallInv, TypeOK
  <1>2. InWindow' = InWindow
    BY <1>1 DEF InWindow
  <1>3. ASSUME NEW e \in log', Loose(e)'
        PROVE  HeldBackByOther(e)' /\ AheadOfItsDay(e)'
    <2>1. e \in log /\ Loose(e)
      BY <1>1, <1>2, <1>3 DEF Loose, Kept
    <2>2. HeldBackByOther(e) /\ AheadOfItsDay(e)
      BY <1>1, <2>1 DEF DupInv
    <2>3. e[2] < nextSeq
      BY <1>1, <2>1, RecordParts DEF IInv, Recs
    <2> QED
      BY <1>1, <2>2, <2>3 DEF HeldBackByOther, AheadOfItsDay
  <1> QED
    BY <1>1, <1>2, <1>3 DEF DupInv, RowsIn

(* A row published a second time is explained.                               *)
LEMMA PublishKeepsDupInv ==
    ASSUME IInv, DupInv, NEW d \in Days, Publish(d)
    PROVE  DupInv'
  <1>1. /\ mode = "up" /\ pc = "publish" /\ pc' = "checkpoint" /\ day' = d
        /\ published' = published \cup RowsIn(OfDay(d, buffers))
        /\ twice' = twice \cup (RowsIn(OfDay(d, buffers)) \cap published)
        /\ UNCHANGED <<mode, buffers, unapplied, log, checkpoint, exposed>>
    BY DEF Publish, IInv, CallInv, TypeOK, memory
  <1>2. InWindow = {} /\ InWindow' = RowsIn(OfDay(d, buffers))
    BY <1>1 DEF InWindow, RowsIn, OfDay
  <1>3. RowsIn(OfDay(d, buffers)) \subseteq RowsIn(buffers)
    BY DEF OfDay, RowsIn
  <1>4. twice' \subseteq exposed'
    BY <1>1, <1>2, <1>3 DEF DupInv
  <1>5. RowsIn(buffers)' = RowsIn(buffers)
    BY <1>1 DEF RowsIn
  <1>6. RowsIn(buffers)' \cap published' \subseteq exposed' \cup InWindow'
    BY <1>1, <1>2, <1>5 DEF DupInv
  <1>7. ASSUME NEW e \in log', Loose(e)'
        PROVE  HeldBackByOther(e)' /\ AheadOfItsDay(e)'
    <2>1. e \in log /\ Loose(e)
      BY <1>1, <1>2, <1>7 DEF Loose, Kept
    <2>2. HeldBackByOther(e) /\ AheadOfItsDay(e)
      BY <1>1, <2>1 DEF DupInv
    <2> QED
      BY <1>1, <2>2 DEF HeldBackByOther, AheadOfItsDay
  <1> QED
    BY <1>1, <1>4, <1>6, <1>7 DEF DupInv

(* The day's rows leave the blocks.  A record the new checkpoint leaves to   *)
(* replay is above the lowest record that stays buffered: that one is of     *)
(* another day, because a day's records are flushed together.                *)
LEMMA CheckpointKeepsDupInv ==
    ASSUME IInv, DupInv, Checkpoint
    PROVE  DupInv'
  <1> DEFINE rest == buffers \ OfDay(day, buffers)
  <1>1. /\ mode = "up" /\ pc = "checkpoint" /\ pc' = "compact"
        /\ buffers' = rest
        /\ UNCHANGED <<mode, unapplied, log, published, twice, exposed, day>>
    BY DEF Checkpoint, IInv, CallInv, TypeOK
  <1>2. InWindow' = {} /\ InWindow = RowsIn(OfDay(day, buffers))
    BY <1>1 DEF InWindow
  <1>3. \A e \in rest : DayOfRow(e[1]) # day
    BY DEF OfDay
  <1>4. \A r \in InWindow : DayOfRow(r) = day
    BY <1>2 DEF RowsIn, OfDay
  <1>5. RowsIn(buffers)' \cap published' \subseteq exposed' \cup InWindow'
    <2> SUFFICES ASSUME NEW e \in rest, e[1] \in published
                 PROVE  e[1] \in exposed
      BY <1>1 DEF RowsIn
    <2>1. e[1] \in exposed \cup InWindow
      BY DEF DupInv, RowsIn
    <2> QED
      BY <1>3, <1>4, <2>1
  <1>6. /\ NewCheckpoint \in Nat /\ NewCheckpoint <= checkpoint'
        /\ checkpoint <= checkpoint' /\ checkpoint' \in Nat
        /\ NewCheckpoint + 1 \in {nextSeq} \cup Seqs(rest)
    BY NewCheckpointBelow DEF Checkpoint, IInv, TypeOK
  <1> HIDE DEF rest
  <1>7. ASSUME NEW e \in log', Loose(e)'
        PROVE  HeldBackByOther(e)' /\ AheadOfItsDay(e)'
    <2>1. /\ e \in log /\ e \in Recs /\ e \in Kept
          /\ e[2] \in Nat /\ e[2] < nextSeq /\ e[2] > checkpoint'
          /\ e[1] \in published \ exposed
      BY <1>1, <1>2, <1>6, <1>7, RecordParts DEF Loose, Kept, Recs, IInv, TypeOK
    <2>2. PICK b \in rest : b[2] = NewCheckpoint + 1
      BY <1>6, <2>1 DEF Seqs
    <2>3. b \in Recs /\ b[2] \in Nat /\ b[2] <= e[2]
      BY <1>6, <2>1, <2>2 DEF rest, Recs
    <2>4. b # e
      BY <1>1, <1>2, <1>5, <2>1, <2>2 DEF RowsIn
    <2>5. b[2] < e[2]
      BY <2>1, <2>3, <2>4 DEF IInv, RecordInv
    <2>6. CASE e[1] \in InWindow
      <3>1. DayOfRow(e[1]) = day /\ DayOfRow(b[1]) # day
        BY <1>3, <1>4, <2>6, <2>2
      <3>2. PICK f \in buffers : f[1] = e[1]
        BY <1>2, <2>6 DEF RowsIn, OfDay
      <3>3. f = e
        BY <2>1, <3>2 DEF IInv, RecordInv, Recs
      <3>4. \A c \in unapplied : e[2] < c[2]
        BY <3>2, <3>3 DEF IInv, RecordInv
      <3> QED
        BY <1>1, <1>3, <2>2, <2>5, <3>1, <3>4 DEF HeldBackByOther, AheadOfItsDay
    <2>7. CASE e[1] \notin InWindow
      <3>1. AheadOfItsDay(e)
        BY <1>1, <2>1, <2>7 DEF DupInv, Loose
      <3>2. DayOfRow(b[1]) # DayOfRow(e[1])
        BY <2>1, <2>2, <2>3, <2>5, <3>1 DEF AheadOfItsDay, rest
      <3> QED
        BY <1>1, <2>2, <2>5, <3>1, <3>2 DEF HeldBackByOther, AheadOfItsDay, rest
    <2> QED
      BY <2>6, <2>7
  <1>8. twice' \subseteq exposed'
    BY <1>1 DEF DupInv
  <1> QED
    BY <1>1, <1>5, <1>7, <1>8 DEF DupInv

(* Every other step of a call, and an error.                                 *)
LEMMA CallKeepsDupInv ==
    ASSUME IInv, DupInv,
           \/ \E B \in SUBSET Rows : Append(B)
           \/ Sync \/ LogFails \/ AppendReturns
           \/ \E e \in unapplied : Apply(e[1], e[2])
           \/ Flush \/ PublishFails \/ CheckpointFails \/ Compact \/ CompactFails
    PROVE  DupInv'
  <1>1. mode = "up" /\ mode' = "up"
    BY DEF Append, Sync, LogFails, AppendReturns, Apply, Flush, PublishFails,
       CheckpointFails, Compact, CompactFails, IInv, CallInv, TypeOK, memory
  <1>2. UNCHANGED <<checkpoint, published, twice>>
    BY DEF Append, Sync, LogFails, AppendReturns, Apply, Flush, PublishFails,
       CheckpointFails, Compact, CompactFails, disk, ghosts
  <1>3. log' \in {log, Kept}
    BY DEF Append, Sync, LogFails, AppendReturns, Apply, Flush, PublishFails,
       CheckpointFails, Compact, CompactFails, disk
  <1>4. log' \subseteq log /\ Kept' \subseteq Kept
    BY <1>2, <1>3 DEF Kept
  <1>5. /\ exposed \subseteq exposed'
        /\ exposed \cup InWindow \subseteq exposed' \cup InWindow'
    <2>1. CASE CheckpointFails
      BY <2>1 DEF CheckpointFails
    <2>2. CASE ~CheckpointFails
      <3>1. pc # "checkpoint" /\ exposed' = exposed
        BY <2>2 DEF Append, Sync, LogFails, AppendReturns, Apply, Flush,
           PublishFails, Compact, CompactFails, ghosts
      <3> QED
        BY <3>1 DEF InWindow
    <2> QED
      BY <2>1, <2>2
  <1>6. /\ buffers \subseteq buffers'
        /\ buffers' \cup unapplied' \subseteq buffers \cup unapplied
        /\ RowsIn(buffers)' \cap published \subseteq RowsIn(buffers)
    <2>1. CASE \E e \in unapplied : Apply(e[1], e[2])
      <3>1. PICK e \in unapplied : Apply(e[1], e[2])
        BY <2>1
      <3>2. e = <<e[1], e[2]>>
        BY DEF IInv, TypeOK, Records
      <3>3. /\ buffers' = buffers \cup {e} /\ unapplied' = unapplied \ {e}
            /\ e[1] \notin published
        BY <3>1, <3>2 DEF Apply, IInv, RecordInv, RowsIn
      <3> QED
        BY <3>3 DEF RowsIn
    <2>2. CASE ~ \E e \in unapplied : Apply(e[1], e[2])
      <3>1. buffers' = buffers /\ unapplied' \in {unapplied, {}}
        BY <2>2 DEF Append, Sync, LogFails, AppendReturns, Flush, PublishFails,
           CheckpointFails, Compact, CompactFails, ReturnsError, memory
      <3> QED
        BY <3>1 DEF RowsIn
    <2> QED
      BY <2>1, <2>2
  <1> QED
    BY <1>1, <1>2, <1>4, <1>5, <1>6, DupInvKept

(* A crash excuses what is in the window and what is held back; Open buffers *)
(* what the log still has to replay.                                         *)
LEMMA RestartKeepsDupInv ==
    ASSUME IInv, DupInv, Crash \/ Open
    PROVE  DupInv'
  <1>1. CASE Crash
    <2>1. /\ mode = "up" /\ mode' = "down" /\ buffers' = {}
          /\ exposed' = exposed \cup InWindow \cup HeldBack
          /\ UNCHANGED <<log, checkpoint, published, twice>>
      BY <1>1 DEF Crash
    <2>2. ASSUME NEW e \in Kept, e[1] \in published
          PROVE  e[1] \in exposed'
      <3>1. CASE e[1] \in exposed \cup InWindow
        BY <2>1, <3>1
      <3>2. CASE e[1] \notin exposed \cup InWindow
        <4>1. HeldBackByOther(e)
          BY <2>1, <2>2, <3>2 DEF DupInv, Loose, Kept
        <4>2. e[1] \in HeldBack
          BY <2>2, <4>1 DEF HeldBack, HeldBackByOther
        <4> QED
          BY <2>1, <4>2
      <3> QED
        BY <3>1, <3>2
    <2>3. Kept' = Kept
      BY <2>1 DEF Kept
    <2>4. RowsIn(Kept)' \cap published' \subseteq exposed'
      BY <2>1, <2>2, <2>3 DEF RowsIn
    <2> QED
      BY <2>1, <2>4 DEF DupInv, RowsIn
  <1>2. CASE Open
    <2>1. /\ mode = "down" /\ mode' = "up" /\ buffers' = Kept
          /\ UNCHANGED <<log, checkpoint, published, twice, exposed, unapplied>>
      BY <1>2 DEF Open, disk, ghosts
    <2>2. RowsIn(Kept) \cap published \subseteq exposed
      BY <2>1 DEF DupInv
    <2>3. \A e \in log : ~Loose(e)'
      BY <2>1, <2>2 DEF Loose, Kept, RowsIn
    <2>4. RowsIn(buffers)' = RowsIn(Kept)
      BY <2>1 DEF RowsIn
    <2> QED
      BY <2>1, <2>2, <2>3, <2>4 DEF DupInv
  <1> QED
    BY <1>1, <1>2

(* No other step makes a second copy.                                        *)
LEMMA DupInvNext ==
    ASSUME IInv, DupInv, [Next]_vars
    PROVE  DupInv'
  <1>1. CASE UNCHANGED vars
    BY <1>1 DEF vars, memory, disk, ghosts, DupInv, RowsIn, Kept, InWindow,
       OfDay, Loose, HeldBackByOther, AheadOfItsDay
  <1>2. CASE AppendStep
    BY <1>2, LogRowKeepsDupInv, CallKeepsDupInv DEF AppendStep
  <1>3. CASE FlushStep
    BY <1>3, PublishKeepsDupInv, CheckpointKeepsDupInv, CallKeepsDupInv
    DEF FlushStep
  <1> QED
    BY <1>1, <1>2, <1>3, CallKeepsDupInv, RestartKeepsDupInv DEF Next

(* A row is stored twice, or is in a part and in the blocks, only if its own *)
(* flush ended between publication and checkpoint or a crash came while an   *)
(* older row of another day held the checkpoint back: any number of crashes  *)
(* and failures, any batches, blocks and days.                               *)
THEOREM OnlyExplainedDuplicates == Spec => []DuplicatesExplained
  <1>1. Init => DupInv
    BY DEF Init, DupInv, RowsIn, Kept
  <1>2. DupInv => DuplicatesExplained
    BY DEF DupInv, DuplicatesExplained, InWindow
  <1> QED
    BY <1>1, <1>2, IInvCorrect, DupInvNext, PTL DEF Spec

-----------------------------------------------------------------------------
(* Acknowledged rows.                                                        *)

(* What the calls of this process guarantee: a buffered or logged record is  *)
(* one a replay reads, unless its row is in a part or known to be out of the *)
(* reach of any replay.                                                      *)
Replayable(e) == e \in Kept \/ e[1] \in published \cup unreplayable

BuffersReplayable == \A e \in buffers \cup unapplied : Replayable(e)

(* The first thing Open's scanMaxSeq should give: numbers the checkpoint has *)
(* not passed.                                                               *)
SeqAboveCheckpoint == mode = "up" => checkpoint < nextSeq

(* After a crash: what a replay will bring back.                             *)
AckedDurable ==
    mode = "down" =>
        acked \subseteq RowsIn(Kept) \cup published
                         \cup (IF restarts = 0 THEN {} ELSE unreplayable)

(* No step leaves an acknowledged row in the buffers without a record.       *)
LEMMA BuffersReplayableNext ==
    ASSUME IInv, BuffersReplayable, SeqAboveCheckpoint, [Next]_vars
    PROVE  BuffersReplayable'
  <1>1. ASSUME buffers' \cup unapplied' \subseteq buffers \cup unapplied,
               log' = log \/ log' = Kept, checkpoint' = checkpoint,
               published \subseteq published', unreplayable \subseteq unreplayable'
        PROVE  BuffersReplayable'
    BY <1>1 DEF BuffersReplayable, Replayable, Kept
  <1>2. ASSUME NEW r \in Rows, LogRow(r)
        PROVE  BuffersReplayable'
    <2>1. /\ buffers' = buffers /\ unapplied' = unapplied \cup {<<r, nextSeq>>}
          /\ checkpoint' = checkpoint /\ published' = published
          /\ log \subseteq log' /\ unreplayable \subseteq unreplayable'
          /\ <<r, nextSeq>> \in log' \/ r \in unreplayable'
          /\ checkpoint < nextSeq
      BY <1>2 DEF LogRow, IInv, CallInv, TypeOK, SeqAboveCheckpoint
    <2> QED
      BY <2>1 DEF BuffersReplayable, Replayable, Kept
  <1>3. ASSUME NEW e \in unapplied, Apply(e[1], e[2])
        PROVE  BuffersReplayable'
    <2>1. e = <<e[1], e[2]>>
      BY DEF IInv, TypeOK, Records
    <2> QED
      BY <1>1, <1>3, <2>1 DEF Apply, disk, ghosts
  <1>4. CASE Checkpoint
    <2>1. /\ buffers' = buffers \ OfDay(day, buffers) /\ unapplied' = unapplied
          /\ checkpoint' \in {checkpoint, NewCheckpoint}
          /\ unreplayable' = unreplayable \cup
                                RowsIn({e \in unapplied : e[2] <= checkpoint'})
          /\ UNCHANGED <<log, published>>
      BY <1>4 DEF Checkpoint
    <2>2. \A e \in buffers' : e[2] > NewCheckpoint
      BY <2>1, NewCheckpointBelow DEF IInv
    <2>3. checkpoint' \in Nat /\ checkpoint \in Nat
      BY <2>1, NewCheckpointBelow DEF IInv, TypeOK
    <2>4. ASSUME NEW e \in buffers' PROVE Replayable(e)'
      BY <2>1, <2>2 DEF BuffersReplayable, Replayable, Kept
    <2>5. ASSUME NEW e \in unapplied PROVE Replayable(e)'
      <3>1. e[2] \in Nat
        BY RecordParts DEF IInv, Recs
      <3> QED
        BY <2>1, <2>3, <3>1 DEF BuffersReplayable, Replayable, Kept, RowsIn
    <2> QED
      BY <2>1, <2>4, <2>5 DEF BuffersReplayable
  <1>5. CASE Crash \/ Open
    <2>1. CASE Crash
      BY <2>1 DEF Crash, BuffersReplayable
    <2>2. CASE Open
      <3>1. buffers' = Kept /\ unapplied' = unapplied /\ unapplied = {}
        BY <2>2 DEF Open, IInv, CallInv, RowsIn
      <3>2. Kept' = Kept
        BY <2>2 DEF Open, Kept, disk
      <3> QED
        BY <3>1, <3>2 DEF BuffersReplayable, Replayable
    <2> QED
      BY <1>5, <2>1, <2>2
  <1>6. CASE \/ \E B \in SUBSET Rows : Append(B)
             \/ Sync \/ LogFails \/ AppendReturns
             \/ Flush \/ \E d \in Days : Publish(d)
             \/ UNCHANGED vars
    BY <1>1, <1>6 DEF Append, Sync, LogFails, AppendReturns, Flush, Publish,
       ReturnsError, vars, memory, disk, ghosts
  <1>7. CASE PublishFails \/ CheckpointFails \/ Compact \/ CompactFails
    BY <1>1, <1>7 DEF PublishFails, CheckpointFails, Compact, CompactFails,
       ReturnsError, memory, disk, ghosts
  <1> QED
    BY <1>2, <1>3, <1>4, <1>5, <1>6, <1>7 DEF Next, AppendStep, FlushStep

(* A step of a running storage loses no acknowledged row from view: a row    *)
(* leaves the blocks at a checkpoint only, and then it is in a part.         *)
LEMMA RunKeepsAcked ==
    ASSUME IInv, AckedVisible, mode = "up", [Next]_vars, ~Crash
    PROVE  AckedVisible' /\ mode' = "up" /\ restarts' = restarts
  <1>1. mode' = "up" /\ restarts' = restarts
    BY DEF Next, AppendStep, FlushStep, Append, LogRow, Sync, LogFails, Apply,
       AppendReturns, Flush, Publish, PublishFails, Checkpoint, CheckpointFails,
       Compact, CompactFails, Open, vars, memory, disk, ghosts
  <1>2. ASSUME acked' = acked, published \subseteq published',
               unreplayable \subseteq unreplayable',
               RowsIn(buffers) \subseteq RowsIn(buffers)' \cup published'
        PROVE  AckedVisible'
    BY <1>1, <1>2 DEF AckedVisible
  <1>3. CASE AppendReturns
    <2>1. /\ batch \subseteq RowsIn(buffers) \cup published
          /\ acked' = acked \cup batch
          /\ UNCHANGED <<buffers, published, unreplayable>>
      BY <1>3 DEF AppendReturns, IInv, CallInv, RowsIn, disk
    <2> QED
      BY <1>1, <2>1 DEF AckedVisible, RowsIn
  <1>4. CASE Checkpoint
    <2>1. /\ buffers' = buffers \ OfDay(day, buffers)
          /\ RowsIn(OfDay(day, buffers)) \subseteq published
          /\ unreplayable \subseteq unreplayable' /\ UNCHANGED <<acked, published>>
      BY <1>4 DEF Checkpoint, IInv, CallInv
    <2>2. RowsIn(buffers) \subseteq RowsIn(buffers)' \cup published'
      BY <2>1 DEF RowsIn
    <2> QED
      BY <1>1, <1>2, <2>1, <2>2
  <1>5. CASE ~AppendReturns /\ ~Checkpoint
    <2>1. /\ acked' = acked /\ published \subseteq published'
          /\ unreplayable \subseteq unreplayable' /\ buffers \subseteq buffers'
      BY <1>5 DEF Next, AppendStep, FlushStep, Append, LogRow, Sync, LogFails,
         Apply, Flush, Publish, PublishFails, CheckpointFails, Compact,
         CompactFails, Open, vars, memory, disk, ghosts
    <2> QED
      BY <1>1, <1>2, <2>1 DEF RowsIn
  <1> QED
    BY <1>3, <1>4, <1>5

(* A crash of a storage whose buffers are replayable, and the next Open.     *)
LEMMA CrashKeepsAcked ==
    ASSUME IInv, AckedVisible, BuffersReplayable, Crash
    PROVE  AckedVisible' /\ AckedDurable'
  <1>1. /\ mode = "up" /\ mode' = "down" /\ restarts' = restarts + 1
        /\ restarts \in Nat
        /\ UNCHANGED <<log, checkpoint, published, acked, unreplayable>>
    BY WalAssumption DEF Crash, IInv, TypeOK
  <1>2. RowsIn(buffers) \subseteq RowsIn(Kept) \cup published \cup unreplayable
    BY DEF BuffersReplayable, Replayable, RowsIn
  <1>3. Kept' = Kept
    BY <1>1 DEF Kept
  <1>4. acked' \subseteq RowsIn(Kept)' \cup published' \cup unreplayable'
    BY <1>1, <1>2, <1>3 DEF AckedVisible, RowsIn
  <1> QED
    BY <1>1, <1>4 DEF AckedVisible, AckedDurable

(* While the process is down the files keep the acknowledged rows.           *)
LEMMA DownKeepsAcked ==
    ASSUME IInv, AckedDurable, mode = "down", [Next]_vars
    PROVE  /\ AckedVisible' /\ AckedDurable' /\ restarts' = restarts
           /\ Open \/ UNCHANGED vars
  <1>1. Open \/ UNCHANGED vars
    BY DEF IInv, CallInv, Next, AppendStep, FlushStep, Append, LogRow, Sync,
       LogFails, Apply, AppendReturns, Flush, Publish, PublishFails, Checkpoint,
       CheckpointFails, Compact, CompactFails, Crash
  <1>2. CASE Open
    <2>1. /\ mode' = "up" /\ buffers' = Kept
          /\ UNCHANGED <<log, checkpoint, published, acked, unreplayable, restarts>>
      BY <1>2 DEF Open, disk, ghosts
    <2> QED
      BY <1>2, <2>1 DEF AckedVisible, AckedDurable, RowsIn
  <1>3. CASE UNCHANGED vars
    BY <1>3 DEF vars, memory, disk, ghosts, AckedVisible, AckedDurable, RowsIn, Kept
  <1> QED
    BY <1>1, <1>2, <1>3

(* No step loses an acknowledged row, if a crash finds the buffers in the    *)
(* log.                                                                      *)
LEMMA AckedNext ==
    ASSUME IInv, AckedVisible, AckedDurable, [Next]_vars,
           Crash => BuffersReplayable
    PROVE  AckedVisible' /\ AckedDurable'
  <1>1. CASE Crash
    BY <1>1, CrashKeepsAcked
  <1>2. CASE mode = "up" /\ ~Crash
    BY <1>2, RunKeepsAcked DEF AckedDurable
  <1>3. CASE mode = "down"
    BY <1>3, DownKeepsAcked
  <1> QED
    BY <1>1, <1>2, <1>3 DEF IInv, TypeOK

(* If every Open numbers its records above the checkpoint, no number of      *)
(* crashes and failures loses an acknowledged row but the unreplayable ones: *)
(* the restarted numbering is the only other way to lose one.                *)
THEOREM AckedSafeAboveCheckpoint ==
    Spec /\ []SeqAboveCheckpoint => []AckedVisible
  <1>1. Init => BuffersReplayable /\ AckedVisible /\ AckedDurable
    BY DEF Init, BuffersReplayable, AckedVisible, AckedDurable
  <1> QED
    BY <1>1, IInvCorrect, BuffersReplayableNext, AckedNext, PTL DEF Spec

(* The first process starts below every number it will use.                  *)
FirstRunInv ==
    /\ restarts = 0 => /\ BuffersReplayable /\ SeqAboveCheckpoint
                       /\ mode = "down" => checkpoint = 0
    /\ restarts <= 1 => AckedVisible /\ AckedDurable

(* What holds before the first restart yields what holds until the second.   *)
LEMMA FirstRunInvNext ==
    ASSUME IInv, FirstRunInv, [Next]_vars
    PROVE  FirstRunInv'
  <1>1. restarts \in Nat
    BY WalAssumption DEF IInv, TypeOK
  <1>2. restarts' = restarts \/ (Crash /\ restarts' = restarts + 1)
    BY DEF Next, AppendStep, FlushStep, Append, LogRow, Sync, LogFails, Apply,
       AppendReturns, Flush, Publish, PublishFails, Checkpoint, CheckpointFails,
       Compact, CompactFails, Crash, Open, vars, memory, disk, ghosts
  <1>3. ASSUME restarts' <= 1
        PROVE  AckedVisible' /\ AckedDurable'
    <2>1. Crash => restarts' = restarts + 1
      BY DEF Crash
    <2>2. restarts <= 1 /\ (Crash => restarts = 0)
      BY <1>1, <1>2, <1>3, <2>1
    <2> QED
      BY <2>2, AckedNext DEF FirstRunInv
  <1>4. ASSUME restarts' = 0
        PROVE  /\ BuffersReplayable' /\ SeqAboveCheckpoint'
               /\ mode' = "down" => checkpoint' = 0
    <2>1. restarts = 0 /\ ~Crash
      BY <1>1, <1>2, <1>4 DEF Crash
    <2>2. BuffersReplayable'
      BY <2>1, BuffersReplayableNext DEF FirstRunInv
    <2>3. CASE mode = "down"
      <3>1. checkpoint = 0 /\ (Open \/ UNCHANGED vars)
        BY <1>1, <2>1, <2>3, DownKeepsAcked DEF FirstRunInv
      <3>2. CASE Open
        BY <3>1, <3>2, <2>2, FirstSeqAbove DEF Open, disk, IInv,
           SeqAboveCheckpoint
      <3>3. CASE UNCHANGED vars
        BY <2>2, <2>3, <3>1, <3>3 DEF vars, memory, disk, SeqAboveCheckpoint
      <3> QED
        BY <3>1, <3>2, <3>3
    <2>4. CASE mode = "up"
      <3>1. checkpoint < nextSeq /\ AckedVisible
        BY <2>1, <2>4 DEF FirstRunInv, SeqAboveCheckpoint
      <3>2. mode' = "up"
        BY <2>1, <2>4, <3>1, RunKeepsAcked
      <3>3. CASE Checkpoint
        <4>1. checkpoint' < nextSeq'
          BY <3>1, <3>3, NewCheckpointBelow DEF Checkpoint, IInv
        <4> QED
          BY <2>2, <3>2, <4>1 DEF SeqAboveCheckpoint
      <3>4. CASE ~Checkpoint
        <4>1. checkpoint' = checkpoint /\ nextSeq' \in {nextSeq, nextSeq + 1}
          BY <2>1, <2>4, <3>4 DEF Next, AppendStep, FlushStep, Append, LogRow,
             Sync, LogFails, Apply, AppendReturns, Flush, Publish, PublishFails,
             CheckpointFails, Compact, CompactFails, Open, vars, memory, disk
        <4>2. checkpoint' < nextSeq'
          BY <3>1, <4>1 DEF IInv, TypeOK
        <4> QED
          BY <2>2, <3>2, <4>2 DEF SeqAboveCheckpoint
      <3> QED
        BY <3>3, <3>4
    <2> QED
      BY <2>3, <2>4 DEF IInv, TypeOK
  <1> QED
    BY <1>3, <1>4 DEF FirstRunInv

(* Through its first crash or shutdown and until the next one, a storage     *)
(* loses no acknowledged row but the unreplayable ones: whatever fails,      *)
(* whatever is flushed, for any batches, blocks and days.                    *)
THEOREM AckedSurvivesOneRestart == Spec => [](restarts <= 1 => AckedVisible)
  <1>1. Init => FirstRunInv
    BY DEF Init, FirstRunInv, BuffersReplayable, SeqAboveCheckpoint,
       AckedVisible, AckedDurable
  <1>2. FirstRunInv => (restarts <= 1 => AckedVisible)
    BY DEF FirstRunInv
  <1> QED
    BY <1>1, <1>2, IInvCorrect, FirstRunInvNext, PTL DEF Spec
=============================================================================
