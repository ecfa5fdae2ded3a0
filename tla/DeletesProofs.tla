---------------------------- MODULE DeletesProofs ----------------------------
(* Proofs about Deletes for every set of rows, days, predicates and specs    *)
(* and every bound: what a tombstone hides, what stays hidden and what never *)
(* disappears unasked.                                                       *)
EXTENDS Deletes, FiniteSetTheorems, TLAPS

-----------------------------------------------------------------------------
(* Lowest and Highest.                                                       *)

(* The least-number principle, from the library's well-foundedness of <.     *)
LEMMA LowestInSet ==
    ASSUME NEW S \in SUBSET Nat, S # {}
    PROVE  Lowest(S) \in S /\ \A n \in S : Lowest(S) <= n
  <1> DEFINE R == {ss \in Nat \X Nat : ss[1] < ss[2]}
  <1>1. R = OpToRel(<, Nat)
    BY DEF OpToRel
  <1>2. IsWellFoundedOn(R, Nat)
    BY <1>1, NatLessThanWellFounded
  <1> HIDE DEF R
  <1>3. \E m \in S : \A n \in S : ~ (<<n, m>> \in R)
    BY <1>2, WFMin
  <1>4. \A m, n \in Nat : <<n, m>> \notin R => m <= n
    BY DEF R
  <1>5. \E m \in S : \A n \in S : m <= n
    BY <1>3, <1>4
  <1> QED
    BY <1>5 DEF Lowest

(* A bounded set has a highest member: the distances from the bound have a   *)
(* lowest one.                                                               *)
LEMMA HighestInSet ==
    ASSUME NEW S \in SUBSET Nat, S # {}, NEW bound \in Nat,
           \A n \in S : n <= bound
    PROVE  Highest(S) \in S /\ \A n \in S : n <= Highest(S)
  <1> DEFINE T == {bound - n : n \in S}
  <1>1. \A n \in S : bound - n \in Nat
    OBVIOUS
  <1>2. T \in SUBSET Nat /\ T # {}
    BY <1>1
  <1>3. PICK m \in S : Lowest(T) = bound - m
    BY <1>2, LowestInSet
  <1>4. \A n \in S : bound - m <= bound - n
    BY <1>2, <1>3, LowestInSet
  <1>5. \A n \in S : n <= m
    BY <1>4
  <1> QED
    BY <1>5 DEF Highest

-----------------------------------------------------------------------------
(* Tombstones and the rows they hide.                                        *)

Tombs == [id : Nat \ {0}, start : Nat, end : Nat, rest : Preds \cup {NoPred}]

HidesBy(tombs, r) == \E i \in DOMAIN tombs : HidesEntry(tombs[i], r)

IncreasingIds(tombs) ==
    \A i, j \in DOMAIN tombs : i < j => tombs[i].id < tombs[j].id

(* A bound becomes a number, and a bound other than the epoch itself.        *)
LEMMA BoundAsNS ==
    ASSUME NEW bound \in SUBSET Nat, \A t, u \in bound : t = u
    PROVE  /\ AsNS(bound) \in Nat
           /\ bound = {} => AsNS(bound) = 0
           /\ \A t \in bound : AsNS(bound) = t
  BY DEF AsNS

(* A delete record is a tombstone.                                           *)
LEMMA RecordIsTomb ==
    ASSUME NEW s \in Specs, NEW n \in Nat
    PROVE  /\ Record(n, s).id = n
           /\ Record(n, s).start = AsNS(s.start)
           /\ Record(n, s).end = AsNS(s.end)
           /\ Record(n, s).rest = s.rest
           /\ n # 0 => Record(n, s) \in Tombs
  <1>1. AsNS(s.start) \in Nat /\ AsNS(s.end) \in Nat /\ s.rest \in Preds \cup {NoPred}
    BY BoundAsNS, DeletesAssumption DEF Bounds
  <1> QED
    BY <1>1 DEF Record, Tombs

(* A tombstone hides every row its delete asked for.                         *)
LEMMA RequestedIsHidden ==
    ASSUME NEW s \in Specs, NEW n \in Nat, NEW r \in Rows, Requested(s, r)
    PROVE  HidesEntry(Record(n, s), r)
  <1>1. /\ s.start \in SUBSET Nat /\ \A t, u \in s.start : t = u
        /\ s.end \in SUBSET Nat /\ \A t, u \in s.end : t = u
    BY DeletesAssumption DEF Bounds
  <1>2. AsNS(s.start) # 0 => AsNS(s.start) \in s.start
    BY <1>1, BoundAsNS
  <1>3. AsNS(s.end) # 0 => AsNS(s.end) \in s.end
    BY <1>1, BoundAsNS
  <1> QED
    BY <1>2, <1>3, RecordIsTomb DEF HidesEntry, Requested

(* It hides no other, unless a bound lies at the epoch.                      *)
LEMMA HiddenIsRequested ==
    ASSUME NEW s \in Specs, NEW n \in Nat, NEW r \in Rows,
           HidesEntry(Record(n, s), r), 0 \notin Bounds(s)
    PROVE  Requested(s, r)
  <1>1. /\ s.start \in SUBSET Nat /\ \A t, u \in s.start : t = u
        /\ s.end \in SUBSET Nat /\ \A t, u \in s.end : t = u
    BY DeletesAssumption DEF Bounds
  <1>2. \A t \in s.start : AsNS(s.start) = t /\ t # 0
    BY <1>1, BoundAsNS DEF Bounds
  <1>3. \A t \in s.end : AsNS(s.end) = t /\ t # 0
    BY <1>1, BoundAsNS DEF Bounds
  <1> QED
    BY <1>2, <1>3, RecordIsTomb DEF HidesEntry, Requested

(* The day of a row a delete asks for overlaps the window of the delete.     *)
LEMMA RequestedDayOverlaps ==
    ASSUME NEW s \in Specs, NEW r \in Rows, Requested(s, r)
    PROVE  OverlapsWindow(DayOf(r), s)
  <1>1. /\ DayOf(r) * DayLen <= TimeOf[r]
        /\ TimeOf[r] <= DayOf(r) * DayLen + DayLen - 1
    BY DeletesAssumption DEF DayOf
  <1>2. DayOf(r) * DayLen \in Int /\ TimeOf[r] \in Int /\ DayLen \in Int
    BY DeletesAssumption DEF DayOf
  <1>3. Bounds(s) \subseteq Nat
    BY DeletesAssumption
  <1> QED
    BY <1>1, <1>2, <1>3 DEF OverlapsWindow, Requested, Bounds

(* One more tombstone.                                                       *)
LEMMA AppendTomb ==
    ASSUME NEW tombs \in Seq(Tombs), NEW rec \in Tombs
    PROVE  /\ Append(tombs, rec) \in Seq(Tombs)
           /\ \A i \in DOMAIN Append(tombs, rec) :
                  \/ i \in DOMAIN tombs /\ Append(tombs, rec)[i] = tombs[i]
                  \/ Append(tombs, rec)[i] = rec
           /\ \A r : HidesBy(Append(tombs, rec), r)
                        <=> HidesBy(tombs, r) \/ HidesEntry(rec, r)
           /\ IncreasingIds(tombs) /\ (\A i \in DOMAIN tombs : tombs[i].id < rec.id)
                 => IncreasingIds(Append(tombs, rec))
  <1> DEFINE more == Append(tombs, rec)
  <1>1. /\ more \in Seq(Tombs) /\ Len(more) = Len(tombs) + 1
        /\ DOMAIN more = 1..(Len(tombs) + 1) /\ DOMAIN tombs = 1..Len(tombs)
        /\ \A i \in 1..Len(tombs) : more[i] = tombs[i]
        /\ more[Len(tombs) + 1] = rec /\ Len(tombs) \in Nat
    OBVIOUS
  <1> HIDE DEF more
  <1>2. \A i \in DOMAIN more : \/ i \in DOMAIN tombs /\ more[i] = tombs[i]
                               \/ i = Len(tombs) + 1 /\ more[i] = rec
    BY <1>1
  <1>3. DOMAIN tombs \subseteq DOMAIN more /\ Len(tombs) + 1 \in DOMAIN more
    BY <1>1
  <1>4. ASSUME NEW r
        PROVE  HidesBy(more, r) <=> HidesBy(tombs, r) \/ HidesEntry(rec, r)
    <2>1. ASSUME HidesBy(more, r)
          PROVE  HidesBy(tombs, r) \/ HidesEntry(rec, r)
      BY <1>2, <2>1 DEF HidesBy
    <2>2. ASSUME HidesBy(tombs, r) PROVE HidesBy(more, r)
      BY <1>1, <1>3, <2>2 DEF HidesBy
    <2>3. ASSUME HidesEntry(rec, r) PROVE HidesBy(more, r)
      BY <1>1, <1>3, <2>3 DEF HidesBy
    <2> QED
      BY <2>1, <2>2, <2>3
  <1>5. ASSUME IncreasingIds(tombs), \A i \in DOMAIN tombs : tombs[i].id < rec.id
        PROVE  IncreasingIds(more)
    BY <1>1, <1>5 DEF IncreasingIds
  <1> QED
    BY <1>1, <1>2, <1>4, <1>5 DEF more

-----------------------------------------------------------------------------
(* The inductive invariant.                                                  *)

(* The shape of what TypeOK leaves open.                                     *)
ShapeInv ==
    /\ deletes \in [Days -> Seq(Tombs)] /\ tombFile \in [Days -> Seq(Tombs)]
    /\ call \in [spec : SUBSET Specs, todo : SUBSET Days, victims : SUBSET Rows]
    /\ drops \in Nat
    /\ \E n \in Nat : \A e \in log : e[2] <= n

(* The rows of part directories no list in memory names.                     *)
Unlisted(d) == leftover[d] \cup orphans[d]

(* Where rows can be: in their own day, and only when they were appended.    *)
RowInv ==
    /\ RowsIn(buffers) \cup RowsIn(log) \cup call.victims \subseteq acked
    /\ \A d \in Days : /\ \A r \in parts[d] \cup Unlisted(d) :
                              r \in acked /\ DayOf(r) = d
                       /\ Unlisted(d) # {} => d \in dayDir
    /\ \A x \in merges : \A r \in x.rows : r \in acked /\ DayOf(r) = x.day
    /\ ~enableWAL => log = {}

(* deletes.json and its copy in memory: every tombstone is the record of a   *)
(* delete some client asked for.                                             *)
TombInv ==
    /\ \A d \in Days :
          /\ IncreasingIds(tombFile[d])
          /\ \A i \in DOMAIN tombFile[d] :
                \E s \in issued : tombFile[d][i] = Record(tombFile[d][i].id, s)
          /\ mode = "up" => \/ deletes[d] = tombFile[d]
                            \/ drops > 0 /\ deletes[d] = << >>
    /\ call.spec \subseteq issued

IInv == TypeOK /\ ShapeInv /\ RowInv /\ TombInv

(* The invariant at the start.                                               *)
LEMMA InitIInv == Init => IInv
  <1> SUFFICES ASSUME Init PROVE IInv
    OBVIOUS
  <1>1. << >> \in Seq(Tombs) /\ DOMAIN << >> = {}
    OBVIOUS
  <1>2. TypeOK
    BY <1>1, DeletesAssumption DEF Init, TypeOK, NoCall
  <1>3. ShapeInv
    BY <1>1 DEF Init, ShapeInv, NoCall
  <1>4. RowInv
    BY DEF Init, RowInv, NoCall, RowsIn, Unlisted
  <1>5. TombInv
    BY <1>1 DEF Init, TombInv, NoCall, IncreasingIds
  <1> QED
    BY <1>2, <1>3, <1>4, <1>5 DEF IInv

(* An append keeps it.                                                       *)
LEMMA AppendKeepsIInv ==
    ASSUME IInv, NEW r \in Rows, Append1(r)
    PROVE  IInv'
  <1>1. /\ acked' = acked \cup {r}
        /\ buffers' \subseteq buffers \cup {<<r, nextSeq>>, <<r, 0>>}
        /\ log' \subseteq log \cup {<<r, nextSeq>>} /\ (~enableWAL => log' = log)
        /\ nextSeq' \in {nextSeq, nextSeq + 1}
        /\ nextSeq \in Nat \ {0}
        /\ UNCHANGED <<mode, parts, deletes, deleteSeq, merges, call, enableWAL,
                       dayDir, leftover, orphans, tombFile, checkpoint, issued,
                       deleted, loose, gone, restarts, faults, drops>>
    BY DEF Append1, IInv, TypeOK
  <1>2. TypeOK'
    BY <1>1 DEF IInv, TypeOK
  <1>3. ShapeInv'
    <2>1. PICK n \in Nat : \A e \in log : e[2] <= n
      BY DEF IInv, ShapeInv
    <2>2. \A e \in log : e[2] \in Nat
      BY DEF IInv, TypeOK
    <2>3. \A e \in log' : e[2] <= n + nextSeq
      BY <1>1, <2>1, <2>2
    <2>4. n + nextSeq \in Nat
      BY <1>1
    <2>5. \E k \in Nat : \A e \in log' : e[2] <= k
      BY <2>3, <2>4
    <2> QED
      BY <1>1, <2>5 DEF IInv, ShapeInv
  <1>4. RowInv'
    BY <1>1 DEF IInv, RowInv, RowsIn, Unlisted
  <1>5. TombInv'
    BY <1>1 DEF IInv, TombInv
  <1> QED
    BY <1>2, <1>3, <1>4, <1>5 DEF IInv

(* A new manifest.json changes what the next Open lists, not what there is.  *)
LEMMA NewManifestFrame ==
    ASSUME IInv, NEW d \in Days, NewManifest(d)
    PROVE  /\ {leftover', orphans'} \subseteq [Days -> SUBSET Rows]
           /\ leftover'[d] = {}
           /\ \A c \in Days : Unlisted(c)' = Unlisted(c)
  <1>1. {leftover, orphans} \subseteq [Days -> SUBSET Rows]
    BY DEF IInv, TypeOK
  <1>2. /\ leftover'[d] = {} /\ orphans'[d] = orphans[d] \cup leftover[d]
        /\ \A c \in Days \ {d} : leftover'[c] = leftover[c] /\ orphans'[c] = orphans[c]
    BY <1>1 DEF NewManifest
  <1> QED
    BY <1>1, <1>2 DEF NewManifest, Unlisted

(* What a flush does to the checkpoint and the log.                          *)
LEMMA FlushCheckpoint ==
    ASSUME IInv, NEW d \in Days, FlushDay(d)
    PROVE  /\ checkpoint' \in Nat /\ checkpoint <= checkpoint'
           /\ log' \subseteq log /\ Kept' \subseteq Kept
  <1> DEFINE S == {nextSeq} \cup Seqs(buffers \ OfDay(d, buffers))
  <1>1. S \in SUBSET Nat /\ S # {}
    BY DEF IInv, TypeOK, Seqs
  <1>2. Lowest(S) \in Nat
    BY <1>1, LowestInSet
  <1>3. \/ /\ checkpoint' = IF Lowest(S) - 1 < checkpoint THEN checkpoint
                                                          ELSE Lowest(S) - 1
           /\ log' = {e \in log : e[2] > checkpoint'}
        \/ UNCHANGED <<checkpoint, log>>
    BY DEF FlushDay
  <1> HIDE DEF S
  <1>4. checkpoint' \in Nat /\ checkpoint \in Nat /\ checkpoint <= checkpoint'
    BY <1>2, <1>3 DEF IInv, TypeOK
  <1>5. log' \subseteq log
    BY <1>3
  <1>6. ASSUME NEW e \in log, e[2] > checkpoint'
        PROVE  e[2] > checkpoint
    BY <1>4, <1>6 DEF IInv, TypeOK
  <1> QED
    BY <1>4, <1>5, <1>6 DEF Kept

(* So does a flush,                                                          *)
LEMMA FlushKeepsIInv ==
    ASSUME IInv, NEW d \in Days, FlushDay(d)
    PROVE  IInv'
  <1>1. /\ parts' = [parts EXCEPT ![d] = @ \cup RowsIn(OfDay(d, buffers))]
        /\ buffers' = buffers \ OfDay(d, buffers)
        /\ dayDir' = dayDir \cup {d}
        /\ UNCHANGED <<mode, deletes, deleteSeq, nextSeq, merges, call, enableWAL,
                       tombFile, ghosts>>
    BY DEF FlushDay
  <1>2. /\ checkpoint' \in Nat /\ log' \subseteq log
        /\ {leftover', orphans'} \subseteq [Days -> SUBSET Rows]
        /\ \A c \in Days : Unlisted(c)' = Unlisted(c)
    BY FlushCheckpoint, NewManifestFrame DEF FlushDay
  <1>3. /\ RowsIn(OfDay(d, buffers)) \subseteq Rows \cap acked
        /\ \A r \in RowsIn(OfDay(d, buffers)) : DayOf(r) = d
    BY DEF IInv, TypeOK, RowInv, RowsIn, OfDay
  <1>4. TypeOK'
    BY <1>1, <1>2, <1>3 DEF IInv, TypeOK, ghosts
  <1>5. ShapeInv'
    BY <1>1, <1>2 DEF IInv, ShapeInv, ghosts
  <1>6. RowInv'
    <2>1. /\ \A r \in parts'[d] : r \in parts[d] \cup RowsIn(OfDay(d, buffers))
          /\ \A c \in Days \ {d} : parts'[c] = parts[c]
      BY <1>1 DEF IInv, TypeOK
    <2>2. \A c \in Days : \A r \in parts'[c] \cup Unlisted(c)' :
              r \in acked /\ DayOf(r) = c
      BY <1>2, <1>3, <2>1 DEF IInv, RowInv
    <2>3. RowsIn(buffers)' \cup RowsIn(log)' \cup call'.victims \subseteq acked
      BY <1>1, <1>2 DEF IInv, RowInv, RowsIn
    <2> QED
      BY <1>1, <1>2, <2>2, <2>3 DEF IInv, RowInv, ghosts
  <1>7. TombInv'
    BY <1>1 DEF IInv, TombInv, ghosts
  <1> QED
    BY <1>4, <1>5, <1>6, <1>7 DEF IInv

(* A delete stays among the days and rows of the model.                      *)
LEMMA DaysForDeleteTyped ==
    ASSUME TypeOK, NEW s \in Specs
    PROVE  DaysForDelete(s) \subseteq Days
  <1>1. dayDir \subseteq Days
    BY DEF TypeOK
  <1>2. {t \div DayLen : t \in Bounds(s)} \subseteq Days
    BY DeletesAssumption
  <1> QED
    BY <1>1, <1>2 DEF DaysForDelete

(* the beginning of a delete,                                                *)
LEMMA DeleteCallKeepsIInv ==
    ASSUME IInv, NEW s \in Specs, DeleteCall(s)
    PROVE  IInv'
  <1>1. /\ mode = "up" /\ issued' = issued \cup {s}
        /\ buffers' \subseteq buffers
        /\ loose' \subseteq loose \cup RowsIn(buffers)
        /\ UNCHANGED <<mode, parts, deletes, deleteSeq, nextSeq, merges, disk,
                       acked, deleted, gone, restarts, faults, drops>>
    BY DEF DeleteCall, Idle, PurgeMatching, RowsIn
  <1>2. /\ call'.spec = {s} /\ call'.todo = DaysForDelete(s)
        /\ call'.victims \subseteq RowsIn(buffers) \cup UNION {parts[d] : d \in Days}
        /\ call' = [spec |-> call'.spec, todo |-> call'.todo, victims |-> call'.victims]
    BY DEF DeleteCall
  <1>3. call'.todo \subseteq Days
    BY <1>2, DaysForDeleteTyped DEF IInv
  <1>4. call'.victims \subseteq acked /\ acked \subseteq Rows
    BY <1>2 DEF IInv, RowInv, TypeOK
  <1>5. TypeOK'
    BY <1>1, <1>2, <1>3, <1>4 DEF IInv, TypeOK, RowInv, disk
  <1>6. ShapeInv'
    BY <1>1, <1>2, <1>3, <1>4 DEF IInv, ShapeInv, disk
  <1>7. RowInv'
    BY <1>1, <1>4 DEF IInv, RowInv, RowsIn, Unlisted, disk
  <1>8. TombInv'
    BY <1>1, <1>2 DEF IInv, TombInv, disk
  <1> QED
    BY <1>5, <1>6, <1>7, <1>8 DEF IInv

(* The tombstone of a day, new last in the file and in memory.               *)
LEMMA DeleteDayAdds ==
    ASSUME IInv, NEW d \in Days, DeleteDay(d)
    PROVE  \E s \in issued \cap Specs :
              LET rec == Record(deleteSeq[d] + 1, s)
                  cur == Append(deletes[d], rec)
              IN  /\ call.spec = {s} /\ rec \in Tombs /\ rec.id = deleteSeq[d] + 1
                  /\ deletes[d] \in Seq(Tombs)
                  /\ tombFile' = [tombFile EXCEPT ![d] = cur]
                  /\ deletes' = [deletes EXCEPT ![d] = cur]
  <1>1. d \in call.todo /\ deleteSeq[d] \in Nat
    BY DEF DeleteDay, IInv, TypeOK
  <1>2. call # NoCall
    BY <1>1 DEF NoCall
  <1>3. PICK s \in Specs : call.spec = {s}
    BY <1>2 DEF IInv, TypeOK
  <1>4. s = (CHOOSE x \in call.spec : TRUE) /\ s \in issued
    BY <1>3 DEF IInv, TombInv
  <1>5. /\ Record(deleteSeq[d] + 1, s) \in Tombs
        /\ Record(deleteSeq[d] + 1, s).id = deleteSeq[d] + 1
    BY <1>1, RecordIsTomb
  <1>6. deletes[d] \in Seq(Tombs)
    BY DEF IInv, ShapeInv
  <1> QED
    BY <1>3, <1>4, <1>5, <1>6 DEF DeleteDay

(* its work on one day,                                                      *)
LEMMA DeleteDayKeepsIInv ==
    ASSUME IInv, NEW d \in Days, DeleteDay(d)
    PROVE  IInv'
  <1>1. PICK s \in issued \cap Specs :
            LET rec == Record(deleteSeq[d] + 1, s)
                cur == Append(deletes[d], rec)
            IN  /\ call.spec = {s} /\ rec \in Tombs /\ rec.id = deleteSeq[d] + 1
                /\ deletes[d] \in Seq(Tombs)
                /\ tombFile' = [tombFile EXCEPT ![d] = cur]
                /\ deletes' = [deletes EXCEPT ![d] = cur]
    BY DeleteDayAdds
  <1> DEFINE rec == Record(deleteSeq[d] + 1, s)
             cur == Append(deletes[d], rec)
  <1>2. /\ mode = "up" /\ deleteSeq' = [deleteSeq EXCEPT ![d] = @ + 1]
        /\ dayDir' = dayDir \cup {d} /\ call' = [call EXCEPT !.todo = @ \ {d}]
        /\ loose' \subseteq loose \cup Unlisted(d) \cup RowsIn(OfDay(d, Kept))
        /\ UNCHANGED <<mode, buffers, parts, nextSeq, merges, enableWAL, leftover,
                       orphans, log, checkpoint, acked, issued, deleted, gone,
                       restarts, faults, drops>>
    <2>1. call # NoCall
      BY DEF DeleteDay, NoCall
    <2> QED
      BY <2>1 DEF DeleteDay, IInv, TypeOK, Unlisted
  <1>3. /\ rec \in Tombs /\ rec.id = deleteSeq[d] + 1 /\ deletes[d] \in Seq(Tombs)
        /\ tombFile' = [tombFile EXCEPT ![d] = cur]
        /\ deletes' = [deletes EXCEPT ![d] = cur]
        /\ call.spec = {s} /\ deleteSeq[d] \in Nat
    BY <1>1 DEF IInv, TypeOK
  <1>4. /\ cur \in Seq(Tombs)
        /\ \A i \in DOMAIN cur : \/ i \in DOMAIN deletes[d] /\ cur[i] = deletes[d][i]
                                 \/ cur[i] = rec
        /\ IncreasingIds(deletes[d]) => IncreasingIds(cur)
        /\ cur # << >>
    <2>1. \A i \in DOMAIN deletes[d] : deletes[d][i].id \in 1..deleteSeq[d]
      BY DEF IInv, TypeOK
    <2>2. \A i \in DOMAIN deletes[d] : deletes[d][i].id < rec.id
      BY <1>3, <2>1
    <2>3. cur # << >>
      BY <1>3
    <2> QED
      BY <1>3, <2>2, <2>3, AppendTomb
  <1>5. rec = Record(rec.id, s)
    BY <1>3
  <1> HIDE DEF rec, cur
  <1>6. /\ deletes'[d] = cur /\ tombFile'[d] = cur /\ deleteSeq'[d] = deleteSeq[d] + 1
        /\ \A c \in Days \ {d} : /\ deletes'[c] = deletes[c]
                                 /\ tombFile'[c] = tombFile[c]
                                 /\ deleteSeq'[c] = deleteSeq[c]
    BY <1>2, <1>3 DEF IInv, TypeOK, ShapeInv
  <1>7. /\ call'.spec = call.spec /\ call'.todo \subseteq call.todo
        /\ call'.victims = call.victims
        /\ call' \in [spec : SUBSET Specs, todo : SUBSET Days, victims : SUBSET Rows]
    BY <1>2 DEF IInv, ShapeInv
  <1>8. Unlisted(d) \cup RowsIn(OfDay(d, Kept)) \subseteq acked
    BY DEF IInv, RowInv, RowsIn, OfDay, Kept
  <1>9. TypeOK'
    <2>1. \A c \in Days : \A i \in DOMAIN deletes'[c] :
              deletes'[c][i].id \in 1..deleteSeq'[c]
      <3>1. \A i \in DOMAIN cur : cur[i].id \in 1..(deleteSeq[d] + 1)
        BY SMTT(40), <1>3, <1>4 DEF IInv, TypeOK
      <3> QED
        BY <1>6, <3>1 DEF IInv, TypeOK
    <2>2. deleteSeq' \in [Days -> Nat]
      BY <1>2 DEF IInv, TypeOK
    <2>3. \A c \in Days : parts'[c] # {} \/ tombFile'[c] # << >> => c \in dayDir'
      BY <1>2, <1>6 DEF IInv, TypeOK
    <2>4. mode' = "up" /\ \E x \in Specs : call'.spec = {x}
      BY <1>2, <1>3, <1>7
    <2> QED
      BY <1>2, <1>7, <1>8, <2>1, <2>2, <2>3, <2>4 DEF IInv, TypeOK
  <1>10. ShapeInv'
    BY <1>2, <1>3, <1>4, <1>7 DEF IInv, ShapeInv
  <1>11. RowInv'
    BY <1>2, <1>7 DEF IInv, RowInv, Unlisted
  <1>12. TombInv'
    <2>1. deletes[d] = tombFile[d] \/ deletes[d] = << >>
      BY <1>2 DEF IInv, TombInv
    <2>2. IncreasingIds(deletes[d])
      BY <2>1 DEF IInv, TombInv, IncreasingIds
    <2>3. \A i \in DOMAIN cur : \E x \in issued : cur[i] = Record(cur[i].id, x)
      BY <1>1, <1>4, <1>5, <2>1 DEF IInv, TombInv
    <2> QED
      BY <1>2, <1>4, <1>6, <1>7, <2>2, <2>3 DEF IInv, TombInv
  <1> QED
    BY <1>9, <1>10, <1>11, <1>12 DEF IInv

(* A call that ends, well or not, leaves the tombstones as they are.         *)
LEMMA CallEndsKeepsIInv ==
    ASSUME IInv, DeleteReturns \/ \E d \in Days : DeleteDayFails(d)
    PROVE  IInv'
  <1>1. /\ call' = NoCall /\ call'.todo = {} /\ call'.victims = {} /\ call'.spec = {}
        /\ UNCHANGED <<mode, buffers, parts, deletes, nextSeq, merges, enableWAL,
                       leftover, orphans, tombFile, log, checkpoint, acked, issued,
                       loose, gone, restarts, drops>>
    BY DEF DeleteReturns, DeleteDayFails, NoCall, memory, disk
  <1>2. /\ deleteSeq' \in [Days -> Nat]
        /\ \A d \in Days : deleteSeq[d] \in Nat /\ deleteSeq[d] <= deleteSeq'[d]
        /\ dayDir \subseteq dayDir' /\ dayDir' \subseteq Days
    <2>1. CASE DeleteReturns
      BY <2>1 DEF DeleteReturns, memory, disk, IInv, TypeOK
    <2>2. ASSUME NEW d \in Days, DeleteDayFails(d)
          PROVE  /\ deleteSeq' \in [Days -> Nat]
                 /\ \A c \in Days : /\ deleteSeq[c] \in Nat
                                    /\ deleteSeq[c] <= deleteSeq'[c]
                 /\ dayDir \subseteq dayDir' /\ dayDir' \subseteq Days
      BY <2>2 DEF DeleteDayFails, IInv, TypeOK
    <2> QED
      BY <2>1, <2>2
  <1>3. deleted' \subseteq acked
    BY DEF DeleteReturns, DeleteDayFails, IInv, TypeOK, RowInv
  <1>4. TypeOK'
    <2>1. \A d \in Days : \A i \in DOMAIN deletes[d] :
              deletes[d][i].id \in 1..deleteSeq'[d]
      BY <1>2 DEF IInv, TypeOK
    <2> QED
      BY <1>1, <1>2, <1>3, <2>1 DEF IInv, TypeOK
  <1>5. ShapeInv'
    BY <1>1 DEF IInv, ShapeInv, NoCall
  <1>6. RowInv'
    BY <1>1, <1>2 DEF IInv, RowInv, Unlisted
  <1>7. TombInv'
    BY <1>1 DEF IInv, TombInv
  <1> QED
    BY <1>4, <1>5, <1>6, <1>7 DEF IInv

(* A drop that stops with an error, wherever it stops.                       *)
DropFails(d) ==
    \E left \in SUBSET (parts[d] \cup leftover[d]), orph \in SUBSET orphans[d] :
        DropDayFails(d, left, orph)

LEMMA DropStepCases == DropStep => \E d \in Days : DropDay(d) \/ DropFails(d)
  BY DEF DropStep, DropFails

(* What a drop leaves of the day: everything hidden by deletes.json, or      *)
(* deletes.json gone and the rest in loose, or nothing.                      *)
LEMMA DropLeaves ==
    ASSUME IInv, NEW d \in Days, DropDay(d) \/ DropFails(d)
    PROVE  /\ {leftover', orphans'} \subseteq [Days -> SUBSET Rows]
           /\ \A c \in Days \ {d} : Unlisted(c)' = Unlisted(c)
           /\ Unlisted(d)' \subseteq parts[d] \cup Unlisted(d)
           /\ \/ /\ dayDir' = dayDir \ {d} /\ Unlisted(d)' = {}
                 /\ tombFile' = [tombFile EXCEPT ![d] = << >>]
                 /\ loose' = loose \cup RowsIn(OfDay(d, Kept))
              \/ /\ d \in dayDir /\ dayDir' = dayDir
                 /\ tombFile' = tombFile /\ loose' = loose
              \/ /\ d \in dayDir /\ dayDir' = dayDir
                 /\ tombFile' = [tombFile EXCEPT ![d] = << >>]
                 /\ loose' = loose \cup Unlisted(d)' \cup RowsIn(OfDay(d, Kept))
  <1>1. /\ {parts, leftover, orphans} \subseteq [Days -> SUBSET Rows]
    BY DEF IInv, TypeOK
  <1>2. CASE DropDay(d)
    <2>1. /\ leftover' = [leftover EXCEPT ![d] = {}]
          /\ orphans' = [orphans EXCEPT ![d] = {}]
      BY <1>2 DEF DropDay
    <2>2. /\ {leftover', orphans'} \subseteq [Days -> SUBSET Rows]
          /\ \A c \in Days \ {d} : leftover'[c] = leftover[c] /\ orphans'[c] = orphans[c]
          /\ leftover'[d] = {} /\ orphans'[d] = {}
      BY <1>1, <2>1
    <2> QED
      BY <1>2, <2>2 DEF DropDay, Unlisted
  <1>3. ASSUME NEW left \in SUBSET (parts[d] \cup leftover[d]),
               NEW orph \in SUBSET orphans[d], DropDayFails(d, left, orph)
        PROVE  /\ {leftover', orphans'} \subseteq [Days -> SUBSET Rows]
               /\ \A c \in Days \ {d} : Unlisted(c)' = Unlisted(c)
               /\ Unlisted(d)' = left \cup orph
    <2>1. left \in SUBSET Rows /\ orph \in SUBSET Rows
      BY <1>1
    <2>2. CASE /\ leftover' = [leftover EXCEPT ![d] = left]
               /\ orphans' = [orphans EXCEPT ![d] = orph]
      <3>1. /\ {leftover', orphans'} \subseteq [Days -> SUBSET Rows]
            /\ \A c \in Days \ {d} : leftover'[c] = leftover[c] /\ orphans'[c] = orphans[c]
            /\ leftover'[d] = left /\ orphans'[d] = orph
        BY <1>1, <2>1, <2>2
      <3> QED
        BY <3>1 DEF Unlisted
    <2>3. CASE /\ leftover' = [leftover EXCEPT ![d] = left \cup orph]
               /\ orphans' = [orphans EXCEPT ![d] = {}]
      <3>1. /\ {leftover', orphans'} \subseteq [Days -> SUBSET Rows]
            /\ \A c \in Days \ {d} : leftover'[c] = leftover[c] /\ orphans'[c] = orphans[c]
            /\ leftover'[d] = left \cup orph /\ orphans'[d] = {}
        BY <1>1, <2>1, <2>3
      <3> QED
        BY <3>1 DEF Unlisted
    <2> QED
      BY <1>3, <2>2, <2>3 DEF DropDayFails
  <1>4. ASSUME NEW left \in SUBSET (parts[d] \cup leftover[d]),
               NEW orph \in SUBSET orphans[d], DropDayFails(d, left, orph)
        PROVE  /\ Unlisted(d)' \subseteq parts[d] \cup Unlisted(d)
               /\ d \in dayDir /\ dayDir' = dayDir
               /\ \/ tombFile' = tombFile /\ loose' = loose
                  \/ /\ tombFile' = [tombFile EXCEPT ![d] = << >>]
                     /\ loose' = loose \cup left \cup orph \cup RowsIn(OfDay(d, Kept))
    <2>1. left \cup orph \subseteq parts[d] \cup Unlisted(d)
      BY DEF Unlisted
    <2>2. Unlisted(d)' = left \cup orph
      BY <1>3, <1>4
    <2> QED
      BY <1>4, <2>1, <2>2 DEF DropDayFails
  <1>5. CASE DropFails(d)
    <2>1. PICK left \in SUBSET (parts[d] \cup leftover[d]), orph \in SUBSET orphans[d] :
              DropDayFails(d, left, orph)
      BY <1>5 DEF DropFails
    <2>2. Unlisted(d)' = left \cup orph
      BY <1>3, <2>1
    <2>3. /\ {leftover', orphans'} \subseteq [Days -> SUBSET Rows]
          /\ \A c \in Days \ {d} : Unlisted(c)' = Unlisted(c)
      BY <1>3, <2>1
    <2>4. /\ Unlisted(d)' \subseteq parts[d] \cup Unlisted(d)
          /\ d \in dayDir /\ dayDir' = dayDir
          /\ \/ tombFile' = tombFile /\ loose' = loose
             \/ /\ tombFile' = [tombFile EXCEPT ![d] = << >>]
                /\ loose' = loose \cup left \cup orph \cup RowsIn(OfDay(d, Kept))
      BY <1>4, <2>1
    <2> QED
      BY <2>2, <2>3, <2>4
  <1> QED
    BY <1>2, <1>5

(* A drop, complete or not: the memory forgets the day.                      *)
LEMMA DropKeepsIInv ==
    ASSUME IInv, NEW d \in Days, DropDay(d) \/ DropFails(d)
    PROVE  IInv'
  <1>1. /\ mode = "up" /\ drops' = drops + 1
        /\ buffers' \subseteq buffers
        /\ parts' = [parts EXCEPT ![d] = {}]
        /\ deletes' = [deletes EXCEPT ![d] = << >>]
        /\ deleteSeq' = [deleteSeq EXCEPT ![d] = 0]
        /\ merges' = {[x EXCEPT !.late = @ \/ x.day = d] : x \in merges}
        /\ gone' = gone \cup parts[d] \cup RowsIn(OfDay(d, buffers))
        /\ UNCHANGED <<mode, nextSeq, call, enableWAL, log, checkpoint, acked,
                       issued, deleted, restarts>>
    BY DEF DropDay, DropFails, DropDayFails, Forget, Idle
  <1>2. /\ {leftover', orphans'} \subseteq [Days -> SUBSET Rows]
        /\ \A c \in Days \ {d} : Unlisted(c)' = Unlisted(c)
        /\ Unlisted(d)' \subseteq parts[d] \cup Unlisted(d)
        /\ loose' \subseteq loose \cup Unlisted(d)' \cup RowsIn(OfDay(d, Kept))
        /\ \/ /\ dayDir' = dayDir \ {d} /\ Unlisted(d)' = {}
              /\ tombFile' = [tombFile EXCEPT ![d] = << >>]
           \/ /\ d \in dayDir /\ dayDir' = dayDir
              /\ tombFile' \in {tombFile, [tombFile EXCEPT ![d] = << >>]}
    BY DropLeaves
  <1>3. /\ << >> \in Seq(Tombs) /\ DOMAIN << >> = {}
        /\ \A c \in Days : /\ tombFile'[c] \in {tombFile[c], << >>}
                           /\ c # d => tombFile'[c] = tombFile[c]
        /\ tombFile' \in [Days -> Seq(Tombs)]
    <2>1. << >> \in Seq(Tombs) /\ DOMAIN << >> = {}
      OBVIOUS
    <2>2. tombFile' = tombFile \/ tombFile' = [tombFile EXCEPT ![d] = << >>]
      BY <1>2
    <2> QED
      BY <2>1, <2>2 DEF IInv, ShapeInv
  <1>4. /\ deletes'[d] = << >> /\ parts'[d] = {}
        /\ \A c \in Days \ {d} : /\ deletes'[c] = deletes[c] /\ parts'[c] = parts[c]
                                 /\ deleteSeq'[c] = deleteSeq[c]
    BY <1>1 DEF IInv, ShapeInv, TypeOK
  <1>5. /\ RowsIn(OfDay(d, Kept)) \subseteq acked
        /\ RowsIn(OfDay(d, buffers)) \subseteq acked
        /\ Unlisted(d)' \subseteq acked
    BY <1>2 DEF IInv, RowInv, RowsIn, OfDay, Kept
  <1>6. /\ merges' \subseteq [day : Days, rows : SUBSET Rows, late : BOOLEAN]
        /\ \A y \in merges' : \A r \in y.rows : r \in acked /\ DayOf(r) = y.day
    <2>1. ASSUME NEW x \in merges
          PROVE  LET y == [x EXCEPT !.late = @ \/ x.day = d] IN
                 /\ y \in [day : Days, rows : SUBSET Rows, late : BOOLEAN]
                 /\ y.rows = x.rows /\ y.day = x.day
      <3>1. x \in [day : Days, rows : SUBSET Rows, late : BOOLEAN]
        BY DEF IInv, TypeOK
      <3> QED
        BY <3>1
    <2> QED
      BY <1>1, <2>1 DEF IInv, RowInv
  <1>7. TypeOK'
    <2>1. /\ parts' \in [Days -> SUBSET Rows]
          /\ deleteSeq' \in [Days -> Nat] /\ dayDir' \subseteq Days
      BY <1>1, <1>2 DEF IInv, TypeOK
    <2>2. \A c \in Days : \A i \in DOMAIN deletes'[c] :
              deletes'[c][i].id \in 1..deleteSeq'[c]
      BY <1>3, <1>4 DEF IInv, TypeOK
    <2>3. \A c \in Days : parts'[c] # {} \/ tombFile'[c] # << >> => c \in dayDir'
      <3>1. tombFile'[d] # << >> => d \in dayDir'
        BY <1>2 DEF IInv, ShapeInv
      <3>2. \A c \in Days \ {d} : c \in dayDir => c \in dayDir'
        BY <1>2
      <3>3. \A c \in Days \ {d} : parts'[c] = parts[c] /\ tombFile'[c] = tombFile[c]
        BY <1>3, <1>4
      <3> QED
        BY <1>4, <3>1, <3>2, <3>3 DEF IInv, TypeOK
    <2>4. (deleted \cup loose \cup gone)' \subseteq acked' /\ acked' \subseteq Rows
      BY <1>1, <1>2, <1>5 DEF IInv, TypeOK, RowInv
    <2> QED
      BY ZenonT(60), <1>1, <1>2, <1>6, <2>1, <2>2, <2>3, <2>4 DEF IInv, TypeOK
  <1>8. ShapeInv'
    <2>1. deletes' \in [Days -> Seq(Tombs)] /\ tombFile' \in [Days -> Seq(Tombs)]
      BY <1>1, <1>3 DEF IInv, ShapeInv
    <2>2. drops' \in Nat
      BY <1>1 DEF IInv, ShapeInv
    <2> QED
      BY <1>1, <2>1, <2>2 DEF IInv, ShapeInv
  <1>9. RowInv'
    <2>1. \A c \in Days : Unlisted(c)' # {} => c \in dayDir'
      BY <1>2 DEF IInv, RowInv
    <2>2. \A c \in Days : \A r \in parts'[c] \cup Unlisted(c)' :
              r \in acked /\ DayOf(r) = c
      BY <1>2, <1>4 DEF IInv, RowInv
    <2>3. RowsIn(buffers)' \cup RowsIn(log)' \cup call'.victims \subseteq acked'
      BY <1>1 DEF IInv, RowInv, RowsIn
    <2> QED
      BY <1>1, <1>6, <2>1, <2>2, <2>3 DEF IInv, RowInv
  <1>10. TombInv'
    <2>1. \A c \in Days : /\ IncreasingIds(tombFile'[c])
                          /\ \A i \in DOMAIN tombFile'[c] :
                                \E s \in issued :
                                   tombFile'[c][i] = Record(tombFile'[c][i].id, s)
      BY <1>3 DEF IInv, TombInv, IncreasingIds
    <2>2. drops' > 0
      BY <1>1 DEF IInv, ShapeInv
    <2>3. \A c \in Days : \/ deletes'[c] = tombFile'[c]
                          \/ drops' > 0 /\ deletes'[c] = << >>
      BY <1>1, <1>3, <1>4, <2>2 DEF IInv, TombInv
    <2> QED
      BY <1>1, <2>1, <2>3 DEF IInv, TombInv
  <1> QED
    BY <1>7, <1>8, <1>9, <1>10 DEF IInv

(* A merge begins, or ends one way or another.                               *)
StartsMerge == \E d \in Days : \E S \in SUBSET parts[d] : MergeReads(d, S)

EndsMerge(x) == \/ MergeEnds(x)
                \/ \E lost \in SUBSET parts[x.day] :
                       MergeResurrects(x, lost) \/ MergeRollsBack(x, lost)

LEMMA MergeStepCases ==
    MergeStep => StartsMerge \/ \E x \in merges : MergeWrites(x) \/ EndsMerge(x)
  BY DEF MergeStep, StartsMerge, EndsMerge

(* The end of a merge loses some rows of its day, and brings back only rows  *)
(* that are in loose from then on.                                           *)
LEMMA EndsMergeFrame ==
    ASSUME IInv, NEW x \in merges, EndsMerge(x)
    PROVE  /\ mode = "up" /\ merges' = merges \ {x}
           /\ UNCHANGED <<mode, buffers, deletes, deleteSeq, nextSeq, call,
                          enableWAL, dayDir, tombFile, log, checkpoint, acked,
                          issued, deleted, restarts, drops>>
           /\ {parts', leftover', orphans'} \subseteq [Days -> SUBSET Rows]
           /\ \A c \in Days : Unlisted(c)' = Unlisted(c)
           /\ loose' \in {loose, loose \cup x.rows}
           /\ \A c \in Days : parts'[c] # {} => c \in dayDir
           /\ \A c \in Days : \A r \in parts'[c] : r \in parts[c] \/ r \in loose'
           /\ \A c \in Days : \A r \in parts'[c] : r \in acked /\ DayOf(r) = c
           /\ \E lost \in SUBSET parts[x.day] :
                  /\ gone' = gone \cup lost
                  /\ \A c \in Days : parts[c] \subseteq parts'[c] \cup lost
  <1>1. /\ x.day \in Days /\ x.rows \in SUBSET Rows
        /\ {parts, leftover, orphans} \subseteq [Days -> SUBSET Rows]
        /\ \A r \in x.rows : r \in acked /\ DayOf(r) = x.day
        /\ \A c \in Days : parts[c] # {} => c \in dayDir
        /\ \A c \in Days : \A r \in parts[c] : r \in acked /\ DayOf(r) = c
    BY DEF IInv, TypeOK, RowInv
  <1>2. CASE MergeEnds(x)
    <2>1. /\ UNCHANGED <<mode, buffers, parts, deletes, deleteSeq, nextSeq, call,
                         disk, ghosts>>
          /\ mode = "up" /\ merges' = merges \ {x}
      BY <1>2 DEF MergeEnds
    <2>2. UNCHANGED <<parts, leftover, orphans, gone, loose>>
      BY <2>1 DEF disk, ghosts
    <2>3. {} \in SUBSET parts[x.day] /\ gone' = gone \cup {}
      BY <2>2
    <2> QED
      BY <1>1, <2>1, <2>2, <2>3 DEF disk, ghosts, Unlisted
  <1>3. ASSUME NEW lost \in SUBSET parts[x.day], MergeRollsBack(x, lost)
        PROVE  /\ mode = "up" /\ merges' = merges \ {x}
               /\ UNCHANGED <<mode, buffers, deletes, deleteSeq, nextSeq, call,
                              leftover, orphans, enableWAL, dayDir, tombFile, log,
                              checkpoint, acked, issued, deleted, loose, restarts,
                              drops>>
               /\ parts' \in [Days -> SUBSET Rows]
               /\ \A c \in Days : parts'[c] \subseteq parts[c]
               /\ gone' = gone \cup lost
               /\ \A c \in Days : parts[c] \subseteq parts'[c] \cup lost
    <2>1. parts' = [parts EXCEPT ![x.day] = @ \ lost]
      BY <1>3 DEF MergeRollsBack
    <2>2. /\ parts' \in [Days -> SUBSET Rows]
          /\ \A c \in Days : parts'[c] \subseteq parts[c]
          /\ \A c \in Days : parts[c] \subseteq parts'[c] \cup lost
      BY <1>1, <2>1
    <2> QED
      BY <1>3, <2>2 DEF MergeRollsBack, disk
  <1>4. ASSUME NEW lost \in SUBSET parts[x.day], MergeResurrects(x, lost)
        PROVE  /\ mode = "up" /\ merges' = merges \ {x}
               /\ UNCHANGED <<mode, buffers, deletes, deleteSeq, nextSeq, call,
                              enableWAL, dayDir, tombFile, log, checkpoint, acked,
                              issued, deleted, restarts, drops>>
               /\ {parts', leftover', orphans'} \subseteq [Days -> SUBSET Rows]
               /\ \A c \in Days : Unlisted(c)' = Unlisted(c)
               /\ loose' = loose \cup x.rows
               /\ gone' = gone \cup lost
               /\ \A c \in Days : /\ parts[c] \subseteq parts'[c] \cup lost
                                  /\ parts'[c] # {} => c \in dayDir
                                  /\ \A r \in parts'[c] :
                                        r \in parts[c] \/ (c = x.day /\ r \in x.rows)
    <2>1. /\ parts' = [parts EXCEPT ![x.day] = (@ \ lost) \cup x.rows]
          /\ parts[x.day] # {}
      BY <1>4 DEF MergeResurrects
    <2>2. /\ parts' \in [Days -> SUBSET Rows]
          /\ parts'[x.day] = (parts[x.day] \ lost) \cup x.rows
          /\ \A c \in Days \ {x.day} : parts'[c] = parts[c]
      BY <1>1, <2>1
    <2>3. /\ {leftover', orphans'} \subseteq [Days -> SUBSET Rows]
          /\ \A c \in Days : Unlisted(c)' = Unlisted(c)
      BY <1>1, <1>4, NewManifestFrame DEF MergeResurrects
    <2>4. \A c \in Days : /\ parts[c] \subseteq parts'[c] \cup lost
                         /\ parts'[c] # {} => c \in dayDir
                         /\ \A r \in parts'[c] :
                               r \in parts[c] \/ (c = x.day /\ r \in x.rows)
      <3>1. parts[x.day] \subseteq parts'[x.day] \cup lost /\ x.day \in dayDir
        BY <1>1, <2>1, <2>2
      <3>2. \A r \in parts'[x.day] : r \in parts[x.day] \/ r \in x.rows
        BY <2>2
      <3> SUFFICES ASSUME NEW c \in Days
                   PROVE  /\ parts[c] \subseteq parts'[c] \cup lost
                          /\ parts'[c] # {} => c \in dayDir
                          /\ \A r \in parts'[c] :
                                r \in parts[c] \/ (c = x.day /\ r \in x.rows)
        OBVIOUS
      <3>3. CASE c = x.day
        BY <3>1, <3>2, <3>3
      <3>4. CASE c # x.day
        BY <1>1, <2>2, <3>4
      <3> QED
        BY <3>3, <3>4
    <2>5. /\ mode = "up" /\ merges' = merges \ {x}
          /\ UNCHANGED <<mode, buffers, deletes, deleteSeq, nextSeq, call,
                         enableWAL, dayDir, tombFile, log, checkpoint, acked,
                         issued, deleted, restarts, drops>>
          /\ loose' = loose \cup x.rows /\ gone' = gone \cup lost
      BY <1>4 DEF MergeResurrects, Idle
    <2> QED
      BY <2>2, <2>3, <2>4, <2>5
  <1> QED
    BY <1>1, <1>2, <1>3, <1>4 DEF EndsMerge, Unlisted

(* A merge moves rows within their day, before and after a drop.             *)
LEMMA MergeKeepsIInv ==
    ASSUME IInv, StartsMerge \/ \E x \in merges : MergeWrites(x) \/ EndsMerge(x)
    PROVE  IInv'
  <1>1. ASSUME NEW d \in Days, NEW S \in SUBSET parts[d], MergeReads(d, S)
        PROVE  IInv'
    <2>1. /\ merges' = merges \cup {[day |-> d, rows |-> S, late |-> FALSE]}
          /\ UNCHANGED <<mode, buffers, parts, deletes, deleteSeq, nextSeq, call,
                         enableWAL, dayDir, leftover, orphans, tombFile, log,
                         checkpoint, acked, issued, deleted, loose, gone, restarts,
                         drops>>
      BY <1>1 DEF MergeReads, disk, ghosts
    <2>2. /\ S \in SUBSET Rows
          /\ \A r \in S : r \in acked /\ DayOf(r) = d
      BY DEF IInv, TypeOK, RowInv
    <2>3. /\ merges' \subseteq [day : Days, rows : SUBSET Rows, late : BOOLEAN]
          /\ \A y \in merges' : \A r \in y.rows : r \in acked /\ DayOf(r) = y.day
      <3> DEFINE x == [day |-> d, rows |-> S, late |-> FALSE]
      <3>1. /\ x \in [day : Days, rows : SUBSET Rows, late : BOOLEAN]
            /\ \A r \in x.rows : r \in acked /\ DayOf(r) = x.day
        BY <2>2
      <3>2. merges' = merges \cup {x} /\ acked' = acked
        BY <2>1
      <3> HIDE DEF x
      <3> QED
        BY <3>1, <3>2 DEF IInv, TypeOK, RowInv
    <2>4. TypeOK'
      BY <2>1, <2>3 DEF IInv, TypeOK
    <2>5. ShapeInv' /\ TombInv'
      BY <2>1 DEF IInv, ShapeInv, TombInv
    <2>6. RowInv'
      BY <2>1, <2>3 DEF IInv, RowInv, RowsIn, Unlisted
    <2> QED
      BY <2>4, <2>5, <2>6 DEF IInv
  <1>2. ASSUME NEW x \in merges, MergeWrites(x)
        PROVE  IInv'
    <2>1. /\ x.day \in Days /\ dayDir' = dayDir \cup {x.day}
          /\ UNCHANGED <<mode, buffers, parts, deletes, deleteSeq, nextSeq, merges,
                         call, enableWAL, leftover, orphans, tombFile, log,
                         checkpoint, acked, issued, deleted, loose, gone, restarts,
                         drops>>
      BY <1>2 DEF MergeWrites, memory, ghosts, IInv, TypeOK
    <2>2. TypeOK'
      BY <2>1 DEF IInv, TypeOK
    <2>3. ShapeInv' /\ TombInv'
      BY <2>1 DEF IInv, ShapeInv, TombInv
    <2>4. RowInv'
      BY <2>1 DEF IInv, RowInv, RowsIn, Unlisted
    <2> QED
      BY <2>2, <2>3, <2>4 DEF IInv
  <1>3. ASSUME NEW x \in merges, EndsMerge(x)
        PROVE  IInv'
    <2>1. /\ merges' = merges \ {x}
          /\ UNCHANGED <<mode, buffers, deletes, deleteSeq, nextSeq, call,
                         enableWAL, dayDir, tombFile, log, checkpoint, acked,
                         issued, deleted, restarts, drops>>
      BY <1>3, EndsMergeFrame
    <2>2. /\ {parts', leftover', orphans'} \subseteq [Days -> SUBSET Rows]
          /\ \A c \in Days : Unlisted(c)' = Unlisted(c)
          /\ \A c \in Days : parts'[c] # {} => c \in dayDir
          /\ \A c \in Days : \A r \in parts'[c] : r \in acked /\ DayOf(r) = c
      BY <1>3, EndsMergeFrame
    <2>3. loose' \subseteq acked /\ gone' \subseteq acked
      <3>1. /\ loose' \in {loose, loose \cup x.rows}
            /\ \E lost \in SUBSET parts[x.day] : gone' = gone \cup lost
        BY <1>3, EndsMergeFrame
      <3>2. /\ x.day \in Days /\ x.rows \subseteq acked /\ parts[x.day] \subseteq acked
            /\ loose \subseteq acked /\ gone \subseteq acked
        BY DEF IInv, TypeOK, RowInv
      <3> QED
        BY <3>1, <3>2
    <2>4. TypeOK'
      BY <2>1, <2>2, <2>3 DEF IInv, TypeOK
    <2>5. ShapeInv' /\ TombInv'
      BY <2>1 DEF IInv, ShapeInv, TombInv
    <2>6. RowInv'
      BY <2>1, <2>2 DEF IInv, RowInv, RowsIn
    <2> QED
      BY <2>4, <2>5, <2>6 DEF IInv
  <1> QED
    BY <1>1, <1>2, <1>3 DEF StartsMerge

(* a crash,                                                                  *)
LEMMA CrashKeepsIInv ==
    ASSUME IInv, Crash
    PROVE  IInv'
  <1>1. /\ mode' = "down" /\ call' = NoCall /\ call'.todo = {} /\ call'.victims = {}
        /\ call'.spec = {}
        /\ buffers' = {} /\ parts' = [d \in Days |-> {}] /\ nextSeq' = 1
        /\ deletes' = [d \in Days |-> << >>] /\ deleteSeq' = [d \in Days |-> 0]
        /\ leftover' = [d \in Days |-> parts[d] \cup leftover[d]]
        /\ gone' = gone \cup (RowsIn(buffers) \ RowsIn(Kept))
        /\ restarts < MaxRestarts /\ restarts' = restarts + 1 /\ merges' = {}
        /\ UNCHANGED <<enableWAL, dayDir, orphans, tombFile, log, checkpoint, acked,
                       issued, deleted, loose, faults, drops>>
    BY DEF Crash, NoCall
  <1>2. << >> \in Seq(Tombs) /\ DOMAIN << >> = {} /\ RowsIn(buffers)' = {}
    BY <1>1 DEF RowsIn
  <1>3. TypeOK'
    BY <1>1, <1>2, DeletesAssumption DEF IInv, TypeOK, RowInv
  <1>4. ShapeInv'
    BY <1>1, <1>2 DEF IInv, ShapeInv, NoCall
  <1>5. RowInv'
    BY <1>1, <1>2 DEF IInv, TypeOK, RowInv, Unlisted
  <1>6. TombInv'
    BY <1>1 DEF IInv, TombInv
  <1> QED
    BY <1>3, <1>4, <1>5, <1>6 DEF IInv

(* The ids Open reads from a file are numbers up to the last it hands out.   *)
LEMMA LastIdBounds ==
    ASSUME IInv, NEW d \in Days
    PROVE  /\ LastId(d) \in Nat
           /\ \A i \in DOMAIN tombFile[d] : tombFile[d][i].id \in 1..LastId(d)
  <1> DEFINE tombs == tombFile[d]
             ids == {tombs[i].id : i \in DOMAIN tombs}
             S == {0} \cup ids
  <1>1. tombs \in Seq(Tombs) /\ IncreasingIds(tombs)
    BY DEF IInv, ShapeInv, TombInv
  <1>2. \A i \in DOMAIN tombs : tombs[i] \in Tombs
    BY <1>1
  <1>3. \A i \in DOMAIN tombs : tombs[i].id \in Nat \ {0}
    BY <1>2 DEF Tombs
  <1>4. \E n \in Nat : \A k \in S : k <= n
    <2>1. CASE tombs = << >>
      BY <2>1
    <2>2. CASE tombs # << >>
      <3>1. Len(tombs) \in DOMAIN tombs /\ DOMAIN tombs = 1..Len(tombs)
        BY <1>1, <2>2
      <3>2. \A i \in DOMAIN tombs : i # Len(tombs) => tombs[i].id < tombs[Len(tombs)].id
        BY <1>1, <3>1 DEF IncreasingIds
      <3>3. tombs[Len(tombs)].id \in Nat
        BY <1>3, <3>1
      <3>4. \A i \in DOMAIN tombs : tombs[i].id <= tombs[Len(tombs)].id
        BY <1>3, <3>1, <3>2, <3>3
      <3>5. \A k \in S : k <= tombs[Len(tombs)].id
        BY <3>3, <3>4
      <3> QED
        BY <3>3, <3>5
    <2> QED
      BY <2>1, <2>2
  <1>5. S \in SUBSET Nat /\ S # {}
    BY <1>3
  <1>6. Highest(S) \in S /\ \A k \in S : k <= Highest(S)
    BY <1>4, <1>5, HighestInSet
  <1>7. LastId(d) = Highest(S)
    BY DEF LastId
  <1>8. \A i \in DOMAIN tombs : tombs[i].id \in S
    OBVIOUS
  <1> HIDE DEF S
  <1>9. LastId(d) \in Nat /\ \A k \in S : k <= LastId(d)
    BY <1>5, <1>6, <1>7
  <1> QED
    BY <1>3, <1>8, <1>9

(* and a restart, with or without the log.                                   *)
LEMMA OpenKeepsIInv ==
    ASSUME IInv, Open
    PROVE  IInv'
  <1>1. /\ mode = "down" /\ mode' = "up" /\ parts' = leftover
        /\ leftover' = [d \in Days |-> {}]
        /\ deletes' = tombFile
        /\ deleteSeq' = [d \in Days |-> LastId(d)]
        /\ buffers' = Kept /\ nextSeq' = Highest({0} \cup Seqs(log)) + 1
        /\ orphans' \in {orphans, [d \in Days |-> {}]}
        /\ UNCHANGED <<merges, call, enableWAL, dayDir, tombFile, log, checkpoint,
                       acked, issued, deleted, loose, gone, restarts, drops>>
    BY DEF Open
  <1>2. nextSeq' \in Nat \ {0}
    <2> DEFINE S == {0} \cup Seqs(log)
    <2>1. PICK n \in Nat : \A e \in log : e[2] <= n
      BY DEF IInv, ShapeInv
    <2>2. S \in SUBSET Nat /\ S # {} /\ \A k \in S : k <= n
      BY <2>1 DEF IInv, TypeOK, Seqs
    <2>3. Highest(S) \in Nat
      BY <2>2, HighestInSet
    <2> QED
      BY <1>1, <2>3
  <1>3. /\ deleteSeq' \in [Days -> Nat]
        /\ \A d \in Days : \A i \in DOMAIN tombFile[d] :
               tombFile[d][i].id \in 1..deleteSeq'[d]
    BY <1>1, LastIdBounds
  <1>4. Kept \subseteq log
    BY DEF Kept
  <1>5. call = NoCall
    BY <1>1 DEF IInv, TypeOK
  <1>6. TypeOK'
    BY <1>1, <1>2, <1>3, <1>4, <1>5 DEF IInv, TypeOK, RowInv, Unlisted
  <1>7. ShapeInv'
    BY <1>1 DEF IInv, ShapeInv
  <1>8. RowInv'
    BY <1>1, <1>4 DEF IInv, TypeOK, RowInv, RowsIn, Unlisted
  <1>9. TombInv'
    BY <1>1 DEF IInv, TombInv
  <1> QED
    BY <1>6, <1>7, <1>8, <1>9 DEF IInv

(* All steps together.                                                       *)
LEMMA IInvNext ==
    ASSUME IInv, [Next]_vars
    PROVE  IInv'
  <1>1. CASE UNCHANGED vars
    <2>1. UNCHANGED <<Kept, mode, buffers, parts, deletes, deleteSeq, nextSeq, merges,
                      call, enableWAL, dayDir, leftover, orphans, tombFile, log,
                      checkpoint, acked, issued, deleted, loose, gone, restarts,
                      faults, drops>>
      BY <1>1 DEF vars, memory, disk, ghosts, Kept
    <2>2. TypeOK' /\ ShapeInv' /\ RowInv' /\ TombInv'
      BY <2>1 DEF IInv, TypeOK, ShapeInv, RowInv, TombInv, RowsIn, Unlisted
    <2> QED
      BY <2>2 DEF IInv
  <1>2. CASE Next
    BY <1>2, AppendKeepsIInv, DeleteCallKeepsIInv, DeleteDayKeepsIInv,
       CallEndsKeepsIInv, FlushKeepsIInv, MergeKeepsIInv, DropKeepsIInv,
       CrashKeepsIInv, OpenKeepsIInv, MergeStepCases, DropStepCases
       DEF Next, DeleteStep
  <1> QED
    BY <1>1, <1>2

(* Hence the invariant always holds.                                         *)
LEMMA IInvCorrect == Spec => []IInv
  BY InitIInv, IInvNext, PTL DEF Spec

(* Type correctness of Deletes, whatever is deleted, dropped, lost or fails. *)
THEOREM TypeCorrect == Spec => []TypeOK
  <1>1. IInv => TypeOK
    BY DEF IInv
  <1> QED
    BY <1>1, IInvCorrect, PTL

(* Search and a restart read the same tombstones, of increasing ids, for     *)
(* every day but those of a drop that failed: through deletes that fail      *)
(* half-way, drops and any number of crashes.                                *)
THEOREM TombstonesAgree == Spec => []TombstonesMirrored
  <1>1. IInv => TombstonesMirrored
    BY DEF IInv, TombInv, TombstonesMirrored, Idle, IncreasingIds
  <1> QED
    BY <1>1, IInvCorrect, PTL

-----------------------------------------------------------------------------
(* Nothing disappears unasked.                                               *)

Asked(r) == \E s \in issued : Requested(s, r) \/ 0 \in Bounds(s)

(* Where a row is: in the storage, or where the next Open finds it.          *)
Present(r) == IF mode = "up" THEN r \in Stored
              ELSE r \in RowsIn(Kept) \cup leftover[DayOf(r)]

AskedInv == \A r \in acked \ gone : Present(r) \/ Asked(r)

(* A stored row is buffered or in the parts of its own day.                  *)
LEMMA StoredInItsDay ==
    ASSUME IInv, NEW r \in Rows
    PROVE  r \in Stored <=> r \in RowsIn(buffers) \cup parts[DayOf(r)]
  <1>1. DayOf(r) \in Days
    BY DeletesAssumption DEF DayOf
  <1>2. \A d \in Days : r \in parts[d] => d = DayOf(r)
    BY DEF IInv, RowInv
  <1> QED
    BY <1>1, <1>2 DEF Stored

(* The rows of the days after an append.                                     *)
LEMMA RowsInAdd ==
    ASSUME NEW S, NEW r, NEW n
    PROVE  RowsIn(S \cup {<<r, n>>}) = RowsIn(S) \cup {r}
  <1>1. \A x \in RowsIn(S \cup {<<r, n>>}) : x \in RowsIn(S) \cup {r}
    BY DEF RowsIn
  <1>2. <<r, n>> \in S \cup {<<r, n>>} /\ <<r, n>>[1] = r
    OBVIOUS
  <1>3. RowsIn(S) \cup {r} \subseteq RowsIn(S \cup {<<r, n>>})
    BY <1>2 DEF RowsIn
  <1> QED
    BY <1>1, <1>3

(* No step records a tombstone nobody asked for.                             *)
LEMMA AskedInvNext ==
    ASSUME IInv, IInv', AskedInv, [Next]_vars
    PROVE  AskedInv'
  <1> USE DEF AskedInv, Present, Asked
  <1>1. acked \subseteq Rows /\ acked' \subseteq Rows
    BY DEF IInv, TypeOK
  <1>2. ASSUME NEW r \in Rows, Append1(r)
        PROVE  AskedInv'
    <2>1. /\ mode = "up" /\ UNCHANGED <<mode, parts, gone, issued>>
          /\ acked' = acked \cup {r}
      BY <1>2 DEF Append1, Idle
    <2>2. \/ buffers' = buffers \cup {<<r, nextSeq>>}
          \/ buffers' = buffers \cup {<<r, 0>>}
      BY <1>2 DEF Append1
    <2>3. RowsIn(buffers)' = RowsIn(buffers) \cup {r}
      <3>1. /\ RowsIn(buffers \cup {<<r, nextSeq>>}) = RowsIn(buffers) \cup {r}
            /\ RowsIn(buffers \cup {<<r, 0>>}) = RowsIn(buffers) \cup {r}
        BY RowsInAdd
      <3> QED
        BY <2>2, <3>1 DEF RowsIn
    <2> QED
      BY <1>1, <2>1, <2>3 DEF Stored
  <1>3. ASSUME NEW d \in Days, FlushDay(d)
        PROVE  AskedInv'
    <2>1. /\ mode = "up" /\ UNCHANGED <<mode, acked, gone, issued>>
          /\ parts' = [parts EXCEPT ![d] = @ \cup RowsIn(OfDay(d, buffers))]
          /\ buffers' = buffers \ OfDay(d, buffers)
      BY <1>3 DEF FlushDay, Idle, ghosts
    <2>2. Stored \subseteq Stored'
      <3>1. parts'[d] = parts[d] \cup RowsIn(OfDay(d, buffers))
        BY <2>1 DEF IInv, TypeOK
      <3>2. \A c \in Days : parts[c] \subseteq parts'[c]
        BY <2>1, <3>1 DEF IInv, TypeOK
      <3>3. RowsIn(buffers) \subseteq RowsIn(buffers)' \cup parts'[d]
        BY <2>1, <3>1 DEF RowsIn
      <3> QED
        BY <3>2, <3>3 DEF Stored
    <2> QED
      BY <2>1, <2>2
  <1>4. ASSUME NEW s \in Specs, DeleteCall(s)
        PROVE  AskedInv'
    <2>1. /\ mode = "up" /\ UNCHANGED <<mode, parts, acked, gone>>
          /\ issued' = issued \cup {s} /\ buffers' = buffers \ PurgeMatching(s)
      BY <1>4 DEF DeleteCall, Idle
    <2>2. ASSUME NEW r \in Stored, r \notin Stored'
          PROVE  r \in Rows /\ HidesEntry(Record(0, s), r)
      BY <2>1, <2>2 DEF Stored, RowsIn, PurgeMatching, IInv, TypeOK
    <2>3. ASSUME NEW r \in Stored, r \notin Stored'
          PROVE  Requested(s, r) \/ 0 \in Bounds(s)
      BY <2>2, <2>3, HiddenIsRequested
    <2> QED
      BY <2>1, <2>3
  <1>5. ASSUME NEW d \in Days, DropDay(d) \/ DropFails(d)
        PROVE  AskedInv'
    <2>1. /\ mode = "up" /\ UNCHANGED <<mode, acked, issued>>
          /\ buffers' = buffers \ OfDay(d, buffers)
          /\ parts' = [parts EXCEPT ![d] = {}]
          /\ gone' = gone \cup parts[d] \cup RowsIn(OfDay(d, buffers))
      BY <1>5 DEF DropDay, DropFails, DropDayFails, Forget, Idle
    <2>2. Stored \subseteq Stored' \cup gone'
      <3>1. \A c \in Days : c # d => parts'[c] = parts[c]
        BY <2>1 DEF IInv, TypeOK
      <3>2. RowsIn(buffers) \subseteq RowsIn(buffers)' \cup gone'
        BY <2>1 DEF RowsIn
      <3> QED
        BY ZenonT(60), <2>1, <3>1, <3>2 DEF Stored
    <2> QED
      BY <2>1, <2>2
  <1>6. CASE Crash
    <2>1. /\ mode = "up" /\ mode' = "down" /\ UNCHANGED <<acked, issued, log, checkpoint>>
          /\ leftover' = [d \in Days |-> parts[d] \cup leftover[d]]
          /\ gone' = gone \cup (RowsIn(buffers) \ RowsIn(Kept))
      BY <1>6 DEF Crash
    <2>2. RowsIn(Kept)' = RowsIn(Kept)
      BY <2>1 DEF RowsIn, Kept
    <2>3. ASSUME NEW r \in Rows, r \in Stored
          PROVE  r \in RowsIn(Kept)' \cup leftover'[DayOf(r)] \cup gone'
      <3>1. DayOf(r) \in Days
        BY DeletesAssumption DEF DayOf
      <3> QED
        BY <2>1, <2>2, <2>3, <3>1, StoredInItsDay
    <2> QED
      BY <1>1, <2>1, <2>3
  <1>7. CASE Open
    <2>1. /\ mode = "down" /\ mode' = "up" /\ UNCHANGED <<acked, gone, issued>>
          /\ parts' = leftover /\ buffers' = Kept
      BY <1>7 DEF Open
    <2>2. ASSUME NEW r \in Rows, r \in RowsIn(Kept) \cup leftover[DayOf(r)]
          PROVE  r \in Stored'
      <3>1. DayOf(r) \in Days
        BY DeletesAssumption DEF DayOf
      <3> QED
        BY <2>1, <2>2, <3>1 DEF Stored, RowsIn
    <2> QED
      BY <1>1, <2>1, <2>2
  <1>8. CASE DeleteStep \/ UNCHANGED vars
    <2>1. UNCHANGED <<mode, buffers, parts, leftover, log, checkpoint, acked, gone,
                      issued>>
      BY <1>8 DEF DeleteStep, DeleteDay, DeleteDayFails, DeleteReturns, vars,
         memory, disk, ghosts
    <2> QED
      BY <2>1 DEF Stored, RowsIn, Kept
  <1>9. ASSUME NEW x \in merges, EndsMerge(x)
        PROVE  AskedInv'
    <2>1. PICK lost \in SUBSET parts[x.day] :
              /\ mode = "up" /\ UNCHANGED <<mode, buffers, acked, issued>>
              /\ gone' = gone \cup lost
              /\ \A c \in Days : parts[c] \subseteq parts'[c] \cup lost
      BY <1>9, EndsMergeFrame
    <2>2. Stored \subseteq Stored' \cup gone'
      BY <2>1 DEF Stored, RowsIn
    <2> QED
      BY <2>1, <2>2
  <1>10. ASSUME StartsMerge \/ \E x \in merges : MergeWrites(x)
         PROVE  AskedInv'
    <2>1. UNCHANGED <<mode, buffers, parts, leftover, log, checkpoint, acked, gone,
                      issued>>
      BY <1>10 DEF StartsMerge, MergeReads, MergeWrites, memory, disk, ghosts
    <2> QED
      BY <2>1 DEF Stored, RowsIn, Kept
  <1> QED
    BY <1>2, <1>3, <1>4, <1>5, <1>6, <1>7, <1>8, <1>9, <1>10, MergeStepCases,
       DropStepCases DEF Next

(* Every appended row that no crash and no merge lost and no drop removed is *)
(* visible, or a client asked for its deletion (a bound at the epoch asks    *)
(* for more), through flushes, failing deletes, drops that fail again and    *)
(* again, merges that outlive them and any number of restarts.               *)
THEOREM NothingHiddenUnasked == Spec => []HiddenOnlyByRequest
  <1>1. Init => AskedInv
    BY DEF Init, AskedInv
  <1>2. IInv /\ AskedInv => HiddenOnlyByRequest
    <2> SUFFICES ASSUME IInv, AskedInv, Idle, NEW r \in acked \ (gone \cup Visible)
                 PROVE  Asked(r)
      BY DEF HiddenOnlyByRequest, Asked
    <2>1. CASE r \notin Stored
      BY <2>1 DEF AskedInv, Present, Idle
    <2>2. CASE r \in Stored
      <3>1. r \in Rows /\ DayOf(r) \in Days /\ Hidden(r)
        BY <2>2, DeletesAssumption DEF Visible, IInv, TypeOK, DayOf
      <3> DEFINE d == DayOf(r)
      <3>2. PICK i \in DOMAIN deletes[d] : HidesEntry(deletes[d][i], r)
        BY <3>1 DEF Hidden
      <3>3. deletes[d] = tombFile[d]
        <4>1. DOMAIN << >> = {}
          OBVIOUS
        <4> QED
          BY <3>1, <3>2, <4>1 DEF IInv, TombInv, Idle
      <3>4. PICK s \in issued : tombFile[d][i] = Record(tombFile[d][i].id, s)
        BY <3>1, <3>2, <3>3 DEF IInv, TombInv
      <3>5. s \in Specs /\ tombFile[d][i].id \in Nat
        <4>1. tombFile[d] \in Seq(Tombs)
          BY <3>1 DEF IInv, ShapeInv
        <4>2. tombFile[d][i] \in Tombs
          BY <3>2, <3>3, <4>1
        <4> QED
          BY <4>2 DEF Tombs, IInv, TypeOK
      <3>6. Requested(s, r) \/ 0 \in Bounds(s)
        BY <3>1, <3>2, <3>3, <3>4, <3>5, HiddenIsRequested
      <3> QED
        BY <3>6 DEF Asked
    <2> QED
      BY <2>1, <2>2
  <1> QED
    BY <1>1, <1>2, IInvCorrect, AskedInvNext, PTL DEF Spec

-----------------------------------------------------------------------------
(* Deleted rows stay hidden.                                                 *)

(* Wherever a row is, the tombstones that go with that place hide it: those  *)
(* in memory hide it in the buffer and the listed parts, those of            *)
(* deletes.json where the next Open finds it, or a later one.                *)
Covered(r) ==
    LET d == DayOf(r) IN
    /\ r \in RowsIn(buffers) \cup parts[d] => HidesBy(deletes[d], r)
    /\ r \in RowsIn(Kept) \cup Unlisted(d) => HidesBy(tombFile[d], r)

(* It holds of the rows of every delete that returned, and of those of the   *)
(* running one whose day is done.                                            *)
HideInv == \A r \in deleted \ loose : Covered(r)

VictimInv == \A r \in call.victims \ loose :
                /\ \A s \in call.spec : Requested(s, r)
                /\ DayOf(r) \in call.todo \/ Covered(r)

(* A tombstone that hides something is in the file as well.                  *)
LEMMA HiddenOnDisk ==
    ASSUME IInv, mode = "up", NEW d \in Days, NEW r, HidesBy(deletes[d], r)
    PROVE  HidesBy(tombFile[d], r)
  <1>1. DOMAIN << >> = {}
    OBVIOUS
  <1>2. deletes[d] # << >>
    BY <1>1 DEF HidesBy
  <1>3. deletes[d] = tombFile[d]
    BY <1>2 DEF IInv, TombInv
  <1> QED
    BY <1>3

(* Once the tombstone of its day is written, a row the delete asks for is    *)
(* hidden, and so is every row that was and has not outlived its tombstones. *)
LEMMA DeleteDayCovers ==
    ASSUME IInv, NEW d \in Days, DeleteDay(d),
           NEW r \in Rows, r \notin loose', DayOf(r) = d,
           Covered(r) \/ \A s \in call.spec : Requested(s, r)
    PROVE  Covered(r)'
  <1>1. PICK s \in issued \cap Specs :
            LET rec == Record(deleteSeq[d] + 1, s)
                cur == Append(deletes[d], rec)
            IN  /\ call.spec = {s} /\ rec \in Tombs /\ rec.id = deleteSeq[d] + 1
                /\ deletes[d] \in Seq(Tombs)
                /\ tombFile' = [tombFile EXCEPT ![d] = cur]
                /\ deletes' = [deletes EXCEPT ![d] = cur]
    BY DeleteDayAdds
  <1> DEFINE rec == Record(deleteSeq[d] + 1, s)
             cur == Append(deletes[d], rec)
  <1>2. rec \in Tombs /\ deletes[d] \in Seq(Tombs)
    BY <1>1
  <1>3. tombFile'[d] = cur /\ deletes'[d] = cur
    BY <1>1 DEF IInv, ShapeInv
  <1>4. HidesBy(cur, r) <=> HidesBy(deletes[d], r) \/ HidesEntry(rec, r)
    BY <1>2, AppendTomb
  <1>5. deleteSeq[d] + 1 \in Nat
    BY DEF IInv, TypeOK
  <1>6. UNCHANGED <<buffers, parts, leftover, orphans, log, checkpoint>>
    BY DEF DeleteDay
  <1>7. CASE \A x \in call.spec : Requested(x, r)
    <2>1. HidesEntry(rec, r)
      BY <1>1, <1>5, <1>7, RequestedIsHidden
    <2> QED
      BY <1>3, <1>4, <2>1 DEF Covered
  <1>8. CASE Covered(r)
    <2>1. r \in RowsIn(buffers) \cup parts[d] => HidesBy(cur, r)
      BY <1>4, <1>8 DEF Covered
    <2>2. r \in RowsIn(Kept) \cup Unlisted(d) => HidesBy(cur, r)
      <3>1. CASE deletes[d] = tombFile[d]
        BY <1>4, <1>8, <3>1 DEF Covered
      <3>2. CASE deletes[d] # tombFile[d]
        <4>1. r \notin Unlisted(d) \cup RowsIn(OfDay(d, Kept))
          BY <3>2 DEF DeleteDay, Unlisted
        <4>2. r \notin RowsIn(Kept)
          BY <4>1 DEF RowsIn, OfDay
        <4> QED
          BY <4>1, <4>2
      <3> QED
        BY <3>1, <3>2
    <2> QED
      BY <1>3, <1>6, <2>1, <2>2 DEF Covered, RowsIn, Kept, Unlisted
  <1> QED
    BY <1>7, <1>8

(* No drop uncovers a row that has not outlived its tombstones.              *)
LEMMA DropKeepsCovered ==
    ASSUME IInv, NEW d \in Days, NEW r \in Rows, r \notin loose', Covered(r),
           DropDay(d) \/ DropFails(d)
    PROVE  Covered(r)'
  <1> DEFINE c == DayOf(r)
  <1>1. c \in Days
    BY DeletesAssumption DEF DayOf
  <1>2. /\ mode = "up" /\ UNCHANGED <<log, checkpoint>>
        /\ buffers' = buffers \ OfDay(d, buffers)
        /\ parts' = [parts EXCEPT ![d] = {}]
        /\ deletes' = [deletes EXCEPT ![d] = << >>]
    BY DEF DropDay, DropFails, DropDayFails, Forget, Idle
  <1>3. /\ c # d => Unlisted(c)' = Unlisted(c)
        /\ Unlisted(d)' \subseteq parts[d] \cup Unlisted(d)
        /\ \/ tombFile' = tombFile
           \/ /\ tombFile' = [tombFile EXCEPT ![d] = << >>]
              /\ r \notin Unlisted(d)' \cup RowsIn(OfDay(d, Kept))
    BY <1>1, DropLeaves
  <1>4. RowsIn(Kept)' = RowsIn(Kept)
    BY <1>2 DEF RowsIn, Kept
  <1>5. CASE c # d
    <2>1. /\ parts'[c] = parts[c] /\ Unlisted(c)' = Unlisted(c)
          /\ deletes'[c] = deletes[c] /\ tombFile'[c] = tombFile[c]
      BY <1>1, <1>2, <1>3, <1>5 DEF IInv, TypeOK, ShapeInv
    <2>2. r \in RowsIn(buffers)' => r \in RowsIn(buffers)
      BY <1>2 DEF RowsIn
    <2> QED
      BY <1>4, <2>1, <2>2 DEF Covered
  <1>6. CASE c = d
    <2>1. r \notin RowsIn(buffers)' /\ parts'[d] = {}
      BY <1>2, <1>6 DEF RowsIn, OfDay, IInv, TypeOK
    <2>2. CASE tombFile' = tombFile
      <3>1. r \in parts[d] => HidesBy(tombFile[d], r)
        BY <1>2, <1>6, HiddenOnDisk DEF Covered
      <3>2. r \in RowsIn(Kept) \cup Unlisted(d) => HidesBy(tombFile[d], r)
        BY <1>6 DEF Covered
      <3> QED
        BY <1>3, <1>4, <1>6, <2>1, <2>2, <3>1, <3>2 DEF Covered
    <2>3. CASE r \notin Unlisted(d)' \cup RowsIn(OfDay(d, Kept))
      <3>1. r \notin RowsIn(Kept)
        BY <1>6, <2>3 DEF RowsIn, OfDay
      <3> QED
        BY <1>4, <1>6, <2>1, <2>3, <3>1 DEF Covered
    <2> QED
      BY <1>3, <2>2, <2>3
  <1> QED
    BY <1>5, <1>6

(* No step uncovers an appended row, unless the row outlives its tombstones. *)
LEMMA CoveredStays ==
    ASSUME IInv, NEW r \in acked, r \notin loose', Covered(r), [Next]_vars
    PROVE  Covered(r)'
  <1> DEFINE c == DayOf(r)
  <1>1. r \in Rows /\ c \in Days
    BY DeletesAssumption DEF DayOf, IInv, TypeOK
  <1>2. ASSUME NEW x \in Rows, Append1(x)
        PROVE  Covered(r)'
    <2>1. /\ x # r
          /\ UNCHANGED <<parts, leftover, orphans, deletes, tombFile, checkpoint>>
          /\ buffers' \subseteq buffers \cup {<<x, nextSeq>>, <<x, 0>>}
          /\ log' \subseteq log \cup {<<x, nextSeq>>}
      BY <1>2 DEF Append1
    <2>2. r \in RowsIn(buffers)' => r \in RowsIn(buffers)
      BY <2>1 DEF RowsIn
    <2>3. r \in RowsIn(Kept)' => r \in RowsIn(Kept)
      BY <2>1 DEF RowsIn, Kept
    <2> QED
      BY <2>1, <2>2, <2>3 DEF Covered, Unlisted
  <1>3. ASSUME NEW d \in Days, FlushDay(d)
        PROVE  Covered(r)'
    <2>1. /\ UNCHANGED <<deletes, tombFile>>
          /\ parts' = [parts EXCEPT ![d] = @ \cup RowsIn(OfDay(d, buffers))]
          /\ buffers' \subseteq buffers
      BY <1>3 DEF FlushDay
    <2>2. Kept' \subseteq Kept /\ Unlisted(c)' = Unlisted(c)
      BY <1>1, <1>3, FlushCheckpoint, NewManifestFrame DEF FlushDay
    <2>3. /\ r \in RowsIn(buffers)' => r \in RowsIn(buffers)
          /\ r \in RowsIn(Kept)' => r \in RowsIn(Kept)
      BY <2>1, <2>2 DEF RowsIn
    <2>4. parts'[c] \subseteq parts[c] \cup RowsIn(OfDay(d, buffers))
      BY <1>1, <2>1 DEF IInv, TypeOK
    <2>5. RowsIn(OfDay(d, buffers)) \subseteq RowsIn(buffers)
      BY DEF RowsIn, OfDay
    <2> QED
      BY <2>1, <2>2, <2>3, <2>4, <2>5 DEF Covered
  <1>4. ASSUME NEW s \in Specs, DeleteCall(s)
        PROVE  Covered(r)'
    <2>1. /\ UNCHANGED <<parts, deletes, leftover, orphans, tombFile, log,
                          checkpoint>>
          /\ buffers' \subseteq buffers
      BY <1>4 DEF DeleteCall, disk
    <2>2. /\ r \in RowsIn(buffers)' => r \in RowsIn(buffers)
          /\ RowsIn(Kept)' = RowsIn(Kept)
      BY <2>1 DEF RowsIn, Kept
    <2> QED
      BY <2>1, <2>2 DEF Covered, Unlisted
  <1>5. ASSUME NEW d \in Days, DeleteDay(d)
        PROVE  Covered(r)'
    <2>1. CASE c = d
      BY <1>1, <1>5, <2>1, DeleteDayCovers
    <2>2. CASE c # d
      <3>1. deletes'[c] = deletes[c] /\ tombFile'[c] = tombFile[c]
        BY <1>1, <1>5, <2>2 DEF DeleteDay, IInv, ShapeInv
      <3>2. UNCHANGED <<buffers, parts, leftover, orphans, log, checkpoint>>
        BY <1>5 DEF DeleteDay
      <3> QED
        BY <3>1, <3>2 DEF Covered, RowsIn, Kept, Unlisted
    <2> QED
      BY <2>1, <2>2
  <1>6. ASSUME NEW d \in Days, DropDay(d) \/ DropFails(d)
        PROVE  Covered(r)'
    BY <1>1, <1>6, DropKeepsCovered
  <1>7. CASE Crash
    <2>1. /\ mode = "up" /\ UNCHANGED <<orphans, tombFile, log, checkpoint>>
          /\ buffers' = {} /\ parts' = [d \in Days |-> {}]
          /\ leftover' = [d \in Days |-> parts[d] \cup leftover[d]]
      BY <1>7 DEF Crash
    <2>2. /\ RowsIn(buffers)' = {} /\ RowsIn(Kept)' = RowsIn(Kept)
          /\ parts'[c] = {} /\ leftover'[c] = parts[c] \cup leftover[c]
      BY <1>1, <2>1 DEF RowsIn, Kept
    <2>3. r \in parts[c] => HidesBy(tombFile[c], r)
      BY <1>1, <2>1, HiddenOnDisk DEF Covered
    <2> QED
      BY <2>1, <2>2, <2>3 DEF Covered, Unlisted
  <1>8. CASE Open
    <2>1. /\ UNCHANGED <<tombFile, log, checkpoint>> /\ deletes' = tombFile
          /\ buffers' = Kept /\ parts' = leftover
          /\ leftover' = [d \in Days |-> {}]
          /\ orphans' \in {orphans, [d \in Days |-> {}]}
      BY <1>8 DEF Open
    <2>2. /\ RowsIn(buffers)' = RowsIn(Kept) /\ RowsIn(Kept)' = RowsIn(Kept)
          /\ leftover'[c] = {} /\ orphans'[c] \subseteq orphans[c]
      BY <1>1, <2>1 DEF RowsIn, Kept
    <2> QED
      BY <2>1, <2>2 DEF Covered, Unlisted
  <1>9. ASSUME \/ DeleteReturns \/ UNCHANGED vars \/ StartsMerge
               \/ \E d \in Days : DeleteDayFails(d)
               \/ \E x \in merges : MergeWrites(x)
        PROVE  Covered(r)'
    <2>1. UNCHANGED <<buffers, parts, deletes, leftover, orphans, tombFile, log,
                      checkpoint>>
      BY <1>9 DEF DeleteDayFails, DeleteReturns, StartsMerge, MergeReads,
         MergeWrites, vars, memory, disk
    <2> QED
      BY <2>1 DEF Covered, RowsIn, Kept, Unlisted
  <1>10. ASSUME NEW x \in merges, EndsMerge(x)
         PROVE  Covered(r)'
    <2>1. /\ UNCHANGED <<buffers, deletes, tombFile, log, checkpoint>>
          /\ r \in parts'[c] => r \in parts[c]
          /\ Unlisted(c)' = Unlisted(c)
      BY <1>1, <1>10, EndsMergeFrame
    <2>2. RowsIn(buffers)' = RowsIn(buffers) /\ RowsIn(Kept)' = RowsIn(Kept)
      BY <2>1 DEF RowsIn, Kept
    <2> QED
      BY <2>1, <2>2 DEF Covered
  <1> QED
    BY <1>2, <1>3, <1>4, <1>5, <1>6, <1>7, <1>8, <1>9, <1>10, MergeStepCases,
       DropStepCases DEF Next, DeleteStep

(* The rows of a new delete whose day gets no tombstone: only buffered rows, *)
(* now purged, which a log may bring back.                                   *)
LEMMA DeleteCallCovers ==
    ASSUME IInv, NEW s \in Specs, DeleteCall(s),
           NEW r \in call'.victims \ loose'
    PROVE  /\ Requested(s, r)
           /\ DayOf(r) \in call'.todo \/ Covered(r)'
  <1> DEFINE c == DayOf(r)
  <1>1. /\ r \in RowsIn(buffers) \cup UNION {parts[d] : d \in Days}
        /\ Requested(s, r) /\ call'.todo = DaysForDelete(s)
    BY DEF DeleteCall
  <1>2. r \in Rows
    BY <1>1 DEF IInv, TypeOK, RowInv
  <1>3. c \in Days
    BY <1>2, DeletesAssumption DEF DayOf
  <1>4. /\ buffers' = buffers \ PurgeMatching(s)
        /\ UNCHANGED <<parts, leftover, orphans, log, checkpoint>>
    BY DEF DeleteCall, disk
  <1>5. HidesEntry(Record(0, s), r)
    BY <1>1, <1>2, RequestedIsHidden
  <1>6. r \notin RowsIn(buffers)'
    BY <1>4, <1>5 DEF RowsIn, PurgeMatching
  <1>7. SUFFICES ASSUME c \notin DaysForDelete(s) PROVE Covered(r)'
    BY <1>1
  <1>8. c \notin dayDir
    BY <1>1, <1>2, <1>7, RequestedDayOverlaps DEF DaysForDelete
  <1>9. parts[c] = {} /\ Unlisted(c) = {}
    BY <1>3, <1>8 DEF IInv, TypeOK, RowInv
  <1>10. r \in RowsIn(buffers)
    BY <1>1, <1>9 DEF IInv, RowInv
  <1>11. r \in RowsIn(PurgeMatching(s))
    BY <1>5, <1>10 DEF RowsIn, PurgeMatching
  <1>12. ~enableWAL
    BY <1>7, <1>11 DEF DeleteCall
  <1>13. r \notin RowsIn(Kept)'
    BY <1>4, <1>12 DEF RowsIn, Kept, IInv, RowInv
  <1> QED
    BY <1>4, <1>6, <1>9, <1>13 DEF Covered, Unlisted

(* No step lets a deleted row out of the reach of its tombstones.            *)
LEMMA HideInvNext ==
    ASSUME IInv, HideInv, VictimInv, [Next]_vars
    PROVE  HideInv' /\ VictimInv'
  <1>1. loose \subseteq loose'
    BY DEF Next, Append1, FlushDay, DeleteCall, DeleteStep, DeleteDay,
       DeleteDayFails, DeleteReturns, MergeStep, MergeReads, MergeWrites, MergeEnds,
       MergeResurrects, MergeRollsBack, DropStep, DropDay, DropDayFails, Crash,
       Open, vars, ghosts
  <1>2. deleted \subseteq acked /\ call.victims \subseteq acked
    BY DEF IInv, TypeOK, RowInv
  <1>3. \A r \in acked : Covered(r) /\ r \notin loose' => Covered(r)'
    BY CoveredStays
  <1>4. HideInv'
    <2>1. CASE DeleteReturns
      <3>1. /\ deleted' = deleted \cup call.victims /\ call.todo = {}
            /\ loose' = loose
        BY <2>1 DEF DeleteReturns
      <3>2. \A r \in deleted' \ loose' : Covered(r)
        BY <3>1 DEF HideInv, VictimInv
      <3> QED
        BY <1>2, <1>3, <3>1, <3>2 DEF HideInv
    <2>2. CASE ~DeleteReturns
      <3>1. deleted' = deleted
        BY <2>2 DEF Next, Append1, FlushDay, DeleteCall, DeleteStep, DeleteDay,
           DeleteDayFails, MergeStep, MergeReads, MergeWrites, MergeEnds,
           MergeResurrects, MergeRollsBack, DropStep, DropDay, DropDayFails, Crash,
           Open, vars, ghosts
      <3> QED
        BY <1>1, <1>2, <1>3, <3>1 DEF HideInv
    <2> QED
      BY <2>1, <2>2
  <1>5. VictimInv'
    <2>1. ASSUME NEW s \in Specs, DeleteCall(s)
          PROVE  VictimInv'
      <3>1. call'.spec = {s}
        BY <2>1 DEF DeleteCall
      <3>2. \A r \in call'.victims \ loose' :
                /\ Requested(s, r)
                /\ DayOf(r) \in call'.todo \/ Covered(r)'
        BY <2>1, DeleteCallCovers
      <3> QED
        BY <3>1, <3>2 DEF VictimInv
    <2>2. ASSUME NEW d \in Days, DeleteDay(d)
          PROVE  VictimInv'
      <3>1. /\ call'.spec = call.spec /\ call'.victims = call.victims
            /\ call'.todo = call.todo \ {d}
        BY <2>2 DEF DeleteDay, IInv, ShapeInv
      <3>2. ASSUME NEW r \in call.victims \ loose'
            PROVE  /\ \A s \in call.spec : Requested(s, r)
                   /\ DayOf(r) \in call.todo \ {d} \/ Covered(r)'
        <4>1. /\ \A s \in call.spec : Requested(s, r)
              /\ DayOf(r) \in call.todo \/ Covered(r)
              /\ r \in Rows
          BY <1>1, <3>2 DEF VictimInv, IInv, ShapeInv
        <4>2. DayOf(r) = d => Covered(r)'
          BY <2>2, <4>1, DeleteDayCovers
        <4> QED
          BY <1>2, <1>3, <4>1, <4>2
      <3> QED
        BY <3>1, <3>2 DEF VictimInv
    <2>3. CASE \/ DeleteReturns \/ Crash \/ \E d \in Days : DeleteDayFails(d)
      <3>1. call'.victims = {}
        BY <2>3 DEF DeleteReturns, Crash, DeleteDayFails, NoCall
      <3> QED
        BY <3>1 DEF VictimInv
    <2>4. ASSUME \/ UNCHANGED vars \/ Open \/ MergeStep
                 \/ \E r \in Rows : Append1(r)
                 \/ \E d \in Days : FlushDay(d) \/ DropDay(d) \/ DropFails(d)
          PROVE  VictimInv'
      <3>1. call' = call
        BY <2>4 DEF Append1, FlushDay, MergeStep, MergeReads, MergeWrites,
           MergeEnds, MergeResurrects, MergeRollsBack, DropDay, DropFails,
           DropDayFails, Open, vars
      <3> QED
        BY <1>1, <1>2, <1>3, <3>1 DEF VictimInv
    <2> QED
      BY <2>1, <2>2, <2>3, <2>4, DropStepCases DEF Next, DeleteStep
  <1> QED
    BY <1>4, <1>5

(* The rows of a delete that returned stay hidden, through flushes, deletes  *)
(* that fail half-way, drops that fail again and again, merges that outlive  *)
(* a drop and any number of restarts, unless they have outlived the          *)
(* tombstones of their day: replayed rows whose day had no directory or was  *)
(* dropped, what drops left behind without deletes.json, and what a merge    *)
(* has carried over a drop.                                                  *)
THEOREM DeletedRowsStayHidden == Spec => []DeletedStaysHidden
  <1>1. Init => HideInv /\ VictimInv
    BY DEF Init, HideInv, VictimInv, NoCall
  <1>2. IInv /\ HideInv => DeletedStaysHidden
    <2> SUFFICES ASSUME IInv, HideInv, NEW r \in deleted \cap Visible, r \notin loose
                 PROVE  FALSE
      BY DEF DeletedStaysHidden
    <2>1. r \in Rows /\ r \in Stored /\ ~Hidden(r)
      BY DEF Visible, IInv, TypeOK
    <2>2. HidesBy(deletes[DayOf(r)], r)
      BY <2>1, StoredInItsDay DEF HideInv, Covered
    <2> QED
      BY <2>1, <2>2 DEF Hidden, HidesBy
  <1> QED
    BY <1>1, <1>2, IInvCorrect, HideInvNext, PTL DEF Spec
=============================================================================
