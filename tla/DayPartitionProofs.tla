------------------------- MODULE DayPartitionProofs -------------------------
EXTENDS DayPartition, FiniteSetTheorems, TLAPS

(* The least-number principle for a set, from the library's well-foundedness *)
(* of < on Nat.                                                              *)
LEMMA NatMin ==
    ASSUME NEW S \in SUBSET Nat, S # {}
    PROVE  \E m \in S : \A n \in S : m <= n
<1>. DEFINE R == {ss \in Nat \X Nat : ss[1] < ss[2]}
<1>1. R = OpToRel(<, Nat)
  BY DEF OpToRel
<1>2. IsWellFoundedOn(R, Nat)
  BY <1>1, NatLessThanWellFounded
<1>. HIDE DEF R
<1>3. \E x \in S : \A y \in S : ~ (<<y, x>> \in R)
  BY <1>2, WFMin
<1>4. \A x, y \in Nat : <<y, x>> \notin R => x <= y
  BY DEF R
<1>. QED
  BY <1>3, <1>4

(* The lowest id of a set is one of its ids.                                 *)
LEMMA MinOfMember ==
    ASSUME NEW S \in SUBSET Ids, S # {}
    PROVE  MinOf(S) \in S /\ \A n \in S : MinOf(S) <= n
<1>1. S \in SUBSET Nat
  BY BoundsAssumption DEF Ids
<1>2. \E m \in S : \A n \in S : m <= n
  BY <1>1, NatMin
<1>. QED
  BY <1>2 DEF MinOf

(* The highest id of a set is at least each of its ids.                      *)
LEMMA MaxOfBound ==
    ASSUME NEW S \in SUBSET Ids
    PROVE  MaxOf(S) \in 0..MaxId /\ \A n \in S : n <= MaxOf(S)
<1>1. CASE S = {}
  BY <1>1, BoundsAssumption DEF MaxOf
<1>2. CASE S # {}
  <2>. DEFINE T == {MaxId - n : n \in S}
  <2>a. \A n \in S : MaxId - n \in Nat
    BY BoundsAssumption DEF Ids
  <2>1. T \in SUBSET Nat /\ T # {}
    BY <1>2, <2>a
  <2>2. \E m \in T : \A n \in T : m <= n
    BY <2>1, NatMin
  <2>3. \E m \in S : \A n \in S : n <= m
    <3>1. PICK m \in S : \A n \in T : MaxId - m <= n
      BY <2>2
    <3>2. \A n \in S : MaxId - m <= MaxId - n
      BY <3>1
    <3>. QED
      BY <3>2, BoundsAssumption DEF Ids
  <2>4. MaxOf(S) \in S /\ \A n \in S : n <= MaxOf(S)
    BY <1>2, <2>3 DEF MaxOf
  <2>5. \A m \in Ids : m \in 0..MaxId
    BY BoundsAssumption DEF Ids
  <2>. QED
    BY <2>4, <2>5
<1>. QED
  BY <1>1, <1>2

(* Taking the lowest n ids of a set that has any takes some of them.         *)
LEMMA LowestSubset ==
    ASSUME NEW S, NEW n \in Nat \ {0}
    PROVE  /\ Lowest(n, S) \subseteq S
           /\ S \in SUBSET Ids /\ S # {} => Lowest(n, S) # {}
<1>1. Lowest(n, S) \subseteq S
  BY DEF Lowest
<1>2. ASSUME S \in SUBSET Ids, S # {}
      PROVE  Lowest(n, S) # {}
  <2>1. PICK p \in S : \A q \in S : p <= q
    BY <1>2, MinOfMember
  <2>a. \A q \in S : q \in Int /\ p \in Int
    BY <1>2, BoundsAssumption DEF Ids
  <2>b. \A q \in S : q <= p <=> q = p
    BY <2>1, <2>a
  <2>2. {q \in S : q <= p} = {p}
    BY <2>b
  <2>3. Cardinality({p}) = 1
    BY FS_Singleton
  <2>4. p \in Lowest(n, S)
    BY <2>2, <2>3 DEF Lowest
  <2>. QED
    BY <2>4
<1>. QED
  BY <1>1, <1>2
-----------------------------------------------------------------------------
(* Who is inside a locked region, and which ids it may use.                  *)

Inside(m) == mergePc[m] \in {"renamed", "swapped", "cleaning"}

Allocated(m) == mergePc[m] \notin {"idle", "selected"}

LockInv ==
    /\ flush # "idle" \/ pending # {} =>
          drop # "removing" /\ \A m \in Mergers : ~Inside(m)
    /\ drop = "removing" => \A m \in Mergers : ~Inside(m)
    /\ \A m, n \in Mergers : Inside(m) /\ Inside(n) => m = n
    /\ mode = "down" => /\ flush = "idle" /\ pending = {} /\ drop = "idle"
                        /\ \A m \in Mergers : mergePc[m] = "idle"
    /\ flush \in {"published", "listed"} => partSeq \in Ids
    /\ \A m \in Mergers : Allocated(m) => out[m] \in Ids

TypeInv == TypeOK /\ LockInv

(* rollbackSeqUnlocked never takes partSeq below zero.                       *)
LEMMA PartSeqBack ==
    ASSUME TypeInv, NEW m \in Mergers, Allocated(m)
    PROVE  (IF partSeq = out[m] THEN partSeq - 1 ELSE partSeq) \in 0..MaxId
<1>1. out[m] \in Ids
  BY DEF TypeInv, LockInv
<1>2. partSeq \in 0..MaxId
  BY DEF TypeInv, TypeOK, MemoryTypeOK
<1>. QED
  BY <1>1, <1>2, BoundsAssumption DEF Ids

(* The sets of ids read off the files are sets of ids.                       *)
LEMMA DiskSets ==
    ASSUME DiskTypeOK
    PROVE  Dirs \in SUBSET Ids /\ Recoverable \in SUBSET Ids
<1>1. Dirs \in SUBSET Ids
  BY DEF Dirs
<1>2. manifestFile # NoFile => manifestFile \in SUBSET Ids
  BY DEF DiskTypeOK
<1>. QED
  BY <1>1, <1>2 DEF Recoverable

(* The type invariant at the start.                                          *)
LEMMA TypeInvInit == Init => TypeInv
<1>1. ASSUME Init PROVE TypeOK
  <2>1. MemoryTypeOK
    BY <1>1, BoundsAssumption DEF Init, MemoryTypeOK, EmptyIndex
  <2>2. ThreadsTypeOK
    BY <1>1, BoundsAssumption DEF Init, ThreadsTypeOK, FlushPcs, MergePcs
  <2>3. SearchTypeOK
    BY <1>1 DEF Init, SearchTypeOK
  <2>4. DiskTypeOK
    BY <1>1 DEF Init, DiskTypeOK
  <2>5. GhostTypeOK
    BY <1>1, BoundsAssumption DEF Init, GhostTypeOK
  <2>. QED
    BY <2>1, <2>2, <2>3, <2>4, <2>5 DEF TypeOK
<1>2. Init => LockInv
  BY DEF Init, LockInv, Inside, Allocated
<1>. QED
  BY <1>1, <1>2 DEF TypeInv

(* No step leaves the types, action by action.                               *)
LEMMA TypeOKNext == TypeInv /\ [Next]_vars => TypeOK'
<1>. SUFFICES ASSUME TypeInv, [Next]_vars PROVE TypeOK'
  OBVIOUS
<1>. USE BoundsAssumption, ConfigAssumption
     DEF memory, merge, search, threads, disk, ghosts, TypeInv, TypeOK, MemoryTypeOK, ThreadsTypeOK,
         SearchTypeOK, DiskTypeOK, GhostTypeOK, LockInv, LockFree, Ids, FlushPcs,
         MergePcs, NoFile, NoIndex
<1>1. ASSUME NEW B \in SUBSET Rows, Append(B)
      PROVE  TypeOK'
  BY <1>1 DEF Append
<1>2. ASSUME NEW r \in Rows, Apply(r)
      PROVE  TypeOK'
  BY <1>2 DEF Apply
<1>3. ASSUME FlushCall
      PROVE  TypeOK'
  BY <1>3 DEF FlushCall
<1>4. ASSUME FlushPublish
      PROVE  TypeOK'
  BY <1>4 DEF FlushPublish, NextId
<1>5. ASSUME FlushRenameFails
      PROVE  TypeOK'
  BY <1>5 DEF FlushRenameFails, FlushReturnsError
<1>6. ASSUME FlushManifest
      PROVE  TypeOK'
  BY <1>6 DEF FlushManifest
<1>7. ASSUME FlushAlreadyListed
      PROVE  TypeOK'
  BY <1>7 DEF FlushAlreadyListed
<1>8. ASSUME FlushIndex
      PROVE  TypeOK'
  BY <1>8 DEF FlushIndex, RebuildDayIndexDB
<1>9. ASSUME FlushIndexFails
      PROVE  TypeOK'
  BY <1>9 DEF FlushIndexFails, FlushRollback, FlushReturnsError, RemoveDir
<1>10. ASSUME FlushFault
      PROVE  TypeOK'
  <2>0. flush \in {"published", "listed"} => partSeq - 1 \in 0..MaxId
    BY DEF TypeInv, LockInv, Ids
  <2>1. MemoryTypeOK'
    BY <1>10, <2>0 DEF TypeInv, TypeOK, MemoryTypeOK, FlushFault,
       FlushRollback, FlushReturnsError
  <2>2. ThreadsTypeOK'
    BY <1>10 DEF ThreadsTypeOK, FlushFault, Fault, FlushRollback,
       FlushReturnsError, RemoveDir
  <2>3. SearchTypeOK'
    BY <1>10 DEF SearchTypeOK, FlushFault, Fault, FlushRollback,
       FlushReturnsError, RemoveDir
  <2>4. DiskTypeOK'
    BY <1>10 DEF DiskTypeOK, FlushFault, Fault, FlushRollback,
       FlushReturnsError, RemoveDir
  <2>5. GhostTypeOK'
    BY <1>10 DEF GhostTypeOK, FlushFault, Fault, FlushRollback,
       FlushReturnsError, RemoveDir
  <2>. QED
    BY <2>1, <2>2, <2>3, <2>4, <2>5 DEF TypeOK
<1>11. ASSUME NEW m \in Mergers, MergeSelect(m)
      PROVE  TypeOK'
  BY <1>11 DEF MergeSelect, MergeGoesTo, SmallParts, Lowest
<1>12. ASSUME NEW m \in Mergers, MergeAlloc(m)
      PROVE  TypeOK'
  BY <1>12 DEF MergeAlloc, MergeGoesTo, NextId
<1>13. ASSUME NEW m \in Mergers, MergeRaced(m)
      PROVE  TypeOK'
  BY <1>13 DEF MergeRaced, MergeReturns, MergeGoesTo
<1>14. ASSUME NEW m \in Mergers, MergeRead(m)
      PROVE  TypeOK'
  <2>1. MemoryTypeOK'
    BY <1>14 DEF MemoryTypeOK, MergeRead, MergeGoesTo, InputRows
  <2>2. ThreadsTypeOK'
    <3>1. InputRows(m) \in SUBSET Rows
      BY DEF TypeInv, TypeOK, ThreadsTypeOK, DiskTypeOK, InputRows
    <3>. QED
      BY ZenonT(40), <1>14, <3>1 DEF TypeInv, TypeOK, ThreadsTypeOK, MergeRead,
         MergeGoesTo
  <2>3. SearchTypeOK'
    BY <1>14 DEF SearchTypeOK, MergeRead, MergeGoesTo, InputRows
  <2>4. DiskTypeOK'
    BY <1>14 DEF DiskTypeOK, MergeRead, MergeGoesTo, InputRows
  <2>5. GhostTypeOK'
    BY <1>14 DEF GhostTypeOK, MergeRead, MergeGoesTo, InputRows
  <2>. QED
    BY <2>1, <2>2, <2>3, <2>4, <2>5 DEF TypeOK
<1>15. ASSUME NEW m \in Mergers, MergeWrite(m)
      PROVE  TypeOK'
  BY <1>15 DEF MergeWrite, MergeGoesTo
<1>16. ASSUME NEW m \in Mergers, MergePublish(m)
      PROVE  TypeOK'
  <2>0. out[m] \in Ids
    BY <1>16 DEF TypeInv, LockInv, Allocated, MergePublish
  <2>1. MemoryTypeOK'
    BY <1>16 DEF MemoryTypeOK, MergePublish, MergeGoesTo
  <2>2. ThreadsTypeOK'
    BY <1>16 DEF ThreadsTypeOK, MergePublish, MergeGoesTo
  <2>3. SearchTypeOK'
    BY <1>16 DEF SearchTypeOK, MergePublish, MergeGoesTo
  <2>4. DiskTypeOK'
    BY <1>16, <2>0 DEF DiskTypeOK, MergePublish, MergeGoesTo
  <2>5. GhostTypeOK'
    BY <1>16 DEF GhostTypeOK, MergePublish, MergeGoesTo
  <2>. QED
    BY <2>1, <2>2, <2>3, <2>4, <2>5 DEF TypeOK
<1>17. ASSUME NEW m \in Mergers, MergeAbort(m)
      PROVE  TypeOK'
  <2>0. (IF partSeq = out[m] THEN partSeq - 1 ELSE partSeq) \in 0..MaxId
    BY <1>17, PartSeqBack DEF TypeInv, Allocated, MergeAbort
  <2>1. MemoryTypeOK'
    BY <1>17, <2>0 DEF TypeInv, TypeOK, MemoryTypeOK, MergeAbort,
       MergeRollbackLocked
  <2>2. ThreadsTypeOK'
    BY <1>17 DEF ThreadsTypeOK, MergeAbort, MergeRollbackLocked,
       MergeReturns, MergeGoesTo, RemoveDir
  <2>3. SearchTypeOK'
    BY <1>17 DEF SearchTypeOK, MergeAbort, MergeRollbackLocked,
       MergeReturns, MergeGoesTo, RemoveDir
  <2>4. DiskTypeOK'
    BY <1>17 DEF DiskTypeOK, MergeAbort, MergeRollbackLocked,
       MergeReturns, MergeGoesTo, RemoveDir
  <2>5. GhostTypeOK'
    BY <1>17 DEF GhostTypeOK, MergeAbort, MergeRollbackLocked,
       MergeReturns, MergeGoesTo, RemoveDir
  <2>. QED
    BY <2>1, <2>2, <2>3, <2>4, <2>5 DEF TypeOK
<1>18. ASSUME NEW m \in Mergers, MergeSwap(m)
      PROVE  TypeOK'
  <2>0. out[m] \in Ids
    BY <1>18 DEF TypeInv, LockInv, Allocated, MergeSwap
  <2>1. MemoryTypeOK'
    BY <1>18, <2>0 DEF MemoryTypeOK, MergeSwap, MergeGoesTo
  <2>2. ThreadsTypeOK'
    BY <1>18 DEF ThreadsTypeOK, MergeSwap, MergeGoesTo
  <2>3. SearchTypeOK'
    BY <1>18 DEF SearchTypeOK, MergeSwap, MergeGoesTo
  <2>4. DiskTypeOK'
    BY <1>18, <2>0 DEF DiskTypeOK, MergeSwap, MergeGoesTo
  <2>5. GhostTypeOK'
    BY <1>18 DEF GhostTypeOK, MergeSwap, MergeGoesTo
  <2>. QED
    BY <2>1, <2>2, <2>3, <2>4, <2>5 DEF TypeOK
<1>19. ASSUME NEW m \in Mergers, MergeIndex(m)
      PROVE  TypeOK'
  BY <1>19 DEF MergeIndex, MergeGoesTo, RebuildDayIndexDB
<1>20. ASSUME NEW m \in Mergers, MergeIndexFails(m)
      PROVE  TypeOK'
  <2>0. (IF partSeq = out[m] THEN partSeq - 1 ELSE partSeq) \in 0..MaxId
    BY <1>20, PartSeqBack DEF TypeInv, Allocated, MergeIndexFails
  <2>1. MemoryTypeOK'
    BY <1>20, <2>0 DEF TypeInv, TypeOK, MemoryTypeOK, MergeIndexFails,
       MergeRollbackLocked
  <2>2. ThreadsTypeOK'
    BY <1>20 DEF ThreadsTypeOK, MergeIndexFails, MergeRollbackLocked,
       MergeReturns, MergeGoesTo, RemoveDir
  <2>3. SearchTypeOK'
    BY <1>20 DEF SearchTypeOK, MergeIndexFails, MergeRollbackLocked,
       MergeReturns, MergeGoesTo, RemoveDir
  <2>4. DiskTypeOK'
    BY <1>20 DEF DiskTypeOK, MergeIndexFails, MergeRollbackLocked,
       MergeReturns, MergeGoesTo, RemoveDir
  <2>5. GhostTypeOK'
    BY <1>20 DEF GhostTypeOK, MergeIndexFails, MergeRollbackLocked,
       MergeReturns, MergeGoesTo, RemoveDir
  <2>. QED
    BY <2>1, <2>2, <2>3, <2>4, <2>5 DEF TypeOK
<1>21. ASSUME NEW m \in Mergers, MergeClean(m)
      PROVE  TypeOK'
  <2>1. MemoryTypeOK'
    BY <1>21 DEF MemoryTypeOK, MergeClean, MergeReturns, MergeGoesTo,
       RemoveDir
  <2>2. ThreadsTypeOK'
    <3>. DEFINE rest == inputs[m] \ {MinOf(inputs[m])}
    <3>1. rest \in SUBSET Ids
      BY DEF TypeInv, TypeOK, ThreadsTypeOK
    <3>2. CASE MergeReturns(m)
      BY <1>21, <3>2 DEF TypeInv, TypeOK, ThreadsTypeOK, MergeClean,
         MergeReturns, MergeGoesTo
    <3>3. CASE /\ inputs' = [inputs EXCEPT ![m] = rest]
               /\ UNCHANGED <<mergePc, out, rows>>
      BY <1>21, <3>1, <3>3 DEF TypeInv, TypeOK, ThreadsTypeOK, MergeClean
    <3>. QED
      BY <1>21, <3>2, <3>3 DEF MergeClean
  <2>3. SearchTypeOK'
    BY <1>21 DEF SearchTypeOK, MergeClean, MergeReturns, MergeGoesTo,
       RemoveDir
  <2>4. DiskTypeOK'
    BY <1>21 DEF DiskTypeOK, MergeClean, MergeReturns, MergeGoesTo, RemoveDir
  <2>5. GhostTypeOK'
    BY <1>21 DEF GhostTypeOK, MergeClean, MergeReturns, MergeGoesTo, RemoveDir
  <2>. QED
    BY <2>1, <2>2, <2>3, <2>4, <2>5 DEF TypeOK
<1>22. ASSUME NEW m \in Mergers, MergeRollback(m)
      PROVE  TypeOK'
  <2>0. (IF partSeq = out[m] THEN partSeq - 1 ELSE partSeq) \in 0..MaxId
    BY <1>22, PartSeqBack DEF TypeInv, Allocated, MergeRollback
  <2>1. MemoryTypeOK'
    BY <1>22, <2>0 DEF TypeInv, TypeOK, MemoryTypeOK, MergeRollback
  <2>2. ThreadsTypeOK'
    BY <1>22 DEF ThreadsTypeOK, MergeRollback, MergeGoesTo
  <2>3. SearchTypeOK'
    BY <1>22 DEF SearchTypeOK, MergeRollback, MergeGoesTo
  <2>4. DiskTypeOK'
    BY <1>22 DEF DiskTypeOK, MergeRollback, MergeGoesTo
  <2>5. GhostTypeOK'
    BY <1>22 DEF GhostTypeOK, MergeRollback, MergeGoesTo
  <2>. QED
    BY <2>1, <2>2, <2>3, <2>4, <2>5 DEF TypeOK
<1>23. ASSUME NEW m \in Mergers, MergeRemove(m)
      PROVE  TypeOK'
  <2>1. MemoryTypeOK'
    BY <1>23 DEF MemoryTypeOK, MergeRemove, MergeReturns, MergeGoesTo,
       RemoveDir
  <2>2. ThreadsTypeOK'
    BY <1>23 DEF ThreadsTypeOK, MergeRemove, MergeReturns, MergeGoesTo,
       RemoveDir
  <2>3. SearchTypeOK'
    BY <1>23 DEF SearchTypeOK, MergeRemove, MergeReturns, MergeGoesTo,
       RemoveDir
  <2>4. DiskTypeOK'
    BY <1>23 DEF DiskTypeOK, MergeRemove, MergeReturns, MergeGoesTo, RemoveDir
  <2>5. GhostTypeOK'
    BY <1>23 DEF GhostTypeOK, MergeRemove, MergeReturns, MergeGoesTo,
       RemoveDir
  <2>. QED
    BY <2>1, <2>2, <2>3, <2>4, <2>5 DEF TypeOK
<1>24. ASSUME NEW m \in Mergers, MergeFault(m)
      PROVE  TypeOK'
  <2>0. Allocated(m) => (IF partSeq = out[m] THEN partSeq - 1 ELSE partSeq) \in 0..MaxId
    BY PartSeqBack
  <2>a. MergeFault(m) => \/ MergeRollbackLocked(m)
                         \/ /\ MergeGoesTo(m, "failed") /\ rows' = [rows EXCEPT ![m] = {}]
                            /\ UNCHANGED <<memory, flush, inputs, out, drop, disk>>
    BY DEF MergeFault
  <2>b. MergeFault(m) => UNCHANGED search /\ Allocated(m)
    BY DEF MergeFault, MergeRollbackLocked, Allocated
  <2>c. MergeFault(m) => UNCHANGED merging \/ merging' = [merging EXCEPT ![out[m]] = {}]
    BY DEF MergeFault
  <2>1. MemoryTypeOK'
    BY <1>24, <2>0, <2>a, <2>b DEF TypeInv, TypeOK, MemoryTypeOK,
       MergeRollbackLocked
  <2>2. ThreadsTypeOK'
    <3>1. CASE MergeRollbackLocked(m)
      BY <3>1 DEF TypeInv, TypeOK, ThreadsTypeOK, MergeRollbackLocked,
         MergeReturns, MergeGoesTo
    <3>2. CASE ~MergeRollbackLocked(m)
      BY <1>24, <2>a, <3>2 DEF TypeInv, TypeOK, ThreadsTypeOK, MergeGoesTo
    <3>. QED
      BY <3>1, <3>2
  <2>3. SearchTypeOK'
    BY <1>24 DEF SearchTypeOK, MergeFault, Fault, MergeRollbackLocked,
       MergeReturns, MergeGoesTo, RemoveDir
  <2>4. DiskTypeOK'
    <3>1. CASE MergeRollbackLocked(m)
      BY <1>24, <2>c, <3>1 DEF TypeInv, TypeOK, DiskTypeOK,
         MergeRollbackLocked, RemoveDir
    <3>2. CASE ~MergeRollbackLocked(m)
      BY <1>24, <2>a, <3>2 DEF TypeInv, TypeOK, DiskTypeOK
    <3>. QED
      BY <3>1, <3>2
  <2>5. GhostTypeOK'
    BY <1>24 DEF GhostTypeOK, MergeFault, Fault, MergeRollbackLocked,
       MergeReturns, MergeGoesTo, RemoveDir
  <2>. QED
    BY <2>1, <2>2, <2>3, <2>4, <2>5 DEF TypeOK
<1>25. ASSUME NEW s \in Searchers, NEW eq \in Queries, SearchBegin(s, eq)
      PROVE  TypeOK'
  BY <1>25, SMTT(30) DEF SearchBegin, Stored, MatchingRows, PartsMatchingStreamEq
<1>26. ASSUME NEW s \in Searchers, SearchRead(s)
      PROVE  TypeOK'
  <2>1. MemoryTypeOK'
    BY <1>26, MinOfMember DEF MemoryTypeOK, SearchRead, RowsForQuery
  <2>2. ThreadsTypeOK'
    BY <1>26, MinOfMember DEF ThreadsTypeOK, SearchRead, RowsForQuery
  <2>3. SearchTypeOK'
    BY <1>26, MinOfMember DEF SearchTypeOK, SearchRead, RowsForQuery
  <2>4. DiskTypeOK'
    BY <1>26, MinOfMember DEF DiskTypeOK, SearchRead, RowsForQuery
  <2>5. GhostTypeOK'
    BY <1>26, MinOfMember DEF GhostTypeOK, SearchRead, RowsForQuery
  <2>. QED
    BY <2>1, <2>2, <2>3, <2>4, <2>5 DEF TypeOK
<1>27. ASSUME NEW s \in Searchers, SearchEnd(s)
      PROVE  TypeOK'
  BY <1>27 DEF SearchEnd
<1>28. ASSUME DropDay
      PROVE  TypeOK'
  BY <1>28, SMTT(30) DEF DropDay, Stored, EmptyIndex
<1>29. ASSUME DropRemove
      PROVE  TypeOK'
  <2>1. MemoryTypeOK'
    BY <1>29 DEF MemoryTypeOK, DropRemove, RemoveDir
  <2>2. ThreadsTypeOK'
    BY <1>29 DEF ThreadsTypeOK, DropRemove, RemoveDir
  <2>3. SearchTypeOK'
    BY <1>29 DEF SearchTypeOK, DropRemove, RemoveDir
  <2>4. DiskTypeOK'
    BY <1>29 DEF DiskTypeOK, DropRemove, RemoveDir
  <2>5. GhostTypeOK'
    BY <1>29 DEF GhostTypeOK, DropRemove, RemoveDir
  <2>. QED
    BY <2>1, <2>2, <2>3, <2>4, <2>5 DEF TypeOK
<1>30. ASSUME DropDone \/ DropFails
      PROVE  TypeOK'
  <2>1. CASE DropDone
    BY <2>1 DEF DropDone
  <2>2. CASE DropFails
    BY <2>2 DEF DropFails, Fault
  <2>. QED
    BY <1>30, <2>1, <2>2
<1>31. ASSUME Crash
      PROVE  TypeOK'
  BY <1>31 DEF Crash, EmptyIndex
<1>32. ASSUME Open
      PROVE  TypeOK'
  <2>1. MemoryTypeOK'
    BY <1>32, MaxOfBound DEF MemoryTypeOK, Open, OpenCleanup,
       Recoverable, OpenedIndex, RebuildDayIndexDB, EmptyIndex, Dirs
  <2>2. ThreadsTypeOK'
    BY <1>32, MaxOfBound DEF ThreadsTypeOK, Open, OpenCleanup,
       Recoverable, OpenedIndex, RebuildDayIndexDB, EmptyIndex, Dirs
  <2>3. SearchTypeOK'
    BY <1>32, MaxOfBound DEF SearchTypeOK, Open, OpenCleanup,
       Recoverable, OpenedIndex, RebuildDayIndexDB, EmptyIndex, Dirs
  <2>4. DiskTypeOK'
    BY <1>32, MaxOfBound DEF DiskTypeOK, Open, OpenCleanup, Recoverable,
       OpenedIndex, RebuildDayIndexDB, EmptyIndex, Dirs
  <2>5. GhostTypeOK'
    BY <1>32, MaxOfBound DEF GhostTypeOK, Open, OpenCleanup, Recoverable,
       OpenedIndex, RebuildDayIndexDB, EmptyIndex, Dirs
  <2>. QED
    BY <2>1, <2>2, <2>3, <2>4, <2>5 DEF TypeOK
<1>33. ASSUME OpenFails
      PROVE  TypeOK'
  <2>1. MemoryTypeOK'
    BY <1>33 DEF MemoryTypeOK, OpenFails, OpenCleanup, Recoverable, Dirs
  <2>2. ThreadsTypeOK'
    BY <1>33 DEF ThreadsTypeOK, OpenFails, OpenCleanup, Recoverable, Dirs
  <2>3. SearchTypeOK'
    BY <1>33 DEF SearchTypeOK, OpenFails, OpenCleanup, Recoverable, Dirs
  <2>4. DiskTypeOK'
    BY <1>33 DEF DiskTypeOK, OpenFails, OpenCleanup, Recoverable, Dirs
  <2>5. GhostTypeOK'
    BY <1>33 DEF GhostTypeOK, OpenFails, OpenCleanup, Recoverable, Dirs
  <2>. QED
    BY <2>1, <2>2, <2>3, <2>4, <2>5 DEF TypeOK
<1>34. ASSUME UNCHANGED vars
      PROVE  TypeOK'
  BY <1>34 DEF vars
<1>. QED
  BY <1>1, <1>2, <1>3, <1>4, <1>5, <1>6, <1>7, <1>8, <1>9, <1>10, <1>11,
     <1>12, <1>13, <1>14, <1>15, <1>16, <1>17, <1>18, <1>19, <1>20, <1>21,
     <1>22, <1>23, <1>24, <1>25, <1>26, <1>27, <1>28, <1>29, <1>30, <1>31,
     <1>32, <1>33, <1>34 DEF Next, FlushStep, MergeStep

(* No step lets two threads into a locked region, action by action.          *)
LEMMA LockInvNext == TypeInv /\ [Next]_vars => LockInv'
<1>. SUFFICES ASSUME TypeInv, [Next]_vars PROVE LockInv'
  OBVIOUS
<1>. USE BoundsAssumption, ConfigAssumption
     DEF memory, merge, search, threads, disk, ghosts, TypeInv, TypeOK, MemoryTypeOK, ThreadsTypeOK,
         DiskTypeOK, LockInv, Inside, Allocated, LockFree, Ids, FlushPcs,
         MergePcs
<1>1. ASSUME NEW B \in SUBSET Rows, Append(B)
      PROVE  LockInv'
  BY <1>1 DEF Append
<1>2. ASSUME NEW r \in Rows, Apply(r)
      PROVE  LockInv'
  BY <1>2 DEF Apply
<1>3. ASSUME FlushCall
      PROVE  LockInv'
  BY <1>3 DEF FlushCall
<1>4. ASSUME FlushPublish
      PROVE  LockInv'
  BY <1>4 DEF FlushPublish, NextId
<1>5. ASSUME FlushRenameFails
      PROVE  LockInv'
  BY <1>5 DEF FlushRenameFails, FlushReturnsError
<1>6. ASSUME FlushManifest
      PROVE  LockInv'
  BY <1>6 DEF FlushManifest
<1>7. ASSUME FlushAlreadyListed
      PROVE  LockInv'
  BY <1>7 DEF FlushAlreadyListed
<1>8. ASSUME FlushIndex
      PROVE  LockInv'
  BY <1>8 DEF FlushIndex, RebuildDayIndexDB
<1>9. ASSUME FlushIndexFails
      PROVE  LockInv'
  BY <1>9 DEF FlushIndexFails, FlushRollback, FlushReturnsError, RemoveDir
<1>10. ASSUME FlushFault
      PROVE  LockInv'
  BY <1>10 DEF FlushFault, Fault, FlushRollback, FlushReturnsError, RemoveDir
<1>11. ASSUME NEW m \in Mergers, MergeSelect(m)
      PROVE  LockInv'
  BY <1>11 DEF MergeSelect, MergeGoesTo, SmallParts, Lowest
<1>12. ASSUME NEW m \in Mergers, MergeAlloc(m)
      PROVE  LockInv'
  BY <1>12 DEF MergeAlloc, MergeGoesTo, NextId
<1>13. ASSUME NEW m \in Mergers, MergeRaced(m)
      PROVE  LockInv'
  BY <1>13 DEF MergeRaced, MergeReturns, MergeGoesTo
<1>14. ASSUME NEW m \in Mergers, MergeRead(m)
      PROVE  LockInv'
  BY <1>14 DEF MergeRead, MergeGoesTo, InputRows
<1>15. ASSUME NEW m \in Mergers, MergeWrite(m)
      PROVE  LockInv'
  BY <1>15 DEF MergeWrite, MergeGoesTo
<1>16. ASSUME NEW m \in Mergers, MergePublish(m)
      PROVE  LockInv'
  BY <1>16 DEF MergePublish, MergeGoesTo
<1>17. ASSUME NEW m \in Mergers, MergeAbort(m)
      PROVE  LockInv'
  BY <1>17 DEF MergeAbort, MergeRollbackLocked, MergeReturns, MergeGoesTo,
     RemoveDir
<1>18. ASSUME NEW m \in Mergers, MergeSwap(m)
      PROVE  LockInv'
  BY <1>18 DEF MergeSwap, MergeGoesTo
<1>19. ASSUME NEW m \in Mergers, MergeIndex(m)
      PROVE  LockInv'
  BY <1>19 DEF MergeIndex, MergeGoesTo, RebuildDayIndexDB
<1>20. ASSUME NEW m \in Mergers, MergeIndexFails(m)
      PROVE  LockInv'
  BY <1>20 DEF MergeIndexFails, MergeRollbackLocked, MergeReturns,
     MergeGoesTo, RemoveDir
<1>21. ASSUME NEW m \in Mergers, MergeClean(m)
      PROVE  LockInv'
  BY <1>21 DEF MergeClean, MergeReturns, MergeGoesTo, RemoveDir
<1>22. ASSUME NEW m \in Mergers, MergeRollback(m)
      PROVE  LockInv'
  BY <1>22 DEF MergeRollback, MergeGoesTo
<1>23. ASSUME NEW m \in Mergers, MergeRemove(m)
      PROVE  LockInv'
  BY <1>23 DEF MergeRemove, MergeReturns, MergeGoesTo, RemoveDir
<1>24. ASSUME NEW m \in Mergers, MergeFault(m)
      PROVE  LockInv'
  BY <1>24 DEF MergeFault, Fault, MergeRollbackLocked, MergeReturns,
     MergeGoesTo, RemoveDir
<1>25. ASSUME NEW s \in Searchers, NEW eq \in Queries, SearchBegin(s, eq)
      PROVE  LockInv'
  BY <1>25, SMTT(30) DEF SearchBegin, Stored, MatchingRows, PartsMatchingStreamEq
<1>26. ASSUME NEW s \in Searchers, SearchRead(s)
      PROVE  LockInv'
  BY <1>26, MinOfMember DEF SearchRead, RowsForQuery
<1>27. ASSUME NEW s \in Searchers, SearchEnd(s)
      PROVE  LockInv'
  BY <1>27 DEF SearchEnd
<1>28. ASSUME DropDay
      PROVE  LockInv'
  BY <1>28, SMTT(30) DEF DropDay, Stored, EmptyIndex
<1>29. ASSUME DropRemove
      PROVE  LockInv'
  BY <1>29 DEF DropRemove, RemoveDir
<1>30. ASSUME DropDone \/ DropFails
      PROVE  LockInv'
  BY <1>30 DEF DropDone, DropFails, Fault
<1>31. ASSUME Crash
      PROVE  LockInv'
  BY <1>31 DEF Crash, EmptyIndex
<1>32. ASSUME Open
      PROVE  LockInv'
  BY <1>32, MaxOfBound DEF Open, OpenCleanup, Recoverable, OpenedIndex,
     RebuildDayIndexDB, EmptyIndex, Dirs
<1>33. ASSUME OpenFails
      PROVE  LockInv'
  BY <1>33 DEF OpenFails, OpenCleanup, Recoverable, Dirs
<1>34. ASSUME UNCHANGED vars
      PROVE  LockInv'
  BY <1>34 DEF vars
<1>. QED
  BY <1>1, <1>2, <1>3, <1>4, <1>5, <1>6, <1>7, <1>8, <1>9, <1>10, <1>11,
     <1>12, <1>13, <1>14, <1>15, <1>16, <1>17, <1>18, <1>19, <1>20, <1>21,
     <1>22, <1>23, <1>24, <1>25, <1>26, <1>27, <1>28, <1>29, <1>30, <1>31,
     <1>32, <1>33, <1>34 DEF Next, FlushStep, MergeStep

(* The state of the day keeps its types for every number of threads, rows    *)
(* and ids, with crashes, failing file operations and retention drops.  In   *)
(* particular no rollback takes partSeq below zero (the partSeq-- of         *)
(* flushPartitionLocked and of rollbackSeq).                                 *)
THEOREM TypeCorrect == Spec => []TypeOK
<1>1. TypeInv /\ [Next]_vars => TypeInv'
  BY TypeOKNext, LockInvNext DEF TypeInv
<1>2. TypeInv => TypeOK
  BY DEF TypeInv
<1>. QED
  BY TypeInvInit, <1>1, <1>2, PTL DEF Spec

-----------------------------------------------------------------------------
(* Where the rows of a dropped day can come back from: for every number of   *)
(* mergers, failing file operations and drops.                               *)

(* All rows were sent before they were stored anywhere.                      *)
SentInv ==
    /\ buffers \cup pending \cup dropped \subseteq sent
    /\ \A p \in Ids : parts[p] \cup merging[p] \subseteq sent
    /\ \A m \in Mergers : rows[m] \subseteq sent

(* The parts that are listed or will be by the running flush or merge.       *)
Claimed == {p \in Ids : \/ p \in manifest
                        \/ flush = "published" /\ p = partSeq
                        \/ \E m \in Mergers : mergePc[m] = "renamed" /\ p = out[m]}

(* A dropped row is never buffered again, so a flush never writes it; a      *)
(* directory that a failed drop has left is not listed, and it keeps its id  *)
(* from being used: the listed parts that hold dropped rows are merged ones. *)
DropInv ==
    /\ (buffers \cup pending) \cap dropped = {}
    /\ mode = "down" => dropped = {}
    /\ \A p \in Claimed : p \notin big => parts[p] \cap dropped = {}

(* No step makes up a row that was never sent.                               *)
LEMMA SentInvNext ==
    ASSUME TypeInv, SentInv, [Next]_vars
    PROVE  SentInv'
<1>. USE DEF memory, merge, search, threads, disk, ghosts, SentInv
<1>1. /\ parts \in [Ids -> SUBSET Rows] /\ merging \in [Ids -> SUBSET Rows]
      /\ rows \in [Mergers -> SUBSET Rows] /\ manifest \subseteq Ids
      /\ inputs \in [Mergers -> SUBSET Ids] /\ out \in [Mergers -> 0..MaxId]
  BY DEF TypeInv, TypeOK, MemoryTypeOK, ThreadsTypeOK, DiskTypeOK
<1>2. CASE \E B \in SUBSET Rows : Append(B)
  BY <1>2 DEF Append
<1>3. CASE (\E r \in Rows : Apply(r)) \/ FlushCall
  BY <1>3 DEF Apply, FlushCall
<1>4. CASE FlushPublish
  BY <1>1, <1>4 DEF FlushPublish
<1>5. CASE \/ FlushRenameFails \/ FlushManifest \/ FlushAlreadyListed \/ FlushIndex
  BY <1>5 DEF FlushRenameFails, FlushManifest, FlushAlreadyListed, FlushIndex,
     FlushReturnsError
<1>6. CASE FlushIndexFails \/ FlushFault
  BY <1>1, <1>6 DEF FlushIndexFails, FlushFault, FlushRollback,
     FlushReturnsError, RemoveDir, Fault
<1>7. ASSUME NEW m \in Mergers,
             \/ MergeSelect(m) \/ MergeAlloc(m) \/ MergeRaced(m) \/ MergeSwap(m)
             \/ MergeIndex(m) \/ MergeRollback(m)
      PROVE  SentInv'
  BY <1>1, <1>7 DEF MergeSelect, MergeAlloc, MergeRaced, MergeSwap, MergeIndex,
     MergeRollback, MergeReturns, MergeGoesTo
<1>8. ASSUME NEW m \in Mergers, MergeRead(m) \/ MergeWrite(m) \/ MergePublish(m)
      PROVE  SentInv'
  <2>1. InputRows(m) \subseteq sent
    BY <1>1 DEF InputRows
  <2>2. CASE MergeRead(m)
    BY <1>1, <2>1, <2>2 DEF MergeRead
  <2>3. CASE MergeWrite(m)
    BY <1>1, <2>3 DEF MergeWrite
  <2>4. CASE MergePublish(m)
    BY <1>1, <2>4 DEF MergePublish
  <2>. QED
    BY <1>8, <2>2, <2>3, <2>4
<1>9. ASSUME NEW m \in Mergers,
             \/ MergeAbort(m) \/ MergeIndexFails(m) \/ MergeClean(m)
             \/ MergeRemove(m) \/ MergeFault(m)
      PROVE  SentInv'
  BY <1>1, <1>9 DEF MergeAbort, MergeIndexFails, MergeClean, MergeRemove,
     MergeFault, MergeRollbackLocked, MergeReturns, MergeGoesTo, RemoveDir, Fault
<1>10. ASSUME NEW s \in Searchers,
              \/ \E eq \in Queries : SearchBegin(s, eq)
              \/ SearchRead(s) \/ SearchEnd(s)
       PROVE  SentInv'
  BY <1>10 DEF SearchBegin, SearchRead, SearchEnd
<1>11. CASE DropDay
  <2>1. Stored \subseteq sent
    BY <1>1 DEF Stored
  <2>. QED
    BY <1>11, <2>1 DEF DropDay
<1>12. CASE DropRemove \/ DropDone \/ DropFails
  BY <1>1, <1>12 DEF DropRemove, DropDone, DropFails, RemoveDir, Fault
<1>13. CASE Crash
  BY <1>13 DEF Crash
<1>14. CASE Open \/ OpenFails
  BY <1>1, <1>14 DEF Open, OpenFails, OpenCleanup
<1>15. CASE UNCHANGED vars
  BY <1>15 DEF vars
<1>. QED
  BY <1>2, <1>3, <1>4, <1>5, <1>6, <1>7, <1>8, <1>9, <1>10, <1>11, <1>12,
     <1>13, <1>14, <1>15 DEF Next, FlushStep, MergeStep

(* A step that drops nothing, buffers nothing new and lists no small part    *)
(* that was not on its way changes nothing about dropped rows.               *)
LEMMA DropInvFrame ==
    ASSUME DropInv, UNCHANGED dropped, mode' = "down" => mode = "down",
           buffers' \cup pending' \subseteq buffers \cup pending,
           \A p \in Claimed' :
               \/ p \in big' \/ parts'[p] = {}
               \/ p \in Claimed /\ p \notin big /\ parts'[p] \subseteq parts[p]
    PROVE  DropInv'
<1>1. (buffers' \cup pending') \cap dropped' = {} /\ (mode' = "down" => dropped' = {})
  BY DEF DropInv
<1>2. \A p \in Claimed' : p \notin big' => parts'[p] \cap dropped' = {}
  BY DEF DropInv
<1>. QED
  BY <1>1, <1>2 DEF DropInv

(* No step but a crash brings a dropped row back, except in a merged part.   *)
LEMMA DropInvNext ==
    ASSUME TypeInv, SentInv, DropInv, [Next]_vars
    PROVE  crashes' = 0 => DropInv'
<1>. SUFFICES ASSUME ~Crash PROVE DropInv'
  BY DEF Crash, TypeInv, TypeOK, GhostTypeOK
<1>. USE DEF memory, merge, search, threads, disk, ghosts
<1>1. /\ parts \in [Ids -> SUBSET Rows] /\ big \subseteq Ids
      /\ out \in [Mergers -> 0..MaxId] /\ mergePc \in [Mergers -> MergePcs]
      /\ manifest \subseteq Ids
  BY DEF TypeInv, TypeOK, MemoryTypeOK, ThreadsTypeOK, DiskTypeOK
<1>a. ASSUME UNCHANGED <<dropped, mode, parts, big>>, Claimed' \subseteq Claimed,
             buffers' \cup pending' \subseteq buffers \cup pending
      PROVE  DropInv'
  BY <1>a, DropInvFrame
<1>2. CASE \E B \in SUBSET Rows : Append(B)
  BY <1>2 DEF Append, SentInv, DropInv, LockFree, Claimed
<1>3. CASE (\E r \in Rows : Apply(r)) \/ FlushCall
  BY <1>3, <1>a DEF Apply, FlushCall, Claimed
<1>4. CASE FlushPublish
  <2>1. \A p \in Claimed' : p = NextId \/ p \in Claimed
    BY <1>4 DEF FlushPublish, Claimed
  <2>2. /\ parts' = [parts EXCEPT ![NextId] = buffers]
        /\ UNCHANGED <<dropped, mode, buffers, pending, big>>
    BY <1>4 DEF FlushPublish
  <2>3. \A p \in Claimed' : p \notin big' => parts'[p] \cap dropped' = {}
    BY <1>1, <2>1, <2>2 DEF DropInv, Claimed
  <2>. QED
    BY <2>2, <2>3 DEF DropInv
<1>5. CASE \/ FlushRenameFails \/ FlushManifest \/ FlushAlreadyListed \/ FlushIndex
  BY <1>5, <1>a DEF FlushRenameFails, FlushManifest, FlushAlreadyListed,
     FlushIndex, FlushReturnsError, Claimed
<1>6. CASE FlushIndexFails \/ FlushFault
  <2>1. /\ UNCHANGED <<dropped, mode, buffers>> /\ pending' \subseteq pending
        /\ UNCHANGED <<parts, big>> \/ \E p : RemoveDir(p)
    BY <1>6 DEF FlushIndexFails, FlushFault, FlushRollback, FlushReturnsError,
       Fault
  <2>2. \A p \in Ids : \/ parts'[p] = {}
                       \/ parts'[p] = parts[p] /\ (p \in big' <=> p \in big)
    BY <1>1, <2>1 DEF RemoveDir
  <2>3. Claimed' \subseteq Claimed
    BY <1>6 DEF Claimed, FlushIndexFails, FlushFault, FlushRollback,
       FlushReturnsError, Fault
  <2>. QED
    BY <2>1, <2>2, <2>3, DropInvFrame DEF Claimed
<1>7. ASSUME NEW m \in Mergers,
             \/ MergeSelect(m) \/ MergeAlloc(m) \/ MergeRaced(m) \/ MergeSwap(m)
             \/ MergeIndex(m) \/ MergeRollback(m) \/ MergeRead(m) \/ MergeWrite(m)
      PROVE  DropInv'
  <2>1. UNCHANGED <<dropped, mode, buffers, pending, big, parts>>
    BY <1>7 DEF MergeSelect, MergeAlloc, MergeRaced, MergeSwap, MergeIndex,
       MergeRollback, MergeRead, MergeWrite
  <2>2. CASE MergeAlloc(m)
    BY <1>1, <1>a, <2>1, <2>2 DEF Claimed, MergeAlloc, MergeGoesTo, LockFree
  <2>3. CASE MergeSwap(m)
    BY <1>1, <1>a, <2>1, <2>3 DEF Claimed, MergeSwap, MergeGoesTo
  <2>4. CASE \/ MergeSelect(m) \/ MergeRaced(m) \/ MergeIndex(m) \/ MergeRollback(m)
             \/ MergeRead(m) \/ MergeWrite(m)
    <3>1. /\ UNCHANGED <<manifest, flush>>
          /\ partSeq' = partSeq \/ flush = "idle"
      BY <2>4 DEF MergeSelect, MergeRaced, MergeIndex, MergeRollback, MergeRead,
         MergeWrite, MergeReturns, MergeGoesTo, LockFree
    <3>2. \A n \in Mergers : mergePc'[n] = "renamed"
                                => mergePc[n] = "renamed" /\ out'[n] = out[n]
      BY <1>1, <2>4 DEF MergeSelect, MergeRaced, MergeIndex, MergeRollback,
         MergeRead, MergeWrite, MergeReturns, MergeGoesTo
    <3>. QED
      BY <1>a, <2>1, <3>1, <3>2 DEF Claimed
  <2>. QED
    BY <1>7, <2>2, <2>3, <2>4
<1>8. ASSUME NEW m \in Mergers, MergePublish(m)
      PROVE  DropInv'
  <2>1. /\ parts' = [parts EXCEPT ![out[m]] = merging[out[m]]]
        /\ big' = big \cup {out[m]}
        /\ UNCHANGED <<dropped, mode, buffers, pending>>
    BY <1>8 DEF MergePublish
  <2>2. \A p \in Ids : p # out[m] => parts'[p] = parts[p]
    BY <1>1, <2>1
  <2>3. \A p \in Claimed' : p \in Claimed \/ p = out[m]
    BY <1>1, <1>8 DEF MergePublish, MergeGoesTo, Claimed
  <2>. QED
    BY <2>1, <2>2, <2>3, DropInvFrame DEF Claimed
<1>9. ASSUME NEW m \in Mergers,
             \/ MergeAbort(m) \/ MergeIndexFails(m) \/ MergeClean(m)
             \/ MergeRemove(m) \/ MergeFault(m)
      PROVE  DropInv'
  <2>1. /\ UNCHANGED <<dropped, mode, buffers, pending>>
        /\ UNCHANGED <<parts, big>> \/ \E p : RemoveDir(p)
    BY <1>9 DEF MergeAbort, MergeIndexFails, MergeClean, MergeRemove, MergeFault,
       MergeRollbackLocked, Fault
  <2>2. \A p \in Ids : \/ parts'[p] = {}
                       \/ parts'[p] = parts[p] /\ (p \in big' <=> p \in big)
    BY <1>1, <2>1 DEF RemoveDir
  <2>3. /\ UNCHANGED flush /\ manifest' \subseteq manifest
        /\ partSeq' = partSeq \/ flush # "published"
    BY <1>9 DEF MergeAbort, MergeIndexFails, MergeClean, MergeRemove, MergeFault,
       MergeRollbackLocked, Fault, LockFree, TypeInv, LockInv, Inside
  <2>4. \A n \in Mergers : mergePc'[n] = "renamed"
                              => mergePc[n] = "renamed" /\ out'[n] = out[n]
    BY <1>1, <1>9 DEF MergeAbort, MergeIndexFails, MergeClean, MergeRemove,
       MergeFault, MergeRollbackLocked, MergeReturns, MergeGoesTo
  <2>5. Claimed' \subseteq Claimed
    BY <2>3, <2>4 DEF Claimed
  <2>. QED
    BY <2>1, <2>2, <2>5, DropInvFrame DEF Claimed
<1>10. ASSUME NEW s \in Searchers,
              \/ \E eq \in Queries : SearchBegin(s, eq)
              \/ SearchRead(s) \/ SearchEnd(s)
       PROVE  DropInv'
  BY <1>10, <1>a DEF SearchBegin, SearchRead, SearchEnd, Claimed
<1>11. CASE DropDay
  <2>1. Claimed' = {}
    BY <1>11 DEF DropDay, LockFree, Claimed
  <2>. QED
    BY <1>11, <2>1 DEF DropDay, LockFree, DropInv
<1>12. CASE DropRemove
  <2>1. UNCHANGED <<parts, big>> \/ \E p : RemoveDir(p)
    BY <1>12 DEF DropRemove
  <2>2. \A p \in Ids : \/ parts'[p] = {}
                       \/ parts'[p] = parts[p] /\ (p \in big' <=> p \in big)
    BY <1>1, <2>1 DEF RemoveDir
  <2>3. Claimed' = Claimed /\ UNCHANGED <<dropped, mode, buffers, pending>>
    BY <1>12 DEF DropRemove, Claimed
  <2>. QED
    BY <2>2, <2>3, DropInvFrame DEF Claimed
<1>13. CASE DropDone \/ DropFails
  BY <1>13, <1>a DEF DropDone, DropFails, Fault, Claimed
<1>14. CASE Open \/ OpenFails
  <2>1. mode = "down" /\ UNCHANGED <<dropped, buffers, pending>>
    BY <1>14 DEF Open, OpenFails, OpenCleanup
  <2>. QED
    BY <2>1 DEF DropInv
<1>15. CASE UNCHANGED vars
  BY <1>15, <1>a DEF vars, Claimed
<1>. QED
  BY <1>2, <1>3, <1>4, <1>5, <1>6, <1>7, <1>8, <1>9, <1>10, <1>11, <1>12,
     <1>13, <1>14, <1>15 DEF Next, FlushStep, MergeStep

(* After retention has dropped the day, what a merge publishes is the only   *)
(* way back for its rows, until the process crashes: no flush, no error      *)
(* path, no second use of a part id and no drop that fails brings one back.  *)
THEOREM DroppedRowsComeBackMerged == Spec => []OnlyMergesResurrect
<1>. DEFINE Inv == TypeInv /\ SentInv /\ (crashes = 0 => DropInv)
<1>1. Init => Inv
  <2>1. Init => SentInv /\ DropInv
    BY DEF Init, SentInv, DropInv
  <2>. QED
    BY <2>1, TypeInvInit
<1>2. Inv /\ [Next]_vars => Inv'
  <2>1. TypeInv /\ [Next]_vars => TypeInv'
    BY TypeOKNext, LockInvNext DEF TypeInv
  <2>2. ASSUME TypeInv, [Next]_vars, crashes' = 0 PROVE crashes = 0
    <3>1. crashes' = crashes \/ crashes' = crashes + 1
      BY <2>2 DEF Next, Append, Apply, FlushCall, FlushStep, FlushPublish,
         FlushRenameFails, FlushManifest, FlushAlreadyListed, FlushIndex,
         FlushIndexFails, FlushFault, Fault, MergeSelect, MergeStep, MergeAlloc,
         MergeRaced, MergeRead, MergeWrite, MergePublish, MergeAbort, MergeSwap,
         MergeIndex, MergeIndexFails, MergeClean, MergeRollback, MergeRemove,
         MergeFault, SearchBegin, SearchRead, SearchEnd, DropDay, DropRemove,
         DropDone, DropFails, Crash, Open, OpenFails, OpenCleanup, vars, ghosts
    <3>. QED
      BY <2>2, <3>1 DEF TypeInv, TypeOK, GhostTypeOK
  <2>. QED
    BY <2>1, <2>2, SentInvNext, DropInvNext
<1>3. Inv => OnlyMergesResurrect
  BY DEF OnlyMergesResurrect, LockFree, DropInv, Claimed, Stored, TypeInv, TypeOK,
     MemoryTypeOK
<1>. QED
  BY <1>1, <1>2, <1>3, PTL DEF Spec

-----------------------------------------------------------------------------
(* The invariant behind ManifestBacked, NoRowTwice and PartSeqAhead.  They   *)
(* need each of three hypotheses: one merger at a time (MergeRemove deletes  *)
(* a directory whose id may be taken again: run v_two_mergers), no failing   *)
(* file operation (FlushRollback gives an id back that is listed already)    *)
(* and no retention drop (DropDay starts the ids at 1 again while a merge    *)
(* still owns an old one).                                                   *)

Reliable == /\ MaxFaults = 0 /\ MaxDrops = 0
            /\ \A m, n \in Mergers : m = n

(* manifest.json names only existing directories, s.manifests agrees with    *)
(* it, and no id on disk is ahead of partSeq.  Before the first manifest is  *)
(* written the only directory is the one the running flush has published.    *)
FileBacked == manifestFile # NoFile => manifestFile \subseteq Dirs
DayDirInv  == ~dayDir => Dirs = {} /\ manifestFile = NoFile
DownInv    == mode = "down" => buffers = {} /\ manifest = {}
ListAgrees == mode = "up" =>
    /\ manifestFile = NoFile => manifest = {}
    /\ manifestFile # NoFile => manifest = manifestFile
SeqAhead   == mode = "up" => \A p \in Dirs : p <= partSeq
FreshDir   == mode = "up" /\ manifestFile = NoFile =>
    \A p \in Dirs : flush = "published" /\ p = partSeq

ListInv == /\ drop = "idle" /\ FileBacked /\ DayDirInv /\ DownInv
           /\ ListAgrees /\ SeqAhead /\ FreshDir

FlushInv ==
    /\ flush # "idle" => buffers # {}
    /\ flush = "published" => parts[partSeq] = buffers /\ partSeq \notin manifest
    /\ flush = "listed" => parts[partSeq] = buffers /\ partSeq \in manifest

(* A merger's inputs stay listed until it replaces them, its output id is    *)
(* free until it renames, and what it writes are exactly the inputs' rows.   *)
MergeOwns(m) ==
    /\ mergePc[m] \notin {"failed", "unlocked"}
    /\ mergePc[m] # "idle" => inputs[m] # {}
    /\ mergePc[m] \in {"selected", "reading", "writing", "written", "renamed"}
          => inputs[m] \subseteq manifest
    /\ mergePc[m] \in {"swapped", "cleaning"} => inputs[m] \cap manifest = {}
    /\ mergePc[m] \in {"reading", "writing", "written"}
          => parts[out[m]] = {} /\ out[m] <= partSeq
    /\ mergePc[m] = "writing" => rows[m] = InputRows(m)
    /\ mergePc[m] = "written" => merging[out[m]] = InputRows(m)
    /\ mergePc[m] = "renamed" => /\ parts[out[m]] = InputRows(m)
                                 /\ out[m] \notin manifest
    /\ mergePc[m] = "swapped" => out[m] \in manifest

MergeInv == \A m \in Mergers : MergeOwns(m)

(* Rows are fresh when they are appended and live in one place.              *)
RowInv ==
    /\ pending \cap buffers = {}
    /\ buffers \cup pending \subseteq sent
    /\ \A p \in Ids : parts[p] \subseteq sent \ pending
    /\ \A p, q \in Recoverable : p # q => parts[p] \cap parts[q] = {}
    /\ \A p \in Recoverable :
          parts[p] \cap buffers = {} \/ (p = partSeq /\ flush \in {"published", "listed"})

IInv == TypeInv /\ ListInv /\ FlushInv /\ MergeInv /\ RowInv

(* Without a drop, a listed part is on disk.                                 *)
LEMMA ListedOnDisk ==
    ASSUME IInv
    PROVE  manifest \subseteq Dirs /\ Recoverable \subseteq Dirs
<1>1. CASE mode = "up"
  BY <1>1 DEF IInv, ListInv, ListAgrees, FileBacked, Recoverable
<1>2. CASE mode = "down"
  BY <1>2 DEF IInv, ListInv, DownInv, FileBacked, Recoverable
<1>. QED
  BY <1>1, <1>2 DEF IInv, TypeInv, TypeOK, MemoryTypeOK

(* Under these hypotheses no error path is ever taken.                       *)
LEMMA NoErrorPaths ==
    ASSUME Reliable, IInv
    PROVE  /\ ~Fault /\ ~FlushRenameFails /\ ~FlushAlreadyListed
           /\ ~FlushIndexFails /\ ~OpenFails
           /\ ~DropDay /\ ~DropRemove /\ ~DropDone /\ ~DropFails
           /\ \A m \in Mergers : /\ ~MergeRaced(m) /\ ~MergeAbort(m)
                                 /\ ~MergeIndexFails(m) /\ ~MergeRollback(m)
                                 /\ ~MergeRemove(m)
<1>1. manifest \subseteq Dirs
  BY ListedOnDisk
<1>2. ~Fault /\ ~DropDay
  BY DEF Reliable, IInv, TypeInv, TypeOK, GhostTypeOK, Fault, DropDay
<1>3. ~DropRemove /\ ~DropDone /\ ~DropFails
  BY DEF IInv, ListInv, DropRemove, DropDone, DropFails
<1>4. ~FlushRenameFails
  <2>1. ASSUME FlushRenameFails PROVE FALSE
    <3>1. mode = "up"
      BY <2>1 DEF FlushRenameFails, IInv, TypeInv, TypeOK,
         MemoryTypeOK, LockInv
    <3>2. NextId <= partSeq
      BY <2>1, <3>1 DEF FlushRenameFails, IInv, ListInv, SeqAhead, Dirs
    <3>. QED
      BY <3>2 DEF NextId, IInv, TypeInv, TypeOK, MemoryTypeOK
  <2>. QED
    BY <2>1
<1>5. ~FlushAlreadyListed
  BY DEF FlushAlreadyListed, IInv, FlushInv
<1>6. ~FlushIndexFails
  BY <1>1 DEF FlushIndexFails, CanRebuildIndex
<1>7. ~OpenFails
  BY ListedOnDisk DEF OpenFails, CanOpen, CanRebuildIndex
<1>8. ASSUME NEW m \in Mergers
      PROVE  ~MergeRaced(m) /\ ~MergeIndexFails(m) /\ ~MergeRollback(m) /\ ~MergeRemove(m)
  BY <1>1 DEF IInv, MergeInv, MergeOwns, MergeRaced, MergeIndexFails,
     MergeRollback, MergeRemove, CanRebuildIndex
<1>9. ASSUME NEW m \in Mergers PROVE ~MergeAbort(m)
  <2>1. ASSUME mergePc[m] = "written" PROVE CanPublishMerge(m)
    <3>1. PICK p \in inputs[m] : p \in Dirs
      BY <1>1, <2>1 DEF IInv, MergeInv, MergeOwns
    <3>2. InputRows(m) # {}
      BY <3>1 DEF InputRows, Dirs
    <3>. QED
      BY <2>1, <3>2 DEF IInv, MergeInv, MergeOwns, CanPublishMerge
  <2>. QED
    BY <2>1 DEF MergeAbort
<1>. QED
  BY <1>2, <1>3, <1>4, <1>5, <1>6, <1>7, <1>8, <1>9

(* The invariant at the start.                                               *)
LEMMA IInvInit == Init => IInv
<1>1. Init => ListInv
  BY DEF Init, ListInv, FileBacked, DayDirInv, DownInv, ListAgrees,
     SeqAhead, FreshDir, Dirs
<1>2. Init => FlushInv /\ MergeInv
  BY DEF Init, FlushInv, MergeInv, MergeOwns
<1>3. Init => RowInv
  BY DEF Init, RowInv, Recoverable, Dirs
<1>. QED
  BY <1>1, <1>2, <1>3, TypeInvInit DEF IInv

(* Memory, manifest.json and the directories stay in agreement.              *)
LEMMA ListInvNext ==
    ASSUME Reliable, IInv, [Next]_vars
    PROVE  ListInv'
<1>. USE BoundsAssumption DEF memory, merge, search, threads, disk, ghosts
<1>t. TypeInv /\ TypeInv'
  BY TypeOKNext, LockInvNext DEF IInv, TypeInv
<1>u. /\ parts \in [Ids -> SUBSET Rows] /\ merging \in [Ids -> SUBSET Rows]
      /\ partSeq \in Nat /\ manifest \subseteq Ids /\ buffers \subseteq Rows
      /\ manifestFile = NoFile \/ manifestFile \subseteq Ids
      /\ mergePc \in [Mergers -> MergePcs] /\ inputs \in [Mergers -> SUBSET Ids]
      /\ out \in [Mergers -> 0..MaxId] /\ rows \in [Mergers -> SUBSET Rows]
  BY <1>t DEF TypeInv, TypeOK, MemoryTypeOK, ThreadsTypeOK, DiskTypeOK
<1>v. ListInv /\ FlushInv /\ MergeInv /\ RowInv /\ LockInv
  BY DEF IInv, TypeInv
<1>w. /\ manifest \subseteq Dirs /\ Dirs \subseteq Ids
      /\ \A S \in SUBSET Ids : S # NoFile
  BY ListedOnDisk DEF Dirs, Ids, NoFile
<1>1. ASSUME NEW B \in SUBSET Rows, Append(B)
      PROVE  ListInv'
  BY <1>1, <1>u, <1>v DEF LockInv, Inside, Allocated, LockFree, ListInv,
     FileBacked, DayDirInv, DownInv, ListAgrees, SeqAhead, FreshDir, Dirs,
     Append
<1>2. ASSUME NEW r \in Rows, Apply(r)
      PROVE  ListInv'
  BY <1>2, <1>u, <1>v DEF LockInv, Inside, Allocated, LockFree, ListInv,
     FileBacked, DayDirInv, DownInv, ListAgrees, SeqAhead, FreshDir, Dirs,
     Apply
<1>3. ASSUME FlushCall
      PROVE  ListInv'
  BY <1>3, <1>u, <1>v DEF LockInv, Inside, Allocated, LockFree, ListInv,
     FileBacked, DayDirInv, DownInv, ListAgrees, SeqAhead, FreshDir, Dirs,
     FlushCall
<1>4. ASSUME FlushPublish
      PROVE  ListInv'
  <2>1. /\ flush = "start" /\ NextId \in Ids /\ parts[NextId] = {}
        /\ parts' = [parts EXCEPT ![NextId] = buffers]
        /\ partSeq' = NextId /\ dayDir' = TRUE /\ flush' = "published"
        /\ UNCHANGED <<mode, buffers, pending, manifest, merge, drop, merging, manifestFile, sent>>
    BY <1>4 DEF FlushPublish

  <2>2. buffers # {} /\ mode = "up"
    BY <2>1, <1>t, <1>v DEF FlushInv, LockInv, TypeInv, TypeOK, MemoryTypeOK
  <2>3. Dirs' = Dirs \cup {NextId}
    BY <2>1, <2>2, <1>u DEF Dirs
  <2>4. SeqAhead'
    BY <2>1, <2>2, <2>3, <1>u, <1>v, <1>w DEF ListInv, SeqAhead, NextId, Ids
  <2>5. FreshDir'
    BY <2>1, <2>2, <2>3, <1>v DEF ListInv, FreshDir
  <2>6. FileBacked' /\ DayDirInv' /\ DownInv' /\ ListAgrees'
    BY <2>1, <2>2, <2>3, <1>v DEF ListInv, FileBacked, DayDirInv,
       DownInv, ListAgrees
  <2>. QED
    BY <2>1, <2>4, <2>5, <2>6, <1>v DEF ListInv
<1>5. ASSUME FlushManifest
      PROVE  ListInv'
  <2>1. /\ flush = "published" /\ flush' = "listed"
        /\ manifest' = manifest \cup {partSeq} /\ manifestFile' = manifest'
        /\ UNCHANGED <<mode, buffers, pending, partSeq, merge, drop, dayDir, parts, merging, sent>>
    BY <1>5 DEF FlushManifest
  <2>2. /\ mode = "up" /\ partSeq \in Ids /\ partSeq \in Dirs
        /\ parts[partSeq] = buffers /\ partSeq \notin manifest
    BY <2>1, <1>t, <1>v DEF FlushInv, LockInv, TypeInv, TypeOK,
       MemoryTypeOK, Dirs
  <2>3. manifestFile' # NoFile
    BY <2>1, <2>2, <1>u, <1>w

  <2>4. Dirs' = Dirs
    BY <2>1 DEF Dirs
  <2>5. FileBacked' /\ ListAgrees' /\ FreshDir'
    BY <2>1, <2>2, <2>3, <2>4, <1>w DEF FileBacked, ListAgrees, FreshDir
  <2>6. DayDirInv' /\ DownInv' /\ SeqAhead'
    BY <2>1, <2>2, <2>4, <1>v DEF ListInv, DayDirInv, DownInv, SeqAhead
  <2>. QED
    BY <2>1, <2>5, <2>6, <1>v DEF ListInv
<1>6. ASSUME FlushIndex
      PROVE  ListInv'
  BY <1>6, <1>u, <1>v DEF LockInv, Inside, Allocated, LockFree, ListInv,
     FileBacked, DayDirInv, DownInv, ListAgrees, SeqAhead, FreshDir, Dirs,
     FlushIndex
<1>7. ASSUME NEW m \in Mergers, MergeSelect(m)
      PROVE  ListInv'
  BY <1>7, <1>u, <1>v DEF LockInv, Inside, Allocated, LockFree, ListInv,
     FileBacked, DayDirInv, DownInv, ListAgrees, SeqAhead, FreshDir, Dirs,
     MergeSelect, MergeGoesTo
<1>8. ASSUME NEW m \in Mergers, MergeAlloc(m)
      PROVE  ListInv'
  <2>1. /\ partSeq' = partSeq + 1 /\ dayDir' = TRUE /\ flush = "idle"
        /\ UNCHANGED <<mode, flush, drop, buffers, manifest, manifestFile, parts>>
    BY <1>8 DEF MergeAlloc, NextId, LockFree
  <2>2. Dirs' = Dirs
    BY <2>1 DEF Dirs
  <2>3. SeqAhead'
    BY <2>1, <2>2, <1>u, <1>v, <1>w DEF ListInv, SeqAhead, Ids
  <2>4. FreshDir'
    BY <2>1, <2>2, <1>v DEF ListInv, FreshDir
  <2>. QED
    BY <2>1, <2>2, <2>3, <2>4, <1>v DEF ListInv, FileBacked, DayDirInv,
       DownInv, ListAgrees
<1>9. ASSUME NEW m \in Mergers, MergeRead(m)
      PROVE  ListInv'
  BY <1>9, <1>u, <1>v DEF LockInv, Inside, Allocated, LockFree, ListInv,
     FileBacked, DayDirInv, DownInv, ListAgrees, SeqAhead, FreshDir, Dirs,
     MergeRead, MergeGoesTo
<1>10. ASSUME NEW m \in Mergers, MergeWrite(m)
      PROVE  ListInv'
  BY <1>10, <1>u, <1>v DEF LockInv, Inside, Allocated, LockFree, ListInv,
     FileBacked, DayDirInv, DownInv, ListAgrees, SeqAhead, FreshDir, Dirs,
     MergeWrite, MergeGoesTo
<1>11. ASSUME NEW m \in Mergers, MergePublish(m)
      PROVE  ListInv'
  <2>1. /\ mergePc[m] = "written" /\ mergePc' = [mergePc EXCEPT ![m] = "renamed"]
        /\ parts' = [parts EXCEPT ![out[m]] = merging[out[m]]]
        /\ merging[out[m]] # {} /\ parts[out[m]] = {}
        /\ mode = "up" /\ flush = "idle"
        /\ UNCHANGED <<mode, buffers, pending, manifest, partSeq, flush, drop, dayDir, manifestFile, inputs, out, sent>>
    BY <1>11 DEF MergePublish, CanPublishMerge, MergeGoesTo, LockFree
  <2>2. /\ inputs[m] # {} /\ inputs[m] \subseteq manifest
        /\ merging[out[m]] = InputRows(m) /\ out[m] <= partSeq
    BY <2>1, <1>v DEF MergeInv, MergeOwns
  <2>3. out[m] \in Ids
    BY <2>1, <1>v DEF LockInv, Allocated
  <2>4. out[m] \notin manifest
    BY <2>1, <1>w DEF Dirs
  <2>5. manifestFile # NoFile /\ manifestFile = manifest
    BY <2>1, <2>2, <1>v DEF ListInv, ListAgrees

  <2>6. Dirs' = Dirs \cup {out[m]}
    BY <2>1, <2>3, <1>u DEF Dirs
  <2>7. FileBacked' /\ ListAgrees' /\ FreshDir' /\ DownInv'
    BY <2>1, <2>5, <2>6, <1>w DEF FileBacked, ListAgrees, FreshDir, DownInv
  <2>8. DayDirInv' /\ SeqAhead'
    BY <2>1, <2>2, <2>5, <2>6, <1>v DEF ListInv, DayDirInv, SeqAhead
  <2>. QED
    BY <2>1, <2>7, <2>8, <1>v DEF ListInv
<1>12. ASSUME NEW m \in Mergers, MergeSwap(m)
      PROVE  ListInv'
  <2>1. /\ mergePc[m] = "renamed" /\ mergePc' = [mergePc EXCEPT ![m] = "swapped"]
        /\ manifest' = (manifest \ inputs[m]) \cup {out[m]} /\ manifestFile' = manifest'
        /\ UNCHANGED <<mode, buffers, pending, partSeq, flush, drop, dayDir, parts, merging, inputs, out, sent>>
    BY <1>12 DEF MergeSwap, MergeGoesTo
  <2>2. /\ inputs[m] # {} /\ inputs[m] \subseteq manifest
        /\ parts[out[m]] = InputRows(m) /\ out[m] \notin manifest
    BY <2>1, <1>v DEF MergeInv, MergeOwns
  <2>3. out[m] \in Ids
    BY <2>1, <1>v DEF LockInv, Allocated
  <2>4. mode = "up" /\ flush = "idle"
    BY <2>1, <1>t, <1>v DEF LockInv, Inside, TypeInv, TypeOK, MemoryTypeOK
  <2>5. manifestFile' # NoFile
    BY <2>1, <2>3, <1>u, <1>w

  <2>6. Dirs' = Dirs
    BY <2>1 DEF Dirs
  <2>7. out[m] \in Dirs
    <3>1. PICK p \in inputs[m] : p \in Dirs
      BY <2>2, <1>w
    <3>. QED
      BY <2>2, <2>3, <3>1 DEF Dirs, InputRows
  <2>8. FileBacked' /\ ListAgrees' /\ FreshDir' /\ DownInv'
    BY <2>1, <2>4, <2>5, <2>6, <2>7, <1>w DEF FileBacked, ListAgrees,
       FreshDir, DownInv
  <2>9. DayDirInv' /\ SeqAhead'
    BY <2>1, <2>6, <2>7, <1>v DEF ListInv, DayDirInv, SeqAhead
  <2>. QED
    BY <2>1, <2>8, <2>9, <1>v DEF ListInv
<1>13. ASSUME NEW m \in Mergers, MergeIndex(m)
      PROVE  ListInv'
  BY <1>13, <1>u, <1>v DEF LockInv, Inside, Allocated, LockFree, ListInv,
     FileBacked, DayDirInv, DownInv, ListAgrees, SeqAhead, FreshDir, Dirs,
     MergeIndex, MergeGoesTo
<1>14. ASSUME NEW m \in Mergers, MergeClean(m)
      PROVE  ListInv'
  <2>. DEFINE p == MinOf(inputs[m])
  <2>1. /\ mergePc[m] = "cleaning" /\ parts' = [parts EXCEPT ![p] = {}]
        /\ UNCHANGED <<mode, buffers, pending, manifest, partSeq, flush, drop, dayDir, manifestFile, sent>>
    BY <1>14 DEF MergeClean, RemoveDir
  <2>2. inputs[m] # {} /\ inputs[m] \cap manifest = {}
    BY <2>1, <1>v DEF MergeInv, MergeOwns
  <2>3. p \in inputs[m] /\ p \in Ids
    BY <2>2, <1>u, MinOfMember
  <2>. HIDE DEF p

  <2>4. mode = "up" /\ flush = "idle"
    BY <2>1, <1>t, <1>v DEF LockInv, Inside, TypeInv, TypeOK, MemoryTypeOK
  <2>5. Dirs' = Dirs \ {p}
    BY <2>1, <2>3, <1>u DEF Dirs
  <2>6. p \notin manifest
    BY <2>2, <2>3
  <2>7. FileBacked' /\ ListAgrees'
    BY <2>1, <2>4, <2>5, <2>6, <1>v, <1>w DEF ListInv, FileBacked, ListAgrees
  <2>8. DayDirInv' /\ SeqAhead' /\ FreshDir' /\ DownInv'
    BY <2>1, <2>4, <2>5, <1>v DEF ListInv, DayDirInv, SeqAhead, FreshDir,
       DownInv
  <2>. QED
    BY <2>1, <2>7, <2>8, <1>v DEF ListInv
<1>15. ASSUME NEW s \in Searchers, NEW eq \in Queries, SearchBegin(s, eq)
      PROVE  ListInv'
  BY <1>15, <1>u, <1>v DEF LockInv, Inside, Allocated, LockFree, ListInv,
     FileBacked, DayDirInv, DownInv, ListAgrees, SeqAhead, FreshDir, Dirs,
     SearchBegin
<1>16. ASSUME NEW s \in Searchers, SearchRead(s)
      PROVE  ListInv'
  BY <1>16, <1>u, <1>v DEF LockInv, Inside, Allocated, LockFree, ListInv,
     FileBacked, DayDirInv, DownInv, ListAgrees, SeqAhead, FreshDir, Dirs,
     SearchRead
<1>17. ASSUME NEW s \in Searchers, SearchEnd(s)
      PROVE  ListInv'
  BY <1>17, <1>u, <1>v DEF LockInv, Inside, Allocated, LockFree, ListInv,
     FileBacked, DayDirInv, DownInv, ListAgrees, SeqAhead, FreshDir, Dirs,
     SearchEnd
<1>18. ASSUME Crash
      PROVE  ListInv'
  BY <1>18, <1>u, <1>v DEF LockInv, Inside, Allocated, LockFree, ListInv,
     FileBacked, DayDirInv, DownInv, ListAgrees, SeqAhead, FreshDir, Dirs,
     Crash
<1>19. ASSUME Open
      PROVE  ListInv'
  <2>1. /\ mode = "down" /\ mode' = "up"
        /\ parts' = [q \in Ids |-> IF q \in Recoverable THEN parts[q] ELSE {}]
        /\ manifestFile' = IF dayDir THEN Recoverable ELSE NoFile
        /\ manifest' = Recoverable /\ partSeq' = MaxOf(Recoverable)
        /\ UNCHANGED <<flush, drop, dayDir, buffers>>
    BY <1>19 DEF Open, OpenCleanup
  <2>2. Recoverable \in SUBSET Ids /\ Recoverable \subseteq Dirs
    BY ListedOnDisk, <1>w
  <2>3. Dirs' = Recoverable
    BY <2>1, <2>2 DEF Dirs
  <2>4. ~dayDir => Recoverable = {}
    BY <1>v DEF ListInv, DayDirInv, Recoverable
  <2>5. \A q \in Recoverable : q <= MaxOf(Recoverable)
    BY <2>2, MaxOfBound
  <2>6. FileBacked' /\ DayDirInv' /\ DownInv' /\ SeqAhead'
    BY <2>1, <2>3, <2>4, <2>5 DEF FileBacked, DayDirInv, DownInv, SeqAhead
  <2>7. ListAgrees' /\ FreshDir'
    BY <2>1, <2>2, <2>3, <2>4, <1>w DEF ListAgrees, FreshDir
  <2>. QED
    BY <2>1, <2>6, <2>7, <1>v DEF ListInv
<1>20. ASSUME UNCHANGED vars
      PROVE  ListInv'
  BY <1>20, <1>u, <1>v DEF LockInv, Inside, Allocated, LockFree, ListInv,
     FileBacked, DayDirInv, DownInv, ListAgrees, SeqAhead, FreshDir, Dirs,
     vars
<1>. QED
  BY NoErrorPaths, <1>1, <1>2, <1>3, <1>4, <1>5, <1>6, <1>7, <1>8, <1>9,
     <1>10, <1>11, <1>12, <1>13, <1>14, <1>15, <1>16, <1>17, <1>18, <1>19,
     <1>20 DEF Next, FlushStep, MergeStep, FlushFault, MergeFault

(* What a flush has published stays what the buffers hold.                   *)
LEMMA FlushInvNext ==
    ASSUME Reliable, IInv, [Next]_vars
    PROVE  FlushInv'
<1>. USE BoundsAssumption DEF memory, merge, search, threads, disk, ghosts
<1>t. TypeInv /\ TypeInv'
  BY TypeOKNext, LockInvNext DEF IInv, TypeInv
<1>u. /\ parts \in [Ids -> SUBSET Rows] /\ merging \in [Ids -> SUBSET Rows]
      /\ partSeq \in Nat /\ manifest \subseteq Ids /\ buffers \subseteq Rows
      /\ manifestFile = NoFile \/ manifestFile \subseteq Ids
      /\ mergePc \in [Mergers -> MergePcs] /\ inputs \in [Mergers -> SUBSET Ids]
      /\ out \in [Mergers -> 0..MaxId] /\ rows \in [Mergers -> SUBSET Rows]
  BY <1>t DEF TypeInv, TypeOK, MemoryTypeOK, ThreadsTypeOK, DiskTypeOK
<1>v. ListInv /\ FlushInv /\ MergeInv /\ RowInv /\ LockInv
  BY DEF IInv, TypeInv
<1>w. /\ manifest \subseteq Dirs /\ Dirs \subseteq Ids
      /\ \A S \in SUBSET Ids : S # NoFile
  BY ListedOnDisk DEF Dirs, Ids, NoFile
<1>1. ASSUME NEW B \in SUBSET Rows, Append(B)
      PROVE  FlushInv'
  BY <1>1, <1>u, <1>v DEF LockInv, Inside, Allocated, LockFree, FlushInv,
     Append
<1>2. ASSUME NEW r \in Rows, Apply(r)
      PROVE  FlushInv'
  BY <1>2, <1>u, <1>v DEF LockInv, Inside, Allocated, LockFree, FlushInv,
     Apply
<1>3. ASSUME FlushCall
      PROVE  FlushInv'
  BY <1>3, <1>u, <1>v DEF LockInv, Inside, Allocated, LockFree, FlushInv,
     FlushCall
<1>4. ASSUME FlushPublish
      PROVE  FlushInv'
  <2>1. /\ flush = "start" /\ NextId \in Ids /\ parts[NextId] = {}
        /\ parts' = [parts EXCEPT ![NextId] = buffers]
        /\ partSeq' = NextId /\ dayDir' = TRUE /\ flush' = "published"
        /\ UNCHANGED <<mode, buffers, pending, manifest, merge, drop, merging, manifestFile, sent>>
    BY <1>4 DEF FlushPublish

  <2>2. NextId \notin manifest
    BY <2>1, <1>w DEF Dirs
  <2>3. buffers # {} /\ parts'[partSeq'] = buffers
    BY <2>1, <1>u, <1>v DEF FlushInv
  <2>. QED
    BY <2>1, <2>2, <2>3 DEF FlushInv
<1>5. ASSUME FlushManifest
      PROVE  FlushInv'
  BY <1>5, <1>u, <1>v DEF LockInv, Inside, Allocated, LockFree, FlushInv,
     FlushManifest
<1>6. ASSUME FlushIndex
      PROVE  FlushInv'
  BY <1>6, <1>u, <1>v DEF LockInv, Inside, Allocated, LockFree, FlushInv,
     FlushIndex
<1>7. ASSUME NEW m \in Mergers, MergeSelect(m)
      PROVE  FlushInv'
  BY <1>7, <1>u, <1>v DEF LockInv, Inside, Allocated, LockFree, FlushInv,
     MergeSelect, MergeGoesTo
<1>8. ASSUME NEW m \in Mergers, MergeAlloc(m)
      PROVE  FlushInv'
  BY <1>8, <1>u, <1>v DEF LockInv, Inside, Allocated, LockFree, FlushInv,
     MergeAlloc, MergeGoesTo, NextId
<1>9. ASSUME NEW m \in Mergers, MergeRead(m)
      PROVE  FlushInv'
  BY <1>9, <1>u, <1>v DEF LockInv, Inside, Allocated, LockFree, FlushInv,
     MergeRead, MergeGoesTo
<1>10. ASSUME NEW m \in Mergers, MergeWrite(m)
      PROVE  FlushInv'
  BY <1>10, <1>u, <1>v DEF LockInv, Inside, Allocated, LockFree, FlushInv,
     MergeWrite, MergeGoesTo
<1>11. ASSUME NEW m \in Mergers, MergePublish(m)
      PROVE  FlushInv'
  BY <1>11, <1>u, <1>v DEF LockInv, Inside, Allocated, LockFree, FlushInv,
     MergePublish, MergeGoesTo
<1>12. ASSUME NEW m \in Mergers, MergeSwap(m)
      PROVE  FlushInv'
  BY <1>12, <1>u, <1>v DEF LockInv, Inside, Allocated, LockFree, FlushInv,
     MergeSwap, MergeGoesTo
<1>13. ASSUME NEW m \in Mergers, MergeIndex(m)
      PROVE  FlushInv'
  BY <1>13, <1>u, <1>v DEF LockInv, Inside, Allocated, LockFree, FlushInv,
     MergeIndex, MergeGoesTo
<1>14. ASSUME NEW m \in Mergers, MergeClean(m)
      PROVE  FlushInv'
  BY <1>14, <1>u, <1>v DEF LockInv, Inside, Allocated, LockFree, FlushInv,
     MergeClean, MergeReturns, MergeGoesTo, RemoveDir
<1>15. ASSUME NEW s \in Searchers, NEW eq \in Queries, SearchBegin(s, eq)
      PROVE  FlushInv'
  BY <1>15, <1>u, <1>v DEF LockInv, Inside, Allocated, LockFree, FlushInv,
     SearchBegin
<1>16. ASSUME NEW s \in Searchers, SearchRead(s)
      PROVE  FlushInv'
  BY <1>16, <1>u, <1>v DEF LockInv, Inside, Allocated, LockFree, FlushInv,
     SearchRead
<1>17. ASSUME NEW s \in Searchers, SearchEnd(s)
      PROVE  FlushInv'
  BY <1>17, <1>u, <1>v DEF LockInv, Inside, Allocated, LockFree, FlushInv,
     SearchEnd
<1>18. ASSUME Crash
      PROVE  FlushInv'
  BY <1>18, <1>u, <1>v DEF LockInv, Inside, Allocated, LockFree, FlushInv,
     Crash
<1>19. ASSUME Open
      PROVE  FlushInv'
  BY <1>19, <1>u, <1>v DEF LockInv, Inside, Allocated, LockFree, FlushInv,
     Open, OpenCleanup
<1>20. ASSUME UNCHANGED vars
      PROVE  FlushInv'
  BY <1>20, <1>u, <1>v DEF LockInv, Inside, Allocated, LockFree, FlushInv,
     vars
<1>. QED
  BY NoErrorPaths, <1>1, <1>2, <1>3, <1>4, <1>5, <1>6, <1>7, <1>8, <1>9,
     <1>10, <1>11, <1>12, <1>13, <1>14, <1>15, <1>16, <1>17, <1>18, <1>19,
     <1>20 DEF Next, FlushStep, MergeStep, FlushFault, MergeFault

(* What a merge works on stays listed and its id free.                       *)
LEMMA MergeInvNext ==
    ASSUME Reliable, IInv, [Next]_vars
    PROVE  MergeInv'
<1>. USE BoundsAssumption DEF memory, merge, search, threads, disk, ghosts
<1>t. TypeInv /\ TypeInv'
  BY TypeOKNext, LockInvNext DEF IInv, TypeInv
<1>u. /\ parts \in [Ids -> SUBSET Rows] /\ merging \in [Ids -> SUBSET Rows]
      /\ partSeq \in Nat /\ manifest \subseteq Ids /\ buffers \subseteq Rows
      /\ manifestFile = NoFile \/ manifestFile \subseteq Ids
      /\ mergePc \in [Mergers -> MergePcs] /\ inputs \in [Mergers -> SUBSET Ids]
      /\ out \in [Mergers -> 0..MaxId] /\ rows \in [Mergers -> SUBSET Rows]
  BY <1>t DEF TypeInv, TypeOK, MemoryTypeOK, ThreadsTypeOK, DiskTypeOK
<1>v. ListInv /\ FlushInv /\ MergeInv /\ RowInv /\ LockInv
  BY DEF IInv, TypeInv
<1>w. /\ manifest \subseteq Dirs /\ Dirs \subseteq Ids
      /\ \A S \in SUBSET Ids : S # NoFile
  BY ListedOnDisk DEF Dirs, Ids, NoFile
<1>1. ASSUME NEW B \in SUBSET Rows, Append(B)
      PROVE  MergeInv'
  BY <1>1, <1>u, <1>v DEF LockInv, Inside, Allocated, LockFree, MergeInv,
     MergeOwns, InputRows, Append
<1>2. ASSUME NEW r \in Rows, Apply(r)
      PROVE  MergeInv'
  BY <1>2, <1>u, <1>v DEF LockInv, Inside, Allocated, LockFree, MergeInv,
     MergeOwns, InputRows, Apply
<1>3. ASSUME FlushCall
      PROVE  MergeInv'
  BY <1>3, <1>u, <1>v DEF LockInv, Inside, Allocated, LockFree, MergeInv,
     MergeOwns, InputRows, FlushCall
<1>4. ASSUME FlushPublish
      PROVE  MergeInv'
  <2>1. /\ flush = "start" /\ NextId \in Ids /\ parts[NextId] = {}
        /\ parts' = [parts EXCEPT ![NextId] = buffers]
        /\ partSeq' = NextId /\ dayDir' = TRUE /\ flush' = "published"
        /\ UNCHANGED <<mode, buffers, pending, manifest, merge, drop, merging, manifestFile, sent>>
    BY <1>4 DEF FlushPublish

  <2>2. NextId \notin manifest
    BY <2>1, <1>w DEF Dirs
  <2>3. ASSUME NEW m \in Mergers PROVE MergeOwns(m)'
    <3>1. mergePc[m] \notin {"renamed", "swapped", "cleaning"}
      BY <2>1, <1>v DEF LockInv, Inside
    <3>2. mergePc[m] # "idle" => InputRows(m)' = InputRows(m)
      <4>1. mergePc[m] # "idle" => NextId \notin inputs[m]
        BY <2>2, <3>1, <1>u, <1>v DEF MergeInv, MergeOwns, MergePcs
      <4>. QED
        BY <2>1, <4>1, <1>u DEF InputRows
    <3>3. Allocated(m) => /\ parts'[out[m]] = parts[out[m]]
                          /\ out[m] <= partSeq => out[m] <= partSeq'
      <4>1. Allocated(m) => out[m] \in Ids
        BY <1>v DEF LockInv
      <4>2. Allocated(m) => out[m] <= partSeq
        BY <3>1, <1>u, <1>v DEF MergeInv, MergeOwns, MergePcs, Allocated
      <4>. QED
        BY <2>1, <4>1, <4>2, <1>u DEF NextId, Ids
    <3>. QED
      BY <2>1, <3>1, <3>2, <3>3, <1>v DEF MergeInv, MergeOwns, Allocated
  <2>. QED
    BY <2>3 DEF MergeInv
<1>5. ASSUME FlushManifest
      PROVE  MergeInv'
  BY <1>5, <1>u, <1>v DEF LockInv, Inside, Allocated, LockFree, MergeInv,
     MergeOwns, InputRows, FlushManifest
<1>6. ASSUME FlushIndex
      PROVE  MergeInv'
  BY <1>6, <1>u, <1>v DEF LockInv, Inside, Allocated, LockFree, MergeInv,
     MergeOwns, InputRows, FlushIndex
<1>7. ASSUME NEW m \in Mergers, MergeSelect(m)
      PROVE  MergeInv'
  <2>1. /\ mergePc' = [mergePc EXCEPT ![m] = "selected"]
        /\ inputs' = [inputs EXCEPT ![m] = Lowest(MergeMaxPartsPerJob, SmallParts)]
        /\ UNCHANGED <<manifest, parts, merging, out, rows, partSeq>>
    BY <1>7 DEF MergeSelect, MergeGoesTo
  <2>2. SmallParts # {} /\ SmallParts \in SUBSET Ids /\ SmallParts \subseteq manifest
    <3>1. Cardinality({}) = 0
      BY FS_EmptySet
    <3>2. MinParts(m) \in Nat /\ MinParts(m) >= 2
      BY ConfigAssumption DEF MinParts
    <3>3. Cardinality(SmallParts) >= MinParts(m)
      BY <1>7 DEF MergeSelect
    <3>4. SmallParts # {}
      BY <3>1, <3>2, <3>3
    <3>. QED
      BY <3>4, <1>u DEF SmallParts
  <2>3. /\ Lowest(MergeMaxPartsPerJob, SmallParts) # {}
        /\ Lowest(MergeMaxPartsPerJob, SmallParts) \subseteq manifest
    BY <2>2, LowestSubset, ConfigAssumption
  <2>4. MergeOwns(m)'
    BY <2>1, <2>3, <1>u DEF MergeOwns
  <2>. QED
    BY <2>4 DEF MergeInv, Reliable
<1>8. ASSUME NEW m \in Mergers, MergeAlloc(m)
      PROVE  MergeInv'
  <2>1. /\ mergePc[m] = "selected" /\ mergePc' = [mergePc EXCEPT ![m] = "reading"]
        /\ out' = [out EXCEPT ![m] = NextId] /\ partSeq' = NextId /\ partSeq < MaxId
        /\ mode = "up"
        /\ UNCHANGED <<manifest, parts, merging, inputs, rows>>
    BY <1>8 DEF MergeAlloc, MergeGoesTo, LockFree
  <2>2. NextId \in Ids
    BY <2>1, <1>u DEF NextId, Ids
  <2>3. parts[NextId] = {}
    <3>1. NextId \notin Dirs
      BY <2>1, <1>u, <1>v DEF ListInv, SeqAhead, NextId
    <3>. QED
      BY <2>2, <3>1 DEF Dirs
  <2>4. out'[m] = NextId /\ NextId <= NextId
    BY <2>1, <2>2, <1>u DEF Ids
  <2>5. MergeOwns(m)'
    BY <2>1, <2>3, <2>4, <1>u, <1>v DEF MergeInv, MergeOwns
  <2>. QED
    BY <2>5 DEF MergeInv, Reliable
<1>9. ASSUME NEW m \in Mergers, MergeRead(m)
      PROVE  MergeInv'
  <2>1. /\ mergePc[m] = "reading"
        /\ UNCHANGED <<manifest, parts, inputs, out, partSeq>>
    BY <1>9 DEF MergeRead
  <2>2. inputs[m] # {} /\ inputs[m] \subseteq manifest /\ parts[out[m]] = {} /\ out[m] <= partSeq
    BY <2>1, <1>v DEF MergeInv, MergeOwns
  <2>3. inputs[m] \subseteq Dirs
    BY <2>2, <1>w
  <2>4. /\ mergePc' = [mergePc EXCEPT ![m] = "writing"]
        /\ rows' = [rows EXCEPT ![m] = InputRows(m)]
    BY <1>9, <2>3 DEF MergeRead, MergeGoesTo
  <2>5. mergePc'[m] = "writing" /\ rows'[m] = InputRows(m)
    BY <2>4, <1>u
  <2>6. InputRows(m)' = InputRows(m)
    BY <2>1 DEF InputRows
  <2>7. MergeOwns(m)'
    BY <2>1, <2>2, <2>5, <2>6 DEF MergeOwns
  <2>. QED
    BY <2>7 DEF MergeInv, Reliable
<1>10. ASSUME NEW m \in Mergers, MergeWrite(m)
      PROVE  MergeInv'
  <2>1. /\ mergePc[m] = "writing" /\ mergePc' = [mergePc EXCEPT ![m] = "written"]
        /\ merging' = [merging EXCEPT ![out[m]] = rows[m]]
        /\ UNCHANGED <<manifest, parts, inputs, out, partSeq>>
    BY <1>10 DEF MergeWrite, MergeGoesTo
  <2>2. /\ inputs[m] # {} /\ inputs[m] \subseteq manifest /\ rows[m] = InputRows(m)
        /\ parts[out[m]] = {} /\ out[m] <= partSeq
    BY <2>1, <1>v DEF MergeInv, MergeOwns
  <2>3. out[m] \in Ids
    BY <2>1, <1>v DEF LockInv, Allocated
  <2>4. mergePc'[m] = "written" /\ merging'[out[m]] = InputRows(m)
    BY <2>1, <2>2, <2>3, <1>u
  <2>5. InputRows(m)' = InputRows(m)
    BY <2>1 DEF InputRows
  <2>6. MergeOwns(m)'
    BY <2>1, <2>2, <2>4, <2>5 DEF MergeOwns
  <2>. QED
    BY <2>6 DEF MergeInv, Reliable
<1>11. ASSUME NEW m \in Mergers, MergePublish(m)
      PROVE  MergeInv'
  <2>1. /\ mergePc[m] = "written" /\ mergePc' = [mergePc EXCEPT ![m] = "renamed"]
        /\ parts' = [parts EXCEPT ![out[m]] = merging[out[m]]]
        /\ merging[out[m]] # {} /\ parts[out[m]] = {}
        /\ mode = "up" /\ flush = "idle"
        /\ UNCHANGED <<mode, buffers, pending, manifest, partSeq, flush, drop, dayDir, manifestFile, inputs, out, sent>>
    BY <1>11 DEF MergePublish, CanPublishMerge, MergeGoesTo, LockFree
  <2>2. /\ inputs[m] # {} /\ inputs[m] \subseteq manifest
        /\ merging[out[m]] = InputRows(m) /\ out[m] <= partSeq
    BY <2>1, <1>v DEF MergeInv, MergeOwns
  <2>3. out[m] \in Ids
    BY <2>1, <1>v DEF LockInv, Allocated
  <2>4. out[m] \notin manifest
    BY <2>1, <1>w DEF Dirs
  <2>5. manifestFile # NoFile /\ manifestFile = manifest
    BY <2>1, <2>2, <1>v DEF ListInv, ListAgrees

  <2>6. InputRows(m)' = InputRows(m)
    BY <2>1, <2>2, <2>4, <1>u DEF InputRows
  <2>7. mergePc'[m] = "renamed" /\ parts'[out[m]] = InputRows(m)
    BY <2>1, <2>2, <2>3, <1>u
  <2>8. MergeOwns(m)'
    BY <2>1, <2>2, <2>4, <2>6, <2>7 DEF MergeOwns
  <2>. QED
    BY <2>8 DEF MergeInv, Reliable
<1>12. ASSUME NEW m \in Mergers, MergeSwap(m)
      PROVE  MergeInv'
  <2>1. /\ mergePc[m] = "renamed" /\ mergePc' = [mergePc EXCEPT ![m] = "swapped"]
        /\ manifest' = (manifest \ inputs[m]) \cup {out[m]} /\ manifestFile' = manifest'
        /\ UNCHANGED <<mode, buffers, pending, partSeq, flush, drop, dayDir, parts, merging, inputs, out, sent>>
    BY <1>12 DEF MergeSwap, MergeGoesTo
  <2>2. /\ inputs[m] # {} /\ inputs[m] \subseteq manifest
        /\ parts[out[m]] = InputRows(m) /\ out[m] \notin manifest
    BY <2>1, <1>v DEF MergeInv, MergeOwns
  <2>3. out[m] \in Ids
    BY <2>1, <1>v DEF LockInv, Allocated
  <2>4. mode = "up" /\ flush = "idle"
    BY <2>1, <1>t, <1>v DEF LockInv, Inside, TypeInv, TypeOK, MemoryTypeOK
  <2>5. manifestFile' # NoFile
    BY <2>1, <2>3, <1>u, <1>w

  <2>6. mergePc'[m] = "swapped" /\ inputs'[m] # {} /\ inputs'[m] \cap manifest' = {} /\ out'[m] \in manifest'
    BY <2>1, <2>2, <1>u
  <2>7. MergeOwns(m)'
    BY <2>6 DEF MergeOwns
  <2>. QED
    BY <2>7 DEF MergeInv, Reliable
<1>13. ASSUME NEW m \in Mergers, MergeIndex(m)
      PROVE  MergeInv'
  BY <1>13, <1>u, <1>v DEF LockInv, Inside, Allocated, LockFree, MergeInv,
     MergeOwns, InputRows, MergeIndex, MergeGoesTo
<1>14. ASSUME NEW m \in Mergers, MergeClean(m)
      PROVE  MergeInv'
  <2>. DEFINE p == MinOf(inputs[m])
  <2>1. /\ mergePc[m] = "cleaning" /\ parts' = [parts EXCEPT ![p] = {}]
        /\ UNCHANGED <<mode, buffers, pending, manifest, partSeq, flush, drop, dayDir, manifestFile, sent>>
    BY <1>14 DEF MergeClean, RemoveDir
  <2>2. inputs[m] # {} /\ inputs[m] \cap manifest = {}
    BY <2>1, <1>v DEF MergeInv, MergeOwns
  <2>3. p \in inputs[m] /\ p \in Ids
    BY <2>2, <1>u, MinOfMember
  <2>. HIDE DEF p

  <2>4. \/ mergePc'[m] = "idle"
        \/ /\ mergePc'[m] = "cleaning"
           /\ inputs'[m] # {} /\ inputs'[m] \subseteq inputs[m]
    BY <1>14, <1>u DEF MergeClean, MergeReturns, MergeGoesTo
  <2>5. MergeOwns(m)'
    BY <2>1, <2>2, <2>4 DEF MergeOwns
  <2>. QED
    BY <2>5 DEF MergeInv, Reliable
<1>15. ASSUME NEW s \in Searchers, NEW eq \in Queries, SearchBegin(s, eq)
      PROVE  MergeInv'
  BY <1>15, <1>u, <1>v DEF LockInv, Inside, Allocated, LockFree, MergeInv,
     MergeOwns, InputRows, SearchBegin
<1>16. ASSUME NEW s \in Searchers, SearchRead(s)
      PROVE  MergeInv'
  BY <1>16, <1>u, <1>v DEF LockInv, Inside, Allocated, LockFree, MergeInv,
     MergeOwns, InputRows, SearchRead
<1>17. ASSUME NEW s \in Searchers, SearchEnd(s)
      PROVE  MergeInv'
  BY <1>17, <1>u, <1>v DEF LockInv, Inside, Allocated, LockFree, MergeInv,
     MergeOwns, InputRows, SearchEnd
<1>18. ASSUME Crash
      PROVE  MergeInv'
  BY <1>18, <1>u, <1>v DEF LockInv, Inside, Allocated, LockFree, MergeInv,
     MergeOwns, InputRows, Crash
<1>19. ASSUME Open
      PROVE  MergeInv'
  BY <1>19, <1>u, <1>v DEF LockInv, Inside, Allocated, LockFree, MergeInv,
     MergeOwns, InputRows, Open, OpenCleanup
<1>20. ASSUME UNCHANGED vars
      PROVE  MergeInv'
  BY <1>20, <1>u, <1>v DEF LockInv, Inside, Allocated, LockFree, MergeInv,
     MergeOwns, InputRows, vars
<1>. QED
  BY NoErrorPaths, <1>1, <1>2, <1>3, <1>4, <1>5, <1>6, <1>7, <1>8, <1>9,
     <1>10, <1>11, <1>12, <1>13, <1>14, <1>15, <1>16, <1>17, <1>18, <1>19,
     <1>20 DEF Next, FlushStep, MergeStep, FlushFault, MergeFault

(* No step gives a row a second place.                                       *)
LEMMA RowInvNext ==
    ASSUME Reliable, IInv, [Next]_vars
    PROVE  RowInv'
<1>. USE BoundsAssumption DEF memory, merge, search, threads, disk, ghosts
<1>t. TypeInv /\ TypeInv'
  BY TypeOKNext, LockInvNext DEF IInv, TypeInv
<1>u. /\ parts \in [Ids -> SUBSET Rows] /\ merging \in [Ids -> SUBSET Rows]
      /\ partSeq \in Nat /\ manifest \subseteq Ids /\ buffers \subseteq Rows
      /\ manifestFile = NoFile \/ manifestFile \subseteq Ids
      /\ mergePc \in [Mergers -> MergePcs] /\ inputs \in [Mergers -> SUBSET Ids]
      /\ out \in [Mergers -> 0..MaxId] /\ rows \in [Mergers -> SUBSET Rows]
  BY <1>t DEF TypeInv, TypeOK, MemoryTypeOK, ThreadsTypeOK, DiskTypeOK
<1>v. ListInv /\ FlushInv /\ MergeInv /\ RowInv /\ LockInv
  BY DEF IInv, TypeInv
<1>w. /\ manifest \subseteq Dirs /\ Dirs \subseteq Ids
      /\ \A S \in SUBSET Ids : S # NoFile
  BY ListedOnDisk DEF Dirs, Ids, NoFile
<1>1. ASSUME NEW B \in SUBSET Rows, Append(B)
      PROVE  RowInv'
  BY <1>1, <1>u, <1>v DEF LockInv, Inside, Allocated, LockFree, RowInv,
     Recoverable, ListInv, FileBacked, DayDirInv, DownInv, ListAgrees,
     SeqAhead, FreshDir, Dirs, Append
<1>2. ASSUME NEW r \in Rows, Apply(r)
      PROVE  RowInv'
  BY <1>2, <1>u, <1>v DEF LockInv, Inside, Allocated, LockFree, RowInv,
     Recoverable, ListInv, FileBacked, DayDirInv, DownInv, ListAgrees,
     SeqAhead, FreshDir, Dirs, Apply
<1>3. ASSUME FlushCall
      PROVE  RowInv'
  BY <1>3, <1>u, <1>v DEF LockInv, Inside, Allocated, LockFree, RowInv,
     Recoverable, ListInv, FileBacked, DayDirInv, DownInv, ListAgrees,
     SeqAhead, FreshDir, Dirs, FlushCall
<1>4. ASSUME FlushPublish
      PROVE  RowInv'
  BY <1>4, <1>u, <1>v DEF LockInv, Inside, Allocated, LockFree, RowInv,
     Recoverable, ListInv, FileBacked, DayDirInv, DownInv, ListAgrees,
     SeqAhead, FreshDir, Dirs, FlushPublish, NextId
<1>5. ASSUME FlushManifest
      PROVE  RowInv'
  <2>1. /\ flush = "published" /\ flush' = "listed"
        /\ manifest' = manifest \cup {partSeq} /\ manifestFile' = manifest'
        /\ UNCHANGED <<mode, buffers, pending, partSeq, merge, drop, dayDir, parts, merging, sent>>
    BY <1>5 DEF FlushManifest
  <2>2. /\ mode = "up" /\ partSeq \in Ids /\ partSeq \in Dirs
        /\ parts[partSeq] = buffers /\ partSeq \notin manifest
    BY <2>1, <1>t, <1>v DEF FlushInv, LockInv, TypeInv, TypeOK,
       MemoryTypeOK, Dirs
  <2>3. manifestFile' # NoFile
    BY <2>1, <2>2, <1>u, <1>w

  <2>4. Recoverable' = manifest \cup {partSeq}
    BY <2>1, <2>3 DEF Recoverable
  <2>5. manifest \subseteq Recoverable
    BY <2>2, <1>v DEF ListInv, ListAgrees, Recoverable
  <2>6. \A p \in manifest : parts[p] \cap buffers = {}
    BY <2>2, <2>5, <1>v DEF RowInv
  <2>7. \A p, q \in Recoverable' : p # q => parts[p] \cap parts[q] = {}
    BY <2>2, <2>4, <2>5, <2>6, <1>v DEF RowInv
  <2>8. \A p \in Recoverable' : parts[p] \cap buffers = {} \/ p = partSeq
    BY <2>4, <2>6
  <2>9. /\ pending' \cap buffers' = {} /\ buffers' \cup pending' \subseteq sent'
        /\ \A p \in Ids : parts'[p] \subseteq sent' \ pending'
    BY <2>1, <1>v DEF RowInv
  <2>. QED
    BY <2>1, <2>7, <2>8, <2>9 DEF RowInv
<1>6. ASSUME FlushIndex
      PROVE  RowInv'
  BY <1>6, <1>u, <1>v DEF LockInv, Inside, Allocated, LockFree, RowInv,
     Recoverable, ListInv, FileBacked, DayDirInv, DownInv, ListAgrees,
     SeqAhead, FreshDir, Dirs, FlushIndex
<1>7. ASSUME NEW m \in Mergers, MergeSelect(m)
      PROVE  RowInv'
  BY <1>7, <1>u, <1>v DEF LockInv, Inside, Allocated, LockFree, RowInv,
     Recoverable, ListInv, FileBacked, DayDirInv, DownInv, ListAgrees,
     SeqAhead, FreshDir, Dirs, MergeSelect, MergeGoesTo
<1>8. ASSUME NEW m \in Mergers, MergeAlloc(m)
      PROVE  RowInv'
  BY <1>8, <1>u, <1>v DEF LockInv, Inside, Allocated, LockFree, RowInv,
     Recoverable, ListInv, FileBacked, DayDirInv, DownInv, ListAgrees,
     SeqAhead, FreshDir, Dirs, MergeAlloc, MergeGoesTo, NextId
<1>9. ASSUME NEW m \in Mergers, MergeRead(m)
      PROVE  RowInv'
  BY <1>9, <1>u, <1>v DEF LockInv, Inside, Allocated, LockFree, RowInv,
     Recoverable, ListInv, FileBacked, DayDirInv, DownInv, ListAgrees,
     SeqAhead, FreshDir, Dirs, MergeRead, MergeGoesTo
<1>10. ASSUME NEW m \in Mergers, MergeWrite(m)
      PROVE  RowInv'
  BY <1>10, <1>u, <1>v DEF LockInv, Inside, Allocated, LockFree, RowInv,
     Recoverable, ListInv, FileBacked, DayDirInv, DownInv, ListAgrees,
     SeqAhead, FreshDir, Dirs, MergeWrite, MergeGoesTo
<1>11. ASSUME NEW m \in Mergers, MergePublish(m)
      PROVE  RowInv'
  <2>1. /\ mergePc[m] = "written" /\ mergePc' = [mergePc EXCEPT ![m] = "renamed"]
        /\ parts' = [parts EXCEPT ![out[m]] = merging[out[m]]]
        /\ merging[out[m]] # {} /\ parts[out[m]] = {}
        /\ mode = "up" /\ flush = "idle"
        /\ UNCHANGED <<mode, buffers, pending, manifest, partSeq, flush, drop, dayDir, manifestFile, inputs, out, sent>>
    BY <1>11 DEF MergePublish, CanPublishMerge, MergeGoesTo, LockFree
  <2>2. /\ inputs[m] # {} /\ inputs[m] \subseteq manifest
        /\ merging[out[m]] = InputRows(m) /\ out[m] <= partSeq
    BY <2>1, <1>v DEF MergeInv, MergeOwns
  <2>3. out[m] \in Ids
    BY <2>1, <1>v DEF LockInv, Allocated
  <2>4. out[m] \notin manifest
    BY <2>1, <1>w DEF Dirs
  <2>5. manifestFile # NoFile /\ manifestFile = manifest
    BY <2>1, <2>2, <1>v DEF ListInv, ListAgrees

  <2>6. Recoverable = manifest /\ Recoverable' = manifest
    BY <2>1, <2>5 DEF Recoverable
  <2>7. \A p \in manifest : parts'[p] = parts[p]
    BY <2>1, <2>4, <1>u
  <2>8. \A p \in Ids : parts'[p] \subseteq sent \ pending
    <3>1. InputRows(m) \subseteq sent \ pending
      BY <2>2, <1>u, <1>v DEF RowInv, InputRows
    <3>. QED
      BY <2>1, <2>2, <3>1, <1>u, <1>v DEF RowInv
  <2>9. /\ pending \cap buffers = {} /\ buffers \cup pending \subseteq sent
        /\ \A p, q \in manifest : p # q => parts[p] \cap parts[q] = {}
        /\ \A p \in manifest : parts[p] \cap buffers = {}
    BY <2>1, <2>6, <1>v DEF RowInv
  <2>. QED
    BY <2>1, <2>6, <2>7, <2>8, <2>9 DEF RowInv
<1>12. ASSUME NEW m \in Mergers, MergeSwap(m)
      PROVE  RowInv'
  <2>1. /\ mergePc[m] = "renamed" /\ mergePc' = [mergePc EXCEPT ![m] = "swapped"]
        /\ manifest' = (manifest \ inputs[m]) \cup {out[m]} /\ manifestFile' = manifest'
        /\ UNCHANGED <<mode, buffers, pending, partSeq, flush, drop, dayDir, parts, merging, inputs, out, sent>>
    BY <1>12 DEF MergeSwap, MergeGoesTo
  <2>2. /\ inputs[m] # {} /\ inputs[m] \subseteq manifest
        /\ parts[out[m]] = InputRows(m) /\ out[m] \notin manifest
    BY <2>1, <1>v DEF MergeInv, MergeOwns
  <2>3. out[m] \in Ids
    BY <2>1, <1>v DEF LockInv, Allocated
  <2>4. mode = "up" /\ flush = "idle"
    BY <2>1, <1>t, <1>v DEF LockInv, Inside, TypeInv, TypeOK, MemoryTypeOK
  <2>5. manifestFile' # NoFile
    BY <2>1, <2>3, <1>u, <1>w

  <2>6. Recoverable' = (manifest \ inputs[m]) \cup {out[m]}
    BY <2>1, <2>5 DEF Recoverable
  <2>7. Recoverable = manifest
    BY <2>2, <2>4, <1>v DEF ListInv, ListAgrees, Recoverable
  <2>8. /\ pending \cap buffers = {} /\ buffers \cup pending \subseteq sent
        /\ \A p \in Ids : parts[p] \subseteq sent \ pending
        /\ \A p, q \in manifest : p # q => parts[p] \cap parts[q] = {}
        /\ \A p \in manifest : parts[p] \cap buffers = {}
    BY <2>4, <2>7, <1>v DEF RowInv
  <2>9. /\ InputRows(m) \cap buffers = {}
        /\ \A p \in manifest \ inputs[m] : parts[p] \cap InputRows(m) = {}
    BY <2>2, <2>8 DEF InputRows
  <2>10. \A p, q \in Recoverable' : p # q => parts[p] \cap parts[q] = {}
    BY <2>2, <2>6, <2>8, <2>9
  <2>11. \A p \in Recoverable' : parts[p] \cap buffers = {}
    BY <2>2, <2>6, <2>8, <2>9
  <2>. QED
    BY <2>1, <2>8, <2>10, <2>11 DEF RowInv
<1>13. ASSUME NEW m \in Mergers, MergeIndex(m)
      PROVE  RowInv'
  BY <1>13, <1>u, <1>v DEF LockInv, Inside, Allocated, LockFree, RowInv,
     Recoverable, ListInv, FileBacked, DayDirInv, DownInv, ListAgrees,
     SeqAhead, FreshDir, Dirs, MergeIndex, MergeGoesTo
<1>14. ASSUME NEW m \in Mergers, MergeClean(m)
      PROVE  RowInv'
  BY <1>14, <1>u, <1>v DEF LockInv, Inside, Allocated, LockFree, RowInv,
     Recoverable, ListInv, FileBacked, DayDirInv, DownInv, ListAgrees,
     SeqAhead, FreshDir, Dirs, MergeClean, MergeReturns, MergeGoesTo,
     RemoveDir
<1>15. ASSUME NEW s \in Searchers, NEW eq \in Queries, SearchBegin(s, eq)
      PROVE  RowInv'
  BY <1>15, <1>u, <1>v DEF LockInv, Inside, Allocated, LockFree, RowInv,
     Recoverable, ListInv, FileBacked, DayDirInv, DownInv, ListAgrees,
     SeqAhead, FreshDir, Dirs, SearchBegin
<1>16. ASSUME NEW s \in Searchers, SearchRead(s)
      PROVE  RowInv'
  BY <1>16, <1>u, <1>v DEF LockInv, Inside, Allocated, LockFree, RowInv,
     Recoverable, ListInv, FileBacked, DayDirInv, DownInv, ListAgrees,
     SeqAhead, FreshDir, Dirs, SearchRead
<1>17. ASSUME NEW s \in Searchers, SearchEnd(s)
      PROVE  RowInv'
  BY <1>17, <1>u, <1>v DEF LockInv, Inside, Allocated, LockFree, RowInv,
     Recoverable, ListInv, FileBacked, DayDirInv, DownInv, ListAgrees,
     SeqAhead, FreshDir, Dirs, SearchEnd
<1>18. ASSUME Crash
      PROVE  RowInv'
  BY <1>18, <1>u, <1>v DEF LockInv, Inside, Allocated, LockFree, RowInv,
     Recoverable, ListInv, FileBacked, DayDirInv, DownInv, ListAgrees,
     SeqAhead, FreshDir, Dirs, Crash
<1>19. ASSUME Open
      PROVE  RowInv'
  BY <1>19, <1>u, <1>v DEF LockInv, Inside, Allocated, LockFree, RowInv,
     Recoverable, ListInv, FileBacked, DayDirInv, DownInv, ListAgrees,
     SeqAhead, FreshDir, Dirs, Open, OpenCleanup
<1>20. ASSUME UNCHANGED vars
      PROVE  RowInv'
  BY <1>20, <1>u, <1>v DEF LockInv, Inside, Allocated, LockFree, RowInv,
     Recoverable, ListInv, FileBacked, DayDirInv, DownInv, ListAgrees,
     SeqAhead, FreshDir, Dirs, vars
<1>. QED
  BY NoErrorPaths, <1>1, <1>2, <1>3, <1>4, <1>5, <1>6, <1>7, <1>8, <1>9,
     <1>10, <1>11, <1>12, <1>13, <1>14, <1>15, <1>16, <1>17, <1>18, <1>19,
     <1>20 DEF Next, FlushStep, MergeStep, FlushFault, MergeFault

(* The four conjuncts together.                                              *)
LEMMA IInvNext ==
    ASSUME Reliable, IInv, [Next]_vars
    PROVE  IInv'
<1>1. TypeInv'
  BY TypeOKNext, LockInvNext DEF IInv, TypeInv
<1>. QED
  BY <1>1, ListInvNext, FlushInvNext, MergeInvNext, RowInvNext DEF IInv

(* Hence the invariant always holds.                                         *)
LEMMA IInvCorrect == Reliable => (Spec => []IInv)
<1>1. Reliable /\ IInv /\ [Next]_vars => IInv'
  BY IInvNext
<1>2. CASE Reliable
  <2>1. IInv /\ [Next]_vars => IInv'
    BY <1>1, <1>2
  <2>2. Spec => []IInv
    BY <2>1, IInvInit, PTL DEF Spec
  <2>. QED
    BY <2>2
<1>. QED
  BY <1>2

(* Every listed part is on disk, at every instant and through any number of  *)
(* crashes, for one merger without failing operations and retention drops.   *)
THEOREM ListedPartsExist == Reliable => (Spec => []ManifestBacked)
<1>1. IInv => ManifestBacked
  BY ListedOnDisk DEF IInv, ListInv, FileBacked, ManifestBacked
<1>2. CASE Reliable
  <2>1. Spec => []IInv
    BY <1>2, IInvCorrect
  <2>. QED
    BY <1>1, <2>1, PTL
<1>. QED
  BY <1>2

(* No row is stored twice, under the same hypotheses: neither in two parts a *)
(* restart would list nor in a part and the buffers.                         *)
THEOREM RowsHaveOneHome == Reliable => (Spec => []NoRowTwice)
<1>1. IInv => NoRowTwice
  BY DEF IInv, RowInv, NoRowTwice
<1>2. CASE Reliable
  <2>1. Spec => []IInv
    BY <1>2, IInvCorrect
  <2>. QED
    BY <1>1, <2>1, PTL
<1>. QED
  BY <1>2

(* No part id is handed out twice, under the same hypotheses.                *)
THEOREM IdsStayAhead == Reliable => (Spec => []PartSeqAhead)
<1>1. IInv => PartSeqAhead
  BY ListedOnDisk DEF IInv, ListInv, SeqAhead, PartSeqAhead, LockFree
<1>2. CASE Reliable
  <2>1. Spec => []IInv
    BY <1>2, IInvCorrect
  <2>. QED
    BY <1>1, <2>1, PTL
<1>. QED
  BY <1>2

-----------------------------------------------------------------------------
(* Racing mergers, failing file operations, drops and crashes: what holds of *)
(* all of them together, as long as no listed part is removed, no drop fails *)
(* half-way and no merge with an id outlives the day (Undisturbed).          *)

(* A merge whose output id is not listed yet.                                *)
Unlisted(m) == HasId(m) /\ mergePc[m] \notin {"swapped", "cleaning"}

(* Ids.  What is listed is at most partSeq.  Every merge has an id of its    *)
(* own, above its inputs, that no flush takes and no other merge reads.      *)
OwnId(m) ==
    /\ mergePc[m] # "idle" => inputs[m] # {}
    /\ HasId(m) => /\ out[m] <= partSeq
                   /\ flush \in {"published", "listed"} => out[m] # partSeq
                   /\ \A p \in inputs[m] : p < out[m]
    /\ Unlisted(m) => out[m] \notin manifest
    /\ \A n \in Mergers : n # m /\ HasId(m) /\ HasId(n) =>
          out[m] # out[n] /\ (Unlisted(m) => out[m] \notin inputs[n])

IdInv ==
    /\ \A p \in manifest : p <= partSeq
    /\ flush = "published" => partSeq \notin manifest
    /\ flush = "listed" => partSeq \in manifest
    /\ \A m \in Mergers : OwnId(m)

(* Directories that are there although they are not listed.                  *)
Stray ==
    {p \in Ids : \/ flush = "published" /\ p = partSeq
                 \/ \E m \in Mergers :
                       \/ mergePc[m] = "renamed" /\ p = out[m]
                       \/ mergePc[m] \in {"swapped", "cleaning"} /\ p \in inputs[m]}

FilesInv ==
    /\ drop \in {"idle", "removing"}
    /\ mode = "up" /\ drop = "idle" =>
          /\ manifestFile = manifest \/ (manifestFile = NoFile /\ manifest = {})
          /\ Dirs \subseteq manifest \cup Stray
    /\ drop = "removing" => /\ manifest = {} /\ buffers = {}
                            /\ manifestFile # NoFile => Dirs \subseteq manifestFile
    /\ mode = "down" => manifest = {} /\ buffers = {}
    /\ ~dayDir => Dirs = {} /\ manifestFile = NoFile

(* Merges.  What a merge has read and written is what its inputs hold, while *)
(* they are listed; a rollback of another may have removed it.               *)
Copies(m) ==
    /\ mergePc[m] = "writing" /\ inputs[m] \subseteq manifest
          => rows[m] = InputRows(m)
    /\ mergePc[m] = "written" /\ inputs[m] \subseteq manifest
          => merging[out[m]] \in {{}, InputRows(m)}
    /\ mergePc[m] = "renamed" => /\ inputs[m] \subseteq manifest
                                 /\ parts[out[m]] \in {{}, InputRows(m)}
    /\ mergePc[m] \in {"swapped", "cleaning"} =>
          inputs[m] \cap manifest = {} /\ out[m] \in manifest

CopyInv == \A m \in Mergers : Copies(m)

(* Rows.  The parts that count are those in memory or, while there are none, *)
(* those of the next Open.  None of their rows is in another of them, in the *)
(* buffers (but for the part a flush has just listed) or still to be applied.*)
ListedIds == IF mode = "up" /\ drop = "idle" THEN manifest ELSE Recoverable

ApartInv ==
    /\ buffers \cup pending \subseteq sent
    /\ \A p \in ListedIds :
          /\ parts[p] \subseteq sent \ pending
          /\ parts[p] \cap buffers = {} \/ (flush = "listed" /\ p = partSeq)
    /\ \A p, q \in ListedIds : p # q => parts[p] \cap parts[q] = {}
    /\ buffers \cap pending = {}
    /\ flush \in {"published", "listed"} => parts[partSeq] \subseteq buffers

RaceInv == TypeInv /\ IdInv /\ FilesInv /\ CopyInv /\ ApartInv

(* The manifest in memory is that of the file, or nothing is listed and only *)
(* the part of the running flush is on disk.                                 *)
LEMMA ListedIdsRecoverable ==
    ASSUME RaceInv, mode = "up", drop = "idle"
    PROVE  /\ manifest \subseteq Recoverable
           /\ \A p \in Recoverable \ manifest :
                 /\ flush = "published" /\ p = partSeq
                 /\ manifest = {} /\ Recoverable = {p}
<1>1. CASE manifestFile # NoFile
  BY <1>1 DEF RaceInv, FilesInv, Recoverable
<1>2. CASE manifestFile = NoFile /\ manifest = {}
  <2>1. ASSUME NEW m \in Mergers
        PROVE  mergePc[m] \notin {"renamed", "swapped", "cleaning"}
    BY <1>2 DEF RaceInv, CopyInv, Copies, IdInv, OwnId
  <2>2. Dirs \subseteq Stray
    BY <1>2 DEF RaceInv, FilesInv
  <2>3. \A p \in Dirs : flush = "published" /\ p = partSeq
    BY <2>1, <2>2 DEF Stray
  <2>. QED
    BY <1>2, <2>3 DEF Recoverable
<1>3. manifest # NoFile
  BY DEF RaceInv, TypeInv, TypeOK, MemoryTypeOK, NoFile, Ids
<1>. QED
  BY <1>1, <1>2, <1>3 DEF RaceInv, FilesInv

(* The invariant says that no row has two copies.                            *)
LEMMA RaceInvApart == RaceInv => NoRowTwice
<1>. SUFFICES ASSUME RaceInv PROVE NoRowTwice
  OBVIOUS
<1>1. CASE mode = "up" /\ drop = "idle"
  <2>1. CASE Recoverable = manifest
    BY <1>1, <2>1 DEF RaceInv, ApartInv, ListedIds, NoRowTwice
  <2>2. CASE Recoverable # manifest
    <3>1. PICK p \in Recoverable : p \notin manifest
      BY <1>1, <2>2, ListedIdsRecoverable
    <3>2. flush = "published" /\ Recoverable = {p}
      BY <1>1, <3>1, ListedIdsRecoverable
    <3>. QED
      BY <3>2 DEF NoRowTwice
  <2>. QED
    BY <2>1, <2>2
<1>2. CASE ~(mode = "up" /\ drop = "idle")
  <2>1. buffers = {} /\ ListedIds = Recoverable
    BY <1>2 DEF RaceInv, FilesInv, ListedIds, TypeInv, TypeOK, MemoryTypeOK, ThreadsTypeOK
  <2>. QED
    BY <2>1 DEF RaceInv, ApartInv, NoRowTwice
<1>. QED
  BY <1>1, <1>2

(* A merge is undisturbed by a step that leaves its inputs alone, lists none *)
(* of them anew, and writes nothing under its id.                            *)
LEMMA CopiesKept ==
    ASSUME NEW n \in Mergers, Copies(n),
           mergePc'[n] = mergePc[n], out'[n] = out[n],
           inputs'[n] = inputs[n], rows'[n] = rows[n],
           HasId(n) => inputs[n] \cap manifest' \subseteq manifest,
           HasId(n) => \A p \in inputs[n] \cap manifest' : parts'[p] = parts[p],
           HasId(n) => merging'[out[n]] \in {{}, merging[out[n]]},
           Inside(n) => manifest' = manifest /\ parts'[out[n]] \in {{}, parts[out[n]]}
    PROVE  Copies(n)'
<1>1. inputs[n] \subseteq manifest' /\ HasId(n)
        => inputs[n] \subseteq manifest /\ InputRows(n)' = InputRows(n)
  BY DEF InputRows
<1>2. mergePc[n] = "writing" => HasId(n)
  BY DEF HasId
<1>3. mergePc[n] = "written" => HasId(n)
  BY DEF HasId
<1>4. mergePc[n] = "renamed" => HasId(n) /\ Inside(n)
  BY DEF HasId, Inside
<1>5. mergePc[n] \in {"swapped", "cleaning"} => Inside(n)
  BY DEF Inside
<1>. QED
  BY <1>1, <1>2, <1>3, <1>4, <1>5 DEF Copies

(* Steps that change nothing an invariant speaks of.                         *)
LEMMA IdKept ==
    ASSUME IdInv, UNCHANGED <<mergePc, inputs, out, partSeq, manifest>>,
           flush' = flush \/ flush' \notin {"published", "listed"}
    PROVE  IdInv'
BY DEF IdInv, OwnId, HasId, Unlisted

(* The files agree with memory after a step that touches neither.            *)
LEMMA FilesKept ==
    ASSUME FilesInv, dayDir => dayDir',
           UNCHANGED <<mode, drop, manifest, manifestFile, parts, partSeq,
                       mergePc, inputs, out>>,
           flush' = flush \/ flush # "published",
           buffers' = buffers \/ (mode = "up" /\ drop = "idle")
    PROVE  FilesInv'
<1>1. Dirs' = Dirs
  BY DEF Dirs
<1>2. Stray \subseteq Stray'
  BY DEF Stray
<1>. QED
  BY <1>1, <1>2 DEF FilesInv

(* Merges keep their rows in a step that touches no part.                    *)
LEMMA CopyKept ==
    ASSUME CopyInv,
           UNCHANGED <<mergePc, inputs, out, rows, manifest, parts, merging>>
    PROVE  CopyInv'
BY DEF CopyInv, Copies, InputRows

(* Rows that disappear do not come together.                                 *)
LEMMA ApartShrinks ==
    ASSUME ApartInv, ListedIds' \subseteq ListedIds,
           \A p \in ListedIds : parts'[p] \subseteq parts[p],
           buffers' \subseteq buffers, pending' \subseteq pending, sent' = sent,
           \/ UNCHANGED <<flush, partSeq, buffers>> /\ parts'[partSeq] \subseteq parts[partSeq]
           \/ /\ flush' \notin {"published", "listed"}
              /\ flush # "listed" \/ buffers' = {}
    PROVE  ApartInv'
BY DEF ApartInv

(* A step that touches no list and no part keeps the parts that count.       *)
LEMMA SameListed ==
    ASSUME UNCHANGED <<mode, drop, manifest, manifestFile, parts>>
    PROVE  ListedIds' = ListedIds
BY DEF ListedIds, Recoverable, Dirs

(* Nobody is in a locked region: every directory is listed.                  *)
LEMMA NoStray ==
    ASSUME LockFree
    PROVE  Stray = {}
BY DEF LockFree, Stray

(* Nothing is asked of a merge without an id.                                *)
LEMMA NoId == \A m \in Mergers : ~HasId(m) => Copies(m)
BY DEF HasId, Copies

(* The invariant at the start.                                               *)
LEMMA RaceInvInit == Init => RaceInv
<1>. SUFFICES ASSUME Init PROVE RaceInv
  OBVIOUS
<1>1. TypeInv
  BY TypeInvInit
<1>2. IdInv
  BY DEF Init, IdInv, OwnId, HasId, Unlisted
<1>3. Dirs = {} /\ Recoverable = {}
  BY DEF Init, Dirs, Recoverable
<1>4. FilesInv
  BY <1>3 DEF Init, FilesInv
<1>5. CopyInv
  BY DEF Init, CopyInv, Copies
<1>6. ApartInv
  BY <1>3 DEF Init, ApartInv, ListedIds
<1>. QED
  BY <1>1, <1>2, <1>4, <1>5, <1>6 DEF RaceInv

(* Appends and flushes.                                                      *)
LEMMA RaceAppend ==
    ASSUME RaceInv, NEW B \in SUBSET Rows, Append(B)
    PROVE  IdInv' /\ FilesInv' /\ CopyInv' /\ ApartInv'
<1>1. /\ flush = "idle" /\ pending = {} /\ pending' = B
      /\ sent' = sent \cup B /\ B \cap sent = {}
      /\ UNCHANGED <<mode, buffers, manifest, partSeq, flush, mergePc, inputs, out, rows,
                     drop, dayDir, parts, merging, manifestFile>>
  BY DEF Append, LockFree, threads, merge, disk
<1>2. IdInv' /\ FilesInv' /\ CopyInv'
  BY <1>1, IdKept, FilesKept, CopyKept DEF RaceInv
<1>3. ListedIds' = ListedIds
  BY <1>1, SameListed
<1>4. ApartInv'
  BY <1>1, <1>3 DEF RaceInv, ApartInv
<1>. QED
  BY <1>2, <1>4

(* Applying a row of the batch moves it from pending to the buffers.         *)
LEMMA RaceApply ==
    ASSUME RaceInv, NEW r \in Rows, Apply(r)
    PROVE  IdInv' /\ FilesInv' /\ CopyInv' /\ ApartInv'
<1>1. /\ r \in pending /\ flush = "idle" /\ flush' \in {"start", "idle"}
      /\ buffers' = buffers \cup {r} /\ pending' = pending \ {r}
      /\ UNCHANGED <<mode, manifest, partSeq, mergePc, inputs, out, rows,
                     drop, dayDir, parts, merging, manifestFile, sent>>
  BY DEF Apply, merge, disk, ghosts
<1>2. mode = "up" /\ drop = "idle"
  BY <1>1 DEF RaceInv, TypeInv, LockInv, TypeOK, MemoryTypeOK, FilesInv
<1>3. IdInv' /\ FilesInv' /\ CopyInv'
  BY <1>1, <1>2, IdKept, FilesKept, CopyKept DEF RaceInv
<1>4. ListedIds' = ListedIds
  BY <1>1, SameListed
<1>5. ApartInv'
  BY <1>1, <1>4 DEF RaceInv, ApartInv
<1>. QED
  BY <1>3, <1>5

(* Starting a flush changes no row.                                          *)
LEMMA RaceFlushCall ==
    ASSUME RaceInv, FlushCall
    PROVE  IdInv' /\ FilesInv' /\ CopyInv' /\ ApartInv'
<1>1. /\ flush = "idle" /\ flush' = "start"
      /\ UNCHANGED <<mode, buffers, pending, manifest, partSeq, mergePc, inputs, out, rows,
                     drop, dayDir, parts, merging, manifestFile, sent>>
  BY DEF FlushCall, LockFree, memory, merge, disk, ghosts
<1>2. IdInv' /\ FilesInv' /\ CopyInv'
  BY <1>1, IdKept, FilesKept, CopyKept DEF RaceInv
<1>3. ListedIds' = ListedIds
  BY <1>1, SameListed
<1>4. ApartInv'
  BY <1>1, <1>3, ApartShrinks DEF RaceInv
<1>. QED
  BY <1>2, <1>4

(* A flush takes an id that nobody has; its part is not listed yet.          *)
LEMMA RaceFlushPublish ==
    ASSUME RaceInv, FlushPublish
    PROVE  IdInv' /\ FilesInv' /\ CopyInv' /\ ApartInv'
<1>. USE BoundsAssumption
<1>1. /\ flush = "start" /\ flush' = "published" /\ NextId \in Ids /\ partSeq' = NextId
      /\ dayDir' = TRUE
      /\ parts' = [parts EXCEPT ![NextId] = buffers]
      /\ UNCHANGED <<mode, buffers, pending, manifest, mergePc, inputs, out, rows,
                     drop, merging, manifestFile, sent>>
  BY DEF FlushPublish, merge, ghosts
<1>2. /\ partSeq \in Nat /\ manifest \subseteq Ids /\ parts \in [Ids -> SUBSET Rows]
      /\ inputs \in [Mergers -> SUBSET Ids] /\ out \in [Mergers -> 0..MaxId]
  BY DEF RaceInv, TypeInv, TypeOK, MemoryTypeOK, ThreadsTypeOK, DiskTypeOK
<1>3. mode = "up" /\ drop = "idle" /\ \A m \in Mergers : ~Inside(m)
  BY <1>1 DEF RaceInv, TypeInv, LockInv, TypeOK, MemoryTypeOK, FilesInv
<1>4. NextId = partSeq + 1
  BY DEF NextId
<1>5. \A p \in manifest : p <= partSeq /\ p # NextId /\ p <= NextId /\ parts'[p] = parts[p]
  BY <1>1, <1>2, <1>4 DEF RaceInv, IdInv, Ids
<1>6. IdInv'
  <2>1. ASSUME NEW m \in Mergers PROVE OwnId(m)'
    <3>1. OwnId(m) /\ out[m] \in Nat
      BY <1>2 DEF RaceInv, IdInv
    <3>2. HasId(m) => out[m] <= NextId /\ out[m] # NextId
      BY <1>2, <1>4, <3>1 DEF OwnId
    <3>. QED
      BY <1>1, <3>1, <3>2 DEF OwnId, HasId, Unlisted
  <2>. QED
    BY <1>1, <1>5, <2>1 DEF IdInv
<1>7. FilesInv'
  <2>1. Dirs' \subseteq Dirs \cup {NextId}
    BY <1>1, <1>2 DEF Dirs
  <2>2. Stray \cup {NextId} \subseteq Stray'
    BY <1>1 DEF Stray
  <2>. QED
    BY <1>1, <1>3, <2>1, <2>2 DEF RaceInv, FilesInv
<1>8. CopyInv'
  <2>1. ASSUME NEW m \in Mergers PROVE Copies(m)'
    BY <1>1, <1>3, <1>5, CopiesKept DEF RaceInv, CopyInv
  <2>. QED
    BY <2>1 DEF CopyInv
<1>9. ApartInv'
  <2>1. ListedIds = manifest /\ ListedIds' = manifest
    BY <1>1, <1>3 DEF ListedIds
  <2>2. parts'[partSeq'] = buffers
    BY <1>1, <1>2
  <2>. QED
    BY <1>1, <1>5, <2>1, <2>2 DEF RaceInv, ApartInv
<1>. QED
  BY <1>6, <1>7, <1>8, <1>9

(* A flush that fails before it has published anything.                      *)
LEMMA RaceFlushReturns ==
    ASSUME RaceInv, flush = "start", flush' = "idle", pending' = {},
           dayDir => dayDir',
           UNCHANGED <<mode, buffers, manifest, partSeq, merge, drop, parts,
                       merging, manifestFile, sent>>
    PROVE  IdInv' /\ FilesInv' /\ CopyInv' /\ ApartInv'
<1>1. UNCHANGED <<mergePc, inputs, out, rows>>
  BY DEF merge
<1>2. IdInv' /\ FilesInv' /\ CopyInv'
  BY <1>1, IdKept, FilesKept, CopyKept DEF RaceInv
<1>3. ListedIds' = ListedIds
  BY <1>1, SameListed
<1>4. ApartInv'
  BY <1>1, <1>3, ApartShrinks DEF RaceInv
<1>. QED
  BY <1>2, <1>4

(* The part a flush lists holds buffered rows only.                          *)
LEMMA RaceFlushManifest ==
    ASSUME RaceInv, FlushManifest, ManifestBacked'
    PROVE  IdInv' /\ FilesInv' /\ CopyInv' /\ ApartInv'
<1>. USE BoundsAssumption
<1>1. /\ flush = "published" /\ flush' = "listed" /\ manifest' = manifest \cup {partSeq}
      /\ manifestFile' = manifest'
      /\ UNCHANGED <<mode, buffers, pending, partSeq, mergePc, inputs, out, rows,
                     drop, dayDir, parts, merging, sent>>
  BY DEF FlushManifest, merge, ghosts
<1>2. /\ partSeq \in Ids /\ manifest \subseteq Ids
      /\ inputs \in [Mergers -> SUBSET Ids] /\ out \in [Mergers -> 0..MaxId]
  BY <1>1 DEF RaceInv, TypeInv, LockInv, TypeOK, MemoryTypeOK, ThreadsTypeOK, DiskTypeOK
<1>3. mode = "up" /\ drop = "idle" /\ \A m \in Mergers : ~Inside(m)
  BY <1>1 DEF RaceInv, TypeInv, LockInv, TypeOK, MemoryTypeOK, FilesInv
<1>4. partSeq \in Dirs /\ Dirs' = Dirs
  BY <1>1, <1>3 DEF ManifestBacked, Dirs
<1>5. \A m \in Mergers : HasId(m) => out[m] # partSeq /\ partSeq \notin inputs[m]
  <2>1. ASSUME NEW m \in Mergers, HasId(m), partSeq \in inputs[m] PROVE FALSE
    <3>1. partSeq < out[m] /\ out[m] <= partSeq
      BY <2>1 DEF RaceInv, IdInv, OwnId
    <3>. QED
      BY <1>2, <3>1 DEF Ids
  <2>. QED
    BY <1>1, <2>1 DEF RaceInv, IdInv, OwnId
<1>6. IdInv'
  <2>1. ASSUME NEW m \in Mergers PROVE OwnId(m)'
    BY <1>1, <1>5 DEF RaceInv, IdInv, OwnId, HasId, Unlisted
  <2>2. partSeq <= partSeq
    BY <1>2 DEF Ids
  <2>. QED
    BY <1>1, <2>1, <2>2 DEF RaceInv, IdInv
<1>7. FilesInv'
  <2>1. Stray \subseteq Stray' \cup {partSeq}
    BY <1>1 DEF Stray
  <2>. QED
    BY <1>1, <1>3, <1>4, <2>1 DEF RaceInv, FilesInv
<1>8. CopyInv'
  <2>1. ASSUME NEW m \in Mergers PROVE Copies(m)'
    BY <1>1, <1>3, <1>5, CopiesKept DEF RaceInv, CopyInv
  <2>. QED
    BY <2>1 DEF CopyInv
<1>9. ApartInv'
  <2>1. ListedIds = manifest /\ ListedIds' = manifest \cup {partSeq}
    BY <1>1, <1>3 DEF ListedIds
  <2>. QED
    BY <1>1, <2>1 DEF RaceInv, ApartInv
<1>. QED
  BY <1>6, <1>7, <1>8, <1>9

(* A flush that is done drops the rows it has listed from the buffers.       *)
LEMMA RaceFlushIndex ==
    ASSUME RaceInv, FlushIndex
    PROVE  IdInv' /\ FilesInv' /\ CopyInv' /\ ApartInv'
<1>1. /\ flush = "listed" /\ flush' = "idle" /\ buffers' = {}
      /\ UNCHANGED <<mode, pending, manifest, partSeq, mergePc, inputs, out, rows,
                     drop, dayDir, parts, merging, manifestFile, sent>>
  BY DEF FlushIndex, merge, ghosts
<1>2. mode = "up" /\ drop = "idle"
  BY <1>1 DEF RaceInv, TypeInv, LockInv, TypeOK, MemoryTypeOK, FilesInv
<1>3. IdInv' /\ FilesInv' /\ CopyInv'
  BY <1>1, <1>2, IdKept, FilesKept, CopyKept DEF RaceInv
<1>4. ListedIds' = ListedIds
  BY <1>1, SameListed
<1>5. ApartInv'
  BY <1>1, <1>4, ApartShrinks DEF RaceInv
<1>. QED
  BY <1>3, <1>5

(* The rollback of a flush that has published its part, unless it was        *)
(* listed.                                                                   *)
LEMMA RaceFlushRollback ==
    ASSUME RaceInv, FlushRollback, flush \in {"published", "listed"}, sent' = sent,
           ManifestBacked'
    PROVE  IdInv' /\ FilesInv' /\ CopyInv' /\ ApartInv'
<1>. USE BoundsAssumption
<1>1. /\ partSeq' = partSeq - 1 /\ parts' = [parts EXCEPT ![partSeq] = {}]
      /\ flush' = "idle" /\ pending' = {}
      /\ UNCHANGED <<mode, buffers, manifest, mergePc, inputs, out, rows,
                     drop, dayDir, merging, manifestFile>>
  BY DEF FlushRollback, RemoveDir, FlushReturnsError, merge
<1>2. /\ partSeq \in Ids /\ manifest \subseteq Ids /\ parts \in [Ids -> SUBSET Rows]
      /\ inputs \in [Mergers -> SUBSET Ids] /\ out \in [Mergers -> 0..MaxId]
  BY DEF RaceInv, TypeInv, LockInv, TypeOK, MemoryTypeOK, ThreadsTypeOK, DiskTypeOK
<1>3. mode = "up" /\ drop = "idle" /\ \A m \in Mergers : ~Inside(m)
  BY DEF RaceInv, TypeInv, LockInv, TypeOK, MemoryTypeOK, FilesInv
<1>4. partSeq \notin manifest /\ flush = "published"
  <2>1. partSeq \notin manifest
    BY <1>1, <1>2, <1>3 DEF ManifestBacked, Dirs
  <2>. QED
    BY <2>1 DEF RaceInv, IdInv
<1>5. \A p \in manifest : p <= partSeq - 1 /\ p # partSeq /\ parts'[p] = parts[p]
  BY <1>1, <1>2, <1>4 DEF RaceInv, IdInv, Ids
<1>6. IdInv'
  <2>1. ASSUME NEW m \in Mergers PROVE OwnId(m)'
    <3>1. OwnId(m) /\ out[m] \in Nat
      BY <1>2 DEF RaceInv, IdInv
    <3>2. HasId(m) => out[m] <= partSeq - 1
      BY <1>2, <1>4, <3>1 DEF OwnId, Ids
    <3>. QED
      BY <1>1, <3>1, <3>2 DEF OwnId, HasId, Unlisted
  <2>. QED
    BY <1>1, <1>5, <2>1 DEF IdInv
<1>7. FilesInv'
  <2>1. Dirs' = Dirs \ {partSeq}
    BY <1>1, <1>2 DEF Dirs
  <2>2. Stray \subseteq Stray' \cup {partSeq}
    BY <1>1 DEF Stray
  <2>. QED
    BY <1>1, <1>3, <2>1, <2>2 DEF RaceInv, FilesInv
<1>8. CopyInv'
  <2>1. ASSUME NEW m \in Mergers PROVE Copies(m)'
    BY <1>1, <1>3, <1>5, CopiesKept DEF RaceInv, CopyInv
  <2>. QED
    BY <2>1 DEF CopyInv
<1>9. ApartInv'
  <2>1. ListedIds = manifest /\ ListedIds' = manifest
    BY <1>1, <1>3 DEF ListedIds
  <2>. QED
    BY <1>1, <1>4, <1>5, <2>1, ApartShrinks DEF RaceInv
<1>. QED
  BY <1>6, <1>7, <1>8, <1>9

(* Merges.  Another merge n is not disturbed by a step of m.                 *)
LEMMA RaceMergeSelect ==
    ASSUME RaceInv, NEW m \in Mergers, MergeSelect(m)
    PROVE  IdInv' /\ FilesInv' /\ CopyInv' /\ ApartInv'
<1>. USE BoundsAssumption
<1>. DEFINE new == Lowest(MergeMaxPartsPerJob, SmallParts)
<1>1. /\ mergePc[m] = "idle" /\ mergePc' = [mergePc EXCEPT ![m] = "selected"]
      /\ inputs' = [inputs EXCEPT ![m] = new]
      /\ UNCHANGED <<mode, buffers, pending, manifest, partSeq, out, rows,
                     flush, drop, dayDir, parts, merging, manifestFile, sent>>
  BY DEF MergeSelect, MergeGoesTo, memory, disk, ghosts
<1>2. /\ mergePc \in [Mergers -> MergePcs] /\ inputs \in [Mergers -> SUBSET Ids]
      /\ SmallParts \in SUBSET Ids
  BY DEF RaceInv, TypeInv, TypeOK, ThreadsTypeOK, MemoryTypeOK, SmallParts
<1>3. new # {}
  <2>1. SmallParts # {}
    <3>1. Cardinality({}) = 0
      BY FS_EmptySet
    <3>2. MinParts(m) \in Nat /\ MinParts(m) >= 2
      BY ConfigAssumption DEF MinParts
    <3>3. Cardinality(SmallParts) >= MinParts(m)
      BY DEF MergeSelect
    <3>. QED
      BY <3>1, <3>2, <3>3
  <2>. QED
    BY <1>2, <2>1, LowestSubset, ConfigAssumption
<1>. HIDE DEF new
<1>4. \A n \in Mergers : n # m => /\ mergePc'[n] = mergePc[n] /\ inputs'[n] = inputs[n]
                                  /\ HasId(n)' = HasId(n) /\ Unlisted(n)' = Unlisted(n)
  BY <1>1, <1>2 DEF HasId, Unlisted
<1>5. mergePc'[m] = "selected" /\ inputs'[m] = new /\ ~HasId(m)' /\ ~Unlisted(m)' /\ ~HasId(m)
  BY <1>1, <1>2 DEF HasId, Unlisted
<1>6. IdInv'
  <2>1. ASSUME NEW n \in Mergers PROVE OwnId(n)'
    BY <1>1, <1>3, <1>4, <1>5 DEF RaceInv, IdInv, OwnId
  <2>. QED
    BY <1>1, <2>1 DEF RaceInv, IdInv
<1>7. FilesInv'
  <2>1. Stray \subseteq Stray' /\ Dirs' = Dirs
    BY <1>1, <1>4 DEF Stray, Dirs
  <2>. QED
    BY <1>1, <2>1 DEF RaceInv, FilesInv
<1>8. CopyInv'
  <2>1. ASSUME NEW n \in Mergers PROVE Copies(n)'
    BY <1>1, <1>4, <1>5, CopiesKept DEF RaceInv, CopyInv, Copies
  <2>. QED
    BY <2>1 DEF CopyInv
<1>9. ApartInv'
  BY <1>1, SameListed, ApartShrinks DEF RaceInv
<1>. QED
  BY <1>6, <1>7, <1>8, <1>9

(* A merge takes an id that nobody has, above all listed ones.               *)
LEMMA RaceMergeAlloc ==
    ASSUME RaceInv, NEW m \in Mergers, MergeAlloc(m)
    PROVE  IdInv' /\ FilesInv' /\ CopyInv' /\ ApartInv'
<1>. USE BoundsAssumption
<1>1. /\ mergePc[m] = "selected" /\ mergePc' = [mergePc EXCEPT ![m] = "reading"]
      /\ out' = [out EXCEPT ![m] = partSeq + 1] /\ partSeq' = partSeq + 1
      /\ inputs[m] \subseteq manifest /\ flush = "idle" /\ dayDir' = TRUE
      /\ mode = "up" /\ drop = "idle"
      /\ UNCHANGED <<mode, buffers, pending, manifest, inputs, rows,
                     flush, drop, parts, merging, manifestFile, sent>>
  BY DEF MergeAlloc, MergeGoesTo, NextId, LockFree, ghosts, RaceInv, FilesInv
<1>2. /\ mergePc \in [Mergers -> MergePcs] /\ out \in [Mergers -> 0..MaxId]
      /\ partSeq \in Nat /\ manifest \subseteq Ids /\ inputs \in [Mergers -> SUBSET Ids]
  BY DEF RaceInv, TypeInv, TypeOK, ThreadsTypeOK, MemoryTypeOK
<1>3. \A n \in Mergers : n # m => /\ mergePc'[n] = mergePc[n] /\ out'[n] = out[n]
                                  /\ HasId(n)' = HasId(n) /\ Unlisted(n)' = Unlisted(n)
  BY <1>1, <1>2 DEF HasId, Unlisted
<1>4. mergePc'[m] = "reading" /\ out'[m] = partSeq + 1 /\ ~HasId(m)
  BY <1>1, <1>2 DEF HasId
<1>5. \A p \in manifest : p <= partSeq /\ p <= partSeq + 1 /\ p < partSeq + 1 /\ p # partSeq + 1
  BY <1>2 DEF RaceInv, IdInv, Ids
<1>6. \A n \in Mergers : HasId(n) => /\ out[n] <= partSeq + 1 /\ out[n] # partSeq + 1
                                     /\ partSeq + 1 \notin inputs[n]
  <2>1. ASSUME NEW n \in Mergers, HasId(n)
        PROVE  /\ out[n] <= partSeq + 1 /\ out[n] # partSeq + 1
               /\ partSeq + 1 \notin inputs[n]
    <3>1. out[n] <= partSeq /\ out[n] \in Nat /\ \A p \in inputs[n] : p < out[n] /\ p \in Nat
      BY <1>2, <2>1 DEF RaceInv, IdInv, OwnId, Ids
    <3>. QED
      BY <1>2, <3>1
  <2>. QED
    BY <2>1
<1>7. IdInv'
  <2>1. OwnId(m)'
    <3>1. inputs[m] # {} /\ \A p \in inputs[m] : p < partSeq + 1
      BY <1>1, <1>5 DEF RaceInv, IdInv, OwnId
    <3>2. partSeq + 1 <= partSeq + 1 /\ partSeq + 1 \notin manifest
      BY <1>2, <1>5
    <3>. QED
      BY <1>1, <1>3, <1>4, <1>6, <3>1, <3>2 DEF OwnId
  <2>2. ASSUME NEW n \in Mergers, n # m PROVE OwnId(n)'
    <3>1. OwnId(n)
      BY DEF RaceInv, IdInv
    <3>2. Unlisted(n) => HasId(n) /\ out[n] \notin inputs[m]
      BY <1>1, <3>1 DEF OwnId, Unlisted
    <3>3. ASSUME NEW k \in Mergers, k # n, HasId(n)', HasId(k)'
          PROVE  out'[n] # out'[k] /\ (Unlisted(n)' => out'[n] \notin inputs'[k])
      <4>1. HasId(n)
        BY <1>3, <2>2, <3>3
      <4>2. CASE k = m
        BY <1>1, <1>3, <1>4, <1>6, <2>2, <3>2, <4>1, <4>2
      <4>3. CASE k # m
        BY <1>1, <1>3, <2>2, <3>1, <3>3, <4>1, <4>3 DEF OwnId
      <4>. QED
        BY <4>2, <4>3
    <3>4. HasId(n)' => out'[n] <= partSeq'
      BY <1>1, <1>3, <1>6, <2>2
    <3>. QED
      BY <1>1, <1>3, <2>2, <3>1, <3>3, <3>4 DEF OwnId
  <2>. QED
    BY <1>1, <1>5, <2>1, <2>2 DEF RaceInv, IdInv
<1>8. FilesInv'
  <2>1. Stray \subseteq Stray' /\ Dirs' = Dirs
    BY <1>1, <1>3 DEF Stray, Dirs
  <2>. QED
    BY <1>1, <2>1 DEF RaceInv, FilesInv
<1>9. CopyInv'
  <2>1. ASSUME NEW n \in Mergers, n # m PROVE Copies(n)'
    BY <1>1, <1>3, <2>1, CopiesKept DEF RaceInv, CopyInv
  <2>2. Copies(m)'
    BY <1>4 DEF Copies
  <2>. QED
    BY <2>1, <2>2 DEF CopyInv
<1>10. ApartInv'
  BY <1>1, SameListed, ApartShrinks DEF RaceInv
<1>. QED
  BY <1>7, <1>8, <1>9, <1>10

(* A merge that returns, or gives its id back, with nothing of its own on    *)
(* disk.                                                                     *)
LEMMA RaceMergeRaced ==
    ASSUME RaceInv, NEW m \in Mergers, MergeRaced(m)
    PROVE  IdInv' /\ FilesInv' /\ CopyInv' /\ ApartInv'
<1>1. /\ mergePc[m] = "selected" /\ mergePc' = [mergePc EXCEPT ![m] = "idle"]
      /\ inputs' = [inputs EXCEPT ![m] = {}] /\ out' = [out EXCEPT ![m] = 0]
      /\ rows' = [rows EXCEPT ![m] = {}] /\ dayDir' = TRUE
      /\ UNCHANGED <<mode, buffers, pending, manifest, partSeq,
                     flush, drop, parts, merging, manifestFile, sent>>
  BY DEF MergeRaced, MergeReturns, MergeGoesTo, memory, ghosts
<1>2. /\ mergePc \in [Mergers -> MergePcs] /\ out \in [Mergers -> 0..MaxId]
      /\ inputs \in [Mergers -> SUBSET Ids] /\ rows \in [Mergers -> SUBSET Rows]
  BY DEF RaceInv, TypeInv, TypeOK, ThreadsTypeOK
<1>3. \A n \in Mergers : n # m => /\ mergePc'[n] = mergePc[n] /\ inputs'[n] = inputs[n]
                                  /\ out'[n] = out[n] /\ rows'[n] = rows[n]
                                  /\ HasId(n)' = HasId(n) /\ Unlisted(n)' = Unlisted(n)
  BY <1>1, <1>2 DEF HasId, Unlisted
<1>4. mergePc'[m] = "idle" /\ ~HasId(m)' /\ ~Unlisted(m)' /\ ~HasId(m)
  BY <1>1, <1>2 DEF HasId, Unlisted
<1>5. IdInv'
  <2>1. ASSUME NEW n \in Mergers PROVE OwnId(n)'
    BY <1>1, <1>3, <1>4 DEF RaceInv, IdInv, OwnId
  <2>. QED
    BY <1>1, <2>1 DEF RaceInv, IdInv
<1>6. FilesInv'
  <2>1. Stray \subseteq Stray' /\ Dirs' = Dirs
    BY <1>1, <1>3 DEF Stray, Dirs
  <2>. QED
    BY <1>1, <2>1 DEF RaceInv, FilesInv
<1>7. CopyInv'
  <2>1. ASSUME NEW n \in Mergers, n # m PROVE Copies(n)'
    BY <1>1, <1>3, <2>1, CopiesKept DEF RaceInv, CopyInv
  <2>2. Copies(m)'
    BY <1>4 DEF Copies
  <2>. QED
    BY <2>1, <2>2 DEF CopyInv
<1>8. ApartInv'
  BY <1>1, SameListed, ApartShrinks DEF RaceInv
<1>. QED
  BY <1>5, <1>6, <1>7, <1>8

(* A step of a merge that keeps its id and touches only its .merging-<id>.   *)
LEMMA RaceMergeWorks ==
    ASSUME RaceInv, NEW m \in Mergers, mergePc[m] \in {"reading", "writing"},
           \E pc \in {"writing", "written", "failed"} :
              mergePc' = [mergePc EXCEPT ![m] = pc],
           UNCHANGED <<inputs, out, memory, flush, drop, parts, manifestFile, sent>>,
           dayDir => dayDir',
           \A n \in Mergers : n # m => rows'[n] = rows[n],
           \A p \in Ids : merging'[p] = merging[p] \/ merging'[p] = {} \/ p = out[m],
           Copies(m)'
    PROVE  IdInv' /\ FilesInv' /\ CopyInv' /\ ApartInv'
<1>1. UNCHANGED <<mode, buffers, pending, manifest, partSeq>>
  BY DEF memory
<1>2. /\ mergePc \in [Mergers -> MergePcs]
      /\ \A n \in Mergers : HasId(n) => out[n] \in Ids
  BY DEF RaceInv, TypeInv, TypeOK, ThreadsTypeOK, LockInv, Allocated, HasId
<1>3. /\ \A n \in Mergers : HasId(n)' = HasId(n) /\ Unlisted(n)' = Unlisted(n)
      /\ \A n \in Mergers : n # m => mergePc'[n] = mergePc[n]
      /\ HasId(m) /\ mergePc'[m] \in {"writing", "written", "failed"}
  BY <1>2 DEF HasId, Unlisted
<1>4. IdInv'
  <2>1. ASSUME NEW n \in Mergers PROVE OwnId(n)'
    BY <1>1, <1>3 DEF RaceInv, IdInv, OwnId
  <2>. QED
    BY <1>1, <2>1 DEF RaceInv, IdInv
<1>5. FilesInv'
  <2>1. Stray \subseteq Stray' /\ Dirs' = Dirs
    BY <1>1, <1>3 DEF Stray, Dirs
  <2>. QED
    BY <1>1, <2>1 DEF RaceInv, FilesInv
<1>6. CopyInv'
  <2>1. ASSUME NEW n \in Mergers, n # m PROVE Copies(n)'
    <3>1. HasId(n) => out[n] # out[m]
      BY <1>3, <2>1 DEF RaceInv, IdInv, OwnId
    <3>2. HasId(n) => merging'[out[n]] \in {{}, merging[out[n]]}
      BY <1>2, <3>1
    <3>. QED
      BY <1>1, <1>3, <2>1, <3>2, CopiesKept DEF RaceInv, CopyInv
  <2>. QED
    BY <2>1 DEF CopyInv
<1>7. ApartInv'
  BY <1>1, SameListed, ApartShrinks DEF RaceInv
<1>. QED
  BY <1>4, <1>5, <1>6, <1>7

(* What a merge reads are the rows of its inputs.                            *)
LEMMA RaceMergeRead ==
    ASSUME RaceInv, NEW m \in Mergers, MergeRead(m)
    PROVE  IdInv' /\ FilesInv' /\ CopyInv' /\ ApartInv'
<1>1. /\ mergePc[m] = "reading"
      /\ merging' = [merging EXCEPT ![out[m]] = {}]
      /\ UNCHANGED <<inputs, out, memory, flush, drop, dayDir, parts, manifestFile, sent>>
  BY DEF MergeRead, ghosts
<1>2. /\ mergePc \in [Mergers -> MergePcs] /\ rows \in [Mergers -> SUBSET Rows]
      /\ merging \in [Ids -> SUBSET Rows]
  BY DEF RaceInv, TypeInv, TypeOK, ThreadsTypeOK, DiskTypeOK
<1>3. \A p \in Ids : merging'[p] = merging[p] \/ merging'[p] = {}
  BY <1>1, <1>2
<1>4. CASE mergePc' = [mergePc EXCEPT ![m] = "writing"] /\ rows' = [rows EXCEPT ![m] = InputRows(m)]
  <2>1. Copies(m)'
    BY <1>1, <1>2, <1>4 DEF Copies, InputRows
  <2>2. \A n \in Mergers : n # m => rows'[n] = rows[n]
    BY <1>2, <1>4
  <2>. QED
    BY <1>1, <1>3, <1>4, <2>1, <2>2, RaceMergeWorks
<1>5. CASE mergePc' = [mergePc EXCEPT ![m] = "failed"] /\ UNCHANGED rows
  <2>1. Copies(m)'
    BY <1>2, <1>5 DEF Copies
  <2>2. \A n \in Mergers : n # m => rows'[n] = rows[n]
    BY <1>5
  <2>. QED
    BY <1>1, <1>3, <1>5, <2>1, <2>2, RaceMergeWorks
<1>. QED
  BY <1>4, <1>5 DEF MergeRead, MergeGoesTo

(* What it writes is what it has read.                                       *)
LEMMA RaceMergeWrite ==
    ASSUME RaceInv, NEW m \in Mergers, MergeWrite(m)
    PROVE  IdInv' /\ FilesInv' /\ CopyInv' /\ ApartInv'
<1>1. /\ mergePc[m] = "writing" /\ mergePc' = [mergePc EXCEPT ![m] = "written"]
      /\ merging' = [merging EXCEPT ![out[m]] = rows[m]] /\ dayDir' = TRUE
      /\ UNCHANGED <<inputs, out, rows, memory, flush, drop, parts, manifestFile, sent>>
  BY DEF MergeWrite, MergeGoesTo, ghosts
<1>2. /\ mergePc \in [Mergers -> MergePcs] /\ merging \in [Ids -> SUBSET Rows]
      /\ out[m] \in Ids
  BY <1>1 DEF RaceInv, TypeInv, TypeOK, ThreadsTypeOK, DiskTypeOK, LockInv, Allocated
<1>3. \A p \in Ids : merging'[p] = merging[p] \/ merging'[p] = {} \/ p = out[m]
  BY <1>1, <1>2
<1>4. Copies(m)'
  <2>1. mergePc'[m] = "written" /\ merging'[out[m]] = rows[m]
    BY <1>1, <1>2
  <2>2. inputs[m] \subseteq manifest => rows[m] = InputRows(m)
    BY <1>1 DEF RaceInv, CopyInv, Copies
  <2>3. InputRows(m)' = InputRows(m) /\ manifest' = manifest
    BY <1>1 DEF InputRows, memory
  <2>. QED
    BY <1>1, <2>1, <2>2, <2>3 DEF Copies
<1>5. (\A n \in Mergers : n # m => rows'[n] = rows[n]) /\ (dayDir => dayDir')
  BY <1>1
<1>. QED
  BY <1>1, <1>3, <1>4, <1>5, RaceMergeWorks

(* What it publishes are the rows of inputs that are still listed.           *)
LEMMA RaceMergePublish ==
    ASSUME RaceInv, NEW m \in Mergers, MergePublish(m), ManifestBacked
    PROVE  IdInv' /\ FilesInv' /\ CopyInv' /\ ApartInv'
<1>1. /\ mergePc[m] = "written" /\ mergePc' = [mergePc EXCEPT ![m] = "renamed"]
      /\ inputs[m] \subseteq manifest /\ merging[out[m]] # {} /\ parts[out[m]] = {}
      /\ parts' = [parts EXCEPT ![out[m]] = merging[out[m]]]
      /\ merging' = [merging EXCEPT ![out[m]] = {}]
      /\ rows' = [rows EXCEPT ![m] = {}]
      /\ flush = "idle" /\ mode = "up" /\ drop = "idle"
      /\ UNCHANGED <<mode, buffers, pending, manifest, partSeq, inputs, out,
                     flush, drop, dayDir, manifestFile, sent>>
  BY DEF MergePublish, CanPublishMerge, LockFree, MergeGoesTo, memory, ghosts,
     RaceInv, FilesInv
<1>2. /\ mergePc \in [Mergers -> MergePcs] /\ parts \in [Ids -> SUBSET Rows]
      /\ rows \in [Mergers -> SUBSET Rows] /\ merging \in [Ids -> SUBSET Rows]
      /\ \A n \in Mergers : HasId(n) => out[n] \in Ids
      /\ manifest \subseteq Ids
  BY DEF RaceInv, TypeInv, TypeOK, ThreadsTypeOK, DiskTypeOK, MemoryTypeOK, LockInv, Allocated, HasId
<1>3. /\ \A n \in Mergers : HasId(n)' = HasId(n) /\ Unlisted(n)' = Unlisted(n)
      /\ \A n \in Mergers : n # m => mergePc'[n] = mergePc[n] /\ rows'[n] = rows[n]
      /\ HasId(m) /\ Unlisted(m) /\ mergePc'[m] = "renamed"
  BY <1>1, <1>2 DEF HasId, Unlisted
<1>4. out[m] \in Ids /\ out[m] \notin manifest /\ inputs[m] # {}
  BY <1>1, <1>2, <1>3 DEF RaceInv, IdInv, OwnId
<1>5. \A p \in manifest : parts'[p] = parts[p]
  BY <1>1, <1>2, <1>4
<1>6. IdInv'
  <2>1. ASSUME NEW n \in Mergers PROVE OwnId(n)'
    BY <1>1, <1>3, <1>4 DEF RaceInv, IdInv, OwnId
  <2>. QED
    BY <1>1, <2>1 DEF RaceInv, IdInv
<1>7. FilesInv'
  <2>1. Dirs' \subseteq Dirs \cup {out[m]}
    BY <1>1, <1>2 DEF Dirs
  <2>2. Stray \cup {out[m]} \subseteq Stray'
    BY <1>1, <1>3, <1>4 DEF Stray
  <2>3. dayDir
    BY <1>1, <1>4 DEF ManifestBacked, RaceInv, FilesInv
  <2>. QED
    BY <1>1, <2>1, <2>2, <2>3 DEF RaceInv, FilesInv
<1>8. CopyInv'
  <2>1. ASSUME NEW n \in Mergers, n # m PROVE Copies(n)'
    <3>1. ~Inside(n)
      BY <1>1, <1>3, <2>1 DEF MergePublish, LockFree, Inside
    <3>2. HasId(n) => merging'[out[n]] \in {{}, merging[out[n]]}
      BY <1>1, <1>2
    <3>. QED
      BY <1>1, <1>3, <1>5, <2>1, <3>1, <3>2, CopiesKept DEF RaceInv, CopyInv
  <2>2. Copies(m)'
    <3>1. merging[out[m]] = InputRows(m)
      BY <1>1 DEF RaceInv, CopyInv, Copies
    <3>2. InputRows(m)' = InputRows(m)
      BY <1>1, <1>5 DEF InputRows
    <3>3. parts'[out[m]] = merging[out[m]]
      BY <1>1, <1>2, <1>4
    <3>. QED
      BY <1>1, <1>3, <3>1, <3>2, <3>3 DEF Copies
  <2>. QED
    BY <2>1, <2>2 DEF CopyInv
<1>9. ApartInv'
  <2>1. ListedIds = manifest /\ ListedIds' = manifest
    BY <1>1 DEF ListedIds
  <2>. QED
    BY <1>1, <1>5, <2>1, ApartShrinks DEF RaceInv
<1>. QED
  BY <1>6, <1>7, <1>8, <1>9

(* partSeq goes back past an id that is not listed and that no other merge   *)
(* has.                                                                      *)
LEMMA SeqBack ==
    ASSUME RaceInv, NEW m \in Mergers, Unlisted(m),
           partSeq' = (IF partSeq = out[m] THEN partSeq - 1 ELSE partSeq)
    PROVE  /\ \A p \in manifest : p <= partSeq'
           /\ \A n \in Mergers : n # m /\ HasId(n) => out[n] <= partSeq'
<1>. USE BoundsAssumption
<1>1. /\ out \in [Mergers -> 0..MaxId] /\ manifest \subseteq Ids /\ partSeq \in Nat
      /\ HasId(m)
  BY DEF RaceInv, TypeInv, TypeOK, ThreadsTypeOK, MemoryTypeOK, Unlisted
<1>2. out[m] \notin manifest /\ out[m] \in Nat
  BY <1>1 DEF RaceInv, IdInv, OwnId
<1>3. ASSUME NEW p \in manifest PROVE p <= partSeq'
  <2>1. p \in Nat /\ p <= partSeq /\ p # out[m]
    BY <1>1, <1>2 DEF RaceInv, IdInv, Ids
  <2>. QED
    BY <1>1, <1>2, <2>1
<1>4. ASSUME NEW n \in Mergers, n # m, HasId(n) PROVE out[n] <= partSeq'
  <2>1. out[n] \in Nat /\ out[n] <= partSeq /\ out[n] # out[m]
    BY <1>1, <1>4 DEF RaceInv, IdInv, OwnId
  <2>. QED
    BY <1>1, <1>2, <2>1
<1>. QED
  BY <1>3, <1>4

(* The rollback of a merge under the lock takes nothing that is listed.      *)
LEMMA RaceMergeRollbackLocked ==
    ASSUME RaceInv, NEW m \in Mergers, MergeRollbackLocked(m),
           mergePc[m] \in {"written", "renamed"}, mode = "up", flush = "idle", drop = "idle",
           \A n \in Mergers : n # m => ~Inside(n),
           merging' = merging \/ merging' = [merging EXCEPT ![out[m]] = {}],
           sent' = sent
    PROVE  IdInv' /\ FilesInv' /\ CopyInv' /\ ApartInv'
<1>1. /\ partSeq' = (IF partSeq = out[m] THEN partSeq - 1 ELSE partSeq)
      /\ parts' = [parts EXCEPT ![out[m]] = {}]
      /\ mergePc' = [mergePc EXCEPT ![m] = "idle"]
      /\ inputs' = [inputs EXCEPT ![m] = {}] /\ out' = [out EXCEPT ![m] = 0]
      /\ rows' = [rows EXCEPT ![m] = {}]
      /\ UNCHANGED <<mode, buffers, pending, manifest, flush, drop, dayDir, manifestFile>>
  BY DEF MergeRollbackLocked, RemoveDir, MergeReturns, MergeGoesTo
<1>2. /\ mergePc \in [Mergers -> MergePcs] /\ parts \in [Ids -> SUBSET Rows]
      /\ rows \in [Mergers -> SUBSET Rows] /\ merging \in [Ids -> SUBSET Rows]
      /\ inputs \in [Mergers -> SUBSET Ids] /\ out \in [Mergers -> 0..MaxId]
      /\ \A n \in Mergers : HasId(n) => out[n] \in Ids
      /\ manifest \subseteq Ids
  BY DEF RaceInv, TypeInv, TypeOK, ThreadsTypeOK, DiskTypeOK, MemoryTypeOK, LockInv, Allocated, HasId
<1>3. \A n \in Mergers : n # m => /\ mergePc'[n] = mergePc[n] /\ inputs'[n] = inputs[n]
                                  /\ out'[n] = out[n] /\ rows'[n] = rows[n]
                                  /\ HasId(n)' = HasId(n) /\ Unlisted(n)' = Unlisted(n)
  BY <1>1, <1>2 DEF HasId, Unlisted
<1>4. /\ mergePc'[m] = "idle" /\ ~HasId(m)' /\ ~Unlisted(m)' /\ HasId(m) /\ Unlisted(m)
      /\ out[m] \in Ids /\ out[m] \notin manifest
  BY <1>1, <1>2 DEF HasId, Unlisted, RaceInv, IdInv, OwnId
<1>5. \A p \in manifest : parts'[p] = parts[p]
  BY <1>1, <1>2, <1>4
<1>6. IdInv'
  <2>1. /\ \A p \in manifest : p <= partSeq'
        /\ \A n \in Mergers : n # m /\ HasId(n) => out[n] <= partSeq'
    BY <1>1, <1>4, SeqBack
  <2>2. ASSUME NEW n \in Mergers PROVE OwnId(n)'
    BY <1>1, <1>3, <1>4, <2>1 DEF RaceInv, IdInv, OwnId
  <2>. QED
    BY <1>1, <2>1, <2>2 DEF IdInv
<1>7. FilesInv'
  <2>1. Dirs' = Dirs \ {out[m]}
    BY <1>1, <1>2 DEF Dirs
  <2>2. Stray \subseteq Stray' \cup {out[m]}
    BY <1>1, <1>3 DEF Stray
  <2>. QED
    BY <1>1, <2>1, <2>2 DEF RaceInv, FilesInv
<1>8. CopyInv'
  <2>1. ASSUME NEW n \in Mergers, n # m PROVE Copies(n)'
    <3>1. HasId(n) => merging'[out[n]] \in {{}, merging[out[n]]}
      BY <1>1, <1>2
    <3>. QED
      BY <1>1, <1>3, <1>5, <2>1, <3>1, CopiesKept DEF RaceInv, CopyInv
  <2>2. Copies(m)'
    BY <1>4 DEF Copies
  <2>. QED
    BY <2>1, <2>2 DEF CopyInv
<1>9. ApartInv'
  <2>1. ListedIds = manifest /\ ListedIds' = manifest
    BY <1>1 DEF ListedIds
  <2>. QED
    BY <1>1, <1>5, <2>1, ApartShrinks DEF RaceInv
<1>. QED
  BY <1>6, <1>7, <1>8, <1>9

(* The output takes the place of the inputs, whose rows it holds.            *)
LEMMA RaceMergeSwap ==
    ASSUME RaceInv, NEW m \in Mergers, MergeSwap(m), ManifestBacked'
    PROVE  IdInv' /\ FilesInv' /\ CopyInv' /\ ApartInv'
<1>. USE BoundsAssumption
<1>1. /\ mergePc[m] = "renamed" /\ mergePc' = [mergePc EXCEPT ![m] = "swapped"]
      /\ manifest' = (manifest \ inputs[m]) \cup {out[m]} /\ manifestFile' = manifest'
      /\ UNCHANGED <<mode, buffers, pending, partSeq, inputs, out, rows,
                     flush, drop, dayDir, parts, merging, sent>>
  BY DEF MergeSwap, MergeGoesTo, ghosts
<1>2. /\ mergePc \in [Mergers -> MergePcs] /\ manifest \subseteq Ids
      /\ inputs \in [Mergers -> SUBSET Ids] /\ out[m] \in Ids /\ partSeq \in Nat
  BY <1>1 DEF RaceInv, TypeInv, TypeOK, ThreadsTypeOK, MemoryTypeOK, LockInv, Allocated
<1>3. /\ flush = "idle" /\ drop = "idle" /\ mode = "up"
      /\ \A n \in Mergers : n # m => ~Inside(n)
  BY <1>1, <1>2 DEF RaceInv, TypeInv, LockInv, Inside, TypeOK, MemoryTypeOK,
     ThreadsTypeOK, FilesInv
<1>4. /\ \A n \in Mergers : HasId(n)' = HasId(n)
      /\ \A n \in Mergers : n # m => mergePc'[n] = mergePc[n] /\ Unlisted(n)' = Unlisted(n)
      /\ HasId(m) /\ Unlisted(m) /\ ~Unlisted(m)' /\ mergePc'[m] = "swapped"
  BY <1>1, <1>2 DEF HasId, Unlisted
<1>5. /\ inputs[m] \subseteq manifest /\ out[m] \notin manifest /\ out[m] <= partSeq
      /\ parts[out[m]] \in {{}, InputRows(m)}
      /\ \A n \in Mergers : n # m /\ HasId(n) => out[n] # out[m] /\ out[m] \notin inputs[n]
  BY <1>1, <1>4 DEF RaceInv, IdInv, OwnId, CopyInv, Copies
<1>6. IdInv'
  <2>1. ASSUME NEW n \in Mergers PROVE OwnId(n)'
    BY <1>1, <1>4, <1>5 DEF RaceInv, IdInv, OwnId, Unlisted
  <2>. QED
    BY <1>1, <1>3, <1>5, <2>1 DEF RaceInv, IdInv
<1>7. FilesInv'
  <2>1. Dirs' = Dirs /\ out[m] \in Dirs
    BY <1>1, <1>3 DEF Dirs, ManifestBacked
  <2>2. Stray \subseteq {out[m]}
    BY <1>1, <1>3 DEF Stray, Inside
  <2>3. inputs[m] \subseteq Stray'
    BY <1>1, <1>2, <1>4 DEF Stray
  <2>. QED
    BY <1>1, <1>3, <2>1, <2>2, <2>3 DEF RaceInv, FilesInv
<1>8. CopyInv'
  <2>1. ASSUME NEW n \in Mergers, n # m PROVE Copies(n)'
    BY <1>1, <1>3, <1>4, <1>5, <2>1, CopiesKept DEF RaceInv, CopyInv
  <2>2. Copies(m)'
    BY <1>1, <1>4, <1>5 DEF Copies
  <2>. QED
    BY <2>1, <2>2 DEF CopyInv
<1>9. ApartInv'
  <2>1. ListedIds = manifest /\ ListedIds' = (manifest \ inputs[m]) \cup {out[m]}
    BY <1>1, <1>3 DEF ListedIds
  <2>2. \A p \in manifest : parts[p] \subseteq sent \ pending /\ parts[p] \cap buffers = {}
    BY <1>3, <2>1 DEF RaceInv, ApartInv
  <2>3. \A p, q \in manifest : p # q => parts[p] \cap parts[q] = {}
    BY <2>1 DEF RaceInv, ApartInv
  <2>4. parts[out[m]] \subseteq UNION {parts[p] : p \in inputs[m]}
    BY <1>5 DEF InputRows
  <2>5. parts[out[m]] \subseteq sent \ pending /\ parts[out[m]] \cap buffers = {}
    BY <1>5, <2>2, <2>4
  <2>6. \A q \in manifest \ inputs[m] : parts[out[m]] \cap parts[q] = {}
    BY <1>5, <2>3, <2>4
  <2>7. \A p \in ListedIds' : parts[p] \subseteq sent \ pending /\ parts[p] \cap buffers = {}
    BY <2>1, <2>2, <2>5
  <2>8. \A p, q \in ListedIds' : p # q => parts[p] \cap parts[q] = {}
    BY <2>1, <2>3, <2>6
  <2>. QED
    BY <1>1, <1>3, <2>7, <2>8 DEF RaceInv, ApartInv
<1>. QED
  BY <1>6, <1>7, <1>8, <1>9

(* Rebuilding the index moves no row.                                        *)
LEMMA RaceMergeIndex ==
    ASSUME RaceInv, NEW m \in Mergers, MergeIndex(m)
    PROVE  IdInv' /\ FilesInv' /\ CopyInv' /\ ApartInv'
<1>1. /\ mergePc[m] = "swapped" /\ mergePc' = [mergePc EXCEPT ![m] = "cleaning"]
      /\ UNCHANGED <<mode, buffers, pending, manifest, partSeq, inputs, out, rows,
                     flush, drop, dayDir, parts, merging, manifestFile, sent>>
  BY DEF MergeIndex, MergeGoesTo, ghosts
<1>2. mergePc \in [Mergers -> MergePcs]
  BY DEF RaceInv, TypeInv, TypeOK, ThreadsTypeOK
<1>3. /\ \A n \in Mergers : HasId(n)' = HasId(n) /\ Unlisted(n)' = Unlisted(n)
      /\ \A n \in Mergers : n # m => mergePc'[n] = mergePc[n]
      /\ mergePc'[m] = "cleaning"
  BY <1>1, <1>2 DEF HasId, Unlisted
<1>4. IdInv'
  <2>1. ASSUME NEW n \in Mergers PROVE OwnId(n)'
    BY <1>1, <1>3 DEF RaceInv, IdInv, OwnId
  <2>. QED
    BY <1>1, <2>1 DEF RaceInv, IdInv
<1>5. FilesInv'
  <2>1. Stray \subseteq Stray' /\ Dirs' = Dirs
    BY <1>1, <1>3 DEF Stray, Dirs
  <2>. QED
    BY <1>1, <2>1 DEF RaceInv, FilesInv
<1>6. CopyInv'
  <2>1. ASSUME NEW n \in Mergers PROVE Copies(n)'
    BY <1>1, <1>3 DEF RaceInv, CopyInv, Copies, InputRows
  <2>. QED
    BY <2>1 DEF CopyInv
<1>7. ApartInv'
  BY <1>1, SameListed, ApartShrinks DEF RaceInv
<1>. QED
  BY <1>4, <1>5, <1>6, <1>7

(* What a merge removes in the end is not listed any more.                   *)
LEMMA RaceMergeClean ==
    ASSUME RaceInv, NEW m \in Mergers, MergeClean(m)
    PROVE  IdInv' /\ FilesInv' /\ CopyInv' /\ ApartInv'
<1>. DEFINE p == MinOf(inputs[m])
<1>1. /\ mergePc[m] = "cleaning" /\ parts' = [parts EXCEPT ![p] = {}]
      /\ inputs'  = [inputs EXCEPT ![m] = inputs[m] \ {p}]
      /\ \/ /\ inputs[m] \ {p} = {} /\ mergePc' = [mergePc EXCEPT ![m] = "idle"]
            /\ out' = [out EXCEPT ![m] = 0] /\ rows' = [rows EXCEPT ![m] = {}]
         \/ /\ inputs[m] \ {p} # {} /\ UNCHANGED <<mergePc, out, rows>>
      /\ UNCHANGED <<mode, buffers, pending, manifest, partSeq,
                     flush, drop, dayDir, merging, manifestFile, sent>>
  BY DEF MergeClean, RemoveDir, MergeReturns, MergeGoesTo, memory, ghosts
<1>2. /\ mergePc \in [Mergers -> MergePcs] /\ parts \in [Ids -> SUBSET Rows]
      /\ rows \in [Mergers -> SUBSET Rows] /\ out \in [Mergers -> 0..MaxId]
      /\ inputs \in [Mergers -> SUBSET Ids] /\ manifest \subseteq Ids
  BY DEF RaceInv, TypeInv, TypeOK, ThreadsTypeOK, DiskTypeOK, MemoryTypeOK
<1>3. /\ flush = "idle" /\ drop = "idle" /\ mode = "up"
      /\ \A n \in Mergers : n # m => ~Inside(n)
  BY <1>1, <1>2 DEF RaceInv, TypeInv, LockInv, Inside, TypeOK, MemoryTypeOK,
     ThreadsTypeOK, FilesInv
<1>4. inputs[m] # {} /\ inputs[m] \cap manifest = {} /\ out[m] \in manifest
  BY <1>1 DEF RaceInv, IdInv, OwnId, CopyInv, Copies
<1>5. p \in inputs[m] /\ p \in Ids /\ p \notin manifest
  BY <1>2, <1>4, MinOfMember
<1>. HIDE DEF p
<1>6. \A n \in Mergers : n # m => /\ mergePc'[n] = mergePc[n] /\ inputs'[n] = inputs[n]
                                  /\ out'[n] = out[n] /\ rows'[n] = rows[n]
                                  /\ HasId(n)' = HasId(n) /\ Unlisted(n)' = Unlisted(n)
  BY <1>1, <1>2 DEF HasId, Unlisted
<1>7. /\ inputs'[m] = inputs[m] \ {p} /\ mergePc'[m] \in {"idle", "cleaning"}
      /\ mergePc'[m] = "idle" \/ (inputs'[m] # {} /\ out'[m] = out[m] /\ mergePc'[m] = "cleaning")
      /\ ~Unlisted(m)' /\ HasId(m)
  BY <1>1, <1>2 DEF Unlisted, HasId
<1>8. \A q \in manifest : parts'[q] = parts[q]
  BY <1>1, <1>2, <1>5
<1>9. IdInv'
  <2>1. OwnId(m)'
    BY <1>1, <1>6, <1>7 DEF RaceInv, IdInv, OwnId, HasId
  <2>2. ASSUME NEW n \in Mergers, n # m PROVE OwnId(n)'
    <3>1. HasId(m)' => out'[m] = out[m]
      BY <1>7 DEF HasId
    <3>. QED
      BY <1>1, <1>6, <1>7, <2>2, <3>1 DEF RaceInv, IdInv, OwnId
  <2>. QED
    BY <1>1, <2>1, <2>2 DEF RaceInv, IdInv
<1>10. FilesInv'
  <2>1. Dirs' = Dirs \ {p}
    BY <1>1, <1>2 DEF Dirs
  <2>2. inputs[m] \subseteq Stray' \cup {p}
    <3>1. CASE mergePc'[m] = "idle"
      BY <1>1, <1>2, <3>1
    <3>2. CASE mergePc'[m] = "cleaning"
      BY <1>2, <1>7, <3>2 DEF Stray
    <3>. QED
      BY <1>7, <3>1, <3>2
  <2>3. Stray \subseteq inputs[m]
    BY <1>1, <1>3 DEF Stray, Inside
  <2>. QED
    BY <1>1, <2>1, <2>2, <2>3 DEF RaceInv, FilesInv
<1>11. CopyInv'
  <2>1. ASSUME NEW n \in Mergers, n # m PROVE Copies(n)'
    BY <1>1, <1>3, <1>6, <1>8, <2>1, CopiesKept DEF RaceInv, CopyInv
  <2>2. Copies(m)'
    BY <1>1, <1>4, <1>7 DEF Copies
  <2>. QED
    BY <2>1, <2>2 DEF CopyInv
<1>12. ApartInv'
  <2>1. ListedIds = manifest /\ ListedIds' = manifest
    BY <1>1, <1>3 DEF ListedIds
  <2>. QED
    BY <1>1, <1>3, <1>8, <2>1, ApartShrinks DEF RaceInv
<1>. QED
  BY <1>9, <1>10, <1>11, <1>12

(* A merge that failed gives its id back and no longer has one.              *)
LEMMA RaceMergeRollback ==
    ASSUME RaceInv, NEW m \in Mergers, MergeRollback(m)
    PROVE  IdInv' /\ FilesInv' /\ CopyInv' /\ ApartInv'
<1>1. /\ mergePc[m] = "failed" /\ mergePc' = [mergePc EXCEPT ![m] = "unlocked"]
      /\ partSeq' = (IF partSeq = out[m] THEN partSeq - 1 ELSE partSeq)
      /\ flush = "idle" /\ drop = "idle" /\ mode = "up"
      /\ UNCHANGED <<mode, buffers, pending, manifest, inputs, out, rows,
                     flush, drop, dayDir, parts, merging, manifestFile, sent>>
  BY DEF MergeRollback, MergeGoesTo, LockFree, disk, ghosts, RaceInv, FilesInv
<1>2. mergePc \in [Mergers -> MergePcs]
  BY DEF RaceInv, TypeInv, TypeOK, ThreadsTypeOK
<1>3. \A n \in Mergers : n # m => /\ mergePc'[n] = mergePc[n]
                                  /\ HasId(n)' = HasId(n) /\ Unlisted(n)' = Unlisted(n)
  BY <1>1, <1>2 DEF HasId, Unlisted
<1>4. mergePc'[m] = "unlocked" /\ ~HasId(m)' /\ ~Unlisted(m)' /\ Unlisted(m)
  BY <1>1, <1>2 DEF HasId, Unlisted
<1>5. IdInv'
  <2>1. /\ \A p \in manifest : p <= partSeq'
        /\ \A n \in Mergers : n # m /\ HasId(n) => out[n] <= partSeq'
    BY <1>1, <1>4, SeqBack
  <2>2. ASSUME NEW n \in Mergers PROVE OwnId(n)'
    BY <1>1, <1>3, <1>4, <2>1 DEF RaceInv, IdInv, OwnId
  <2>. QED
    BY <1>1, <2>1, <2>2 DEF IdInv
<1>6. FilesInv'
  <2>1. Stray \subseteq Stray' /\ Dirs' = Dirs
    BY <1>1, <1>3 DEF Stray, Dirs
  <2>. QED
    BY <1>1, <2>1 DEF RaceInv, FilesInv
<1>7. CopyInv'
  <2>1. ASSUME NEW n \in Mergers, n # m PROVE Copies(n)'
    BY <1>1, <1>3, <2>1, CopiesKept DEF RaceInv, CopyInv
  <2>2. Copies(m)'
    BY <1>4 DEF Copies
  <2>. QED
    BY <2>1, <2>2 DEF CopyInv
<1>8. ApartInv'
  <2>1. ListedIds = manifest /\ ListedIds' = manifest
    BY <1>1 DEF ListedIds
  <2>. QED
    BY <1>1, <2>1, ApartShrinks DEF RaceInv
<1>. QED
  BY <1>5, <1>6, <1>7, <1>8

(* It then removes its directories: they may be another thread's by now, but *)
(* not a listed part's.                                                      *)
LEMMA RaceMergeRemove ==
    ASSUME RaceInv, NEW m \in Mergers, MergeRemove(m), ManifestBacked'
    PROVE  IdInv' /\ FilesInv' /\ CopyInv' /\ ApartInv'
<1>1. /\ mode = "up" /\ mergePc[m] = "unlocked" /\ mergePc' = [mergePc EXCEPT ![m] = "idle"]
      /\ parts' = [parts EXCEPT ![out[m]] = {}]
      /\ merging' = [merging EXCEPT ![out[m]] = {}]
      /\ inputs' = [inputs EXCEPT ![m] = {}] /\ out' = [out EXCEPT ![m] = 0]
      /\ rows' = [rows EXCEPT ![m] = {}]
      /\ UNCHANGED <<mode, buffers, pending, manifest, partSeq,
                     flush, drop, dayDir, manifestFile, sent>>
  BY DEF MergeRemove, RemoveDir, MergeReturns, MergeGoesTo, memory, ghosts
<1>2. /\ mergePc \in [Mergers -> MergePcs] /\ parts \in [Ids -> SUBSET Rows]
      /\ rows \in [Mergers -> SUBSET Rows] /\ merging \in [Ids -> SUBSET Rows]
      /\ inputs \in [Mergers -> SUBSET Ids] /\ out \in [Mergers -> 0..MaxId]
      /\ manifest \subseteq Ids /\ drop \in {"idle", "removing"} /\ out[m] \in Ids
  BY <1>1 DEF RaceInv, TypeInv, TypeOK, ThreadsTypeOK, DiskTypeOK, MemoryTypeOK,
     LockInv, Allocated, FilesInv
<1>3. \A n \in Mergers : n # m => /\ mergePc'[n] = mergePc[n] /\ inputs'[n] = inputs[n]
                                  /\ out'[n] = out[n] /\ rows'[n] = rows[n]
                                  /\ HasId(n)' = HasId(n) /\ Unlisted(n)' = Unlisted(n)
  BY <1>1, <1>2 DEF HasId, Unlisted
<1>4. mergePc'[m] = "idle" /\ ~HasId(m)' /\ ~Unlisted(m)' /\ ~HasId(m)
  BY <1>1, <1>2 DEF HasId, Unlisted
<1>5. manifest \subseteq Ids \ {out[m]} /\ \A p \in manifest : parts'[p] = parts[p]
  <2>1. CASE drop = "idle"
    <3>1. manifest \subseteq Dirs'
      BY <1>1, <2>1 DEF ManifestBacked
    <3>2. out[m] \notin Dirs'
      BY <1>1, <1>2 DEF Dirs
    <3>. QED
      BY <1>1, <1>2, <3>1, <3>2
  <2>2. CASE drop = "removing"
    BY <2>2 DEF RaceInv, FilesInv
  <2>. QED
    BY <1>2, <2>1, <2>2
<1>6. IdInv'
  <2>1. ASSUME NEW n \in Mergers PROVE OwnId(n)'
    BY <1>1, <1>3, <1>4 DEF RaceInv, IdInv, OwnId
  <2>. QED
    BY <1>1, <2>1 DEF RaceInv, IdInv
<1>7. Dirs' = Dirs \ {out[m]}
  BY <1>1, <1>2 DEF Dirs
<1>8. FilesInv'
  <2>1. Stray \subseteq Stray'
    BY <1>1, <1>3 DEF Stray
  <2>. QED
    BY <1>1, <1>7, <2>1 DEF RaceInv, FilesInv
<1>9. CopyInv'
  <2>1. ASSUME NEW n \in Mergers, n # m PROVE Copies(n)'
    <3>1. HasId(n) => merging'[out[n]] \in {{}, merging[out[n]]}
      BY <1>1, <1>2
    <3>2. Inside(n) => parts'[out[n]] \in {{}, parts[out[n]]}
      BY <1>1, <1>2
    <3>. QED
      BY <1>1, <1>3, <1>5, <2>1, <3>1, <3>2, CopiesKept DEF RaceInv, CopyInv
  <2>2. Copies(m)'
    BY <1>4 DEF Copies
  <2>. QED
    BY <2>1, <2>2 DEF CopyInv
<1>10. ApartInv'
  <2>1. ListedIds' \subseteq ListedIds
    BY <1>1, <1>7 DEF ListedIds, Recoverable
  <2>2. \A p \in Ids : parts'[p] \subseteq parts[p]
    BY <1>1, <1>2
  <2>3. ListedIds \subseteq Ids
    BY <1>2 DEF ListedIds, Recoverable, Dirs, RaceInv, TypeInv, TypeOK, DiskTypeOK
  <2>4. CASE partSeq \in Ids
    BY <1>1, <2>1, <2>2, <2>3, <2>4, ApartShrinks DEF RaceInv
  <2>5. CASE partSeq \notin Ids
    <3>1. flush \notin {"published", "listed"}
      BY <2>5 DEF RaceInv, TypeInv, LockInv
    <3>. QED
      BY <1>1, <2>1, <2>2, <2>3, <3>1, ApartShrinks DEF RaceInv
  <2>. QED
    BY <2>4, <2>5
<1>. QED
  BY <1>6, <1>8, <1>9, <1>10

(* A merge that has swapped the manifest owns a listed part: rolling it back *)
(* removes that part.                                                        *)
LEMMA SwappedStays ==
    ASSUME RaceInv, NEW m \in Mergers, mergePc[m] = "swapped", MergeRollbackLocked(m),
           drop = "idle"
    PROVE  ~ManifestBacked'
<1>1. /\ out[m] \in manifest /\ manifest' = manifest /\ drop' = drop
      /\ parts' = [parts EXCEPT ![out[m]] = {}]
  BY DEF RaceInv, CopyInv, Copies, MergeRollbackLocked, RemoveDir
<1>2. parts \in [Ids -> SUBSET Rows] /\ manifest \subseteq Ids
  BY DEF RaceInv, TypeInv, TypeOK, MemoryTypeOK, DiskTypeOK
<1>3. out[m] \notin Dirs'
  BY <1>1, <1>2 DEF Dirs
<1>. QED
  BY <1>1, <1>3 DEF ManifestBacked

(* The error paths of a merge.  That of MergeIndexFails and of a fault after *)
(* the swap removes the listed output: it is no undisturbed step.            *)
LEMMA RaceMergeFault ==
    ASSUME RaceInv, NEW m \in Mergers, MergeFault(m), ManifestBacked'
    PROVE  IdInv' /\ FilesInv' /\ CopyInv' /\ ApartInv'
<1>1. sent' = sent /\ mergePc \in [Mergers -> MergePcs]
  BY DEF MergeFault, Fault, RaceInv, TypeInv, TypeOK, ThreadsTypeOK
<1>2. CASE /\ mergePc[m] \in {"reading", "writing"} /\ MergeGoesTo(m, "failed")
           /\ rows' = [rows EXCEPT ![m] = {}]
           /\ UNCHANGED <<inputs, out, memory, flush, search, drop, disk>>
  <2>1. mergePc' = [mergePc EXCEPT ![m] = "failed"]
    BY <1>2 DEF MergeGoesTo
  <2>2. Copies(m)'
    BY <1>1, <2>1 DEF Copies
  <2>3. \A n \in Mergers : n # m => rows'[n] = rows[n]
    BY <1>2 DEF RaceInv, TypeInv, TypeOK, ThreadsTypeOK
  <2>4. UNCHANGED <<dayDir, parts, merging, manifestFile>>
    BY <1>2 DEF disk
  <2>. QED
    BY <1>1, <1>2, <2>1, <2>2, <2>3, <2>4, RaceMergeWorks
<1>3. CASE /\ LockFree /\ mergePc[m] = "written"
           /\ merging' = [merging EXCEPT ![out[m]] = {}] /\ MergeRollbackLocked(m)
  <2>1. mode = "up" /\ flush = "idle" /\ drop = "idle" /\ \A n \in Mergers : ~Inside(n)
    BY <1>3 DEF LockFree, Inside, RaceInv, FilesInv
  <2>. QED
    BY <1>1, <1>3, <2>1, RaceMergeRollbackLocked
<1>4. CASE mergePc[m] \in {"renamed", "swapped"} /\ MergeRollbackLocked(m) /\ merging' = merging
  <2>1. /\ mode = "up" /\ flush = "idle" /\ drop = "idle"
        /\ \A n \in Mergers : n # m => ~Inside(n)
    BY <1>4 DEF RaceInv, TypeInv, LockInv, Inside, TypeOK, MemoryTypeOK,
       ThreadsTypeOK, FilesInv
  <2>2. mergePc[m] # "swapped"
    BY <1>4, <2>1, SwappedStays
  <2>. QED
    BY <1>1, <1>4, <2>1, <2>2, RaceMergeRollbackLocked
<1>. QED
  BY <1>2, <1>3, <1>4 DEF MergeFault

(* A merge whose inputs are gone gives its id back.                          *)
LEMMA RaceMergeAbort ==
    ASSUME RaceInv, NEW m \in Mergers, MergeAbort(m)
    PROVE  IdInv' /\ FilesInv' /\ CopyInv' /\ ApartInv'
<1>1. /\ LockFree /\ mergePc[m] = "written" /\ sent' = sent
      /\ merging' = [merging EXCEPT ![out[m]] = {}] /\ MergeRollbackLocked(m)
  BY DEF MergeAbort, ghosts
<1>2. mode = "up" /\ flush = "idle" /\ drop = "idle" /\ \A n \in Mergers : ~Inside(n)
  BY <1>1 DEF LockFree, Inside, RaceInv, FilesInv
<1>. QED
  BY <1>1, <1>2, RaceMergeRollbackLocked

(* A step that changes only what searches and the index remember.            *)
LEMMA RaceSame ==
    ASSUME RaceInv,
           UNCHANGED <<mode, buffers, pending, manifest, partSeq, flush, drop, mergePc,
                       inputs, out, rows, dayDir, parts, merging, manifestFile, sent>>
    PROVE  IdInv' /\ FilesInv' /\ CopyInv' /\ ApartInv'
<1>1. IdInv' /\ FilesInv' /\ CopyInv'
  BY IdKept, FilesKept, CopyKept DEF RaceInv
<1>2. ApartInv'
  BY SameListed, ApartShrinks DEF RaceInv
<1>. QED
  BY <1>1, <1>2

(* Retention, at a moment when no merge has an id.                           *)
LEMMA RaceDropDay ==
    ASSUME RaceInv, DropDay, Undisturbed'
    PROVE  IdInv' /\ FilesInv' /\ CopyInv' /\ ApartInv'
<1>1. /\ LockFree /\ drop' = "removing" /\ buffers' = {} /\ manifest' = {} /\ partSeq' = 0
      /\ UNCHANGED <<mode, pending, flush, mergePc, inputs, out, rows,
                     dayDir, parts, merging, manifestFile, sent>>
  BY DEF DropDay, merge, disk
<1>2. mode = "up" /\ drop = "idle" /\ flush = "idle" /\ Stray = {}
  BY <1>1, NoStray DEF LockFree, RaceInv, FilesInv
<1>3. \A m \in Mergers : ~HasId(m)' /\ ~HasId(m)
  BY <1>1 DEF Undisturbed, HasId
<1>4. IdInv'
  BY <1>1, <1>2, <1>3 DEF RaceInv, IdInv, OwnId, Unlisted
<1>5. FilesInv'
  BY <1>1, <1>2 DEF RaceInv, FilesInv, Dirs
<1>6. CopyInv'
  <2>1. ASSUME NEW m \in Mergers PROVE Copies(m)'
    BY <1>1, <1>3 DEF Copies, HasId
  <2>. QED
    BY <2>1 DEF CopyInv
<1>7. ApartInv'
  <2>1. ListedIds' = Recoverable /\ ListedIds = manifest
    BY <1>1, <1>2 DEF ListedIds, Recoverable, Dirs
  <2>2. Recoverable \subseteq manifest
    BY <1>2, ListedIdsRecoverable
  <2>. QED
    BY <1>1, <1>2, <2>1, <2>2 DEF RaceInv, ApartInv
<1>. QED
  BY <1>4, <1>5, <1>6, <1>7

(* The removal of a day takes rows away and adds none.                       *)
LEMMA RaceDropRemove ==
    ASSUME RaceInv, DropRemove, Undisturbed
    PROVE  IdInv' /\ FilesInv' /\ CopyInv' /\ ApartInv'
<1>1. /\ drop = "removing"
      /\ UNCHANGED <<mode, buffers, pending, manifest, partSeq, flush, drop, mergePc,
                     inputs, out, rows, dayDir, sent>>
  BY DEF DropRemove, memory, threads, merge, ghosts
<1>2. /\ \A p \in Ids : parts'[p] \subseteq parts[p]
      /\ manifestFile' \in {manifestFile, NoFile}
      /\ Dirs' \subseteq Dirs
  <2>1. parts \in [Ids -> SUBSET Rows]
    BY DEF RaceInv, TypeInv, TypeOK, DiskTypeOK
  <2>2. \A p \in Ids : parts'[p] \subseteq parts[p]
    BY <2>1 DEF DropRemove, RemoveDir
  <2>3. manifestFile' \in {manifestFile, NoFile}
    BY DEF DropRemove
  <2>. QED
    BY <2>2, <2>3 DEF Dirs
<1>3. \A m \in Mergers : ~HasId(m) /\ ~HasId(m)'
  BY <1>1 DEF Undisturbed, HasId
<1>4. IdInv'
  BY <1>1, IdKept DEF RaceInv
<1>5. NoFile' = NoFile
  BY DEF NoFile
<1>6. FilesInv'
  <2>1. manifest = {} /\ buffers = {} /\ (manifestFile # NoFile => Dirs \subseteq manifestFile)
    BY <1>1 DEF RaceInv, FilesInv
  <2>2. ~dayDir => Dirs = {} /\ manifestFile = NoFile
    BY DEF RaceInv, FilesInv
  <2>3. mode' = mode /\ drop' = "removing" /\ drop' # "idle"
    BY <1>1
  <2>4. manifestFile' # NoFile => Dirs' \subseteq manifestFile'
    BY <1>2, <2>1
  <2>5. ~dayDir' => Dirs' = {} /\ manifestFile' = NoFile
    BY <1>1, <1>2, <2>2
  <2>. QED
    BY <1>1, <1>5, <2>1, <2>3, <2>4, <2>5 DEF FilesInv
<1>7. CopyInv'
  BY <1>3 DEF CopyInv, Copies, HasId
<1>8. ApartInv'
  <2>1. ListedIds = Recoverable /\ ListedIds' = Recoverable'
    BY <1>1 DEF ListedIds
  <2>2. Recoverable' \subseteq Recoverable
    BY <1>1, <1>2 DEF RaceInv, FilesInv, Recoverable
  <2>3. flush = "idle" /\ Recoverable \subseteq Ids
    <3>1. flush = "idle"
      BY <1>1 DEF RaceInv, TypeInv, LockInv
    <3>2. Recoverable \subseteq Ids
      BY DEF Recoverable, Dirs, RaceInv, TypeInv, TypeOK, DiskTypeOK
    <3>. QED
      BY <3>1, <3>2
  <2>. QED
    BY <1>1, <1>2, <2>1, <2>2, <2>3, ApartShrinks DEF RaceInv
<1>. QED
  BY <1>4, <1>6, <1>7, <1>8

(* The end of the removal: the day is empty.                                 *)
LEMMA RaceDropDone ==
    ASSUME RaceInv, DropDone
    PROVE  IdInv' /\ FilesInv' /\ CopyInv' /\ ApartInv'
<1>1. /\ drop = "removing" /\ drop' = "idle" /\ Dirs = {} /\ manifestFile = NoFile
      /\ UNCHANGED <<mode, buffers, pending, manifest, partSeq, flush, mergePc,
                     inputs, out, rows, parts, merging, manifestFile, sent>>
  BY DEF DropDone, memory, merge, ghosts
<1>2. manifest = {} /\ buffers = {} /\ Dirs' = {} /\ Recoverable = {} /\ Recoverable' = {}
  BY <1>1 DEF RaceInv, FilesInv, Dirs, Recoverable
<1>3. IdInv' /\ CopyInv'
  BY <1>1, IdKept, CopyKept DEF RaceInv
<1>4. FilesInv'
  BY <1>1, <1>2 DEF FilesInv, NoFile
<1>5. ApartInv'
  <2>1. ListedIds' = {} /\ flush = "idle"
    BY <1>1, <1>2 DEF ListedIds, RaceInv, TypeInv, LockInv
  <2>. QED
    BY <1>1, <1>2, <2>1 DEF RaceInv, ApartInv
<1>. QED
  BY <1>3, <1>4, <1>5

(* Restarts.                                                                 *)
LEMMA RaceCrash ==
    ASSUME RaceInv, Crash
    PROVE  IdInv' /\ FilesInv' /\ CopyInv' /\ ApartInv'
<1>1. /\ mode' = "down" /\ buffers' = {} /\ pending' = {} /\ manifest' = {} /\ partSeq' = 0
      /\ flush' = "idle" /\ drop' = "idle"
      /\ \A m \in Mergers : mergePc'[m] = "idle"
      /\ UNCHANGED <<dayDir, parts, merging, manifestFile, sent>>
  BY DEF Crash, disk
<1>2. IdInv'
  BY <1>1 DEF IdInv, OwnId, HasId, Unlisted
<1>3. FilesInv'
  BY <1>1 DEF RaceInv, FilesInv, Dirs
<1>4. CopyInv'
  BY <1>1 DEF CopyInv, Copies
<1>5. ApartInv'
  <2>1. ListedIds' = Recoverable
    BY <1>1 DEF ListedIds, Recoverable, Dirs
  <2>2. \A p, q \in Recoverable : p # q => parts[p] \cap parts[q] = {}
    BY RaceInvApart DEF NoRowTwice
  <2>3. \A p \in Recoverable : parts[p] \subseteq sent
    <3>1. CASE mode = "up" /\ drop = "idle"
      <4>1. ASSUME NEW p \in Recoverable PROVE parts[p] \subseteq sent
        BY <3>1, ListedIdsRecoverable DEF RaceInv, ApartInv, ListedIds
      <4>. QED
        BY <4>1
    <3>2. CASE ~(mode = "up" /\ drop = "idle")
      BY <3>2 DEF RaceInv, ApartInv, ListedIds
    <3>. QED
      BY <3>1, <3>2
  <2>. QED
    BY <1>1, <2>1, <2>2, <2>3 DEF ApartInv
<1>. QED
  BY <1>2, <1>3, <1>4, <1>5

(* What Open cleans up before it may fail.                                   *)
LEMMA RaceOpenCleanup ==
    ASSUME RaceInv, OpenCleanup
    PROVE  /\ mode = "down" /\ flush = "idle" /\ drop = "idle"
           /\ Recoverable' = Recoverable
           /\ \A p \in Recoverable : parts'[p] = parts[p]
           /\ Dirs' \subseteq Recoverable
           /\ dayDir => manifestFile' = Recoverable
           /\ ~dayDir => Recoverable = {} /\ manifestFile' = NoFile
           /\ \A m \in Mergers : mergePc[m] = "idle"
           /\ UNCHANGED <<flush, drop, mergePc, inputs, out, rows, dayDir, sent>>
<1>1. /\ mode = "down"
      /\ parts' = [p \in Ids |-> IF p \in Recoverable THEN parts[p] ELSE {}]
      /\ manifestFile' = (IF dayDir THEN Recoverable ELSE NoFile)
      /\ UNCHANGED <<flush, drop, mergePc, inputs, out, rows, dayDir, sent>>
  BY DEF OpenCleanup, threads, merge, ghosts
<1>2. /\ flush = "idle" /\ drop = "idle" /\ \A m \in Mergers : mergePc[m] = "idle"
  BY <1>1 DEF RaceInv, TypeInv, LockInv
<1>3. Recoverable \subseteq Ids /\ (Recoverable = NoFile => FALSE)
  BY DEF Recoverable, Dirs, RaceInv, TypeInv, TypeOK, DiskTypeOK, NoFile, Ids
<1>4. \A p \in Recoverable : parts'[p] = parts[p]
  BY <1>1, <1>3
<1>5. Dirs' \subseteq Recoverable
  BY <1>1 DEF Dirs
<1>6. ~dayDir => Recoverable = {}
  BY DEF RaceInv, FilesInv, Recoverable
<1>7. Recoverable' = Recoverable
  <2>1. CASE dayDir
    BY <1>1, <1>3, <2>1 DEF Recoverable, NoFile
  <2>2. CASE ~dayDir
    BY <1>1, <1>5, <1>6, <2>2 DEF Recoverable, NoFile
  <2>. QED
    BY <2>1, <2>2
<1>. QED
  BY <1>1, <1>2, <1>4, <1>5, <1>6, <1>7

(* Open lists what was recoverable, whether it succeeds or not.              *)
LEMMA RaceOpen ==
    ASSUME RaceInv, Open \/ OpenFails
    PROVE  IdInv' /\ FilesInv' /\ CopyInv' /\ ApartInv'
<1>1. OpenCleanup
  BY DEF Open, OpenFails
<1>2. /\ mode = "down" /\ flush = "idle" /\ drop = "idle"
      /\ Recoverable' = Recoverable
      /\ \A p \in Recoverable : parts'[p] = parts[p]
      /\ Dirs' \subseteq Recoverable
      /\ dayDir => manifestFile' = Recoverable
      /\ ~dayDir => Recoverable = {} /\ manifestFile' = NoFile
      /\ \A m \in Mergers : mergePc[m] = "idle"
      /\ UNCHANGED <<flush, drop, mergePc, inputs, out, rows, dayDir, sent>>
  BY <1>1, RaceOpenCleanup
<1>3. UNCHANGED <<buffers, pending>> /\ buffers = {} /\ pending = {}
  BY <1>2 DEF Open, OpenFails, memory, RaceInv, FilesInv, TypeInv, LockInv
<1>4. \/ mode' = "up" /\ manifest' = Recoverable /\ partSeq' = MaxOf(Recoverable)
      \/ mode' = "down" /\ manifest' = {} /\ partSeq' = partSeq
  BY <1>2 DEF Open, OpenFails, memory, RaceInv, FilesInv
<1>5. Recoverable \in SUBSET Ids
  BY DEF Recoverable, Dirs, RaceInv, TypeInv, TypeOK, DiskTypeOK
<1>6. IdInv'
  <2>1. \A p \in manifest' : p <= partSeq'
    BY <1>4, <1>5, MaxOfBound
  <2>2. \A m \in Mergers : OwnId(m)'
    BY <1>2 DEF OwnId, HasId, Unlisted
  <2>. QED
    BY <1>2, <2>1, <2>2 DEF IdInv
<1>7. FilesInv'
  BY <1>2, <1>3, <1>4 DEF FilesInv, NoFile
<1>8. CopyInv'
  BY <1>2 DEF CopyInv, Copies
<1>9. ApartInv'
  <2>1. ListedIds = Recoverable /\ ListedIds' = Recoverable
    BY <1>2, <1>4 DEF ListedIds
  <2>. QED
    BY <1>2, <1>3, <2>1 DEF RaceInv, ApartInv
<1>. QED
  BY <1>6, <1>7, <1>8, <1>9

(* The steps together, in undisturbed states.                                *)
LEMMA RaceInvNext ==
    ASSUME RaceInv, Undisturbed, Undisturbed', [Next]_vars
    PROVE  RaceInv'
<1>. DEFINE Kept == IdInv' /\ FilesInv' /\ CopyInv' /\ ApartInv'
<1>1. ManifestBacked /\ ManifestBacked'
  BY DEF Undisturbed
<1>. SUFFICES Kept
  BY TypeOKNext, LockInvNext DEF RaceInv, TypeInv
<1>2. ASSUME NEW B \in SUBSET Rows, Append(B) PROVE Kept
  BY <1>2, RaceAppend
<1>3. ASSUME NEW r \in Rows, Apply(r) PROVE Kept
  BY <1>3, RaceApply
<1>4. CASE FlushCall
  BY <1>4, RaceFlushCall
<1>5. CASE FlushStep
  <2>1. CASE FlushPublish
    BY <2>1, RaceFlushPublish
  <2>2. CASE FlushRenameFails
    <3>1. /\ flush = "start" /\ flush' = "idle" /\ pending' = {} /\ sent' = sent
          /\ UNCHANGED <<mode, buffers, manifest, partSeq, merge, drop, dayDir,
                         parts, merging, manifestFile>>
      BY <2>2 DEF FlushRenameFails, FlushReturnsError, disk, ghosts
    <3>. QED
      BY <3>1, RaceFlushReturns
  <2>3. CASE FlushManifest
    BY <1>1, <2>3, RaceFlushManifest
  <2>4. CASE FlushAlreadyListed
    BY <2>4 DEF FlushAlreadyListed, RaceInv, IdInv
  <2>5. CASE FlushIndex
    BY <2>5, RaceFlushIndex
  <2>6. CASE FlushIndexFails
    <3>1. flush = "listed" /\ FlushRollback /\ sent' = sent
      BY <2>6 DEF FlushIndexFails, ghosts
    <3>. QED
      BY <1>1, <3>1, RaceFlushRollback
  <2>. QED
    BY <1>5, <2>1, <2>2, <2>3, <2>4, <2>5, <2>6 DEF FlushStep
<1>6. CASE FlushFault
  <2>1. CASE flush = "start" /\ FlushReturnsError
    <3>1. /\ flush' = "idle" /\ pending' = {} /\ sent' = sent
          /\ UNCHANGED <<mode, buffers, manifest, partSeq, merge, drop, parts,
                         merging, manifestFile>>
      BY <1>6, <2>1 DEF FlushFault, Fault, FlushReturnsError
    <3>2. dayDir' = dayDir \/ dayDir' = TRUE
      BY <1>6, <2>1 DEF FlushFault
    <3>3. dayDir => dayDir'
      BY <3>2
    <3>. QED
      BY <2>1, <3>1, <3>3, RaceFlushReturns
  <2>2. CASE flush \in {"published", "listed"} /\ FlushRollback
    BY <1>1, <1>6, <2>2, RaceFlushRollback DEF FlushFault, Fault
  <2>. QED
    BY <1>6, <2>1, <2>2 DEF FlushFault
<1>7. ASSUME NEW m \in Mergers, MergeSelect(m) \/ MergeStep(m) \/ MergeFault(m) PROVE Kept
  <2>1. CASE MergeIndexFails(m)
    <3>1. mergePc[m] = "swapped" /\ MergeRollbackLocked(m)
      BY <2>1 DEF MergeIndexFails
    <3>2. drop = "idle"
      BY <3>1 DEF RaceInv, TypeInv, LockInv, Inside, FilesInv
    <3>. QED
      BY <1>1, <3>1, <3>2, SwappedStays
  <2>. QED
    BY <1>1, <1>7, <2>1, RaceMergeSelect, RaceMergeAlloc, RaceMergeRaced, RaceMergeRead,
       RaceMergeWrite, RaceMergePublish, RaceMergeAbort, RaceMergeSwap, RaceMergeIndex,
       RaceMergeClean, RaceMergeRollback, RaceMergeRemove, RaceMergeFault DEF MergeStep
<1>8. ASSUME NEW s \in Searchers,
             (\E eq \in Queries : SearchBegin(s, eq)) \/ SearchRead(s) \/ SearchEnd(s)
      PROVE  Kept
  BY <1>8, RaceSame DEF SearchBegin, SearchRead, SearchEnd, memory, merge, disk, ghosts
<1>9. CASE DropDay
  BY <1>9, RaceDropDay
<1>10. CASE DropRemove
  BY <1>10, RaceDropRemove
<1>11. CASE DropDone
  BY <1>11, RaceDropDone
<1>a. CASE DropFails
  BY <1>a DEF DropFails, Undisturbed
<1>12. CASE Crash
  BY <1>12, RaceCrash
<1>13. CASE Open \/ OpenFails
  BY <1>13, RaceOpen
<1>14. CASE UNCHANGED vars
  BY <1>14, RaceSame DEF vars, memory, threads, merge, disk, ghosts
<1>. QED
  BY <1>2, <1>3, <1>4, <1>5, <1>6, <1>7, <1>8, <1>9, <1>10, <1>11, <1>a, <1>12, <1>13,
     <1>14 DEF Next

(* Mergers, flushes, retention, crashes and failing file operations together *)
(* store no row twice, however many of them there are, unless a thread has   *)
(* removed a listed part, a drop has failed half-way or a merge has outlived *)
(* the day.                                                                  *)
THEOREM RacingRowsApart == Spec => RowsApartUndisturbed
<1>1. Init => RaceInv
  BY RaceInvInit
<1>2. RaceInv /\ Undisturbed /\ Undisturbed' /\ [Next]_vars => RaceInv'
  BY RaceInvNext
<1>3. RaceInv => NoRowTwice
  BY RaceInvApart
<1>. QED
  BY <1>1, <1>2, <1>3, PTL DEF Spec, RowsApartUndisturbed
=============================================================================
