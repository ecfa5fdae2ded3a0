---------------------------- MODULE BlocksProofs ----------------------------
(* Proofs about Blocks for all rows, streams, fields, queries and hashes:    *)
(* every row that was appended is read back once and as it was, however      *)
(* often its block is flushed and merged, and no shortcut of a search loses  *)
(* one.  The loops over rows, parts and stream fields are recursive          *)
(* functions, reasoned about by induction over the number of turns.          *)
EXTENDS Blocks, BloomProofs, WellFoundedInduction

-----------------------------------------------------------------------------
(* Induction over the natural numbers, in terms of a set.                    *)
LEMMA LeastNat ==
    ASSUME NEW T, T \subseteq Nat, T # {}
    PROVE  \E x \in T : \A y \in T : x <= y
  <1>1. PICK x \in T : \A y \in T : ~(<<y, x>> \in OpToRel(<, Nat))
    BY WFMin, NatLessThanWellFounded
  <1>2. \A y \in T : ~(y < x)
    BY <1>1 DEF OpToRel
  <1> QED
    BY <1>2

(* A set with 0 and with the successor of every number in it has all         *)
(* numbers.                                                                  *)
LEMMA Induction ==
    ASSUME NEW S, 0 \in S, \A n \in Nat : n \in S => n + 1 \in S
    PROVE  \A n \in Nat : n \in S
  <1> DEFINE T == {n \in Nat : n \notin S}
  <1> SUFFICES ASSUME T # {} PROVE FALSE
    OBVIOUS
  <1>1. PICK x \in T : \A y \in T : x <= y
    BY LeastNat
  <1>2. x # 0 /\ x - 1 \in Nat /\ x - 1 \notin T
    BY <1>1
  <1> QED
    BY <1>2

(* A function may be defined on 0..n by recursion.                           *)
Unfolds(f, n, X, b, G) == /\ f \in [0..n -> X] /\ f[0] = b
                          /\ \A i \in 1..n : f[i] = G[<<i, f[i - 1]>>]

(* A step on a set X from a start in X has a function that takes it n times. *)
LEMMA Recursion ==
    ASSUME NEW n \in Nat, NEW X, NEW b \in X, NEW G \in [(1..n) \X X -> X]
    PROVE  \E f : Unfolds(f, n, X, b, G)
  <1> DEFINE Upto(m, f) == Unfolds(f, m, X, b, G)
             S == {m \in Nat : m <= n => \E f : Upto(m, f)}
  <1>1. 0 \in S
    <2>1. Upto(0, [i \in 0..0 |-> b])
      BY DEF Unfolds
    <2> QED
      BY <2>1
  <1>2. ASSUME NEW m \in Nat, m \in S PROVE m + 1 \in S
    <2> SUFFICES ASSUME m + 1 <= n PROVE \E f : Upto(m + 1, f)
      OBVIOUS
    <2>1. PICK f : Upto(m, f)
      BY <1>2
    <2> DEFINE x == G[<<m + 1, f[m]>>]
               g == [i \in 0..(m + 1) |-> IF i <= m THEN f[i] ELSE x]
    <2>2. f[m] \in X /\ m + 1 \in 1..n
      BY <2>1 DEF Unfolds
    <2>3. x \in X
      BY <2>2
    <2> HIDE DEF x
    <2>4. g \in [0..(m + 1) -> X] /\ g[0] = b
      BY <2>1, <2>3 DEF Unfolds
    <2>5. ASSUME NEW i \in 1..(m + 1) PROVE g[i] = G[<<i, g[i - 1]>>]
      <3>1. CASE i = m + 1
        <4>1. g[i] = x /\ g[i - 1] = f[m]
          BY <3>1
        <4> QED
          BY <3>1, <4>1 DEF x
      <3>2. CASE i \in 1..m
        <4>1. g[i] = f[i] /\ g[i - 1] = f[i - 1]
          BY <3>2
        <4> QED
          BY <2>1, <3>2, <4>1 DEF Unfolds
      <3> QED
        BY <3>1, <3>2
    <2> QED
      BY <2>4, <2>5 DEF Unfolds
  <1>3. n \in S
    <2> HIDE DEF S
    <2> QED
      BY <1>1, <1>2, Induction
  <1>4. PICK f : Upto(n, f)
    BY <1>3
  <1> QED
    BY <1>4

-----------------------------------------------------------------------------
(* Entries and blocks.  V are the values fields may have.                    *)

IsEntry(e, V) == /\ e = [time |-> e.time, fields |-> e.fields] /\ e.time \in Nat
                 /\ e.fields \in [DOMAIN e.fields -> V \ {<< >>}]

IsBlock(b, V) ==
    /\ b = [stream |-> b.stream, times |-> b.times, cols |-> b.cols,
            timeMin |-> b.timeMin, timeMax |-> b.timeMax]
    /\ b.times \in Seq(Nat) /\ b.timeMin \in Nat /\ b.timeMax \in Nat
    /\ b.cols \in [DOMAIN b.cols -> Seq(V)]
    /\ \A k \in DOMAIN b.cols : Len(b.cols[k]) = Len(b.times)

(* The times lie in the time range; not those of a garbled block.            *)
InRange(b) == \A i \in 1..Len(b.times) : b.timeMin <= b.times[i] /\ b.times[i] <= b.timeMax

(* A column of n empty strings.                                              *)
LEMMA PaddingColumn ==
    ASSUME NEW V, << >> \in V, NEW n \in Nat
    PROVE  /\ Padding(n) \in Seq(V) /\ Len(Padding(n)) = n
           /\ \A i \in 1..n : Padding(n)[i] = << >>
  <1>1. Padding(n) \in [1..n -> V]
    BY DEF Padding
  <1>2. Padding(n) \in Seq(V)
    BY <1>1
  <1> QED
    BY <1>1, <1>2 DEF Padding

(* What addRow does, column by column: c is b with the row e added.          *)
RowAdded(b, e, c, V) ==
    LET n == Len(b.times) IN
    /\ c = [stream |-> b.stream, times |-> c.times, cols |-> c.cols,
            timeMin |-> c.timeMin, timeMax |-> c.timeMax]
    /\ c.times = Append(b.times, e.time)
    /\ c.timeMin = IF n = 0 \/ e.time < b.timeMin THEN e.time ELSE b.timeMin
    /\ c.timeMax = IF n = 0 \/ e.time > b.timeMax THEN e.time ELSE b.timeMax
    /\ c.cols \in [DOMAIN b.cols \cup DOMAIN e.fields -> Seq(V)]
    /\ \A k \in DOMAIN c.cols :
          /\ Len(c.cols[k]) = n + 1
          /\ \A i \in 1..n : c.cols[k][i] =
                 IF k \in DOMAIN b.cols THEN b.cols[k][i] ELSE << >>
          /\ c.cols[k][n + 1] = IF k \in DOMAIN e.fields THEN e.fields[k] ELSE << >>

(* addRow does that: the new cell of a column is the value of the field, or  *)
(* the empty string.                                                         *)
LEMMA AddRowAdds ==
    ASSUME NEW V, << >> \in V, NEW b, IsBlock(b, V), NEW e, IsEntry(e, V)
    PROVE  RowAdded(b, e, AddRow(b, e), V)
  <1> DEFINE c == AddRow(b, e)
             n == Len(b.times)
             old(k) == IF k \in DOMAIN b.cols THEN b.cols[k] ELSE Padding(n)
             new(k) == IF k \in DOMAIN e.fields THEN e.fields[k] ELSE << >>
             times == Append(b.times, e.time)
             cols  == [k \in DOMAIN b.cols \cup DOMAIN e.fields |-> Append(old(k), new(k))]
             lo    == IF n = 0 \/ e.time < b.timeMin THEN e.time ELSE b.timeMin
             hi    == IF n = 0 \/ e.time > b.timeMax THEN e.time ELSE b.timeMax
  <1>1. /\ c = [stream |-> b.stream, times |-> c.times, cols |-> c.cols,
                timeMin |-> c.timeMin, timeMax |-> c.timeMax]
        /\ c.times = times /\ c.cols = cols /\ c.timeMin = lo /\ c.timeMax = hi
    <2>1. c = [b EXCEPT !.times = times, !.cols = cols, !.timeMin = lo, !.timeMax = hi]
      BY DEF AddRow
    <2> HIDE DEF times, cols, lo, hi, c
    <2>2. b = [stream |-> b.stream, times |-> b.times, cols |-> b.cols,
               timeMin |-> b.timeMin, timeMax |-> b.timeMax]
      BY DEF IsBlock
    <2>3. c = [stream |-> b.stream, times |-> times, cols |-> cols,
               timeMin |-> lo, timeMax |-> hi]
      BY <2>1, <2>2
    <2> QED
      BY <2>3
  <1> HIDE DEF c
  <1>2. n \in Nat
    BY DEF IsBlock
  <1>4. ASSUME NEW k \in DOMAIN c.cols
        PROVE  /\ c.cols[k] \in Seq(V) /\ Len(c.cols[k]) = n + 1
               /\ \A i \in 1..n : c.cols[k][i] =
                      IF k \in DOMAIN b.cols THEN b.cols[k][i] ELSE << >>
               /\ c.cols[k][n + 1] =
                      IF k \in DOMAIN e.fields THEN e.fields[k] ELSE << >>
    <2>1. /\ old(k) \in Seq(V) /\ Len(old(k)) = n
          /\ \A i \in 1..n : old(k)[i] =
                 IF k \in DOMAIN b.cols THEN b.cols[k][i] ELSE << >>
      BY <1>2, PaddingColumn DEF IsBlock
    <2>2. new(k) \in V
      BY DEF IsEntry
    <2>3. c.cols[k] = Append(old(k), new(k))
      BY <1>1, <1>4
    <2> HIDE DEF old, new
    <2>4. /\ Append(old(k), new(k)) \in Seq(V) /\ Len(Append(old(k), new(k))) = n + 1
          /\ \A i \in 1..n : Append(old(k), new(k))[i] = old(k)[i]
          /\ Append(old(k), new(k))[n + 1] = new(k)
      BY <1>2, <2>1, <2>2
    <2> QED
      BY <2>1, <2>3, <2>4 DEF new
  <1> QED
    BY <1>1, <1>4 DEF c, RowAdded

(* addRow keeps the columns of a block as long as its times, and the time    *)
(* range around them.                                                        *)
LEMMA AddRowIsBlock ==
    ASSUME NEW V, << >> \in V, NEW b, IsBlock(b, V), NEW e, IsEntry(e, V)
    PROVE  /\ IsBlock(AddRow(b, e), V)
           /\ AddRow(b, e).stream = b.stream
           /\ Len(AddRow(b, e).times) = Len(b.times) + 1
           /\ InRange(b) => InRange(AddRow(b, e))
  <1> DEFINE c == AddRow(b, e)
             n == Len(b.times)
  <1>1. RowAdded(b, e, c, V)
    BY AddRowAdds
  <1> HIDE DEF c
  <1>3. /\ b.times \in Seq(Nat) /\ n \in Nat /\ e.time \in Nat
        /\ b.timeMin \in Nat /\ b.timeMax \in Nat
        /\ \A i \in 1..n : b.times[i] \in Nat
    BY DEF IsBlock, IsEntry
  <1>4. /\ Len(c.times) = n + 1 /\ c.times[n + 1] = e.time
        /\ \A i \in 1..n : c.times[i] = b.times[i]
    BY <1>1, <1>3 DEF RowAdded
  <1>5. InRange(b) => InRange(c)
    <2> SUFFICES ASSUME InRange(b), NEW i \in 1..(n + 1)
                 PROVE  c.timeMin <= c.times[i] /\ c.times[i] <= c.timeMax
      BY <1>4 DEF InRange
    <2>0. \A j \in 1..n : b.timeMin <= b.times[j] /\ b.times[j] <= b.timeMax
      BY DEF InRange
    <2>1. CASE i = n + 1
      BY <1>1, <1>3, <1>4, <2>1 DEF RowAdded
    <2>2. CASE i # n + 1
      <3>1. i \in 1..n /\ n # 0
        BY <1>3, <2>2
      <3> QED
        BY SMTT(40), <1>1, <1>3, <1>4, <2>0, <3>1 DEF RowAdded
    <2> QED
      BY <2>1, <2>2
  <1>6. c.cols \in [DOMAIN c.cols -> Seq(V)]
    BY <1>1 DEF RowAdded
  <1>7. c.times \in Seq(Nat) /\ c.timeMin \in Nat /\ c.timeMax \in Nat
    BY <1>1, <1>3 DEF RowAdded
  <1> QED
    BY <1>1, <1>4, <1>5, <1>6, <1>7 DEF IsBlock, RowAdded, c

(* The row a block has just been given is read back with exactly the fields  *)
(* it came with, and the rows before it are read back as before: no field of *)
(* one row shows in another, whatever fields the rows lack (addRow pads).    *)
THEOREM AddedRowReadsBack ==
    ASSUME NEW V, << >> \in V, NEW b, IsBlock(b, V), NEW e, IsEntry(e, V)
    PROVE  /\ Row(AddRow(b, e), Len(b.times) + 1) = e
           /\ \A i \in 1..Len(b.times) : Row(AddRow(b, e), i) = Row(b, i)
  <1> DEFINE c == AddRow(b, e)
             n == Len(b.times)
  <1>1. RowAdded(b, e, c, V)
    BY AddRowAdds
  <1>2. b.times \in Seq(Nat) /\ n \in Nat /\ e.time \in Nat
    BY DEF IsBlock, IsEntry
  <1>3. \A k \in DOMAIN e.fields : e.fields[k] # << >>
    BY DEF IsEntry
  <1>4. \A k \in DOMAIN b.cols : Len(b.cols[k]) = n
    BY DEF IsBlock
  <1> HIDE DEF c
  <1>7. /\ c.times = Append(b.times, e.time)
        /\ DOMAIN c.cols = DOMAIN b.cols \cup DOMAIN e.fields
        /\ \A k \in DOMAIN c.cols :
              /\ Len(c.cols[k]) = n + 1
              /\ \A i \in 1..n : c.cols[k][i] =
                     IF k \in DOMAIN b.cols THEN b.cols[k][i] ELSE << >>
              /\ c.cols[k][n + 1] = IF k \in DOMAIN e.fields THEN e.fields[k] ELSE << >>
    BY <1>1 DEF RowAdded
  <1> DEFINE Shown(x, i) == {f \in DOMAIN x.cols : i <= Len(x.cols[f]) /\ x.cols[f][i] # << >>}
  <1>5. Row(c, n + 1) = e
    <2>1. Shown(c, n + 1) = DOMAIN e.fields
      BY <1>2, <1>3, <1>7
    <2>2. \A k \in DOMAIN e.fields : c.cols[k][n + 1] = e.fields[k]
      BY <1>7
    <2>3. c.times[n + 1] = e.time
      BY <1>2, <1>7
    <2>4. [k \in Shown(c, n + 1) |-> c.cols[k][n + 1]] = e.fields
      BY <2>1, <2>2 DEF IsEntry
    <2>5. Row(c, n + 1) = [time |-> e.time, fields |-> e.fields]
      BY <2>3, <2>4 DEF Row
    <2> QED
      BY <2>5 DEF IsEntry
  <1>6. ASSUME NEW i \in 1..n
        PROVE  Row(c, i) = Row(b, i)
    <2>1. Shown(c, i) = Shown(b, i)
      BY <1>2, <1>4, <1>7
    <2>2. \A k \in Shown(b, i) : c.cols[k][i] = b.cols[k][i]
      BY <1>7
    <2>3. c.times[i] = b.times[i]
      BY <1>2, <1>7
    <2> QED
      BY <2>1, <2>2, <2>3 DEF Row
  <1> QED
    BY <1>5, <1>6 DEF c

-----------------------------------------------------------------------------
(* Blocks on disk.                                                           *)

(* writeTo and readBlock.  A column whose file no other field of the block   *)
(* has is read back, whichever fields overwrite each other's files.          *)
LEMMA ColumnReadsBack ==
    ASSUME NEW b, NEW last \in WriteOrders(b), NEW k \in DOMAIN b.cols,
           \A m \in DOMAIN b.cols : FileOf[m] = FileOf[k] => m = k
    PROVE  ReadBlock(WriteTo(b, last)).cols[k] = b.cols[k]
  <1> DEFINE f == FileOf[k]
             w == WriteTo(b, last)
  <1>1. last \subseteq DOMAIN b.cols /\ FilesOf(last) = FilesOf(DOMAIN b.cols)
    BY DEF WriteOrders
  <1>2. f \in FilesOf(last)
    BY <1>1 DEF FilesOf
  <1>3. PICK m \in last : FileOf[m] = f
    BY <1>2 DEF FilesOf
  <1>4. m = k /\ (CHOOSE x \in last : FileOf[x] = f) = k
    BY <1>1, <1>3
  <1>5. w.files = [g \in FilesOf(last) |-> b.cols[CHOOSE x \in last : FileOf[x] = g]]
           /\ w.fields = DOMAIN b.cols
    BY DEF WriteTo
  <1>6. w.files[f] = b.cols[k]
    BY <1>2, <1>4, <1>5
  <1> HIDE DEF w
  <1> QED
    BY <1>5, <1>6 DEF ReadBlock, w

(* A block whose fields all have files of their own, none of them that of    *)
(* the times, is read back as it was written: its stream, its time range and *)
(* every row of it.                                                          *)
THEOREM BlockReadsBack ==
    ASSUME NEW V, NEW b, IsBlock(b, V), NEW last \in WriteOrders(b),
           \A k, m \in DOMAIN b.cols : FileOf[k] = FileOf[m] => k = m,
           \A k \in DOMAIN b.cols : FileOf[k] # TimeFile
    PROVE  ReadBlock(WriteTo(b, last)) = b
  <1> DEFINE w == WriteTo(b, last)
             c == ReadBlock(w)
  <1>0. TimeFile \notin FilesOf(last)
    BY DEF WriteOrders, FilesOf
  <1>1. /\ w.stream = b.stream /\ w.timeCol = b.times /\ w.fields = DOMAIN b.cols
        /\ w.timeMin = b.timeMin /\ w.timeMax = b.timeMax
    BY <1>0 DEF WriteTo
  <1>2. \A k \in DOMAIN b.cols : c.cols[k] = b.cols[k]
    BY ColumnReadsBack
  <1>3. c = [stream |-> w.stream, times |-> w.timeCol,
             cols |-> [k \in w.fields |-> w.files[FileOf[k]]],
             timeMin |-> w.timeMin, timeMax |-> w.timeMax]
    BY DEF ReadBlock
  <1> HIDE DEF w
  <1>4. c.cols = [k \in w.fields |-> c.cols[k]]
    BY <1>3
  <1> HIDE DEF c
  <1>5. c.cols = [k \in DOMAIN b.cols |-> b.cols[k]]
    BY <1>1, <1>2, <1>4
  <1>6. c.cols = b.cols
    BY <1>5 DEF IsBlock
  <1>7. c = [stream |-> b.stream, times |-> b.times, cols |-> c.cols,
             timeMin |-> b.timeMin, timeMax |-> b.timeMax]
    BY <1>1, <1>3
  <1> QED
    BY <1>6, <1>7 DEF IsBlock, c, w

-----------------------------------------------------------------------------
(* What a search skips.                                                      *)

(* The message of a row is the row's cell in the column of messages.         *)
LEMMA MsgOfRow ==
    ASSUME NEW V, NEW b, IsBlock(b, V), Msg \in DOMAIN b.cols,
           NEW i \in 1..Len(b.times)
    PROVE  MsgOf(Row(b, i)) = b.cols[Msg][i]
  <1>1. Len(b.cols[Msg]) = Len(b.times)
    BY DEF IsBlock
  <1> DEFINE shown == {f \in DOMAIN b.cols : i <= Len(b.cols[f]) /\ b.cols[f][i] # << >>}
  <1>2. Row(b, i).fields = [k \in shown |-> b.cols[k][i]]
    BY DEF Row
  <1>3. Msg \in shown <=> b.cols[Msg][i] # << >>
    BY <1>1 DEF IsBlock
  <1> HIDE DEF shown
  <1> QED
    BY <1>2, <1>3 DEF MsgOf

(* No shortcut skips a block with a row the row filter would return: not the *)
(* name of its day, not the time range of the block, and not the bloom       *)
(* filter written with it.                                                   *)
THEOREM NoBlockSkipped ==
    ASSUME NEW B, NEW b, IsBlock(b, Seq(B)), InRange(b), Msg \in DOMAIN b.cols,
           NEW q, q.start \subseteq Nat, q.end \subseteq Nat, q.contains \in Seq(B),
           NEW i \in 1..Len(b.times), RowMatches(q, Row(b, i))
    PROVE  /\ DayOverlaps(b.times[i] \div DayLen, q)
           /\ TimeRangeOverlaps(q, b.timeMin, b.timeMax)
           /\ MightContainSubstring(MsgBloom(b.cols[Msg]), q.contains)
  <1>1. Row(b, i).time = b.times[i]
    BY DEF Row
  <1>2. /\ b.times[i] \in Nat /\ b.timeMin \in Nat /\ b.timeMax \in Nat
        /\ b.timeMin <= b.times[i] /\ b.times[i] <= b.timeMax
    BY DEF IsBlock, InRange
  <1>3. /\ \A t \in q.end : t \in Nat /\ b.times[i] <= t
        /\ \A t \in q.start : t \in Nat /\ b.times[i] >= t
    BY <1>1 DEF RowMatches
  <1>4. DayOverlaps(b.times[i] \div DayLen, q)
    <2>1. PICK t \in Nat : t = b.times[i]
      BY <1>2
    <2>2. /\ (t \div DayLen) * DayLen <= t
          /\ (t \div DayLen) * DayLen + DayLen - 1 >= t
          /\ (t \div DayLen) * DayLen \in Int /\ DayLen \in Int
      BY BlocksAssumption
    <2> QED
      BY <1>3, <2>1, <2>2 DEF DayOverlaps
  <1>5. TimeRangeOverlaps(q, b.timeMin, b.timeMax)
    BY <1>2, <1>3 DEF TimeRangeOverlaps
  <1>6. MightContainSubstring(MsgBloom(b.cols[Msg]), q.contains)
    <2>1. b.cols[Msg] \in Seq(Seq(B)) /\ i \in DOMAIN b.cols[Msg]
      BY DEF IsBlock
    <2>2. ContainsNeedle(b.cols[Msg][i], q.contains)
      BY MsgOfRow DEF RowMatches
    <2> QED
      BY <2>1, <2>2, NoFalseNegative
  <1> QED
    BY <1>4, <1>5, <1>6

-----------------------------------------------------------------------------
(* What a block holds.                                                       *)

Contents(b) == {Row(b, i) : i \in 1..Len(b.times)}
Once(b) == \A i, j \in 1..Len(b.times) : Row(b, i) = Row(b, j) => i = j

(* A new block is empty.                                                     *)
LEMMA NewBlockEmpty ==
    ASSUME NEW s, NEW V
    PROVE  /\ IsBlock(NewMemBlock(s), V) /\ NewMemBlock(s).stream = s
           /\ Len(NewMemBlock(s).times) = 0 /\ DOMAIN NewMemBlock(s).cols = {}
           /\ Contents(NewMemBlock(s)) = {} /\ Once(NewMemBlock(s))
           /\ InRange(NewMemBlock(s))
  <1> DEFINE b == NewMemBlock(s)
  <1>1. /\ b = [stream |-> s, times |-> << >>, cols |-> << >>, timeMin |-> 0, timeMax |-> 0]
        /\ b.stream = s /\ b.times = << >> /\ b.cols = << >>
        /\ b.timeMin = 0 /\ b.timeMax = 0
    BY DEF NewMemBlock
  <1> HIDE DEF b
  <1>2. Len(b.times) = 0 /\ DOMAIN b.cols = {} /\ b.times \in Seq(Nat)
    BY <1>1
  <1>3. b.cols \in [DOMAIN b.cols -> Seq(V)]
    BY <1>1
  <1>4. IsBlock(b, V)
    BY <1>1, <1>2, <1>3 DEF IsBlock
  <1> QED
    BY <1>1, <1>2, <1>4 DEF Contents, Once, InRange, b

(* Every row of a block is an entry.                                         *)
LEMMA RowIsEntry ==
    ASSUME NEW V, NEW b, IsBlock(b, V), NEW i \in 1..Len(b.times)
    PROVE  IsEntry(Row(b, i), V) /\ DOMAIN Row(b, i).fields \subseteq DOMAIN b.cols
  <1> DEFINE shown == {f \in DOMAIN b.cols : i <= Len(b.cols[f]) /\ b.cols[f][i] # << >>}
             fields == [k \in shown |-> b.cols[k][i]]
  <1>1. Row(b, i) = [time |-> b.times[i], fields |-> fields]
    BY DEF Row
  <1>2. b.times[i] \in Nat
    BY DEF IsBlock
  <1>3. fields \in [DOMAIN fields -> V \ {<< >>}] /\ DOMAIN fields \subseteq DOMAIN b.cols
    BY DEF IsBlock
  <1> HIDE DEF fields
  <1> QED
    BY <1>1, <1>2, <1>3 DEF IsEntry

(* The columns of a block after addRow.                                      *)
LEMMA AddRowCols ==
    ASSUME NEW V, << >> \in V, NEW b, IsBlock(b, V), NEW e, IsEntry(e, V)
    PROVE  DOMAIN AddRow(b, e).cols = DOMAIN b.cols \cup DOMAIN e.fields
  <1> DEFINE c == AddRow(b, e)
  <1>1. RowAdded(b, e, c, V)
    BY AddRowAdds
  <1> HIDE DEF c
  <1>2. c.cols \in [DOMAIN b.cols \cup DOMAIN e.fields -> Seq(V)]
    BY <1>1 DEF RowAdded
  <1> QED
    BY <1>2 DEF c

(* addRow adds one entry to what a block holds.                              *)
LEMMA AddRowContents ==
    ASSUME NEW V, << >> \in V, NEW b, IsBlock(b, V), NEW e, IsEntry(e, V)
    PROVE  /\ Contents(AddRow(b, e)) = Contents(b) \cup {e}
           /\ Once(b) /\ e \notin Contents(b) => Once(AddRow(b, e))
  <1> DEFINE c == AddRow(b, e)
             n == Len(b.times)
  <1>1. /\ Row(c, n + 1) = e
        /\ \A i \in 1..n : Row(c, i) = Row(b, i)
    BY AddedRowReadsBack
  <1>2. Len(c.times) = n + 1
    BY AddRowIsBlock
  <1>3. n \in Nat
    BY DEF IsBlock
  <1> HIDE DEF c
  <1>4. Contents(c) = Contents(b) \cup {e}
    <2>1. 1..Len(c.times) = (1..n) \cup {n + 1}
      BY <1>2, <1>3
    <2> QED
      BY <1>1, <2>1 DEF Contents
  <1>5. ASSUME Once(b), e \notin Contents(b) PROVE Once(c)
    <2>1. \A i \in 1..n : Row(c, i) # e
      BY <1>1, <1>5 DEF Contents
    <2>2. \A i \in 1..Len(c.times) : i \in 1..n \/ i = n + 1
      BY <1>2, <1>3
    <2> QED
      BY <1>1, <1>5, <2>1, <2>2 DEF Once
  <1> QED
    BY <1>4, <1>5 DEF c

(* The blocks of a stream with values in V and fields in F, as a set.        *)
BlockSet(s, V, F) ==
    {b \in [stream : {s}, times : Seq(Nat), cols : UNION {[K -> Seq(V)] : K \in SUBSET F},
            timeMin : Nat, timeMax : Nat] : IsBlock(b, V)}

(* What it means to be in that set.                                          *)
LEMMA BlockSetMember ==
    ASSUME NEW s, NEW V, NEW F, NEW b
    PROVE  b \in BlockSet(s, V, F)
               <=> IsBlock(b, V) /\ b.stream = s /\ DOMAIN b.cols \subseteq F
  <1>1. ASSUME IsBlock(b, V), b.stream = s, DOMAIN b.cols \subseteq F
        PROVE  b \in BlockSet(s, V, F)
    <2>1. b.cols \in UNION {[K -> Seq(V)] : K \in SUBSET F}
      BY <1>1 DEF IsBlock
    <2> QED
      BY <1>1, <2>1 DEF IsBlock, BlockSet
  <1>2. ASSUME b \in BlockSet(s, V, F)
        PROVE  IsBlock(b, V) /\ b.stream = s /\ DOMAIN b.cols \subseteq F
    BY <1>2 DEF BlockSet
  <1> QED
    BY <1>1, <1>2

(* The loop of AddAll, row by row.                                           *)
LEMMA AddAllSteps ==
    ASSUME NEW V, << >> \in V, NEW b, IsBlock(b, V), NEW w, IsBlock(ReadBlock(w), V)
    PROVE  LET n == Len(w.timeCol)
           IN  \E add : /\ AddAll(b, w) = add[n] /\ add[0] = b
                        /\ \A i \in 1..n : add[i] = AddRow(add[i - 1], Row(ReadBlock(w), i))
  <1> DEFINE n == Len(w.timeCol)
             d == ReadBlock(w)
             F == DOMAIN b.cols \cup DOMAIN d.cols
             X == BlockSet(b.stream, V, F)
             G == [p \in (1..n) \X X |-> AddRow(p[2], Row(d, p[1]))]
             Loop(f) == f = [i \in 0..n |-> IF i = 0 THEN b ELSE AddRow(f[i - 1], Row(d, i))]
  <1>1. d.times = w.timeCol /\ n = Len(d.times) /\ n \in Nat
    BY DEF ReadBlock, IsBlock
  <1>2. b \in X
    BY BlockSetMember
  <1>3. ASSUME NEW i \in 1..n, NEW x \in X PROVE AddRow(x, Row(d, i)) \in X
    <2>1. IsEntry(Row(d, i), V) /\ DOMAIN Row(d, i).fields \subseteq DOMAIN d.cols
      BY <1>1, RowIsEntry
    <2>2. IsBlock(x, V) /\ x.stream = b.stream /\ DOMAIN x.cols \subseteq F
      BY BlockSetMember
    <2> DEFINE c == AddRow(x, Row(d, i))
    <2>3. IsBlock(c, V) /\ c.stream = b.stream /\ DOMAIN c.cols \subseteq F
      BY <2>1, <2>2, AddRowIsBlock, AddRowCols
    <2> QED
      BY <2>3, BlockSetMember
  <1> HIDE DEF X, d
  <1>4. G \in [(1..n) \X X -> X]
    BY <1>3
  <1> HIDE DEF G, n
  <1>5. PICK f : Unfolds(f, n, X, b, G)
    BY <1>1, <1>2, <1>4, Recursion
  <1>6. ASSUME NEW i \in 1..n PROVE G[<<i, f[i - 1]>>] = AddRow(f[i - 1], Row(d, i))
    BY SMTT(40), <1>1, <1>5 DEF G, Unfolds
  <1>7. Loop(f)
    <2>1. \A i \in 0..n : f[i] = IF i = 0 THEN b ELSE AddRow(f[i - 1], Row(d, i))
      <3>1. f[0] = b /\ \A i \in 1..n : f[i] = AddRow(f[i - 1], Row(d, i))
        BY <1>5, <1>6 DEF Unfolds
      <3>2. \A i \in 0..n : i = 0 \/ i \in 1..n
        BY <1>1
      <3> QED
        BY <3>1, <3>2, Zenon
    <2>2. [i \in 0..n |-> f[i]]
              = [i \in 0..n |-> IF i = 0 THEN b ELSE AddRow(f[i - 1], Row(d, i))]
      BY <2>1, Zenon
    <2>3. f = [i \in 0..n |-> f[i]]
      BY <1>5 DEF Unfolds
    <2> QED
      BY <2>2, <2>3, Zenon
  <1> DEFINE add == CHOOSE g : Loop(g)
  <1>8. Loop(add)
    BY <1>7
  <1>9. AddAll(b, w) = add[n]
    BY DEF AddAll, d, n
  <1> HIDE DEF add
  <1>10. add[0] = b /\ \A i \in 1..n : add[i] = AddRow(add[i - 1], Row(d, i))
    BY <1>1, <1>8
  <1> QED
    BY <1>9, <1>10 DEF d, n

(* Reading a block back row by row and adding every row again: what the new  *)
(* block holds is what both held, and nothing twice unless it was.           *)
LEMMA AddAllContents ==
    ASSUME NEW V, << >> \in V, NEW b, IsBlock(b, V), NEW w, IsBlock(ReadBlock(w), V)
    PROVE  LET d == ReadBlock(w)
               c == AddAll(b, w)
           IN  /\ IsBlock(c, V) /\ c.stream = b.stream
               /\ DOMAIN c.cols \subseteq DOMAIN b.cols \cup DOMAIN d.cols
               /\ Contents(c) = Contents(b) \cup Contents(d)
               /\ InRange(b) => InRange(c)
               /\ Once(b) /\ Once(d) /\ Contents(b) \cap Contents(d) = {} => Once(c)
  <1> DEFINE d == ReadBlock(w)
             n == Len(w.timeCol)
             Read(i) == {Row(d, j) : j \in 1..i}
             Apart == Once(b) /\ Once(d) /\ Contents(b) \cap Contents(d) = {}
             Holds(c, i) == /\ IsBlock(c, V) /\ c.stream = b.stream
                            /\ DOMAIN c.cols \subseteq DOMAIN b.cols \cup DOMAIN d.cols
                            /\ Contents(c) = Contents(b) \cup Read(i)
                            /\ InRange(b) => InRange(c)
                            /\ Apart => Once(c)
  <1>1. d.times = w.timeCol /\ n = Len(d.times) /\ n \in Nat
    BY DEF ReadBlock, IsBlock
  <1>2. PICK add : /\ AddAll(b, w) = add[n] /\ add[0] = b
                   /\ \A i \in 1..n : add[i] = AddRow(add[i - 1], Row(d, i))
    BY AddAllSteps
  <1> HIDE DEF n, d
  <1> DEFINE S == {i \in Nat : i <= n => Holds(add[i], i)}
  <1>3. 0 \in S
    <2>1. Read(0) = {}
      OBVIOUS
    <2> QED
      BY <1>2, <2>1
  <1>4. ASSUME NEW i \in Nat, i \in S PROVE i + 1 \in S
    <2> SUFFICES ASSUME i + 1 <= n PROVE Holds(add[i + 1], i + 1)
      OBVIOUS
    <2> DEFINE c == add[i]
               e == Row(d, i + 1)
    <2>1. Holds(c, i) /\ i + 1 \in 1..n
      BY <1>1, <1>4
    <2>2. add[i + 1] = AddRow(c, e)
      BY <1>2, <2>1
    <2>3. IsEntry(e, V) /\ DOMAIN e.fields \subseteq DOMAIN d.cols
      BY <1>1, <2>1, RowIsEntry DEF d
    <2>4. Read(i + 1) = Read(i) \cup {e}
      <3>1. 1..(i + 1) = (1..i) \cup {i + 1}
        BY <1>4
      <3> QED
        BY <3>1
    <2>5. e \in Contents(d) /\ (Once(d) => e \notin Read(i))
      BY <1>1, <2>1 DEF Contents, Once
    <2> HIDE DEF c, e, Read
    <2>6. /\ IsBlock(AddRow(c, e), V) /\ AddRow(c, e).stream = b.stream
          /\ InRange(b) => InRange(AddRow(c, e))
      BY <2>1, <2>3, AddRowIsBlock
    <2>7. DOMAIN AddRow(c, e).cols \subseteq DOMAIN b.cols \cup DOMAIN d.cols
      BY <2>1, <2>3, AddRowCols
    <2>8. /\ Contents(AddRow(c, e)) = Contents(c) \cup {e}
          /\ Once(c) /\ e \notin Contents(c) => Once(AddRow(c, e))
      BY <2>1, <2>3, AddRowContents
    <2>9. Contents(AddRow(c, e)) = Contents(b) \cup Read(i + 1)
      BY <2>1, <2>4, <2>8
    <2>10. Apart => Once(AddRow(c, e))
      BY <2>1, <2>5, <2>8
    <2> QED
      BY <2>2, <2>6, <2>7, <2>9, <2>10
  <1>5. n \in S
    <2> HIDE DEF S
    <2> QED
      BY <1>1, <1>3, <1>4, Induction
  <1>6. Read(n) = Contents(d)
    BY <1>1 DEF Contents
  <1>7. Holds(add[n], n)
    BY <1>1, <1>5
  <1> QED
    BY <1>2, <1>6, <1>7 DEF d

(* The loop of MergedBlock, part by part.                                    *)
Lists(i, s, inputs) == i \in inputs /\ s \in DOMAIN parts[i].streams
BlockOf(i, s) == ReadBlock(parts[i].dirs[DirOf[s]])

(* After part i the merged block has the rows of the parts up to i.          *)
LEMMA MergedBlockSteps ==
    ASSUME NEW V, << >> \in V, NEW s, NEW inputs, partSeq \in Nat,
           \A i \in 1..partSeq : Lists(i, s, inputs) => IsBlock(BlockOf(i, s), V)
    PROVE  \E merged :
               /\ MergedBlock(s, inputs) = merged[partSeq] /\ merged[0] = NewMemBlock(s)
               /\ \A i \in 1..partSeq :
                      merged[i] = IF Lists(i, s, inputs)
                                  THEN AddAll(merged[i - 1], parts[i].dirs[DirOf[s]])
                                  ELSE merged[i - 1]
  <1> DEFINE n == partSeq
             b == NewMemBlock(s)
             on(i) == Lists(i, s, inputs)
             w(i) == parts[i].dirs[DirOf[s]]
             F == UNION {DOMAIN BlockOf(i, s).cols : i \in {j \in 1..n : on(j)}}
             X == BlockSet(s, V, F)
             Step(i, x) == IF on(i) THEN AddAll(x, w(i)) ELSE x
             G == [p \in (1..n) \X X |-> Step(p[1], p[2])]
             Loop(f) == f = [i \in 0..n |-> IF i = 0 THEN b ELSE Step(i, f[i - 1])]
  <1>1. b \in X
    <2>1. IsBlock(b, V) /\ b.stream = s /\ DOMAIN b.cols = {}
      BY NewBlockEmpty
    <2> HIDE DEF b, F
    <2> QED
      BY <2>1, BlockSetMember
  <1>2. ASSUME NEW i \in 1..n, NEW x \in X PROVE Step(i, x) \in X
    <2>1. CASE on(i)
      <3>1. IsBlock(x, V) /\ x.stream = s /\ DOMAIN x.cols \subseteq F
        BY BlockSetMember
      <3>2. IsBlock(ReadBlock(w(i)), V) /\ DOMAIN ReadBlock(w(i)).cols \subseteq F
        BY <2>1 DEF BlockOf
      <3> DEFINE c == AddAll(x, w(i))
      <3>3. IsBlock(c, V) /\ c.stream = s /\ DOMAIN c.cols \subseteq F
        BY <3>1, <3>2, AddAllContents
      <3> QED
        BY <2>1, <3>3, BlockSetMember
    <2>2. CASE ~on(i)
      BY <2>2
    <2> QED
      BY <2>1, <2>2
  <1> HIDE DEF X, Step, b
  <1>3. G \in [(1..n) \X X -> X]
    BY <1>2
  <1> HIDE DEF G
  <1>4. PICK f : Unfolds(f, n, X, b, G)
    BY <1>1, <1>3, Recursion
  <1>5. Loop(f)
    <2>1. f[0] = b /\ \A i \in 1..n : f[i] = G[<<i, f[i - 1]>>] /\ f[i - 1] \in X
      BY <1>4 DEF Unfolds
    <2>2. \A i \in 1..n : f[i] = Step(i, f[i - 1])
      BY <2>1 DEF G
    <2>3. \A i \in 0..n : i = 0 \/ i \in 1..n
      OBVIOUS
    <2>4. \A i \in 0..n : f[i] = IF i = 0 THEN b ELSE Step(i, f[i - 1])
      BY <2>1, <2>2, <2>3, Zenon
    <2>5. [i \in 0..n |-> f[i]] = [i \in 0..n |-> IF i = 0 THEN b ELSE Step(i, f[i - 1])]
      BY <2>4, Zenon
    <2>6. f = [i \in 0..n |-> f[i]]
      BY <1>4 DEF Unfolds
    <2> QED
      BY <2>5, <2>6, Zenon
  <1> DEFINE merged == CHOOSE g : Loop(g)
  <1>6. Loop(merged)
    BY <1>5
  <1>7. MergedBlock(s, inputs) = merged[n]
    BY DEF MergedBlock, Step, Lists, b
  <1> HIDE DEF merged
  <1>8. merged[0] = b /\ \A i \in 1..n : merged[i] = Step(i, merged[i - 1])
    BY <1>6
  <1> QED
    BY <1>7, <1>8 DEF Step, b

(* A block has rows if and only if it holds something.                       *)
LEMMA NonEmptyBlock ==
    ASSUME NEW V, NEW b, IsBlock(b, V)
    PROVE  Len(b.times) > 0 <=> Contents(b) # {}
  <1>1. Len(b.times) \in Nat
    BY DEF IsBlock
  <1>2. ASSUME Len(b.times) > 0 PROVE Row(b, 1) \in Contents(b)
    BY <1>1, <1>2 DEF Contents
  <1>3. ASSUME NEW i \in 1..Len(b.times) PROVE Len(b.times) > 0
    BY <1>1
  <1> QED
    BY <1>2, <1>3 DEF Contents

(* The block a merge makes of a stream holds what the blocks of the stream   *)
(* in its inputs held, and nothing twice unless they did.                    *)
LEMMA MergedContents ==
    ASSUME NEW V, << >> \in V, NEW s, NEW inputs, partSeq \in Nat,
           \A i \in 1..partSeq : Lists(i, s, inputs) => IsBlock(BlockOf(i, s), V)
    PROVE  LET c == MergedBlock(s, inputs)
               L == {i \in 1..partSeq : Lists(i, s, inputs)}
           IN  /\ IsBlock(c, V) /\ c.stream = s /\ InRange(c)
               /\ DOMAIN c.cols \subseteq UNION {DOMAIN BlockOf(i, s).cols : i \in L}
               /\ Contents(c) = UNION {Contents(BlockOf(i, s)) : i \in L}
               /\ (/\ \A i \in L : Once(BlockOf(i, s))
                   /\ \A i, j \in L : i # j =>
                          Contents(BlockOf(i, s)) \cap Contents(BlockOf(j, s)) = {})
                     => Once(c)
  <1> DEFINE n == partSeq
             on(i) == Lists(i, s, inputs)
             Upto(m) == {i \in 1..m : on(i)}
             Cols(m) == UNION {DOMAIN BlockOf(i, s).cols : i \in Upto(m)}
             Rs(m)   == UNION {Contents(BlockOf(i, s)) : i \in Upto(m)}
             Apart   == /\ \A i \in Upto(n) : Once(BlockOf(i, s))
                        /\ \A i, j \in Upto(n) : i # j =>
                               Contents(BlockOf(i, s)) \cap Contents(BlockOf(j, s)) = {}
             Holds(c, m) == /\ IsBlock(c, V) /\ c.stream = s /\ InRange(c)
                            /\ DOMAIN c.cols \subseteq Cols(m) /\ Contents(c) = Rs(m)
                            /\ Apart => Once(c)
  <1>1. PICK merged :
            /\ MergedBlock(s, inputs) = merged[partSeq] /\ merged[0] = NewMemBlock(s)
            /\ \A i \in 1..partSeq :
                   merged[i] = IF Lists(i, s, inputs)
                               THEN AddAll(merged[i - 1], parts[i].dirs[DirOf[s]])
                               ELSE merged[i - 1]
    BY MergedBlockSteps
  <1> DEFINE S == {m \in Nat : m <= n => Holds(merged[m], m)}
  <1>2. 0 \in S
    <2>1. Upto(0) = {}
      OBVIOUS
    <2>2. Rs(0) = {}
      BY <2>1
    <2>3. Holds(NewMemBlock(s), 0)
      BY <2>2, NewBlockEmpty
    <2> QED
      BY <1>1, <2>3
  <1>3. ASSUME NEW m \in Nat, m \in S PROVE m + 1 \in S
    <2> SUFFICES ASSUME m + 1 <= n PROVE Holds(merged[m + 1], m + 1)
      OBVIOUS
    <2> DEFINE b == merged[m]
               d == BlockOf(m + 1, s)
               c == AddAll(b, parts[m + 1].dirs[DirOf[s]])
    <2>1. Holds(b, m) /\ m + 1 \in 1..n
      BY <1>3
    <2>2. CASE on(m + 1)
      <3>1. merged[m + 1] = c
        BY <1>1, <2>1, <2>2
      <3>2. IsBlock(d, V) /\ d = ReadBlock(parts[m + 1].dirs[DirOf[s]])
        BY <2>1, <2>2 DEF BlockOf
      <3>3. Upto(m + 1) = Upto(m) \cup {m + 1}
        BY <1>3, <2>1, <2>2
      <3>4. Cols(m + 1) = Cols(m) \cup DOMAIN d.cols /\ Rs(m + 1) = Rs(m) \cup Contents(d)
        BY <3>3
      <3>5. Apart => Once(d) /\ Rs(m) \cap Contents(d) = {}
        <4> SUFFICES ASSUME Apart PROVE Once(d) /\ Rs(m) \cap Contents(d) = {}
          OBVIOUS
        <4>1. m + 1 \in Upto(n) /\ \A i \in Upto(m) : i \in Upto(n) /\ i # m + 1
          BY <1>3, <2>1, <2>2
        <4>2. \A i \in Upto(m) : Contents(BlockOf(i, s)) \cap Contents(d) = {}
          BY <4>1
        <4> QED
          BY <4>1, <4>2
      <3> HIDE DEF b, d, Cols, Rs, Apart
      <3>6. /\ IsBlock(c, V) /\ c.stream = b.stream
            /\ DOMAIN c.cols \subseteq DOMAIN b.cols \cup DOMAIN d.cols
            /\ Contents(c) = Contents(b) \cup Contents(d)
            /\ InRange(b) => InRange(c)
            /\ Once(b) /\ Once(d) /\ Contents(b) \cap Contents(d) = {} => Once(c)
        BY <2>1, <3>2, AddAllContents
      <3> HIDE DEF c
      <3>7. Holds(c, m + 1)
        BY <2>1, <3>4, <3>5, <3>6
      <3> QED
        BY <3>1, <3>7
    <2>3. CASE ~on(m + 1)
      <3>1. merged[m + 1] = b
        BY <1>1, <2>1, <2>3
      <3>2. Upto(m + 1) = Upto(m)
        BY <1>3, <2>1, <2>3
      <3>3. Cols(m + 1) = Cols(m) /\ Rs(m + 1) = Rs(m)
        BY <3>2
      <3> HIDE DEF b, Cols, Rs, Apart
      <3> QED
        BY <2>1, <3>1, <3>3
    <2> QED
      BY <2>2, <2>3
  <1>4. n \in S
    <2> HIDE DEF S
    <2> QED
      BY <1>2, <1>3, Induction
  <1>5. Holds(merged[n], n)
    BY <1>4
  <1> QED
    BY <1>1, <1>5

-----------------------------------------------------------------------------
(* Names of streams.                                                         *)

TagText(k, fields) == <<k, Equals>> \o fields[k]
Joined(id, k, fields) ==
    IF k \notin DOMAIN fields THEN id
    ELSE IF id = << >> THEN TagText(k, fields)
    ELSE id \o <<Comma>> \o TagText(k, fields)

IsConcat(z, x, y, A) == /\ z \in Seq(A) /\ Len(z) = Len(x) + Len(y)
                        /\ \A i \in 1..Len(x) : z[i] = x[i]
                        /\ \A i \in 1..Len(y) : z[Len(x) + i] = y[i]

(* Concatenation, in the form the lemmas below use it.                       *)
LEMMA ConcatIsText ==
    ASSUME NEW A, NEW x, NEW y, x \in Seq(A), y \in Seq(A)
    PROVE  IsConcat(x \o y, x, y, A)
  BY DEF IsConcat

(* The text of a tag, character by character.                                *)
LEMMA TagTextIsText ==
    ASSUME NEW fields, fields \in [DOMAIN fields -> Seq(Chars) \ {<< >>}],
           NEW k \in DOMAIN fields, k \in Chars
    PROVE  LET t == TagText(k, fields)
           IN  /\ t \in Seq(Chars) /\ Len(t) = 2 + Len(fields[k]) /\ Len(t) > 2
               /\ t[1] = k /\ t[2] = Equals
               /\ \A i \in 1..Len(fields[k]) : t[2 + i] = fields[k][i]
  <1> DEFINE h == <<k, Equals>>
             v == fields[k]
             t == h \o v
  <1>1. h \in Seq(Chars) /\ v \in Seq(Chars) /\ v # << >>
    BY EntriesAssumption
  <1>2. Len(h) = 2 /\ h[1] = k /\ h[2] = Equals
    OBVIOUS
  <1> HIDE DEF h, v
  <1>3. /\ t \in Seq(Chars) /\ Len(t) = Len(h) + Len(v)
        /\ \A i \in 1..Len(h) : t[i] = h[i]
        /\ \A i \in 1..Len(v) : t[Len(h) + i] = v[i]
    BY <1>1, ConcatIsText DEF IsConcat
  <1> HIDE DEF t
  <1>4. Len(v) \in Nat /\ Len(v) # 0
    BY <1>1
  <1>5. t[1] = k /\ t[2] = Equals
    BY <1>2, <1>3
  <1>6. \A i \in 1..Len(v) : t[2 + i] = v[i]
    BY <1>2, <1>3
  <1> QED
    BY <1>2, <1>3, <1>4, <1>5, <1>6 DEF TagText, h, v, t

(* The loop of StreamID, field by field.                                     *)
LEMMA StreamIDSteps ==
    ASSUME NEW fields, fields \in [DOMAIN fields -> Seq(Chars) \ {<< >>}]
    PROVE  LET n == Len(StreamFields)
           IN  \E id : /\ StreamID(fields) = IF id[n] = << >> THEN Default ELSE id[n]
                       /\ id[0] = << >>
                       /\ \A i \in 1..n : id[i] = Joined(id[i - 1], StreamFields[i], fields)
  <1> DEFINE n == Len(StreamFields)
             X == Seq(Chars)
             b == << >>
             Step(i, x) == Joined(x, StreamFields[i], fields)
             G == [p \in (1..n) \X X |-> Step(p[1], p[2])]
             Loop(f) == f = [i \in 0..n |-> IF i = 0 THEN b ELSE Step(i, f[i - 1])]
  <1>1. b \in X /\ n \in Nat /\ StreamFields \in Seq(Chars)
    BY EntriesAssumption
  <1>2. ASSUME NEW i \in 1..n, NEW x \in X PROVE Step(i, x) \in X
    <2> DEFINE k == StreamFields[i]
               t == TagText(k, fields)
    <2>1. k \in Chars /\ Comma \in Chars
      BY <1>1, EntriesAssumption
    <2> HIDE DEF k
    <2>2. k \in DOMAIN fields => t \in Seq(Chars)
      BY <2>1, TagTextIsText
    <2> HIDE DEF t
    <2>3. k \in DOMAIN fields => x \o <<Comma>> \o t \in Seq(Chars)
      BY <2>1, <2>2
    <2> QED
      BY <2>2, <2>3 DEF Joined, k, t
  <1> HIDE DEF Step, b, n
  <1>3. G \in [(1..n) \X X -> X]
    BY <1>2
  <1> HIDE DEF G, X
  <1>4. PICK f : Unfolds(f, n, X, b, G)
    BY <1>1, <1>3, Recursion
  <1>5. Loop(f)
    <2>1. f[0] = b /\ \A i \in 1..n : f[i] = G[<<i, f[i - 1]>>] /\ f[i - 1] \in X
      BY <1>1, <1>4 DEF Unfolds
    <2>2. \A i \in 1..n : f[i] = Step(i, f[i - 1])
      BY <2>1 DEF G
    <2>3. \A i \in 0..n : i = 0 \/ i \in 1..n
      BY <1>1
    <2>4. \A i \in 0..n : f[i] = IF i = 0 THEN b ELSE Step(i, f[i - 1])
      BY <2>1, <2>2, <2>3, Zenon
    <2>5. [i \in 0..n |-> f[i]] = [i \in 0..n |-> IF i = 0 THEN b ELSE Step(i, f[i - 1])]
      BY <2>4, Zenon
    <2>6. f = [i \in 0..n |-> f[i]]
      BY <1>4 DEF Unfolds
    <2> QED
      BY <2>5, <2>6, Zenon
  <1> DEFINE id == CHOOSE g : Loop(g)
  <1>6. Loop(id)
    BY <1>5
  <1>7. StreamID(fields) = IF id[n] = << >> THEN Default ELSE id[n]
    BY DEF StreamID, Step, Joined, TagText, b, n
  <1> HIDE DEF id
  <1>8. id[0] = b /\ \A i \in 1..n : id[i] = Step(i, id[i - 1])
    <2>1. \A i \in 0..n : id[i] = IF i = 0 THEN b ELSE Step(i, id[i - 1])
      BY <1>6
    <2>2. 0 \in 0..n /\ \A i \in 1..n : i \in 0..n /\ i # 0
      BY <1>1
    <2> QED
      BY <2>1, <2>2, Zenon
  <1> QED
    BY <1>7, <1>8 DEF Step, b, n

(* Where a stream id is cut, and the parts between cuts.                     *)
Cuts(id) == {i \in DOMAIN id : id[i] = Comma} \cup {0, Len(id) + 1}
Between(C) ==
    UNION {{<<i + 1, j - 1>> : j \in {m \in C : i < m /\ \A n \in C : n <= i \/ n >= m}} : i \in C}

(* N is a cut after all those of C, the last of which is M.                  *)
NextCut(C, M, N) == /\ C \subseteq Nat /\ M \in C /\ \A i \in C : i <= M
                    /\ N \in Nat /\ M < N

(* A cut more gives one part more: the one that ends there.                  *)
LEMMA OneMoreCut ==
    ASSUME NEW C, NEW M, NEW N, NextCut(C, M, N)
    PROVE  Between(C \cup {N}) = Between(C) \cup {<<M + 1, N - 1>>}
  <1> USE DEF NextCut
  <1> DEFINE D == C \cup {N}
             Adj(S, i, m) == i < m /\ \A n \in S : n <= i \/ n >= m
  <1>1. \A i, m \in C : Adj(D, i, m) <=> Adj(C, i, m)
    OBVIOUS
  <1>2. \A i \in C : Adj(D, i, N) <=> i = M
    OBVIOUS
  <1>3. \A m \in D : ~Adj(D, N, m)
    OBVIOUS
  <1>4. ASSUME NEW S PROVE \A p : p \in Between(S) <=> \E i, m \in S : Adj(S, i, m) /\ p = <<i + 1, m - 1>>
    BY DEF Between
  <1>5. \A p : p \in Between(D) <=> \E i, m \in D : Adj(D, i, m) /\ p = <<i + 1, m - 1>>
    BY <1>4
  <1>6. \A p : p \in Between(C) <=> \E i, m \in C : Adj(C, i, m) /\ p = <<i + 1, m - 1>>
    BY <1>4
  <1> HIDE DEF Adj
  <1>7. ASSUME NEW p \in Between(D) PROVE p \in Between(C) \/ p = <<M + 1, N - 1>>
    <2>1. PICK i \in D, m \in D : Adj(D, i, m) /\ p = <<i + 1, m - 1>>
      BY <1>5, <1>7
    <2> QED
      BY <1>1, <1>2, <1>3, <1>6, <2>1
  <1>8. ASSUME NEW p \in Between(C) PROVE p \in Between(D)
    <2>1. PICK i \in C, m \in C : Adj(C, i, m) /\ p = <<i + 1, m - 1>>
      BY <1>6, <1>8
    <2> QED
      BY <1>1, <1>5, <2>1
  <1>9. <<M + 1, N - 1>> \in Between(D)
    BY <1>2, <1>5
  <1> QED
    BY <1>7, <1>8, <1>9

(* ParseStreamTags splits an id at its cuts.                                 *)
LEMMA PartsAreBetweenCuts == \A id : PartsOf(id) = Between(Cuts(id))
  BY DEF PartsOf, Between, Cuts

(* The parts of a text without commas, and those of an id with a tag more.   *)
LEMMA OnePart ==
    ASSUME NEW t \in Seq(Chars), \A i \in 1..Len(t) : t[i] # Comma
    PROVE  PartsOf(t) = {<<1, Len(t)>>}
  <1>1. Len(t) \in Nat /\ DOMAIN t = 1..Len(t)
    OBVIOUS
  <1>2. Cuts(t) = {0} \cup {Len(t) + 1}
    BY <1>1 DEF Cuts
  <1>3. Between({0}) = {}
    BY DEF Between
  <1> DEFINE C == {0}
             M == 0
             N == Len(t) + 1
  <1>4. /\ C \subseteq Nat /\ M \in C /\ \A i \in C : i <= M
        /\ N \in Nat /\ M < N /\ M + 1 = 1 /\ N - 1 = Len(t)
    BY <1>1
  <1>5. Cuts(t) = C \cup {N} /\ Between(C) = {}
    BY <1>2, <1>3
  <1> HIDE DEF C, M, N
  <1>6. Between(C \cup {N}) = Between(C) \cup {<<M + 1, N - 1>>}
    BY ZenonT(60), <1>4, OneMoreCut DEF NextCut
  <1> QED
    BY <1>4, <1>5, <1>6, PartsAreBetweenCuts

(* A comma and a text without commas add one part, and keep those before it. *)
LEMMA OneMorePart ==
    ASSUME NEW x \in Seq(Chars), NEW t \in Seq(Chars), \A i \in 1..Len(t) : t[i] # Comma
    PROVE  LET y == x \o <<Comma>> \o t
           IN  /\ y \in Seq(Chars) /\ Len(y) = Len(x) + 1 + Len(t)
               /\ \A i \in 1..Len(x) : y[i] = x[i]
               /\ \A i \in 1..Len(t) : y[Len(x) + 1 + i] = t[i]
               /\ PartsOf(y) = PartsOf(x) \cup {<<Len(x) + 2, Len(y)>>}
  <1> DEFINE c == <<Comma>>
             xc == x \o c
             y  == xc \o t
  <1>1. c \in Seq(Chars) /\ Len(c) = 1 /\ c[1] = Comma
    BY EntriesAssumption
  <1> HIDE DEF c
  <1>2. IsConcat(xc, x, c, Chars)
    BY <1>1, ConcatIsText
  <1> HIDE DEF xc
  <1>3. xc \in Seq(Chars)
    BY <1>2 DEF IsConcat
  <1>a. IsConcat(y, xc, t, Chars)
    BY <1>3, ConcatIsText
  <1> HIDE DEF y
  <1>4. Len(x) \in Nat /\ Len(t) \in Nat /\ DOMAIN y = 1..Len(y) /\ DOMAIN x = 1..Len(x)
    BY <1>a DEF IsConcat
  <1>5. Len(xc) = Len(x) + 1 /\ xc[Len(x) + 1] = Comma
    BY <1>1, <1>2, <1>4 DEF IsConcat
  <1>6. /\ Len(y) = Len(x) + 1 + Len(t)
        /\ \A i \in 1..Len(x) : y[i] = x[i]
        /\ y[Len(x) + 1] = Comma
        /\ \A i \in 1..Len(t) : y[Len(x) + 1 + i] = t[i]
    <2>1. \A i \in 1..Len(x) : i \in 1..Len(xc)
      BY <1>4, <1>5
    <2>2. Len(x) + 1 \in 1..Len(xc)
      BY <1>4, <1>5
    <2> QED
      BY <1>2, <1>a, <1>5, <2>1, <2>2 DEF IsConcat
  <1>7. Cuts(y) = Cuts(x) \cup {Len(y) + 1}
    <2>1. ASSUME NEW i \in 1..Len(y), y[i] = Comma PROVE i \in Cuts(x)
      <3>1. CASE i \in 1..Len(x)
        BY <1>4, <1>6, <2>1, <3>1 DEF Cuts
      <3>2. CASE i = Len(x) + 1
        BY <3>2 DEF Cuts
      <3>3. CASE i > Len(x) + 1
        <4> DEFINE j == i - (Len(x) + 1)
        <4>1. j \in 1..Len(t) /\ i = Len(x) + 1 + j
          BY <1>4, <1>6, <3>3
        <4>2. y[i] = t[j]
          BY <1>6, <4>1
        <4> QED
          BY <2>1, <4>1, <4>2
      <3> QED
        BY <1>4, <3>1, <3>2, <3>3
    <2>2. ASSUME NEW i \in Cuts(x) PROVE i \in Cuts(y)
      BY <1>4, <1>6 DEF Cuts
    <2> QED
      BY <1>4, <2>1, <2>2 DEF Cuts
  <1>8. PartsOf(y) = PartsOf(x) \cup {<<Len(x) + 2, Len(y)>>}
    <2> DEFINE C == Cuts(x)
               M == Len(x) + 1
               N == Len(y) + 1
    <2>1. C \subseteq Nat /\ M \in C /\ \A i \in C : i <= M
      BY <1>4 DEF Cuts
    <2>2. N \in Nat /\ M < N /\ M + 1 = Len(x) + 2 /\ N - 1 = Len(y)
      BY <1>4, <1>6
    <2>3. PartsOf(y) = Between(C \cup {N}) /\ PartsOf(x) = Between(C)
      BY <1>7, PartsAreBetweenCuts
    <2> HIDE DEF C, M, N
    <2>4. NextCut(C, M, N)
      BY <2>1, <2>2 DEF NextCut
    <2>5. Between(C \cup {N}) = Between(C) \cup {<<M + 1, N - 1>>}
      BY <2>4, OneMoreCut
    <2> QED
      BY <2>2, <2>3, <2>5
  <1> QED
    BY <1>a, <1>6, <1>8 DEF IsConcat, y, xc, c

(* The part p of a stream id is the tag of k with the value v.               *)
IsTag(id, p, k, v) == /\ p[1] \in Nat \ {0} /\ p[2] = p[1] + 1 + Len(v) /\ p[2] <= Len(id)
                      /\ id[p[1]] = k /\ id[p[1] + 1] = Equals
                      /\ \A m \in 1..Len(v) : id[p[1] + 1 + m] = v[m]

(* The parts of id are the tags of the fields K, each once.                  *)
Tagged(id, K, fields) ==
    /\ id \in Seq(Chars)
    /\ \A p \in PartsOf(id) : \E k \in K : IsTag(id, p, k, fields[k])
    /\ \A k \in K : \E p \in PartsOf(id) : IsTag(id, p, k, fields[k])
    /\ \A p, o \in PartsOf(id) : id[p[1]] = id[o[1]] => p = o

NoComma(k, fields) == /\ k \in Chars \ {Comma, Equals} /\ k \in DOMAIN fields
                      /\ \A i \in 1..Len(fields[k]) : fields[k][i] # Comma

(* A tag is one part if its value has no comma.                              *)
LEMMA TagTextHasNoComma ==
    ASSUME NEW fields, fields \in [DOMAIN fields -> Seq(Chars) \ {<< >>}],
           NEW k, NoComma(k, fields)
    PROVE  LET t == TagText(k, fields)
           IN  t \in Seq(Chars) /\ \A i \in 1..Len(t) : t[i] # Comma
  <1> DEFINE t == TagText(k, fields)
             v == fields[k]
  <1>1. k \in Chars /\ k \in DOMAIN fields /\ k # Comma /\ \A i \in 1..Len(v) : v[i] # Comma
    BY DEF NoComma
  <1>2. /\ t \in Seq(Chars) /\ Len(t) = 2 + Len(v) /\ t[1] = k /\ t[2] = Equals
        /\ \A i \in 1..Len(v) : t[2 + i] = v[i]
    BY <1>1, TagTextIsText
  <1>3. Len(v) \in Nat
    BY <1>1
  <1> HIDE DEF t, v
  <1>4. ASSUME NEW i \in 1..Len(t) PROVE t[i] # Comma
    <2>1. CASE i = 1 \/ i = 2
      BY <1>1, <1>2, <2>1, EntriesAssumption
    <2>2. CASE i > 2
      <3>1. i - 2 \in 1..Len(v) /\ 2 + (i - 2) = i
        BY <1>2, <1>3, <2>2
      <3> QED
        BY <1>1, <1>2, <3>1
    <2> QED
      BY <1>2, <1>3, <2>1, <2>2
  <1> QED
    BY <1>2, <1>4 DEF t

(* An id of one tag.                                                         *)
LEMMA FirstTag ==
    ASSUME NEW fields, fields \in [DOMAIN fields -> Seq(Chars) \ {<< >>}],
           NEW k, NoComma(k, fields)
    PROVE  Tagged(TagText(k, fields), {k}, fields) /\ TagText(k, fields) # << >>
  <1> DEFINE t == TagText(k, fields)
             v == fields[k]
             p == <<1, Len(t)>>
  <1>1. k \in DOMAIN fields /\ k \in Chars
    BY DEF NoComma
  <1>2. /\ t \in Seq(Chars) /\ Len(t) = 2 + Len(v) /\ t[1] = k /\ t[2] = Equals
        /\ \A i \in 1..Len(v) : t[2 + i] = v[i]
    BY <1>1, TagTextIsText
  <1>3. Len(v) \in Nat
    BY <1>1
  <1>4. \A i \in 1..Len(t) : t[i] # Comma
    BY TagTextHasNoComma
  <1> HIDE DEF t, v
  <1>5. PartsOf(t) = {p}
    BY <1>2, <1>4, OnePart
  <1>6. IsTag(t, p, k, v)
    BY <1>2, <1>3 DEF IsTag
  <1>7. t # << >>
    BY <1>2, <1>3
  <1> QED
    BY <1>2, <1>5, <1>6, <1>7 DEF Tagged, t, v

(* An id with a tag more.                                                    *)
LEMMA NextTag ==
    ASSUME NEW fields, fields \in [DOMAIN fields -> Seq(Chars) \ {<< >>}],
           NEW k, NoComma(k, fields), NEW K, K \subseteq DOMAIN fields, k \notin K,
           NEW x, Tagged(x, K, fields)
    PROVE  Tagged(x \o <<Comma>> \o TagText(k, fields), K \cup {k}, fields)
  <1> DEFINE t == TagText(k, fields)
             v == fields[k]
             y == x \o <<Comma>> \o t
             p == <<Len(x) + 2, Len(y)>>
  <1>1. k \in DOMAIN fields /\ k \in Chars
    BY DEF NoComma
  <1>2. /\ t \in Seq(Chars) /\ Len(t) = 2 + Len(v) /\ t[1] = k /\ t[2] = Equals
        /\ \A i \in 1..Len(v) : t[2 + i] = v[i]
    BY <1>1, TagTextIsText
  <1>3. Len(v) \in Nat /\ Len(x) \in Nat /\ x \in Seq(Chars)
    BY <1>1 DEF Tagged
  <1>4. \A i \in 1..Len(t) : t[i] # Comma
    BY TagTextHasNoComma
  <1>5. \A j \in DOMAIN fields : Len(fields[j]) \in Nat
    OBVIOUS
  <1> HIDE DEF t
  <1>6. /\ y \in Seq(Chars) /\ Len(y) = Len(x) + 1 + Len(t)
        /\ \A i \in 1..Len(x) : y[i] = x[i]
        /\ \A i \in 1..Len(t) : y[Len(x) + 1 + i] = t[i]
        /\ PartsOf(y) = PartsOf(x) \cup {p}
    BY <1>2, <1>3, <1>4, OneMorePart
  <1> HIDE DEF v, y
  <1>7. IsTag(y, p, k, v)
    <2>1. y[Len(x) + 2] = k /\ y[Len(x) + 3] = Equals
      <3>1. 1 \in 1..Len(t) /\ 2 \in 1..Len(t)
        BY <1>2, <1>3
      <3>2. y[Len(x) + 1 + 1] = t[1] /\ y[Len(x) + 1 + 2] = t[2]
        BY <1>6, <3>1
      <3>3. Len(x) + 1 + 1 = Len(x) + 2 /\ Len(x) + 1 + 2 = Len(x) + 3
        BY <1>3
      <3> QED
        BY <1>2, <3>2, <3>3
    <2>2. ASSUME NEW m \in 1..Len(v) PROVE y[Len(x) + 2 + 1 + m] = v[m]
      <3>1. 2 + m \in 1..Len(t) /\ Len(x) + 1 + (2 + m) = Len(x) + 2 + 1 + m
        BY <1>2, <1>3
      <3>2. y[Len(x) + 1 + (2 + m)] = t[2 + m]
        BY <1>6, <3>1
      <3> QED
        BY <1>2, <3>1, <3>2
    <2>3. p[1] = Len(x) + 2 /\ p[2] = Len(x) + 3 + Len(v) /\ p[2] = Len(y)
      BY <1>2, <1>3, <1>6
    <2>4. Len(x) + 2 + 1 = Len(x) + 3
      BY <1>3
    <2> HIDE DEF p
    <2> QED
      BY <1>3, <2>1, <2>2, <2>3, <2>4 DEF IsTag
  <1>8. ASSUME NEW o, NEW j \in K, IsTag(x, o, j, fields[j])
        PROVE  IsTag(y, o, j, fields[j]) /\ y[o[1]] = j
    <2>1. /\ o[1] \in Nat \ {0} /\ o[2] = o[1] + 1 + Len(fields[j]) /\ o[2] <= Len(x)
          /\ x[o[1]] = j /\ x[o[1] + 1] = Equals
          /\ \A m \in 1..Len(fields[j]) : x[o[1] + 1 + m] = fields[j][m]
      BY <1>8 DEF IsTag
    <2>2. Len(fields[j]) \in Nat
      BY <1>5
    <2>3. /\ o[1] \in 1..Len(x) /\ o[1] + 1 \in 1..Len(x)
          /\ \A m \in 1..Len(fields[j]) : o[1] + 1 + m \in 1..Len(x)
      BY SMTT(40), <1>3, <2>1, <2>2
    <2>4. y[o[1]] = j /\ y[o[1] + 1] = Equals
      BY <1>6, <2>1, <2>3
    <2>5. \A m \in 1..Len(fields[j]) : y[o[1] + 1 + m] = fields[j][m]
      BY <1>6, <2>1, <2>3
    <2>6. o[2] <= Len(y)
      BY <1>2, <1>3, <1>6, <2>1, <2>2
    <2> QED
      BY <2>1, <2>4, <2>5, <2>6 DEF IsTag
  <1>9. /\ \A o \in PartsOf(x) : \E j \in K : IsTag(x, o, j, fields[j])
        /\ \A j \in K : \E o \in PartsOf(x) : IsTag(x, o, j, fields[j])
        /\ \A o, r \in PartsOf(x) : x[o[1]] = x[r[1]] => o = r
    BY DEF Tagged
  <1>10. y[p[1]] = k
    BY <1>7 DEF IsTag
  <1>11. \A o \in PartsOf(x) : y[o[1]] \in K /\ y[o[1]] = x[o[1]]
    <2> TAKE o \in PartsOf(x)
    <2>1. PICK j \in K : IsTag(x, o, j, fields[j])
      BY <1>9
    <2>2. x[o[1]] = j
      BY <2>1 DEF IsTag
    <2> QED
      BY <1>8, <2>1, <2>2
  <1>12. \A o \in PartsOf(y) : \E j \in K \cup {k} : IsTag(y, o, j, fields[j])
    <2> TAKE o \in PartsOf(y)
    <2>1. CASE o = p
      BY <1>7, <2>1 DEF v
    <2>2. CASE o \in PartsOf(x)
      <3>1. PICK j \in K : IsTag(x, o, j, fields[j])
        BY <1>9, <2>2
      <3> QED
        BY <1>8, <3>1
    <2> QED
      BY <1>6, <2>1, <2>2
  <1>13. \A j \in K \cup {k} : \E o \in PartsOf(y) : IsTag(y, o, j, fields[j])
    BY <1>6, <1>7, <1>8, <1>9 DEF v
  <1>14. \A o, r \in PartsOf(y) : y[o[1]] = y[r[1]] => o = r
    <2> HIDE DEF p
    <2> QED
      BY <1>6, <1>9, <1>10, <1>11
  <1> QED
    BY <1>6, <1>12, <1>13, <1>14 DEF Tagged, y, t

(* A tag is read back from an id by the name of its field.                   *)
LEMMA TagReadsBack ==
    ASSUME NEW fields, fields \in [DOMAIN fields -> Seq(Chars) \ {<< >>}],
           NEW K, K \subseteq DOMAIN fields, NEW id, Tagged(id, K, fields), NEW k
    PROVE  TagOf(id, k) = IF k \in K THEN fields[k] ELSE << >>
  <1> DEFINE hits == {p \in PartsOf(id) : p[1] < p[2] /\ id[p[1]] = k /\ id[p[1] + 1] = Equals}
  <1>1. CASE k \in K
    <2> DEFINE v == fields[k]
    <2>1. PICK p \in PartsOf(id) : IsTag(id, p, k, v)
      BY <1>1 DEF Tagged
    <2>2. v \in Seq(Chars) /\ Len(v) \in Nat
      BY <1>1
    <2> HIDE DEF v
    <2>3. /\ p[1] \in Nat \ {0} /\ p[2] = p[1] + 1 + Len(v)
          /\ id[p[1]] = k /\ id[p[1] + 1] = Equals
          /\ \A m \in 1..Len(v) : id[p[1] + 1 + m] = v[m]
      BY <2>1 DEF IsTag
    <2>4. p \in hits
      BY <2>1, <2>2, <2>3
    <2>5. \A o \in hits : o = p
      BY <2>3 DEF Tagged
    <2> DEFINE last == CHOOSE o \in hits : \A r \in hits : r[1] <= o[1]
    <2>6. p[1] <= p[1]
      BY <2>3
    <2>7. \E o \in hits : \A r \in hits : r[1] <= o[1]
      BY <2>4, <2>5, <2>6
    <2>8. last \in hits
      BY <2>7
    <2>9. last = p
      BY SMTT(40), <2>5, <2>8
    <2>10. TagOf(id, k) = SubSeq(id, p[1] + 2, p[2])
      <3>1. hits # {}
        BY <2>4
      <3>2. TagOf(id, k) = SubSeq(id, last[1] + 2, last[2])
        BY <3>1 DEF TagOf
      <3> QED
        BY <2>9, <3>2
    <2>11. SubSeq(id, p[1] + 2, p[2]) = v
      <3> DEFINE a == p[1] + 2
                 c == p[2]
                 u == SubSeq(id, a, c)
      <3>1. /\ id \in Seq(Chars) /\ p[2] <= Len(id) /\ Len(id) \in Nat
            /\ a \in Nat /\ c \in Nat /\ 1 <= a /\ c <= Len(id) /\ c - a + 1 = Len(v)
        <4>1. id \in Seq(Chars)
          BY DEF Tagged
        <4>2. p[2] <= Len(id)
          BY <2>1 DEF IsTag
        <4>3. Len(id) \in Nat
          BY <4>1
        <4>4. p[1] \in Nat \ {0} /\ p[2] = p[1] + 1 + Len(v)
          BY <2>3
        <4>5. Len(v) \in Nat
          BY <2>2
        <4>6. a \in Nat /\ 1 <= a
          BY <4>4
        <4>7. c \in Nat /\ c - a + 1 = Len(v)
          <5> DEFINE x == p[1]
                     y == p[2]
                     n == Len(v)
          <5>1. x \in Nat /\ n \in Nat /\ y = x + 1 + n
            BY <4>4, <4>5
          <5> HIDE DEF x, y, n
          <5>2. y \in Nat /\ y - (x + 2) + 1 = n
            BY <5>1
          <5> QED
            BY <5>2 DEF x, y, n
        <4> QED
          BY <4>1, <4>2, <4>3, <4>6, <4>7
      <3> HIDE DEF a, c
      <3>2. /\ u \in Seq(Chars) /\ Len(u) = Len(v)
            /\ \A i \in 1..Len(v) : u[i] = id[a + i - 1]
        BY <2>2, <3>1
      <3>3. \A i \in 1..Len(v) : a + i - 1 = p[1] + 1 + i
        BY <2>2, <2>3 DEF a
      <3>4. \A i \in 1..Len(v) : u[i] = v[i]
        BY <2>3, <3>2, <3>3
      <3> HIDE DEF u
      <3>5. u = [i \in 1..Len(v) |-> u[i]] /\ v = [i \in 1..Len(v) |-> v[i]]
        BY <2>2, <3>2
      <3>6. u = v
        BY <3>4, <3>5
      <3> QED
        BY <3>6 DEF u, a, c
    <2> QED
      BY <1>1, <2>10, <2>11 DEF v
  <1>2. CASE k \notin K
    <2>1. ASSUME NEW p \in hits PROVE FALSE
      <3>1. PICK j \in K : IsTag(id, p, j, fields[j])
        BY DEF Tagged
      <3>2. id[p[1]] = j
        BY <3>1 DEF IsTag
      <3> QED
        BY <1>2, <3>2
    <2>2. hits = {}
      BY <2>1
    <2> QED
      BY <1>2, <2>2 DEF TagOf
  <1> QED
    BY <1>1, <1>2

(* Every stream has a name.                                                  *)
LEMMA StreamIDIsText ==
    ASSUME NEW fields, fields \in [DOMAIN fields -> Seq(Chars) \ {<< >>}]
    PROVE  StreamID(fields) \in Seq(Chars) \ {<< >>}
  <1> DEFINE n == Len(StreamFields)
  <1>1. n \in Nat /\ \A i \in 1..n : StreamFields[i] \in Chars
    BY EntriesAssumption
  <1>2. PICK id : /\ StreamID(fields) = IF id[n] = << >> THEN Default ELSE id[n]
                  /\ id[0] = << >>
                  /\ \A i \in 1..n : id[i] = Joined(id[i - 1], StreamFields[i], fields)
    BY StreamIDSteps
  <1> DEFINE S == {i \in Nat : i <= n => id[i] \in Seq(Chars)}
  <1>3. 0 \in S
    <2>1. << >> \in Seq(Chars) /\ id[0] = << >>
      BY <1>2
    <2> QED
      BY <2>1
  <1>4. ASSUME NEW i \in Nat, i \in S PROVE i + 1 \in S
    <2> SUFFICES ASSUME i + 1 <= n PROVE id[i + 1] \in Seq(Chars)
      OBVIOUS
    <2> DEFINE k == StreamFields[i + 1]
               t == TagText(k, fields)
               x == id[i]
    <2>1. i + 1 \in 1..n /\ (i + 1) - 1 = i /\ x \in Seq(Chars)
      BY <1>1, <1>4
    <2>2. id[i + 1] = Joined(id[(i + 1) - 1], StreamFields[i + 1], fields)
      BY <1>2, <2>1
    <2>3. id[i + 1] = Joined(x, k, fields)
      BY <2>1, <2>2
    <2>4. k \in Chars /\ Comma \in Chars
      BY <1>1, <2>1, EntriesAssumption
    <2> HIDE DEF k, x
    <2>5. k \in DOMAIN fields => t \in Seq(Chars)
      BY <2>4, TagTextIsText
    <2> HIDE DEF t
    <2>6. k \in DOMAIN fields => x \o <<Comma>> \o t \in Seq(Chars)
      BY <2>1, <2>4, <2>5
    <2> QED
      BY <2>1, <2>3, <2>5, <2>6 DEF Joined, t
  <1>5. n \in S
    <2> HIDE DEF S
    <2> QED
      BY <1>1, <1>3, <1>4, Induction
  <1>6. id[n] \in Seq(Chars)
    BY <1>1, <1>5
  <1> HIDE DEF n
  <1> QED
    BY <1>2, <1>6, EntriesAssumption

(* The name of a stream without stream fields has no tags.                   *)
LEMMA DefaultHasNoTags ==
    ASSUME NEW k
    PROVE  TagOf(Default, k) = << >>
  <1> DEFINE hits == {p \in PartsOf(Default) : p[1] < p[2] /\ Default[p[1]] = k
                                               /\ Default[p[1] + 1] = Equals}
  <1>1. Default \in Seq(Chars) /\ Len(Default) \in Nat /\ DOMAIN Default = 1..Len(Default)
    BY EntriesAssumption
  <1>2. \A i \in 1..Len(Default) : Default[i] # Comma /\ Default[i] # Equals
    BY <1>1, EntriesAssumption DEF ToSet
  <1>3. PartsOf(Default) = {<<1, Len(Default)>>}
    BY <1>1, <1>2, OnePart
  <1>4. ASSUME NEW p \in hits PROVE FALSE
    <2>1. p[1] = 1 /\ p[2] = Len(Default)
      BY <1>3
    <2>2. 2 \in 1..Len(Default) /\ Default[2] = Equals
      BY <1>1, <2>1
    <2> QED
      BY <1>2, <2>2
  <1>5. hits = {}
    BY <1>4
  <1> QED
    BY <1>5 DEF TagOf

(* The name of a stream has the values of its rows' stream fields as tags,   *)
(* unless one of the values has a comma.                                     *)
LEMMA StreamIDTags ==
    ASSUME NEW fields, fields \in [DOMAIN fields -> Seq(Chars) \ {<< >>}],
           \A k \in ToSet(StreamFields) \cap DOMAIN fields : Comma \notin ToSet(fields[k]),
           NEW k \in ToSet(StreamFields)
    PROVE  TagOf(StreamID(fields), k) = IF k \in DOMAIN fields THEN fields[k] ELSE << >>
  <1> DEFINE n == Len(StreamFields)
             Keys(i) == {StreamFields[j] : j \in 1..i} \cap DOMAIN fields
             Holds(x, i) == \/ Keys(i) = {} /\ x = << >>
                            \/ Keys(i) # {} /\ x # << >> /\ Tagged(x, Keys(i), fields)
  <1>1. /\ n \in Nat /\ DOMAIN StreamFields = 1..n
        /\ \A i \in 1..n : StreamFields[i] \in Chars
        /\ \A i, j \in 1..n : StreamFields[i] = StreamFields[j] => i = j
    BY EntriesAssumption DEF IsInjective
  <1>2. ASSUME NEW i \in 1..n, StreamFields[i] \in DOMAIN fields
        PROVE  NoComma(StreamFields[i], fields)
    <2> DEFINE j == StreamFields[i]
    <2>1. j \in ToSet(StreamFields) /\ j \in Chars
      BY <1>1 DEF ToSet
    <2>2. j # Comma /\ j # Equals
      BY <2>1, EntriesAssumption
    <2> HIDE DEF j
    <2>3. fields[j] \in Seq(Chars) /\ Comma \notin ToSet(fields[j])
      BY <1>2, <2>1 DEF j
    <2>4. \A m \in 1..Len(fields[j]) : fields[j][m] # Comma
      BY <2>3 DEF ToSet
    <2> QED
      BY <1>2, <2>1, <2>2, <2>4 DEF NoComma, j
  <1>3. PICK id : /\ StreamID(fields) = IF id[n] = << >> THEN Default ELSE id[n]
                  /\ id[0] = << >>
                  /\ \A i \in 1..n : id[i] = Joined(id[i - 1], StreamFields[i], fields)
    BY StreamIDSteps
  <1> DEFINE S == {i \in Nat : i <= n => Holds(id[i], i)}
  <1>4. 0 \in S
    <2>1. Keys(0) = {}
      OBVIOUS
    <2> QED
      BY <1>3, <2>1
  <1>5. ASSUME NEW i \in Nat, i \in S PROVE i + 1 \in S
    <2> SUFFICES ASSUME i + 1 <= n PROVE Holds(id[i + 1], i + 1)
      OBVIOUS
    <2> DEFINE j == StreamFields[i + 1]
               x == id[i]
               K == Keys(i)
    <2>1. i + 1 \in 1..n /\ (i + 1) - 1 = i /\ Holds(x, i)
      BY <1>1, <1>5
    <2>2. id[i + 1] = Joined(id[(i + 1) - 1], StreamFields[i + 1], fields)
      BY <1>3, <2>1
    <2>3. id[i + 1] = Joined(x, j, fields)
      BY <2>1, <2>2
    <2>4. Keys(i + 1) = K \cup ({j} \cap DOMAIN fields)
      <3>1. 1..(i + 1) = (1..i) \cup {i + 1}
        BY <1>5
      <3> QED
        BY <3>1
    <2>5. j \notin K
      <3>1. \A m \in 1..i : m \in 1..n /\ m # i + 1
        BY <1>1, <1>5, <2>1
      <3> QED
        BY <1>1, <2>1, <3>1
    <2>6. j \in DOMAIN fields => NoComma(j, fields)
      BY <1>2, <2>1
    <2>7. K \subseteq DOMAIN fields
      OBVIOUS
    <2>8. \/ K = {} /\ x = << >>
          \/ K # {} /\ x # << >> /\ Tagged(x, K, fields)
      BY <2>1
    <2> HIDE DEF j, x, K, Keys
    <2>9. CASE j \notin DOMAIN fields
      <3>1. id[i + 1] = x /\ Keys(i + 1) = K
        BY <2>3, <2>4, <2>9 DEF Joined
      <3> QED
        BY <2>8, <3>1
    <2>10. CASE j \in DOMAIN fields /\ x = << >>
      <3>1. id[i + 1] = TagText(j, fields) /\ Keys(i + 1) = {j}
        BY <2>3, <2>4, <2>8, <2>10 DEF Joined
      <3>2. Tagged(TagText(j, fields), {j}, fields) /\ TagText(j, fields) # << >>
        BY <2>6, <2>10, FirstTag
      <3> QED
        BY <3>1, <3>2
    <2>11. CASE j \in DOMAIN fields /\ x # << >>
      <3> DEFINE y == x \o <<Comma>> \o TagText(j, fields)
      <3>1. id[i + 1] = y /\ Keys(i + 1) = K \cup {j}
        BY <2>3, <2>4, <2>11 DEF Joined
      <3>2. Tagged(y, K \cup {j}, fields)
        BY <2>5, <2>6, <2>7, <2>8, <2>11, NextTag
      <3> HIDE DEF y
      <3>3. y # << >>
        <4>1. PICK p \in PartsOf(y) : IsTag(y, p, j, fields[j])
          BY <3>2 DEF Tagged
        <4>2. p[1] \in Nat \ {0} /\ p[2] = p[1] + 1 + Len(fields[j]) /\ p[2] <= Len(y)
          BY <4>1 DEF IsTag
        <4>3. Len(fields[j]) \in Nat
          BY <2>11
        <4>4. Len(y) # 0
          BY <3>2, <4>2, <4>3 DEF Tagged
        <4> QED
          BY <4>4
      <3> QED
        BY <3>1, <3>2, <3>3
    <2> QED
      BY <2>9, <2>10, <2>11
  <1>6. n \in S
    <2> HIDE DEF S
    <2> QED
      BY <1>1, <1>4, <1>5, Induction
  <1>7. Holds(id[n], n)
    BY <1>1, <1>6
  <1>8. k \in Keys(n) <=> k \in DOMAIN fields
    BY <1>1 DEF ToSet
  <1>9. Keys(n) \subseteq DOMAIN fields
    OBVIOUS
  <1> HIDE DEF Keys, n
  <1>10. CASE id[n] = << >>
    BY <1>3, <1>7, <1>8, <1>10, DefaultHasNoTags
  <1>11. CASE id[n] # << >>
    <2>1. Tagged(id[n], Keys(n), fields) /\ StreamID(fields) = id[n]
      BY <1>3, <1>7, <1>11
    <2>2. TagOf(id[n], k) = IF k \in Keys(n) THEN fields[k] ELSE << >>
      BY <1>9, <2>1, TagReadsBack
    <2> QED
      BY <1>8, <2>1, <2>2
  <1> QED
    BY <1>10, <1>11

-----------------------------------------------------------------------------
(* The entries of the rows.                                                  *)

Values == Seq(Chars)

(* normalize: the non-empty fields, a message in any case, and the stream,   *)
(* which is named after them.                                                *)
LEMMA Normalized ==
    ASSUME NEW r \in Rows
    PROVE  \E kept : /\ kept \in [DOMAIN kept -> Values \ {<< >>}]
                     /\ Msg \in DOMAIN kept /\ Stream \notin DOMAIN kept
                     /\ EntryOf[r] = [time |-> RawOf[r].time, fields |-> EntryOf[r].fields]
                     /\ EntryOf[r].fields =
                            [k \in DOMAIN kept \cup {Stream} |->
                                IF k = Stream THEN StreamID(kept) ELSE kept[k]]
  <1> DEFINE f == RawOf[r].fields
             named == {k \in DOMAIN f \ {Time, Stream} : f[k] # << >>}
             kept  == [k \in named \cup {Msg} |-> IF k \in named THEN f[k] ELSE MissingMsg]
             g     == [k \in DOMAIN kept \cup {Stream} |->
                          IF k = Stream THEN StreamID(kept) ELSE kept[k]]
  <1>1. f \in [DOMAIN f -> Seq(Chars)]
    BY BlocksAssumption
  <1>2. EntryOf[r] = [time |-> RawOf[r].time, fields |-> g]
    BY DEF EntryOf, Normalize
  <1> HIDE DEF f
  <1>3. kept \in [DOMAIN kept -> Values \ {<< >>}] /\ Msg \in DOMAIN kept
    <2>1. \A k \in named \cup {Msg} : (IF k \in named THEN f[k] ELSE MissingMsg) \in Values \ {<< >>}
      BY <1>1, EntriesAssumption DEF Values
    <2> HIDE DEF named
    <2> QED
      BY <2>1
  <1>4. Stream \notin DOMAIN kept
    BY EntriesAssumption
  <1> HIDE DEF kept
  <1> QED
    BY <1>2, <1>3, <1>4

(* Every entry has a message and a stream, and no empty field.               *)
LEMMA EntryOfRow ==
    ASSUME NEW r \in Rows
    PROVE  /\ IsEntry(EntryOf[r], Values) /\ EntryOf[r].time \in Nat
           /\ Msg \in DOMAIN EntryOf[r].fields /\ Stream \in DOMAIN EntryOf[r].fields
           /\ StreamOf(r) \in Values \ {<< >>}
  <1>1. PICK kept : /\ kept \in [DOMAIN kept -> Values \ {<< >>}]
                    /\ Msg \in DOMAIN kept /\ Stream \notin DOMAIN kept
                    /\ EntryOf[r] = [time |-> RawOf[r].time, fields |-> EntryOf[r].fields]
                    /\ EntryOf[r].fields =
                           [k \in DOMAIN kept \cup {Stream} |->
                               IF k = Stream THEN StreamID(kept) ELSE kept[k]]
    BY Normalized
  <1> DEFINE f == EntryOf[r].fields
             e == EntryOf[r]
  <1>2. StreamID(kept) \in Values \ {<< >>}
    BY <1>1, StreamIDIsText DEF Values
  <1>3. RawOf[r].time \in Nat
    BY BlocksAssumption
  <1> HIDE DEF e, f
  <1>4. e = [time |-> RawOf[r].time, fields |-> f]
        /\ f = [k \in DOMAIN kept \cup {Stream} |->
                    IF k = Stream THEN StreamID(kept) ELSE kept[k]]
    BY <1>1 DEF e, f
  <1>5. /\ f \in [DOMAIN f -> Values \ {<< >>}] /\ Msg \in DOMAIN f /\ Stream \in DOMAIN f
        /\ f[Stream] = StreamID(kept)
    BY <1>1, <1>2, <1>4
  <1>6. e.time = RawOf[r].time /\ e.fields = f
    BY <1>4
  <1>7. IsEntry(e, Values)
    BY <1>3, <1>4, <1>5, <1>6 DEF IsEntry
  <1> QED
    BY <1>2, <1>3, <1>5, <1>6, <1>7 DEF StreamOf, e, f

(* What a query asks of the name of a stream it asks of the stream fields of *)
(* its rows.                                                                 *)
LEMMA TagsExact ==
    ASSUME NEW r \in Rows, StreamOf(r) \in Plain, NEW q \in Queries
    PROVE  StreamMatchesTags(StreamOf(r), q.eq) <=> Asked(q, EntryOf[r])
  <1>1. PICK kept : /\ kept \in [DOMAIN kept -> Values \ {<< >>}]
                    /\ Msg \in DOMAIN kept /\ Stream \notin DOMAIN kept
                    /\ EntryOf[r] = [time |-> RawOf[r].time, fields |-> EntryOf[r].fields]
                    /\ EntryOf[r].fields =
                           [k \in DOMAIN kept \cup {Stream} |->
                               IF k = Stream THEN StreamID(kept) ELSE kept[k]]
    BY Normalized
  <1> DEFINE f == EntryOf[r].fields
  <1>2. \A k : k \in ToSet(StreamFields) /\ k \in DOMAIN f => Comma \notin ToSet(f[k])
    <2>1. r \in RowsOf(StreamOf(r))
      BY DEF RowsOf
    <2> QED
      BY <2>1 DEF Plain
  <1>3. DOMAIN q.eq \subseteq ToSet(StreamFields) \ {Stream}
    BY BlocksAssumption
  <1> HIDE DEF f
  <1>4. /\ DOMAIN f = DOMAIN kept \cup {Stream} /\ f[Stream] = StreamID(kept)
        /\ \A k \in DOMAIN kept : f[k] = kept[k]
    BY <1>1 DEF f
  <1>5. \A k \in ToSet(StreamFields) \cap DOMAIN kept : Comma \notin ToSet(kept[k])
    BY <1>2, <1>4
  <1>6. StreamOf(r) = StreamID(kept)
    BY <1>4 DEF StreamOf, f
  <1>7. \A k \in ToSet(StreamFields) :
            TagOf(StreamOf(r), k) = IF k \in DOMAIN kept THEN kept[k] ELSE << >>
    BY <1>1, <1>5, <1>6, StreamIDTags DEF Values
  <1>8. ASSUME NEW k \in DOMAIN q.eq
        PROVE  (q.eq[k] # << >> => TagOf(StreamOf(r), k) = q.eq[k])
                 <=> (q.eq[k] = << >> \/ (k \in DOMAIN f /\ f[k] = q.eq[k]))
    BY <1>1, <1>3, <1>4, <1>7
  <1> QED
    BY <1>8 DEF StreamMatchesTags, Asked, f

-----------------------------------------------------------------------------
(* The invariant, over the places rows are found in.  A is a function from   *)
(* places to what BlockAt says of them, app the rows appended so far.        *)

EntriesOn(s, d, app) == {EntryOf[r] : r \in {x \in app : StreamOf(x) = s /\ DayOf(x) = d}}

(* The block is what was written, and lists what it has.                     *)
Faithful(c) == /\ c.timeMin = c.block.timeMin /\ c.timeMax = c.block.timeMax
               /\ "bloom" \in DOMAIN c => c.bloom = MsgBloom(c.block.cols[Msg])
               /\ DOMAIN c.block.cols \subseteq FieldsOf(c.stream)
               /\ Once(c.block) /\ InRange(c.block)

Sound(c, app) ==
    /\ c.stream \in Streams /\ IsBlock(c.block, Values) /\ Contents(c.block) # {}
    /\ c.stream \in Separate =>
          Faithful(c) /\ Contents(c.block) \subseteq EntriesOn(c.stream, c.day, app)

Apart(A) == \A pl, pm \in DOMAIN A :
    /\ A[pl].stream \in Separate /\ A[pl].stream = A[pm].stream
    /\ Contents(A[pl].block) \cap Contents(A[pm].block) # {}
    => pl = pm

Covered(A, app) == \A r \in app : StreamOf(r) \in Separate =>
    \E pl \in DOMAIN A : A[pl].stream = StreamOf(r) /\ EntryOf[r] \in Contents(A[pl].block)

PlacesInv(A, app) == (\A pl \in DOMAIN A : Sound(A[pl], app)) /\ Apart(A) /\ Covered(A, app)

(* A row is added to the block of its stream in one place n.                 *)
LEMMA AppendPlaces ==
    ASSUME NEW A, NEW B, NEW app, app \subseteq Rows, PlacesInv(A, app),
           NEW r \in Rows, r \notin app, NEW n,
           DOMAIN B = DOMAIN A \cup {n},
           \A pl \in DOMAIN A : pl # n => B[pl] = A[pl],
           B[n].stream = StreamOf(r), B[n].day = DayOf(r),
           IsBlock(B[n].block, Values), Faithful(B[n]) \/ StreamOf(r) \notin Separate,
           n \in DOMAIN A => A[n].stream = StreamOf(r) /\ A[n].day = DayOf(r),
           Contents(B[n].block) = {EntryOf[r]} \cup
               (IF n \in DOMAIN A THEN Contents(A[n].block) ELSE {})
    PROVE  PlacesInv(B, app \cup {r})
  <1> DEFINE s == StreamOf(r)
             d == DayOf(r)
             e == EntryOf[r]
             more == app \cup {r}
             Old == IF n \in DOMAIN A THEN Contents(A[n].block) ELSE {}
  <1>1. s \in Streams
    BY DEF Streams
  <1>2. \A t, h : EntriesOn(t, h, app) \subseteq EntriesOn(t, h, more)
    BY DEF EntriesOn
  <1>3. e \in EntriesOn(s, d, more)
    BY DEF EntriesOn
  <1>4. \A t, h : e \notin EntriesOn(t, h, app)
    BY BlocksAssumption DEF EntriesOn
  <1>5. \A pl \in DOMAIN A : Sound(A[pl], app)
    BY DEF PlacesInv
  <1>6. Old = {} \/ (n \in DOMAIN A /\ Old = Contents(A[n].block))
    OBVIOUS
  <1> HIDE DEF e, more, s, d, Old
  <1>7. ASSUME NEW pl \in DOMAIN B PROVE Sound(B[pl], more)
    <2>1. CASE pl # n
      <3>1. pl \in DOMAIN A /\ B[pl] = A[pl]
        BY <2>1
      <3> QED
        BY <1>2, <1>5, <3>1 DEF Sound
    <2>2. CASE pl = n
      <3>1. /\ B[n].stream = s /\ B[n].day = d /\ Contents(B[n].block) = {e} \cup Old
            /\ IsBlock(B[n].block, Values) /\ (Faithful(B[n]) \/ s \notin Separate)
        BY DEF s, d, e, Old
      <3>2. s \in Separate => Old \subseteq EntriesOn(s, d, app)
        <4>1. n \in DOMAIN A => A[n].stream = s /\ A[n].day = d
          BY DEF s, d
        <4> QED
          BY <1>5, <1>6, <4>1 DEF Sound
      <3> QED
        BY <1>1, <1>2, <1>3, <2>2, <3>1, <3>2 DEF Sound
    <2> QED
      BY <2>1, <2>2
  <1>8. Apart(B)
    <2> SUFFICES ASSUME NEW pl \in DOMAIN B, NEW pm \in DOMAIN B,
                        B[pl].stream \in Separate, B[pl].stream = B[pm].stream,
                        NEW x \in Contents(B[pl].block), x \in Contents(B[pm].block)
                 PROVE  pl = pm
      BY DEF Apart
    <2>0. Apart(A)
      BY DEF PlacesInv
    <2>1. Contents(B[n].block) = {e} \cup Old
      BY DEF e, Old
    <2>2. ASSUME NEW q \in DOMAIN A, A[q].stream \in Separate PROVE e \notin Contents(A[q].block)
      BY <1>4, <1>5, <2>2 DEF Sound
    <2>3. n \in DOMAIN A => A[n].stream = B[n].stream
      OBVIOUS
    <2>4. CASE pl # n /\ pm # n
      BY <2>0, <2>4 DEF Apart
    <2>5. CASE pl = n /\ pm # n
      <3>1. pm \in DOMAIN A /\ B[pm] = A[pm]
        BY <2>5
      <3>2. x # e
        BY <2>2, <3>1
      <3>3. n \in DOMAIN A /\ x \in Contents(A[n].block)
        BY <1>6, <2>1, <2>5, <3>2
      <3> QED
        BY <2>0, <2>3, <2>5, <3>1, <3>3 DEF Apart
    <2>6. CASE pl # n /\ pm = n
      <3>1. pl \in DOMAIN A /\ B[pl] = A[pl]
        BY <2>6
      <3>2. x # e
        BY <2>2, <3>1
      <3>3. n \in DOMAIN A /\ x \in Contents(A[n].block)
        BY <1>6, <2>1, <2>6, <3>2
      <3> QED
        BY <2>0, <2>3, <2>6, <3>1, <3>3 DEF Apart
    <2> QED
      BY <2>4, <2>5, <2>6
  <1>9. Covered(B, more)
    <2> SUFFICES ASSUME NEW x \in more, StreamOf(x) \in Separate
                 PROVE  \E pl \in DOMAIN B : /\ B[pl].stream = StreamOf(x)
                                             /\ EntryOf[x] \in Contents(B[pl].block)
      BY DEF Covered
    <2>1. CASE x = r
      BY <2>1
    <2>2. CASE x \in app
      <3>1. PICK pl \in DOMAIN A : A[pl].stream = StreamOf(x) /\ EntryOf[x] \in Contents(A[pl].block)
        BY <2>2 DEF PlacesInv, Covered
      <3>2. CASE pl = n
        BY <3>1, <3>2
      <3>3. CASE pl # n
        BY <3>1, <3>3
      <3> QED
        BY <3>2, <3>3
    <2> QED
      BY <2>1, <2>2 DEF more
  <1> QED
    BY <1>7, <1>8, <1>9 DEF PlacesInv, more

(* The rows in the places G move to the new places N: for each stream that   *)
(* had places in G there is one in N, with what those held.                  *)
Moved(A, B, G, N) ==
    /\ G \subseteq DOMAIN A /\ N \cap DOMAIN A = {} /\ DOMAIN B = (DOMAIN A \ G) \cup N
    /\ \A pl \in DOMAIN A \ G : B[pl] = A[pl]
    /\ \A n \in N : /\ B[n].stream \in Streams /\ IsBlock(B[n].block, Values)
                    /\ Contents(B[n].block) # {}
                    /\ B[n].stream \in Separate =>
                          /\ Faithful(B[n])
                          /\ Contents(B[n].block) = UNION {Contents(A[g].block) :
                                 g \in {x \in G : A[x].stream = B[n].stream}}
    /\ \A n, m \in N : B[n].stream = B[m].stream => n = m
    /\ \A g \in G : A[g].stream \in Separate => \E n \in N : B[n].stream = A[g].stream
    /\ \A g \in G, n \in N : B[n].day = A[g].day

(* A move neither loses nor doubles a row.                                   *)
LEMMA MovePlaces ==
    ASSUME NEW A, NEW B, NEW app, PlacesInv(A, app), NEW G, NEW N, Moved(A, B, G, N)
    PROVE  PlacesInv(B, app)
  <1>1. /\ G \subseteq DOMAIN A /\ N \cap DOMAIN A = {} /\ DOMAIN B = (DOMAIN A \ G) \cup N
        /\ \A pl \in DOMAIN A \ G : B[pl] = A[pl]
        /\ \A n, m \in N : B[n].stream = B[m].stream => n = m
        /\ \A g \in G : A[g].stream \in Separate => \E n \in N : B[n].stream = A[g].stream
        /\ \A g \in G, n \in N : B[n].day = A[g].day
    BY DEF Moved
  <1>2. \A n \in N : B[n].stream \in Streams /\ IsBlock(B[n].block, Values) /\ Contents(B[n].block) # {}
    BY DEF Moved
  <1>3. \A n \in N : B[n].stream \in Separate =>
            /\ Faithful(B[n])
            /\ \A x : x \in Contents(B[n].block)
                        <=> \E g \in G : A[g].stream = B[n].stream /\ x \in Contents(A[g].block)
    BY DEF Moved
  <1>4. (\A pl \in DOMAIN A : Sound(A[pl], app)) /\ Apart(A) /\ Covered(A, app)
    BY DEF PlacesInv
  <1>5. ASSUME NEW pl \in DOMAIN B PROVE Sound(B[pl], app)
    <2>1. CASE pl \in DOMAIN A \ G
      BY <1>1, <1>4, <2>1
    <2>2. CASE pl \in N
      <3>1. ASSUME B[pl].stream \in Separate, NEW x \in Contents(B[pl].block)
            PROVE  x \in EntriesOn(B[pl].stream, B[pl].day, app)
        <4>1. PICK g \in G : A[g].stream = B[pl].stream /\ x \in Contents(A[g].block)
          BY <1>3, <2>2, <3>1
        <4>2. B[pl].day = A[g].day /\ Sound(A[g], app)
          BY <1>1, <1>4, <2>2
        <4> QED
          BY <3>1, <4>1, <4>2 DEF Sound
      <3> QED
        BY <1>2, <1>3, <2>2, <3>1 DEF Sound
    <2> QED
      BY <1>1, <2>1, <2>2
  <1>6. Apart(B)
    <2> SUFFICES ASSUME NEW pl \in DOMAIN B, NEW pm \in DOMAIN B,
                        B[pl].stream \in Separate, B[pl].stream = B[pm].stream,
                        NEW x \in Contents(B[pl].block), x \in Contents(B[pm].block)
                 PROVE  pl = pm
      BY DEF Apart
    <2>1. CASE pl \notin N /\ pm \notin N
      BY <1>1, <1>4, <2>1 DEF Apart
    <2>2. CASE pl \in N /\ pm \in N
      BY <1>1, <2>2
    <2>3. CASE pl \in N /\ pm \notin N
      <3>1. PICK g \in G : A[g].stream = B[pl].stream /\ x \in Contents(A[g].block)
        BY <1>3, <2>3
      <3>2. pm \in DOMAIN A /\ pm \notin G /\ B[pm] = A[pm] /\ g \in DOMAIN A
        BY <1>1, <2>3
      <3>3. g = pm
        BY <1>4, <3>1, <3>2 DEF Apart
      <3> QED
        BY <3>2, <3>3
    <2>4. CASE pl \notin N /\ pm \in N
      <3>1. PICK g \in G : A[g].stream = B[pm].stream /\ x \in Contents(A[g].block)
        BY <1>3, <2>4
      <3>2. pl \in DOMAIN A /\ pl \notin G /\ B[pl] = A[pl] /\ g \in DOMAIN A
        BY <1>1, <2>4
      <3>3. g = pl
        BY <1>4, <3>1, <3>2 DEF Apart
      <3> QED
        BY <3>2, <3>3
    <2> QED
      BY <2>1, <2>2, <2>3, <2>4
  <1>7. Covered(B, app)
    <2> SUFFICES ASSUME NEW r \in app, StreamOf(r) \in Separate
                 PROVE  \E pl \in DOMAIN B : /\ B[pl].stream = StreamOf(r)
                                             /\ EntryOf[r] \in Contents(B[pl].block)
      BY DEF Covered
    <2>1. PICK g \in DOMAIN A : A[g].stream = StreamOf(r) /\ EntryOf[r] \in Contents(A[g].block)
      BY <1>4 DEF Covered
    <2>2. CASE g \notin G
      BY <1>1, <2>1, <2>2
    <2>3. CASE g \in G
      <3>1. PICK n \in N : B[n].stream = A[g].stream
        BY <1>1, <2>1, <2>3
      <3>2. EntryOf[r] \in Contents(B[n].block)
        BY <1>3, <2>1, <2>3, <3>1
      <3> QED
        BY <1>1, <2>1, <3>1, <3>2
    <2> QED
      BY <2>2, <2>3
  <1> QED
    BY <1>5, <1>6, <1>7 DEF PlacesInv

-----------------------------------------------------------------------------
(* Parts.                                                                    *)

(* Whatever overwrites what, a block comes back with its times and columns   *)
(* as long.                                                                  *)
LEMMA WrittenIsBlock ==
    ASSUME NEW V, NEW b, IsBlock(b, V), NEW w \in Written(b)
    PROVE  IsBlock(ReadBlock(w), V) /\ Len(ReadBlock(w).times) = Len(b.times)
  <1>1. PICK last \in WriteOrders(b) : w = WriteTo(b, last)
    BY DEF Written
  <1>2. last \subseteq DOMAIN b.cols /\ FilesOf(last) = FilesOf(DOMAIN b.cols)
    BY DEF WriteOrders
  <1>3. /\ w.stream = b.stream /\ w.fields = DOMAIN b.cols
        /\ w.timeMin = b.timeMin /\ w.timeMax = b.timeMax
        /\ w.timeCol = IF TimeFile \in FilesOf(last)
                       THEN [i \in DOMAIN b.times |-> GarbageTime] ELSE b.times
        /\ w.files = [f \in FilesOf(last) |-> b.cols[CHOOSE k \in last : FileOf[k] = f]]
    BY <1>1 DEF WriteTo
  <1> DEFINE c == ReadBlock(w)
  <1>4. c = [stream |-> w.stream, times |-> w.timeCol,
             cols |-> [k \in w.fields |-> w.files[FileOf[k]]],
             timeMin |-> w.timeMin, timeMax |-> w.timeMax]
    BY DEF ReadBlock
  <1> HIDE DEF c
  <1>5. ASSUME NEW k \in DOMAIN b.cols
        PROVE  w.files[FileOf[k]] \in Seq(V) /\ Len(w.files[FileOf[k]]) = Len(b.times)
    <2> DEFINE f == FileOf[k]
               m == CHOOSE x \in last : FileOf[x] = f
    <2>1. f \in FilesOf(last)
      BY <1>2 DEF FilesOf
    <2>2. m \in last
      BY <2>1 DEF FilesOf
    <2>3. w.files[f] = b.cols[m]
      BY <1>3, <2>1
    <2> HIDE DEF f, m
    <2>4. m \in DOMAIN b.cols
      BY <1>2, <2>2
    <2> QED
      BY <2>3, <2>4 DEF IsBlock, f
  <1>6. /\ DOMAIN c.cols = DOMAIN b.cols
        /\ \A k \in DOMAIN b.cols : c.cols[k] = w.files[FileOf[k]]
        /\ c.cols = [k \in DOMAIN c.cols |-> c.cols[k]]
        /\ c.times = w.timeCol /\ c.timeMin = b.timeMin /\ c.timeMax = b.timeMax
        /\ c = [stream |-> c.stream, times |-> c.times, cols |-> c.cols,
                timeMin |-> c.timeMin, timeMax |-> c.timeMax]
    BY <1>3, <1>4
  <1>8. c.times \in Seq(Nat) /\ Len(c.times) = Len(b.times)
    <2>1. b.times \in Seq(Nat) /\ Len(b.times) \in Nat /\ DOMAIN b.times = 1..Len(b.times)
      BY DEF IsBlock
    <2>2. GarbageTime \in Nat
      BY BlocksAssumption
    <2> DEFINE g == [i \in 1..Len(b.times) |-> GarbageTime]
    <2>3. g \in Seq(Nat) /\ Len(g) = Len(b.times)
      BY <2>1, <2>2
    <2> HIDE DEF g
    <2>4. w.timeCol = g \/ w.timeCol = b.times
      BY <1>3, <2>1 DEF g
    <2> QED
      BY <1>6, <2>1, <2>3, <2>4
  <1>7. c.cols \in [DOMAIN c.cols -> Seq(V)] /\ \A k \in DOMAIN c.cols : Len(c.cols[k]) = Len(c.times)
    BY <1>5, <1>6, <1>8
  <1> QED
    BY <1>6, <1>7, <1>8 DEF IsBlock, c

(* What PartsFrom leaves of the blocks a part is written from.               *)
FromBlocks(p, d, tier, blocks) ==
    /\ p = [day |-> d, tier |-> tier, streams |-> p.streams, dirs |-> p.dirs]
    /\ p.streams = [s \in DOMAIN blocks |-> [timeMin |-> blocks[s].timeMin,
                                            timeMax |-> blocks[s].timeMax]]
    /\ p.dirs \in [{DirOf[s] : s \in DOMAIN blocks} ->
                      UNION {Written(blocks[s]) : s \in DOMAIN blocks}]
    /\ \A s \in DOMAIN blocks : (\A t \in DOMAIN blocks : DirOf[t] = DirOf[s] => t = s)
                                  => p.dirs[DirOf[s]] \in Written(blocks[s])

(* Blocks of one day, at most one for each stream.                           *)
BlocksOfDay(blocks) ==
    \A s \in DOMAIN blocks :
        /\ s \in Streams /\ IsBlock(blocks[s], Values)
        /\ blocks[s].stream = s /\ Contents(blocks[s]) # {}
        /\ s \in Separate => /\ InRange(blocks[s])
                             /\ DOMAIN blocks[s].cols \subseteq FieldsOf(s)

(* A block of a separate stream is read back from the part as it was, under  *)
(* its own day, time range and bloom filter; any other is still a block.     *)
LEMMA PartReadsBack ==
    ASSUME NEW p, NEW d, NEW tier, NEW blocks, FromBlocks(p, d, tier, blocks),
           BlocksOfDay(blocks), NEW s \in DOMAIN blocks
    PROVE  LET c == OnDisk(p, s)
           IN  /\ c.day = d /\ c.stream = s
               /\ IsBlock(c.block, Values) /\ Contents(c.block) # {}
               /\ s \in Separate =>
                     /\ c.block = blocks[s] /\ ~p.dirs[DirOf[s]].garbled
                     /\ c.timeMin = c.block.timeMin /\ c.timeMax = c.block.timeMax
                     /\ c.bloom = MsgBloom(c.block.cols[Msg])
  <1> DEFINE c == OnDisk(p, s)
             w == p.dirs[DirOf[s]]
             b == blocks[s]
  <1>1. p.day = d /\ p.streams[s] = [timeMin |-> b.timeMin, timeMax |-> b.timeMax]
    BY DEF FromBlocks
  <1>2. /\ s \in Streams /\ IsBlock(b, Values) /\ Contents(b) # {}
        /\ s \in Separate => DOMAIN b.cols \subseteq FieldsOf(s)
    BY DEF BlocksOfDay
  <1>3. PICK t \in DOMAIN blocks : w \in Written(blocks[t])
    BY DEF FromBlocks
  <1>4. s \in Separate => w \in Written(b)
    <2>1. s \in Separate => \A x \in DOMAIN blocks : DirOf[x] = DirOf[s] => x = s
      BY DEF Separate, BlocksOfDay
    <2> QED
      BY <2>1 DEF FromBlocks
  <1>5. /\ c.day = d /\ c.stream = s /\ c.block = ReadBlock(w) /\ c.bloom = w.bloom
        /\ c.timeMin = b.timeMin /\ c.timeMax = b.timeMax
    BY <1>1 DEF OnDisk
  <1> HIDE DEF c, w, b
  <1>6. IsBlock(c.block, Values) /\ Contents(c.block) # {}
    <2>1. IsBlock(blocks[t], Values) /\ Contents(blocks[t]) # {}
      BY DEF BlocksOfDay
    <2>2. IsBlock(ReadBlock(w), Values) /\ Len(ReadBlock(w).times) = Len(blocks[t].times)
      BY <1>3, <2>1, WrittenIsBlock
    <2>3. Len(blocks[t].times) > 0
      BY <2>1, NonEmptyBlock
    <2> QED
      BY <1>5, <2>2, <2>3, NonEmptyBlock
  <1>7. ASSUME s \in Separate
        PROVE  c.block = b /\ ~w.garbled /\ c.bloom = MsgBloom(b.cols[Msg])
    <2>1. PICK last \in WriteOrders(b) : w = WriteTo(b, last)
      BY <1>4, <1>7 DEF Written
    <2>2. /\ \A f, g \in DOMAIN b.cols : FileOf[f] = FileOf[g] => f = g
          /\ \A f \in DOMAIN b.cols : FileOf[f] # TimeFile
      BY <1>2, <1>7 DEF Separate
    <2>3. ReadBlock(w) = b
      BY <1>2, <2>1, <2>2, BlockReadsBack
    <2>4. TimeFile \notin FilesOf(last)
      BY <2>2 DEF WriteOrders, FilesOf
    <2>5. w.garbled = (TimeFile \in FilesOf(last)) /\ w.bloom = MsgBloom(b.cols[Msg])
      BY <2>1 DEF WriteTo
    <2> QED
      BY <1>5, <2>3, <2>4, <2>5
  <1> QED
    BY <1>5, <1>6, <1>7 DEF c, w, b

-----------------------------------------------------------------------------
(* The invariant of the specification.                                       *)

BufferAt(b, k) == [day |-> k[1], stream |-> k[2], timeMin |-> b.timeMin,
                   timeMax |-> b.timeMax, block |-> b]
PlacesOf(bufs, ps) == {<<0, k>> : k \in DOMAIN bufs} \cup
                      UNION {{<<i, s>> : s \in DOMAIN ps[i].streams} : i \in DOMAIN ps}
At(bufs, ps) == [pl \in PlacesOf(bufs, ps) |->
                    IF pl[1] = 0 THEN BufferAt(bufs[pl[2]], pl[2])
                                 ELSE OnDisk(ps[pl[1]], pl[2])]

BufferKeys(bufs) == \A k \in DOMAIN bufs : k = <<k[1], k[2]>> /\ bufs[k].stream = k[2]
PartInv(p) == /\ p.tier \in {"small", "big"} /\ DOMAIN p.dirs = {DirOf[s] : s \in DOMAIN p.streams}
              /\ \A s \in DOMAIN p.streams \cap Separate : ~p.dirs[DirOf[s]].garbled
PartsInv(ps, n) == \A i \in DOMAIN ps : i \in 1..n /\ PartInv(ps[i])

Inv == /\ appended \subseteq Rows /\ partSeq \in Nat
       /\ BufferKeys(buffers) /\ PartsInv(parts, partSeq)
       /\ PlacesInv(At(buffers, parts), appended)

(* The places and what is at them, in memory and on disk.                    *)
LEMMA AtPlaces ==
    ASSUME NEW bufs, NEW ps, NEW n \in Nat, PartsInv(ps, n)
    PROVE  LET A == At(bufs, ps)
           IN  /\ DOMAIN A = PlacesOf(bufs, ps)
               /\ \A pl \in DOMAIN A :
                     \/ \E k \in DOMAIN bufs : pl = <<0, k>>
                     \/ \E i \in DOMAIN ps : \E s \in DOMAIN ps[i].streams : pl = <<i, s>>
               /\ \A k \in DOMAIN bufs : <<0, k>> \in DOMAIN A /\ A[<<0, k>>] = BufferAt(bufs[k], k)
               /\ \A i \in DOMAIN ps : i # 0 /\ \A s \in DOMAIN ps[i].streams :
                      <<i, s>> \in DOMAIN A /\ A[<<i, s>>] = OnDisk(ps[i], s)
  <1>1. \A i \in DOMAIN ps : i # 0
    BY DEF PartsInv
  <1> QED
    BY <1>1 DEF At, PlacesOf

(* The store starts empty.                                                   *)
LEMMA InitInv == Init => Inv
  <1> SUFFICES ASSUME Init PROVE Inv
    OBVIOUS
  <1>1. DOMAIN buffers = {} /\ DOMAIN parts = {} /\ appended = {} /\ partSeq = 0
    BY DEF Init
  <1>2. DOMAIN At(buffers, parts) = {}
    BY <1>1 DEF At, PlacesOf
  <1>3. PlacesInv(At(buffers, parts), appended)
    BY <1>1, <1>2 DEF PlacesInv, Apart, Covered
  <1> QED
    BY <1>1, <1>3 DEF Inv, BufferKeys, PartsInv

(* Append puts the row into the block of its day and stream.                 *)
LEMMA Append1Inv ==
    ASSUME Inv, NEW r \in Rows, Append1(r)
    PROVE  Inv'
  <1> DEFINE d == DayOf(r)
             s == StreamOf(r)
             e == EntryOf[r]
             key == <<d, s>>
             n == <<0, key>>
             old == IF key \in DOMAIN buffers THEN buffers[key] ELSE NewMemBlock(s)
             c == AddRow(old, e)
             A == At(buffers, parts)
             B == At(buffers', parts')
  <1>1. /\ r \notin appended /\ appended' = appended \cup {r}
        /\ buffers' = [k \in DOMAIN buffers \cup {key} |-> IF k = key THEN c ELSE buffers[k]]
        /\ parts' = parts /\ partSeq' = partSeq
    BY DEF Append1
  <1>2. /\ appended \subseteq Rows /\ partSeq \in Nat /\ BufferKeys(buffers)
        /\ PartsInv(parts, partSeq) /\ PlacesInv(A, appended)
    BY DEF Inv
  <1>3. IsEntry(e, Values) /\ << >> \in Values
    BY EntryOfRow DEF Values
  <1>4. /\ IsBlock(old, Values) /\ old.stream = s
        /\ s \in Separate => /\ DOMAIN old.cols \subseteq FieldsOf(s) /\ InRange(old)
                             /\ Once(old) /\ e \notin Contents(old)
        /\ key \in DOMAIN buffers => n \in DOMAIN A /\ A[n] = BufferAt(old, key)
        /\ key \notin DOMAIN buffers => Contents(old) = {}
    <2>1. CASE key \notin DOMAIN buffers
      <3>1. old = NewMemBlock(s)
        BY <2>1
      <3> HIDE DEF old
      <3>2. /\ IsBlock(old, Values) /\ old.stream = s /\ DOMAIN old.cols = {}
            /\ Contents(old) = {} /\ Once(old) /\ InRange(old)
        BY <3>1, NewBlockEmpty
      <3> HIDE DEF key
      <3> QED
        BY <2>1, <3>2
    <2>2. CASE key \in DOMAIN buffers
      <3>1. old = buffers[key] /\ key[2] = s /\ key[1] = d
        BY <2>2
      <3>2. n \in DOMAIN A /\ A[n] = BufferAt(old, key)
        BY <1>2, <2>2, <3>1, AtPlaces
      <3>3. Sound(A[n], appended)
        BY <1>2, <3>2 DEF PlacesInv
      <3>4. old.stream = s
        BY <1>2, <2>2, <3>1 DEF BufferKeys
      <3> HIDE DEF old, key, e, s, d, A, n
      <3>5. A[n].block = old /\ A[n].stream = s /\ A[n].day = d
        BY <3>1, <3>2 DEF BufferAt
      <3>6. e \notin EntriesOn(s, d, appended)
        BY <1>1, <1>2, BlocksAssumption DEF EntriesOn, e
      <3>7. IsBlock(old, Values)
        BY <3>3, <3>5 DEF Sound
      <3>8. s \in Separate => /\ DOMAIN old.cols \subseteq FieldsOf(s) /\ InRange(old)
                              /\ Once(old) /\ e \notin Contents(old)
        BY <3>3, <3>5, <3>6 DEF Sound, Faithful
      <3> QED
        BY <2>2, <3>2, <3>4, <3>7, <3>8
    <2> QED
      BY <2>1, <2>2
  <1> HIDE DEF old
  <1>5. /\ IsBlock(c, Values) /\ c.stream = s
        /\ DOMAIN c.cols = DOMAIN old.cols \cup DOMAIN e.fields
        /\ Contents(c) = Contents(old) \cup {e}
        /\ Once(old) /\ e \notin Contents(old) => Once(c)
        /\ InRange(old) => InRange(c)
    BY <1>3, <1>4, AddRowIsBlock, AddRowCols, AddRowContents
  <1> HIDE DEF c
  <1>6. DOMAIN e.fields \subseteq FieldsOf(s)
    BY DEF FieldsOf, RowsOf
  <1>7. BufferKeys(buffers')
    <2>1. key = <<key[1], key[2]>> /\ key[2] = s
      OBVIOUS
    <2> HIDE DEF key
    <2> QED
      BY <1>1, <1>2, <1>5, <2>1 DEF BufferKeys
  <1>8. PartsInv(parts', partSeq')
    BY <1>1, <1>2
  <1>9. /\ DOMAIN B = DOMAIN A \cup {n}
        /\ \A pl \in DOMAIN A : pl # n => B[pl] = A[pl]
        /\ B[n] = BufferAt(c, key)
    <2> HIDE DEF key, A, B
    <2>1. DOMAIN buffers' = DOMAIN buffers \cup {key} /\ buffers'[key] = c
          /\ \A k \in DOMAIN buffers : k # key => buffers'[k] = buffers[k]
      BY <1>1
    <2>2. DOMAIN B = PlacesOf(buffers', parts') /\ DOMAIN A = PlacesOf(buffers, parts)
      BY DEF A, B, At
    <2>3. DOMAIN B = DOMAIN A \cup {n}
      BY <1>1, <2>1, <2>2 DEF PlacesOf
    <2>4. B[n] = BufferAt(c, key)
      BY <2>1, <2>2, <2>3 DEF B, At
    <2>5. ASSUME NEW pl \in DOMAIN A, pl # n PROVE B[pl] = A[pl]
      <3>1. pl \in DOMAIN B
        BY <2>3
      <3>2. CASE pl[1] = 0
        <4>1. PICK k \in DOMAIN buffers : pl = <<0, k>>
          BY <1>2, <3>2, AtPlaces DEF A
        <4>2. k # key
          BY <2>5, <4>1
        <4> QED
          BY <2>1, <2>2, <3>1, <4>1, <4>2 DEF A, B, At
      <3>3. CASE pl[1] # 0
        BY <1>1, <2>2, <3>1, <3>3 DEF A, B, At
      <3> QED
        BY <3>2, <3>3
    <2> QED
      BY <2>3, <2>4, <2>5
  <1>10. /\ B[n].stream = s /\ B[n].day = d /\ B[n].block = c
         /\ B[n].timeMin = c.timeMin /\ B[n].timeMax = c.timeMax /\ "bloom" \notin DOMAIN B[n]
         /\ key \in DOMAIN buffers => A[n].stream = s /\ A[n].day = d /\ A[n].block = old
    <2>1. key[1] = d /\ key[2] = s
      OBVIOUS
    <2> HIDE DEF key, A, B, n
    <2> QED
      BY <1>4, <1>9, <2>1 DEF BufferAt
  <1>11. n \in DOMAIN A <=> key \in DOMAIN buffers
    <2>1. \A i \in DOMAIN parts : i # 0
      BY <1>2 DEF PartsInv
    <2> HIDE DEF key
    <2> QED
      BY <2>1 DEF At, PlacesOf
  <1> HIDE DEF A, B, n, key, s, e, d
  <1>12. Faithful(B[n]) \/ s \notin Separate
    BY <1>4, <1>5, <1>6, <1>10 DEF Faithful
  <1>13. Contents(B[n].block) = {e} \cup (IF n \in DOMAIN A THEN Contents(A[n].block) ELSE {})
    BY <1>4, <1>5, <1>10, <1>11
  <1>14. PlacesInv(B, appended \cup {r})
    <2>1. n \in DOMAIN A => A[n].stream = StreamOf(r) /\ A[n].day = DayOf(r)
      BY <1>10, <1>11 DEF s, d
    <2>2. B[n].stream = StreamOf(r) /\ B[n].day = DayOf(r) /\ IsBlock(B[n].block, Values)
      BY <1>5, <1>10 DEF s, d
    <2>3. Faithful(B[n]) \/ StreamOf(r) \notin Separate
      BY <1>12 DEF s
    <2>4. Contents(B[n].block) = {EntryOf[r]} \cup
              (IF n \in DOMAIN A THEN Contents(A[n].block) ELSE {})
      BY <1>13 DEF e
    <2> QED
      BY <1>1, <1>2, <1>9, <2>1, <2>2, <2>3, <2>4, AppendPlaces
  <1>15. appended' \subseteq Rows /\ partSeq' \in Nat /\ PlacesInv(B, appended')
    BY <1>1, <1>2, <1>14
  <1> QED
    BY <1>7, <1>8, <1>15 DEF Inv, B

(* The places of the blocks in memory under "keys" and of the parts "inputs".*)
Gone(keys, inputs) == {<<0, k>> : k \in keys} \cup
                      UNION {{<<i, s>> : s \in DOMAIN parts[i].streams} : i \in inputs}

(* A new part takes over exactly what was in those places.                   *)
TakesOver(blocks, d, keys, inputs) ==
    LET A == At(buffers, parts)
    IN  /\ \A g \in Gone(keys, inputs) : A[g].day = d /\ A[g].stream \in DOMAIN blocks
        /\ \A s \in DOMAIN blocks \cap Separate :
              /\ Once(blocks[s])
              /\ Contents(blocks[s]) = UNION {Contents(A[g].block) :
                     g \in {x \in Gone(keys, inputs) : A[x].stream = s}}

(* Publishing such a part moves rows, and does nothing else to them.         *)
LEMMA PublishInv ==
    ASSUME Inv, NEW keys, keys \subseteq DOMAIN buffers, NEW inputs, inputs \subseteq DOMAIN parts,
           NEW p, PublishPart(p, inputs), appended' = appended,
           DOMAIN buffers' = DOMAIN buffers \ keys,
           \A k \in DOMAIN buffers' : buffers'[k] = buffers[k],
           NEW d, NEW tier \in {"small", "big"}, NEW blocks,
           FromBlocks(p, d, tier, blocks), BlocksOfDay(blocks),
           TakesOver(blocks, d, keys, inputs)
    PROVE  Inv'
  <1> DEFINE A == At(buffers, parts)
             B == At(buffers', parts')
             G == Gone(keys, inputs)
             j == partSeq + 1
             N == {<<j, s>> : s \in DOMAIN blocks}
  <1>1. /\ appended \subseteq Rows /\ partSeq \in Nat /\ BufferKeys(buffers)
        /\ PartsInv(parts, partSeq) /\ PlacesInv(A, appended)
    BY DEF Inv
  <1>2. /\ partSeq' = j /\ j \in Nat /\ j \notin DOMAIN parts /\ j # 0
        /\ DOMAIN parts' = (DOMAIN parts \ inputs) \cup {j} /\ parts'[j] = p
        /\ \A i \in DOMAIN parts \ inputs : parts'[i] = parts[i]
    <2>1. j \notin DOMAIN parts /\ j \in Nat /\ j # 0
      BY <1>1 DEF PartsInv
    <2> QED
      BY <2>1 DEF PublishPart
  <1>3. /\ p.day = d /\ p.tier = tier /\ DOMAIN p.streams = DOMAIN blocks
        /\ DOMAIN p.dirs = {DirOf[s] : s \in DOMAIN blocks}
    BY DEF FromBlocks
  <1>4. \A s \in DOMAIN blocks :
            LET c == OnDisk(p, s)
            IN  /\ c.day = d /\ c.stream = s
                /\ IsBlock(c.block, Values) /\ Contents(c.block) # {}
                /\ s \in Separate =>
                      /\ c.block = blocks[s] /\ ~p.dirs[DirOf[s]].garbled
                      /\ c.timeMin = c.block.timeMin /\ c.timeMax = c.block.timeMax
                      /\ c.bloom = MsgBloom(c.block.cols[Msg])
    BY PartReadsBack
  <1>5. PartInv(p)
    BY <1>3, <1>4 DEF PartInv
  <1> HIDE DEF j
  <1>6. PartsInv(parts', partSeq')
    <2> SUFFICES ASSUME NEW i \in DOMAIN parts' PROVE i \in 1..j /\ PartInv(parts'[i])
      BY <1>2 DEF PartsInv
    <2>1. CASE i = j
      BY <1>2, <1>5, <2>1
    <2>2. CASE i # j
      <3>1. i \in DOMAIN parts \ inputs /\ parts'[i] = parts[i]
        BY <1>2, <2>2
      <3>2. i \in 1..partSeq /\ PartInv(parts[i])
        BY <1>1, <3>1 DEF PartsInv
      <3>3. i \in 1..j
        BY <1>1, <3>2 DEF j
      <3> QED
        BY <3>1, <3>2, <3>3
    <2> QED
      BY <2>1, <2>2
  <1>7. BufferKeys(buffers')
    BY <1>1 DEF BufferKeys
  <1>8. Moved(A, B, G, N)
    <2>1. DOMAIN A = PlacesOf(buffers, parts) /\ DOMAIN B = PlacesOf(buffers', parts')
      BY DEF At
    <2> HIDE DEF A, B
    <2>2. G \subseteq DOMAIN A
      BY <2>1 DEF Gone, PlacesOf
    <2>3. N \cap DOMAIN A = {}
      BY <1>2, <2>1 DEF PlacesOf
    <2>4. \A i \in DOMAIN parts : i # 0
      BY <1>1 DEF PartsInv
    <2>5. DOMAIN B = (DOMAIN A \ G) \cup N
      <3>1. ASSUME NEW pl \in DOMAIN B PROVE pl \in (DOMAIN A \ G) \cup N
        <4>1. CASE \E k \in DOMAIN buffers' : pl = <<0, k>>
          BY <2>1, <2>4, <4>1 DEF PlacesOf, Gone
        <4>2. CASE \E i \in DOMAIN parts' : \E s \in DOMAIN parts'[i].streams : pl = <<i, s>>
          <5>1. PICK i \in DOMAIN parts' : \E s \in DOMAIN parts'[i].streams : pl = <<i, s>>
            BY <4>2
          <5>2. CASE i = j
            BY <1>2, <1>3, <5>1, <5>2
          <5>3. CASE i # j
            <6>1. i \in DOMAIN parts \ inputs /\ parts'[i] = parts[i] /\ i # 0
              BY <1>2, <2>4, <5>3
            <6> QED
              BY <2>1, <2>4, <5>1, <6>1 DEF PlacesOf, Gone
          <5> QED
            BY <5>2, <5>3
        <4> QED
          BY <2>1, <3>1, <4>1, <4>2 DEF PlacesOf
      <3>2. ASSUME NEW pl \in DOMAIN A, pl \notin G PROVE pl \in DOMAIN B
        <4>1. CASE \E k \in DOMAIN buffers : pl = <<0, k>>
          BY <2>1, <3>2, <4>1 DEF PlacesOf, Gone
        <4>2. CASE \E i \in DOMAIN parts : \E s \in DOMAIN parts[i].streams : pl = <<i, s>>
          <5>1. PICK i \in DOMAIN parts : \E s \in DOMAIN parts[i].streams : pl = <<i, s>>
            BY <4>2
          <5>2. i \notin inputs
            BY <3>2, <5>1 DEF Gone
          <5>3. i \in DOMAIN parts' /\ parts'[i] = parts[i]
            BY <1>2, <5>2
          <5> QED
            BY <2>1, <5>1, <5>3 DEF PlacesOf
        <4> QED
          BY <2>1, <3>2, <4>1, <4>2 DEF PlacesOf
      <3>3. ASSUME NEW pl \in N PROVE pl \in DOMAIN B
        BY <1>2, <1>3, <2>1, <3>3 DEF PlacesOf
      <3> QED
        BY <3>1, <3>2, <3>3
    <2>6. \A pl \in DOMAIN A \ G : B[pl] = A[pl]
      <3> SUFFICES ASSUME NEW pl \in DOMAIN A, pl \notin G PROVE B[pl] = A[pl]
        OBVIOUS
      <3>0. pl \in DOMAIN B
        BY <2>5
      <3>1. CASE \E k \in DOMAIN buffers : pl = <<0, k>>
        <4>1. PICK k \in DOMAIN buffers : pl = <<0, k>>
          BY <3>1
        <4>2. k \notin keys
          BY <4>1 DEF Gone
        <4>3. buffers'[k] = buffers[k]
          BY <4>2
        <4> QED
          BY <2>1, <3>0, <4>1, <4>3 DEF A, B, At
      <3>2. CASE \E i \in DOMAIN parts : \E s \in DOMAIN parts[i].streams : pl = <<i, s>>
        <4>0. PICK i \in DOMAIN parts : \E s \in DOMAIN parts[i].streams : pl = <<i, s>>
          BY <3>2
        <4>1. PICK s \in DOMAIN parts[i].streams : pl = <<i, s>>
          BY <4>0
        <4>2. i \notin inputs /\ i # 0
          BY <2>4, <4>1 DEF Gone
        <4>3. parts'[i] = parts[i]
          BY <1>2, <4>2
        <4>4. A[pl] = OnDisk(parts[i], s) /\ B[pl] = OnDisk(parts'[i], s)
          BY <2>1, <3>0, <4>1, <4>2 DEF A, B, At
        <4> QED
          BY <4>3, <4>4
      <3> QED
        BY <2>1, <3>1, <3>2 DEF PlacesOf
    <2>7. \A s \in DOMAIN blocks : B[<<j, s>>] = OnDisk(p, s)
      <3> TAKE s \in DOMAIN blocks
      <3>1. <<j, s>> \in DOMAIN B
        BY <2>5
      <3> QED
        BY <1>2, <2>1, <3>1 DEF B, At
    <2>8. ASSUME NEW n \in N
          PROVE  /\ B[n].stream \in Streams /\ IsBlock(B[n].block, Values)
                 /\ Contents(B[n].block) # {}
                 /\ B[n].stream \in Separate =>
                       /\ Faithful(B[n])
                       /\ Contents(B[n].block) = UNION {Contents(A[g].block) :
                              g \in {x \in G : A[x].stream = B[n].stream}}
      <3>1. PICK s \in DOMAIN blocks : n = <<j, s>>
        OBVIOUS
      <3> DEFINE c == B[n]
      <3>2. c = OnDisk(p, s)
        BY <2>7, <3>1
      <3> HIDE DEF c, N, G
      <3>3. /\ c.day = d /\ c.stream = s
            /\ IsBlock(c.block, Values) /\ Contents(c.block) # {}
            /\ s \in Separate =>
                  /\ c.block = blocks[s]
                  /\ c.timeMin = c.block.timeMin /\ c.timeMax = c.block.timeMax
                  /\ c.bloom = MsgBloom(c.block.cols[Msg])
        BY <1>4, <3>2
      <3>4. /\ s \in Streams
            /\ s \in Separate => InRange(blocks[s]) /\ DOMAIN blocks[s].cols \subseteq FieldsOf(s)
        BY DEF BlocksOfDay
      <3>5. s \in Separate => Once(blocks[s])
                /\ Contents(blocks[s]) = UNION {Contents(A[g].block) :
                       g \in {x \in G : A[x].stream = s}}
        BY DEF TakesOver, A, G
      <3>6. s \in Separate => Faithful(c)
        BY <3>3, <3>4, <3>5 DEF Faithful
      <3>7. s \in Separate => Contents(c.block) = UNION {Contents(A[g].block) :
                                  g \in {x \in G : A[x].stream = c.stream}}
        BY <3>3, <3>5
      <3> QED
        BY <3>3, <3>4, <3>6, <3>7 DEF c
    <2>9. ASSUME NEW n \in N, NEW m \in N, B[n].stream = B[m].stream PROVE n = m
      <3>1. PICK s \in DOMAIN blocks : n = <<j, s>>
        OBVIOUS
      <3>2. PICK t \in DOMAIN blocks : m = <<j, t>>
        OBVIOUS
      <3>3. B[n] = OnDisk(p, s) /\ B[m] = OnDisk(p, t)
        BY <2>7, <3>1, <3>2
      <3>4. B[n].stream = s /\ B[m].stream = t
        BY <1>4, <3>3
      <3> QED
        BY <2>9, <3>1, <3>2, <3>4
    <2>10. \A g \in G : A[g].day = d /\ A[g].stream \in DOMAIN blocks
      BY DEF TakesOver, A
    <2>11. \A s \in DOMAIN blocks : B[<<j, s>>].stream = s /\ B[<<j, s>>].day = d
      BY <1>4, <2>7
    <2>12. \A g \in G : A[g].stream \in Separate => \E n \in N : B[n].stream = A[g].stream
      BY <2>10, <2>11
    <2>13. \A g \in G, n \in N : B[n].day = A[g].day
      BY <2>10, <2>11
    <2> HIDE DEF G, N
    <2> QED
      BY <2>2, <2>3, <2>5, <2>6, <2>8, <2>9, <2>12, <2>13 DEF Moved
  <1>9. PlacesInv(B, appended')
    <2> HIDE DEF A, B, G, N
    <2> QED
      BY <1>1, <1>8, MovePlaces
  <1> QED
    BY <1>1, <1>2, <1>6, <1>7, <1>9 DEF Inv, B

(* A flush writes the blocks of one day.                                     *)
LEMMA FlushDayInv ==
    ASSUME Inv, NEW d, FlushDay(d)
    PROVE  Inv'
  <1> DEFINE keys   == {k \in DOMAIN buffers : k[1] = d}
             blocks == [s \in {k[2] : k \in keys} |-> buffers[<<d, s>>]]
             A == At(buffers, parts)
  <1>1. PICK p : FromBlocks(p, d, "small", blocks) /\ PublishPart(p, {})
    <2> DEFINE Before(s, t) == RankOf[s] < RankOf[t]
    <2>1. PICK p \in PartsFrom(d, "small", blocks, Before) : PublishPart(p, {})
      BY DEF FlushDay
    <2>2. FromBlocks(p, d, "small", blocks)
      <3> HIDE DEF blocks, keys
      <3> DEFINE ss == DOMAIN blocks
                 left == {s \in ss : \A t \in ss : DirOf[t] = DirOf[s] => t = s \/ Before(t, s)}
                 streams == [s \in ss |-> [timeMin |-> blocks[s].timeMin,
                                           timeMax |-> blocks[s].timeMax]]
      <3>1. PICK dirs \in [{DirOf[s] : s \in ss} -> UNION {Written(blocks[s]) : s \in left}] :
                /\ \A s \in left : dirs[DirOf[s]] \in Written(blocks[s])
                /\ p = [day |-> d, tier |-> "small", streams |-> streams, dirs |-> dirs]
        BY DEF PartsFrom
      <3>2. UNION {Written(blocks[s]) : s \in left} \subseteq UNION {Written(blocks[s]) : s \in ss}
        OBVIOUS
      <3>3. \A s \in ss : (\A t \in ss : DirOf[t] = DirOf[s] => t = s) => s \in left
        OBVIOUS
      <3> HIDE DEF left, streams
      <3>4. p.day = d /\ p.tier = "small" /\ p.streams = streams /\ p.dirs = dirs
        BY <3>1
      <3>5. dirs \in [{DirOf[s] : s \in ss} -> UNION {Written(blocks[s]) : s \in ss}]
        BY <3>2
      <3> QED
        BY <3>1, <3>3, <3>4, <3>5 DEF FromBlocks, streams
    <2> QED
      BY <2>1, <2>2
  <1>2. /\ DOMAIN buffers' = DOMAIN buffers \ keys /\ appended' = appended
        /\ \A k \in DOMAIN buffers' : buffers'[k] = buffers[k]
    BY DEF FlushDay
  <1>3. /\ BufferKeys(buffers) /\ partSeq \in Nat /\ PartsInv(parts, partSeq)
        /\ PlacesInv(A, appended)
    BY DEF Inv
  <1>4. \A k \in keys : k = <<d, k[2]>> /\ k[2] \in DOMAIN blocks /\ blocks[k[2]] = buffers[k]
    BY <1>3 DEF BufferKeys
  <1>5. ASSUME NEW s \in DOMAIN blocks
        PROVE  /\ <<d, s>> \in keys /\ blocks[s] = buffers[<<d, s>>] /\ blocks[s].stream = s
               /\ Sound(BufferAt(blocks[s], <<d, s>>), appended)
    <2>1. PICK k \in keys : k[2] = s
      OBVIOUS
    <2>2. k = <<d, s>> /\ k \in keys
      BY <1>4, <2>1
    <2>3. blocks[s] = buffers[<<d, s>>] /\ blocks[s].stream = s
      BY <1>3, <1>4, <2>1, <2>2 DEF BufferKeys
    <2>4. <<0, k>> \in DOMAIN A /\ A[<<0, k>>] = BufferAt(buffers[k], k)
      BY <1>3, AtPlaces
    <2>5. Sound(BufferAt(buffers[k], k), appended)
      BY <1>3, <2>4 DEF PlacesInv
    <2> QED
      BY <2>2, <2>3, <2>5
  <1>6. \A g \in Gone(keys, {}) : \E k \in keys : g = <<0, k>> /\ A[g] = BufferAt(buffers[k], k)
    BY <1>3, AtPlaces DEF Gone
  <1>7. \A k \in keys : <<0, k>> \in Gone(keys, {}) /\ A[<<0, k>>] = BufferAt(buffers[k], k)
    BY <1>3, AtPlaces DEF Gone
  <1>8. keys \subseteq DOMAIN buffers /\ \A k \in keys : k[1] = d
    OBVIOUS
  <1> HIDE DEF keys, blocks, A
  <1>9. BlocksOfDay(blocks)
    <2> SUFFICES ASSUME NEW s \in DOMAIN blocks
                 PROVE  /\ s \in Streams /\ IsBlock(blocks[s], Values)
                        /\ blocks[s].stream = s /\ Contents(blocks[s]) # {}
                        /\ s \in Separate => /\ InRange(blocks[s])
                                             /\ DOMAIN blocks[s].cols \subseteq FieldsOf(s)
      BY DEF BlocksOfDay
    <2> QED
      BY <1>5 DEF Sound, Faithful, BufferAt
  <1>10. TakesOver(blocks, d, keys, {})
    <2>1. ASSUME NEW g \in Gone(keys, {}) PROVE A[g].day = d /\ A[g].stream \in DOMAIN blocks
      <3>1. PICK k \in keys : A[g] = BufferAt(buffers[k], k)
        BY <1>6
      <3> QED
        BY <1>4, <1>8, <3>1 DEF BufferAt
    <2>2. ASSUME NEW s \in DOMAIN blocks, s \in Separate PROVE Once(blocks[s])
      BY <1>5, <2>2 DEF Sound, Faithful, BufferAt
    <2>3. ASSUME NEW s \in DOMAIN blocks
          PROVE  Contents(blocks[s]) = UNION {Contents(A[g].block) :
                     g \in {x \in Gone(keys, {}) : A[x].stream = s}}
      <3>1. ASSUME NEW g \in Gone(keys, {}), A[g].stream = s PROVE A[g].block = blocks[s]
        <4>1. PICK k \in keys : A[g] = BufferAt(buffers[k], k)
          BY <1>6
        <4>2. A[g].stream = k[2] /\ A[g].block = buffers[k]
          BY <4>1 DEF BufferAt
        <4> QED
          BY <1>4, <3>1, <4>2
      <3> DEFINE n == <<0, <<d, s>>>>
      <3>2. n \in Gone(keys, {}) /\ A[n] = BufferAt(blocks[s], <<d, s>>)
        BY <1>5, <1>7
      <3> HIDE DEF n
      <3>3. A[n].stream = s /\ A[n].block = blocks[s]
        BY <3>2 DEF BufferAt
      <3> QED
        BY <3>1, <3>2, <3>3
    <2> QED
      BY <2>1, <2>2, <2>3 DEF TakesOver, A
  <1>11. {} \subseteq DOMAIN parts
    OBVIOUS
  <1> QED
    BY <1>1, <1>2, <1>8, <1>9, <1>10, <1>11, PublishInv

(* A merge writes the rows of some parts of a day again.                     *)
LEMMA MergePartsInv ==
    ASSUME Inv, NEW d, NEW inputs, MergeParts(d, inputs),
           inputs \subseteq {i \in DOMAIN parts : parts[i].day = d /\ parts[i].tier = "small"}
    PROVE  Inv'
  <1> DEFINE listed == UNION {DOMAIN parts[i].streams : i \in inputs}
             blocks == [s \in listed |-> MergedBlock(s, inputs)]
             A == At(buffers, parts)
             G == Gone({}, inputs)
             L(s) == {i \in 1..partSeq : Lists(i, s, inputs)}
  <1>1. PICK p : FromBlocks(p, d, "big", blocks) /\ PublishPart(p, inputs)
    <2> DEFINE First(s) == CHOOSE i \in inputs :
                               /\ s \in DOMAIN parts[i].streams
                               /\ \A j \in inputs : s \in DOMAIN parts[j].streams => i <= j
               Before(s, t) == \/ First(s) < First(t)
                               \/ First(s) = First(t) /\ RankOf[s] < RankOf[t]
    <2>1. PICK p \in PartsFrom(d, "big", blocks, Before) : PublishPart(p, inputs)
      BY DEF MergeParts
    <2>2. FromBlocks(p, d, "big", blocks)
      <3> HIDE DEF blocks, First
      <3> DEFINE ss == DOMAIN blocks
                 left == {s \in ss : \A t \in ss : DirOf[t] = DirOf[s] => t = s \/ Before(t, s)}
                 streams == [s \in ss |-> [timeMin |-> blocks[s].timeMin,
                                           timeMax |-> blocks[s].timeMax]]
      <3>1. PICK dirs \in [{DirOf[s] : s \in ss} -> UNION {Written(blocks[s]) : s \in left}] :
                /\ \A s \in left : dirs[DirOf[s]] \in Written(blocks[s])
                /\ p = [day |-> d, tier |-> "big", streams |-> streams, dirs |-> dirs]
        BY DEF PartsFrom
      <3>2. UNION {Written(blocks[s]) : s \in left} \subseteq UNION {Written(blocks[s]) : s \in ss}
        OBVIOUS
      <3>3. \A s \in ss : (\A t \in ss : DirOf[t] = DirOf[s] => t = s) => s \in left
        OBVIOUS
      <3> HIDE DEF left, streams
      <3>4. p.day = d /\ p.tier = "big" /\ p.streams = streams /\ p.dirs = dirs
        BY <3>1
      <3>5. dirs \in [{DirOf[s] : s \in ss} -> UNION {Written(blocks[s]) : s \in ss}]
        BY <3>2
      <3> QED
        BY <3>1, <3>3, <3>4, <3>5 DEF FromBlocks, streams
    <2> QED
      BY <2>1, <2>2
  <1>2. buffers' = buffers /\ appended' = appended
    BY DEF MergeParts
  <1>3. /\ partSeq \in Nat /\ PartsInv(parts, partSeq) /\ PlacesInv(A, appended)
    BY DEF Inv
  <1>4. ASSUME NEW i \in inputs, NEW s \in DOMAIN parts[i].streams
        PROVE  /\ <<i, s>> \in G /\ <<i, s>> \in DOMAIN A /\ A[<<i, s>>].day = d
               /\ A[<<i, s>>].stream = s /\ A[<<i, s>>].block = BlockOf(i, s)
               /\ Sound(A[<<i, s>>], appended) /\ i \in 1..partSeq
    <2>1. i \in DOMAIN parts /\ parts[i].day = d
      OBVIOUS
    <2>2. <<i, s>> \in DOMAIN A /\ A[<<i, s>>] = OnDisk(parts[i], s)
      BY <1>3, <2>1, AtPlaces
    <2>3. <<i, s>> \in G
      BY DEF Gone
    <2>4. Sound(A[<<i, s>>], appended) /\ i \in 1..partSeq
      BY <1>3, <2>1, <2>2 DEF PlacesInv, PartsInv
    <2> HIDE DEF A, G
    <2> QED
      BY <2>1, <2>2, <2>3, <2>4 DEF OnDisk, BlockOf
  <1>5. \A g \in G : \E i \in inputs : \E s \in DOMAIN parts[i].streams : g = <<i, s>>
    BY DEF Gone
  <1>6. \A s, i : i \in L(s) <=> i \in inputs /\ s \in DOMAIN parts[i].streams
    BY <1>4 DEF Lists
  <1>7. inputs \subseteq DOMAIN parts
    OBVIOUS
  <1>8. DOMAIN blocks = listed /\ \A s \in listed : blocks[s] = MergedBlock(s, inputs)
    OBVIOUS
  <1>9. \A s : s \in listed <=> \E i \in inputs : s \in DOMAIN parts[i].streams
    OBVIOUS
  <1> HIDE DEF listed, blocks, A, G
  <1>10. ASSUME NEW s \in listed
         PROVE  /\ s \in Streams /\ IsBlock(blocks[s], Values) /\ blocks[s].stream = s
                /\ Contents(blocks[s]) # {} /\ InRange(blocks[s])
                /\ DOMAIN blocks[s].cols \subseteq UNION {DOMAIN BlockOf(i, s).cols : i \in L(s)}
                /\ Contents(blocks[s]) = UNION {Contents(BlockOf(i, s)) : i \in L(s)}
                /\ (/\ \A i \in L(s) : Once(BlockOf(i, s))
                    /\ \A i, j \in L(s) : i # j =>
                           Contents(BlockOf(i, s)) \cap Contents(BlockOf(j, s)) = {})
                      => Once(blocks[s])
    <2> DEFINE c == MergedBlock(s, inputs)
    <2>1. << >> \in Values
      BY DEF Values
    <2>2. \A i \in 1..partSeq : Lists(i, s, inputs) => IsBlock(BlockOf(i, s), Values)
      BY <1>4 DEF Sound, Lists
    <2>3. /\ IsBlock(c, Values) /\ c.stream = s /\ InRange(c)
          /\ DOMAIN c.cols \subseteq UNION {DOMAIN BlockOf(i, s).cols : i \in L(s)}
          /\ Contents(c) = UNION {Contents(BlockOf(i, s)) : i \in L(s)}
          /\ (/\ \A i \in L(s) : Once(BlockOf(i, s))
              /\ \A i, j \in L(s) : i # j =>
                     Contents(BlockOf(i, s)) \cap Contents(BlockOf(j, s)) = {})
                => Once(c)
      BY <1>3, <2>1, <2>2, MergedContents
    <2> HIDE DEF c, L
    <2>4. PICK i \in inputs : s \in DOMAIN parts[i].streams
      BY <1>9
    <2>5. s \in Streams /\ Contents(BlockOf(i, s)) # {} /\ i \in L(s)
      BY <1>4, <1>6, <2>4 DEF Sound
    <2>6. Contents(c) # {}
      BY <2>3, <2>5
    <2>7. blocks[s] = c
      BY <1>8 DEF c
    <2> QED
      BY <2>3, <2>5, <2>6, <2>7
  <1> HIDE DEF L
  <1>11. BlocksOfDay(blocks)
    <2> SUFFICES ASSUME NEW s \in listed
                 PROVE  /\ s \in Streams /\ IsBlock(blocks[s], Values)
                        /\ blocks[s].stream = s /\ Contents(blocks[s]) # {}
                        /\ s \in Separate => /\ InRange(blocks[s])
                                             /\ DOMAIN blocks[s].cols \subseteq FieldsOf(s)
      BY <1>8 DEF BlocksOfDay
    <2>1. ASSUME s \in Separate, NEW i \in L(s) PROVE DOMAIN BlockOf(i, s).cols \subseteq FieldsOf(s)
      <3>1. i \in inputs /\ s \in DOMAIN parts[i].streams
        BY <1>6
      <3> QED
        BY ZenonT(60), <1>4, <2>1, <3>1 DEF Sound, Faithful
    <2> QED
      BY <1>10, <2>1
  <1>12. TakesOver(blocks, d, {}, inputs)
    <2>1. ASSUME NEW g \in G PROVE A[g].day = d /\ A[g].stream \in DOMAIN blocks
      <3>1. PICK i \in inputs : \E s \in DOMAIN parts[i].streams : g = <<i, s>>
        BY <1>5
      <3>2. PICK s \in DOMAIN parts[i].streams : g = <<i, s>>
        BY <3>1
      <3> QED
        BY <1>4, <1>8, <1>9, <3>2
    <2>2. ASSUME NEW s \in listed, s \in Separate PROVE Once(blocks[s])
      <3>1. ASSUME NEW i \in L(s) PROVE Once(BlockOf(i, s))
        <4>1. i \in inputs /\ s \in DOMAIN parts[i].streams
          BY <1>6
        <4> QED
          BY <1>4, <2>2, <4>1 DEF Sound, Faithful
      <3>2. ASSUME NEW i \in L(s), NEW j \in L(s), i # j
            PROVE  Contents(BlockOf(i, s)) \cap Contents(BlockOf(j, s)) = {}
        <4>1. /\ i \in inputs /\ s \in DOMAIN parts[i].streams
              /\ j \in inputs /\ s \in DOMAIN parts[j].streams
          BY <1>6
        <4> DEFINE n == <<i, s>>
                   m == <<j, s>>
        <4>2. /\ n \in DOMAIN A /\ A[n].stream = s /\ A[n].block = BlockOf(i, s)
              /\ m \in DOMAIN A /\ A[m].stream = s /\ A[m].block = BlockOf(j, s)
          BY <1>4, <4>1
        <4>3. n # m
          BY <3>2
        <4> HIDE DEF n, m
        <4> QED
          BY <1>3, <2>2, <4>2, <4>3 DEF PlacesInv, Apart
      <3> QED
        BY <1>10, <3>1, <3>2
    <2>3. ASSUME NEW s \in listed
          PROVE  Contents(blocks[s]) = UNION {Contents(A[g].block) :
                     g \in {x \in G : A[x].stream = s}}
      <3>1. ASSUME NEW g \in G, A[g].stream = s
            PROVE  \E i \in L(s) : A[g].block = BlockOf(i, s)
        <4>1. PICK i \in inputs : \E t \in DOMAIN parts[i].streams : g = <<i, t>>
          BY <1>5
        <4>2. PICK t \in DOMAIN parts[i].streams : g = <<i, t>>
          BY <4>1
        <4>3. t = s /\ A[g].block = BlockOf(i, t)
          BY <1>4, <3>1, <4>2
        <4> QED
          BY <1>6, <4>2, <4>3
      <3>2. ASSUME NEW i \in L(s)
            PROVE  \E g \in G : A[g].stream = s /\ A[g].block = BlockOf(i, s)
        <4>1. i \in inputs /\ s \in DOMAIN parts[i].streams
          BY <1>6
        <4> QED
          BY <1>4, <4>1
      <3>3. Contents(blocks[s]) = UNION {Contents(BlockOf(i, s)) : i \in L(s)}
        BY <1>10
      <3>4. ASSUME NEW x
            PROVE  (\E i \in L(s) : x \in Contents(BlockOf(i, s)))
                     <=> (\E g \in G : A[g].stream = s /\ x \in Contents(A[g].block))
        BY <3>1, <3>2
      <3> QED
        BY <3>3, <3>4
    <2> QED
      BY <1>8, <2>1, <2>2, <2>3 DEF TakesOver, A, G
  <1>13. {} \subseteq DOMAIN buffers /\ DOMAIN buffers' = DOMAIN buffers \ {}
         /\ \A k \in DOMAIN buffers' : buffers'[k] = buffers[k]
    BY <1>2
  <1> QED
    BY <1>1, <1>2, <1>7, <1>11, <1>12, <1>13, PublishInv

(* The inductive invariant: every step keeps it.                             *)
THEOREM Invariance == Spec => []Inv
  <1>1. Init => Inv
    BY InitInv
  <1>2. Inv /\ [Next]_vars => Inv'
    <2> SUFFICES ASSUME Inv, [Next]_vars PROVE Inv'
      OBVIOUS
    <2>1. CASE Next
      <3>1. CASE \E r \in Rows : Append1(r)
        BY <3>1, Append1Inv
      <3>2. CASE \E d \in {DayOf(r) : r \in appended} : FlushDay(d)
        BY <3>2, FlushDayInv
      <3>3. CASE \E d \in {DayOf(r) : r \in appended} : MergeDay(d)
        BY <3>3, MergePartsInv DEF MergeDay, kSubset
      <3> QED
        BY <2>1, <3>1, <3>2, <3>3 DEF Next
    <2>2. CASE UNCHANGED vars
      BY <2>2 DEF vars, Inv
    <2> QED
      BY <2>1, <2>2
  <1> QED
    BY <1>1, <1>2, PTL DEF Spec

(* The places of the properties are those of the invariant.                  *)
LEMMA PlacesAgree ==
    ASSUME Inv, NEW pl \in Places
    PROVE  /\ pl \in DOMAIN At(buffers, parts)
           /\ BlockAt(pl) = At(buffers, parts)[pl]
           /\ Sound(BlockAt(pl), appended)
  <1>1. pl \in DOMAIN At(buffers, parts)
    BY DEF Places, At, PlacesOf
  <1>2. BlockAt(pl) = At(buffers, parts)[pl]
    BY <1>1 DEF BlockAt, Buffered, BufferAt, At
  <1> QED
    BY <1>1, <1>2 DEF Inv, PlacesInv

(* Every block in memory has the name of the stream it is kept under.  Every *)
(* listed part has an id that was handed out and directories for its streams *)
(* and no others, and every block that can be read, in memory or from a      *)
(* directory, has rows, and in every column as many cells as rows.           *)
THEOREM TypeCorrect == Spec => []TypeOK
  <1>1. Inv => TypeOK
    <2> SUFFICES ASSUME Inv PROVE TypeOK
      OBVIOUS
    <2>1. appended \subseteq Rows /\ partSeq \in Nat
      BY DEF Inv
    <2>2. ASSUME NEW i \in DOMAIN parts
          PROVE  /\ i \in 1..partSeq /\ parts[i].tier \in {"small", "big"}
                 /\ DOMAIN parts[i].dirs = {DirOf[s] : s \in DOMAIN parts[i].streams}
      BY DEF Inv, PartsInv, PartInv
    <2>4. \A k \in DOMAIN buffers : buffers[k].stream = k[2]
      BY DEF Inv, BufferKeys
    <2>3. ASSUME NEW pl \in Places
          PROVE  LET b == BlockAt(pl).block IN
                 /\ Len(b.times) > 0 /\ BlockAt(pl).stream \in Streams
                 /\ \A k \in DOMAIN b.cols : Len(b.cols[k]) = Len(b.times)
      <3> DEFINE c == BlockAt(pl)
      <3>1. c.stream \in Streams /\ IsBlock(c.block, Values) /\ Contents(c.block) # {}
        BY PlacesAgree DEF Sound
      <3> HIDE DEF c
      <3>2. Len(c.block.times) > 0
        BY <3>1, NonEmptyBlock
      <3>3. \A k \in DOMAIN c.block.cols : Len(c.block.cols[k]) = Len(c.block.times)
        BY <3>1 DEF IsBlock
      <3> QED
        BY <3>1, <3>2, <3>3 DEF c
    <2> QED
      BY <2>1, <2>2, <2>3, <2>4 DEF TypeOK
  <1> QED
    BY <1>1, Invariance, PTL

(* Every row of a stream whose names stay distinct on disk is read back from *)
(* exactly one place, with its day, its time and all its fields, and nothing *)
(* else is read, through any sequence of appends, flushes and merges.        *)
THEOREM EveryRowReadsBack == Spec => []RowsReadBack
  <1>1. Inv => RowsReadBack
    <2> SUFFICES ASSUME Inv, NEW s \in Separate
                 PROVE  /\ {<<BlockAt(f[1]).day, EntryAt(f)>> : f \in Found(s)}
                               = {<<DayOf(r), EntryOf[r]>> : r \in appended \cap RowsOf(s)}
                        /\ \A f, g \in Found(s) : EntryAt(f) = EntryAt(g) => f = g
                        /\ \A i \in DOMAIN parts : s \in DOMAIN parts[i].streams =>
                                                      ~parts[i].dirs[DirOf[s]].garbled
      BY DEF RowsReadBack
    <2> DEFINE A == At(buffers, parts)
    <2>1. Apart(A) /\ Covered(A, appended) /\ PartsInv(parts, partSeq) /\ appended \subseteq Rows
      BY DEF Inv, PlacesInv
    <2>2. ASSUME NEW f \in Found(s)
          PROVE  /\ f = <<f[1], f[2]>> /\ f[1] \in Places /\ f[1] \in DOMAIN A
                 /\ BlockAt(f[1]) = A[f[1]] /\ A[f[1]].stream = s
                 /\ f[2] \in 1..Len(A[f[1]].block.times)
                 /\ EntryAt(f) = Row(A[f[1]].block, f[2])
                 /\ EntryAt(f) \in Contents(A[f[1]].block)
                 /\ Sound(A[f[1]], appended)
      <3>1. PICK pl \in Places : BlockAt(pl).stream = s
                /\ \E i \in 1..Len(BlockAt(pl).block.times) : f = <<pl, i>>
        BY DEF Found
      <3>2. PICK i \in 1..Len(BlockAt(pl).block.times) : f = <<pl, i>>
        BY <3>1
      <3>3. f[1] = pl /\ f[2] = i
        BY <3>2
      <3>4. pl \in DOMAIN A /\ BlockAt(pl) = A[pl] /\ Sound(A[pl], appended)
        BY PlacesAgree
      <3> HIDE DEF A
      <3>5. EntryAt(f) = Row(A[pl].block, i)
        BY <3>3, <3>4 DEF EntryAt
      <3>6. i \in 1..Len(A[pl].block.times)
        BY <3>4
      <3>7. Row(A[pl].block, i) \in Contents(A[pl].block)
        BY <3>6 DEF Contents
      <3> QED
        BY <3>1, <3>2, <3>3, <3>4, <3>5, <3>6, <3>7
    <2>3. ASSUME NEW pl \in DOMAIN A, A[pl].stream = s, NEW x \in Contents(A[pl].block)
          PROVE  \E f \in Found(s) : f[1] = pl /\ EntryAt(f) = x
      <3>1. pl \in Places
        BY DEF Places, At, PlacesOf
      <3>2. BlockAt(pl) = A[pl]
        BY <3>1, PlacesAgree
      <3> HIDE DEF A
      <3>3. PICK i \in 1..Len(A[pl].block.times) : x = Row(A[pl].block, i)
        BY DEF Contents
      <3> DEFINE f == <<pl, i>>
      <3>4. f \in Found(s)
        BY <2>3, <3>1, <3>2 DEF Found
      <3>5. f[1] = pl /\ f[2] = i
        OBVIOUS
      <3> HIDE DEF f
      <3>6. EntryAt(f) = x
        BY <3>2, <3>3, <3>5 DEF EntryAt
      <3> QED
        BY <3>4, <3>5, <3>6
    <2> HIDE DEF A
    <2>4. ASSUME NEW f \in Found(s)
          PROVE  \E r \in appended \cap RowsOf(s) : /\ BlockAt(f[1]).day = DayOf(r)
                                                    /\ EntryAt(f) = EntryOf[r]
      <3>1. EntryAt(f) \in EntriesOn(s, A[f[1]].day, appended)
        BY <2>2 DEF Sound
      <3> QED
        BY <2>1, <2>2, <3>1 DEF EntriesOn, RowsOf
    <2>5. ASSUME NEW r \in appended \cap RowsOf(s)
          PROVE  \E f \in Found(s) : BlockAt(f[1]).day = DayOf(r) /\ EntryAt(f) = EntryOf[r]
      <3>1. PICK pl \in DOMAIN A : A[pl].stream = s /\ EntryOf[r] \in Contents(A[pl].block)
        BY <2>1 DEF Covered, RowsOf
      <3>2. PICK f \in Found(s) : f[1] = pl /\ EntryAt(f) = EntryOf[r]
        BY <2>3, <3>1
      <3>3. PICK x \in appended \cap RowsOf(s) : /\ BlockAt(f[1]).day = DayOf(x)
                                                 /\ EntryAt(f) = EntryOf[x]
        BY <2>4
      <3>4. DayOf(x) = DayOf(r)
        BY <3>2, <3>3 DEF DayOf
      <3> QED
        BY <3>2, <3>3, <3>4
    <2>6. {<<BlockAt(f[1]).day, EntryAt(f)>> : f \in Found(s)}
              = {<<DayOf(r), EntryOf[r]>> : r \in appended \cap RowsOf(s)}
      <3>1. ASSUME NEW f \in Found(s)
            PROVE  <<BlockAt(f[1]).day, EntryAt(f)>>
                       \in {<<DayOf(r), EntryOf[r]>> : r \in appended \cap RowsOf(s)}
        BY <2>4
      <3>2. ASSUME NEW r \in appended \cap RowsOf(s)
            PROVE  <<DayOf(r), EntryOf[r]>>
                       \in {<<BlockAt(f[1]).day, EntryAt(f)>> : f \in Found(s)}
        BY <2>5
      <3> QED
        BY <3>1, <3>2
    <2>7. ASSUME NEW f \in Found(s), NEW g \in Found(s), EntryAt(f) = EntryAt(g) PROVE f = g
      <3>1. f[1] = g[1]
        BY <2>1, <2>2, <2>7 DEF Apart
      <3>2. Once(A[f[1]].block)
        BY <2>2 DEF Sound, Faithful
      <3>3. f[2] = g[2]
        BY <2>2, <2>7, <3>1, <3>2 DEF Once
      <3> QED
        BY <2>2, <3>1, <3>3
    <2>8. ASSUME NEW i \in DOMAIN parts, s \in DOMAIN parts[i].streams
          PROVE  ~parts[i].dirs[DirOf[s]].garbled
      BY <2>1, <2>8 DEF PartsInv, PartInv
    <2> QED
      BY <2>6, <2>7, <2>8
  <1> QED
    BY <1>1, Invariance, PTL

(* A search unpacks a block with a row its filter would return if and only   *)
(* if the row has the values of the stream fields the query asks for.        *)
THEOREM SearchPrunesExactly == Spec => []PruningExact
  <1>1. Inv => PruningExact
    <2> SUFFICES ASSUME Inv, NEW pl \in Places,
                        BlockAt(pl).stream \in Separate \cap Plain,
                        NEW q \in Queries, NEW e \in RowsAt(BlockAt(pl)), RowMatches(q, e)
                 PROVE  Scans(q, BlockAt(pl)) <=> Asked(q, e)
      BY DEF PruningExact
    <2> DEFINE c == BlockAt(pl)
               b == c.block
    <2>1. /\ IsBlock(b, Values) /\ Faithful(c)
          /\ Contents(b) \subseteq EntriesOn(c.stream, c.day, appended)
      BY PlacesAgree DEF Sound
    <2>2. c.stream \in Plain /\ e \in RowsAt(c) /\ appended \subseteq Rows
      BY DEF Inv
    <2> HIDE DEF c
    <2>3. PICK i \in 1..Len(b.times) : e = Row(b, i)
      BY <2>2 DEF RowsAt
    <2>4. e \in EntriesOn(c.stream, c.day, appended)
      BY <2>1, <2>3 DEF Contents
    <2>5. PICK r \in Rows : e = EntryOf[r] /\ StreamOf(r) = c.stream /\ DayOf(r) = c.day
      BY <2>2, <2>4 DEF EntriesOn
    <2> HIDE DEF b
    <2>6. /\ c.timeMin = b.timeMin /\ c.timeMax = b.timeMax
          /\ "bloom" \in DOMAIN c => c.bloom = MsgBloom(b.cols[Msg])
          /\ InRange(b)
      BY <2>1 DEF Faithful, b
    <2>7. Msg \in DOMAIN b.cols
      <3>1. DOMAIN Row(b, i).fields \subseteq DOMAIN b.cols
        BY <2>1, RowIsEntry
      <3> QED
        BY <2>3, <2>5, <3>1, EntryOfRow
    <2>8. c.day = b.times[i] \div DayLen
      <3>1. e.time = b.times[i]
        BY <2>3 DEF Row
      <3> QED
        BY <2>5, <3>1 DEF DayOf
    <2>9. q.start \subseteq Nat /\ q.end \subseteq Nat /\ q.contains \in Seq(Chars)
      BY BlocksAssumption
    <2>10. /\ DayOverlaps(c.day, q)
           /\ TimeRangeOverlaps(q, b.timeMin, b.timeMax)
           /\ MightContainSubstring(MsgBloom(b.cols[Msg]), q.contains)
      BY <2>1, <2>3, <2>6, <2>7, <2>8, <2>9, NoBlockSkipped DEF Values
    <2>11. StreamMatchesTags(c.stream, q.eq) <=> Asked(q, e)
      BY <2>2, <2>5, TagsExact
    <2> QED
      BY <2>6, <2>10, <2>11 DEF Scans, c
  <1> QED
    BY <1>1, Invariance, PTL
=============================================================================
