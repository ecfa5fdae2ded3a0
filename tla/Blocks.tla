------------------------------- MODULE Blocks ------------------------------
(* What becomes of the rows of a batch on their way through a memBlock, a    *)
(* block directory and a merge (block.go, writeMergedPart), and what Search  *)
(* makes of the shortcuts beside them: day names, the time ranges of blocks  *)
(* (inmemory_part.go, stream_index.go) and the bloom filters.  One process   *)
(* and no failures: DayPartition has those.  The binary encoding of columns  *)
(* is left out: a file holds a column, until another column overwrites it.   *)
EXTENDS Bloom, Entries

CONSTANTS Rows,
          RawOf,       \* the entry sent for each row: [time, fields]
          RankOf,      \* position of a stream among the sorted names
          FileOf,      \* fieldFileName of a field
          TimeFile,    \* "_time.col"
          GarbageTime, \* what is read for a time from an overwritten column;
                       \* no property looks at such times
          DayLen,      \* nanoseconds of a day
          MergeMaxPartsPerJob,
          Queries      \* [start, end, eq, contains]; a bound is {} or {t}

EntryOf == [r \in Rows |-> Normalize(RawOf[r])]
StreamOf(r) == EntryOf[r].fields[Stream]
Streams == {StreamOf(r) : r \in Rows}
DirOf   == [s \in Streams |-> SafeStreamDir(s)]

ASSUME BlocksAssumption ==
    /\ RankOf \in [Streams -> Nat] /\ IsInjective(RankOf)
    /\ DayLen \in Nat \ {0} /\ MergeMaxPartsPerJob \in Nat \ {0} /\ GarbageTime \in Nat
    /\ \A r \in Rows : /\ RawOf[r].time \in Nat
                       /\ RawOf[r].fields \in [DOMAIN RawOf[r].fields -> Seq(Chars)]
                       /\ DOMAIN EntryOf[r].fields \subseteq DOMAIN FileOf
    /\ \A q, r \in Rows : q # r => EntryOf[q] # EntryOf[r]
    /\ \A q \in Queries : /\ q.start \subseteq Nat /\ q.end \subseteq Nat
                          /\ DOMAIN q.eq \subseteq ToSet(StreamFields) \ {Stream}
                          /\ q.contains \in Seq(Chars)

VARIABLES
    buffers,     \* memBlocks: a function from some <<day, stream>> keys
    parts,       \* listed parts: a function from some ids to
                 \* [day, tier, streams, dirs]
    partSeq,     \* ids taken; those of all days are counted together
    appended     \* rows appended so far

vars == <<buffers, parts, partSeq, appended>>

DayOf(r) == EntryOf[r].time \div DayLen

-----------------------------------------------------------------------------
(* memBlock.  The empty string pads the columns of fields a row lacks.       *)

NewMemBlock(s) == [stream |-> s, times |-> << >>, cols |-> << >>,
                   timeMin |-> 0, timeMax |-> 0]

(* Mutant of Padding: a new column starts with the row that brings it.       *)
PaddingNone(n) == << >>

Padding(n) == [i \in 1..n |-> << >>]

(* Mutant of AddRow: columns of fields the row lacks are left short.         *)
AddRowShort(b, e) ==
    LET n     == Len(b.times)
        Old(k) == IF k \in DOMAIN b.cols THEN b.cols[k] ELSE Padding(n)
    IN  [b EXCEPT
           !.times   = Append(@, e.time),
           !.cols    = [k \in DOMAIN b.cols \cup DOMAIN e.fields |->
                            IF k \in DOMAIN e.fields THEN Append(Old(k), e.fields[k])
                                                     ELSE Old(k)],
           !.timeMin = IF n = 0 \/ e.time < @ THEN e.time ELSE @,
           !.timeMax = IF n = 0 \/ e.time > @ THEN e.time ELSE @]

AddRow(b, e) ==
    LET n     == Len(b.times)
        Old(k) == IF k \in DOMAIN b.cols THEN b.cols[k] ELSE Padding(n)
        New(k) == IF k \in DOMAIN e.fields THEN e.fields[k] ELSE << >>
    IN  [b EXCEPT
           !.times   = Append(@, e.time),
           !.cols    = [k \in DOMAIN b.cols \cup DOMAIN e.fields |->
                            Append(Old(k), New(k))],
           !.timeMin = IF n = 0 \/ e.time < @ THEN e.time ELSE @,
           !.timeMax = IF n = 0 \/ e.time > @ THEN e.time ELSE @]

Row(b, i) ==
    [time   |-> b.times[i],
     fields |-> [k \in {f \in DOMAIN b.cols :
                            i <= Len(b.cols[f]) /\ b.cols[f][i] # << >>} |->
                     b.cols[k][i]]]

-----------------------------------------------------------------------------
(* writeTo, readBlock.  The fields of a block are written in any order, and  *)
(* those with one file name overwrite each other: "last" are the survivors.  *)
(* A column written over the times may be read as as many times (if it has   *)
(* four bytes a cell), or fail to read.                                      *)

FilesOf(fields) == {FileOf[k] : k \in fields}

WriteOrders(b) ==
    {last \in SUBSET DOMAIN b.cols : /\ FilesOf(last) = FilesOf(DOMAIN b.cols)
                                     /\ \A k, m \in last : FileOf[k] = FileOf[m] => k = m}

WriteTo(b, last) ==
    [stream |-> b.stream, fields |-> DOMAIN b.cols,
     timeMin |-> b.timeMin, timeMax |-> b.timeMax,
     timeCol |-> IF TimeFile \in FilesOf(last)
                 THEN [i \in DOMAIN b.times |-> GarbageTime] ELSE b.times,
     garbled |-> TimeFile \in FilesOf(last),
     files |-> [f \in FilesOf(last) |-> b.cols[CHOOSE k \in last : FileOf[k] = f]],
     bloom |-> MsgBloom(b.cols[Msg])]

ReadBlock(w) == [stream |-> w.stream, times |-> w.timeCol,
                 cols |-> [k \in w.fields |-> w.files[FileOf[k]]],
                 timeMin |-> w.timeMin, timeMax |-> w.timeMax]

Written(b) == {WriteTo(b, last) : last \in WriteOrders(b)}

(* What a part may come out as.  "blocks" has a block for each stream of the *)
(* part; they are written in the order Before, and one that shares a         *)
(* directory replaces the block in it: "left" are the streams that keep      *)
(* theirs.                                                                   *)
PartsFrom(day, tier, blocks, Before(_, _)) ==
    LET ss   == DOMAIN blocks
        left == {s \in ss : \A t \in ss : DirOf[t] = DirOf[s] => t = s \/ Before(t, s)}
    IN  {[day |-> day, tier |-> tier,
          streams |-> [s \in ss |-> [timeMin |-> blocks[s].timeMin,
                                    timeMax |-> blocks[s].timeMax]],
          dirs |-> dirs] :
            dirs \in {w \in [{DirOf[s] : s \in ss} -> UNION {Written(blocks[s]) : s \in left}] :
                         \A s \in left : w[DirOf[s]] \in Written(blocks[s])}}

-----------------------------------------------------------------------------
Init == buffers = << >> /\ parts = << >> /\ partSeq = 0 /\ appended = {}

(* Append and applyLocked, one row.                                          *)
Append1(r) ==
    LET key == <<DayOf(r), StreamOf(r)>>
        old == IF key \in DOMAIN buffers THEN buffers[key]
                                         ELSE NewMemBlock(StreamOf(r))
    IN
    /\ r \notin appended /\ appended' = appended \cup {r}
    /\ buffers' = [k \in DOMAIN buffers \cup {key} |->
                      IF k = key THEN AddRow(old, EntryOf[r]) ELSE buffers[k]]
    /\ UNCHANGED <<parts, partSeq>>

(* The part gets the next id; the parts with the ids "inputs" are gone.      *)
PublishPart(p, inputs) ==
    /\ partSeq' = partSeq + 1
    /\ parts' = [i \in (DOMAIN parts \ inputs) \cup {partSeq + 1} |->
                    IF i = partSeq + 1 THEN p ELSE parts[i]]

(* flushPartitionLocked: the day's blocks, sorted by stream.                 *)
FlushDay(d) ==
    LET keys   == {k \in DOMAIN buffers : k[1] = d}
        blocks == [s \in {k[2] : k \in keys} |-> buffers[<<d, s>>]]
        Before(s, t) == RankOf[s] < RankOf[t]
    IN
    /\ keys # {}
    /\ \E p \in PartsFrom(d, "small", blocks, Before) : PublishPart(p, {})
    /\ buffers' = [k \in DOMAIN buffers \ keys |-> buffers[k]]
    /\ UNCHANGED appended

(* writeMergedPart: the rows of each stream, input after input, are read and *)
(* added again; the streams keep the order of their first appearance, and a  *)
(* small part lists its streams by name.  A garbled time column that fails   *)
(* to read ends the merge: no step.                                          *)
AddAll(b, w) ==
    LET add[i \in 0..Len(w.timeCol)] ==
            IF i = 0 THEN b ELSE AddRow(add[i - 1], Row(ReadBlock(w), i))
    IN  add[Len(w.timeCol)]

MergedBlock(s, inputs) ==
    LET merged[i \in 0..partSeq] ==
            IF i = 0 THEN NewMemBlock(s)
            ELSE IF i \in inputs /\ s \in DOMAIN parts[i].streams
                 THEN AddAll(merged[i - 1], parts[i].dirs[DirOf[s]])
                 ELSE merged[i - 1]
    IN  merged[partSeq]

MergeParts(d, inputs) ==
    LET listed   == UNION {DOMAIN parts[i].streams : i \in inputs}
        First(s) == CHOOSE i \in inputs :
                        /\ s \in DOMAIN parts[i].streams
                        /\ \A j \in inputs : s \in DOMAIN parts[j].streams => i <= j
        Before(s, t) == \/ First(s) < First(t)
                        \/ First(s) = First(t) /\ RankOf[s] < RankOf[t]
        blocks   == [s \in listed |-> MergedBlock(s, inputs)]
    IN
    /\ \E p \in PartsFrom(d, "big", blocks, Before) : PublishPart(p, inputs)
    /\ UNCHANGED <<buffers, appended>>

(* mergeDayIfNeeded: the oldest small parts of the day, if there are two.    *)
MergeDay(d) ==
    LET small == {i \in DOMAIN parts : parts[i].day = d /\ parts[i].tier = "small"}
        n     == Min({MergeMaxPartsPerJob, Cardinality(small)})
    IN
    /\ Cardinality(small) > 1
    /\ \E inputs \in kSubset(n, small) :
          /\ \A i \in inputs, j \in small \ inputs : i < j
          /\ MergeParts(d, inputs)

Next == \/ \E r \in Rows : Append1(r)
        \/ \E d \in {DayOf(r) : r \in appended} : FlushDay(d)
        \/ \E d \in {DayOf(r) : r \in appended} : MergeDay(d)

Spec == Init /\ [][Next]_vars
-----------------------------------------------------------------------------
(* SearchWithStats, block by block.                                          *)

(* partitionOverlapsQuery.                                                   *)
DayOverlaps(d, q) == /\ \A t \in q.end : d * DayLen <= t
                     /\ \A t \in q.start : d * DayLen + DayLen - 1 >= t

(* Mutant of TimeRangeOverlaps: a range that begins at the end of the window *)
(* is taken to lie outside.                                                  *)
TimeRangeOverlapsShort(q, min, max) == /\ \A t \in q.end : min < t
                                       /\ \A t \in q.start : max >= t

TimeRangeOverlaps(q, min, max) == /\ \A t \in q.end : min <= t
                                  /\ \A t \in q.start : max >= t

RowMatches(q, e) == /\ \A t \in q.end : e.time <= t
                    /\ \A t \in q.start : e.time >= t
                    /\ ContainsNeedle(MsgOf(e), q.contains)

(* What a search may read: buffered blocks, and for each stream a part lists *)
(* the block found in the stream's directory.                                *)
Buffered(k) ==
    [day |-> k[1], stream |-> k[2], timeMin |-> buffers[k].timeMin,
     timeMax |-> buffers[k].timeMax, block |-> buffers[k]]

OnDisk(p, s) ==
    [day |-> p.day, stream |-> s, timeMin |-> p.streams[s].timeMin,
     timeMax |-> p.streams[s].timeMax, block |-> ReadBlock(p.dirs[DirOf[s]]),
     bloom |-> p.dirs[DirOf[s]].bloom]

(* Whether a search unpacks such a block; only those of a part have a bloom  *)
(* filter.                                                                   *)
Scans(q, c) == /\ DayOverlaps(c.day, q) /\ StreamMatchesTags(c.stream, q.eq)
               /\ TimeRangeOverlaps(q, c.timeMin, c.timeMax)
               /\ "bloom" \in DOMAIN c => MightContainSubstring(c.bloom, q.contains)

-----------------------------------------------------------------------------
(* Properties.                                                               *)

Places == {<<0, k>> : k \in DOMAIN buffers} \cup
          UNION {{<<i, s>> : s \in DOMAIN parts[i].streams} : i \in DOMAIN parts}

BlockAt(pl) == IF pl[1] = 0 THEN Buffered(pl[2]) ELSE OnDisk(parts[pl[1]], pl[2])

RowsAt(c) == {Row(c.block, i) : i \in 1..Len(c.block.times)}

TypeOK ==
    /\ appended \subseteq Rows /\ partSeq \in Nat
    /\ \A k \in DOMAIN buffers : buffers[k].stream = k[2]
    /\ \A i \in DOMAIN parts : /\ i \in 1..partSeq
                              /\ parts[i].tier \in {"small", "big"}
                              /\ DOMAIN parts[i].dirs
                                    = {DirOf[s] : s \in DOMAIN parts[i].streams}
    /\ \A pl \in Places : LET b == BlockAt(pl).block IN
           /\ Len(b.times) > 0 /\ BlockAt(pl).stream \in Streams
           /\ \A k \in DOMAIN b.cols : Len(b.cols[k]) = Len(b.times)

(* Streams whose names, and whose fields' names, stay distinct as directory  *)
(* and file names.                                                           *)
RowsOf(s)   == {r \in Rows : StreamOf(r) = s}
FieldsOf(s) == UNION {DOMAIN EntryOf[r].fields : r \in RowsOf(s)}
Separate ==
    {s \in Streams : /\ \A t \in Streams : DirOf[t] = DirOf[s] => t = s
                     /\ \A f, g \in FieldsOf(s) : FileOf[f] = FileOf[g] => f = g
                     /\ \A f \in FieldsOf(s) : FileOf[f] # TimeFile}

(* Where the rows of a stream are read, and what is read there.              *)
Found(s) == UNION {{<<pl, i>> : i \in 1..Len(BlockAt(pl).block.times)} :
                      pl \in {p \in Places : BlockAt(p).stream = s}}
EntryAt(f) == Row(BlockAt(f[1]).block, f[2])

(* Every appended row is read back from exactly one place, with its day, its *)
(* time and all its fields, however often it was written, read and merged    *)
(* among rows with other fields; nothing else is read, and no read fails.    *)
(* Names that fall together on disk harm no stream but their own.            *)
RowsReadBack ==
    \A s \in Separate :
        /\ {<<BlockAt(f[1]).day, EntryAt(f)>> : f \in Found(s)}
              = {<<DayOf(r), EntryOf[r]>> : r \in appended \cap RowsOf(s)}
        /\ \A f, g \in Found(s) : EntryAt(f) = EntryAt(g) => f = g
        /\ \A i \in DOMAIN parts : s \in DOMAIN parts[i].streams =>
                                      ~parts[i].dirs[DirOf[s]].garbled

(* No shortcut - day name, time range, bloom filter - skips a block with a   *)
(* row the row filter would return, and the name of a stream, which is all a *)
(* StreamEq is compared with, selects its rows exactly by the values of      *)
(* their stream fields - unless one of these has a comma (entry.go:37).      *)
Plain == {s \in Streams : \A r \in RowsOf(s), k \in ToSet(StreamFields) :
              k \in DOMAIN EntryOf[r].fields => Comma \notin ToSet(EntryOf[r].fields[k])}
Asked(q, e) == \A k \in DOMAIN q.eq :
                   q.eq[k] = << >> \/ (k \in DOMAIN e.fields /\ e.fields[k] = q.eq[k])

PruningExact ==
    \A pl \in Places :
        LET c == BlockAt(pl)
            rows == RowsAt(c)
        IN  c.stream \in Separate \cap Plain =>
                \A q \in Queries : \A e \in rows :
                    RowMatches(q, e) => (Scans(q, c) <=> Asked(q, e))
=============================================================================
