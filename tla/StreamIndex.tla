---------------------------- MODULE StreamIndex ----------------------------
(* Streams, tags and the two indexes that prune a query: by_tag inside a     *)
(* part's meta.json (stream_index.go) and the day's indexdb.json             *)
(* (indexdb.go).                                                             *)
(*                                                                           *)
(* A row is a model value.  Of its content only the stream matters here, and *)
(* of a stream only its set of "key=value" tags (entry.go StreamID joins the *)
(* stream fields, ParseStreamTags splits them again; "_default" is a stream  *)
(* without tags).  A query's StreamEq is the set of tags it asks for: keys   *)
(* with an empty value are skipped by every reader of StreamEq, so {} stands *)
(* for both "no StreamEq" and "only empty values".                           *)
CONSTANTS Rows,      \* every row the environment may append
          Tags,      \* "key=value" pairs
          Streams,   \* stream ids
          StreamOf,  \* the stream of each row
          TagsOf     \* ParseStreamTags of each stream id

ASSUME StreamAssumption == /\ StreamOf \in [Rows -> Streams]
                           /\ TagsOf \in [Streams -> SUBSET Tags]

StreamMatchesTags(stream, eq) == eq \subseteq TagsOf[stream]

(* The rows of R a StreamEq selects.                                         *)
MatchingRows(eq, R) == {r \in R : StreamMatchesTags(StreamOf[r], eq)}

StreamsIn(R) == {StreamOf[r] : r \in R}

(* by_tag of the part that holds the rows R: tag -> streams carrying it.     *)
ByTag(R) == [t \in Tags |-> {s \in StreamsIn(R) : t \in TagsOf[s]}]

(* The streams of a part chosen through by_tag: the intersection of the      *)
(* lists of the wanted tags.  A part whose streams carry no tag has an empty *)
(* by_tag and is filtered by the tags of the stream ids instead.             *)
MatchStreamIDs(R, eq) ==
    IF eq = {} THEN StreamsIn(R)
    ELSE IF \A t \in Tags : ByTag(R)[t] = {}
         THEN {s \in StreamsIn(R) : StreamMatchesTags(s, eq)}
         ELSE {s \in StreamsIn(R) : \A t \in eq : s \in ByTag(R)[t]}

(* What a query reads of one part directory: the blocks of those streams.    *)
RowsForQuery(R, eq) == {r \in R : StreamOf[r] \in MatchStreamIDs(R, eq)}

-----------------------------------------------------------------------------
(* indexdb: tag -> ids of the parts with a stream carrying it.               *)

EmptyIndex == [t \in Tags |-> {}]

(* Mutant of RebuildDayIndexDB: a part is indexed by the tags all its        *)
(* streams share.                                                            *)
RebuildSharedTags(ids, parts) ==
    [t \in Tags |-> {p \in ids : \A s \in StreamsIn(parts[p]) : t \in TagsOf[s]}]

(* A rebuild scans meta.json of every active part.                           *)
RebuildDayIndexDB(ids, parts) ==
    [t \in Tags |-> {p \in ids : \E s \in StreamsIn(parts[p]) : t \in TagsOf[s]}]

(* An index without a single tag (a missing one included) prunes nothing.    *)
PartsMatchingStreamEq(idx, ids, eq) ==
    IF eq = {} \/ \A t \in Tags : idx[t] = {}
    THEN ids
    ELSE {p \in ids : \A t \in eq : p \in idx[t]}
=============================================================================
