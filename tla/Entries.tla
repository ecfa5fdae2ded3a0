------------------------------ MODULE Entries ------------------------------
(* Entries and the names of streams (entry.go, safeStreamDir of block.go).   *)
(* Values and names are sequences of characters; the name of a field counts  *)
(* as one character.                                                         *)
EXTENDS Integers, SequencesExt

CONSTANTS Chars,                \* all characters; the names of fields are among them
          StreamFields,         \* Options.StreamFields, sorted by name
          Msg, Time, Stream,    \* the fields "_msg", "_time", "_stream"
          MissingMsg,           \* "missing _msg"
          Default,              \* "_default"
          Comma, Equals, Underscore,
          Unsafe                \* characters no directory may have

ASSUME EntriesAssumption ==
    /\ StreamFields \in Seq(Chars) /\ IsInjective(StreamFields)
    /\ {MissingMsg, Default} \subseteq Seq(Chars) \ {<< >>}
    /\ {Comma, Equals} \subseteq Chars /\ Comma # Equals
    /\ Msg # Time /\ Msg # Stream /\ Time # Stream
    /\ {Comma, Equals} \cap (ToSet(Default) \cup ToSet(StreamFields)) = {}

(* StreamID: the tags of the non-empty stream fields, joined by commas.      *)
StreamID(fields) ==
    LET tag(k) == <<k, Equals>> \o fields[k]
        id[i \in 0..Len(StreamFields)] ==
            IF i = 0 THEN << >>
            ELSE IF StreamFields[i] \notin DOMAIN fields THEN id[i - 1]
            ELSE IF id[i - 1] = << >> THEN tag(StreamFields[i])
            ELSE id[i - 1] \o <<Comma>> \o tag(StreamFields[i])
    IN  IF id[Len(StreamFields)] = << >> THEN Default ELSE id[Len(StreamFields)]

(* normalize, of an entry with a time.                                       *)
Normalize(e) ==
    LET named == {k \in DOMAIN e.fields \ {Time, Stream} : e.fields[k] # << >>}
        kept  == [k \in named \cup {Msg} |-> IF k \in named THEN e.fields[k]
                                                            ELSE MissingMsg]
    IN  [time   |-> e.time,
         fields |-> [k \in DOMAIN kept \cup {Stream} |->
                        IF k = Stream THEN StreamID(kept) ELSE kept[k]]]

MsgOf(e) == IF Msg \in DOMAIN e.fields THEN e.fields[Msg] ELSE << >>

(* The parts of a stream id between commas, as <<first, last>> positions.    *)
PartsOf(id) ==
    LET cuts == {i \in DOMAIN id : id[i] = Comma} \cup {0, Len(id) + 1}
    IN  UNION {{<<i + 1, j - 1>> : j \in {m \in cuts :
                    i < m /\ \A n \in cuts : n <= i \/ n >= m}} : i \in cuts}

(* ParseStreamTags(id)[k]: what follows the first equals sign of the last    *)
(* part with this key.                                                       *)
TagOf(id, k) ==
    LET hits == {p \in PartsOf(id) : p[1] < p[2] /\ id[p[1]] = k /\ id[p[1] + 1] = Equals}
        last == CHOOSE p \in hits : \A o \in hits : o[1] <= p[1]
    IN  IF hits = {} THEN << >> ELSE SubSeq(id, last[1] + 2, last[2])

(* An empty value asks for nothing.                                          *)
StreamMatchesTags(id, eq) ==
    \A k \in DOMAIN eq : eq[k] # << >> => TagOf(id, k) = eq[k]

SafeStreamDir(id) ==
    IF id = << >> THEN Default
    ELSE [i \in DOMAIN id |-> IF id[i] \in Unsafe THEN Underscore ELSE id[i]]
=============================================================================
