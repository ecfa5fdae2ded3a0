\* Appends, flushes and merges in every order.
SPECIFICATION Spec
CONSTANTS
    Rows = {1, 2, 3, 4, 5, 6}
    Msg = Msg  Time = Time  Stream = Stream
    host = host  service = service
    x = x  y = y  z = z  time2 = time2
    Slash = Slash  Colon = Colon
    Comma = Comma  Equals = Equals  Underscore = Underscore
    Unsafe = {Slash, Colon}
    TimeFile = "_time.col"
    GarbageTime = 0
    DayLen = 3
    MergeMaxPartsPerJob = 2
    Chars <- MCChars
    StreamFields <- MCStreamFields
    MissingMsg <- MCMissingMsg
    Default <- MCDefault
    BitOf <- MCBitOf
    RawOf <- MCRawOf
    RankOf <- MCRankOf
    FileOf <- MCFileOf
    Queries <- MCQueries
INVARIANTS
    TypeOK
    RowsReadBack
    PruningExact
\* The rows run out.
CHECK_DEADLOCK FALSE
