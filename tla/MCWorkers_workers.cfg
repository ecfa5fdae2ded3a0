\* Two days, two requests, one failing flush, any start, any broken days.
SPECIFICATION FairSpec
CONSTANTS
    i1 = i1  i2 = i2  i3 = i3
    Requests = {i1, i2}
    DayOf <- MCDayOf
    WantFlush = {i1}
    Days = {1, 2}
    MaxRowsPerBlock = 2
    MergeMinParts = 2
    MergeMaxPartsPerJob = 2
    InitSmall = {2}
    BadDays = {2}
    MaxFaults = 1
INVARIANTS
    TypeOK
    AckedDurable
    FlushedIsDurable
PROPERTIES
    ShutdownEnds
    PassesReachDays
    ExpiredDropped
\* The process ends.
CHECK_DEADLOCK FALSE
