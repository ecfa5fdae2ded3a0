\* Two deletes among appends, flushes, drops that may fail and be tried again,
\* a merge in flight, and restarts, with and without the log.
SPECIFICATION Spec
CONSTANTS
    r1 = r1  r2 = r2
    p = p
    Rows = {r1, r2}
    TimeOf <- MCTimeOf
    Preds = {p}
    Satisfying <- MCSatisfying
    NoPred = NoPred
    Specs <- MCSpecs
    DayLen = 2
    Days = {0, 1}
    WALModes = {TRUE, FALSE}
    MaxDeletes = 2
    MaxRestarts = 2
    MaxFaults = 2
    MaxDrops = 2
    MaxMerges = 1
INVARIANTS
    TypeOK
    DeletedStaysHidden
    HiddenOnlyByRequest
    TombstonesMirrored
\* The bounds end every behaviour.
CHECK_DEADLOCK FALSE
