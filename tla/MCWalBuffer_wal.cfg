\* Two days, batches of two rows, one restart, one failing file operation.
SPECIFICATION FairSpec
CONSTANTS
    r1 = r1  r2 = r2  r3 = r3  r4 = r4
    b1 = b1  b2 = b2
    Rows = {r1, r2, r3, r4}
    Blocks = {b1, b2}
    Days = {"d1", "d2"}
    BlockOf <- MCBlockOf4
    DayOf <- MCTwoDays
    MaxRowsPerBlock = 2
    MaxBatch = 2
    MaxRestarts = 1
    MaxFaults = 1
INVARIANTS
    TypeOK
    AckedVisible
    DuplicatesExplained
PROPERTIES
    CheckpointCatchesUp
\* The bounds on rows and restarts end every behaviour.
CHECK_DEADLOCK FALSE
