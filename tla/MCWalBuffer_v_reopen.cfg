\* Batches of one row, two restarts.
SPECIFICATION Spec
CONSTANTS
    r1 = r1  r2 = r2  r3 = r3  r4 = r4
    b1 = b1  b2 = b2
    Rows = {r1, r2, r3}
    Blocks = {b1, b2}
    Days = {"d1", "d2"}
    BlockOf <- MCBlockOf3
    DayOf <- MCTwoDays
    MaxRowsPerBlock = 2
    MaxBatch = 1
    MaxRestarts = 2
    MaxFaults = 0
INVARIANTS
    AckedVisible
\* The bounds on rows and restarts end every behaviour.
CHECK_DEADLOCK FALSE
