\* Background worker, forced merge and a retention drop together.
SPECIFICATION Spec
CONSTANTS
    r1 = r1  r2 = r2  r3 = r3  r4 = r4  r5 = r5
    a = a  b = b
    host = host  svcA = svcA  svcB = svcB
    m1 = m1  m2 = m2
    Tags = {host, svcA, svcB}
    Streams = {a, b}
    TagsOf <- MCTagsOf
    Rows = {r1, r2, r3, r4, r5}
    StreamOf <- MCStreamOf5
    Mergers = {m1, m2}
    MinPartsOf <- MCMinPartsMixed
    MergeMaxPartsPerJob = 2
    MaxRowsPerBlock = 1
    Searchers = {}
    Queries <- MCAllRows
    MaxId = 5
    MaxBatch = 2
    MaxCrashes = 0
    MaxFaults = 0
    MaxDrops = 1
INVARIANTS
    OnlyMergesResurrect
PROPERTIES
    RowsApartUndisturbed
\* The bounds on rows and ids end every behaviour.
CHECK_DEADLOCK FALSE
