\* Background worker and forced merge together.
SPECIFICATION Spec
CONSTANTS
    r1 = r1  r2 = r2  r3 = r3  r4 = r4  r5 = r5
    a = a  b = b
    host = host  svcA = svcA  svcB = svcB
    m1 = m1  m2 = m2
    Tags = {host, svcA, svcB}
    Streams = {a, b}
    TagsOf <- MCTagsOf
    Rows = {r1, r2, r3}
    StreamOf <- MCStreamOf3
    Mergers = {m1, m2}
    MinPartsOf <- MCMinParts
    MergeMaxPartsPerJob = 2
    MaxRowsPerBlock = 2
    Searchers = {}
    Queries <- MCAllRows
    MaxId = 4
    MaxBatch = 1
    MaxCrashes = 0
    MaxFaults = 0
    MaxDrops = 0
INVARIANTS
    ManifestBacked
\* The bounds on rows and ids end every behaviour.
CHECK_DEADLOCK FALSE
