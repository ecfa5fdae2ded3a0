\* One merger, crashes at any step.
SPECIFICATION FairSpec
CONSTANTS
    r1 = r1  r2 = r2  r3 = r3  r4 = r4  r5 = r5
    a = a  b = b
    host = host  svcA = svcA  svcB = svcB
    m1 = m1  m2 = m2
    Tags = {host, svcA, svcB}
    Streams = {a, b}
    TagsOf <- MCTagsOf
    Rows = {r1, r2, r3, r4}
    StreamOf <- MCStreamOf4
    Mergers = {m1}
    MinPartsOf <- MCMinParts
    MergeMaxPartsPerJob = 2
    MaxRowsPerBlock = 2
    Searchers = {}
    Queries <- MCAllRows
    MaxId = 8
    MaxBatch = 2
    MaxCrashes = 2
    MaxFaults = 0
    MaxDrops = 0
INVARIANTS
    ManifestBacked
    NoRowTwice
    PartSeqAhead
PROPERTIES
    ImplementsLogStore
    GuaranteedFlush
    MergesCatchUp
\* The bounds on rows and ids end every behaviour.
CHECK_DEADLOCK FALSE
