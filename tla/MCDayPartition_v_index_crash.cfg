\* A crash between manifest.json and indexdb.json.
SPECIFICATION Spec
CONSTANTS
    r1 = r1  r2 = r2  r3 = r3  r4 = r4  r5 = r5
    a = a  b = b
    host = host  svcA = svcA  svcB = svcB
    m1 = m1  m2 = m2
    Tags = {host, svcA, svcB}
    Streams = {a, b}
    TagsOf <- MCTagsOf
    Rows = {r1, r2}
    StreamOf <- MCStreamOf2
    Mergers = {}
    MinPartsOf <- MCMinParts
    MergeMaxPartsPerJob = 2
    MaxRowsPerBlock = 2
    Searchers = {}
    Queries <- MCQueries
    MaxId = 3
    MaxBatch = 2
    MaxCrashes = 1
    MaxFaults = 0
    MaxDrops = 0
INVARIANTS
    IndexSound
\* The bounds on rows and ids end every behaviour.
CHECK_DEADLOCK FALSE
