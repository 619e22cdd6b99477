\* One migrate-and-verify process, run again and again over a changing source
\* and a table with a row of an earlier migration.
SPECIFICATION VerifySpec
CONSTANTS
    r1 = r1
    x = x
    y = y
    old = old
    a = a
    b = b
    c = c
    p = p
    q = q
    EmptyId = noId
    NoVector = noVector
    Runners = {r1}
    Ids = {x, y, old}
    Vectors = {a, b, c}
    DimensionOf <- MCDimensionOf
    FiniteVectors = {a, b, c}
    Dimension = 2
    FallbackLimit = 1
    TargetDims = {0, 2}
    Preexisting <- MCPreexisting
    MaxRows = 2
    MaxChanges = 2
    MaxFaults = 1
    QueryIds = {p, q}
    Queries <- MCQueries
    QueryDimension = 2
    Flags <- MCFlags
    Far <- MCFar
    Embedding <- MCEmbedding
    Scale = 6
INVARIANTS VerifyTypeOK FaithfulCopyScoresPerfect PerfectScoreExcludesStaleRows WindowsAreSeenWhole
