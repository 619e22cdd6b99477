\* The migration writes a column the target build does not search.
SPECIFICATION VerifySpec
CONSTANTS
    r1 = r1
    x = x
    y = y
    old = old
    a = a
    b = b
    c = c
    p = p
    q = q
    EmptyId = noId
    NoVector = noVector
    Runners = {r1}
    Ids = {x, y, old}
    Vectors = {a, b, c}
    DimensionOf <- MCDimensionOf
    FiniteVectors = {a, b, c}
    Dimension = 2
    FallbackLimit = 1
    TargetDims = {2}
    Preexisting <- MCPreexisting
    MaxRows = 2
    MaxChanges = 2
    MaxFaults = 0
    QueryIds = {p, q}
    Queries <- MCQueries
    QueryDimension = 2
    Flags <- MCOtherColumn
    Far <- MCFar
    Embedding <- MCEmbedding
    Scale = 6
INVARIANT VerifiesWhatItMigrated
