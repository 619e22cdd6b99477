\* The row count of a collection that is not flushed yet is zero.
SPECIFICATION Spec
CONSTANTS
    r1 = r1
    r2 = r2
    k1 = k1
    k2 = k2
    u = u
    v = v
    wide = wide
    nan = nan
    EmptyId = noId
    NoVector = noVector
    Runners = {r1}
    Ids = {k1, k2, noId}
    Vectors = {u, v}
    DimensionOf <- MCDimensionOf
    FiniteVectors <- MCFinite
    Dimension = 2
    FallbackLimit = 1
    TargetDims = {2}
    Preexisting <- MCPreexisting
    MaxRows = 2
    MaxChanges = 3
    MaxFaults = 1
INVARIANT SmallCollectionKept
CHECK_DEADLOCK FALSE
