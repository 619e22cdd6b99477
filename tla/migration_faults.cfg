\* One migrate process against a changing source, with failures, bad records
\* and a target table that may be missing or have another dimension.
SPECIFICATION Spec
CONSTANTS
    r1 = r1
    r2 = r2
    k1 = k1
    k2 = k2
    u = u
    v = v
    wide = wide
    nan = nan
    EmptyId = noId
    NoVector = noVector
    Runners = {r1}
    Ids = {k1, k2, noId}
    Vectors = {u, v, wide, nan}
    DimensionOf <- MCDimensionOf
    FiniteVectors <- MCFinite
    Dimension = 2
    FallbackLimit = 1
    TargetDims = {0, 2, 3}
    Preexisting <- MCPreexisting
    MaxRows = 2
    MaxChanges = 3
    MaxFaults = 1
INVARIANTS TypeOK TargetProvenance OnlyValidRowsReachTarget SuccessIsComplete PartialRunIsPrefix
PROPERTY ImplementsContract
CHECK_DEADLOCK FALSE
