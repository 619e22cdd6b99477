\* Two migrate processes rerun by an operator over one collection that is
\* still being written: does the target catch up?
SPECIFICATION FairSpec
CONSTANTS
    r1 = r1
    r2 = r2
    k1 = k1
    k2 = k2
    u = u
    v = v
    wide = wide
    nan = nan
    EmptyId = noId
    NoVector = noVector
    Runners = {r1, r2}
    Ids = {k1, k2}
    Vectors = {u, v}
    DimensionOf <- MCDimensionOf
    FiniteVectors <- MCFinite
    Dimension = 2
    FallbackLimit = 1
    TargetDims = {2}
    Preexisting <- MCPreexisting
    MaxRows = 2
    MaxChanges = 2
    MaxFaults = 1
INVARIANT SuccessIsComplete
PROPERTY RepairsStick RerunsConverge
CHECK_DEADLOCK FALSE
