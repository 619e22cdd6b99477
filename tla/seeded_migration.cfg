\* Two seed-milvus commands recreating one collection under a migrate process.
SPECIFICATION SeedingSpec
CONSTANTS
    r1 = r1
    m1 = m1
    m2 = m2
    p1 = p1
    p2 = p2
    k1 = k1
    k2 = k2
    u = u
    v = v
    fine = fine
    huge = huge
    inf = inf
    wide = wide
    EmptyId = noId
    NoVector = noVector
    Runners = {r1}
    MilvusSeeders = {m1, m2}
    PGSeeders = {}
    FixtureOf <- MCRivals
    Narrow <- MCNarrow
    MaxDimension = 3
    Ids = {k1, k2}
    Vectors = {u, v, fine, huge, inf, wide}
    DimensionOf <- MCDimensionOf
    FiniteVectors <- MCFinite
    Dimension = 2
    FallbackLimit = 1
    TargetDims = {2}
    Preexisting <- MCPreexisting
    MaxRows = 0
    MaxChanges = 0
    MaxFaults = 1
INVARIANTS SeedTypeOK SeededExactly SeededFixtureMigrates
CHECK_DEADLOCK FALSE
