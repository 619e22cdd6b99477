\* Two builds and one comparison, every ranking of three of four ids.
SPECIFICATION Spec
CONSTANTS
    q1 = q1
    q2 = q2
    a = a
    b = b
    c = c
    d = d
    EmptyId = noId
    QueryIds = {q1, q2, noId}
    HitIds <- MCHitIds
    Scale = 60
    Fixtures <- MCFixtures
    Options <- MCOptions
    Responses <- MCResponses
INVARIANTS TypeOK LeadingHitsAreBestRanked ArtifactsAreWhole PerfectScoreMeansSameBehaviour ScoreBounds
CHECK_DEADLOCK FALSE
