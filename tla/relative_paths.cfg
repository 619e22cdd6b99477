\* One process, first in python/, then in the repository.
SPECIFICATION Spec
CONSTANTS
    v = v
    w = w
    j = j
    k = k
    NoFile = NoFile
    Empty = Empty
    Torn = Torn
    Nothing = Nothing
    Commands = {v}
    Jobs = {j}
    Invocations <- RelativeCalls
    MaxRuns = 2
    MaxFaults = 0
INVARIANT ComparesTheGeneratedArtifacts
CHECK_DEADLOCK FALSE
