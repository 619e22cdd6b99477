\* One process runs a job twice, the second time with a fault.
SPECIFICATION Spec
CONSTANTS
    v = v
    w = w
    j = j
    k = k
    NoFile = NoFile
    Empty = Empty
    Torn = Torn
    Nothing = Nothing
    Commands = {v}
    Jobs = {j}
    Invocations <- OfflineCalls
    MaxRuns = 2
    MaxFaults = 1
INVARIANT PartialRunIsNotMistaken
CHECK_DEADLOCK FALSE
