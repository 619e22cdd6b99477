\* Two processes, two runs each, every command, one fault.
SPECIFICATION Spec
CONSTANTS
    v = v
    w = w
    j = j
    k = k
    NoFile = NoFile
    Empty = Empty
    Torn = Torn
    Nothing = Nothing
    Commands = {v, w}
    Jobs = {j, k}
    Invocations <- AbsoluteCalls
    MaxRuns = 2
    MaxFaults = 1
SYMMETRY Processes
INVARIANTS TypeOK SuccessIsTrue ResultsAreEarned OnlyFaultsFail
CHECK_DEADLOCK FALSE
