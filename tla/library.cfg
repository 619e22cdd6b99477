\* A command and a library caller that may take each other's connections;
\* two goroutines at the artifact store.
SPECIFICATION LibrarySpec
CONSTANTS
    p = p
    c = c
    Processes = {p}
    Callers = {c}
    Inputs <- MCInputs
    Limits = {1, 3}
    MaxOrphans = 1
    MaxFaults = 1
    Goroutines = {g1, g2}
    Paths = {k}
    Values = {v1, v2}
    Buffers = {b1, b2, b3, b4, b5}
    Missing = Missing
    None = None
INVARIANTS SessionTypeOK CommandsCloseWhatTheyOpen UnfaultedCommandsSucceed BadInputOpensNothing ClosedAnswersNothing CloseReleasesAll StoreTypeOK MapIsNotRaced NoStandstill
PROPERTY ImplementsAtomicStore EveryCallReturns
