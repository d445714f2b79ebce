SPECIFICATION Spec
CONSTANTS
    Ids = {a}
    Net = net
    What = {a, net}
    Calls = {"ready"}
    MaxNow = 2
    FrameInterval = 1
    WaitTime = 1
    Window = 1
    Delays = {0, 1}
    MaxIterations = 2
    MaxRounds = 1
    MaxTransfers = 1
    MaxObserved = 1
INVARIANTS
    TypeOK
    CountersCoverWork
PROPERTIES
    ReadySound
    NotReadyHasReason
    QuiescentIsFinal
    GivesUpOnlyWhenStuck
CHECK_DEADLOCK FALSE
