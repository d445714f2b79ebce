SPECIFICATION FairSpec
CONSTANTS
    p1 = p1
    p2 = p2
    d1 = d1
    d2 = d2
    None = None
    Document <- TwoScripts
    Dynamic <- TwoCreated
    Mixes <- PassMixes
    Movable <- NoScripts
    What <- Loads
    MaxDocumentLoads = 0
    MaxOverrun = 1
INVARIANTS LoadWaitsForAsync HoldsAreBacked OrderedInTurn CurrentIsRunning
PROPERTIES OrderSpec LoadEnds OrderedDrain
CHECK_DEADLOCK FALSE
