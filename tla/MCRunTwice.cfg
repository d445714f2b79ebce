SPECIFICATION Spec
CONSTANTS
    p1 = p1
    p2 = p2
    d1 = d1
    d2 = d2
    None = None
    Document <- TwoScripts
    Dynamic <- OneCreated
    Mixes <- Classic
    Movable <- FirstMovable
    What <- Loads
    MaxDocumentLoads = 0
    MaxOverrun = 1
INVARIANT EachRunsOnce
CHECK_DEADLOCK FALSE
