SPECIFICATION Spec
CONSTANTS
    Loads = {f, g, h}
    Budget = 2
    What <- MCWhat
INVARIANTS
    TypeOK
    EveryLoadIsBacked
    ExternalIsTransfers
    BudgetHolds
    AdapterKeepsOrder
PROPERTIES
    ImplementsLoadService
CHECK_DEADLOCK FALSE
