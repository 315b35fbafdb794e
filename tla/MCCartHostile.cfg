CONSTANTS
    None = None
    r1 = r1
    r2 = r2
    w1 = w1
    a = a
    b = b
    Spins = {a}
    InitialCarts <- OneOfEach
    Requests = {r1, r2}
    Workers = {w1}
    WorkerOf <- OneWorker
    Operations <- OneSpinOperations
    LateWrites = TRUE
    ExternalEdits = {0}
SPECIFICATION FairSpec
INVARIANTS
    NeverWritesEmptyCart
    UnrejectedLanded
PROPERTIES
    EveryRequestLeaves
CHECK_DEADLOCK FALSE
