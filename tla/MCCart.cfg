CONSTANTS
    None = None
    r1 = r1
    r2 = r2
    w1 = w1
    a = a
    b = b
    Spins = {a, b}
    InitialCarts <- SomeCarts
    Requests = {r1, r2}
    Workers = {w1}
    WorkerOf <- OneWorker
    Operations <- AllOperations
    LateWrites = FALSE
    ExternalEdits = {}
SPECIFICATION Spec
INVARIANTS
    TypeOK
    LockInv
    AdditionsOnlyGrow
    ResultIsTrue
PROPERTIES
    ImplementsSerialCart
CHECK_DEADLOCK FALSE
