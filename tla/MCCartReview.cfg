CONSTANTS
    None = None
    r1 = r1
    r2 = r2
    w1 = w1
    a = a
    b = b
    Spins = {a, b}
    InitialCarts <- SomeCarts
    Requests = {r1}
    Workers = {w1}
    WorkerOf <- OneWorker
    Operations <- AllOperations
    LateWrites = FALSE
    ExternalEdits = {}
SPECIFICATION Spec
INVARIANTS
    NoWriteAfterReview
CHECK_DEADLOCK FALSE
