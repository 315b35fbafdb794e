CONSTANTS
    r1 = r1
    r2 = r2
    r3 = r3
    rice = rice
    salt = salt
    Requests = {r1, r2, r3}
    Staples = {rice, salt}
    Bought <- SomeBought
    Unavailable <- SomeUnavailable
    LateOrders = TRUE
    Interruptions = TRUE
SPECIFICATION Spec
INVARIANTS
    OneCheckoutInFlight
    UnknownShowsTheOrder
    RowsTellTheTruth
    StampsAreOrderTimes
PROPERTIES
    RowsSettleOnce
