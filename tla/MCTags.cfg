CONSTANTS
    None = None
    r1 = r1
    r2 = r2
    t1 = t1
    t2 = t2
    home = home
    office = office
    sugar = sugar
    salt = salt
    tata = tata
    fortune = fortune
    Keys = {home, office}
    BrandSets <- MCBrandSets
    TTL = 1
    MaxEntries = 1
    Requests = {r1, r2}
    TagUids = {t1, t2}
    Texts = {sugar, salt}
    Spins = {tata, fortune}
    BrandOf <- MCBrandOf
    Offers <- MCOffers
    Asks <- MCAsks
    InitialRows <- MCInitialRows
    CallTime = 0
    MaxTime = 2
SPECIFICATION FairSpec
INVARIANTS
    TypeOK
    CacheBounded
    NothingDiesAtCheckout
PROPERTIES
    RowsChangeOnSuccess
    BoundIsStored
    CachedBrandsAreRecent
    WritersEnd
CHECK_DEADLOCK FALSE
