CONSTANTS
    Workers = {w1, w2}
    None = None
    Scenes <- MCScenes
    Codes = {e, u}
    Base = e
    MaxRate = 1
    Rows = {m1, m2}
    Offers = {x, y}
    MaxPosition = 3
    Entities <- MCEntities
    Keys = {k1, k2}
    MaxBundle = 2
    Ids = {1, 2, 3, 4}
    PageSize = 2
    RowCap = 4
    Contents = {a, b}
    Backups = 2
    Segment = 2
    Levels = {r1, r2}
    Groups = {g1, g2}
SPECIFICATION Spec
INVARIANTS TypeOK CurrenciesAgree  CacheIsCurrent MembershipBetween
PROPERTIES ExchangeIsFaithful FileIsRegister SeedingAdds SeedingIsIdempotent
SYMMETRY Interchangeable
CHECK_DEADLOCK FALSE
