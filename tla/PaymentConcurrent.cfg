SPECIFICATION Spec
CONSTANTS
    w1 = w1
    w2 = w2
    i1 = i1
    p1 = p1
    p2 = p2
    None = None
    Workers = {w1, w2}
    Invoices = {i1}
    Purchases = {p1}
    Items <- MCOneItem
    Size <- MCSize
    HooksMayVeto = TRUE
    MaxCrashes = 1
    MaxRepeats = 0
    MaxReversals = 1
    Opening = 0
SYMMETRY TwoWorkers
INVARIANTS
    TypeOK
    MoneyComesFirst
