SPECIFICATION FairSpec
CONSTANTS
    w1 = w1
    w2 = w2
    i1 = i1
    p1 = p1
    p2 = p2
    None = None
    Workers = {w1}
    Invoices = {i1}
    Purchases = {p1, p2}
    Items <- MCTwoItems
    Size <- MCSizes
    HooksMayVeto = FALSE
    MaxCrashes = 1
    MaxRepeats = 1
    MaxReversals = 1
    Opening = 0
INVARIANTS
    BooksAgree

    
