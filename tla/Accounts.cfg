SPECIFICATION Spec
CONSTANTS
    w1 = w1  w2 = w2  u1 = u1  u2 = u2  a = a  t1 = t1  t2 = t2  t3 = t3  k1 = k1
    None = None
    Workers <- MCWorkers
    Users <- MCUsers
    Emails <- MCEmails
    Tokens <- MCTokens
    Keys <- MCKeys
    Scenes <- MCScenes
    MaxCrashes = 1
SYMMETRY Symmetry
INVARIANTS TypeOK TokensBounded 
PROPERTY RevokedForever
CHECK_DEADLOCK FALSE
