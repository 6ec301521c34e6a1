SPECIFICATION Spec
CONSTANTS
    s1 = s1
    s2 = s2
    r1 = r1
    e1 = e1
    e2 = e2
    d1 = d1
    d2 = d2
    None = None
    Schedulers = {s1, s2}
    Requests = {r1}
    Endpoints = {e1}
    Deliveries = {d1, d2}
    EndpointOf <- SameEndpoint
    MaxAttempts = 2
    Threshold = 2
    MaxToggles = 1
    MaxCrashes = 1
INVARIANTS
    TypeOK
    GivenUpAfterAllAttempts
