SPECIFICATION Spec
CONSTANTS
    w1 = w1
    s1 = s1
    a = a
    b = b
    c = c
    c1 = c1
    NoConfig = NoConfig
    Workers = {w1}
    Shells = {s1}
    Plugins = {a, b, c}
    Deployments <- MCDeployments
    Installs <- MCInstalls
    Defaults = {a, c}
    Configs = {c1}
    MaxRequests = 2
INVARIANTS
    TypeOK
    BootEnablesBootable
    ActiveIsLicensed
    EnabledIsPersisted
    CommandOutlivesShell
