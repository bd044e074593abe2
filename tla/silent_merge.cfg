SPECIFICATION Spec
CONSTANTS
    r1 = r1  r2 = r2  r3 = r3
    rpc1 = rpc1  rpc2 = rpc2
    per1 = per1  per2 = per2
    NoVal = NoVal  Empty = Empty
    RiskIds <- Two
    RpcWorkers <- RpcPair
    Periodics <- PeriodicOne
    Reports <- SameResource
    UsageRows <- Nothing
    Databases <- Nothing
    TroveProject = "trove"
    Interval = 0
    MaxTime = 2
    MaxFaults = 1
SYMMETRY SymmetricBoth
PROPERTY SuppressedWasTold
