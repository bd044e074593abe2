SPECIFICATION Spec
CONSTANTS
    r1 = r1  r2 = r2  r3 = r3
    rpc1 = rpc1  rpc2 = rpc2
    per1 = per1  per2 = per2
    NoVal = NoVal  Empty = Empty
    RiskIds <- One
    RpcWorkers <- RpcPair
    Periodics <- PeriodicOne
    Reports <- ByAddress
    UsageRows <- Ports
    Databases <- OneDatabase
    TroveProject = "trove"
    Interval = 0
    MaxTime = 2
    MaxFaults = 1
SYMMETRY SymmetricBoth
INVARIANT NotifiedOnce
