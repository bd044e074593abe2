SPECIFICATION Spec
CONSTANTS
    p1 = p1  p2 = p2
    ipA = ipA  ipB = ipB
    vm1 = vm1
    con1 = con1  con2 = con2
    rec1 = rec1
    wrk1 = wrk1
    NoVal = NoVal
    Ports <- TwoPorts
    IPs <- OneIP
    Devices <- OneDevice
    Consumers <- TwoConsumers
    Reconcilers <- Nobody
    Recorders <- Nobody
    Batch = 1
    MaxTime = 1
    MaxFaults = 0
    Lossy = FALSE
    Moving = TRUE
SYMMETRY Symmetric
PROPERTY GoneStaysClosed
