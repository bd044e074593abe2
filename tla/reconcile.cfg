SPECIFICATION Spec
CONSTANTS
    p1 = p1  p2 = p2
    ipA = ipA  ipB = ipB
    vm1 = vm1
    con1 = con1  con2 = con2
    rec1 = rec1
    wrk1 = wrk1
    NoVal = NoVal
    Ports <- TwoPorts
    IPs <- TwoIPs
    Devices <- OneDevice
    Consumers <- OneConsumer
    Reconcilers <- OneReconciler
    Recorders <- OneRecorder
    Batch = 1
    MaxTime = 0
    MaxFaults = 0
    Lossy = TRUE
    Moving = FALSE
SYMMETRY Symmetric
INVARIANT IInv
PROPERTY ReconcileEndsOnlyGone
