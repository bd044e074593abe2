-------------------------- MODULE MCIPUsageTracking --------------------------
(***************************************************************************)
(* Small instances of IPUsageTracking for TLC.                             *)
(***************************************************************************)
EXTENDS IPUsageTracking, TLC

CONSTANTS p1, p2, ipA, ipB, vm1, con1, con2, rec1, wrk1

OnePort == {p1}
TwoPorts == {p1, p2}
OneIP == {ipA}
TwoIPs == {ipA, ipB}
OneDevice == {vm1}
OneConsumer == {con1}
TwoConsumers == {con1, con2}
OneReconciler == {rec1}
OneRecorder == {wrk1}
Nobody == {}

Symmetric ==
    Permutations(Ports) \cup Permutations(IPs) \cup Permutations(Devices)
        \cup Permutations(Consumers) \cup Permutations(Reconcilers)

=============================================================================
