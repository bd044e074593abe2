-------------------------- MODULE MCRiskProcessing --------------------------
(***************************************************************************)
(* Small instances of RiskProcessing for TLC.                              *)
(***************************************************************************)
EXTENDS RiskProcessing, TLC

CONSTANTS r1, r2, r3, rpc1, rpc2, per1, per2

\* Two reports of one exposure, resource-first: the later one lives longer.
OnResource(t, e) ==
    [type |-> "vuln", ip |-> NoVal, notify |-> TRUE, time |-> t,
     expires |-> e, project |-> "owner", resource |-> "vm",
     rtype |-> "instance"]

SameResource == {OnResource(0, 0), OnResource(1, 2)}

\* A report of an address, and the ports that may have held it: one of a plain
\* instance, there all along, gone after time 0 or moved to another address, and
\* one of a trove instance.
Addressed(t, e, prj, vm) ==
    [type |-> "vuln", ip |-> "addr", notify |-> TRUE, time |-> t,
     expires |-> e, project |-> prj, resource |-> vm, rtype |-> NoVal]

OnAddress(t, e) == Addressed(t, e, NoVal, NoVal)

PortRow(p, a, prj, vm, e) ==
    [port |-> p, ip |-> a, project |-> prj, resource |-> vm,
     rtype |-> "instance", start |-> 0, end |-> e]

PlainPort == PortRow("p1", "addr", "owner", "vm", NoVal)
ClosedPort == PortRow("p1", "addr", "owner", "vm", 0)
MovedPort == PortRow("p1", "elsewhere", "owner", "vm", NoVal)
TrovePort == PortRow("p2", "addr", "trove", "dbvm", NoVal)

ByAddress == {OnAddress(0, 0)}
Ports == {PlainPort, ClosedPort, TrovePort}

\* The columns of a resource left NULL, or an empty string in one of them.
ByAddressOrBlank ==
    {OnAddress(0, 0), Addressed(0, 0, NoVal, Empty),
     Addressed(0, 0, Empty, Empty)}
MovingPorts == {PlainPort, MovedPort, TrovePort}

OnDatabase(t, e) ==
    [type |-> "vuln", ip |-> NoVal, notify |-> TRUE, time |-> t,
     expires |-> e, project |-> "customer", resource |-> "db",
     rtype |-> "database"]
AddressAndDb == {Addressed(0, 0, Empty, NoVal), OnDatabase(0, 1)}
OneDatabase == {[project |-> "customer", resource |-> "db"]}

Two == {r1, r2}
Three == {r1, r2, r3}
One == {r1}
RpcPair == {rpc1, rpc2}
RpcOne == {rpc1}
PeriodicOne == {per1}
Nothing == {}

SymmetricIds == Permutations(RiskIds)
SymmetricBoth == Permutations(RpcPair) \cup Permutations(RiskIds)

=============================================================================
