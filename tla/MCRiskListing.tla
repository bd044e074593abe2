---------------------------- MODULE MCRiskListing ----------------------------
(***************************************************************************)
(* Small instances of RiskApi and RiskListing for TLC.                     *)
(***************************************************************************)
EXTENDS RiskListing, TLC

CONSTANTS c1, c2, t1, t2, n1, n2, vm, own, ops

Token(scope, project, roles) ==
    [scope |-> scope, project |-> project, roles |-> roles]

Admin == Token("project", ops, {"admin", "member", "reader"})
SystemReaderOnly == Token("system", NoVal, {"reader"})
SystemNobody == Token("system", NoVal, {})
OwnerReader == Token("project", own, {"reader"})
OwnerMember == Token("project", own, {"custom"})
DomainAdmin == Token("domain", NoVal, {"admin"})
Unscoped == Token("unscoped", NoVal, {})

AllTokens == {Admin, SystemReaderOnly, SystemNobody, OwnerReader,
              OwnerMember, DomainAdmin, Unscoped}
TwoProjects == {own, ops}

Address(valid, docs, extra, private) ==
    [valid |-> valid, docs |-> docs, extra |-> extra, private |-> private]
Global == Address(TRUE, FALSE, FALSE, FALSE)
Sample == Address(TRUE, TRUE, FALSE, TRUE)
SharedNat == Address(TRUE, FALSE, TRUE, FALSE)
Garbage == Address(FALSE, FALSE, FALSE, FALSE)

Body(t, a, p, r) ==
    [type |-> t, ip |-> a, project |-> p, resource |-> r,
     rtype |-> IF Given(r) THEN "instance" ELSE r]

(* The rows refer to one of the types, the other comes and goes.           *)
Posted ==
    {Body(t1, Sample, NoVal, NoVal), Body(t1, Garbage, NoVal, NoVal),
     Body(t1, SharedNat, NoVal, NoVal), Body(t1, NoVal, own, vm),
     Body(t1, NoVal, own, Empty), Body(t1, Sample, own, vm),
     Body(t1, Sample, Empty, Empty)}

SymmetricNames == Permutations(Names)

Query(all, project, type, limit) ==
    [all |-> all, project |-> project, type |-> type, limit |-> limit]
OneLists == [c \in Clients |-> IF c # c1 THEN {} ELSE
    {Query(TRUE, NoVal, NoVal, NoVal), Query(FALSE, NoVal, NoVal, 0)}]

Held == [c \in Clients |->
            IF c = c1 THEN {Admin, OwnerReader} ELSE {Admin, DomainAdmin}]

TwoClients == {c1, c2}
TwoTypes == {t1, t2}
TwoNames == {n1, n2}
OneVm == {vm}

=============================================================================
