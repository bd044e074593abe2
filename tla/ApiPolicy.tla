------------------------------ MODULE ApiPolicy ------------------------------
(***************************************************************************)
(* Who may do what through the API, and which reports it takes: the rules  *)
(* of common/policies.py as oslo.policy enforces them, the scope of a      *)
(* listing, and the validation of a report.  No state: operators that      *)
(* RiskApi and RiskListing share.                                          *)
(***************************************************************************)
EXTENDS Integers

CONSTANTS
    Tokens,     \* what the API's callers may present
    Projects,
    NoVal,      \* NULL, or an argument that is not given
    Empty       \* the empty string

(* What the code's truthiness tests take for missing.                      *)
Blank == {NoVal, Empty}
Given(v) == v \notin Blank

(* As keystone issues them: a system or a domain token names no project,   *)
(* and one without a scope no roles either.                                *)
ASSUME TokensAssumption ==
    /\ NoVal # Empty /\ Projects \cap Blank = {}
    /\ \A t \in Tokens :
        /\ t = [scope |-> t.scope, project |-> t.project, roles |-> t.roles]
        /\ t.scope \in {"system", "project", "domain", "unscoped"}
        /\ t.project \in Projects \cup {NoVal}
        /\ (t.scope = "project") <=> (t.project # NoVal)
        /\ t.scope = "unscoped" => t.roles = {}

-----------------------------------------------------------------------------
(* The base rules.  A keystone context's is_admin is never the 1 that      *)
(* admin_required asks for.                                                *)

SecurityAdmin(t) == "admin" \in t.roles

SystemReader(t) == "reader" \in t.roles /\ t.scope = "system"

AnyProjectReader(t) == SecurityAdmin(t) \/ SystemReader(t)

(* Mutant of Owner: the rule compares nothing with the target.             *)
OwnerOfAny(t, p) == t.project # NoVal

Owner(t, p) == t.project = p

ReaderOrOwner(t, p) ==
    AnyProjectReader(t) \/ ("reader" \in t.roles /\ Owner(t, p))

(* scope_types are system and project; an unscoped token passes for a      *)
(* project-scoped one.                                                     *)
InScope(t) == t.scope # "domain"

(* The rules of each resource; an operation that is not named is open.     *)
IPUsageRule(t, op) == InScope(t) /\ (op = "list:all" => AnyProjectReader(t))

TypeRule(t, op) ==
    InScope(t) /\ (op \in {"create", "update", "delete"} => SecurityAdmin(t))

RiskRule(t, op, p) ==
    /\ InScope(t)
    /\ op \in {"create", "delete"} => SecurityAdmin(t)
    /\ op = "get" => ReaderOrOwner(t, p)
    /\ op = "list:all" => AnyProjectReader(t)

-----------------------------------------------------------------------------
(* Listings.  a.project is the project asked for (one left empty is not    *)
(* asked for), a.all is all_projects; the scope of a listing is the set of *)
(* projects its rows may belong to.                                        *)

RowProjects == Projects \cup Blank

(* The rows a caller with a right to all projects asks for.                *)
Asked(a) == IF a.project = NoVal THEN RowProjects ELSE {a.project}

MayList(t, list, all) ==
    list /\ IF t.scope = "system" THEN all ELSE t.project # NoVal

(* Mutant of ListScope: all projects for the asking.                       *)
ListScopeAsAsked(t, a, all) ==
    IF t.scope = "system" \/ a.all \/ a.project # NoVal
    THEN Asked(a) ELSE {t.project}

ListScope(t, a, all) ==
    IF t.scope = "system" \/ (all /\ (a.all \/ a.project # NoVal))
    THEN Asked(a) ELSE {t.project}

MayListUsage(t) ==
    MayList(t, IPUsageRule(t, "list"), IPUsageRule(t, "list:all"))
UsageScope(t, a) == ListScope(t, a, IPUsageRule(t, "list:all"))

MayListAllRisks(t) == RiskRule(t, "list:all", NoVal)
MayListRisks(t) == MayList(t, RiskRule(t, "list", NoVal), MayListAllRisks(t))
RiskScope(t, a) == ListScope(t, a, MayListAllRisks(t))

-----------------------------------------------------------------------------
(* Reports.  An address is what the tests of utils.is_private_ip say of    *)
(* it: in a documentation network, in an extra private one, private to     *)
(* Python; or it is no address at all.                                     *)

IsPrivateIP(a) == ~a.docs /\ (a.extra \/ a.private)

(* Mutant of ReportMode: one of the resource fields is enough.             *)
ReportModeHalf(b) ==
    IF b.ip # NoVal THEN ~Given(b.project) /\ ~Given(b.resource)
    ELSE Given(b.project) \/ Given(b.resource)

(* A risk is reported by IP or by resource, never both, never half.  A     *)
(* resource field that is an empty string counts as left out; an empty     *)
(* address is no valid one.                                                *)
ReportMode(b) ==
    IF b.ip # NoVal
    THEN ~Given(b.project) /\ ~Given(b.resource) /\ ~Given(b.rtype)
    ELSE Given(b.project) /\ Given(b.resource) /\ Given(b.rtype)

ValidReport(b) == (b.ip # NoVal => b.ip.valid) /\ ReportMode(b)

=============================================================================
