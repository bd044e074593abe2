------------------------------- MODULE RiskApi -------------------------------
(***************************************************************************)
(* The requests of the API that read or write risk types and risks, from   *)
(* any number of clients at once, over the two tables they share with the  *)
(* workers.  A step is what the database sees at once: a request's reads   *)
(* (they share the snapshot of the first) or one commit.                   *)
(***************************************************************************)
EXTENDS ApiPolicy

CONSTANTS
    Clients,    \* callers, each with one request at a time
    Holds,      \* client -> the tokens it may present
    TypeIds, RiskIds,   \* identifiers
    Names,      \* names of risk types
    Bodies,     \* the reports clients may post
    Resources   \* what a worker may attribute a risk to

(* The payload of a report, valid or not.                                  *)
ASSUME BodiesAssumption ==
    \A b \in Bodies :
        /\ b = [type |-> b.type, ip |-> b.ip, project |-> b.project,
                resource |-> b.resource, rtype |-> b.rtype]
        /\ b.type \in TypeIds /\ b.project \in RowProjects
        /\ b.resource \in Resources \cup Blank
        /\ b.ip # NoVal =>
            b.ip = [valid |-> b.ip.valid, docs |-> b.ip.docs,
                    extra |-> b.ip.extra, private |-> b.ip.private]
ASSUME ClientsAssumption == Holds \in [Clients -> SUBSET Tokens]
ASSUME NullAssumption ==
    /\ NoVal \notin TypeIds \cup RiskIds \cup Names
    /\ Resources \cap Blank = {}

VARIABLES
    types,      \* the security_risk_type table: id -> name, or NoVal
    risks,      \* the security_risk table: id -> row, or NoVal
    cast,       \* history: ids whose processing was cast since they are used
    req         \* client -> its request, the last one once it is answered

tables == <<types, risks, cast>>
vars == <<tables, req>>

(* op, the token, the id it is about and what came with it; once a risk is *)
(* created, the answer's code.                                             *)
NoRequest == [op |-> "none", by |-> NoVal, id |-> NoVal, arg |-> NoVal,
              step |-> "done", code |-> 0]

Init ==
    /\ types = [t \in TypeIds |-> NoVal]
    /\ risks = [i \in RiskIds |-> NoVal]
    /\ cast = {}
    /\ req = [c \in Clients |-> NoRequest]

-----------------------------------------------------------------------------
(* Requests and answers.                                                   *)

Codes == {200, 201, 204, 400, 403, 404, 409, 422, 500}

Ready(c) == req[c].step = "done"
At(c, step) == req[c].step = step

(* The request was authorised and goes on at the step named.               *)
GoOn(c, op, t, i, arg, step) ==
    req' = [req EXCEPT ![c] = [op |-> op, by |-> t, id |-> i, arg |-> arg,
                               step |-> step, code |-> 0]]

(* The answer to a risk's creation, which names the risk.                  *)
AnswerCreated(c) ==
    req' = [req EXCEPT ![c] =
                [op |-> "create_risk", by |-> req[c].by, id |-> req[c].id,
                 arg |-> NoVal, step |-> "done", code |-> 201]]

(* Any other answer is forgotten.                                          *)
Finish(c, code) == code \in Codes /\ req' = [req EXCEPT ![c] = NoRequest]

Refuse(c, code) == code >= 400 /\ Finish(c, code) /\ UNCHANGED tables

-----------------------------------------------------------------------------
(* Risk types.                                                             *)

NameTaken(n) == \E t \in TypeIds : types[t] = n

InUse(t) == \E i \in RiskIds : risks[i] # NoVal /\ risks[i].type = t

(* A new id is one that no row and no request knows.                       *)
Unused(i) == \A c \in Clients : req[c].id # i

(* The unique name is checked by the commit alone.  The row is read again  *)
(* for the answer, which fails (500) if it is gone by then.                *)
CreateType(c, t, i, n) ==
    /\ Ready(c) /\ types[i] = NoVal /\ Unused(i)
    /\ \/ ~TypeRule(t, "create") /\ Refuse(c, 403)
       \/ TypeRule(t, "create") /\ NameTaken(n) /\ Refuse(c, 409)
       \/ /\ TypeRule(t, "create") /\ ~NameTaken(n)
          /\ types' = [types EXCEPT ![i] = n]
          /\ \E code \in {201, 500} : Finish(c, code)
          /\ UNCHANGED <<risks, cast>>

ShowType(c, t, i) ==
    /\ Ready(c)
    /\ \/ types[i] = NoVal /\ Refuse(c, 404)
       \/ types[i] # NoVal /\ ~TypeRule(t, "get") /\ Refuse(c, 403)
       \/ types[i] # NoVal /\ TypeRule(t, "get")
          /\ Finish(c, 200) /\ UNCHANGED tables

(* A caller who may not change it is told the type does not exist.         *)
PatchType(c, t, i, n) ==
    /\ Ready(c)
    /\ IF types[i] = NoVal \/ ~TypeRule(t, "update")
       THEN Refuse(c, 404)
       ELSE GoOn(c, "patch_type", t, i, [from |-> types[i], to |-> n], "patch")
            /\ UNCHANGED tables

(* The UPDATE is sent if the name differs from the one loaded.  The row    *)
(* may be gone by then (StaleDataError, or ObjectDeletedError once it is   *)
(* read again for the answer), or the name taken (IntegrityError).         *)
PatchCommit(c) ==
    LET i == req[c].id  arg == req[c].arg  sent == arg.to # arg.from IN
    /\ At(c, "patch")
    /\ \/ /\ types[i] = NoVal
          /\ Finish(c, 500) /\ UNCHANGED tables
       \/ /\ types[i] # NoVal /\ sent
          /\ \E t \in TypeIds \ {i} : types[t] = arg.to
          /\ Finish(c, 409) /\ UNCHANGED tables
       \/ /\ types[i] # NoVal
          /\ sent => \A t \in TypeIds \ {i} : types[t] # arg.to
          /\ types' = IF sent THEN [types EXCEPT ![i] = arg.to] ELSE types
          /\ \E code \in {200, 500} : Finish(c, code)
          /\ UNCHANGED <<risks, cast>>

(* Mutant of DeleteType: the caller's rights are not checked.              *)
DeleteTypeUnchecked(c, t, i) ==
    /\ Ready(c)
    /\ \/ types[i] = NoVal /\ Refuse(c, 404)
       \/ types[i] # NoVal /\ ~InUse(i)
          /\ GoOn(c, "delete_type", t, i, NoVal, "drop") /\ UNCHANGED tables

(* The manager's search for risks of the type sees the snapshot in which   *)
(* the type was loaded.                                                    *)
DeleteType(c, t, i) ==
    LET found == types[i] # NoVal /\ TypeRule(t, "delete") IN
    /\ Ready(c)
    /\ \/ ~found /\ Refuse(c, 404)
       \/ found /\ InUse(i) /\ Refuse(c, 409)
       \/ found /\ ~InUse(i)
          /\ GoOn(c, "delete_type", t, i, NoVal, "drop") /\ UNCHANGED tables

(* The foreign key: the database refuses to delete a type that a risk has  *)
(* come to use since, and to insert a risk of a type that is gone.         *)
(* Mutant of DropAllowed: no foreign key, only the search above.           *)
DropUnconstrained(t) == TRUE

DropAllowed(t) == ~InUse(t)

(* Deleting a row that is gone already is no error.                        *)
DropType(c) ==
    LET i == req[c].id IN
    /\ At(c, "drop")
    /\ \/ ~DropAllowed(i) /\ Finish(c, 500) /\ UNCHANGED tables
       \/ /\ DropAllowed(i)
          /\ types' = [types EXCEPT ![i] = NoVal]
          /\ Finish(c, 204) /\ UNCHANGED <<risks, cast>>

-----------------------------------------------------------------------------
(* Risks.                                                                  *)

(* What loading a report may refuse, in the order of the code.             *)
Refusal(t, b) ==
    IF ~RiskRule(t, "create", NoVal) THEN 403
    ELSE IF ~ValidReport(b) THEN 422
    ELSE IF types[b.type] = NoVal THEN 404
    ELSE IF b.ip # NoVal /\ IsPrivateIP(b.ip) THEN 400
    ELSE 0

CreateRisk(c, t, i, b) ==
    /\ Ready(c) /\ risks[i] = NoVal /\ Unused(i)
    /\ \/ Refusal(t, b) # 0 /\ Refuse(c, Refusal(t, b))
       \/ /\ Refusal(t, b) = 0
          /\ cast' = cast \ {i}
          /\ GoOn(c, "create_risk", t, i, b, "insert")
          /\ UNCHANGED <<types, risks>>

NewRow(b) == [type |-> b.type, ip |-> b.ip, project |-> b.project,
              resource |-> b.resource]

(* The type may be gone since it was looked up: an IntegrityError.         *)
InsertRisk(c) ==
    LET i == req[c].id  b == req[c].arg IN
    /\ At(c, "insert")
    /\ \/ /\ types[b.type] = NoVal
          /\ Finish(c, 500) /\ UNCHANGED tables
       \/ /\ types[b.type] # NoVal
          /\ risks' = [risks EXCEPT ![i] = NewRow(b)]
          /\ GoOn(c, "create_risk", req[c].by, i, NoVal, "cast")
          /\ UNCHANGED <<types, cast>>

(* Mutant of CastRisk: answered, although there was nothing to cast.       *)
CastOrNot(c) ==
    LET i == req[c].id IN
    /\ At(c, "cast")
    /\ cast' = IF risks[i] = NoVal THEN cast ELSE cast \cup {i}
    /\ AnswerCreated(c)
    /\ UNCHANGED <<types, risks>>

(* The commit expired the risk, and its id is read again for the cast: a   *)
(* worker or another request may have removed it.                          *)
CastRisk(c) ==
    LET i == req[c].id IN
    /\ At(c, "cast")
    /\ \/ risks[i] = NoVal /\ Finish(c, 500) /\ UNCHANGED tables
       \/ /\ risks[i] # NoVal
          /\ cast' = cast \cup {i}
          /\ AnswerCreated(c)
          /\ UNCHANGED <<types, risks>>

(* To a caller who may not see it, a risk does not exist.                  *)
ShowRisk(c, t, i) ==
    /\ Ready(c)
    /\ IF risks[i] # NoVal /\ RiskRule(t, "get", risks[i].project)
       THEN Finish(c, 200) /\ UNCHANGED tables
       ELSE Refuse(c, 404)

DeleteRisk(c, t, i) ==
    /\ Ready(c)
    /\ IF risks[i] # NoVal /\ RiskRule(t, "delete", risks[i].project)
       THEN GoOn(c, "delete_risk", t, i, NoVal, "remove") /\ UNCHANGED tables
       ELSE Refuse(c, 404)

RemoveRisk(c) ==
    /\ At(c, "remove")
    /\ risks' = [risks EXCEPT ![req[c].id] = NoVal]
    /\ Finish(c, 204) /\ UNCHANGED <<types, cast>>

(* An error of the database or the broker, or the end of the process.      *)
Fail(c) == ~Ready(c) /\ Finish(c, 500) /\ UNCHANGED tables

-----------------------------------------------------------------------------
(* The workers: a risk is given an owner, or another one (the customer of  *)
(* a trove database); any risk may be merged into another or cleaned.      *)

WorkerAttributes(i, p, r) ==
    /\ risks[i] # NoVal
    /\ risks' = [risks EXCEPT ![i] = [@ EXCEPT !.project = p, !.resource = r]]
    /\ UNCHANGED <<types, cast, req>>

WorkerRemoves(i) ==
    /\ risks[i] # NoVal
    /\ risks' = [risks EXCEPT ![i] = NoVal]
    /\ UNCHANGED <<types, cast, req>>

Request(c, t) ==
    \/ \E i \in TypeIds :
        \/ \E n \in Names : CreateType(c, t, i, n) \/ PatchType(c, t, i, n)
        \/ ShowType(c, t, i) \/ DeleteType(c, t, i)
    \/ \E i \in RiskIds :
        \/ \E b \in Bodies : CreateRisk(c, t, i, b)
        \/ ShowRisk(c, t, i) \/ DeleteRisk(c, t, i)

Progress(c) ==
    \/ PatchCommit(c) \/ DropType(c) \/ InsertRisk(c) \/ CastRisk(c)
    \/ RemoveRisk(c) \/ Fail(c)

ClientStep(c) == Progress(c) \/ \E t \in Holds[c] : Request(c, t)

WorkerStep ==
    \E i \in RiskIds :
        \/ \E p \in Projects, r \in Resources : WorkerAttributes(i, p, r)
        \/ WorkerRemoves(i)

Next == (\E c \in Clients : ClientStep(c)) \/ WorkerStep

Spec == Init /\ [][Next]_vars

-----------------------------------------------------------------------------
(* Types.                                                                  *)

RowSet == [type : TypeIds, ip : {b.ip : b \in Bodies}, project : RowProjects,
           resource : Resources \cup Blank]

Ops == {"none", "patch_type", "delete_type", "create_risk", "delete_risk"}
Steps == {"done", "patch", "drop", "insert", "cast", "remove"}

RequestSet ==
    [op : Ops, by : Tokens \cup {NoVal},
     id : TypeIds \cup RiskIds \cup {NoVal},
     arg : {NoVal} \cup [from : Names, to : Names] \cup Bodies,
     step : Steps, code : Codes \cup {0}]

(* Every variable holds a value the code could have put there.             *)
TypeOK ==
    /\ types \in [TypeIds -> Names \cup {NoVal}]
    /\ risks \in [RiskIds -> RowSet \cup {NoVal}]
    /\ cast \subseteq RiskIds
    /\ req \in [Clients -> RequestSet]

-----------------------------------------------------------------------------
(* Safety.                                                                 *)

(* The tables refer to each other: every risk is of a type that exists,    *)
(* whatever creations and deletions cross, and no two types share a name.  *)
References ==
    /\ \A i \in RiskIds : risks[i] # NoVal => types[risks[i].type] # NoVal
    /\ \A s, t \in TypeIds : types[s] # NoVal /\ types[s] = types[t] => s = t

(* What is stored was reported by a public address, or by a resource; and  *)
(* it names a whole owner or none.  A column of no owner may be NULL or an *)
(* empty string: a report by address is stored with what it left empty.    *)
StoredReports ==
    \A i \in RiskIds : risks[i] # NoVal =>
        LET r == risks[i] IN
        /\ r.ip # NoVal => r.ip.valid /\ ~IsPrivateIP(r.ip)
        /\ r.ip = NoVal => Given(r.resource)
        /\ Given(r.project) <=> Given(r.resource)

(* A caller who was told of a new risk can count on its processing: it was *)
(* cast, whatever happened to the risk between its commit and the answer.  *)
CreatedIsCast ==
    \A c \in Clients :
        req[c].op = "create_risk" /\ req[c].code = 201 => req[c].id \in cast

ListArgs == [all : BOOLEAN, project : Projects \cup {NoVal}]

(* The projects whose risks a caller may be shown, and those it can list.  *)
Shows == [t \in Tokens |-> {p \in RowProjects : RiskRule(t, "get", p)}]
Lists == [t \in Tokens |->
    IF MayListRisks(t) THEN UNION {RiskScope(t, a) : a \in ListArgs} ELSE {}]

(* The IP usage is listed to the same callers for the same projects.       *)
UsageListedAlike ==
    \A t \in Tokens :
        /\ MayListUsage(t) = MayListRisks(t)
        /\ \A a \in ListArgs : UsageScope(t, a) = RiskScope(t, a)

(* Showing and listing agree: a caller who may read finds in some listing  *)
(* exactly the risks that can be shown to it, whoever owns them by then,   *)
(* and the usage of the addresses of just those projects.                  *)
ListingAgrees ==
    /\ UsageListedAlike
    /\ \A t \in Tokens : t.roles \cap {"admin", "reader"} # {} =>
        \A i \in RiskIds : risks[i] # NoVal =>
            (risks[i].project \in Shows[t] <=> risks[i].project \in Lists[t])

ServedFor(i) ==
    \E c \in Clients : /\ req[c].step # "done" /\ req'[c].step # req[c].step
                      /\ req[c].id = i /\ SecurityAdmin(req[c].by)

(* A type is renamed or deleted, and a risk recorded, only in the course   *)
(* of a request about it by an administrator: what was authorised when the *)
(* row was loaded is what is done later.                                   *)
WritesByAdmin ==
    [][/\ \A t \in TypeIds : types[t] # NoVal /\ types'[t] # types[t]
                => ServedFor(t)
       /\ \A i \in RiskIds : risks[i] = NoVal /\ risks'[i] # NoVal
                => ServedFor(i)]_vars

-----------------------------------------------------------------------------
(* The inductive invariant.                                                *)

(* A request that goes on was authorised, and what it loaded passed.       *)
RequestOf(r) ==
    /\ r.step # "done" => r.by \in Tokens /\ SecurityAdmin(r.by) /\ InScope(r.by)
    /\ r.step \in {"patch", "drop"} => r.id \in TypeIds
    /\ r.step = "patch" => r.arg \in [from : Names, to : Names]
    /\ r.step \in {"insert", "cast"} =>
            r.op = "create_risk" /\ r.id \in RiskIds
    /\ r.step = "insert" =>
        /\ r.arg \in Bodies /\ ValidReport(r.arg)
        /\ r.arg.ip # NoVal => ~IsPrivateIP(r.arg.ip)
    /\ r.step # "done" => r.code = 0
    /\ r.step = "remove" => r.id \in RiskIds

RequestsOK == \A c \in Clients : RequestOf(req[c])

IInv == TypeOK /\ References /\ StoredReports /\ RequestsOK /\ CreatedIsCast

=============================================================================
