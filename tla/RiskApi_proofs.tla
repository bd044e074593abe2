--------------------------- MODULE RiskApi_proofs ---------------------------
(***************************************************************************)
(* Proofs about RiskApi: its inductive invariant, for any number of        *)
(* clients, types, risks and tokens, and what follows from it.             *)
(***************************************************************************)
EXTENDS RiskApi, TLAPS

(* A request takes the place of another.                                   *)
LEMMA RequestStep ==
    ASSUME req \in [Clients -> RequestSet], RequestsOK,
           NEW c \in Clients, NEW r \in RequestSet, RequestOf(r),
           req' = [req EXCEPT ![c] = r],
           r.op = "create_risk" /\ r.code = 201 => r.id \in cast',
           \A d \in Clients :
                req[d].op = "create_risk" /\ req[d].code = 201
                    => req[d].id \in cast'
    PROVE  /\ req' \in [Clients -> RequestSet]
           /\ RequestsOK' /\ CreatedIsCast'
<1>1. req' \in [Clients -> RequestSet]
  OBVIOUS
<1>2. \A d \in Clients : req'[d] = IF d = c THEN r ELSE req[d]
  OBVIOUS
<1>3. RequestsOK'
  BY <1>2 DEF RequestsOK, RequestOf
<1>4. CreatedIsCast'
  BY <1>2 DEF CreatedIsCast
<1> QED
  BY <1>1, <1>3, <1>4

(* No request: what a client is left with.                                 *)
LEMMA NoRequestOK == NoRequest \in RequestSet /\ RequestOf(NoRequest)
  BY DEF NoRequest, RequestSet, RequestOf, Ops, Steps, Codes

(* An answer that is forgotten, with the tables as they were or changed.   *)
LEMMA Forgotten ==
    ASSUME IInv, NEW c \in Clients, NEW code, Finish(c, code),
           UNCHANGED cast
    PROVE  /\ req' \in [Clients -> RequestSet]
           /\ RequestsOK' /\ CreatedIsCast'
<1>1. req' = [req EXCEPT ![c] = NoRequest]
  BY DEF Finish
<1>2. NoRequest.code # 201
  BY DEF NoRequest
<1>3. req \in [Clients -> RequestSet] /\ RequestsOK
  BY DEF IInv, TypeOK
<1>4. \A d \in Clients :
        req[d].op = "create_risk" /\ req[d].code = 201 => req[d].id \in cast'
  BY DEF IInv, CreatedIsCast
<1> QED
  BY <1>1, <1>2, <1>3, <1>4, NoRequestOK, RequestStep

(* A request goes on.                                                      *)
LEMMA GoesOn ==
    ASSUME IInv, NEW c \in Clients, NEW op \in Ops, NEW t \in Tokens,
           NEW i \in TypeIds \cup RiskIds,
           NEW arg \in {NoVal} \cup [from : Names, to : Names] \cup Bodies,
           NEW step \in Steps \ {"done"},
           GoOn(c, op, t, i, arg, step),
           SecurityAdmin(t), InScope(t),
           step \in {"patch", "drop"} => i \in TypeIds,
           step = "patch" => arg \in [from : Names, to : Names],
           step \in {"insert", "cast"} => op = "create_risk" /\ i \in RiskIds,
           step = "insert" =>
                /\ arg \in Bodies /\ ValidReport(arg)
                /\ arg.ip # NoVal => ~IsPrivateIP(arg.ip),
           step = "remove" => i \in RiskIds,
           \A d \in Clients :
                req[d].op = "create_risk" /\ req[d].code = 201
                    => req[d].id \in cast'
    PROVE  /\ req' \in [Clients -> RequestSet]
           /\ RequestsOK' /\ CreatedIsCast'
<1> DEFINE r == [op |-> op, by |-> t, id |-> i, arg |-> arg,
                 step |-> step, code |-> 0]
<1>1. req' = [req EXCEPT ![c] = r]
  BY DEF GoOn
<1>2. /\ r.op = op /\ r.by = t /\ r.id = i /\ r.arg = arg
      /\ r.step = step /\ r.code = 0
  OBVIOUS
<1>3. r \in RequestSet
  BY DEF RequestSet
<1>4. RequestOf(r)
  <2> HIDE DEF r
  <2> QED
    BY <1>2 DEF RequestOf
<1>5. r.code # 201
  BY <1>2
<1>6. req \in [Clients -> RequestSet] /\ RequestsOK
  BY DEF IInv, TypeOK
<1> HIDE DEF r
<1> QED
  BY <1>1, <1>3, <1>4, <1>5, <1>6, RequestStep

(* The tables and the requests make up the invariant.                      *)
LEMMA Together ==
    ASSUME types' \in [TypeIds -> Names \cup {NoVal}],
           risks' \in [RiskIds -> RowSet \cup {NoVal}],
           cast' \subseteq RiskIds,
           req' \in [Clients -> RequestSet],
           References', StoredReports', RequestsOK', CreatedIsCast'
    PROVE  IInv'
  BY DEF IInv, TypeOK

(* Nothing happens to the tables, and the client is left with no request.  *)
LEMMA FinishOnly ==
    ASSUME IInv, NEW c \in Clients, NEW code, Finish(c, code),
           UNCHANGED tables
    PROVE  IInv'
<1>1. /\ req' \in [Clients -> RequestSet]
      /\ RequestsOK' /\ CreatedIsCast'
  BY Forgotten DEF tables
<1> QED
  BY <1>1 DEF tables, IInv, TypeOK, References, StoredReports

LEMMA RefuseOnly ==
    ASSUME IInv, NEW c \in Clients, NEW code, Refuse(c, code)
    PROVE  IInv'
  BY FinishOnly DEF Refuse

(* Nothing happens to the tables, and the request goes on.                 *)
LEMMA UnchangedTables ==
    ASSUME IInv, UNCHANGED tables, req' \in [Clients -> RequestSet],
           RequestsOK', CreatedIsCast'
    PROVE  IInv'
  BY DEF tables, IInv, TypeOK, References, StoredReports

-----------------------------------------------------------------------------
(* Risk types.                                                             *)

LEMMA CreateTypeStep ==
    ASSUME IInv, NEW c \in Clients, NEW t \in Tokens, NEW i \in TypeIds,
           NEW n \in Names, CreateType(c, t, i, n)
    PROVE  IInv'
<1>1. CASE \E code : Refuse(c, code)
  BY <1>1, RefuseOnly
<1>2. CASE /\ ~NameTaken(n) /\ types' = [types EXCEPT ![i] = n]
           /\ \E code \in {201, 500} : Finish(c, code)
           /\ UNCHANGED <<risks, cast>>
  <2>1. /\ req' \in [Clients -> RequestSet]
        /\ RequestsOK' /\ CreatedIsCast'
    BY <1>2, Forgotten
  <2>2. types' \in [TypeIds -> Names \cup {NoVal}]
    BY <1>2 DEF IInv, TypeOK
  <2>3. \A t2 \in TypeIds : types'[t2] = IF t2 = i THEN n ELSE types[t2]
    BY <1>2 DEF IInv, TypeOK
  <2>4. types[i] = NoVal /\ n # NoVal
    BY NullAssumption DEF CreateType
  <2>5. References'
    BY <1>2, <2>3, <2>4 DEF References, NameTaken, IInv, TypeOK, RowSet
  <2>6. StoredReports'
    BY <1>2 DEF StoredReports, IInv
  <2> QED
    BY <1>2, <2>1, <2>2, <2>5, <2>6, Together DEF IInv, TypeOK
<1> QED
  BY <1>1, <1>2 DEF CreateType

LEMMA ShowTypeStep ==
    ASSUME IInv, NEW c \in Clients, NEW t \in Tokens, NEW i \in TypeIds,
           ShowType(c, t, i)
    PROVE  IInv'
  BY RefuseOnly, FinishOnly DEF ShowType

LEMMA PatchTypeStep ==
    ASSUME IInv, NEW c \in Clients, NEW t \in Tokens, NEW i \in TypeIds,
           NEW n \in Names, PatchType(c, t, i, n)
    PROVE  IInv'
<1>1. CASE Refuse(c, 404)
  BY <1>1, RefuseOnly
<1>2. CASE /\ types[i] # NoVal /\ TypeRule(t, "update")
           /\ GoOn(c, "patch_type", t, i, [from |-> types[i], to |-> n],
                   "patch")
           /\ UNCHANGED tables
  <2>1. [from |-> types[i], to |-> n] \in [from : Names, to : Names]
    BY <1>2 DEF IInv, TypeOK
  <2>2. SecurityAdmin(t) /\ InScope(t)
    BY <1>2 DEF TypeRule
  <2>3. /\ req' \in [Clients -> RequestSet]
        /\ RequestsOK' /\ CreatedIsCast'
    BY <1>2, <2>1, <2>2, GoesOn
       DEF Ops, Steps, tables, IInv, CreatedIsCast
  <2> QED
    BY <1>2, <2>3, UnchangedTables
<1> QED
  BY <1>1, <1>2 DEF PatchType

LEMMA PatchCommitStep ==
    ASSUME IInv, NEW c \in Clients, PatchCommit(c)
    PROVE  IInv'
<1> DEFINE i == req[c].id  arg == req[c].arg  sent == arg.to # arg.from
<1>1. i \in TypeIds /\ arg.to \in Names
  BY DEF PatchCommit, At, IInv, RequestsOK, RequestOf
<1>2. CASE \E code : Finish(c, code) /\ UNCHANGED tables
  BY <1>2, FinishOnly
<1>3. CASE /\ types[i] # NoVal
           /\ sent => \A t \in TypeIds \ {i} : types[t] # arg.to
           /\ types' = IF sent THEN [types EXCEPT ![i] = arg.to] ELSE types
           /\ \E code \in {200, 500} : Finish(c, code)
           /\ UNCHANGED <<risks, cast>>
  <2>1. /\ req' \in [Clients -> RequestSet]
        /\ RequestsOK' /\ CreatedIsCast'
    BY <1>3, Forgotten
  <2>2. \A t \in TypeIds :
            types'[t] = IF t = i /\ sent THEN arg.to ELSE types[t]
    BY <1>1, <1>3 DEF IInv, TypeOK
  <2>3. types' \in [TypeIds -> Names \cup {NoVal}]
    BY <1>1, <1>3 DEF IInv, TypeOK
  <2>4. References'
    BY <1>1, <1>3, <2>2, NullAssumption
       DEF References, IInv, TypeOK, RowSet
  <2>5. StoredReports'
    BY <1>3 DEF StoredReports, IInv
  <2> QED
    BY <1>3, <2>1, <2>3, <2>4, <2>5, Together DEF IInv, TypeOK
<1> QED
  BY <1>2, <1>3 DEF PatchCommit

LEMMA DeleteTypeStep ==
    ASSUME IInv, NEW c \in Clients, NEW t \in Tokens, NEW i \in TypeIds,
           DeleteType(c, t, i)
    PROVE  IInv'
<1>1. CASE \E code : Refuse(c, code)
  BY <1>1, RefuseOnly
<1>2. CASE /\ TypeRule(t, "delete")
           /\ GoOn(c, "delete_type", t, i, NoVal, "drop")
           /\ UNCHANGED tables
  <2>1. SecurityAdmin(t) /\ InScope(t)
    BY <1>2 DEF TypeRule
  <2>2. /\ req' \in [Clients -> RequestSet]
        /\ RequestsOK' /\ CreatedIsCast'
    BY <1>2, <2>1, GoesOn DEF Ops, Steps, tables, IInv, CreatedIsCast
  <2> QED
    BY <1>2, <2>2, UnchangedTables
<1> QED
  BY <1>1, <1>2 DEF DeleteType

LEMMA DropTypeStep ==
    ASSUME IInv, NEW c \in Clients, DropType(c)
    PROVE  IInv'
<1> DEFINE i == req[c].id
<1>1. i \in TypeIds
  BY DEF DropType, At, IInv, RequestsOK, RequestOf
<1>2. CASE Finish(c, 500) /\ UNCHANGED tables
  BY <1>2, FinishOnly
<1>3. CASE /\ DropAllowed(i) /\ types' = [types EXCEPT ![i] = NoVal]
           /\ Finish(c, 204) /\ UNCHANGED <<risks, cast>>
  <2>1. /\ req' \in [Clients -> RequestSet]
        /\ RequestsOK' /\ CreatedIsCast'
    BY <1>3, Forgotten
  <2>2. types' \in [TypeIds -> Names \cup {NoVal}]
    BY <1>1, <1>3 DEF IInv, TypeOK
  <2>3. \A t \in TypeIds : types'[t] = IF t = i THEN NoVal ELSE types[t]
    BY <1>1, <1>3 DEF IInv, TypeOK
  <2>4. References'
    BY <1>1, <1>3, <2>3
       DEF References, DropAllowed, InUse, IInv, TypeOK, RowSet
  <2>5. StoredReports'
    BY <1>3 DEF StoredReports, IInv
  <2> QED
    BY <1>3, <2>1, <2>2, <2>4, <2>5, Together DEF IInv, TypeOK
<1> QED
  BY <1>2, <1>3 DEF DropType

-----------------------------------------------------------------------------
(* Risks.                                                                  *)

LEMMA CreateRiskStep ==
    ASSUME IInv, NEW c \in Clients, NEW t \in Tokens, NEW i \in RiskIds,
           NEW b \in Bodies, CreateRisk(c, t, i, b)
    PROVE  IInv'
<1>1. CASE Refuse(c, Refusal(t, b))
  BY <1>1, RefuseOnly
<1>2. CASE /\ Refusal(t, b) = 0
           /\ cast' = cast \ {i}
           /\ GoOn(c, "create_risk", t, i, b, "insert")
           /\ UNCHANGED <<types, risks>>
  <2>1. /\ RiskRule(t, "create", NoVal) /\ ValidReport(b)
        /\ b.ip # NoVal => ~IsPrivateIP(b.ip)
    BY <1>2 DEF Refusal
  <2>2. SecurityAdmin(t) /\ InScope(t)
    BY <2>1 DEF RiskRule
  <2>3. \A d \in Clients :
            req[d].op = "create_risk" /\ req[d].code = 201
                => req[d].id \in cast'
    BY <1>2 DEF IInv, CreatedIsCast, CreateRisk, Unused
  <2>4. "create_risk" \in Ops /\ "insert" \in Steps \ {"done"}
    BY DEF Ops, Steps
  <2>5. /\ req' \in [Clients -> RequestSet]
        /\ RequestsOK' /\ CreatedIsCast'
    BY <1>2, <2>1, <2>2, <2>3, <2>4, GoesOn
  <2>6. References' /\ StoredReports'
    BY <1>2 DEF IInv, References, StoredReports
  <2> QED
    BY <1>2, <2>5, <2>6, Together DEF IInv, TypeOK
<1> QED
  BY <1>1, <1>2 DEF CreateRisk

(* A valid report makes a row that may be stored: by a public address, or  *)
(* by a resource, with a whole owner or none.                              *)
LEMMA NewRowOK ==
    ASSUME NEW b \in Bodies, ValidReport(b),
           b.ip # NoVal => ~IsPrivateIP(b.ip)
    PROVE  /\ NewRow(b) \in RowSet
           /\ NewRow(b).type = b.type
           /\ NewRow(b).ip # NoVal =>
                NewRow(b).ip.valid /\ ~IsPrivateIP(NewRow(b).ip)
           /\ NewRow(b).ip = NoVal => Given(NewRow(b).resource)
           /\ Given(NewRow(b).project) <=> Given(NewRow(b).resource)
<1>1. /\ NewRow(b).type = b.type /\ NewRow(b).ip = b.ip
      /\ NewRow(b).project = b.project /\ NewRow(b).resource = b.resource
  BY DEF NewRow
<1>2. NewRow(b) \in RowSet
  BY BodiesAssumption DEF NewRow, RowSet
<1> QED
  BY <1>1, <1>2 DEF ValidReport, ReportMode

LEMMA InsertRiskStep ==
    ASSUME IInv, NEW c \in Clients, InsertRisk(c)
    PROVE  IInv'
<1> DEFINE i == req[c].id  b == req[c].arg
<1>1. /\ i \in RiskIds /\ b \in Bodies /\ ValidReport(b)
      /\ b.ip # NoVal => ~IsPrivateIP(b.ip)
      /\ req[c].by \in Tokens
      /\ SecurityAdmin(req[c].by) /\ InScope(req[c].by)
  BY DEF InsertRisk, At, IInv, RequestsOK, RequestOf
<1>2. CASE Finish(c, 500) /\ UNCHANGED tables
  BY <1>2, FinishOnly
<1>3. CASE /\ types[b.type] # NoVal
           /\ risks' = [risks EXCEPT ![i] = NewRow(b)]
           /\ GoOn(c, "create_risk", req[c].by, i, NoVal, "cast")
           /\ UNCHANGED <<types, cast>>
  <2>1. "create_risk" \in Ops /\ "cast" \in Steps \ {"done"}
    BY DEF Ops, Steps
  <2>2. \A d \in Clients :
            req[d].op = "create_risk" /\ req[d].code = 201
                => req[d].id \in cast'
    BY <1>3 DEF IInv, CreatedIsCast
  <2>3. /\ req' \in [Clients -> RequestSet]
        /\ RequestsOK' /\ CreatedIsCast'
    BY <1>1, <1>3, <2>1, <2>2, GoesOn
  <2>4. \A j \in RiskIds : risks'[j] = IF j = i THEN NewRow(b) ELSE risks[j]
    BY <1>3 DEF IInv, TypeOK
  <2>5. risks' \in [RiskIds -> RowSet \cup {NoVal}]
    BY <1>1, <1>3, NewRowOK DEF IInv, TypeOK
  <2>6. References'
    BY <1>1, <1>3, <2>4, NewRowOK DEF IInv, References
  <2>7. StoredReports'
    BY <1>1, <2>4, NewRowOK DEF IInv, StoredReports
  <2> QED
    BY <1>3, <2>3, <2>5, <2>6, <2>7, Together DEF IInv, TypeOK
<1> QED
  BY <1>2, <1>3 DEF InsertRisk

LEMMA CastRiskStep ==
    ASSUME IInv, NEW c \in Clients, CastRisk(c)
    PROVE  IInv'
<1> DEFINE i == req[c].id  r == [op |-> "create_risk", by |-> req[c].by, id |-> i, arg |-> NoVal,
                              step |-> "done", code |-> 201]
<1>1. /\ i \in RiskIds /\ req[c].op = "create_risk"
      /\ req[c] \in RequestSet
  BY DEF CastRisk, At, IInv, TypeOK, RequestsOK, RequestOf
<1>2. CASE Finish(c, 500) /\ UNCHANGED tables
  BY <1>2, FinishOnly
<1>3. CASE /\ cast' = cast \cup {i}
           /\ AnswerCreated(c)
           /\ UNCHANGED <<types, risks>>
  <2>1. /\ r.op = "create_risk" /\ r.id = i /\ r.step = "done"
        /\ r \in RequestSet
    BY <1>1 DEF RequestSet, Steps, Codes
  <2>2. req' = [req EXCEPT ![c] = r]
    BY <1>3 DEF AnswerCreated
  <2>3. RequestOf(r)
    <3> HIDE DEF r
    <3> QED
      BY <2>1 DEF RequestOf
  <2>4. \A d \in Clients :
            req[d].op = "create_risk" /\ req[d].code = 201
                => req[d].id \in cast'
    BY <1>3 DEF IInv, CreatedIsCast
  <2>5. req \in [Clients -> RequestSet] /\ RequestsOK
    BY DEF IInv, TypeOK
  <2>6. r.id \in cast'
    BY <1>3, <2>1
  <2>7. /\ req' \in [Clients -> RequestSet]
        /\ RequestsOK' /\ CreatedIsCast'
    <3> HIDE DEF r
    <3> QED
      BY <2>1, <2>2, <2>3, <2>4, <2>5, <2>6, RequestStep
  <2>8. References' /\ StoredReports'
    BY <1>3 DEF IInv, References, StoredReports
  <2>9. cast' \subseteq RiskIds
    BY <1>1, <1>3 DEF IInv, TypeOK
  <2>10. /\ types' \in [TypeIds -> Names \cup {NoVal}]
         /\ risks' \in [RiskIds -> RowSet \cup {NoVal}]
    BY <1>3 DEF IInv, TypeOK
  <2> QED
    BY <2>7, <2>8, <2>9, <2>10, Together
<1> QED
  BY <1>2, <1>3 DEF CastRisk

LEMMA ShowRiskStep ==
    ASSUME IInv, NEW c \in Clients, NEW t \in Tokens, NEW i \in RiskIds,
           ShowRisk(c, t, i)
    PROVE  IInv'
  BY RefuseOnly, FinishOnly DEF ShowRisk

LEMMA DeleteRiskStep ==
    ASSUME IInv, NEW c \in Clients, NEW t \in Tokens, NEW i \in RiskIds,
           DeleteRisk(c, t, i)
    PROVE  IInv'
<1>1. CASE Refuse(c, 404)
  BY <1>1, RefuseOnly
<1>2. CASE /\ RiskRule(t, "delete", risks[i].project)
           /\ GoOn(c, "delete_risk", t, i, NoVal, "remove")
           /\ UNCHANGED tables
  <2>1. SecurityAdmin(t) /\ InScope(t)
    BY <1>2 DEF RiskRule
  <2>2. "delete_risk" \in Ops /\ "remove" \in Steps \ {"done"}
    BY DEF Ops, Steps
  <2>3. \A d \in Clients :
            req[d].op = "create_risk" /\ req[d].code = 201
                => req[d].id \in cast'
    BY <1>2 DEF IInv, CreatedIsCast, tables
  <2>4. /\ req' \in [Clients -> RequestSet]
        /\ RequestsOK' /\ CreatedIsCast'
    BY <1>2, <2>1, <2>2, <2>3, GoesOn
  <2> QED
    BY <1>2, <2>4, UnchangedTables
<1> QED
  BY <1>1, <1>2 DEF DeleteRisk

(* A risk is deleted, by a request or a worker.                            *)
LEMMA Removal ==
    ASSUME IInv, NEW i \in RiskIds,
           risks' = [risks EXCEPT ![i] = NoVal],
           UNCHANGED <<types, cast>>
    PROVE  /\ risks' \in [RiskIds -> RowSet \cup {NoVal}]
           /\ References' /\ StoredReports'
<1>1. \A j \in RiskIds : risks'[j] = IF j = i THEN NoVal ELSE risks[j]
  BY DEF IInv, TypeOK
<1>2. risks' \in [RiskIds -> RowSet \cup {NoVal}]
  BY DEF IInv, TypeOK
<1>3. References'
  BY <1>1 DEF IInv, References
<1>4. StoredReports'
  BY <1>1 DEF IInv, StoredReports
<1> QED
  BY <1>2, <1>3, <1>4

LEMMA RemoveRiskStep ==
    ASSUME IInv, NEW c \in Clients, RemoveRisk(c)
    PROVE  IInv'
<1>1. req[c].id \in RiskIds
  BY DEF RemoveRisk, At, IInv, RequestsOK, RequestOf
<1>2. /\ req' \in [Clients -> RequestSet]
      /\ RequestsOK' /\ CreatedIsCast'
  BY Forgotten DEF RemoveRisk
<1>3. /\ risks' \in [RiskIds -> RowSet \cup {NoVal}]
      /\ References' /\ StoredReports'
  BY <1>1, Removal DEF RemoveRisk
<1> QED
  BY <1>2, <1>3, Together DEF RemoveRisk, IInv, TypeOK

LEMMA WorkerRemovesStep ==
    ASSUME IInv, NEW i \in RiskIds, WorkerRemoves(i)
    PROVE  IInv'
<1>1. /\ risks' \in [RiskIds -> RowSet \cup {NoVal}]
      /\ References' /\ StoredReports'
  BY Removal DEF WorkerRemoves
<1>2. RequestsOK' /\ CreatedIsCast'
  BY DEF WorkerRemoves, IInv, RequestsOK, CreatedIsCast
<1> QED
  BY <1>1, <1>2, Together DEF WorkerRemoves, IInv, TypeOK

LEMMA WorkerAttributesStep ==
    ASSUME IInv, NEW i \in RiskIds, NEW p \in Projects, NEW r \in Resources,
           WorkerAttributes(i, p, r)
    PROVE  IInv'
<1> DEFINE new == [risks[i] EXCEPT !.project = p, !.resource = r]
<1>1. risks[i] \in RowSet
  BY DEF WorkerAttributes, IInv, TypeOK
<1>2. /\ new.type = risks[i].type /\ new.ip = risks[i].ip
      /\ new.project = p /\ new.resource = r /\ new \in RowSet
  BY <1>1 DEF RowSet, RowProjects
<1>3. risks' = [risks EXCEPT ![i] = new]
  BY DEF WorkerAttributes
<1>4. Given(p) /\ Given(r)
  BY TokensAssumption, NullAssumption DEF Given
<1> HIDE DEF new
<1>5. \A j \in RiskIds : risks'[j] = IF j = i THEN new ELSE risks[j]
  BY <1>3 DEF IInv, TypeOK
<1>6. risks' \in [RiskIds -> RowSet \cup {NoVal}]
  BY <1>2, <1>3 DEF IInv, TypeOK
<1>7. References'
  BY <1>2, <1>5 DEF IInv, References, WorkerAttributes
<1>8. StoredReports'
  BY <1>2, <1>4, <1>5 DEF IInv, StoredReports, WorkerAttributes
<1>9. RequestsOK' /\ CreatedIsCast'
  BY DEF WorkerAttributes, IInv, RequestsOK, CreatedIsCast
<1> QED
  BY <1>6, <1>7, <1>8, <1>9, Together DEF WorkerAttributes, IInv, TypeOK

-----------------------------------------------------------------------------
(* The invariant.                                                          *)

LEMMA InitInv ==
    ASSUME Init
    PROVE  IInv
<1>1. TypeOK
  BY NoRequestOK DEF Init, TypeOK
<1>2. References /\ StoredReports /\ RequestsOK /\ CreatedIsCast
  BY NoRequestOK
     DEF Init, References, StoredReports, RequestsOK, CreatedIsCast, NoRequest
<1> QED
  BY <1>1, <1>2 DEF IInv

LEMMA StepInv ==
    ASSUME IInv, [Next]_vars
    PROVE  IInv'
<1>1. CASE UNCHANGED vars
  BY <1>1 DEF vars, tables, IInv, TypeOK, References, StoredReports,
              RequestsOK, CreatedIsCast
<1>2. ASSUME NEW c \in Clients, Progress(c)
      PROVE  IInv'
  <2>1. CASE Fail(c)
    BY <2>1, FinishOnly DEF Fail
  <2> QED
    BY <1>2, <2>1, PatchCommitStep, DropTypeStep, InsertRiskStep,
       CastRiskStep, RemoveRiskStep DEF Progress
<1>3. ASSUME NEW c \in Clients, NEW t \in Holds[c], Request(c, t)
      PROVE  IInv'
  <2>1. t \in Tokens
    BY ClientsAssumption
  <2> QED
    BY <1>3, <2>1, CreateTypeStep, PatchTypeStep, ShowTypeStep,
       DeleteTypeStep, CreateRiskStep, ShowRiskStep, DeleteRiskStep
       DEF Request
<1>4. CASE WorkerStep
  BY <1>4, WorkerAttributesStep, WorkerRemovesStep DEF WorkerStep
<1> QED
  BY <1>1, <1>2, <1>3, <1>4 DEF Next, ClientStep

(* The inductive invariant: the tables refer to each other, stored reports *)
(* are fit to be processed, requests under way were authorised.            *)
THEOREM Invariance == Spec => []IInv
<1>1. Init => IInv
  BY InitInv
<1>2. IInv /\ [Next]_vars => IInv'
  BY StepInv
<1> QED
  BY <1>1, <1>2, PTL DEF Spec

(* Every variable of RiskApi keeps its type.                               *)
THEOREM TypeCorrect == Spec => []TypeOK
<1>1. IInv => TypeOK
  BY DEF IInv
<1> QED
  BY <1>1, Invariance, PTL

(* No risk is of a type that is gone and no name is used twice, however    *)
(* creations, renames and deletions cross.                                 *)
THEOREM TablesRefer == Spec => []References
<1>1. IInv => References
  BY DEF IInv
<1> QED
  BY <1>1, Invariance, PTL

(* A risk a caller was told of was handed to a worker.                     *)
THEOREM ToldOfIsCast == Spec => []CreatedIsCast
<1>1. IInv => CreatedIsCast
  BY DEF IInv
<1> QED
  BY <1>1, Invariance, PTL

-----------------------------------------------------------------------------
(* Authorisation.                                                          *)

(* A request that does not go on, or only just starts, writes neither a    *)
(* type nor a risk; one that goes on writes its own.                       *)
LEMMA WriteStep ==
    ASSUME IInv, [Next]_vars
    PROVE  /\ \A t \in TypeIds :
                types[t] # NoVal /\ types'[t] # types[t] => ServedFor(t)
           /\ \A i \in RiskIds :
                risks[i] = NoVal /\ risks'[i] # NoVal => ServedFor(i)
<1> DEFINE Goal ==
        /\ \A t \in TypeIds :
                types[t] # NoVal /\ types'[t] # types[t] => ServedFor(t)
        /\ \A i \in RiskIds :
                risks[i] = NoVal /\ risks'[i] # NoVal => ServedFor(i)
<1>1. ASSUME UNCHANGED tables
      PROVE  Goal
  BY <1>1 DEF tables
<1>2. ASSUME NEW c \in Clients, Progress(c)
      PROVE  Goal
  <2>1. req[c].step # "done" => SecurityAdmin(req[c].by)
    BY DEF IInv, RequestsOK, RequestOf
  <2>2. req \in [Clients -> RequestSet]
    BY DEF IInv, TypeOK
  <2>3. ASSUME NEW code, Finish(c, code)
        PROVE  req'[c].step = "done"
    BY <2>2, <2>3 DEF Finish, NoRequest
  <2>4. CASE PatchCommit(c)
    <3>1. req[c].step = "patch" /\ req'[c].step = "done"
      BY <2>3, <2>4 DEF PatchCommit, At
    <3>2. /\ risks' = risks
          /\ \A t \in TypeIds : types'[t] # types[t] => t = req[c].id
      BY <2>4 DEF PatchCommit, tables, IInv, TypeOK
    <3> QED
      BY <2>1, <3>1, <3>2 DEF ServedFor
  <2>5. CASE DropType(c)
    <3>1. req[c].step = "drop" /\ req'[c].step = "done"
      BY <2>3, <2>5 DEF DropType, At
    <3>2. /\ risks' = risks
          /\ \A t \in TypeIds : types'[t] # types[t] => t = req[c].id
      BY <2>5 DEF DropType, tables, IInv, TypeOK
    <3> QED
      BY <2>1, <3>1, <3>2 DEF ServedFor
  <2>6. CASE InsertRisk(c)
    <3>1. req[c].step = "insert"
      BY <2>6 DEF InsertRisk, At
    <3>2. req'[c].step \in {"done", "cast"}
      BY <2>2, <2>3, <2>6 DEF InsertRisk, GoOn
    <3>3. /\ types' = types
          /\ \A i \in RiskIds : risks'[i] # risks[i] => i = req[c].id
      BY <2>6 DEF InsertRisk, tables, IInv, TypeOK
    <3> QED
      BY <2>1, <3>1, <3>2, <3>3 DEF ServedFor
  <2>7. CASE RemoveRisk(c)
    BY <2>7 DEF RemoveRisk, IInv, TypeOK
  <2> QED
    BY <1>1, <1>2, <2>4, <2>5, <2>6, <2>7
       DEF Progress, CastRisk, Fail, tables
<1>3. ASSUME NEW c \in Clients, NEW t \in Holds[c], Request(c, t)
      PROVE  Goal
  <2>1. /\ risks' = risks
        /\ \A i \in TypeIds : types[i] # NoVal => types'[i] = types[i]
    <3>1. ASSUME NEW t0 \in TypeIds, NEW n \in Names, CreateType(c, t, t0, n)
          PROVE  /\ risks' = risks
                 /\ \A i \in TypeIds : types[i] # NoVal => types'[i] = types[i]
      BY <3>1 DEF CreateType, Refuse, tables, IInv, TypeOK
    <3>2. ASSUME NEW t0 \in TypeIds, NEW n \in Names, PatchType(c, t, t0, n)
          PROVE  risks' = risks /\ types' = types
      BY <3>2 DEF PatchType, Refuse, tables
    <3>3. ASSUME NEW t0 \in TypeIds, ShowType(c, t, t0) \/ DeleteType(c, t, t0)
          PROVE  risks' = risks /\ types' = types
      BY <3>3 DEF ShowType, DeleteType, Refuse, tables
    <3>4. ASSUME NEW i \in RiskIds,
                 \/ \E b \in Bodies : CreateRisk(c, t, i, b)
                 \/ ShowRisk(c, t, i) \/ DeleteRisk(c, t, i)
          PROVE  risks' = risks /\ types' = types
      BY <3>4 DEF CreateRisk, ShowRisk, DeleteRisk, Refuse, tables
    <3> QED
      BY <1>3, <3>1, <3>2, <3>3, <3>4 DEF Request
  <2> QED
    BY <2>1
<1>4. CASE WorkerStep
  BY <1>4 DEF WorkerStep, WorkerAttributes, WorkerRemoves, IInv, TypeOK
<1> QED
  BY <1>1, <1>2, <1>3, <1>4 DEF Next, ClientStep, vars

(* Types are renamed and deleted, and risks recorded, by administrators    *)
(* only, though the caller's rights are checked steps before.              *)
THEOREM AdministratorsWrite == Spec => WritesByAdmin
<1>1. IInv /\ [Next]_vars =>
        [/\ \A t \in TypeIds : types[t] # NoVal /\ types'[t] # types[t]
                => ServedFor(t)
         /\ \A i \in RiskIds : risks[i] = NoVal /\ risks'[i] # NoVal
                => ServedFor(i)]_vars
  BY WriteStep
<1> QED
  BY <1>1, Invariance, PTL DEF Spec, WritesByAdmin

-----------------------------------------------------------------------------
(* Listings.                                                               *)

(* For a token as keystone issues them, the projects it can list are those *)
(* whose risks it may be shown, if it may read at all.                     *)
LEMMA ScopesAgree ==
    ASSUME NEW t \in Tokens, t.roles \cap {"admin", "reader"} # {}
    PROVE  Shows[t] = Lists[t]
<1>1. /\ t.scope \in {"system", "project", "domain", "unscoped"}
      /\ t.project \in Projects \cup {NoVal}
      /\ (t.scope = "project") <=> (t.project # NoVal)
      /\ t.scope # "unscoped"
  BY TokensAssumption
<1>2. Shows[t] = {p \in RowProjects : RiskRule(t, "get", p)}
  BY DEF Shows
<1>3. /\ MayListRisks(t) => Lists[t] = UNION {RiskScope(t, a) : a \in ListArgs}
      /\ ~MayListRisks(t) => Lists[t] = {}
  BY DEF Lists
<1>4. \A a \in ListArgs : RiskScope(t, a) \subseteq RowProjects
  BY <1>1 DEF RiskScope, ListScope, Asked, ListArgs, RowProjects, Blank
<1>5. PICK a \in ListArgs : a.all /\ a.project = NoVal
  <2>1. [all |-> TRUE, project |-> NoVal] \in ListArgs
    BY DEF ListArgs
  <2> QED
    BY <2>1
<1>6. CASE t.scope = "domain"
  <2>1. ~MayListRisks(t) /\ \A p : ~RiskRule(t, "get", p)
    BY <1>6 DEF MayListRisks, MayList, RiskRule, InScope
  <2> QED
    BY <1>2, <1>3, <2>1
<1>7. CASE t.scope # "domain" /\ AnyProjectReader(t)
  <2>1. MayListRisks(t) /\ MayListAllRisks(t)
    BY <1>1, <1>7
       DEF MayListRisks, MayListAllRisks, MayList, RiskRule, InScope
  <2>2. RiskScope(t, a) = RowProjects
    BY <1>5, <2>1 DEF RiskScope, ListScope, Asked
  <2>3. Lists[t] = RowProjects
    BY <1>3, <1>4, <1>5, <2>1, <2>2
  <2>4. \A p : RiskRule(t, "get", p)
    BY <1>7 DEF RiskRule, InScope, ReaderOrOwner
  <2> QED
    BY <1>2, <2>3, <2>4
<1>8. CASE t.scope # "domain" /\ ~AnyProjectReader(t)
  <2>1. t.scope = "project" /\ "reader" \in t.roles
    BY <1>1, <1>8 DEF AnyProjectReader, SystemReader, SecurityAdmin
  <2>2. MayListRisks(t) /\ ~MayListAllRisks(t)
    BY <1>1, <1>8, <2>1
       DEF MayListRisks, MayListAllRisks, MayList, RiskRule, InScope
  <2>3. \A b \in ListArgs : RiskScope(t, b) = {t.project}
    BY <2>1, <2>2 DEF RiskScope, ListScope
  <2>4. Lists[t] = {t.project}
    BY <1>3, <1>5, <2>2, <2>3
  <2>5. \A p : RiskRule(t, "get", p) <=> t.project = p
    BY <1>8, <2>1 DEF RiskRule, InScope, ReaderOrOwner, Owner
  <2> QED
    BY <1>1, <1>2, <2>4, <2>5 DEF RowProjects, Blank
<1> QED
  BY <1>6, <1>7, <1>8

(* What can be shown can be listed, and nothing else, for every token and  *)
(* whoever owns the risks; IP usage is listed alike.                       *)
THEOREM ShownIsListed == Spec => []ListingAgrees
<1>1. UsageListedAlike
  BY DEF UsageListedAlike, MayListUsage, MayListRisks, MayListAllRisks,
         MayList, IPUsageRule, RiskRule, UsageScope, RiskScope
<1>2. ListingAgrees
  BY <1>1, ScopesAgree DEF ListingAgrees
<1> QED
  BY <1>2, PTL

=============================================================================
