-------------------------- MODULE RiskReports_proofs --------------------------
(***************************************************************************)
(* What rests on the report a risk was created from: who is notified, that *)
(* a worker on its own keeps one risk per exposure; and that a risk is     *)
(* notified once as long as its row lock lasts.                            *)
(***************************************************************************)
EXTENDS RiskLifecycle_proofs

USE DEF Processing, Goto, Exists, table, session, Given, Blank

(* Rows of one report.                                                     *)
SameReport(a, b) == a.type = b.type /\ a.notify = b.notify

(* The table and the sessions say what the report said, and who is about   *)
(* to notify was asked to.                                                 *)
ReportOf(w) ==
    /\ pc[w] \in InSession => SameReport(row[w], born[rid[w]].report)
    /\ pc[w] \in {"notify", "send"} => row[w].notify

ReportOK ==
    /\ \A i \in RiskIds : Exists(i) => SameReport(risks[i], born[i].report)
    /\ \A w \in Workers : ReportOf(w)

-----------------------------------------------------------------------------
(* No helper touches the report.                                           *)

LEMMA HelpersKeepReports ==
  /\ \A r \in Reports : SameReport(NewRisk(r), r)
  /\ \A r \in RowSet : SameReport(PutAside(r), r)
  /\ \A r \in RowSet, u \in UsageRows : SameReport(Attributed(r, u), r)
  /\ \A c, r \in RowSet : SameReport(Flushed(c, r), c)
  /\ \A c, r \in RowSet, d \in LoadedSet : SameReport(Refreshed(c, r, d), c)
  <1>1. \A r \in Reports : SameReport(NewRisk(r), r)
    BY DEF SameReport, NewRisk
  <1>2. \A r \in RowSet : SameReport(PutAside(r), r)
    BY DEF SameReport, PutAside, RowSet
  <1>3. \A r \in RowSet, u \in UsageRows : SameReport(Attributed(r, u), r)
    BY DEF SameReport, Attributed, RowSet
  <1>4. \A c, r \in RowSet : SameReport(Flushed(c, r), c)
    BY DEF SameReport, Flushed, RowSet
  <1>5. \A c, r \in RowSet, d \in LoadedSet : SameReport(Refreshed(c, r, d), c)
    BY DEF SameReport, Refreshed, RowSet
  <1> QED
    BY <1>1, <1>2, <1>3, <1>4, <1>5

LEMMA RemapKeepsReports ==
  ASSUME NEW r \in RowSet, NEW q \in Remapped(r)
  PROVE  SameReport(q, r)
  <1>1. CASE q = r
    BY <1>1 DEF SameReport
  <1>2. CASE q # r
    <2>1. PICK d \in Databases :
            q = [r EXCEPT !.project = d.project, !.resource = d.resource,
                          !.rtype = "database"]
      BY <1>2 DEF Remapped
    <2> QED
      BY <2>1 DEF SameReport, RowSet
  <1> QED
    BY <1>1, <1>2

-----------------------------------------------------------------------------
(* The table keeps to the reports.                                         *)

LEMMA TableReports ==
  ASSUME TypeOK, TableOK, SessionOK, LockOK, ReportOK, [Next]_vars,
         NEW i \in RiskIds, Exists(i)'
  PROVE  SameReport(risks'[i], born'[i].report)
  <1> DEFINE Goal == SameReport(risks'[i], born'[i].report)
  <1> USE DEF SameReport
  <1>1. CASE UNCHANGED <<risks, born>>
    BY <1>1 DEF ReportOK
  <1>2. ASSUME NEW j \in RiskIds, NEW r \in Reports, Create(j, r)
        PROVE  Goal
    <2>1. CASE i = j
      BY <1>2, <2>1, HelpersKeepReports DEF Create, TypeOK
    <2>2. CASE i # j
      BY <1>2, <2>2 DEF Create, TypeOK, ReportOK
    <2> QED
      BY <2>1, <2>2
  <1>3. ASSUME NEW j \in RiskIds, ApiDelete(j) PROVE Goal
    BY <1>3 DEF ApiDelete, TypeOK, ReportOK
  <1>4. ASSUME NEW w \in Workers, MatchMany(w) PROVE Goal
    <2>1. /\ rid[w] \in RiskIds /\ Exists(rid[w]) /\ born' = born
          /\ risks' = [risks EXCEPT ![rid[w]] = PutAside(@)]
      BY <1>4, ManyFacts DEF MatchMany
    <2>2. SameReport(PutAside(risks[rid[w]]), risks[rid[w]])
      BY <2>1, RowType, HelpersKeepReports
    <2> QED
      BY <2>1, <2>2 DEF TypeOK, ReportOK
  <1>5. ASSUME NEW w \in Workers, CommitKeep(w) PROVE Goal
    <2>1. /\ rid[w] \in RiskIds /\ Exists(rid[w]) /\ born' = born
          /\ risks' = [risks EXCEPT ![rid[w]] = Flushed(@, row[w])]
          /\ row[w] \in RowSet
      BY <1>5, KeepFacts DEF CommitKeep, SessionOK, SessionOf, InSession
    <2>2. SameReport(Flushed(risks[rid[w]], row[w]), risks[rid[w]])
      BY <2>1, RowType, HelpersKeepReports
    <2> QED
      BY <2>1, <2>2 DEF TypeOK, ReportOK
  <1>6. ASSUME NEW w \in Workers, CommitMerge(w) PROVE Goal
    <2>1. /\ rid[w] \in RiskIds /\ row[w] \in RowSet /\ born' = born
          /\ other[w] \in LoadedSet /\ other[w].id \in RiskIds
      BY <1>6 DEF CommitMerge, SessionOK, SessionOf, InSession, LoadedSet
    <2>2. CASE risks' = [risks EXCEPT ![rid[w]] = NoVal]
      BY <2>1, <2>2 DEF TypeOK, ReportOK
    <2>3. CASE /\ Exists(other[w].id)
               /\ risks' = [risks EXCEPT
                      ![other[w].id] = Refreshed(@, row[w], other[w]),
                      ![rid[w]] = NoVal]
      <3>1. SameReport(Refreshed(risks[other[w].id], row[w], other[w]),
                       risks[other[w].id])
        BY <2>1, <2>3, RowType, HelpersKeepReports
      <3> QED
        BY <2>1, <2>3, <3>1 DEF TypeOK, ReportOK
    <2> QED
      BY <1>6, <2>2, <2>3 DEF CommitMerge
  <1>7. ASSUME NEW w \in Periodics, CleanCommit(w) PROVE Goal
    BY <1>7 DEF CleanCommit, ReportOK
  <1> QED
    BY <1>1, <1>2, <1>3, <1>4, <1>5, <1>6, <1>7, Writers

-----------------------------------------------------------------------------
(* So do the sessions.                                                     *)

(* A session that stands still; what was created stays as it was.          *)
LEMMA BornStays ==
  ASSUME TypeOK, [Next]_vars, NEW i \in RiskIds, born[i] # NoVal
  PROVE  born'[i] = born[i]
  <1>1. ASSUME NEW j \in RiskIds, NEW r \in Reports, Create(j, r)
        PROVE  born'[i] = born[i]
    BY <1>1 DEF Create, TypeOK
  <1> QED
    BY <1>1, Writers
    DEF ApiDelete, MatchMany, CommitKeep, CommitMerge, CleanCommit

LEMMA ReportFrame ==
  ASSUME TypeOK, SessionOK, ReportOK, [Next]_vars, NEW v \in Workers,
         pc'[v] = pc[v], rid'[v] = rid[v], row'[v] = row[v]
  PROVE  ReportOf(v)'
  <1>1. ReportOf(v) /\ SessionOf(v)
    BY DEF ReportOK, SessionOK
  <1>2. pc[v] \in InSession => born'[rid[v]] = born[rid[v]]
    BY <1>1, BornStays DEF SessionOf
  <1> QED
    BY <1>1, <1>2 DEF ReportOf

(* Each step of process_security_risk leaves its session with the report   *)
(* of its risk.                                                            *)
LEMMA ProcessReport ==
  ASSUME TypeOK, TableOK, SessionOK, LockOK, ReportOK, NEW w \in Workers,
         Process(w)
  PROVE  ReportOf(w)'
  <1> USE ConstantsAssumption
  <1>1. SessionOf(w) /\ ReportOf(w) /\ [Next]_vars
    BY DEF SessionOK, ReportOK, Next
  <1>2. ASSUME pc'[w] \notin InSession PROVE ReportOf(w)'
    BY <1>2 DEF ReportOf, InSession
  <1>3. ASSUME Finish(w) \/ Abandon(w) PROVE ReportOf(w)'
    BY <1>2, <1>3 DEF Finish, Abandon, AfterRisk, TypeOK, InSession
  <1>4. ASSUME pc[w] \in InSession, pc'[w] \in InSession, rid'[w] = rid[w],
               born' = born, pc'[w] \notin {"notify", "send"},
               SameReport(row'[w], row[w])
        PROVE  ReportOf(w)'
    BY <1>1, <1>4 DEF ReportOf, SameReport
  <1>5. CASE LockRow(w)
    <2>1. rid[w] \in RiskIds /\ Exists(rid[w])
      BY <1>5 DEF LockRow, TypeOK
    <2>2. /\ rid' = rid /\ row'[w] = risks[rid[w]] /\ born' = born
          /\ pc'[w] \notin {"notify", "send"}
      BY <1>5 DEF LockRow, FirstStep, TypeOK
    <2> QED
      BY <2>1, <2>2 DEF ReportOf, ReportOK
  <1>6. CASE MatchOne(w) \/ LookupRecorded(w)
    <2>1. PICK u \in UsageRows : row' = [row EXCEPT ![w] = Attributed(@, u)]
      BY <1>6 DEF MatchOne, LookupRecorded, Matching, PortRows, TypeOK
    <2>2. /\ pc[w] \in InSession /\ pc'[w] = "decide"
          /\ UNCHANGED <<rid, born>>
      BY <1>6 DEF MatchOne, LookupRecorded, InSession, TypeOK
    <2>3. row[w] \in RowSet
      BY <1>1, <2>2 DEF SessionOf
    <2>4. SameReport(Attributed(row[w], u), row[w])
      BY <2>3, HelpersKeepReports
    <2> QED
      BY <1>4, <2>1, <2>2, <2>4 DEF TypeOK, InSession
  <1>7. CASE MatchNone(w) \/ LookupNone(w) \/ LookupUnrecorded(w)
               \/ InsertUsage(w)
    <2>1. /\ UNCHANGED <<born, rid, row>>
          /\ pc[w] \in InSession /\ pc'[w] \in InSession \ {"notify", "send"}
      BY <1>7
      DEF MatchNone, LookupNone, LookupUnrecorded, InsertUsage, TypeOK,
          InSession
    <2> QED
      BY <1>4, <2>1 DEF SameReport
  <1>8. CASE Refresh(w)
    <2>1. PICK u \in UsageRows :
            row' = [row EXCEPT ![w] = Attributed(risks[rid[w]], u)]
      BY <1>8 DEF Refresh, PortRows, TypeOK
    <2>2. /\ rid[w] \in RiskIds /\ Exists(rid[w]) /\ pc'[w] = "decide"
          /\ UNCHANGED <<rid, born>>
      BY <1>8 DEF Refresh, TypeOK
    <2>3. SameReport(Attributed(risks[rid[w]], u), risks[rid[w]])
      BY <2>2, RowType, HelpersKeepReports
    <2> QED
      BY <2>1, <2>2, <2>3 DEF ReportOf, ReportOK, SameReport, TypeOK
  <1>9. CASE Decide(w)
    <2>1. PICK q \in Remapped(row[w]) : row' = [row EXCEPT ![w] = q]
      BY <1>9 DEF Decide
    <2>2. /\ UNCHANGED <<rid, born>> /\ pc[w] = "decide"
          /\ pc'[w] = "commit" /\ row'[w] = q
      BY <1>9, <2>1 DEF Decide, TypeOK
    <2>3. row[w] \in RowSet
      BY <1>1, <2>2 DEF SessionOf, InSession
    <2> QED
      BY <1>4, <2>1, <2>2, <2>3, RemapKeepsReports DEF InSession
  <1>10. CASE CommitKeep(w) /\ UNCHANGED session
    <2>1. /\ pc[w] = "commit" /\ UNCHANGED <<rid, row, born>>
      BY <1>10 DEF CommitKeep
    <2>2. CASE WillNotify(w)
      BY <1>1, <2>1, <2>2 DEF WillNotify, ReportOf, InSession
    <2>3. CASE ~WillNotify(w)
      BY <1>3, <1>10, <2>3 DEF CommitKeep
    <2> QED
      BY <2>2, <2>3
  <1>11. CASE Notify(w)
    <2>1. /\ pc[w] = "notify" /\ Exists(rid[w]) /\ UNCHANGED <<rid, born>>
          /\ row'[w] = risks[rid[w]]
      BY <1>11 DEF Notify, Notifiable, TypeOK
    <2>2. /\ rid[w] \in RiskIds /\ row[w].notify
          /\ SameReport(row[w], born[rid[w]].report)
      BY <1>1, <2>1 DEF SessionOf, ReportOf, InSession
    <2>3. SameReport(risks[rid[w]], born[rid[w]].report)
      BY <2>1, <2>2 DEF ReportOK
    <2> QED
      BY <2>1, <2>2, <2>3 DEF ReportOf, SameReport
  <1> QED
    BY <1>3, <1>5, <1>6, <1>7, <1>8, <1>9, <1>10, <1>11
    DEF Process, Rollback, SkipMissing, MatchMany, InsertConflict, RefreshGone,
        CommitKeep, CommitMerge, CommitStale, NotifySkip, Send, LockTimeout

LEMMA ReportsHold == Spec => []ReportOK
  <1>1. Init => ReportOK
    BY DEF Init, ReportOK, ReportOf, InSession
  <1>2. IInv /\ ReportOK /\ [Next]_vars => ReportOK'
    <2> SUFFICES ASSUME IInv, ReportOK, [Next]_vars PROVE ReportOK'
      OBVIOUS
    <2>1. TypeOK /\ TableOK /\ SessionOK /\ LockOK
      BY DEF IInv
    <2>2. \A i \in RiskIds : Exists(i)' =>
             SameReport(risks'[i], born'[i].report)
      BY <2>1, TableReports
    <2>3. ASSUME NEW v \in Workers PROVE ReportOf(v)'
      <3>1. CASE pc'[v] = pc[v] /\ rid'[v] = rid[v] /\ row'[v] = row[v]
        BY <2>1, <3>1, ReportFrame
      <3>2. CASE Process(v)
        BY <2>1, <3>2, ProcessReport
      <3>3. CASE pc'[v] \notin InSession
        BY <3>3 DEF ReportOf, InSession
      <3> QED
        BY <2>1, <3>1, <3>2, <3>3, SessionMoves
    <2> QED
      BY <2>2, <2>3 DEF ReportOK, SameReport
  <1> QED
    BY <1>1, <1>2, Invariance, PTL DEF Spec

-----------------------------------------------------------------------------
(* What was created and is gone does not come back.                        *)
LEMMA OnceGone ==
  ASSUME TypeOK, TableOK, SessionOK, LockOK, [Next]_vars, NEW i \in RiskIds,
         born[i] # NoVal, risks'[i] # NoVal
  PROVE  Exists(i)
  <1>1. ASSUME NEW j \in RiskIds, NEW r \in Reports, Create(j, r)
        PROVE  Exists(i)
    BY <1>1 DEF Create, TypeOK
  <1>2. ASSUME NEW j \in RiskIds, ApiDelete(j) PROVE Exists(i)
    BY <1>2 DEF ApiDelete, TypeOK
  <1>3. ASSUME NEW w \in Workers, MatchMany(w) PROVE Exists(i)
    BY <1>3, ManyFacts DEF TypeOK
  <1>4. ASSUME NEW w \in Workers, CommitKeep(w) PROVE Exists(i)
    BY <1>4, KeepFacts DEF TypeOK
  <1>5. ASSUME NEW w \in Workers, CommitMerge(w) PROVE Exists(i)
    BY <1>5, MergeFacts
  <1>6. ASSUME NEW w \in Periodics, CleanCommit(w) PROVE Exists(i)
    BY <1>6 DEF CleanCommit
  <1> QED
    BY <1>1, <1>2, <1>3, <1>4, <1>5, <1>6, Writers

(* A worker at a risk reported with its resource takes its owner over, and *)
(* replaces none but the trove project.                                    *)
TakesOver(w) ==
  row[w].ip = NoVal =>
    /\ pc[w] = "decide" => risks[rid[w]].project = row[w].project
    /\ pc[w] = "commit" =>
         risks[rid[w]].project \in {row[w].project, TroveProject}

OwnersOK == \A w \in Workers : TakesOver(w)

LEMMA RemappedProject ==
  ASSUME NEW r \in RowSet, NEW q \in Remapped(r)
  PROVE  q.project = r.project \/ r.project = TroveProject
  BY DEF Remapped

LEMMA OwnersFrame ==
  ASSUME IInv, [Next]_vars, NEW v \in Workers, TakesOver(v),
         pc'[v] = pc[v], rid'[v] = rid[v], row'[v] = row[v]
  PROVE  TakesOver(v)'
  <1> SUFFICES ASSUME pc[v] \in {"decide", "commit"}, row[v].ip = NoVal
               PROVE  TakesOver(v)'
    BY DEF TakesOver
  <1>1. rid[v] \in RiskIds /\ lock[rid[v]] = v
    BY DEF IInv, LockOK, HolderOf, SessionOK, SessionOf, InSession
  <1>2. risks'[rid[v]] = risks[rid[v]]
    BY <1>1, LockKept
  <1> QED
    BY <1>2 DEF TakesOver

LEMMA ProcessOwners ==
  ASSUME IInv, NEW w \in Workers, TakesOver(w), Process(w)
  PROVE  TakesOver(w)'
  <1> USE ConstantsAssumption
  <1>1. TypeOK /\ TableOK /\ SessionOf(w)
    BY DEF IInv, SessionOK
  <1>2. ASSUME pc'[w] \notin {"decide", "commit"} PROVE TakesOver(w)'
    BY <1>2 DEF TakesOver
  <1>3. ASSUME Finish(w) \/ Abandon(w) PROVE TakesOver(w)'
    BY <1>1, <1>2, <1>3 DEF Finish, Abandon, AfterRisk, TypeOK
  <1>4. CASE LockRow(w)
    <2>1. /\ UNCHANGED <<risks, rid>> /\ row'[w] = risks[rid[w]]
          /\ pc'[w] # "commit"
      BY <1>1, <1>4 DEF LockRow, FirstStep, TypeOK
    <2> QED
      BY <2>1 DEF TakesOver
  \* Between the match and the refresh the risk is one reported by IP.
  <1>5. CASE MatchOne(w) \/ LookupRecorded(w)
    <2>1. PICK u \in UsageRows : row' = [row EXCEPT ![w] = Attributed(@, u)]
      BY <1>1, <1>5
      DEF MatchOne, LookupRecorded, Matching, PortRows, TypeOK
    <2>2. row[w] \in RowSet /\ row[w].ip # NoVal
      BY <1>1, <1>5 DEF MatchOne, LookupRecorded, SessionOf, InSession
    <2>3. row'[w].ip # NoVal
      BY <1>1, <2>1, <2>2, AttributedRow DEF TypeOK
    <2> QED
      BY <2>3 DEF TakesOver
  <1>6. CASE MatchNone(w) \/ LookupNone(w)
    <2>1. row' = row /\ row[w].ip # NoVal
      BY <1>1, <1>6 DEF MatchNone, LookupNone, SessionOf
    <2> QED
      BY <2>1 DEF TakesOver
  <1>7. CASE Refresh(w)
    <2>1. PICK u \in UsageRows :
            row' = [row EXCEPT ![w] = Attributed(risks[rid[w]], u)]
      BY <1>1, <1>7 DEF Refresh, PortRows, TypeOK
    <2>2. /\ rid[w] \in RiskIds /\ risks[rid[w]] \in RowSet
          /\ risks[rid[w]].ip # NoVal
      BY <1>1, <1>7, RowType DEF Refresh, SessionOf, InSession, TableOK
    <2>3. row'[w].ip # NoVal
      BY <1>1, <2>1, <2>2, AttributedRow DEF TypeOK
    <2> QED
      BY <2>3 DEF TakesOver
  <1>8. CASE Decide(w)
    <2>1. PICK q \in Remapped(row[w]) : row' = [row EXCEPT ![w] = q]
      BY <1>8 DEF Decide
    <2>2. /\ UNCHANGED <<risks, rid>> /\ row[w] \in RowSet
          /\ pc[w] = "decide" /\ pc'[w] = "commit" /\ row'[w] = q
      BY <1>1, <1>8, <2>1 DEF Decide, SessionOf, InSession, TypeOK
    <2>3. q.ip = row[w].ip
      BY <2>1, <2>2, RemappedRow
    <2>4. q.project = row[w].project \/ row[w].project = TroveProject
      BY <2>1, <2>2, RemappedProject
    <2> QED
      BY <2>2, <2>3, <2>4 DEF TakesOver
  <1>9. CASE LookupUnrecorded(w) \/ InsertUsage(w)
    BY <1>1, <1>2, <1>9 DEF LookupUnrecorded, InsertUsage, TypeOK
  <1>10. CASE (CommitKeep(w) /\ Goto(w, "notify")) \/ Notify(w)
    BY <1>1, <1>2, <1>10 DEF Notify, TypeOK
  <1> QED
    BY <1>3, <1>4, <1>5, <1>6, <1>7, <1>8, <1>9, <1>10
    DEF Process, Rollback, SkipMissing, MatchMany, InsertConflict, RefreshGone,
        CommitKeep, CommitMerge, CommitStale, NotifySkip, Send, LockTimeout

LEMMA OwnersHold == Spec => []OwnersOK
  <1>1. Init => OwnersOK
    BY DEF Init, OwnersOK, TakesOver
  <1>2. IInv /\ OwnersOK /\ [Next]_vars => OwnersOK'
    <2> SUFFICES ASSUME IInv, OwnersOK, [Next]_vars, NEW v \in Workers
                 PROVE  TakesOver(v)'
      BY DEF OwnersOK
    <2>1. CASE pc'[v] = pc[v] /\ rid'[v] = rid[v] /\ row'[v] = row[v]
      BY <2>1, OwnersFrame DEF OwnersOK
    <2>2. CASE Process(v)
      BY <2>2, ProcessOwners DEF OwnersOK
    <2>3. CASE pc'[v] \notin InSession
      BY <2>3 DEF TakesOver, InSession
    <2> QED
      BY <2>1, <2>2, <2>3, SessionMoves DEF IInv
  <1> QED
    BY <1>1, <1>2, Invariance, PTL DEF Spec

(* Nobody takes a risk reported with its resource from its project, but    *)
(* for the trove project.                                                  *)
LEMMA OwnerMoves ==
  ASSUME IInv, OwnersOK, [Next]_vars, NEW i \in RiskIds,
         ResourceFirst(i), Exists(i), risks'[i] # NoVal
  PROVE  \/ risks'[i].project = risks[i].project
         \/ risks[i].project = TroveProject
  <1> DEFINE Goal == \/ risks'[i].project = risks[i].project
                     \/ risks[i].project = TroveProject
  <1>1. /\ TypeOK /\ TableOK /\ SessionOK /\ LockOK
        /\ born[i] # NoVal /\ risks[i].ip = NoVal
    BY DEF IInv, TableOK, ResourceFirst
  <1>2. ASSUME NEW j \in RiskIds, NEW r \in Reports, Create(j, r) PROVE Goal
    BY <1>1, <1>2 DEF Create, TypeOK
  <1>3. ASSUME NEW j \in RiskIds, ApiDelete(j) PROVE Goal
    BY <1>1, <1>3 DEF ApiDelete, TypeOK
  <1>4. ASSUME NEW w \in Workers, MatchMany(w) PROVE Goal
    BY <1>1, <1>4, ManyFacts DEF TypeOK
  <1>5. ASSUME NEW w \in Workers, CommitKeep(w) PROVE Goal
    <2> DEFINE q == Flushed(risks[rid[w]], row[w])
    <2>1. /\ rid[w] \in RiskIds /\ risks' = [risks EXCEPT ![rid[w]] = q]
          /\ Exists(rid[w]) /\ row[w].ip = risks[rid[w]].ip
      BY <1>1, <1>5, KeepFacts
    <2>2. row[w] \in RowSet /\ risks[rid[w]] \in RowSet /\ pc[w] = "commit"
      BY <1>1, <1>5, <2>1, RowType
      DEF CommitKeep, SessionOK, SessionOf, InSession
    <2>3. q.project = row[w].project
      BY <2>2, FlushedRow
    <2> HIDE DEF q
    <2>4. CASE rid[w] # i
      BY <1>1, <2>1, <2>4 DEF TypeOK
    <2>5. CASE rid[w] = i
      <3>1. risks'[i].project = row[w].project
        BY <1>1, <2>1, <2>3, <2>5 DEF TypeOK
      <3>2. risks[i].project \in {row[w].project, TroveProject}
        BY <1>1, <2>1, <2>2, <2>5 DEF OwnersOK, TakesOver
      <3> QED
        BY <3>1, <3>2
    <2> QED
      BY <2>4, <2>5
  <1>6. ASSUME NEW w \in Workers, CommitMerge(w) PROVE Goal
    BY <1>1, <1>6, MergeFacts
  <1>7. ASSUME NEW w \in Periodics, CleanCommit(w) PROVE Goal
    BY <1>7 DEF CleanCommit
  <1> QED
    BY <1>2, <1>3, <1>4, <1>5, <1>6, <1>7, Writers

(* Only the reload makes a message ready.                                  *)
LEMMA ComesToSend ==
  ASSUME TypeOK, NEW w \in Workers, Process(w), ~Notify(w)
  PROVE  pc'[w] # "send"
  <1>1. ASSUME Finish(w) \/ Abandon(w) PROVE pc'[w] # "send"
    BY <1>1 DEF Finish, Abandon, AfterRisk, TypeOK
  <1>2. CASE \/ LockRow(w) \/ MatchOne(w) \/ MatchNone(w) \/ LookupNone(w)
             \/ LookupRecorded(w)
    BY <1>2 DEF LockRow, FirstStep, MatchOne, MatchNone, LookupNone,
                LookupRecorded, TypeOK
  <1>3. CASE \/ LookupUnrecorded(w) \/ InsertUsage(w) \/ Refresh(w)
             \/ Decide(w)
    BY <1>3 DEF LookupUnrecorded, InsertUsage, Refresh, Decide, TypeOK
  <1>4. CASE CommitKeep(w)
    <2>1. CASE WillNotify(w)
      BY <1>4, <2>1 DEF CommitKeep, TypeOK
    <2>2. CASE ~WillNotify(w)
      BY <1>1, <1>4, <2>2 DEF CommitKeep
    <2> QED
      BY <2>1, <2>2
  <1> QED
    BY <1>1, <1>2, <1>3, <1>4
    DEF Process, Rollback, SkipMissing, MatchMany, InsertConflict, RefreshGone,
        CommitMerge, CommitStale, NotifySkip, Send, LockTimeout

LEMMA MailStep ==
  ASSUME IInv, ReportOK, OwnersOK, NotifiesOwner, [Next]_vars,
         NEW w \in Workers, pc'[w] = "send"
  PROVE  /\ born'[rid'[w]].report.notify
         /\ ResourceFirst(rid[w])' /\ Exists(rid[w])' =>
              row'[w].project \in {risks'[rid'[w]].project, TroveProject}
  <1>1. TypeOK /\ TableOK /\ SessionOK /\ LockOK
    BY DEF IInv
  <1>2. CASE pc'[w] = pc[w] /\ rid'[w] = rid[w] /\ row'[w] = row[w]
    <2>1. PICK i \in RiskIds : i = rid[w]
      BY <1>1, <1>2 DEF SessionOK, SessionOf, InSession
    <2>2. born[i] # NoVal /\ born'[i] = born[i] /\ born[i].report.notify
      BY <1>1, <1>2, <2>1, BornStays
      DEF SessionOK, SessionOf, InSession, NotifiesOwner
    <2>3. ASSUME ResourceFirst(i)', risks'[i] # NoVal
          PROVE  row[w].project \in {risks'[i].project, TroveProject}
      <3>1. ResourceFirst(i) /\ Exists(i)
        BY <1>1, <2>2, <2>3, OnceGone DEF ResourceFirst
      <3>2. row[w].project \in {risks[i].project, TroveProject}
        BY <1>2, <2>1, <3>1 DEF NotifiesOwner
      <3> QED
        BY <2>3, <3>1, <3>2, OwnerMoves
    <2> QED
      BY <1>2, <2>1, <2>2, <2>3 DEF ResourceFirst
  <1>3. CASE Notify(w)
    <2>1. /\ UNCHANGED <<risks, born, rid>> /\ pc[w] = "notify"
          /\ row'[w] = risks[rid[w]]
      BY <1>1, <1>3 DEF Notify, TypeOK
    <2>2. row[w].notify /\ SameReport(row[w], born[rid[w]].report)
      BY <2>1 DEF ReportOK, ReportOf, InSession
    <2> QED
      BY <2>1, <2>2 DEF SameReport
  <1> QED
    BY <1>1, <1>2, <1>3, SessionMoves, ComesToSend DEF InSession

(* A message on its way was asked for; and however the workers, the        *)
(* re-drive, merges and deletions interleave between the reload and the    *)
(* send, one about a risk reported with its resource goes to the project   *)
(* the risk belongs to, if it is still on record: a second processing      *)
(* moves no such risk except out of the trove project.                     *)
THEOREM OwnersAreNotified == Spec => []NotifiesOwner
  <1>1. Init => NotifiesOwner
    BY DEF Init, NotifiesOwner
  <1>2. IInv /\ ReportOK /\ OwnersOK /\ NotifiesOwner /\ [Next]_vars
            => NotifiesOwner'
    BY MailStep DEF NotifiesOwner
  <1> QED
    BY <1>1, <1>2, Invariance, ReportsHold, OwnersHold, PTL DEF Spec

-----------------------------------------------------------------------------
(* One risk per exposure, as long as risks are processed one at a time.    *)

Serially ==
  \A v, w \in Workers : pc[v] \in InSession /\ pc[w] \in InSession => v = w

(* A risk about to be kept is still the only one of its exposure.          *)
SoleOf(w) ==
  pc[w] = "commit" /\ other[w] = NoVal =>
    \A j \in RiskIds : ~IsDuplicate(rid[w], row[w], j)

SoleOK == OneRiskPerExposure /\ \A w \in Workers : SoleOf(w)

(* Rows that go, or change without becoming active or moving, do not       *)
(* double an exposure.                                                     *)
Fades(i) ==
  \/ risks'[i] = risks[i] \/ ~Active(i)'
  \/ /\ Active(i) /\ risks'[i].project = risks[i].project
     /\ SameExposure(risks'[i], risks[i])

LEMMA FadingKeepsOne ==
  ASSUME OneRiskPerExposure, \A i \in RiskIds : Fades(i)
  PROVE  OneRiskPerExposure'
  <1> SUFFICES ASSUME NEW i \in RiskIds, NEW j \in RiskIds,
                      Active(i)', Active(j)', Given(risks'[i].project),
                      SameExposure(risks'[i], risks'[j])
               PROVE  i = j
    BY DEF OneRiskPerExposure
  <1>1. /\ Active(i) /\ risks'[i].project = risks[i].project
        /\ SameExposure(risks'[i], risks[i])
    BY DEF Fades, Active, SameExposure
  <1>2. Active(j) /\ SameExposure(risks'[j], risks[j])
    BY DEF Fades, Active, SameExposure
  <1> QED
    BY <1>1, <1>2 DEF OneRiskPerExposure, SameExposure

LEMMA FadingKeepsSole ==
  ASSUME \A i \in RiskIds : Fades(i), NEW w \in Workers, SoleOf(w),
         pc'[w] = pc[w], other'[w] = other[w], rid'[w] = rid[w],
         row'[w] = row[w]
  PROVE  SoleOf(w)'
  <1> SUFFICES ASSUME pc[w] = "commit", other[w] = NoVal, NEW j \in RiskIds,
                      IsDuplicate(rid[w], row[w], j)'
               PROVE  FALSE
    BY DEF SoleOf
  <1>1. IsDuplicate(rid[w], row[w], j)
    BY DEF IsDuplicate, Fades, Active, SameExposure
  <1> QED
    BY <1>1 DEF SoleOf

(* Only a commit makes a row of the table a risk of its exposure.          *)
LEMMA OthersFade ==
  ASSUME TypeOK, LockOK, SessionOK, [Next]_vars, NEW i \in RiskIds,
         \A w \in Workers : ~CommitKeep(w)
  PROVE  Fades(i)
  <1>1. CASE UNCHANGED <<risks, born>>
    BY <1>1 DEF Fades
  <1>2. ASSUME NEW j \in RiskIds, NEW r \in Reports, Create(j, r)
        PROVE  Fades(i)
    BY <1>2 DEF Create, NewRisk, TypeOK, Fades, Active
  <1>3. ASSUME NEW j \in RiskIds, ApiDelete(j) PROVE Fades(i)
    BY <1>3 DEF ApiDelete, TypeOK, Fades, Active
  <1>4. ASSUME NEW w \in Workers, MatchMany(w) PROVE Fades(i)
    BY <1>4, ManyFacts DEF TypeOK, Fades, Active
  <1>5. ASSUME NEW w \in Workers, CommitMerge(w) PROVE Fades(i)
    BY <1>5, MergeFacts DEF Fades, Active, SameExposure
  <1>6. ASSUME NEW w \in Periodics, CleanCommit(w) PROVE Fades(i)
    BY <1>6 DEF CleanCommit, Fades, Active
  <1> QED
    BY <1>1, <1>2, <1>3, <1>4, <1>5, <1>6, Writers

(* A worker comes to the commit by Decide.                                 *)
LEMMA CommitEntered ==
  ASSUME TypeOK, [Next]_vars, NEW v \in Workers
  PROVE  \/ /\ pc'[v] = pc[v] /\ rid'[v] = rid[v] /\ row'[v] = row[v]
            /\ other'[v] = other[v]
         \/ Decide(v)
         \/ pc'[v] # "commit"
  <1> DEFINE Goal == \/ /\ pc'[v] = pc[v] /\ rid'[v] = rid[v]
                        /\ row'[v] = row[v] /\ other'[v] = other[v]
                     \/ Decide(v)
                     \/ pc'[v] # "commit"
  <1>1. CASE UNCHANGED <<pc, session>>
    BY <1>1
  <1>2. ASSUME NEW w \in Workers, Process(w), v # w PROVE Goal
    BY <1>2, ProcessOthers DEF OthersKeep
  <1>3. ASSUME Finish(v) \/ Abandon(v) PROVE Goal
    BY <1>3 DEF Finish, Abandon, AfterRisk, TypeOK
  <1>4. CASE Process(v)
    <2>1. CASE LockRow(v)
      BY <2>1 DEF LockRow, FirstStep, TypeOK
    <2>2. CASE \/ MatchOne(v) \/ MatchNone(v) \/ LookupNone(v)
               \/ LookupRecorded(v)
      BY <2>2 DEF MatchOne, MatchNone, LookupNone, LookupRecorded, TypeOK
    <2>3. CASE LookupUnrecorded(v) \/ InsertUsage(v) \/ Refresh(v)
      BY <2>3 DEF LookupUnrecorded, InsertUsage, Refresh, TypeOK
    <2>4. CASE (CommitKeep(v) /\ Goto(v, "notify")) \/ Notify(v)
      BY <2>4 DEF Notify, TypeOK
    <2> QED
      BY <1>3, <1>4, <2>1, <2>2, <2>3, <2>4
      DEF Process, Rollback, SkipMissing, MatchMany, InsertConflict,
          RefreshGone, CommitKeep, CommitMerge, CommitStale, NotifySkip,
          Send, LockTimeout
  <1>5. ASSUME NEW w \in Workers, Fail(w) \/ Crash(w) PROVE Goal
    <2>1. OthersKeep(w) /\ Outside(w)'
      BY <1>5, FinishOutside, AbandonOutside DEF Fail, Crash, Rollback
    <2> QED
      BY <2>1 DEF OthersKeep, Outside, InSession
  <1>6. ASSUME NEW w \in Workers, NEW i \in RiskIds, Begin(w, i) PROVE Goal
    BY <1>6 DEF Begin, TypeOK
  <1>7. ASSUME NEW w \in Workers,
               StartReprocess(w) \/ CleanRead(w) \/ CleanCommit(w)
        PROVE  Goal
    BY <1>7 DEF StartReprocess, CleanRead, CleanCommit, TypeOK
  <1> QED
    BY <1>1, <1>2, <1>4, <1>5, <1>6, <1>7
    DEF Next, Create, ApiDelete, LoseCast, StartCast, ReprocessNext,
        UsageChange, Tick, Quiet, vars, Workers

(* The search of Decide and the commit that follows it are not separated   *)
(* by another commit.                                                      *)
LEMMA SoleStep ==
  ASSUME IInv, ReportOK, Serially, SoleOK, [Next]_vars
  PROVE  SoleOK'
  <1>1. TypeOK /\ TableOK /\ SessionOK /\ LockOK
    BY DEF IInv
  <1>2. ASSUME NEW w \in Workers, CommitKeep(w) PROVE SoleOK'
    <2> DEFINE i == rid[w]
               q == Flushed(risks[i], row[w])
    <2>1. /\ pc[w] = "commit" /\ other[w] = NoVal
          /\ i \in RiskIds /\ Exists(i) /\ row[w] \in RowSet
          /\ risks[i] \in RowSet /\ Whole(row[w])
      BY <1>1, <1>2, KeepFacts, RowType
      DEF CommitKeep, SessionOK, SessionOf, InSession
    <2>2. q.project = row[w].project /\ q.resource = row[w].resource
      BY <2>1, FlushedRow
    <2>3. q.type = row[w].type
      BY <2>1, HelpersKeepReports
      DEF SameReport, ReportOK, ReportOf, InSession
    <2>4. risks' = [risks EXCEPT ![i] = q]
      BY <1>1, <1>2, KeepFacts
    <2> HIDE DEF q
    <2>5. risks'[i] = q /\ \A j \in RiskIds \ {i} : risks'[j] = risks[j]
      BY <1>1, <2>1, <2>4 DEF TypeOK
    <2>6. \A j \in RiskIds : ~IsDuplicate(i, row[w], j)
      BY <2>1 DEF SoleOK, SoleOf
    <2>7. ASSUME NEW j \in RiskIds \ {i}, Active(j), Given(risks[j].project)
          PROVE  ~SameExposure(q, risks[j])
      BY <2>2, <2>3, <2>6, <2>7 DEF IsDuplicate, Active, SameExposure
    <2>8. ASSUME NEW j \in RiskIds \ {i}, Active(j), Given(q.project),
                 SameExposure(q, risks[j])
          PROVE  Given(risks[j].project)
      <3>1. Given(q.resource)
        BY <2>1, <2>2, <2>8 DEF Whole
      <3> QED
        BY <1>1, <2>8, <3>1 DEF SameExposure, TableOK, Whole, Active
    <2>9. OneRiskPerExposure'
      <3> SUFFICES ASSUME NEW j \in RiskIds, NEW k \in RiskIds,
                          Active(j)', Active(k)', Given(risks'[j].project),
                          SameExposure(risks'[j], risks'[k])
                   PROVE  j = k
        BY DEF OneRiskPerExposure
      <3>1. CASE j # i /\ k # i
        BY <2>5, <3>1 DEF SoleOK, OneRiskPerExposure, Active
      <3>2. CASE j = i /\ k # i
        BY <2>5, <2>7, <2>8, <3>2 DEF Active
      <3>3. CASE j # i /\ k = i
        BY <2>5, <2>7, <3>3 DEF Active, SameExposure
      <3> QED
        BY <3>1, <3>2, <3>3
    <2>10. ASSUME NEW v \in Workers PROVE SoleOf(v)'
      <3>1. CASE v = w
        <4>1. pc'[w] # "commit"
          BY <1>1, <1>2 DEF CommitKeep, Finish, AfterRisk, TypeOK
        <4> QED
          BY <3>1, <4>1 DEF SoleOf
      <3>2. CASE v # w
        <4>1. pc'[v] = pc[v]
          BY <1>1, <1>2, <3>2 DEF CommitKeep, Finish, TypeOK
        <4>2. pc[v] # "commit"
          BY <2>1, <3>2 DEF Serially, InSession
        <4> QED
          BY <4>1, <4>2 DEF SoleOf
      <3> QED
        BY <3>1, <3>2
    <2> QED
      BY <2>9, <2>10 DEF SoleOK
  <1>3. CASE \A w \in Workers : ~CommitKeep(w)
    <2>1. \A i \in RiskIds : Fades(i)
      BY <1>1, <1>3, OthersFade
    <2>2. OneRiskPerExposure'
      BY <2>1, FadingKeepsOne DEF SoleOK
    <2>3. ASSUME NEW v \in Workers PROVE SoleOf(v)'
      <3>1. CASE /\ pc'[v] = pc[v] /\ rid'[v] = rid[v] /\ row'[v] = row[v]
                 /\ other'[v] = other[v]
        BY <2>1, <3>1, FadingKeepsSole DEF SoleOK
      <3>2. CASE Decide(v)
        <4>1. PICK r \in Remapped(row[v]) :
                /\ row' = [row EXCEPT ![v] = r]
                /\ IF Duplicates(v, r) = {} THEN UNCHANGED other
                   ELSE \E j \in Duplicates(v, r) :
                          other' = [other EXCEPT ![v] = Loaded(j)]
          BY <3>2 DEF Decide
        <4>2. UNCHANGED <<risks, rid>> /\ row'[v] = r
          BY <1>1, <3>2, <4>1 DEF Decide, TypeOK
        <4>3. CASE Duplicates(v, r) = {}
          BY <4>2, <4>3 DEF SoleOf, Duplicates, IsDuplicate
        <4>4. ASSUME NEW j \in Duplicates(v, r),
                     other' = [other EXCEPT ![v] = Loaded(j)]
              PROVE  SoleOf(v)'
          <5>1. risks[j] \in RowSet /\ j \in RiskIds
            BY <1>1, <4>4, RowType DEF Duplicates, IsDuplicate
          <5>2. Loaded(j) \in LoadedSet
            BY <5>1 DEF Loaded, LoadedSet, RowSet
          <5>3. other'[v] # NoVal
            BY <1>1, <4>4, <5>2, NoValAssumption DEF TypeOK
          <5> QED
            BY <5>3 DEF SoleOf
        <4> QED
          BY <4>1, <4>3, <4>4
      <3>3. CASE pc'[v] # "commit"
        BY <3>3 DEF SoleOf
      <3> QED
        BY <1>1, <3>1, <3>2, <3>3, CommitEntered
    <2> QED
      BY <2>2, <2>3 DEF SoleOK
  <1> QED
    BY <1>2, <1>3

(* Whatever the number of workers, reports and failures, an exposure has   *)
(* one processed risk as long as risks are processed one at a time: it is  *)
(* the search of _process_security_risk and its commit by two workers at   *)
(* once that double it.                                                    *)
THEOREM SerialProcessing == Spec /\ []Serially => []OneRiskPerExposure
  <1>1. Init => SoleOK
    BY DEF Init, SoleOK, OneRiskPerExposure, Active, SoleOf
  <1>2. IInv /\ ReportOK /\ Serially /\ SoleOK /\ [Next]_vars => SoleOK'
    BY SoleStep
  <1>3. SoleOK => OneRiskPerExposure
    BY DEF SoleOK
  <1> QED
    BY <1>1, <1>2, <1>3, Invariance, ReportsHold, PTL DEF Spec

-----------------------------------------------------------------------------
(* One message per risk, as long as the row lock does what it is there for.*)

(* From its locking read to its commit a worker has its risk to itself.    *)
Working(w) == pc[w] \in InSession \ {"notify", "send"}

KeptApart ==
  \A v, w \in Workers : Working(v) /\ Working(w) /\ rid[v] = rid[w] => v = w

(* was_new is still so.                                                    *)
TruthOf(w) ==
  Working(w) /\ wasNew[w] /\ Exists(rid[w]) => IsNew(rid[w])

(* NotifyOf without its restriction to risks reported with a resource.     *)
OnceOf(i) ==
  /\ sent[i] \in {0, 1}
  /\ IsNew(i) => sent[i] = 0 /\ \A w \in Workers : ~Pending(w, i)
  /\ \A w \in Workers : Pending(w, i) =>
        sent[i] = 0 /\ \A v \in Workers : Pending(v, i) => v = w

OnceOK ==
  /\ \A w \in Workers : TruthOf(w)
  /\ \A i \in RiskIds : OnceOf(i)

(* Only the worker that has a risk to itself takes it out of NEW, but for  *)
(* those that remove it.                                                   *)
LEMMA NewUntil ==
  ASSUME IInv, [Next]_vars, NEW i \in RiskIds, IsNew(i), Exists(i)'
  PROVE  \/ IsNew(i)'
         \/ \E w \in Workers : /\ MatchMany(w) \/ CommitKeep(w)
                               /\ Working(w) /\ rid[w] = i
  <1>1. TypeOK /\ TableOK /\ SessionOK /\ LockOK
    BY DEF IInv
  <1> DEFINE Goal == \/ IsNew(i)'
                     \/ \E w \in Workers : /\ MatchMany(w) \/ CommitKeep(w)
                                           /\ Working(w) /\ rid[w] = i
  <1>2. CASE UNCHANGED <<risks, born>>
    BY <1>2 DEF IsNew
  <1>3. ASSUME NEW j \in RiskIds, NEW r \in Reports, Create(j, r) PROVE Goal
    <2>1. i # j
      BY <1>1, <1>3 DEF Create, TableOK, IsNew
    <2> QED
      BY <1>1, <1>3, <2>1 DEF Create, IsNew, TypeOK
  <1>4. ASSUME NEW j \in RiskIds, ApiDelete(j) PROVE Goal
    BY <1>1, <1>4 DEF ApiDelete, IsNew, TypeOK
  <1>5. ASSUME NEW w \in Workers, MatchMany(w) PROVE Goal
    <2>1. CASE rid[w] = i
      BY <1>5, <2>1 DEF MatchMany, Working, InSession
    <2>2. CASE rid[w] # i
      BY <1>1, <1>5, <2>2, ManyFacts DEF IsNew, TypeOK
    <2> QED
      BY <2>1, <2>2
  <1>6. ASSUME NEW w \in Workers, CommitKeep(w) PROVE Goal
    <2>1. CASE rid[w] = i
      BY <1>6, <2>1 DEF CommitKeep, Working, InSession
    <2>2. CASE rid[w] # i
      BY <1>1, <1>6, <2>2, KeepFacts DEF IsNew, TypeOK
    <2> QED
      BY <2>1, <2>2
  <1>7. ASSUME NEW w \in Workers, CommitMerge(w) PROVE Goal
    BY <1>1, <1>7, MergeFacts DEF IsNew
  <1>8. ASSUME NEW w \in Periodics, CleanCommit(w) PROVE Goal
    BY <1>8 DEF CleanCommit, IsNew
  <1> QED
    BY <1>2, <1>3, <1>4, <1>5, <1>6, <1>7, <1>8, Writers

(* was_new is set by the locking read, and nothing makes it false after it.*)
LEMMA WorkEntered ==
  ASSUME TypeOK, [Next]_vars, NEW v \in Workers, Working(v)'
  PROVE  \/ /\ Working(v) /\ rid'[v] = rid[v] /\ wasNew'[v] = wasNew[v]
            /\ ~MatchMany(v) /\ ~CommitKeep(v)
         \/ LockRow(v)
  <1> DEFINE Goal == \/ /\ Working(v) /\ rid'[v] = rid[v]
                        /\ wasNew'[v] = wasNew[v]
                        /\ ~MatchMany(v) /\ ~CommitKeep(v)
                     \/ LockRow(v)
  <1>1. ASSUME Finish(v) \/ Abandon(v) PROVE FALSE
    BY <1>1 DEF Finish, Abandon, AfterRisk, TypeOK, Working, InSession
  <1>2. ~MatchMany(v) /\ ~CommitKeep(v)
    BY <1>1 DEF MatchMany, CommitKeep, TypeOK, Working
  <1>3. CASE UNCHANGED <<pc, session>>
    BY <1>2, <1>3 DEF Working
  <1>4. ASSUME NEW w \in Workers, v # w, OthersKeep(w) PROVE Goal
    BY <1>2, <1>4 DEF OthersKeep, Working
  <1>5. CASE Process(v)
    <2>1. CASE \/ MatchOne(v) \/ MatchNone(v) \/ LookupNone(v)
               \/ LookupRecorded(v) \/ LookupUnrecorded(v)
      BY <1>2, <2>1
      DEF MatchOne, MatchNone, LookupNone, LookupRecorded, LookupUnrecorded,
          Working, InSession
    <2>2. CASE InsertUsage(v) \/ Refresh(v) \/ Decide(v)
      BY <1>2, <2>2 DEF InsertUsage, Refresh, Decide, Working, InSession
    <2>3. ~Notify(v)
      BY DEF Notify, TypeOK, Working
    <2> QED
      BY <1>1, <1>2, <1>5, <2>1, <2>2, <2>3
      DEF Process, Rollback, SkipMissing, InsertConflict, RefreshGone,
          CommitMerge, CommitStale, NotifySkip, Send, LockTimeout
  <1>6. ASSUME NEW w \in Workers, Process(w), v # w PROVE Goal
    BY <1>4, <1>6, ProcessOthers
  <1>7. ASSUME NEW w \in Workers, Fail(w) \/ Crash(w) PROVE Goal
    <2>1. OthersKeep(w) /\ v # w
      BY <1>1, <1>7, FinishOutside, AbandonOutside DEF Fail, Crash, Rollback
    <2> QED
      BY <1>4, <2>1
  <1>8. ASSUME NEW w \in Workers, NEW i \in RiskIds, Begin(w, i) PROVE Goal
    BY <1>2, <1>8 DEF Begin, TypeOK, Working, InSession
  <1>9. ASSUME NEW w \in Workers,
               StartReprocess(w) \/ CleanRead(w) \/ CleanCommit(w)
        PROVE  Goal
    BY <1>2, <1>9
    DEF StartReprocess, CleanRead, CleanCommit, TypeOK, Working, InSession
  <1> QED
    BY <1>3, <1>5, <1>6, <1>7, <1>8, <1>9
    DEF Next, Create, ApiDelete, LoseCast, StartCast, ReprocessNext,
        UsageChange, Tick, Quiet, vars, Workers

LEMMA TruthStep ==
  ASSUME IInv, KeptApart, [Next]_vars, NEW v \in Workers, TruthOf(v)
  PROVE  TruthOf(v)'
  <1> SUFFICES ASSUME Working(v)', wasNew'[v], (Exists(rid[v]))'
               PROVE  (IsNew(rid[v]))'
    BY DEF TruthOf
  <1>1. TypeOK /\ TableOK /\ SessionOK /\ LockOK
    BY DEF IInv
  <1>2. CASE LockRow(v)
    BY <1>1, <1>2 DEF LockRow, TypeOK, IsNew
  <1>3. CASE /\ Working(v) /\ rid'[v] = rid[v] /\ wasNew'[v] = wasNew[v]
             /\ ~MatchMany(v) /\ ~CommitKeep(v)
    <2>1. rid[v] \in RiskIds /\ born[rid[v]] # NoVal
      BY <1>1, <1>3 DEF SessionOK, SessionOf, Working, InSession
    <2>2. PICK i \in RiskIds : i = rid[v]
      BY <2>1
    <2>3. risks'[i] # NoVal /\ Exists(i)
      BY <1>1, <1>3, <2>1, <2>2, OnceGone
    <2>4. IsNew(i)
      BY <1>3, <2>2, <2>3 DEF TruthOf
    <2>5. ASSUME NEW w \in Workers, MatchMany(w) \/ CommitKeep(w),
                 Working(w), rid[w] = i
          PROVE  FALSE
      BY <1>3, <2>2, <2>5 DEF KeptApart
    <2>6. IsNew(i)'
      BY <2>3, <2>4, <2>5, NewUntil
    <2> QED
      BY <1>3, <2>2, <2>6 DEF IsNew
  <1> QED
    BY <1>1, <1>2, <1>3, WorkEntered

LEMMA OnceStep ==
  ASSUME IInv, OnceOK, [Next]_vars, NEW i \in RiskIds
  PROVE  OnceOf(i)'
  <1>1. TypeOK /\ TableOK /\ SessionOK /\ LockOK /\ OnceOf(i)
    BY DEF IInv, OnceOK
  <1>2. ASSUME sent'[i] = sent[i], ~IsNew(i) => ~IsNew(i)',
               \A v \in Workers : Pending(v, i)' => Pending(v, i)
        PROVE  OnceOf(i)'
    BY <1>1, <1>2 DEF OnceOf
  <1>3. CASE born[i] = NoVal
    <2>1. sent[i] = 0 /\ sent'[i] = sent[i]
      BY <1>1, <1>3, Senders
      DEF IInv, NotifyOK, NotifyOf, Send, SessionOK, SessionOf, InSession,
          TypeOK
    <2>2. \A v \in Workers : ~Pending(v, i)
      BY <1>1, <1>3 DEF Pending, SessionOK, SessionOf, InSession
    <2>3. \A v \in Workers : ~Pending(v, i)'
      <3>1. ASSUME NEW w \in Workers, CommitKeep(w), NEW v \in Workers
            PROVE  ~Pending(v, i)'
        <4>1. rid[w] # i
          BY <1>1, <1>3, <3>1 DEF CommitKeep, SessionOK, SessionOf, InSession
        <4> QED
          BY <1>1, <2>2, <3>1, <4>1, FinishOutside
          DEF CommitKeep, Pending, OthersKeep, Outside, TypeOK
      <3> QED
        BY <1>1, <2>2, <3>1, NewPending
    <2> QED
      BY <2>1, <2>3 DEF OnceOf
  <1>4. ASSUME NEW w \in Workers, CommitKeep(w), born[i] # NoVal
        PROVE  OnceOf(i)'
    <2>1. sent' = sent /\ (~IsNew(i) => ~IsNew(i)')
      BY <1>1, <1>4, NeverNewAgain DEF CommitKeep
    <2>2. CASE Finish(w) \/ rid[w] # i
      <3>1. \A v \in Workers : Pending(v, i)' => Pending(v, i)
        BY <1>1, <1>4, <2>2, FinishOutside
        DEF CommitKeep, Pending, OthersKeep, Outside, TypeOK
      <3> QED
        BY <1>2, <2>1, <3>1
    \* The transition out of NEW: nothing was sent or pending before.
    <2>3. CASE ~Finish(w) /\ rid[w] = i
      <3>1. /\ wasNew[w] /\ pc' = [pc EXCEPT ![w] = "notify"]
            /\ UNCHANGED session
        BY <1>4, <2>3 DEF CommitKeep, WillNotify
      <3>2. IsNew(i)
        BY <1>4, <2>3, <3>1
        DEF OnceOK, TruthOf, CommitKeep, Working, InSession
      <3>3. sent[i] = 0 /\ \A v \in Workers : ~Pending(v, i)
        BY <1>1, <3>2 DEF OnceOf
      <3>4. \A v \in Workers : Pending(v, i)' => v = w
        BY <1>1, <3>1, <3>3 DEF Pending, TypeOK
      <3>5. ~IsNew(i)'
        BY <1>1, <1>4, <2>3, KeepFacts DEF IsNew, TypeOK
      <3> QED
        BY <2>1, <3>3, <3>4, <3>5 DEF OnceOf
    <2> QED
      BY <2>2, <2>3
  <1>5. ASSUME NEW w \in Workers, Send(w), born[i] # NoVal
        PROVE  OnceOf(i)'
    <2>1. ~IsNew(i) => ~IsNew(i)'
      BY <1>1, <1>5, NeverNewAgain
    <2>2. \A v \in Workers : Pending(v, i)' => v # w /\ Pending(v, i)
      BY <1>1, <1>5, FinishOutside DEF Send, Pending, OthersKeep, Outside
    <2>3. CASE rid[w] # i
      <3>1. sent'[i] = sent[i]
        BY <1>1, <1>5, <2>3 DEF Send, TypeOK
      <3> QED
        BY <1>2, <2>1, <2>2, <3>1
    <2>4. CASE rid[w] = i
      <3>1. Pending(w, i) /\ sent'[i] = sent[i] + 1
        BY <1>1, <1>5, <2>4 DEF Send, Pending, TypeOK
      <3>2. /\ sent'[i] = 1 /\ ~IsNew(i)'
            /\ \A v \in Workers : ~Pending(v, i)'
        BY <1>1, <2>1, <2>2, <3>1 DEF OnceOf
      <3> QED
        BY <3>2 DEF OnceOf
    <2> QED
      BY <2>3, <2>4
  <1>6. CASE /\ born[i] # NoVal
             /\ \A w \in Workers : ~CommitKeep(w) /\ ~Send(w)
    BY <1>1, <1>2, <1>6, NeverNewAgain, NewPending, Senders
  <1> QED
    BY <1>3, <1>4, <1>5, <1>6

(* Every risk is notified at most once, however it was reported and        *)
(* however often its cast is delivered, if each worker has its risk to     *)
(* itself from the locking read to the commit.  The row lock gives that    *)
(* except to a worker that commits a new IP usage on the way; so this is   *)
(* all that stands between the code and the comment on its was_new.        *)
THEOREM UndividedNotifiesOnce == Spec /\ []KeptApart => []NotifiedOnce
  <1>1. Init => OnceOK
    BY DEF Init, OnceOK, TruthOf, Working, InSession, OnceOf, IsNew, Pending
  <1>2. IInv /\ KeptApart /\ OnceOK /\ [Next]_vars => OnceOK'
    BY TruthStep, OnceStep DEF OnceOK
  <1>3. OnceOK => NotifiedOnce
    BY DEF OnceOK, OnceOf, NotifiedOnce
  <1> QED
    BY <1>1, <1>2, <1>3, Invariance, PTL DEF Spec

(* A row lock ends with its worker's transaction.                          *)
LEMMA LockEnds ==
  ASSUME TypeOK, [Next]_vars, NEW i \in RiskIds, NEW v \in Workers,
         lock[i] = v
  PROVE  \/ lock'[i] = v
         \/ Finish(v) \/ Abandon(v) \/ CommitKeep(v) \/ InsertUsage(v)
  <1> DEFINE Goal == \/ lock'[i] = v
                     \/ Finish(v) \/ Abandon(v) \/ CommitKeep(v)
                     \/ InsertUsage(v)
  <1>1. v # NoVal
    BY ConstantsAssumption
  <1>2. CASE lock' = lock
    BY <1>2
  <1>3. ASSUME NEW w \in Workers, lock' = ReleasedBy(w), w # v PROVE Goal
    BY <1>1, <1>3 DEF ReleasedBy
  <1>4. ASSUME NEW w \in Workers, Finish(w) \/ Abandon(w) \/ InsertUsage(w)
        PROVE  Goal
    BY <1>3, <1>4 DEF Finish, Abandon, InsertUsage
  <1>5. ASSUME NEW w \in Workers, LockRow(w) PROVE Goal
    BY <1>1, <1>5 DEF LockRow, TypeOK
  <1>6. ASSUME NEW w \in Workers, Process(w) PROVE Goal
    <2>1. CASE \/ MatchOne(w) \/ MatchNone(w) \/ LookupNone(w)
               \/ LookupRecorded(w) \/ LookupUnrecorded(w) \/ Refresh(w)
               \/ Decide(w) \/ Notify(w)
      BY <1>2, <2>1
      DEF MatchOne, MatchNone, LookupNone, LookupRecorded, LookupUnrecorded,
          Refresh, Decide, Notify
    <2>2. CASE CommitKeep(w)
      BY <1>3, <1>4, <2>2 DEF CommitKeep
    <2> QED
      BY <1>4, <1>5, <1>6, <2>1, <2>2
      DEF Process, Rollback, SkipMissing, MatchMany, InsertConflict,
          RefreshGone, CommitMerge, CommitStale, NotifySkip, Send,
          LockTimeout
  <1>7. ASSUME NEW w \in Workers, Fail(w) \/ Crash(w) PROVE Goal
    BY <1>4, <1>7 DEF Fail, Crash, Rollback
  <1> QED
    BY <1>2, <1>6, <1>7
    DEF Next, Create, ApiDelete, LoseCast, StartCast, StartReprocess,
        ReprocessNext, CleanRead, CleanCommit, UsageChange, Tick, Quiet, vars

(* As long as nobody commits in the middle, who works on a risk has its    *)
(* row locked.                                                             *)
HeldOf(w) == Working(w) => lock[rid[w]] = w

LEMMA HeldStep ==
  ASSUME IInv, [Next]_vars, NEW v \in Workers, HeldOf(v), ~InsertUsage(v)
  PROVE  HeldOf(v)'
  <1> SUFFICES ASSUME Working(v)' PROVE (lock[rid[v]] = v)'
    BY DEF HeldOf
  <1>1. TypeOK /\ SessionOK
    BY DEF IInv
  <1>2. CASE LockRow(v)
    BY <1>1, <1>2 DEF LockRow, TypeOK
  <1>3. CASE /\ Working(v) /\ rid'[v] = rid[v]
             /\ ~MatchMany(v) /\ ~CommitKeep(v)
    <2>1. rid[v] \in RiskIds
      BY <1>1, <1>3 DEF SessionOK, SessionOf, Working, InSession
    <2>2. ~Finish(v) /\ ~Abandon(v)
      BY <1>1 DEF Finish, Abandon, AfterRisk, TypeOK, Working, InSession
    <2>3. lock[rid[v]] = v
      BY <1>3 DEF HeldOf
    <2>4. PICK i \in RiskIds : i = rid[v]
      BY <2>1
    <2>5. lock'[i] = v
      BY <1>1, <1>3, <2>2, <2>3, <2>4, LockEnds
    <2> QED
      BY <1>3, <2>4, <2>5
  <1> QED
    BY <1>1, <1>2, <1>3, WorkEntered

(* The fallback is the only way to two messages: if no worker commits a    *)
(* new IP usage in the middle of processing a risk, the row lock keeps the *)
(* others out until the end, and every risk is notified at most once.      *)
THEOREM LockNotifiesOnce ==
  Spec /\ [][\A w \in Workers : ~InsertUsage(w)]_vars => []NotifiedOnce
  <1> DEFINE Held == \A w \in Workers : HeldOf(w)
  <1>1. Init => Held
    BY DEF Init, HeldOf, Working, InSession
  <1>2. /\ IInv /\ Held /\ [Next]_vars
        /\ [\A w \in Workers : ~InsertUsage(w)]_vars
        => Held'
    <2> SUFFICES ASSUME IInv, Held, [Next]_vars,
                        [\A w \in Workers : ~InsertUsage(w)]_vars
                 PROVE  Held'
      OBVIOUS
    <2>1. ASSUME UNCHANGED vars, NEW v \in Workers PROVE HeldOf(v)'
      BY <2>1 DEF vars, HeldOf, Working
    <2>2. ASSUME ~UNCHANGED vars, NEW v \in Workers PROVE HeldOf(v)'
      BY <2>2, HeldStep
    <2> QED
      BY <2>1, <2>2
  <1>3. Held => KeptApart
    BY DEF HeldOf, KeptApart
  <1> HIDE DEF Held
  <1> QED
    BY <1>1, <1>2, <1>3, Invariance, UndividedNotifiesOnce, PTL DEF Spec

=============================================================================
