------------------------ MODULE RiskProcessing_proofs ------------------------
(***************************************************************************)
(* Theorems about RiskProcessing.  Everything follows from the inductive   *)
(* invariant IInv, which is shown part by part, one step per action.       *)
(***************************************************************************)
EXTENDS RiskProcessing, TLAPS

(* Shorthands for the hypotheses shared by the lemmas below.               *)
USE DEF Processing, Goto, Exists, table, session, Given, Blank

LEMMA InitIInv == Init => IInv
  <1> SUFFICES ASSUME Init PROVE IInv
    OBVIOUS
  <1> USE ConstantsAssumption DEF Init
  <1>1. TypeOK
    BY DEF TypeOK, Times, Workers, Steps
  <1>2. TableOK
    BY DEF TableOK
  <1>3. SessionOK
    BY DEF SessionOK, SessionOf, InSession
  <1>4. LockOK
    BY DEF LockOK, LockOf, HolderOf
  <1>5. NotifyOK
    BY DEF NotifyOK, NotifyOf, ResourceFirst
  <1>6. CleanOK
    BY DEF CleanOK
  <1> QED
    BY <1>1, <1>2, <1>3, <1>4, <1>5, <1>6 DEF IInv

-----------------------------------------------------------------------------
(* What the helpers return.                                                *)

(* A created risk is NEW and says what its report says.                    *)
LEMMA NewRiskRow ==
  ASSUME NEW r \in Reports
  PROVE  /\ NewRisk(r) \in RowSet
         /\ NewRisk(r).status = "NEW" /\ NewRisk(r).ip = r.ip
         /\ Whole(NewRisk(r))
         /\ r.ip # NoVal => ~Given(NewRisk(r).project)
  BY ReportsAssumption
  DEF NewRisk, RowSet, Types, IPs, Projects, Resources, RTypes, Whole

(* Attribution by a usage row keeps everything but the owner, and the      *)
(* owner is whole.                                                         *)
LEMMA AttributedRow ==
  ASSUME NEW r \in RowSet, NEW u \in UsageRows
  PROVE  /\ Attributed(r, u) \in RowSet
         /\ Attributed(r, u).status = r.status
         /\ Attributed(r, u).ip = r.ip
         /\ Whole(Attributed(r, u))
  BY UsageAssumption
  DEF Attributed, RowSet, Projects, Resources, RTypes, Whole

(* The trove remap keeps everything but the owner.                         *)
LEMMA RemappedRow ==
  ASSUME NEW r \in RowSet, NEW q \in Remapped(r)
  PROVE  /\ q \in RowSet
         /\ q.status = r.status /\ q.ip = r.ip
         /\ Whole(r) => Whole(q)
  <1>1. CASE q = r
    BY <1>1
  <1>2. CASE q # r
    <2>1. PICK d \in Databases :
            q = [r EXCEPT !.project = d.project, !.resource = d.resource,
                          !.rtype = "database"]
      BY <1>2 DEF Remapped
    <2> QED
      BY <2>1, UsageAssumption
      DEF RowSet, Projects, Resources, RTypes, Whole
  <1> QED
    BY <1>1, <1>2

(* The UPDATE of a processed risk's own row.                               *)
LEMMA FlushedRow ==
  ASSUME NEW c \in RowSet, NEW r \in RowSet
  PROVE  /\ Flushed(c, r) \in RowSet
         /\ Flushed(c, r).ip = c.ip
         /\ Flushed(c, r).project = r.project
         /\ Flushed(c, r).resource = r.resource
         /\ Flushed(c, r).rtype = r.rtype
         /\ Flushed(c, r).status =
                IF r.status = "PROCESSED" THEN c.status ELSE "PROCESSED"
  BY DEF Flushed, RowSet

(* The UPDATE of a duplicate moves its time and expiry only.               *)
LEMMA RefreshedRow ==
  ASSUME NEW c \in RowSet, NEW r \in RowSet, NEW d \in LoadedSet
  PROVE  /\ Refreshed(c, r, d) \in RowSet
         /\ Refreshed(c, r, d).ip = c.ip
         /\ Refreshed(c, r, d).status = c.status
         /\ Refreshed(c, r, d).project = c.project
         /\ Refreshed(c, r, d).resource = c.resource
         /\ Refreshed(c, r, d).type = c.type
         /\ Refreshed(c, r, d).rtype = c.rtype
  BY DEF Refreshed, RowSet, LoadedSet

(* Putting a risk aside changes its status only.                           *)
LEMMA PutAsideRow ==
  ASSUME NEW c \in RowSet
  PROVE  /\ PutAside(c) \in RowSet
         /\ PutAside(c).status = "ERROR"
         /\ PutAside(c).ip = c.ip
         /\ PutAside(c).project = c.project
         /\ PutAside(c).resource = c.resource
  BY DEF PutAside, RowSet

-----------------------------------------------------------------------------
(* Type correctness.                                                       *)

(* The table is typed row by row.                                          *)
LEMMA RowType ==
  ASSUME TypeOK, NEW i \in RiskIds, Exists(i)
  PROVE  risks[i] \in RowSet
  BY DEF TypeOK

(* Ending a session, with or without going on with a task's list.          *)
LEMMA FinishType ==
  ASSUME TypeOK, NEW w \in Workers, Finish(w)
  PROVE  /\ lock' \in [RiskIds -> Workers \cup {NoVal}]
         /\ pc' \in [Workers -> Steps]
         /\ rid' \in [Workers -> RiskIds \cup {NoVal}]
         /\ row' \in [Workers -> RowSet \cup {NoVal}]
         /\ wasNew' \in [Workers -> BOOLEAN]
         /\ other' \in [Workers -> UsageRows \cup LoadedSet \cup {NoVal}]
  BY DEF TypeOK, Finish, AfterRisk, ReleasedBy, CloseSession, Steps

LEMMA RollbackType ==
  ASSUME TypeOK, NEW w \in Workers, Rollback(w), faults' \in 0..MaxFaults
  PROVE  TypeOK'
  BY FinishType DEF TypeOK, Rollback

LEMMA AbandonType ==
  ASSUME TypeOK, NEW w \in Workers, Abandon(w), faults' \in 0..MaxFaults
  PROVE  TypeOK'
  BY DEF TypeOK, Abandon, ReleasedBy, CloseSession, Steps

LEMMA BeginType ==
  ASSUME TypeOK, NEW w \in Workers, NEW i \in RiskIds, Begin(w, i)
  PROVE  /\ pc' \in [Workers -> Steps]
         /\ rid' \in [Workers -> RiskIds \cup {NoVal}]
         /\ row' = row /\ wasNew' = wasNew /\ other' = other
  BY DEF TypeOK, Begin, Steps

LEMMA TypeStep ==
  ASSUME TypeOK, SessionOK, LockOK, [Next]_vars
  PROVE  TypeOK'
  <1> USE ConstantsAssumption DEF Times
  <1>1. ASSUME NEW i \in RiskIds, NEW r \in Reports, Create(i, r)
        PROVE  TypeOK'
    BY <1>1, NewRiskRow DEF Create, TypeOK
  <1>2. ASSUME NEW i \in RiskIds, ApiDelete(i) PROVE TypeOK'
    BY <1>2 DEF ApiDelete, TypeOK
  <1>3. ASSUME NEW i \in RiskIds, LoseCast(i) PROVE TypeOK'
    BY <1>3 DEF LoseCast, TypeOK
  <1>4. ASSUME NEW w \in RpcWorkers, NEW i \in RiskIds, StartCast(w, i)
        PROVE  TypeOK'
    BY <1>4, BeginType DEF StartCast, TypeOK, Workers
  <1>5. ASSUME NEW w \in Periodics, StartReprocess(w) PROVE TypeOK'
    BY <1>5 DEF StartReprocess, TypeOK, Workers, Steps
  <1>6. ASSUME NEW w \in Periodics, NEW i \in RiskIds, ReprocessNext(w, i)
        PROVE  TypeOK'
    BY <1>6, BeginType DEF ReprocessNext, TypeOK, Workers
  <1>7. ASSUME NEW w \in Periodics, CleanRead(w) PROVE TypeOK'
    BY <1>7 DEF CleanRead, TypeOK, Workers, Steps
  <1>8. ASSUME NEW w \in Periodics, CleanCommit(w) PROVE TypeOK'
    BY <1>8 DEF CleanCommit, TypeOK, Workers, Steps
  <1>9. ASSUME NEW w \in Workers, Process(w) PROVE TypeOK'
    <2>1. CASE LockRow(w)
      BY <2>1 DEF LockRow, FirstStep, TypeOK, Steps
    <2>2. CASE SkipMissing(w)
      BY <2>2, RollbackType DEF SkipMissing, TypeOK
    <2>3. CASE MatchMany(w)
      BY <2>3, FinishType, PutAsideRow
      DEF MatchMany, TypeOK, SessionOK, SessionOf, InSession, LockOK, LockOf,
          HolderOf
    <2>4. CASE MatchOne(w)
      BY <2>4, AttributedRow
      DEF MatchOne, Matching, TypeOK, SessionOK, SessionOf, InSession, Steps
    <2>5. CASE MatchNone(w)
      BY <2>5 DEF MatchNone, TypeOK, Steps
    <2>6. CASE LookupNone(w)
      BY <2>6 DEF LookupNone, TypeOK, Steps
    <2>7. CASE LookupRecorded(w)
      BY <2>7, AttributedRow
      DEF LookupRecorded, PortRows, TypeOK, SessionOK, SessionOf, InSession, Steps
    <2>8. CASE LookupUnrecorded(w)
      BY <2>8 DEF LookupUnrecorded, Candidates, TypeOK, Steps
    <2>9. CASE InsertUsage(w)
      BY <2>9 DEF InsertUsage, ReleasedBy, TypeOK, SessionOK, SessionOf, Steps
    <2>10. CASE InsertConflict(w)
      BY <2>10, RollbackType DEF InsertConflict, TypeOK
    <2>11. CASE Refresh(w)
      BY <2>11, AttributedRow DEF Refresh, PortRows, TypeOK, Steps
    <2>12. CASE RefreshGone(w)
      BY <2>12, RollbackType DEF RefreshGone, TypeOK
    <2>13. CASE Decide(w)
      <3>1. PICK q \in Remapped(row[w]) :
              /\ row' = [row EXCEPT ![w] = q]
              /\ IF Duplicates(w, q) = {} THEN UNCHANGED other
                 ELSE \E j \in Duplicates(w, q) :
                        other' = [other EXCEPT ![w] = Loaded(j)]
        BY <2>13 DEF Decide
      <3>2. q \in RowSet
        BY <2>13, RemappedRow DEF Decide, SessionOK, SessionOf, InSession
      <3>3. ASSUME NEW j \in Duplicates(w, q) PROVE Loaded(j) \in LoadedSet
        BY NoValAssumption
        DEF Duplicates, IsDuplicate, Loaded, LoadedSet, TypeOK, RowSet
      <3>4. other' \in [Workers -> UsageRows \cup LoadedSet \cup {NoVal}]
        BY <3>1, <3>3 DEF TypeOK
      <3> QED
        BY <2>13, <3>1, <3>2, <3>4 DEF Decide, TypeOK, Steps
    <2>14. CASE CommitKeep(w)
      <3>1. risks' \in [RiskIds -> RowSet \cup {NoVal}]
        BY <2>14, FlushedRow
        DEF CommitKeep, TypeOK, SessionOK, SessionOf, InSession
      <3> QED
        BY <2>14, <3>1, FinishType
        DEF CommitKeep, ReleasedBy, TypeOK, Steps
    <2>15. CASE CommitMerge(w)
      <3>1. /\ rid[w] \in RiskIds /\ row[w] \in RowSet
            /\ other[w] \in LoadedSet /\ other[w].id \in RiskIds
        BY <2>15 DEF CommitMerge, SessionOK, SessionOf, InSession, LoadedSet
      <3>2. CASE risks' = [risks EXCEPT ![rid[w]] = NoVal]
        BY <2>15, <3>1, <3>2, FinishType DEF CommitMerge, TypeOK
      <3>3. CASE /\ Exists(other[w].id)
                 /\ risks' = [risks EXCEPT
                        ![other[w].id] = Refreshed(@, row[w], other[w]),
                        ![rid[w]] = NoVal]
        <4>1. Refreshed(risks[other[w].id], row[w], other[w]) \in RowSet
          BY <3>1, <3>3, RefreshedRow DEF TypeOK
        <4> QED
          BY <2>15, <3>1, <3>3, <4>1, FinishType DEF CommitMerge, TypeOK
      <3> QED
        BY <2>15, <3>2, <3>3 DEF CommitMerge
    <2>16. CASE CommitStale(w)
      BY <2>16, RollbackType DEF CommitStale, TypeOK
    <2>17. CASE Notify(w)
      BY <2>17, RowType DEF Notify, Notifiable, TypeOK, Steps
    <2>18. CASE NotifySkip(w)
      BY <2>18, RollbackType DEF NotifySkip, TypeOK
    <2>19. CASE LockTimeout(w)
      BY <2>19, RollbackType, AbandonType DEF LockTimeout, TypeOK
    <2>20. CASE Send(w)
      BY <2>20, FinishType DEF Send, TypeOK
    <2> QED
      BY <1>9, <2>1, <2>2, <2>3, <2>4, <2>5, <2>6, <2>7, <2>8, <2>9, <2>10,
         <2>11, <2>12, <2>13, <2>14, <2>15, <2>16, <2>17, <2>18, <2>19,
         <2>20
      DEF Process
  <1>10. ASSUME NEW w \in Workers, Fail(w) PROVE TypeOK'
    BY <1>10, RollbackType DEF Fail, TypeOK
  <1>11. ASSUME NEW w \in Workers, Crash(w) PROVE TypeOK'
    BY <1>11, AbandonType DEF Crash, TypeOK
  <1>12. ASSUME NEW u \in UsageRows, UsageChange(u) PROVE TypeOK'
    BY <1>12 DEF UsageChange, TypeOK
  <1>13. CASE Tick
    BY <1>13 DEF Tick, TypeOK
  <1>14. CASE UNCHANGED vars
    BY <1>14 DEF vars, TypeOK
  <1> QED
    BY <1>1, <1>2, <1>3, <1>4, <1>5, <1>6, <1>7, <1>8, <1>9, <1>10, <1>11,
       <1>12, <1>13, <1>14
    DEF Next, Quiet

-----------------------------------------------------------------------------
(* The risk table.                                                         *)

(* Only six actions write the risk table.                                  *)
LEMMA Writers ==
  ASSUME [Next]_vars
  PROVE  \/ UNCHANGED <<risks, born>>
         \/ \E i \in RiskIds, r \in Reports : Create(i, r)
         \/ \E i \in RiskIds : ApiDelete(i)
         \/ \E w \in Workers : MatchMany(w) \/ CommitKeep(w) \/ CommitMerge(w)
         \/ \E w \in Periodics : CleanCommit(w)
  <1>1. ASSUME NEW w \in Workers, Process(w),
               ~(MatchMany(w) \/ CommitKeep(w) \/ CommitMerge(w))
        PROVE  UNCHANGED <<risks, born>>
    BY <1>1
    DEF Process, Rollback, Abandon, LockRow, SkipMissing, MatchOne, MatchNone,
        LookupNone, LookupRecorded, LookupUnrecorded, InsertUsage,
        InsertConflict, Refresh, RefreshGone, Decide, CommitStale, Notify,
        NotifySkip, Send, LockTimeout
  <1> QED
    BY <1>1
    DEF Next, vars, LoseCast, StartCast, StartReprocess, ReprocessNext,
        CleanRead, Fail, Crash, Rollback, Abandon, UsageChange, Tick, Quiet

(* What the commit of a kept risk writes, and over what.                   *)
LEMMA KeepFacts ==
  ASSUME TypeOK, TableOK, SessionOK, NEW w \in Workers, CommitKeep(w)
  PROVE  /\ rid[w] \in RiskIds /\ Exists(rid[w])
         /\ risks' = [risks EXCEPT ![rid[w]] = Flushed(@, row[w])]
         /\ Flushed(risks[rid[w]], row[w]) \in RowSet
         /\ Flushed(risks[rid[w]], row[w]).ip = row[w].ip
         /\ row[w].ip = risks[rid[w]].ip
         /\ Flushed(risks[rid[w]], row[w]).status # "NEW"
         /\ Whole(Flushed(risks[rid[w]], row[w]))
  <1>1. /\ rid[w] \in RiskIds /\ Exists(rid[w]) /\ row[w] \in RowSet
        /\ risks[rid[w]].ip = row[w].ip /\ Whole(row[w])
        /\ row[w].status # "NEW" => ~IsNew(rid[w])
        /\ risks' = [risks EXCEPT ![rid[w]] = Flushed(@, row[w])]
    BY DEF CommitKeep, SessionOK, SessionOf, InSession, TableOK
  <1>2. risks[rid[w]] \in RowSet
    BY <1>1, RowType
  <1> QED
    BY <1>1, <1>2, FlushedRow DEF Whole, IsNew

(* What a merge writes: the row of the risk goes, the duplicate's stays a  *)
(* row of the same owner and status.                                       *)
LEMMA MergeFacts ==
  ASSUME TypeOK, SessionOK, NEW w \in Workers, CommitMerge(w)
  PROVE  /\ rid[w] \in RiskIds /\ Exists(rid[w]) /\ Free(rid[w], w)
         /\ \A i \in RiskIds : risks'[i] # NoVal =>
              /\ i # rid[w] /\ Exists(i)
              /\ risks'[i] = risks[i] \/ lock[i] = NoVal
              /\ risks'[i] \in RowSet
              /\ risks'[i].ip = risks[i].ip
              /\ risks'[i].status = risks[i].status
              /\ risks'[i].project = risks[i].project
              /\ risks'[i].resource = risks[i].resource
              /\ risks'[i].type = risks[i].type
              /\ risks'[i].rtype = risks[i].rtype
         /\ \A i \in RiskIds : risks'[i] = NoVal /\ Exists(i) => i = rid[w]
  <1>1. /\ rid[w] \in RiskIds /\ Exists(rid[w]) /\ row[w] \in RowSet
        /\ other[w] \in LoadedSet /\ other[w].id \in RiskIds
        /\ Free(rid[w], w)
    BY DEF CommitMerge, SessionOK, SessionOf, InSession, LoadedSet
  <1>2. CASE risks' = [risks EXCEPT ![rid[w]] = NoVal]
    BY <1>1, <1>2, RowType DEF TypeOK
  <1>3. CASE /\ Exists(other[w].id) /\ lock[other[w].id] = NoVal
             /\ risks' = [risks EXCEPT
                    ![other[w].id] = Refreshed(@, row[w], other[w]),
                    ![rid[w]] = NoVal]
    <2>1. risks[other[w].id] \in RowSet
      BY <1>1, <1>3, RowType
    <2> DEFINE q == Refreshed(risks[other[w].id], row[w], other[w])
    <2>2. /\ q \in RowSet
          /\ q.ip = risks[other[w].id].ip
          /\ q.status = risks[other[w].id].status
          /\ q.project = risks[other[w].id].project
          /\ q.resource = risks[other[w].id].resource
          /\ q.type = risks[other[w].id].type
          /\ q.rtype = risks[other[w].id].rtype
      BY <1>1, <2>1, RefreshedRow
    <2>3. q # NoVal
      BY <2>2, NoValAssumption
    <2> HIDE DEF q
    <2>4. risks' = [risks EXCEPT ![other[w].id] = q, ![rid[w]] = NoVal]
      BY <1>3 DEF q
    <2> QED
      BY <1>1, <1>3, <2>2, <2>3, <2>4, RowType DEF TypeOK
  <1> QED
    BY <1>2, <1>3 DEF CommitMerge

(* What setting an ambiguous risk aside writes.                            *)
LEMMA ManyFacts ==
  ASSUME TypeOK, SessionOK, LockOK, NEW w \in Workers, MatchMany(w)
  PROVE  /\ rid[w] \in RiskIds /\ Exists(rid[w]) /\ lock[rid[w]] = w
         /\ risks' = [risks EXCEPT ![rid[w]] = PutAside(@)]
         /\ PutAside(risks[rid[w]]) \in RowSet
         /\ PutAside(risks[rid[w]]).status = "ERROR"
         /\ PutAside(risks[rid[w]]).ip = risks[rid[w]].ip
         /\ PutAside(risks[rid[w]]).project = risks[rid[w]].project
         /\ PutAside(risks[rid[w]]).resource = risks[rid[w]].resource
  <1>1. /\ rid[w] \in RiskIds /\ lock[rid[w]] = w
        /\ risks' = [risks EXCEPT ![rid[w]] = PutAside(@)]
    BY DEF MatchMany, SessionOK, SessionOf, InSession, LockOK, HolderOf
  <1>2. Exists(rid[w])
    BY <1>1, ConstantsAssumption DEF LockOK, LockOf
  <1> QED
    BY <1>1, <1>2, RowType, PutAsideRow

(* A risk once created keeps its history, and once it has left NEW it      *)
(* never is NEW again: ids are not reused and no commit writes NEW.        *)
LEMMA NeverNewAgain ==
  ASSUME TypeOK, TableOK, SessionOK, LockOK, [Next]_vars,
         NEW i \in RiskIds, born[i] # NoVal
  PROVE  /\ born'[i] = born[i]
         /\ ~IsNew(i) => ~IsNew(i)'
  <1>1. CASE UNCHANGED <<risks, born>>
    BY <1>1 DEF IsNew
  <1>2. ASSUME NEW j \in RiskIds, NEW r \in Reports, Create(j, r)
        PROVE  /\ born'[i] = born[i]
               /\ ~IsNew(i) => ~IsNew(i)'
    BY <1>2 DEF Create, IsNew, TypeOK
  <1>3. ASSUME NEW j \in RiskIds, ApiDelete(j)
        PROVE  /\ born'[i] = born[i]
               /\ ~IsNew(i) => ~IsNew(i)'
    BY <1>3 DEF ApiDelete, IsNew, TypeOK
  <1>4. ASSUME NEW w \in Workers, MatchMany(w)
        PROVE  /\ born'[i] = born[i]
               /\ ~IsNew(i) => ~IsNew(i)'
    BY <1>4, ManyFacts DEF MatchMany, IsNew, TypeOK
  <1>5. ASSUME NEW w \in Workers, CommitKeep(w)
        PROVE  /\ born'[i] = born[i]
               /\ ~IsNew(i) => ~IsNew(i)'
    BY <1>5, KeepFacts DEF CommitKeep, IsNew, TypeOK
  <1>6. ASSUME NEW w \in Workers, CommitMerge(w)
        PROVE  /\ born'[i] = born[i]
               /\ ~IsNew(i) => ~IsNew(i)'
    BY <1>6, MergeFacts DEF CommitMerge, IsNew
  <1>7. ASSUME NEW w \in Periodics, CleanCommit(w)
        PROVE  /\ born'[i] = born[i]
               /\ ~IsNew(i) => ~IsNew(i)'
    BY <1>7 DEF CleanCommit, IsNew
  <1> QED
    BY <1>1, <1>2, <1>3, <1>4, <1>5, <1>6, <1>7, Writers

LEMMA TableStep ==
  ASSUME TypeOK, TableOK, SessionOK, LockOK, [Next]_vars
  PROVE  TableOK'
  <1>1. CASE UNCHANGED <<risks, born>>
    BY <1>1 DEF TableOK, IsNew, Whole
  <1>2. ASSUME NEW j \in RiskIds, NEW r \in Reports, Create(j, r)
        PROVE  TableOK'
    <2>1. born' = [born EXCEPT ![j] = [report |-> r, at |-> now]]
      BY <1>2 DEF Create
    <2>2. [report |-> r, at |-> now] # NoVal
      BY NoValAssumption DEF TypeOK
    <2>3. /\ born'[j] # NoVal /\ born'[j].report = r
          /\ \A i \in RiskIds \ {j} : born'[i] = born[i]
      BY <2>1, <2>2 DEF TypeOK
    <2>4. risks' = [risks EXCEPT ![j] = NewRisk(r)]
      BY <1>2 DEF Create
    <2> QED
      BY <2>3, <2>4, NewRiskRow DEF TableOK, IsNew, Whole, TypeOK
  <1>3. ASSUME NEW j \in RiskIds, ApiDelete(j) PROVE TableOK'
    BY <1>3 DEF ApiDelete, TableOK, IsNew, Whole, TypeOK
  <1>4. ASSUME NEW w \in Workers, MatchMany(w) PROVE TableOK'
    <2> DEFINE q == PutAside(risks[rid[w]])
    <2>1. /\ rid[w] \in RiskIds /\ Exists(rid[w])
          /\ risks' = [risks EXCEPT ![rid[w]] = q]
          /\ q.status = "ERROR" /\ q.ip = risks[rid[w]].ip
          /\ q.project = risks[rid[w]].project
          /\ q.resource = risks[rid[w]].resource
      BY <1>4, ManyFacts
    <2>2. born' = born
      BY <1>4 DEF MatchMany
    <2> HIDE DEF q
    <2> QED
      BY <2>1, <2>2 DEF TableOK, IsNew, Whole, TypeOK
  <1>5. ASSUME NEW w \in Workers, CommitKeep(w) PROVE TableOK'
    <2> DEFINE q == Flushed(risks[rid[w]], row[w])
    <2>1. /\ rid[w] \in RiskIds /\ Exists(rid[w])
          /\ risks' = [risks EXCEPT ![rid[w]] = q]
          /\ q.ip = risks[rid[w]].ip /\ q.status # "NEW" /\ Whole(q)
      BY <1>5, KeepFacts
    <2>2. born' = born
      BY <1>5 DEF CommitKeep
    <2> HIDE DEF q
    <2> SUFFICES ASSUME NEW i \in RiskIds, Exists(i)'
                 PROVE  /\ born'[i] # NoVal
                        /\ risks'[i].ip = born'[i].report.ip
                        /\ Whole(risks'[i])
                        /\ risks'[i].ip # NoVal /\ IsNew(i)' =>
                                ~Given(risks'[i].project)
      BY DEF TableOK
    <2>3. CASE i = rid[w]
      BY <2>1, <2>2, <2>3 DEF TableOK, IsNew, TypeOK
    <2>4. CASE i # rid[w]
      BY <2>1, <2>2, <2>4 DEF TableOK, IsNew, TypeOK
    <2> QED
      BY <2>3, <2>4
  <1>6. ASSUME NEW w \in Workers, CommitMerge(w) PROVE TableOK'
    <2>1. born' = born
      BY <1>6 DEF CommitMerge
    <2> SUFFICES ASSUME NEW i \in RiskIds, Exists(i)'
                 PROVE  /\ born'[i] # NoVal
                        /\ risks'[i].ip = born'[i].report.ip
                        /\ Whole(risks'[i])
                        /\ risks'[i].ip # NoVal /\ IsNew(i)' =>
                                ~Given(risks'[i].project)
      BY DEF TableOK
    <2>2. /\ Exists(i) /\ risks'[i].ip = risks[i].ip
          /\ risks'[i].status = risks[i].status
          /\ risks'[i].project = risks[i].project
          /\ risks'[i].resource = risks[i].resource
      BY <1>6, MergeFacts
    <2> QED
      BY <2>1, <2>2 DEF TableOK, IsNew, Whole
  <1>7. ASSUME NEW w \in Periodics, CleanCommit(w) PROVE TableOK'
    BY <1>7 DEF CleanCommit, TableOK, IsNew, Whole
  <1> QED
    BY <1>1, <1>2, <1>3, <1>4, <1>5, <1>6, <1>7, Writers

-----------------------------------------------------------------------------
(* Sessions.                                                               *)

(* What a step of worker w leaves alone of another worker's session.       *)
OthersKeep(w) ==
    \A v \in Workers : v # w =>
        /\ pc'[v] = pc[v] /\ rid'[v] = rid[v] /\ row'[v] = row[v]
        /\ wasNew'[v] = wasNew[v] /\ other'[v] = other[v]

(* A step that leaves all sessions alone keeps them right.                 *)
LEMMA SessionFrame ==
  ASSUME TypeOK, TableOK, SessionOK, LockOK, [Next]_vars,
         NEW v \in Workers, pc'[v] = pc[v], rid'[v] = rid[v],
         row'[v] = row[v], other'[v] = other[v]
  PROVE  SessionOf(v)'
  <1> DEFINE i == rid[v]
  <1>1. SessionOf(v)
    BY DEF SessionOK
  <1>2. ASSUME pc[v] \in InSession
        PROVE  /\ i \in RiskIds /\ born[i] # NoVal
               /\ born'[i] = born[i]
               /\ row[v].status # "NEW" =>
                    ~(risks'[i] # NoVal /\ risks'[i].status = "NEW")
    BY <1>1, <1>2, NeverNewAgain DEF SessionOf, IsNew
  <1>3. Whole(row[v]) = Whole(row[v])'
    BY DEF Whole
  <1> QED
    BY <1>1, <1>2, <1>3 DEF SessionOf, IsNew

(* A step of one worker: only that worker's session is to be looked at.    *)
LEMMA SessionLocal ==
  ASSUME TypeOK, TableOK, SessionOK, LockOK, [Next]_vars,
         NEW w \in Workers, OthersKeep(w), SessionOf(w)'
  PROVE  SessionOK'
  BY SessionFrame DEF SessionOK, OthersKeep

(* A worker outside process_security_risk, or waiting for the row lock.    *)
Outside(w) ==
    pc[w] \in {"idle", "reprocess", "clean", "start"} /\ other[w] = NoVal

LEMMA SessionOutside ==
  ASSUME TypeOK, TableOK, SessionOK, LockOK, [Next]_vars,
         NEW w \in Workers, OthersKeep(w), Outside(w)'
  PROVE  SessionOK'
  BY SessionLocal DEF Outside, SessionOf, InSession

(* Returning from process_security_risk, whichever way.                    *)
LEMMA FinishOutside ==
  ASSUME TypeOK, NEW w \in Workers, Finish(w)
  PROVE  OthersKeep(w) /\ Outside(w)'
  BY DEF TypeOK, Finish, CloseSession, AfterRisk, OthersKeep, Outside

LEMMA AbandonOutside ==
  ASSUME TypeOK, NEW w \in Workers, Abandon(w)
  PROVE  OthersKeep(w) /\ Outside(w)'
  BY DEF TypeOK, Abandon, CloseSession, OthersKeep, Outside

(* Each step of process_security_risk leaves its worker's session right.   *)
LEMMA ProcessSession ==
  ASSUME TypeOK, TableOK, SessionOK, LockOK, NEW w \in Workers, Process(w)
  PROVE  SessionOK'
  <1> USE DEF OthersKeep
  <1>0. /\ [Next]_vars
        /\ SessionOf(w)
    BY DEF Next, SessionOK
  <1>1. ASSUME Finish(w) PROVE SessionOK'
    BY <1>0, <1>1, FinishOutside, SessionOutside
  <1>2. ASSUME Abandon(w) PROVE SessionOK'
    BY <1>0, <1>2, AbandonOutside, SessionOutside
  <1>3. CASE LockRow(w)
    <2>1. /\ rid[w] \in RiskIds /\ Exists(rid[w]) /\ other[w] = NoVal
          /\ born[rid[w]] # NoVal /\ Whole(risks[rid[w]])
          /\ risks[rid[w]].ip = born[rid[w]].report.ip
      BY <1>0, <1>3 DEF LockRow, SessionOf, TableOK, TypeOK
    <2>2. risks[rid[w]] \in RowSet
      BY <2>1, RowType
    <2>3. /\ OthersKeep(w)
          /\ pc'[w] = FirstStep(risks[rid[w]]) /\ rid'[w] = rid[w]
          /\ row'[w] = risks[rid[w]] /\ other'[w] = NoVal
          /\ UNCHANGED <<risks, born>>
      BY <1>3, <2>1 DEF LockRow, TypeOK
    <2>4. SessionOf(w)'
      BY <2>1, <2>2, <2>3
      DEF SessionOf, FirstStep, InSession, IsNew, Whole
    <2> QED
      BY <1>0, <2>3, <2>4, SessionLocal
  <1>4. CASE MatchOne(w) \/ LookupRecorded(w)
    <2>1. PICK u \in UsageRows : row' = [row EXCEPT ![w] = Attributed(@, u)]
      BY <1>4 DEF MatchOne, LookupRecorded, Matching, PortRows, TypeOK
    <2>2. /\ pc[w] \in {"match", "lookup"} /\ pc' = [pc EXCEPT ![w] = "decide"]
          /\ UNCHANGED <<risks, born, rid, wasNew, other>>
      BY <1>4 DEF MatchOne, LookupRecorded
    <2>3. OthersKeep(w)
      BY <2>1, <2>2 DEF TypeOK
    <2>4. SessionOf(w)'
      BY <1>0, <2>1, <2>2, AttributedRow
      DEF SessionOf, InSession, TypeOK, IsNew, Whole
    <2> QED
      BY <1>0, <2>3, <2>4, SessionLocal
  <1>5. CASE MatchNone(w) \/ LookupNone(w)
    <2>1. /\ OthersKeep(w) /\ UNCHANGED <<risks, born, session>>
          /\ pc[w] \in {"match", "lookup"} /\ pc'[w] \in {"lookup", "decide"}
      BY <1>5 DEF MatchNone, LookupNone, TypeOK
    <2>2. SessionOf(w)'
      BY <1>0, <2>1 DEF SessionOf, InSession, IsNew, Whole
    <2> QED
      BY <1>0, <2>1, <2>2, SessionLocal
  <1>6. CASE LookupUnrecorded(w)
    <2>1. /\ OthersKeep(w) /\ UNCHANGED <<risks, born, rid, row>>
          /\ pc[w] = "lookup" /\ pc'[w] = "insert" /\ other'[w] \in UsageRows
      BY <1>6 DEF LookupUnrecorded, Candidates, TypeOK
    <2>2. SessionOf(w)'
      BY <1>0, <2>1 DEF SessionOf, InSession, IsNew, Whole
    <2> QED
      BY <1>0, <2>1, <2>2, SessionLocal
  <1>7. CASE InsertUsage(w)
    <2>1. /\ OthersKeep(w) /\ UNCHANGED <<risks, born, session>>
          /\ pc[w] = "insert" /\ pc'[w] = "refresh"
      BY <1>7 DEF InsertUsage, TypeOK
    <2>2. SessionOf(w)'
      BY <1>0, <2>1 DEF SessionOf, InSession, IsNew, Whole
    <2> QED
      BY <1>0, <2>1, <2>2, SessionLocal
  <1>8. CASE Refresh(w)
    <2>1. PICK u \in UsageRows :
            row' = [row EXCEPT ![w] = Attributed(risks[rid[w]], u)]
      BY <1>8 DEF Refresh, PortRows, TypeOK
    <2>2. /\ pc[w] = "refresh" /\ pc' = [pc EXCEPT ![w] = "decide"]
          /\ Exists(rid[w]) /\ UNCHANGED <<risks, born, rid, wasNew>>
          /\ other' = [other EXCEPT ![w] = NoVal]
      BY <1>8 DEF Refresh
    <2>3. /\ risks[rid[w]] \in RowSet /\ rid[w] \in RiskIds
          /\ risks[rid[w]].ip = born[rid[w]].report.ip
          /\ born[rid[w]] # NoVal
      BY <1>0, <2>2, RowType DEF SessionOf, InSession, TableOK
    <2>4. OthersKeep(w)
      BY <2>1, <2>2 DEF TypeOK
    <2>5. SessionOf(w)'
      BY <2>1, <2>2, <2>3, AttributedRow
      DEF SessionOf, InSession, TypeOK, IsNew, Whole
    <2> QED
      BY <1>0, <2>4, <2>5, SessionLocal
  <1>9. CASE Decide(w)
    <2>1. PICK q \in Remapped(row[w]) :
            /\ row' = [row EXCEPT ![w] = q]
            /\ IF Duplicates(w, q) = {} THEN UNCHANGED other
               ELSE \E j \in Duplicates(w, q) :
                      other' = [other EXCEPT ![w] = Loaded(j)]
      BY <1>9 DEF Decide
    <2>2. /\ pc[w] = "decide" /\ pc' = [pc EXCEPT ![w] = "commit"]
          /\ UNCHANGED <<risks, born, rid, wasNew>>
          /\ row[w] \in RowSet /\ other[w] = NoVal
      BY <1>0, <1>9 DEF Decide, SessionOf, InSession
    <2>3. ASSUME NEW j \in Duplicates(w, q) PROVE Loaded(j) \in LoadedSet
      BY DEF Duplicates, IsDuplicate, Loaded, LoadedSet, TypeOK, RowSet
    <2>4. /\ other'[w] \in LoadedSet \cup {NoVal}
          /\ \A v \in Workers : v # w => other'[v] = other[v]
      BY <2>1, <2>2, <2>3 DEF TypeOK
    <2>5. OthersKeep(w)
      BY <2>1, <2>2, <2>4 DEF TypeOK
    <2>6. SessionOf(w)'
      BY <1>0, <2>1, <2>2, <2>4, RemappedRow
      DEF SessionOf, InSession, TypeOK, IsNew, Whole
    <2> QED
      BY <1>0, <2>5, <2>6, SessionLocal
  <1>10. CASE CommitKeep(w) /\ UNCHANGED session
    <2>1. /\ OthersKeep(w) /\ UNCHANGED born
          /\ pc[w] = "commit" /\ pc'[w] = "notify" /\ other[w] = NoVal
          /\ rid[w] \in RiskIds /\ Exists(rid[w])
          /\ risks'[rid[w]].status # "NEW"
      BY <1>10, KeepFacts
      DEF CommitKeep, Finish, CloseSession, TypeOK
    <2>2. SessionOf(w)'
      BY <1>0, <1>10, <2>1 DEF SessionOf, InSession, IsNew, Whole
    <2> QED
      BY <1>0, <2>1, <2>2, SessionLocal
  <1>11. CASE Notify(w)
    <2>1. /\ pc[w] = "notify" /\ pc' = [pc EXCEPT ![w] = "send"]
          /\ row' = [row EXCEPT ![w] = risks[rid[w]]]
          /\ Exists(rid[w]) /\ UNCHANGED <<risks, born, rid, wasNew, other>>
      BY <1>11 DEF Notify, Notifiable
    <2>2. /\ rid[w] \in RiskIds /\ risks[rid[w]] \in RowSet
          /\ born[rid[w]] # NoVal /\ other[w] = NoVal
          /\ risks[rid[w]].ip = born[rid[w]].report.ip
          /\ Whole(risks[rid[w]])
      BY <1>0, <2>1, RowType DEF SessionOf, InSession, TableOK
    <2>3. OthersKeep(w)
      BY <2>1 DEF TypeOK
    <2>4. SessionOf(w)'
      BY <2>1, <2>2 DEF SessionOf, InSession, TypeOK, IsNew, Whole
    <2> QED
      BY <1>0, <2>3, <2>4, SessionLocal
  <1> QED
    BY <1>1, <1>2, <1>3, <1>4, <1>5, <1>6, <1>7, <1>8, <1>9, <1>10, <1>11
    DEF Process, Rollback, SkipMissing, MatchMany, InsertConflict, RefreshGone,
        CommitKeep, CommitMerge, CommitStale, NotifySkip, Send, LockTimeout

LEMMA SessionStep ==
  ASSUME TypeOK, TableOK, SessionOK, LockOK, [Next]_vars
  PROVE  SessionOK'
  <1>1. CASE UNCHANGED <<pc, session>>
    BY <1>1, SessionFrame DEF SessionOK
  <1>2. ASSUME NEW w \in Workers, Process(w) PROVE SessionOK'
    BY <1>2, ProcessSession
  <1>3. ASSUME NEW w \in Workers, NEW i \in RiskIds, Begin(w, i),
               pc[w] \in {"idle", "reprocess"}
        PROVE  SessionOK'
    <2>1. OthersKeep(w) /\ Outside(w)'
      BY <1>3 DEF Begin, OthersKeep, Outside, SessionOK, SessionOf, TypeOK
    <2> QED
      BY <2>1, SessionOutside
  <1>4. ASSUME NEW w \in Workers, Fail(w) \/ Crash(w) PROVE SessionOK'
    BY <1>4, FinishOutside, AbandonOutside, SessionOutside
    DEF Fail, Crash, Rollback
  <1>5. ASSUME NEW w \in Periodics,
               StartReprocess(w) \/ CleanRead(w) \/ CleanCommit(w)
        PROVE  SessionOK'
    <2>1. OthersKeep(w) /\ Outside(w)' /\ w \in Workers
      BY <1>5
      DEF StartReprocess, CleanRead, CleanCommit, OthersKeep, Outside,
          SessionOK, SessionOf, TypeOK, Workers
    <2> QED
      BY <2>1, SessionOutside
  <1> QED
    BY <1>1, <1>2, <1>3, <1>4, <1>5
    DEF Next, Create, ApiDelete, LoseCast, StartCast, ReprocessNext,
        UsageChange, Tick, Quiet, vars, Workers

-----------------------------------------------------------------------------
(* Row locks.                                                              *)

(* A step of worker w writes no row that another worker has locked, and    *)
(* takes no lock from it.                                                  *)
RespectsLocks(w) ==
    \A i \in RiskIds :
        /\ lock[i] \notin {NoVal, w} =>
            lock'[i] = lock[i] /\ risks'[i] = risks[i]
        /\ lock'[i] \in {NoVal, w} \/ lock'[i] = lock[i]

LEMMA LockLocal ==
  ASSUME TypeOK, SessionOK, LockOK, NEW w \in Workers,
         OthersKeep(w), RespectsLocks(w),
         \A i \in RiskIds : lock'[i] = w => LockOf(i)',
         HolderOf(w)'
  PROVE  LockOK'
  <1> USE ConstantsAssumption
  <1>1. ASSUME NEW i \in RiskIds PROVE LockOf(i)'
    <2>1. CASE lock'[i] \in {NoVal, w}
      BY <2>1 DEF LockOf
    <2>2. CASE lock'[i] \notin {NoVal, w}
      <3>1. lock'[i] = lock[i] /\ lock[i] \in Workers /\ LockOf(i)
            /\ risks'[i] = risks[i]
        BY <2>2 DEF RespectsLocks, LockOK, TypeOK
      <3> QED
        BY <2>2, <3>1 DEF LockOf, OthersKeep, IsNew
    <2> QED
      BY <2>1, <2>2
  <1>2. ASSUME NEW v \in Workers, v # w PROVE HolderOf(v)'
    <2>1. HolderOf(v) /\ SessionOf(v) /\ v # NoVal
      BY DEF LockOK, SessionOK
    <2>2. /\ pc'[v] = pc[v] /\ rid'[v] = rid[v] /\ row'[v] = row[v]
      BY <1>2 DEF OthersKeep
    <2>3. pc[v] \in InSession /\ lock[rid[v]] = v => lock'[rid[v]] = v
      BY <1>2, <2>1 DEF RespectsLocks, SessionOf
    <2> QED
      BY <2>1, <2>2, <2>3 DEF HolderOf, InSession
  <1> QED
    BY <1>1, <1>2 DEF LockOK

(* Ending a session gives up the worker's locks and those only.            *)
LEMMA ReleaseLocks ==
  ASSUME TypeOK, SessionOK, LockOK, NEW w \in Workers, OthersKeep(w),
         lock' = ReleasedBy(w),
         pc'[w] \notin Locking,
         \A i \in RiskIds :
            lock[i] \notin {NoVal, w} => risks'[i] = risks[i]
  PROVE  LockOK'
  <1> USE ConstantsAssumption
  <1>1. RespectsLocks(w)
    BY DEF RespectsLocks, ReleasedBy
  <1>2. \A i \in RiskIds : lock'[i] # w
    BY DEF ReleasedBy
  <1>3. HolderOf(w)'
    BY DEF HolderOf, Locking
  <1> QED
    BY <1>1, <1>2, <1>3, LockLocal

(* A step that goes on under the lock it has, or still without it.         *)
LEMMA KeepLock ==
  ASSUME TypeOK, SessionOK, LockOK, NEW w \in Workers, OthersKeep(w),
         UNCHANGED <<risks, lock, rid, wasNew>>,
         pc[w] \in {"match", "lookup", "decide"},
         pc'[w] \in {"lookup", "insert", "decide", "commit"},
         pc[w] = "decide" => pc'[w] = "commit",
         row'[w].ip = row[w].ip
  PROVE  LockOK'
  <1>1. RespectsLocks(w)
    BY DEF RespectsLocks
  <1>2. ASSUME NEW i \in RiskIds, lock'[i] = w PROVE LockOf(i)'
    BY <1>2 DEF LockOK, LockOf, IsNew, Locking
  <1>3. HolderOf(w)'
    BY DEF LockOK, HolderOf
  <1> QED
    BY <1>1, <1>2, <1>3, LockLocal

LEMMA ProcessLock ==
  ASSUME TypeOK, TableOK, SessionOK, LockOK, NEW w \in Workers, Process(w)
  PROVE  LockOK'
  <1> USE ConstantsAssumption
  <1>0. SessionOf(w) /\ HolderOf(w)
    BY DEF SessionOK, LockOK
  <1>1. ASSUME UNCHANGED risks, Finish(w) \/ Abandon(w) PROVE LockOK'
    <2>1. OthersKeep(w) /\ Outside(w)' /\ lock' = ReleasedBy(w)
      BY <1>1, FinishOutside, AbandonOutside DEF Finish, Abandon
    <2> QED
      BY <1>1, <2>1, ReleaseLocks DEF Outside, Locking
  <1>2. CASE LockRow(w)
    <2> DEFINE i == rid[w]
    <2>1. /\ i \in RiskIds /\ Exists(i) /\ lock[i] = NoVal /\ pc[w] = "start"
          /\ lock' = [lock EXCEPT ![i] = w] /\ UNCHANGED <<risks, rid>>
          /\ row' = [row EXCEPT ![w] = risks[i]]
          /\ wasNew' = [wasNew EXCEPT ![w] = risks[i].status = "NEW"]
          /\ pc' = [pc EXCEPT ![w] = FirstStep(risks[i])] /\ other' = other
      BY <1>2 DEF LockRow, TypeOK
    <2>2. FirstStep(risks[i]) \in {"match", "decide"}
      BY DEF FirstStep
    <2>3. OthersKeep(w) /\ RespectsLocks(w)
      BY <2>1 DEF OthersKeep, RespectsLocks, TypeOK
    <2>4. ASSUME NEW j \in RiskIds, lock'[j] = w PROVE LockOf(j)'
      <3>1. lock[j] # w
        BY <2>1 DEF LockOK, LockOf
      <3>2. j = i
        BY <2>1, <2>4, <3>1 DEF TypeOK
      <3>3. wasNew'[w] <=> risks[i].status = "NEW"
        BY <2>1 DEF TypeOK
      <3> QED
        BY <2>1, <2>2, <2>4, <3>2, <3>3 DEF LockOf, Locking, IsNew, TypeOK
    <2>5. HolderOf(w)'
      BY <2>1 DEF HolderOf, TypeOK
    <2> QED
      BY <2>3, <2>4, <2>5, LockLocal
  <1>3. CASE MatchMany(w)
    <2>1. OthersKeep(w) /\ Outside(w)' /\ lock' = ReleasedBy(w)
      BY <1>3, FinishOutside DEF MatchMany, Finish
    <2>2. \A i \in RiskIds : lock[i] \notin {NoVal, w} => risks'[i] = risks[i]
      BY <1>3, ManyFacts DEF TypeOK
    <2> QED
      BY <2>1, <2>2, ReleaseLocks DEF Outside, Locking
  <1>4. CASE MatchOne(w) \/ LookupRecorded(w)
    <2>1. PICK u \in UsageRows : row' = [row EXCEPT ![w] = Attributed(@, u)]
      BY <1>4 DEF MatchOne, LookupRecorded, Matching, PortRows, TypeOK
    <2>2. /\ pc[w] \in {"match", "lookup"} /\ pc' = [pc EXCEPT ![w] = "decide"]
          /\ UNCHANGED <<risks, lock, rid, wasNew, other>>
      BY <1>4 DEF MatchOne, LookupRecorded
    <2>3. row'[w].ip = row[w].ip /\ OthersKeep(w)
      BY <1>0, <2>1, <2>2, AttributedRow
      DEF SessionOf, InSession, OthersKeep, TypeOK
    <2> QED
      BY <2>2, <2>3, KeepLock DEF TypeOK
  <1>5. CASE MatchNone(w) \/ LookupNone(w) \/ LookupUnrecorded(w)
    <2>1. /\ OthersKeep(w) /\ UNCHANGED <<risks, lock, rid, row, wasNew>>
          /\ pc[w] \in {"match", "lookup"}
          /\ pc'[w] \in {"lookup", "insert", "decide"}
      BY <1>5
      DEF MatchNone, LookupNone, LookupUnrecorded, OthersKeep, TypeOK
    <2> QED
      BY <2>1, KeepLock
  <1>6. CASE InsertUsage(w)
    <2>1. /\ OthersKeep(w) /\ UNCHANGED risks /\ lock' = ReleasedBy(w)
          /\ pc'[w] = "refresh"
      BY <1>6 DEF InsertUsage, OthersKeep, TypeOK
    <2> QED
      BY <2>1, ReleaseLocks DEF Locking
  <1>7. CASE Refresh(w)
    <2>1. PICK u \in UsageRows :
            row' = [row EXCEPT ![w] = Attributed(risks[rid[w]], u)]
      BY <1>7 DEF Refresh, PortRows, TypeOK
    <2>2. /\ pc[w] = "refresh" /\ pc' = [pc EXCEPT ![w] = "decide"]
          /\ Exists(rid[w]) /\ UNCHANGED <<risks, lock, rid, wasNew>>
          /\ other' = [other EXCEPT ![w] = NoVal]
      BY <1>7 DEF Refresh
    <2>3. row'[w].ip # NoVal
      BY <1>0, <2>1, <2>2, RowType, AttributedRow
      DEF SessionOf, InSession, TableOK, TypeOK
    <2>4. OthersKeep(w) /\ RespectsLocks(w)
      BY <2>1, <2>2 DEF OthersKeep, RespectsLocks, TypeOK
    <2>5. \A i \in RiskIds : lock'[i] # w
      BY <2>2 DEF LockOK, LockOf, Locking
    <2>6. HolderOf(w)'
      BY <2>2, <2>3 DEF HolderOf, TypeOK
    <2> QED
      BY <2>4, <2>5, <2>6, LockLocal
  <1>8. CASE Decide(w)
    <2>1. PICK q \in Remapped(row[w]) :
            /\ row' = [row EXCEPT ![w] = q]
            /\ IF Duplicates(w, q) = {} THEN UNCHANGED other
               ELSE \E j \in Duplicates(w, q) :
                      other' = [other EXCEPT ![w] = Loaded(j)]
      BY <1>8 DEF Decide
    <2>2. /\ pc[w] = "decide" /\ pc' = [pc EXCEPT ![w] = "commit"]
          /\ UNCHANGED <<risks, lock, rid, wasNew>>
          /\ row[w] \in RowSet
      BY <1>0, <1>8 DEF Decide, SessionOf, InSession
    <2>3. \A v \in Workers : v # w => other'[v] = other[v]
      BY <2>1 DEF TypeOK
    <2>4. OthersKeep(w) /\ row'[w].ip = row[w].ip /\ pc'[w] = "commit"
      BY <2>1, <2>2, <2>3, RemappedRow DEF OthersKeep, TypeOK
    <2> QED
      BY <2>2, <2>4, KeepLock
  <1>9. CASE CommitKeep(w)
    <2>1. /\ OthersKeep(w) /\ lock' = ReleasedBy(w)
          /\ pc'[w] \in {"idle", "reprocess", "notify"}
      <3>1. CASE Finish(w)
        BY <1>9, <3>1, FinishOutside DEF Finish, AfterRisk, TypeOK
      <3>2. CASE WillNotify(w)
        BY <1>9, <3>2 DEF CommitKeep, OthersKeep, TypeOK
      <3> QED
        BY <1>9, <3>1, <3>2 DEF CommitKeep
    <2>2. \A i \in RiskIds : lock[i] \notin {NoVal, w} => risks'[i] = risks[i]
      BY <1>9, KeepFacts DEF CommitKeep, Free, TypeOK
    <2> QED
      BY <2>1, <2>2, ReleaseLocks DEF Locking
  <1>10. CASE CommitMerge(w)
    <2>1. OthersKeep(w) /\ Outside(w)' /\ lock' = ReleasedBy(w)
      BY <1>10, FinishOutside DEF CommitMerge, Finish
    <2>2. \A i \in RiskIds : lock[i] \notin {NoVal, w} => risks'[i] = risks[i]
      BY <1>10, MergeFacts DEF Free
    <2> QED
      BY <2>1, <2>2, ReleaseLocks DEF Outside, Locking
  <1>11. CASE Notify(w)
    <2>1. /\ OthersKeep(w) /\ UNCHANGED <<risks, lock>>
          /\ pc[w] = "notify" /\ pc'[w] = "send"
      BY <1>11 DEF Notify, OthersKeep, TypeOK
    <2>2. \A i \in RiskIds : lock'[i] # w
      BY <2>1 DEF LockOK, LockOf, Locking
    <2>3. RespectsLocks(w) /\ HolderOf(w)'
      BY <2>1 DEF RespectsLocks, HolderOf
    <2> QED
      BY <2>1, <2>2, <2>3, LockLocal
  <1> QED
    BY <1>1, <1>2, <1>3, <1>4, <1>5, <1>6, <1>7, <1>8, <1>9, <1>10, <1>11
    DEF Process, Rollback, Abandon, SkipMissing, InsertConflict, RefreshGone,
        CommitStale, NotifySkip, Send, LockTimeout

LEMMA LockStep ==
  ASSUME TypeOK, TableOK, SessionOK, LockOK, [Next]_vars
  PROVE  LockOK'
  <1> USE ConstantsAssumption
  <1>1. ASSUME UNCHANGED <<pc, session, lock>>,
               \A i \in RiskIds : lock[i] # NoVal => risks'[i] = risks[i]
        PROVE  LockOK'
    BY <1>1 DEF LockOK, LockOf, HolderOf, IsNew, TypeOK
  <1>2. ASSUME NEW w \in Workers, Process(w) PROVE LockOK'
    BY <1>2, ProcessLock
  <1>3. ASSUME NEW w \in Workers, OthersKeep(w), UNCHANGED lock,
               pc[w] \in {"idle", "reprocess", "clean"}, Outside(w)',
               \A i \in RiskIds : lock[i] # NoVal => risks'[i] = risks[i]
        PROVE  LockOK'
    <2>1. \A i \in RiskIds : lock[i] # w
      BY <1>3 DEF LockOK, LockOf, Locking
    <2>2. RespectsLocks(w) /\ HolderOf(w)'
      BY <1>3 DEF RespectsLocks, HolderOf, Outside
    <2> QED
      BY <1>3, <2>1, <2>2, LockLocal
  <1>4. ASSUME NEW w \in Workers, NEW i \in RiskIds, Begin(w, i),
               UNCHANGED <<risks, lock>>, pc[w] \in {"idle", "reprocess"}
        PROVE  LockOK'
    <2>1. OthersKeep(w) /\ Outside(w)'
      BY <1>4 DEF Begin, OthersKeep, Outside, SessionOK, SessionOf, TypeOK
    <2> QED
      BY <1>3, <1>4, <2>1
  <1>5. ASSUME NEW w \in Workers, Fail(w) \/ Crash(w) PROVE LockOK'
    <2>1. /\ OthersKeep(w) /\ Outside(w)' /\ lock' = ReleasedBy(w)
          /\ UNCHANGED risks
      BY <1>5, FinishOutside, AbandonOutside
      DEF Fail, Crash, Rollback, Finish, Abandon
    <2> QED
      BY <2>1, ReleaseLocks DEF Outside, Locking
  <1>6. ASSUME NEW w \in Periodics,
               StartReprocess(w) \/ CleanRead(w) \/ CleanCommit(w)
        PROVE  LockOK'
    <2>1. /\ OthersKeep(w) /\ Outside(w)' /\ w \in Workers /\ UNCHANGED lock
          /\ pc[w] \in {"idle", "reprocess", "clean"}
      BY <1>6
      DEF StartReprocess, CleanRead, CleanCommit, OthersKeep, Outside,
          SessionOK, SessionOf, TypeOK, Workers
    <2>2. \A i \in RiskIds : lock[i] # NoVal => risks'[i] = risks[i]
      BY <1>6 DEF StartReprocess, CleanRead, CleanCommit
    <2> QED
      BY <1>3, <2>1, <2>2
  <1>7. ASSUME NEW i \in RiskIds, NEW r \in Reports, Create(i, r)
        PROVE  LockOK'
    <2>1. lock[i] = NoVal
      BY <1>7 DEF Create, LockOK, LockOf, TableOK
    <2> QED
      BY <1>1, <1>7, <2>1 DEF Create, TypeOK
  <1>8. ASSUME NEW i \in RiskIds, ApiDelete(i) PROVE LockOK'
    BY <1>1, <1>8 DEF ApiDelete, TypeOK
  <1> QED
    BY <1>1, <1>2, <1>4, <1>5, <1>6, <1>7, <1>8
    DEF Next, LoseCast, StartCast, ReprocessNext, UsageChange, Tick, Quiet,
        vars, Workers

-----------------------------------------------------------------------------
(* Notifications.                                                          *)

(* Only the commit of a kept risk makes a notification pending.            *)
LEMMA NewPending ==
  ASSUME TypeOK, SessionOK, [Next]_vars
  PROVE  \/ \E w \in Workers : CommitKeep(w)
         \/ \A v \in Workers, i \in RiskIds : Pending(v, i)' => Pending(v, i)
  <1>1. ASSUME NEW w \in Workers, OthersKeep(w),
               pc'[w] \notin {"notify", "send"}
        PROVE  \A v \in Workers, i \in RiskIds : Pending(v, i)' => Pending(v, i)
    BY <1>1 DEF OthersKeep, Pending
  <1>2. ASSUME NEW w \in Workers, Finish(w) \/ Abandon(w)
        PROVE  \A v \in Workers, i \in RiskIds : Pending(v, i)' => Pending(v, i)
    BY <1>1, <1>2, FinishOutside, AbandonOutside DEF Outside
  <1>3. ASSUME NEW w \in Workers, Process(w), ~CommitKeep(w)
        PROVE  \A v \in Workers, i \in RiskIds : Pending(v, i)' => Pending(v, i)
    <2>1. CASE \/ LockRow(w) \/ MatchOne(w) \/ MatchNone(w) \/ LookupNone(w)
               \/ LookupRecorded(w) \/ LookupUnrecorded(w) \/ InsertUsage(w)
               \/ Refresh(w) \/ Decide(w)
      <3>1. PICK s \in {"match", "lookup", "insert", "refresh", "decide",
                        "commit"} : pc' = [pc EXCEPT ![w] = s] /\ rid' = rid
        BY <2>1
        DEF LockRow, FirstStep, MatchOne, MatchNone, LookupNone,
            LookupRecorded, LookupUnrecorded, InsertUsage, Refresh, Decide
      <3> QED
        BY <3>1 DEF Pending, TypeOK
    <2>2. CASE Notify(w)
      BY <2>2 DEF Notify, Pending, TypeOK
    <2> QED
      BY <1>2, <1>3, <2>1, <2>2
      DEF Process, Rollback, SkipMissing, MatchMany, InsertConflict,
          RefreshGone, CommitMerge, CommitStale, NotifySkip, Send,
          LockTimeout
  <1>4. ASSUME NEW w \in Workers, NEW s \in {"reprocess", "clean", "idle"},
               pc' = [pc EXCEPT ![w] = s], UNCHANGED session
        PROVE  \A v \in Workers, i \in RiskIds : Pending(v, i)' => Pending(v, i)
    BY <1>4 DEF Pending, TypeOK
  <1>5. ASSUME NEW w \in Workers, NEW j \in RiskIds, Begin(w, j)
        PROVE  \A v \in Workers, i \in RiskIds : Pending(v, i)' => Pending(v, i)
    BY <1>5 DEF Begin, Pending, TypeOK
  <1>6. CASE UNCHANGED <<pc, session>>
    BY <1>6 DEF Pending
  <1> QED
    BY <1>2, <1>3, <1>4, <1>5, <1>6
    DEF Next, Create, ApiDelete, LoseCast, StartCast, StartReprocess,
        ReprocessNext, CleanRead, CleanCommit, Fail, Crash, Rollback,
        UsageChange, Tick, Quiet, vars, Workers

(* Only the notifier sends.                                                *)
LEMMA Senders ==
  ASSUME [Next]_vars
  PROVE  UNCHANGED sent \/ \E w \in Workers : Send(w)
  <1>1. ASSUME NEW w \in Workers, Process(w), ~Send(w)
        PROVE  UNCHANGED sent
    BY <1>1
    DEF Process, Rollback, Abandon, LockRow, SkipMissing, MatchMany, MatchOne,
        MatchNone, LookupNone, LookupRecorded, LookupUnrecorded, InsertUsage,
        InsertConflict, Refresh, RefreshGone, Decide, CommitKeep, CommitMerge,
        CommitStale, Notify, NotifySkip, LockTimeout
  <1> QED
    BY <1>1
    DEF Next, vars, Create, ApiDelete, LoseCast, StartCast, StartReprocess,
        ReprocessNext, CleanRead, CleanCommit, Fail, Crash, Rollback, Abandon,
        UsageChange, Tick, Quiet

LEMMA NotifyStep ==
  ASSUME TypeOK, TableOK, SessionOK, LockOK, NotifyOK, [Next]_vars
  PROVE  NotifyOK'
  <1> USE ConstantsAssumption
  <1> SUFFICES ASSUME NEW i \in RiskIds PROVE NotifyOf(i)'
    BY DEF NotifyOK
  <1>1. NotifyOf(i)
    BY DEF NotifyOK
  <1>2. ASSUME sent'[i] = sent[i], born'[i] = born[i],
               ~IsNew(i) => ~IsNew(i)',
               \A v \in Workers : Pending(v, i)' => Pending(v, i)
        PROVE  NotifyOf(i)'
    BY <1>1, <1>2 DEF NotifyOf, ResourceFirst
  \* Nobody sends for, or is about to notify of, a risk not created yet.
  <1>3. CASE born[i] = NoVal
    <2>1. \A v \in Workers : ~Pending(v, i)
      BY <1>3 DEF Pending, SessionOK, SessionOf, InSession
    <2>2. sent'[i] = sent[i]
      BY <1>3, Senders DEF Send, SessionOK, SessionOf, InSession, TypeOK
    <2>3. \A v \in Workers : ~Pending(v, i)'
      <3>1. CASE \E w \in Workers : CommitKeep(w)
        <4>1. PICK w \in Workers : CommitKeep(w)
          BY <3>1
        <4>2. rid[w] # i
          BY <1>3, <4>1 DEF CommitKeep, SessionOK, SessionOf, InSession
        <4> QED
          BY <2>1, <4>1, <4>2, FinishOutside
          DEF CommitKeep, Pending, OthersKeep, Outside, TypeOK
      <3> QED
        BY <2>1, <3>1, NewPending
    <2> QED
      BY <1>1, <1>3, <2>2, <2>3 DEF NotifyOf, ResourceFirst
  <1>4. CASE born[i] # NoVal
    <2>1. /\ born'[i] = born[i]
          /\ ~IsNew(i) => ~IsNew(i)'
      BY <1>4, NeverNewAgain
    <2>2. ASSUME NEW w \in Workers, CommitKeep(w) PROVE NotifyOf(i)'
      <3>1. sent' = sent
        BY <2>2 DEF CommitKeep
      <3>2. CASE Finish(w) \/ rid[w] # i
        <4>1. \A v \in Workers : Pending(v, i)' => Pending(v, i)
          BY <2>2, <3>2, FinishOutside
          DEF CommitKeep, Pending, OthersKeep, Outside, TypeOK
        <4> QED
          BY <1>2, <2>1, <3>1, <4>1
      <3>3. CASE ~Finish(w) /\ rid[w] = i
        <4>1. /\ wasNew[w] /\ pc' = [pc EXCEPT ![w] = "notify"]
              /\ UNCHANGED session
          BY <2>2, <3>3 DEF CommitKeep, WillNotify
        \* Only the lock holder processes a resource-first risk, so this is
        \* the transition out of NEW: nothing was sent or pending before.
        <4>2. ASSUME ResourceFirst(i)
              PROVE  sent[i] = 0 /\ \A v \in Workers : ~Pending(v, i)
          <5>1. row[w].ip = NoVal /\ pc[w] = "commit"
            BY <2>2, <3>3, <4>2
            DEF CommitKeep, ResourceFirst, SessionOK, SessionOf, InSession
          <5>2. lock[i] = w /\ IsNew(i)
            BY <3>3, <4>1, <5>1 DEF LockOK, LockOf, HolderOf
          <5> QED
            BY <1>1, <4>2, <5>2 DEF NotifyOf
        <4>3. \A v \in Workers : Pending(v, i)' => v = w \/ Pending(v, i)
          BY <4>1 DEF Pending, TypeOK
        <4>4. ~IsNew(i)'
          BY <2>2, <3>3, KeepFacts DEF IsNew, TypeOK
        <4> QED
          BY <1>1, <2>1, <3>1, <4>2, <4>3, <4>4 DEF NotifyOf, ResourceFirst
      <3> QED
        BY <3>2, <3>3
    <2>3. ASSUME NEW w \in Workers, Send(w) PROVE NotifyOf(i)'
      <3>1. \A v \in Workers : Pending(v, i)' => v # w /\ Pending(v, i)
        BY <2>3, FinishOutside DEF Send, Pending, OthersKeep, Outside
      <3>2. CASE rid[w] # i
        <4>1. sent'[i] = sent[i]
          BY <2>3, <3>2 DEF Send, TypeOK
        <4> QED
          BY <1>2, <2>1, <3>1, <4>1
      <3>3. CASE rid[w] = i
        <4>1. Pending(w, i) /\ sent'[i] = sent[i] + 1
          BY <2>3, <3>3 DEF Send, Pending, TypeOK
        <4>2. ResourceFirst(i) =>
                /\ sent'[i] = 1 /\ ~IsNew(i)'
                /\ \A v \in Workers : ~Pending(v, i)'
          BY <1>1, <2>1, <3>1, <4>1 DEF NotifyOf
        <4> QED
          BY <1>4, <2>1, <4>2 DEF NotifyOf, ResourceFirst
      <3> QED
        BY <3>2, <3>3
    <2> QED
      BY <1>2, <2>1, <2>2, <2>3, NewPending, Senders
  <1> QED
    BY <1>3, <1>4

-----------------------------------------------------------------------------
(* The clean task.                                                         *)

(* A step of worker w that is not the start of the clean task.             *)
NotCleaning(w) ==
    /\ \A v \in Workers : v # w => pc'[v] = pc[v] /\ todo'[v] = todo[v]
    /\ pc'[w] # "clean"

LEMMA ProcessNotCleaning ==
  ASSUME TypeOK, NEW w \in Workers, Process(w) \/ Fail(w) \/ Crash(w)
  PROVE  NotCleaning(w)
  <1>1. ASSUME Finish(w), UNCHANGED todo PROVE NotCleaning(w)
    BY <1>1 DEF Finish, AfterRisk, NotCleaning, TypeOK
  <1>2. ASSUME Abandon(w) PROVE NotCleaning(w)
    BY <1>2 DEF Abandon, NotCleaning, TypeOK
  <1>3. ASSUME NEW s \in Steps \ {"clean"}, pc' = [pc EXCEPT ![w] = s],
               UNCHANGED todo
        PROVE  NotCleaning(w)
    BY <1>3 DEF NotCleaning, TypeOK
  <1>4. CASE \/ LockRow(w) \/ MatchOne(w) \/ MatchNone(w) \/ LookupNone(w)
             \/ LookupRecorded(w) \/ LookupUnrecorded(w) \/ InsertUsage(w)
             \/ Refresh(w) \/ Decide(w) \/ Notify(w)
    <2>1. UNCHANGED todo
      BY <1>4 DEF LockRow, MatchOne, MatchNone, LookupNone, LookupRecorded,
                  LookupUnrecorded, InsertUsage, Refresh, Decide, Notify
    <2>2. PICK s \in {"match", "lookup", "insert", "refresh", "decide",
                      "commit", "send"} : pc' = [pc EXCEPT ![w] = s]
      BY <1>4 DEF LockRow, FirstStep, MatchOne, MatchNone, LookupNone,
                  LookupRecorded, LookupUnrecorded, InsertUsage, Refresh,
                  Decide, Notify
    <2> QED
      BY <1>3, <2>1, <2>2 DEF Steps
  <1>5. CASE CommitKeep(w)
    BY <1>1, <1>3, <1>5 DEF CommitKeep, Steps
  <1> QED
    BY <1>1, <1>2, <1>4, <1>5
    DEF Process, Fail, Crash, Rollback, SkipMissing, MatchMany,
        InsertConflict, RefreshGone, CommitMerge, CommitStale, NotifySkip,
        Send, LockTimeout

(* A thread that is cleaning has just read its list, or keeps it.          *)
LEMMA CleanList ==
  ASSUME TypeOK, [Next]_vars, NEW v \in Workers, pc'[v] = "clean"
  PROVE  \/ pc[v] = "clean" /\ todo'[v] = todo[v]
         \/ CleanRead(v)
  <1>1. ASSUME NEW w \in Workers, NotCleaning(w)
        PROVE  pc[v] = "clean" /\ todo'[v] = todo[v]
    BY <1>1 DEF NotCleaning
  <1>2. ASSUME NEW w \in Workers, NEW i \in RiskIds,
               StartCast(w, i) \/ ReprocessNext(w, i)
        PROVE  NotCleaning(w)
    BY <1>2 DEF StartCast, ReprocessNext, Begin, NotCleaning, TypeOK
  <1>3. ASSUME NEW w \in Workers, StartReprocess(w) \/ CleanCommit(w)
        PROVE  NotCleaning(w)
    BY <1>3 DEF StartReprocess, CleanCommit, NotCleaning, TypeOK
  <1>4. ASSUME NEW w \in Workers, CleanRead(w)
        PROVE  CleanRead(v) \/ (pc[v] = "clean" /\ todo'[v] = todo[v])
    BY <1>4 DEF CleanRead, TypeOK
  <1>5. CASE UNCHANGED <<pc, todo>>
    BY <1>5
  <1> QED
    BY <1>1, <1>2, <1>3, <1>4, <1>5, ProcessNotCleaning
    DEF Next, Create, ApiDelete, LoseCast, UsageChange, Tick, Quiet, vars,
        Workers

LEMMA CleanStep ==
  ASSUME TypeOK, TableOK, SessionOK, LockOK, CleanOK, [Next]_vars
  PROVE  CleanOK'
  <1> SUFFICES ASSUME NEW v \in Workers, pc'[v] = "clean",
                      NEW i \in RiskIds, i \in todo'[v]
               PROVE  born'[i] # NoVal /\ ~IsNew(i)'
    <2>1. ASSUME NEW v \in Workers PROVE todo'[v] \subseteq RiskIds
      BY TypeStep DEF TypeOK
    <2> QED
      BY <2>1 DEF CleanOK
  <1>1. CASE pc[v] = "clean" /\ todo'[v] = todo[v]
    BY <1>1, NeverNewAgain DEF CleanOK
  <1>2. CASE CleanRead(v)
    <2>1. Expired(i) /\ UNCHANGED <<risks, born>>
      BY <1>2 DEF CleanRead, TypeOK
    <2> QED
      BY <2>1 DEF Expired, TableOK, IsNew
  <1> QED
    BY <1>1, <1>2, CleanList

-----------------------------------------------------------------------------
(* The theorems.                                                           *)

(* IInv holds in every reachable state.                                    *)
THEOREM Invariance == Spec => []IInv
  <1>1. IInv /\ [Next]_vars => IInv'
    BY TypeStep, TableStep, SessionStep, LockStep, NotifyStep, CleanStep
    DEF IInv
  <1> QED
    BY InitIInv, <1>1, PTL DEF Spec

(* Type correctness.                                                       *)
THEOREM TypeCorrect == Spec => []TypeOK
  <1>1. IInv => TypeOK
    BY DEF IInv
  <1> QED
    BY Invariance, <1>1, PTL

(* Whatever the number of risks, workers, crashes and redeliveries, a      *)
(* resource-first risk is notified at most once: the row lock and was_new. *)
THEOREM NotifiedAtMostOnce == Spec => []ResourceFirstNotifiedOnce
  <1>1. IInv => ResourceFirstNotifiedOnce
    BY DEF IInv, NotifyOK, NotifyOf, ResourceFirstNotifiedOnce
  <1> QED
    BY Invariance, <1>1, PTL

(* No interleaving, not even one that loses the row lock half way, leaves  *)
(* a risk half attributed or attributed while it is NEW.                   *)
THEOREM WholeAttribution == Spec => []AttributionConsistent
  <1>1. IInv => AttributionConsistent
    BY DEF IInv, TableOK, Whole, IsNew, AttributionConsistent
  <1> QED
    BY Invariance, <1>1, PTL

(* Whatever the clean task read however long ago, nothing it deletes is    *)
(* NEW at that moment: a risk once processed or put aside stays so.        *)
THEOREM NewRisksSurviveCleaning == Spec => NewNeverCleaned
  <1>1. ASSUME IInv, [Next]_vars,
               NEW w \in Periodics, NEW i \in RiskIds, CleanedBy(w, i)
        PROVE  risks[i].status # "NEW"
    <2>1. CASE CleanCommit(w)
      BY <1>1, <2>1 DEF CleanCommit, CleanedBy, IInv, CleanOK, IsNew, Workers
    \* Only the step of w itself takes w out of "clean".
    <2>2. ASSUME NEW v \in Workers,
                 MatchMany(v) \/ CommitKeep(v) \/ CommitMerge(v)
          PROVE  pc'[w] = pc[w] \/ pc[w] # "clean"
      <3>1. pc[v] # "clean"
        BY <2>2 DEF MatchMany, CommitKeep, CommitMerge
      <3>2. NotCleaning(v)
        BY <1>1, <2>2, ProcessNotCleaning DEF Process, IInv
      <3> QED
        BY <3>1, <3>2 DEF NotCleaning, Workers
    <2>3. ASSUME NEW v \in Periodics, v # w, CleanCommit(v)
          PROVE  pc'[w] = pc[w]
      BY <1>1, <2>3 DEF CleanCommit, IInv, TypeOK, Workers
    <2> QED
      BY <1>1, <2>1, <2>2, <2>3, Writers
      DEF CleanedBy, Create, ApiDelete, Workers
  <1>2. IInv /\ [Next]_vars =>
          [\A w \in Periodics, i \in RiskIds :
                CleanedBy(w, i) => risks[i].status # "NEW"]_vars
    BY <1>1
  <1> QED
    BY Invariance, <1>2, PTL DEF Spec, NewNeverCleaned

=============================================================================
