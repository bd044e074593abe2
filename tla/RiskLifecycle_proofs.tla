------------------------- MODULE RiskLifecycle_proofs -------------------------
(***************************************************************************)
(* RiskProcessing implements RiskLifecycle, for every risk.  IInv does not *)
(* say enough of what a session believes of the owner: CopyOK does.        *)
(***************************************************************************)
EXTENDS RiskProcessing_proofs

USE DEF Processing, Goto, Exists, table, session, Given, Blank

-----------------------------------------------------------------------------
(* What a step leaves alone.                                               *)

(* A step of process_security_risk is of one worker.                       *)
LEMMA ProcessOthers ==
  ASSUME TypeOK, NEW w \in Workers, Process(w)
  PROVE  OthersKeep(w)
  <1> USE DEF OthersKeep, TypeOK
  <1>1. ASSUME Finish(w) \/ Abandon(w) PROVE OthersKeep(w)
    BY <1>1 DEF Finish, Abandon, CloseSession
  <1>2. CASE LockRow(w) \/ MatchOne(w) \/ MatchNone(w) \/ LookupNone(w)
    BY <1>2 DEF LockRow, MatchOne, MatchNone, LookupNone
  <1>3. CASE LookupRecorded(w) \/ LookupUnrecorded(w) \/ InsertUsage(w)
    BY <1>3 DEF LookupRecorded, LookupUnrecorded, InsertUsage
  <1>4. CASE Refresh(w)
    BY <1>4 DEF Refresh
  <1>5. CASE Decide(w)
    BY <1>5 DEF Decide
  <1>6. CASE CommitKeep(w) /\ UNCHANGED session
    BY <1>6 DEF CommitKeep, Finish
  <1>7. CASE Notify(w)
    BY <1>7 DEF Notify
  <1> QED
    BY <1>1, <1>2, <1>3, <1>4, <1>5, <1>6, <1>7
    DEF Process, Rollback, SkipMissing, MatchMany, InsertConflict, RefreshGone,
        CommitKeep, CommitMerge, CommitStale, NotifySkip, Send, LockTimeout

(* A session moves by its own worker's steps, and by no other within       *)
(* process_security_risk.                                                  *)
LEMMA SessionMoves ==
  ASSUME TypeOK, [Next]_vars, NEW v \in Workers
  PROVE  \/ pc'[v] = pc[v] /\ rid'[v] = rid[v] /\ row'[v] = row[v]
         \/ Process(v)
         \/ pc'[v] \notin InSession
  <1> DEFINE Goal == \/ /\ pc'[v] = pc[v] /\ rid'[v] = rid[v]
                        /\ row'[v] = row[v]
                     \/ Process(v)
                     \/ pc'[v] \notin InSession
  <1>1. CASE UNCHANGED <<pc, session>>
    BY <1>1
  <1>2. ASSUME NEW w \in Workers, Process(w) PROVE Goal
    BY <1>2, ProcessOthers DEF OthersKeep
  <1>3. ASSUME NEW w \in Workers, Fail(w) \/ Crash(w) PROVE Goal
    <2>1. OthersKeep(w) /\ Outside(w)'
      BY <1>3, FinishOutside, AbandonOutside DEF Fail, Crash, Rollback
    <2> QED
      BY <2>1 DEF OthersKeep, Outside, InSession
  <1>4. ASSUME NEW w \in Workers, NEW i \in RiskIds, Begin(w, i) PROVE Goal
    BY <1>4 DEF Begin, TypeOK, InSession
  <1>5. ASSUME NEW w \in Workers,
               StartReprocess(w) \/ CleanRead(w) \/ CleanCommit(w)
        PROVE  Goal
    BY <1>5 DEF StartReprocess, CleanRead, CleanCommit, TypeOK, InSession
  <1> QED
    BY <1>1, <1>2, <1>3, <1>4, <1>5
    DEF Next, Create, ApiDelete, LoseCast, StartCast, ReprocessNext,
        UsageChange, Tick, Quiet, vars, Workers

(* Locks are taken one by one, and given up by who goes no further.        *)
LEMMA LockChanges ==
  ASSUME TypeOK, [Next]_vars
  PROVE  \/ lock' = lock
         \/ \E w \in Workers : LockRow(w)
         \/ \E w \in Workers : lock' = ReleasedBy(w) /\ pc'[w] \notin Locking
  <1>1. ASSUME NEW w \in Workers, Finish(w) \/ Abandon(w)
        PROVE  lock' = ReleasedBy(w) /\ pc'[w] \notin Locking
    BY <1>1 DEF Finish, Abandon, AfterRisk, TypeOK, Locking
  <1>2. ASSUME NEW w \in Workers, Process(w), ~LockRow(w)
        PROVE  \/ lock' = lock
               \/ lock' = ReleasedBy(w) /\ pc'[w] \notin Locking
    <2>1. CASE InsertUsage(w)
      BY <2>1 DEF InsertUsage, TypeOK, Locking
    <2>2. CASE CommitKeep(w)
      BY <1>1, <2>2 DEF CommitKeep, TypeOK, Locking
    <2> QED
      BY <1>1, <1>2, <2>1, <2>2
      DEF Process, Rollback, SkipMissing, MatchMany, MatchOne, MatchNone,
          LookupNone, LookupRecorded, LookupUnrecorded, InsertConflict,
          Refresh, RefreshGone, Decide, CommitMerge, CommitStale, Notify,
          NotifySkip, Send, LockTimeout
  <1> QED
    BY <1>1, <1>2
    DEF Next, Create, ApiDelete, LoseCast, StartCast, ReprocessNext,
        StartReprocess, CleanRead, CleanCommit, Fail, Crash, Rollback,
        UsageChange, Tick, Quiet, vars, Workers

(* Under its lock a row does not change while the holder stands still.     *)
LEMMA LockKept ==
  ASSUME IInv, [Next]_vars, NEW v \in Workers, NEW i \in RiskIds,
         lock[i] = v, pc'[v] = pc[v]
  PROVE  risks'[i] = risks[i] /\ lock'[i] = v
  <1> USE ConstantsAssumption
  <1>1. /\ TypeOK /\ TableOK /\ SessionOK /\ LockOK
        /\ v # NoVal /\ LockOf(i)
    BY DEF IInv, LockOK
  <1>2. pc[v] \in Locking /\ Exists(i) /\ born[i] # NoVal /\ rid[v] = i
    BY <1>1 DEF LockOf, Locking, TableOK
  <1>3. lock'[i] = v
    <2>1. CASE lock' = lock
      BY <2>1
    <2>2. ASSUME NEW w \in Workers, LockRow(w) PROVE lock'[i] = v
      BY <1>1, <2>2 DEF LockRow, TypeOK
    <2>3. ASSUME NEW w \in Workers, lock' = ReleasedBy(w),
                 pc'[w] \notin Locking
          PROVE  lock'[i] = v
      BY <1>2, <2>3 DEF ReleasedBy
    <2> QED
      BY <1>1, <2>1, <2>2, <2>3, LockChanges
  <1>4. ASSUME NEW w \in Workers, Finish(w) PROVE w # v
    BY <1>1, <1>2, <1>4 DEF Finish, AfterRisk, TypeOK, Locking
  <1>5. risks'[i] = risks[i]
    <2>1. ASSUME NEW j \in RiskIds, NEW r \in Reports, Create(j, r)
          PROVE  risks'[i] = risks[i]
      BY <1>1, <1>2, <2>1 DEF Create, TypeOK
    <2>2. ASSUME NEW j \in RiskIds, ApiDelete(j) PROVE risks'[i] = risks[i]
      BY <1>1, <2>2 DEF ApiDelete, TypeOK
    <2>3. ASSUME NEW w \in Workers, MatchMany(w) PROVE risks'[i] = risks[i]
      <3>1. w # v
        BY <1>4, <2>3 DEF MatchMany
      <3>2. lock[rid[w]] = w
        BY <1>1, <2>3, ManyFacts
      <3>3. rid[w] # i
        BY <3>1, <3>2
      <3> QED
        BY <1>1, <2>3, <3>3 DEF MatchMany, TypeOK
    <2>4. ASSUME NEW w \in Workers, CommitKeep(w) PROVE risks'[i] = risks[i]
      <3>1. w # v
        BY <1>1, <1>2, <1>4, <2>4 DEF CommitKeep, TypeOK
      <3>2. rid[w] # i
        BY <1>1, <2>4, <3>1 DEF CommitKeep, Free
      <3> QED
        BY <1>1, <2>4, <3>2 DEF CommitKeep, TypeOK
    <2>5. ASSUME NEW w \in Workers, CommitMerge(w) PROVE risks'[i] = risks[i]
      <3>1. w # v /\ rid[w] # i
        BY <1>1, <1>4, <2>5 DEF CommitMerge, Free
      <3> QED
        BY <1>1, <1>2, <2>5, <3>1, MergeFacts
    <2>6. ASSUME NEW w \in Periodics, CleanCommit(w)
          PROVE  risks'[i] = risks[i]
      BY <1>1, <2>6 DEF CleanCommit
    <2> QED
      BY <2>1, <2>2, <2>3, <2>4, <2>5, <2>6, Writers
  <1> QED
    BY <1>3, <1>5

-----------------------------------------------------------------------------
(* CopyOK is an invariant.                                                 *)

(* A session that stands still is still right about its risk.              *)
LEMMA CopyFrame ==
  ASSUME IInv, CopyOK, [Next]_vars, NEW v \in Workers,
         pc'[v] = pc[v], rid'[v] = rid[v], row'[v] = row[v]
  PROVE  CopyOf(v)'
  <1>1. /\ TypeOK /\ TableOK /\ SessionOK /\ LockOK
        /\ CopyOf(v) /\ SessionOf(v) /\ HolderOf(v)
    BY DEF IInv, SessionOK, LockOK, CopyOK
  <1>2. pc[v] \in InSession => rid[v] \in RiskIds /\ born[rid[v]] # NoVal
    BY <1>1 DEF SessionOf
  <1>3. CASE pc[v] \in Locking
    BY <1>1, <1>2, <1>3, LockKept DEF CopyOf, InSession, Locking
  <1>4. CASE pc[v] \in {"notify", "send"}
    BY <1>1, <1>2, <1>4, NeverNewAgain DEF CopyOf, InSession, IsNew, Locking
  <1> QED
    BY <1>3, <1>4 DEF CopyOf, Locking

(* An attributed row has an owner, also once it is remapped.               *)
LEMMA AttributedOwned ==
  ASSUME NEW r \in RowSet, NEW u \in UsageRows
  PROVE  Given(Attributed(r, u).project)
  BY UsageAssumption DEF Attributed, RowSet

LEMMA RemappedOwned ==
  ASSUME NEW r \in RowSet, NEW q \in Remapped(r), ~Given(q.project)
  PROVE  q = r
  <1>1. CASE q = r
    BY <1>1
  <1>2. CASE q # r
    <2>1. PICK d \in Databases :
            q = [r EXCEPT !.project = d.project, !.resource = d.resource,
                          !.rtype = "database"]
      BY <1>2 DEF Remapped
    <2> QED
      BY <2>1, UsageAssumption DEF RowSet
  <1> QED
    BY <1>1, <1>2

(* Each step of process_security_risk leaves its session right.            *)
LEMMA ProcessCopy ==
  ASSUME IInv, NEW w \in Workers, CopyOf(w), Process(w)
  PROVE  CopyOf(w)'
  <1> USE ConstantsAssumption
  <1>1. /\ TypeOK /\ TableOK /\ SessionOK /\ LockOK
        /\ SessionOf(w) /\ HolderOf(w) /\ [Next]_vars
    BY DEF IInv, SessionOK, LockOK, Next
  <1>2. ASSUME pc'[w] \notin Locking \cup {"notify", "send"} PROVE CopyOf(w)'
    BY <1>2 DEF CopyOf, Locking
  <1>3. ASSUME Finish(w) \/ Abandon(w) PROVE CopyOf(w)'
    BY <1>1, <1>2, <1>3
    DEF Finish, Abandon, AfterRisk, TypeOK, Locking
  <1>4. CASE LockRow(w)
    <2> DEFINE i == rid[w]
    <2>1. /\ i \in RiskIds /\ Exists(i) /\ Whole(risks[i])
      BY <1>1, <1>4 DEF LockRow, TypeOK, TableOK
    <2>2. /\ risks' = risks /\ rid' = rid /\ row'[w] = risks[i]
          /\ lock'[i] = w /\ pc'[w] = FirstStep(risks[i])
      BY <1>1, <1>4, <2>1 DEF LockRow, TypeOK
    <2> QED
      BY <2>1, <2>2 DEF CopyOf, FirstStep, Whole, Locking
  <1>5. CASE MatchOne(w) \/ LookupRecorded(w)
    <2>1. PICK u \in UsageRows : row' = [row EXCEPT ![w] = Attributed(@, u)]
      BY <1>1, <1>5
      DEF MatchOne, LookupRecorded, Matching, PortRows, TypeOK
    <2>2. row[w] \in RowSet /\ pc'[w] = "decide"
      BY <1>1, <1>5
      DEF MatchOne, LookupRecorded, SessionOf, InSession, TypeOK
    <2> QED
      BY <1>1, <2>1, <2>2, AttributedOwned DEF CopyOf, TypeOK
  <1>6. CASE MatchNone(w) \/ LookupNone(w) \/ LookupUnrecorded(w)
    <2>1. /\ UNCHANGED <<risks, lock, rid, row>>
          /\ pc[w] \in {"match", "lookup"}
          /\ pc'[w] \in {"lookup", "insert", "decide"}
      BY <1>1, <1>6 DEF MatchNone, LookupNone, LookupUnrecorded, TypeOK
    <2> QED
      BY <1>1, <2>1 DEF CopyOf, Locking
  <1>7. CASE InsertUsage(w)
    BY <1>1, <1>2, <1>7 DEF InsertUsage, TypeOK, Locking
  <1>8. CASE Refresh(w)
    <2>1. PICK u \in UsageRows :
            row' = [row EXCEPT ![w] = Attributed(risks[rid[w]], u)]
      BY <1>1, <1>8 DEF Refresh, PortRows, TypeOK
    <2>2. risks[rid[w]] \in RowSet /\ pc'[w] = "decide"
      BY <1>1, <1>8, RowType DEF Refresh, SessionOf, InSession, TypeOK
    <2> QED
      BY <1>1, <2>1, <2>2, AttributedOwned DEF CopyOf, TypeOK
  <1>9. CASE Decide(w)
    <2>1. PICK q \in Remapped(row[w]) : row' = [row EXCEPT ![w] = q]
      BY <1>9 DEF Decide
    <2>2. /\ UNCHANGED <<risks, lock, rid>> /\ row[w] \in RowSet
          /\ pc[w] = "decide" /\ pc'[w] = "commit" /\ row'[w] = q
      BY <1>1, <1>9, <2>1 DEF Decide, SessionOf, InSession, TypeOK
    <2> QED
      BY <2>1, <2>2, RemappedOwned DEF CopyOf, Locking
  <1>10. CASE CommitKeep(w) /\ UNCHANGED session
    <2>1. /\ rid[w] \in RiskIds /\ risks'[rid[w]].status # "NEW"
          /\ rid' = rid /\ pc[w] = "commit"
      BY <1>1, <1>10, KeepFacts DEF CommitKeep, TypeOK
    <2>2. pc'[w] \notin Locking \cup {"send"}
      BY <1>1, <1>3, <1>10 DEF CommitKeep, Finish, AfterRisk, TypeOK, Locking
    <2> QED
      BY <2>1, <2>2 DEF CopyOf, IsNew, Locking
  <1>11. CASE Notify(w)
    <2>1. /\ UNCHANGED <<risks, rid>> /\ pc[w] = "notify" /\ pc'[w] = "send"
          /\ row'[w] = risks[rid[w]] /\ risks[rid[w]].project # NoVal
      BY <1>1, <1>11 DEF Notify, Notifiable, TypeOK
    <2> QED
      BY <2>1 DEF CopyOf, IsNew, Locking
  <1> QED
    BY <1>3, <1>4, <1>5, <1>6, <1>7, <1>8, <1>9, <1>10, <1>11
    DEF Process, Rollback, SkipMissing, MatchMany, InsertConflict, RefreshGone,
        CommitKeep, CommitMerge, CommitStale, NotifySkip, Send, LockTimeout

(* What a session acts on is so, lock or no lock.                          *)
THEOREM CopiesHold == Spec => []CopyOK
  <1>1. Init => CopyOK
    BY DEF Init, CopyOK, CopyOf, Locking
  <1>2. IInv /\ CopyOK /\ [Next]_vars => CopyOK'
    <2> SUFFICES ASSUME IInv, CopyOK, [Next]_vars, NEW v \in Workers
                 PROVE  CopyOf(v)'
      BY DEF CopyOK
    <2>1. CASE pc'[v] = pc[v] /\ rid'[v] = rid[v] /\ row'[v] = row[v]
      BY <2>1, CopyFrame
    <2>2. CASE Process(v)
      BY <2>2, ProcessCopy DEF CopyOK
    <2>3. CASE pc'[v] \notin InSession
      BY <2>3 DEF CopyOf, InSession, Locking
    <2> QED
      BY <2>1, <2>2, <2>3, SessionMoves DEF IInv
  <1> QED
    BY <1>1, <1>2, Invariance, PTL DEF Spec

-----------------------------------------------------------------------------
(* The refinement.                                                         *)

(* On record is what the table has.                                        *)
LEMMA OnRecordIs ==
  ASSUME TypeOK, TableOK, NEW i \in RiskIds, Exists(i)
  PROVE  /\ StatusOf(i) = risks[i].status /\ OwnerOf(i) = risks[i].project
         /\ Life(i)!OnRecord
  <1>1. risks[i] \in RowSet /\ born[i] # NoVal
    BY RowType DEF TableOK
  <1> QED
    BY <1>1 DEF StatusOf, OwnerOf, Life!OnRecord, RowSet

(* A row that disappears is a risk removed.                                *)
LEMMA RemovedIs ==
  ASSUME TypeOK, TableOK, NEW i \in RiskIds, Exists(i), risks'[i] = NoVal,
         born'[i] = born[i], sent'[i] = sent[i], UNCHANGED MailOf(i)
  PROVE  Life(i)!Remove
  <1>1. Life(i)!OnRecord /\ born[i] # NoVal
    BY OnRecordIs DEF TableOK
  <1> QED
    BY <1>1 DEF Life!Remove, StatusOf, OwnerOf, ResourceFirst

(* A risk whose row, history and messages stay the same stutters.          *)
LEMMA StandsStill ==
  ASSUME NEW i \in RiskIds, born'[i] = born[i], sent'[i] = sent[i],
         UNCHANGED MailOf(i),
         \/ risks'[i] = risks[i]
         \/ /\ Exists(i) /\ risks'[i] # NoVal
            /\ risks'[i].status = risks[i].status
            /\ risks'[i].project = risks[i].project
  PROVE  UNCHANGED Life(i)!vars
  BY DEF Life!vars, StatusOf, OwnerOf, ResourceFirst

(* No message about a risk is written, sent or dropped by a worker that is *)
(* not at it before or after.                                              *)
LEMMA MailStays ==
  ASSUME NEW i \in RiskIds, NEW w \in Workers, OthersKeep(w),
         pc[w] # "send" \/ rid[w] # i, pc'[w] # "send"
  PROVE  UNCHANGED MailOf(i)
  BY DEF OthersKeep, MailOf

LEMMA ProcessMail ==
  ASSUME TypeOK, NEW i \in RiskIds, NEW w \in Workers, Process(w),
         ~Notify(w), ~Send(w)
  PROVE  UNCHANGED MailOf(i)
  <1>1. OthersKeep(w)
    BY ProcessOthers
  <1>2. pc[w] # "send"
    BY DEF Process, LockRow, SkipMissing, MatchMany, MatchOne, MatchNone,
           LookupNone, LookupRecorded, LookupUnrecorded, InsertUsage,
           InsertConflict, Refresh, RefreshGone, Decide, CommitKeep,
           CommitMerge, CommitStale, NotifySkip, LockTimeout, Waiting
  <1>3. CASE Finish(w) \/ Abandon(w)
    BY <1>1, <1>2, <1>3, FinishOutside, AbandonOutside, MailStays DEF Outside
  <1>4. ASSUME NEW s \in Steps \ {"send"}, pc' = [pc EXCEPT ![w] = s]
        PROVE  UNCHANGED MailOf(i)
    BY <1>1, <1>2, <1>4, MailStays DEF TypeOK
  <1>5. CASE LockRow(w)
    BY <1>4, <1>5 DEF LockRow, FirstStep, Steps
  <1>6. CASE \/ MatchOne(w) \/ MatchNone(w) \/ LookupNone(w)
             \/ LookupRecorded(w) \/ LookupUnrecorded(w) \/ InsertUsage(w)
             \/ Refresh(w) \/ Decide(w)
    BY <1>4, <1>6
    DEF MatchOne, MatchNone, LookupNone, LookupRecorded, LookupUnrecorded,
        InsertUsage, Refresh, Decide, Steps
  <1>7. CASE CommitKeep(w)
    BY <1>3, <1>4, <1>7 DEF CommitKeep, Steps
  <1> QED
    BY <1>3, <1>5, <1>6, <1>7
    DEF Process, Rollback, SkipMissing, MatchMany, InsertConflict, RefreshGone,
        CommitMerge, CommitStale, NotifySkip, LockTimeout

(* The messages about a risk change when one is written or sent, or when   *)
(* its sender fails.                                                       *)
LEMMA MailMoves ==
  ASSUME TypeOK, [Next]_vars, NEW i \in RiskIds
  PROVE  \/ UNCHANGED MailOf(i)
         \/ \E w \in Workers : Notify(w) \/ Send(w)
         \/ \E w \in Workers :
                /\ Fail(w) \/ Crash(w)
                /\ pc[w] = "send" /\ rid[w] = i
  <1>1. ASSUME NEW w \in Workers, Fail(w) \/ Crash(w),
               ~(pc[w] = "send" /\ rid[w] = i)
        PROVE  UNCHANGED MailOf(i)
    <2>1. OthersKeep(w) /\ Outside(w)'
      BY <1>1, FinishOutside, AbandonOutside DEF Fail, Crash, Rollback
    <2> QED
      BY <1>1, <2>1, MailStays DEF Outside
  <1>2. ASSUME NEW w \in Workers, NEW j \in RiskIds, Begin(w, j),
               pc[w] \in {"idle", "reprocess"}
        PROVE  UNCHANGED MailOf(i)
    BY <1>2 DEF Begin, MailOf, TypeOK
  <1>3. ASSUME NEW w \in Workers,
               StartReprocess(w) \/ CleanRead(w) \/ CleanCommit(w)
        PROVE  UNCHANGED MailOf(i)
    BY <1>3 DEF StartReprocess, CleanRead, CleanCommit, MailOf, TypeOK
  <1>4. CASE UNCHANGED <<pc, session>>
    BY <1>4 DEF MailOf
  <1> QED
    BY <1>1, <1>2, <1>3, <1>4, ProcessMail
    DEF Next, Create, ApiDelete, LoseCast, StartCast, ReprocessNext,
        UsageChange, Tick, Quiet, vars, Workers

(* Each step of the worker, the API or the clean task is a step of the     *)
(* life of each risk, or none.                                             *)
LEMMA LifeStep ==
  ASSUME IInv, CopyOK, [Next]_vars, NEW i \in RiskIds
  PROVE  [Life(i)!Next]_(Life(i)!vars)
  <1> USE ConstantsAssumption
  <1>1. TypeOK /\ TableOK /\ SessionOK /\ LockOK /\ NotifyOK
    BY DEF IInv
  <1>2. ASSUME NEW j \in RiskIds, NEW r \in Reports, Create(j, r)
        PROVE  [Life(i)!Next]_(Life(i)!vars)
    <2>0. UNCHANGED MailOf(i)
      BY <1>2 DEF Create, MailOf
    <2>1. CASE j # i
      BY <1>1, <1>2, <2>0, <2>1, StandsStill DEF Create, TypeOK
    <2>2. CASE j = i
      <3>1. born[i] = NoVal /\ StatusOf(i) = "none"
        BY <1>2, <2>2 DEF Create, StatusOf
      <3>2. /\ risks'[i] = NewRisk(r) /\ sent'[i] = sent[i]
            /\ born'[i] = [report |-> r, at |-> now]
        BY <1>1, <1>2, <2>2 DEF Create, TypeOK
      <3>3. /\ born'[i] # NoVal /\ born'[i].report = r /\ risks'[i] # NoVal
            /\ risks'[i].status = "NEW" /\ risks'[i].project = r.project
        BY <1>1, <3>2, NewRiskRow, NoValAssumption DEF TypeOK, NewRisk
      <3>4. StatusOf(i)' = "NEW" /\ OwnerOf(i)' = r.project
        BY <3>3 DEF StatusOf, OwnerOf
      <3>5. ResourceFirst(i)' = Given(r.project)
        BY <3>3, ReportsAssumption DEF ResourceFirst
      <3>6. Life(i)!Report(r.project)
        BY <2>0, <3>1, <3>2, <3>4, <3>5 DEF Life!Report, Life!Nobody
      <3> QED
        BY <3>6 DEF Life!Next, Projects
    <2> QED
      BY <2>1, <2>2
  <1>3. ASSUME NEW j \in RiskIds, ApiDelete(j)
        PROVE  [Life(i)!Next]_(Life(i)!vars)
    <2>0. UNCHANGED MailOf(i)
      BY <1>3 DEF ApiDelete, MailOf
    <2>1. CASE j # i
      BY <1>1, <1>3, <2>0, <2>1, StandsStill DEF ApiDelete, TypeOK
    <2>2. CASE j = i
      BY <1>1, <1>3, <2>0, <2>2, RemovedIs DEF ApiDelete, TypeOK, Life!Next
    <2> QED
      BY <2>1, <2>2
  <1>4. ASSUME NEW w \in Workers, MatchMany(w)
        PROVE  [Life(i)!Next]_(Life(i)!vars)
    <2> DEFINE q == PutAside(risks[rid[w]])
    <2>1. /\ rid[w] \in RiskIds /\ Exists(rid[w])
          /\ risks' = [risks EXCEPT ![rid[w]] = q] /\ q \in RowSet
          /\ q.status = "ERROR" /\ q.project = risks[rid[w]].project
      BY <1>1, <1>4, ManyFacts
    <2>2. UNCHANGED <<born, sent, MailOf(i)>>
      BY <1>1, <1>4, ProcessMail DEF Process, MatchMany, Notify, Send
    <2>3. ~Given(risks[rid[w]].project)
      BY <1>4 DEF MatchMany, CopyOK, CopyOf, Locking
    <2> HIDE DEF q
    <2>4. CASE rid[w] # i
      BY <1>1, <2>1, <2>2, <2>4, StandsStill DEF TypeOK
    <2>5. CASE rid[w] = i
      <3>1. /\ Life(i)!OnRecord /\ born[i] # NoVal
            /\ OwnerOf(i) = risks[i].project
        BY <1>1, <2>1, <2>5, OnRecordIs DEF TableOK
      <3>2. risks'[i] = q /\ q # NoVal
        BY <1>1, <2>1, <2>5, NoValAssumption DEF TypeOK
      <3>3. StatusOf(i)' = "ERROR" /\ OwnerOf(i)' = OwnerOf(i)
        BY <2>1, <2>2, <2>5, <3>1, <3>2 DEF StatusOf, OwnerOf
      <3>4. Life(i)!PutAside
        BY <2>2, <2>3, <2>5, <3>1, <3>3
        DEF Life!PutAside, Life!Nobody, ResourceFirst
      <3> QED
        BY <3>4 DEF Life!Next
    <2> QED
      BY <2>4, <2>5
  <1>5. ASSUME NEW w \in Workers, CommitKeep(w)
        PROVE  [Life(i)!Next]_(Life(i)!vars)
    <2> DEFINE q == Flushed(risks[rid[w]], row[w])
    <2>1. /\ rid[w] \in RiskIds /\ Exists(rid[w])
          /\ risks' = [risks EXCEPT ![rid[w]] = q] /\ q \in RowSet
      BY <1>1, <1>5, KeepFacts
    <2>2. /\ row[w] \in RowSet /\ risks[rid[w]] \in RowSet
          /\ row[w].status # "NEW" => risks[rid[w]].status # "NEW"
      BY <1>1, <1>5, <2>1, RowType
      DEF CommitKeep, SessionOK, SessionOf, InSession, IsNew
    <2>3. /\ q.project = row[w].project
          /\ \/ q.status = "PROCESSED"
             \/ q.status = "ERROR" /\ risks[rid[w]].status = "ERROR"
      BY <2>2, FlushedRow DEF RowSet
    <2>4. UNCHANGED <<born, sent, MailOf(i)>>
      BY <1>1, <1>5, ProcessMail DEF Process, CommitKeep, Notify, Send
    <2>5. ~Given(row[w].project) => row[w].project = risks[rid[w]].project
      BY <1>5 DEF CommitKeep, CopyOK, CopyOf, Locking
    <2> HIDE DEF q
    <2>6. CASE rid[w] # i
      BY <1>1, <2>1, <2>4, <2>6, StandsStill DEF TypeOK
    <2>7. CASE rid[w] = i
      <3>1. /\ Life(i)!OnRecord /\ born[i] # NoVal
            /\ OwnerOf(i) = risks[i].project /\ StatusOf(i) = risks[i].status
        BY <1>1, <2>1, <2>7, OnRecordIs DEF TableOK
      <3>2. risks'[i] = q /\ q # NoVal
        BY <1>1, <2>1, <2>7, NoValAssumption DEF TypeOK
      <3>3. StatusOf(i)' = q.status /\ OwnerOf(i)' = row[w].project
        BY <2>3, <2>4, <3>1, <3>2 DEF StatusOf, OwnerOf
      <3>4. Life(i)!Settle(row[w].project)
        BY <2>3, <2>4, <2>5, <2>7, <3>1, <3>3
        DEF Life!Settle, Life!Nobody, ResourceFirst
      <3>5. row[w].project \in Projects \cup {NoVal}
        BY <2>2 DEF RowSet
      <3> QED
        BY <3>4, <3>5 DEF Life!Next
    <2> QED
      BY <2>6, <2>7
  <1>6. ASSUME NEW w \in Workers, CommitMerge(w)
        PROVE  [Life(i)!Next]_(Life(i)!vars)
    <2>1. UNCHANGED <<born, sent, MailOf(i)>>
      BY <1>1, <1>6, ProcessMail DEF Process, CommitMerge, Notify, Send
    <2>2. CASE risks'[i] # NoVal
      BY <1>1, <1>6, <2>1, <2>2, MergeFacts, StandsStill
    <2>3. CASE risks'[i] = NoVal /\ Exists(i)
      BY <1>1, <2>1, <2>3, RemovedIs DEF Life!Next
    <2>4. CASE risks'[i] = NoVal /\ ~Exists(i)
      BY <2>1, <2>4, StandsStill
    <2> QED
      BY <2>2, <2>3, <2>4
  <1>7. ASSUME NEW w \in Periodics, CleanCommit(w)
        PROVE  [Life(i)!Next]_(Life(i)!vars)
    <2>1. /\ UNCHANGED <<born, sent, MailOf(i)>>
          /\ risks'[i] = risks[i] \/ risks'[i] = NoVal
      BY <1>1, <1>7 DEF CleanCommit, MailOf, TypeOK
    <2>2. CASE risks'[i] = risks[i]
      BY <2>1, <2>2, StandsStill
    <2>3. CASE risks'[i] = NoVal /\ Exists(i)
      BY <1>1, <2>1, <2>3, RemovedIs DEF Life!Next
    <2> QED
      BY <2>1, <2>2, <2>3
  \* A message about the risk is written, sent or dropped.
  <1>8. ASSUME NEW w \in Workers, Notify(w)
        PROVE  [Life(i)!Next]_(Life(i)!vars)
    <2>1. /\ UNCHANGED <<risks, born, sent, rid>> /\ OthersKeep(w)
          /\ pc[w] = "notify" /\ pc'[w] = "send"
          /\ Exists(rid[w]) /\ risks[rid[w]].project # NoVal
          /\ row'[w] = risks[rid[w]]
      BY <1>1, <1>8, ProcessOthers DEF Process, Notify, Notifiable, TypeOK
    <2>2. CASE rid[w] # i
      <3>1. UNCHANGED MailOf(i)
        BY <2>1, <2>2 DEF OthersKeep, MailOf
      <3> QED
        BY <2>1, <3>1, StandsStill
    <2>3. CASE rid[w] = i
      <3>1. /\ Life(i)!OnRecord /\ OwnerOf(i) = risks[i].project
            /\ StatusOf(i) = risks[i].status
        BY <1>1, <2>1, <2>3, OnRecordIs
      <3>2. risks[i].status # "NEW"
        BY <2>1, <2>3 DEF CopyOK, CopyOf, IsNew
      <3>3. MailOf(i)' = [MailOf(i) EXCEPT ![w] = OwnerOf(i)]
        <4>1. rid'[w] = i /\ row'[w].project = OwnerOf(i)
          BY <2>1, <2>3, <3>1
        <4>2. \A v \in Workers : v # w => MailOf(i)'[v] = MailOf(i)[v]
          BY <2>1 DEF OthersKeep, MailOf
        <4> QED
          BY <2>1, <4>1, <4>2 DEF MailOf
      <3>4. Life(i)!Prepare(w)
        BY <2>1, <2>3, <3>1, <3>2, <3>3
        DEF Life!Prepare, StatusOf, OwnerOf, ResourceFirst
      <3> QED
        BY <3>4 DEF Life!Next
    <2> QED
      BY <2>2, <2>3
  <1>9. ASSUME NEW w \in Workers, Send(w)
        PROVE  [Life(i)!Next]_(Life(i)!vars)
    <2>1. /\ UNCHANGED <<risks, born>> /\ OthersKeep(w) /\ pc[w] = "send"
          /\ Outside(w)' /\ sent' = [sent EXCEPT ![rid[w]] = @ + 1]
      BY <1>1, <1>9, FinishOutside DEF Send
    <2>2. CASE rid[w] # i
      BY <1>1, <2>1, <2>2, MailStays, StandsStill DEF Outside, TypeOK
    <2>3. CASE rid[w] = i
      <3>1. MailOf(i)[w] # NoVal
        BY <2>1, <2>3 DEF MailOf, CopyOK, CopyOf
      <3>2. ResourceFirst(i) => sent[i] = 0
        BY <1>1, <2>1, <2>3 DEF NotifyOK, NotifyOf, Pending
      <3>3. sent'[i] = sent[i] + 1
        BY <1>1, <2>1, <2>3 DEF TypeOK
      <3>4. MailOf(i)' = [MailOf(i) EXCEPT ![w] = NoVal]
        BY <2>1 DEF OthersKeep, Outside, MailOf
      <3>5. Life(i)!Deliver(w)
        BY <2>1, <3>1, <3>2, <3>3, <3>4
        DEF Life!Deliver, StatusOf, OwnerOf, ResourceFirst
      <3> QED
        BY <3>5 DEF Life!Next
    <2> QED
      BY <2>2, <2>3
  <1>10. ASSUME NEW w \in Workers, Fail(w) \/ Crash(w),
                pc[w] = "send", rid[w] = i
         PROVE  [Life(i)!Next]_(Life(i)!vars)
    <2>1. OthersKeep(w) /\ Outside(w)' /\ UNCHANGED <<risks, born, sent>>
      BY <1>1, <1>10, FinishOutside, AbandonOutside
      DEF Fail, Crash, Rollback, Abandon
    <2>2. MailOf(i)[w] # NoVal
      BY <1>10 DEF MailOf, CopyOK, CopyOf
    <2>3. MailOf(i)' = [MailOf(i) EXCEPT ![w] = NoVal]
      BY <2>1 DEF OthersKeep, Outside, MailOf
    <2>4. Life(i)!Drop(w)
      BY <2>1, <2>2, <2>3 DEF Life!Drop, StatusOf, OwnerOf, ResourceFirst
    <2> QED
      BY <1>10, <2>4 DEF Life!Next
  <1>11. CASE UNCHANGED <<risks, born, sent>>
    BY <1>1, <1>8, <1>9, <1>10, <1>11, MailMoves, StandsStill
  <1> QED
    BY <1>2, <1>3, <1>4, <1>5, <1>6, <1>7, <1>9, <1>11, Writers, Senders

LEMMA LifeInit ==
  ASSUME Init, NEW i \in RiskIds
  PROVE  Life(i)!Init
  BY DEF Init, Life!Init, StatusOf, OwnerOf, ResourceFirst, MailOf

(* Every risk lives the life RiskLifecycle describes, for any number of    *)
(* risks, workers, redeliveries, failures and crashes, and whatever the IP *)
(* usage says: the detailed specification implements the abstract one.     *)
THEOREM Implements ==
  ASSUME NEW i \in RiskIds
  PROVE  Spec => Life(i)!Spec
  <1>1. Init => Life(i)!Init
    BY LifeInit
  <1>2. IInv /\ CopyOK /\ [Next]_vars => [Life(i)!Next]_(Life(i)!vars)
    BY LifeStep
  <1> QED
    BY <1>1, <1>2, Invariance, CopiesHold, PTL DEF Spec, Life!Spec

(* The same, of all risks at once, as the runs check it.                   *)
THEOREM LivesSo == Spec => LivesAsPromised
  <1>1. Init => \A i \in RiskIds : Life(i)!Init
    BY LifeInit
  <1>2. IInv /\ CopyOK /\ [Next]_vars
            => [\A i \in RiskIds : [Life(i)!Next]_(Life(i)!vars)]_vars
    BY LifeStep
  <1> QED
    BY <1>1, <1>2, Invariance, CopiesHold, PTL DEF Spec, LivesAsPromised

=============================================================================
