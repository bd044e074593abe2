--------------------------- MODULE RiskMerge_proofs ---------------------------
(***************************************************************************)
(* A merged report is not lost: the duplicate a worker found is still what *)
(* it was found for when the worker commits the merge, or it is gone and   *)
(* the commit fails.                                                       *)
(***************************************************************************)
EXTENDS RiskReports_proofs

USE DEF Processing, Goto, Exists, table, session, Given, Blank

(* A row c is on the resource r names, or may have been moved from it: by  *)
(* a second match of its IP, or to a trove database.                       *)
OnOrMoved(c, r) ==
    c.resource = r.resource \/ c.ip # NoVal \/ c.rtype = "database"

(* A session's risk by resource is on the resource it was loaded with, or  *)
(* on a trove database.                                                    *)
InPlace(r, c) ==
    r.rtype = "database" \/ (r.resource = c.resource /\ r.rtype = c.rtype)

LoadedOf(w) ==
    pc[w] \in {"decide", "commit"} /\ row[w].ip = NoVal
        => InPlace(row[w], risks[rid[w]])

(* What was found on a resource is a processed and attributed risk of      *)
(* another id, until it is removed.                                        *)
FoundOf(w) ==
    pc[w] = "commit" /\ other[w] # NoVal /\ Given(row[w].resource) =>
        LET d == other[w].id IN
        /\ d \in RiskIds /\ d # rid[w] /\ born[d] # NoVal
        /\ Exists(d) => /\ risks[d].status = "PROCESSED"
                        /\ Given(risks[d].project)
                        /\ risks[d].type = row[w].type
                        /\ OnOrMoved(risks[d], row[w])

MergeOK == \A w \in Workers : LoadedOf(w) /\ FoundOf(w)

-----------------------------------------------------------------------------
(* A processed risk with an owner stays one, of its type, while it exists. *)

LEMMA SettledStays ==
  ASSUME IInv, CopyOK, ReportOK, MergeOK, [Next]_vars, NEW j \in RiskIds,
         born[j] # NoVal, Exists(j)'
  PROVE  /\ Exists(j)
         /\ risks'[j].ip = risks[j].ip /\ risks'[j].type = risks[j].type
         /\ risks[j].status = "PROCESSED" /\ Given(risks[j].project) =>
              /\ risks'[j].status = "PROCESSED" /\ Given(risks'[j].project)
              /\ risks[j].ip # NoVal \/ InPlace(risks'[j], risks[j])
  <1> DEFINE Stays == /\ Exists(j) /\ risks'[j].ip = risks[j].ip
                      /\ risks[j].status = "PROCESSED"
                            /\ Given(risks[j].project) =>
                          /\ risks'[j].status = "PROCESSED"
                          /\ Given(risks'[j].project)
                          /\ \/ risks[j].ip # NoVal
                             \/ InPlace(risks'[j], risks[j])
  <1> USE ConstantsAssumption
  <1>1. TypeOK /\ TableOK /\ SessionOK /\ LockOK
    BY DEF IInv
  <1>2. CASE risks'[j] = risks[j]
    BY <1>2 DEF InPlace
  <1>3. ASSUME NEW i \in RiskIds, NEW r \in Reports, Create(i, r)
        PROVE  risks'[j] = risks[j]
    BY <1>1, <1>3 DEF Create, TypeOK
  <1>4. ASSUME NEW i \in RiskIds, ApiDelete(i) PROVE risks'[j] = risks[j]
    BY <1>1, <1>4 DEF ApiDelete, TypeOK
  <1>5. ASSUME NEW w \in Workers, MatchMany(w) PROVE Stays
    <2>1. CASE rid[w] # j
      BY <1>1, <1>2, <1>5, <2>1, ManyFacts DEF TypeOK
    <2>2. CASE rid[w] = j
      <3>1. ~Given(risks[j].project)
        BY <1>5, <2>2 DEF MatchMany, CopyOK, CopyOf, Locking
      <3>2. Exists(j) /\ risks'[j].ip = risks[j].ip
        BY <1>1, <1>5, <2>2, ManyFacts DEF TypeOK
      <3> QED
        BY <3>1, <3>2
    <2> QED
      BY <2>1, <2>2
  <1>6. ASSUME NEW w \in Workers, CommitKeep(w) PROVE Stays
    <2>1. CASE rid[w] # j
      BY <1>1, <1>2, <1>6, <2>1, KeepFacts DEF TypeOK
    <2>2. CASE rid[w] = j
      <3> DEFINE q == Flushed(risks[j], row[w])
      <3>1. /\ Exists(j) /\ risks' = [risks EXCEPT ![j] = q]
            /\ q.ip = row[w].ip /\ row[w].ip = risks[j].ip
        BY <1>1, <1>6, <2>2, KeepFacts
      <3>2. risks[j] \in RowSet /\ row[w] \in RowSet /\ pc[w] = "commit"
        BY <1>1, <1>6, <3>1, RowType
        DEF CommitKeep, SessionOK, SessionOf, InSession
      <3>3. /\ q.project = row[w].project /\ q.resource = row[w].resource
            /\ q.rtype = row[w].rtype
            /\ risks[j].status = "PROCESSED" => q.status = "PROCESSED"
        BY <3>2, FlushedRow
      <3> HIDE DEF q
      <3>4. risks'[j] = q
        BY <1>1, <3>1 DEF TypeOK
      <3>5. Given(risks[j].project) => Given(row[w].project)
        BY <2>2, <3>2 DEF CopyOK, CopyOf, Locking
      <3>6. risks[j].ip # NoVal \/ InPlace(row[w], risks[j])
        BY <2>2, <3>1, <3>2 DEF MergeOK, LoadedOf
      <3>7. InPlace(row[w], risks[j]) => InPlace(q, risks[j])
        BY <3>3 DEF InPlace
      <3> QED
        BY <3>1, <3>3, <3>4, <3>5, <3>6, <3>7
    <2> QED
      BY <2>1, <2>2
  <1>7. ASSUME NEW w \in Workers, CommitMerge(w) PROVE Stays
    BY <1>1, <1>7, MergeFacts DEF InPlace
  <1>8. ASSUME NEW w \in Periodics, CleanCommit(w) PROVE risks'[j] = risks[j]
    BY <1>8 DEF CleanCommit
  <1>9. Stays
    BY <1>2, <1>3, <1>4, <1>5, <1>6, <1>7, <1>8, Writers
  <1>10. risks'[j].type = risks[j].type
    <2>1. SameReport(risks'[j], born'[j].report)
      BY <1>1, TableReports
    <2>2. SameReport(risks[j], born[j].report)
      BY <1>9 DEF ReportOK
    <2>3. born'[j] = born[j]
      BY <1>1, BornStays
    <2> QED
      BY <2>1, <2>2, <2>3 DEF SameReport
  <1> QED
    BY <1>9, <1>10

-----------------------------------------------------------------------------
(* MergeOK is an invariant.                                                *)

LEMMA FoundFrame ==
  ASSUME IInv, CopyOK, ReportOK, MergeOK, [Next]_vars, NEW v \in Workers,
         pc'[v] = pc[v], rid'[v] = rid[v], row'[v] = row[v],
         other'[v] = other[v]
  PROVE  FoundOf(v)'
  <1> SUFFICES ASSUME pc[v] = "commit", other[v] # NoVal,
                      Given(row[v].resource)
               PROVE  FoundOf(v)'
    BY DEF FoundOf
  <1>1. PICK j \in RiskIds :
          /\ j = other[v].id /\ j # rid[v] /\ born[j] # NoVal
          /\ Exists(j) => /\ risks[j].status = "PROCESSED"
                          /\ Given(risks[j].project)
                          /\ risks[j].type = row[v].type
                          /\ OnOrMoved(risks[j], row[v])
    BY DEF MergeOK, FoundOf
  <1>2. born'[j] = born[j]
    BY <1>1, BornStays DEF IInv
  <1>3. ASSUME Exists(j)'
        PROVE  /\ risks'[j].status = "PROCESSED" /\ Given(risks'[j].project)
               /\ risks'[j].type = row[v].type
               /\ OnOrMoved(risks'[j], row[v])
    <2>1. /\ Exists(j)
          /\ risks'[j].ip = risks[j].ip /\ risks'[j].type = risks[j].type
          /\ risks[j].status = "PROCESSED" /\ Given(risks[j].project) =>
               /\ risks'[j].status = "PROCESSED" /\ Given(risks'[j].project)
               /\ risks[j].ip # NoVal \/ InPlace(risks'[j], risks[j])
      BY <1>1, <1>3, SettledStays
    <2> QED
      BY <1>1, <2>1 DEF OnOrMoved, InPlace
  <1>4. other'[v].id = j /\ rid'[v] = rid[v] /\ row'[v].type = row[v].type
    BY <1>1
  <1> QED
    BY <1>1, <1>2, <1>3, <1>4 DEF FoundOf, OnOrMoved

LEMMA LoadedFrame ==
  ASSUME IInv, MergeOK, [Next]_vars, NEW v \in Workers,
         pc'[v] = pc[v], rid'[v] = rid[v], row'[v] = row[v]
  PROVE  LoadedOf(v)'
  <1> SUFFICES ASSUME pc[v] \in {"decide", "commit"}, row[v].ip = NoVal
               PROVE  LoadedOf(v)'
    BY DEF LoadedOf
  <1>1. rid[v] \in RiskIds /\ lock[rid[v]] = v
    BY DEF IInv, LockOK, HolderOf, SessionOK, SessionOf, InSession
  <1>2. risks'[rid[v]] = risks[rid[v]]
    BY <1>1, LockKept
  <1> QED
    BY <1>2 DEF LoadedOf, MergeOK

LEMMA ProcessLoaded ==
  ASSUME IInv, NEW w \in Workers, LoadedOf(w), Process(w)
  PROVE  LoadedOf(w)'
  <1> USE ConstantsAssumption
  <1>1. TypeOK /\ TableOK /\ SessionOK /\ SessionOf(w)
    BY DEF IInv, SessionOK
  <1>2. ASSUME pc'[w] \notin {"decide", "commit"} PROVE LoadedOf(w)'
    BY <1>2 DEF LoadedOf
  <1>3. ASSUME Finish(w) \/ Abandon(w) PROVE LoadedOf(w)'
    BY <1>1, <1>2, <1>3 DEF Finish, Abandon, AfterRisk, TypeOK
  <1>4. CASE LockRow(w)
    <2>1. UNCHANGED <<risks, rid>> /\ row'[w] = risks[rid[w]]
      BY <1>1, <1>4 DEF LockRow, TypeOK
    <2> QED
      BY <2>1 DEF LoadedOf, InPlace
  <1>5. CASE MatchOne(w) \/ LookupRecorded(w)
    <2>1. PICK u \in UsageRows : row' = [row EXCEPT ![w] = Attributed(@, u)]
      BY <1>1, <1>5
      DEF MatchOne, LookupRecorded, Matching, PortRows, TypeOK
    <2>2. row[w] \in RowSet /\ row[w].ip # NoVal
      BY <1>1, <1>5 DEF MatchOne, LookupRecorded, SessionOf, InSession
    <2>3. row'[w].ip # NoVal
      BY <1>1, <2>1, <2>2 DEF Attributed, RowSet, TypeOK
    <2> QED
      BY <2>3 DEF LoadedOf
  <1>6. CASE \/ MatchNone(w) \/ LookupNone(w) \/ LookupUnrecorded(w)
             \/ InsertUsage(w)
    <2>1. row' = row /\ row[w].ip # NoVal
      BY <1>1, <1>6
      DEF MatchNone, LookupNone, LookupUnrecorded, InsertUsage, SessionOf
    <2> QED
      BY <2>1 DEF LoadedOf
  <1>7. CASE Refresh(w)
    <2>1. PICK u \in UsageRows :
            row' = [row EXCEPT ![w] = Attributed(risks[rid[w]], u)]
      BY <1>1, <1>7 DEF Refresh, PortRows, TypeOK
    <2>2. /\ rid[w] \in RiskIds /\ risks[rid[w]] \in RowSet
          /\ risks[rid[w]].ip # NoVal
      BY <1>1, <1>7, RowType DEF Refresh, SessionOf, InSession, TableOK
    <2>3. row'[w].ip # NoVal
      BY <1>1, <2>1, <2>2 DEF Attributed, RowSet, TypeOK
    <2> QED
      BY <2>3 DEF LoadedOf
  <1>8. CASE Decide(w)
    <2>1. PICK q \in Remapped(row[w]) : row' = [row EXCEPT ![w] = q]
      BY <1>8 DEF Decide
    <2>2. /\ UNCHANGED <<risks, rid>> /\ row[w] \in RowSet
          /\ pc[w] = "decide" /\ row'[w] = q
      BY <1>1, <1>8, <2>1 DEF Decide, SessionOf, InSession, TypeOK
    <2>3. CASE q = row[w]
      BY <2>2, <2>3 DEF LoadedOf
    <2>4. CASE q # row[w]
      <3>1. PICK d \in Databases :
              q = [row[w] EXCEPT !.project = d.project,
                                 !.resource = d.resource,
                                 !.rtype = "database"]
        BY <2>1, <2>4 DEF Remapped
      <3>2. q.rtype = "database"
        BY <2>2, <3>1 DEF RowSet
      <3> QED
        BY <2>2, <3>2 DEF LoadedOf, InPlace
    <2> QED
      BY <2>3, <2>4
  <1>9. CASE (CommitKeep(w) /\ Goto(w, "notify")) \/ Notify(w)
    BY <1>1, <1>2, <1>9 DEF Notify, TypeOK
  <1> QED
    BY <1>3, <1>4, <1>5, <1>6, <1>7, <1>8, <1>9
    DEF Process, Rollback, SkipMissing, MatchMany, InsertConflict, RefreshGone,
        CommitKeep, CommitMerge, CommitStale, NotifySkip, Send, LockTimeout

(* The search finds what it is for.                                        *)
LEMMA DecideFinds ==
  ASSUME IInv, NEW w \in Workers, Decide(w)
  PROVE  FoundOf(w)'
  <1> USE ConstantsAssumption, NoValAssumption
  <1>1. TypeOK /\ TableOK
    BY DEF IInv
  <1>2. PICK r \in Remapped(row[w]) :
          /\ row' = [row EXCEPT ![w] = r]
          /\ IF Duplicates(w, r) = {} THEN UNCHANGED other
             ELSE \E j \in Duplicates(w, r) :
                    other' = [other EXCEPT ![w] = Loaded(j)]
    BY DEF Decide
  <1>3. UNCHANGED <<risks, rid, born>> /\ row'[w] = r /\ pc[w] = "decide"
    BY <1>1, <1>2 DEF Decide, TypeOK
  <1>4. CASE UNCHANGED other
    <2>1. other[w] = NoVal
      BY <1>3 DEF IInv, SessionOK, SessionOf
    <2> QED
      BY <1>4, <2>1 DEF FoundOf
  <1>5. ASSUME NEW j \in Duplicates(w, r),
               other' = [other EXCEPT ![w] = Loaded(j)]
        PROVE  FoundOf(w)'
    <2>1. /\ j \in RiskIds /\ j # rid[w] /\ Exists(j)
          /\ risks[j].resource = r.resource /\ risks[j].type = r.type
          /\ risks[j].project # NoVal /\ risks[j].status = "PROCESSED"
      BY DEF Duplicates, IsDuplicate
    <2>2. born[j] # NoVal /\ Whole(risks[j])
      BY <1>1, <2>1 DEF TableOK
    <2>3. other'[w].id = j
      BY <1>1, <1>5 DEF Loaded, TypeOK
    <2> QED
      BY <1>3, <2>1, <2>2, <2>3 DEF FoundOf, OnOrMoved, Whole
  <1> QED
    BY <1>2, <1>4, <1>5

LEMMA MergesHold == Spec => []MergeOK
  <1>1. Init => MergeOK
    BY DEF Init, MergeOK, LoadedOf, FoundOf
  <1>2. IInv /\ CopyOK /\ ReportOK /\ MergeOK /\ [Next]_vars => MergeOK'
    <2> SUFFICES ASSUME IInv, CopyOK, ReportOK, MergeOK, [Next]_vars,
                        NEW v \in Workers
                 PROVE  LoadedOf(v)' /\ FoundOf(v)'
      BY DEF MergeOK
    <2>1. TypeOK
      BY DEF IInv
    <2>2. LoadedOf(v)'
      <3>1. CASE pc'[v] = pc[v] /\ rid'[v] = rid[v] /\ row'[v] = row[v]
        BY <3>1, LoadedFrame
      <3>2. CASE Process(v)
        BY <3>2, ProcessLoaded DEF MergeOK
      <3>3. CASE pc'[v] \notin InSession
        BY <3>3 DEF LoadedOf, InSession
      <3> QED
        BY <2>1, <3>1, <3>2, <3>3, SessionMoves
    <2>3. FoundOf(v)'
      <3>1. CASE /\ pc'[v] = pc[v] /\ rid'[v] = rid[v] /\ row'[v] = row[v]
                 /\ other'[v] = other[v]
        BY <3>1, FoundFrame
      <3>2. CASE Decide(v)
        BY <3>2, DecideFinds
      <3>3. CASE pc'[v] # "commit"
        BY <3>3 DEF FoundOf
      <3> QED
        BY <2>1, <3>1, <3>2, <3>3, CommitEntered
    <2> QED
      BY <2>2, <2>3
  <1> QED
    BY <1>1, <1>2, Invariance, CopiesHold, ReportsHold, PTL DEF Spec

-----------------------------------------------------------------------------
(* Only a merge removes the risk of a worker that found a duplicate.       *)
LEMMA Mergers ==
  ASSUME TypeOK, [Next]_vars, NEW w \in Workers, MergedBy(w)
  PROVE  CommitMerge(w)
  <1> USE ConstantsAssumption
  <1>1. /\ pc[w] = "commit" /\ pc'[w] # pc[w] /\ other[w] # NoVal
        /\ risks' # risks
    BY DEF MergedBy
  <1>2. ASSUME NEW v \in Workers, Finish(v), pc[v] # "commit" PROVE FALSE
    <2>1. v # w
      BY <1>1, <1>2
    <2> QED
      BY <1>1, <1>2, <2>1 DEF Finish, TypeOK
  <1>3. ASSUME NEW v \in Workers, v # w,
               CommitKeep(v) \/ CommitMerge(v)
        PROVE  FALSE
    BY <1>1, <1>3 DEF CommitKeep, CommitMerge, Finish, TypeOK
  <1>4. ASSUME NEW v \in Periodics, CleanCommit(v) PROVE FALSE
    BY <1>1, <1>4 DEF CleanCommit, TypeOK
  <1> QED
    BY <1>1, <1>2, <1>3, <1>4, Writers
    DEF Create, ApiDelete, MatchMany, CommitKeep

(* What a merged risk said is in a processed risk of its type, on its      *)
(* resource unless a second processing moved that one since the search;    *)
(* for any number of workers that merge, remap, reprocess and delete.      *)
THEOREM MergesAreKept == Spec => MergeLeavesSurvivor
  <1> DEFINE Kept(w) ==
        \/ Untouched(row[w], other[w])
        \/ \E j \in RiskIds \ {rid[w]} :
            /\ Active(j)' /\ risks'[j].type = row[w].type
            /\ \/ risks'[j].resource = row[w].resource
               \/ risks'[j].ip # NoVal \/ risks'[j].rtype = "database"
            /\ Told(other[w].time, row[w].time, risks'[j].time)
            /\ Told(other[w].expires, row[w].expires, risks'[j].expires)
  <1>1. ASSUME IInv, CopyOK, ReportOK, MergeOK, [Next]_vars, NEW w \in Workers,
               MergedBy(w), Given(row[w].resource),
               ~Untouched(row[w], other[w])
        PROVE  Kept(w)
    <2>1. TypeOK /\ TableOK /\ SessionOK
      BY <1>1 DEF IInv
    <2>2. CommitMerge(w)
      BY <1>1, <2>1, Mergers
    <2>3. pc[w] = "commit" /\ other[w] # NoVal /\ Exists(other[w].id)
      BY <1>1, <2>2 DEF CommitMerge
    <2>4. PICK j \in RiskIds :
            /\ j = other[w].id /\ j # rid[w] /\ risks[j].status = "PROCESSED"
            /\ risks[j].type = row[w].type /\ OnOrMoved(risks[j], row[w])
      BY <1>1, <2>3 DEF MergeOK, FoundOf
    <2> DEFINE q == Refreshed(risks[j], row[w], other[w])
    <2>5. risks' = [risks EXCEPT ![j] = q, ![rid[w]] = NoVal]
      BY <1>1, <2>2, <2>4 DEF CommitMerge
    <2>6. row[w] \in RowSet /\ other[w] \in LoadedSet
      BY <2>1, <2>3 DEF SessionOK, SessionOf, InSession
    <2>7. risks[j] \in RowSet
      BY <2>1, <2>3, <2>4, RowType
    <2>8. /\ q \in RowSet /\ q.ip = risks[j].ip
          /\ q.status = risks[j].status /\ q.resource = risks[j].resource
          /\ q.type = risks[j].type /\ q.rtype = risks[j].rtype
      BY <2>6, <2>7, RefreshedRow
    <2>9. /\ Told(other[w].time, row[w].time, q.time)
          /\ Told(other[w].expires, row[w].expires, q.expires)
      BY <2>6, <2>7 DEF Refreshed, Told, RowSet
    <2> HIDE DEF q
    <2>10. risks'[j] = q
      BY <2>1, <2>4, <2>5 DEF TypeOK
    <2>11. q # NoVal
      BY <2>8, NoValAssumption DEF RowSet
    <2>12. Active(j)'
      BY <2>4, <2>8, <2>10, <2>11 DEF Active
    <2>13. \/ risks'[j].resource = row[w].resource
           \/ risks'[j].ip # NoVal \/ risks'[j].rtype = "database"
      BY <2>4, <2>8, <2>10 DEF OnOrMoved
    <2> QED
      BY <2>4, <2>8, <2>9, <2>10, <2>12, <2>13
  <1>2. IInv /\ CopyOK /\ ReportOK /\ MergeOK /\ [Next]_vars
          => [\A w \in Workers :
                MergedBy(w) /\ Given(row[w].resource) => Kept(w)]_vars
    BY <1>1
  <1> QED
    BY <1>2, Invariance, CopiesHold, ReportsHold, MergesHold, PTL
    DEF Spec, MergeLeavesSurvivor

=============================================================================
