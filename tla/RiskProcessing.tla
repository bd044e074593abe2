--------------------------- MODULE RiskProcessing ---------------------------
(***************************************************************************)
(* The life of a security risk in varroa: created through the API, cast to *)
(* a worker, attributed to an OpenStack resource, merged into the risk     *)
(* already known for that resource or kept and notified, and cleaned once  *)
(* it has expired.                                                         *)
(*                                                                         *)
(* Any number of RPC workers and periodic threads run over one database.   *)
(* A step is what the database sees at once: a locking read, a snapshot    *)
(* read or a committed flush; whatever happens between two of them can     *)
(* interleave with the other workers.  SELECT ... FOR UPDATE is a real row *)
(* lock (the service runs on MySQL/InnoDB) and commit() releases it.       *)
(***************************************************************************)
EXTENDS Integers, FiniteSets

CONSTANTS
    RiskIds,        \* identifiers, each used for at most one risk
    RpcWorkers,     \* threads serving process_security_risk casts
    Periodics,      \* periodic-task threads (one per worker process)
    Reports,        \* the bodies POST /security-risks/ may accept
    UsageRows,      \* the IP usage rows neutron's history may give rise to
    Databases,      \* [project, resource] pairs trove metadata may name
    TroveProject,   \* CONF.worker.trove_project_id
    Interval,       \* CONF.worker.periodic_task_interval
    MaxTime,        \* bound on the clock
    MaxFaults,      \* bound on failures, crashes and duplicate deliveries
    NoVal,          \* NULL
    Empty           \* the empty string

(* What the code's truthiness tests take for missing; its IS NULL and      *)
(* "is None" tests mean NULL alone.                                        *)
Blank == {NoVal, Empty}
Given(v) == v \notin Blank

Workers == RpcWorkers \cup Periodics
Times == 0..MaxTime

(* What _validate_report_mode and the schema let through: a risk names an  *)
(* IP, or a complete resource and no IP.  With an IP a resource column may *)
(* still be the empty string, and is then stored as that.                  *)
ASSUME ConstantsAssumption ==
    /\ RpcWorkers \cap Periodics = {}
    /\ MaxTime \in Nat /\ Interval \in Nat /\ MaxFaults \in Nat
    /\ NoVal \notin RiskIds /\ NoVal \notin Workers /\ NoVal \notin Times
    /\ NoVal # Empty /\ Given(TroveProject)
ASSUME ReportsAssumption ==
    \A r \in Reports :
        /\ r = [type |-> r.type, ip |-> r.ip, notify |-> r.notify,
                time |-> r.time, expires |-> r.expires, project |-> r.project,
                resource |-> r.resource, rtype |-> r.rtype]
        /\ r.time \in Times /\ r.expires \in Times /\ r.notify \in BOOLEAN
        /\ IF r.ip = NoVal
           THEN {r.project, r.resource, r.rtype} \cap Blank = {}
           ELSE {r.project, r.resource, r.rtype} \subseteq Blank
(* Neutron names the project and the instance of a compute port, and       *)
(* _remap_trove_instance takes no blank metadata.                          *)
ASSUME UsageAssumption ==
    /\ \A u \in UsageRows :
        /\ u = [port |-> u.port, ip |-> u.ip, project |-> u.project,
                resource |-> u.resource, rtype |-> u.rtype,
                start |-> u.start, end |-> u.end]
        /\ u.start \in Times /\ u.end \in Times \cup {NoVal}
        /\ {u.port, u.ip, u.project, u.resource} \cap Blank = {}
    /\ \A d \in Databases : Given(d.project) /\ Given(d.resource)

VARIABLES
    risks,      \* the security_risk table: id -> row or NoVal
    usage,      \* the ip_usage table, a set of rows with distinct ports
    born,       \* history: id -> [report, at], or NoVal if never created
    casts,      \* ids whose cast is queued
    lock,       \* id -> the worker holding the row lock, or NoVal
    pc,         \* worker -> the step it is about to take
    rid,        \* worker -> the id it processes, or NoVal
    row,        \* worker -> its session's copy of that row, or NoVal
    wasNew,     \* worker -> was_new
    other,      \* worker -> the second object of its session: the IP usage it
                \*   adds, then the duplicate it found; or NoVal
    todo,       \* periodic thread -> the ids a task read and still has to do
    sent,       \* history: id -> number of notifications sent for it
    now,        \* the clock
    faults      \* faults so far

table == <<risks, usage>>
session == <<rid, row, wasNew, other>>
vars == <<risks, usage, born, casts, lock, pc, session, todo, sent, now,
          faults>>

Init ==
    /\ risks = [i \in RiskIds |-> NoVal]
    /\ usage = {}
    /\ born = [i \in RiskIds |-> NoVal]
    /\ casts = {}
    /\ lock = [i \in RiskIds |-> NoVal]
    /\ pc = [w \in Workers |-> "idle"]
    /\ rid = [w \in Workers |-> NoVal]
    /\ row = [w \in Workers |-> NoVal]
    /\ wasNew = [w \in Workers |-> FALSE]
    /\ other = [w \in Workers |-> NoVal]
    /\ todo = [w \in Workers |-> {}]
    /\ sent = [i \in RiskIds |-> 0]
    /\ now = 0
    /\ faults = 0

-----------------------------------------------------------------------------
(* The API: create a risk, delete a risk.                                  *)

Exists(i) == risks[i] # NoVal

(* SecurityRisk.__init__.  last_seen is left out: it is written only here  *)
(* and in the merge, each time with the value of time.                     *)
NewRisk(r) ==
    [status |-> "NEW", type |-> r.type, ip |-> r.ip, notify |-> r.notify,
     time |-> r.time, first_seen |-> r.time, expires |-> r.expires,
     project |-> r.project, resource |-> r.resource, rtype |-> r.rtype]

Create(i, r) ==
    /\ born[i] = NoVal
    /\ risks' = [risks EXCEPT ![i] = NewRisk(r)]
    /\ born' = [born EXCEPT ![i] = [report |-> r, at |-> now]]
    /\ casts' = casts \cup {i}
    /\ UNCHANGED <<usage, lock, pc, session, todo, sent, now, faults>>

(* The DELETE statement waits for the row lock.                            *)
ApiDelete(i) ==
    /\ Exists(i) /\ lock[i] = NoVal
    /\ risks' = [risks EXCEPT ![i] = NoVal]
    /\ UNCHANGED <<usage, born, casts, lock, pc, session, todo, sent, now,
                   faults>>

-----------------------------------------------------------------------------
(* Sessions.  AfterRisk is where a worker goes when process_security_risk  *)
(* returns: a periodic task goes on with its list.                         *)

AfterRisk(w) == IF todo[w] = {} THEN "idle" ELSE "reprocess"

Free(i, w) == lock[i] \in {NoVal, w}

ReleasedBy(w) == [i \in RiskIds |-> IF lock[i] = w THEN NoVal ELSE lock[i]]

(* The app context ends and takes its session with it.                     *)
CloseSession(w) ==
    /\ rid' = [rid EXCEPT ![w] = NoVal]
    /\ row' = [row EXCEPT ![w] = NoVal]
    /\ wasNew' = [wasNew EXCEPT ![w] = FALSE]
    /\ other' = [other EXCEPT ![w] = NoVal]

(* process_security_risk returns, after a commit or a rollback.            *)
Finish(w) ==
    /\ pc' = [pc EXCEPT ![w] = AfterRisk(w)]
    /\ lock' = ReleasedBy(w)
    /\ CloseSession(w)

(* An exception: everything since the last commit is rolled back.          *)
Rollback(w) ==
    /\ Finish(w)
    /\ UNCHANGED <<table, born, casts, todo, sent, now>>

-----------------------------------------------------------------------------
(* Who processes a risk: a cast, or the periodic list of stranded risks.   *)

Begin(w, i) ==
    /\ pc' = [pc EXCEPT ![w] = "start"]
    /\ rid' = [rid EXCEPT ![w] = i]
    /\ UNCHANGED <<row, wasNew, other>>

(* The cast is consumed, or a duplicate of it stays in the queue.          *)
StartCast(w, i) ==
    /\ pc[w] = "idle" /\ i \in casts
    /\ Begin(w, i)
    /\ \/ casts' = casts \ {i} /\ UNCHANGED faults
       \/ faults < MaxFaults /\ faults' = faults + 1 /\ UNCHANGED casts
    /\ UNCHANGED <<table, born, lock, todo, sent, now>>

(* Casts are fire-and-forget.                                              *)
LoseCast(i) ==
    /\ i \in casts
    /\ casts' = casts \ {i}
    /\ UNCHANGED <<table, born, lock, pc, session, todo, sent, now, faults>>

(* Mutant of Stranded: the comparison with the cutoff is the wrong way.     *)
StrandedLater(i) ==
    /\ Exists(i)
    /\ risks[i].status = "NEW" /\ risks[i].first_seen + Interval > now

Stranded(i) ==
    /\ Exists(i)
    /\ risks[i].status = "NEW" /\ risks[i].first_seen + Interval < now

StartReprocess(w) ==
    LET ids == {i \in RiskIds : Stranded(i)} IN
    /\ pc[w] = "idle" /\ ids # {}
    /\ todo' = [todo EXCEPT ![w] = ids]
    /\ pc' = [pc EXCEPT ![w] = "reprocess"]
    /\ UNCHANGED <<table, born, casts, lock, session, sent, now, faults>>

ReprocessNext(w, i) ==
    /\ pc[w] = "reprocess" /\ i \in todo[w]
    /\ Begin(w, i)
    /\ todo' = [todo EXCEPT ![w] = @ \ {i}]
    /\ UNCHANGED <<table, born, casts, lock, sent, now, faults>>

-----------------------------------------------------------------------------
(* _process_security_risk, step by step.                                   *)

Processing(w, step) == pc[w] = step /\ rid[w] # NoVal

Goto(w, step) == pc' = [pc EXCEPT ![w] = step]

(* Mutant of FirstStep: every risk by IP is matched again.                 *)
FirstStepAgain(r) == IF r.ip # NoVal THEN "match" ELSE "decide"

(* Only a risk that arrives without a resource needs the IP history; the   *)
(* empty string counts as a resource here.                                 *)
FirstStep(r) == IF r.resource = NoVal THEN "match" ELSE "decide"

(* Mutant of LockRow: with_for_update() is missing.                        *)
LoadRow(w) ==
    LET i == rid[w] IN
    /\ Processing(w, "start") /\ Exists(i) /\ lock[i] = NoVal
    /\ row' = [row EXCEPT ![w] = risks[i]]
    /\ wasNew' = [wasNew EXCEPT ![w] = risks[i].status = "NEW"]
    /\ Goto(w, FirstStep(risks[i]))
    /\ UNCHANGED <<table, born, casts, lock, rid, other, todo, sent, now,
                   faults>>

LockRow(w) ==
    LET i == rid[w] IN
    /\ Processing(w, "start") /\ Exists(i) /\ lock[i] = NoVal
    /\ lock' = [lock EXCEPT ![i] = w]
    /\ row' = [row EXCEPT ![w] = risks[i]]
    /\ wasNew' = [wasNew EXCEPT ![w] = risks[i].status = "NEW"]
    /\ Goto(w, FirstStep(risks[i]))
    /\ UNCHANGED <<table, born, casts, rid, other, todo, sent, now, faults>>

SkipMissing(w) ==
    /\ Processing(w, "start") /\ ~Exists(rid[w])
    /\ Rollback(w) /\ UNCHANGED faults

Matches(r, u) ==
    /\ u.ip = r.ip /\ u.start <= r.time
    /\ u.end = NoVal \/ u.end >= r.time

Matching(w) == {u \in usage : Matches(row[w], u)}

(* Mutant of Attributed: the port's id is taken for its device's.          *)
AttributedToPort(r, u) == [r EXCEPT !.project = u.project,
                                    !.resource = u.port, !.rtype = u.rtype]

Attributed(r, u) == [r EXCEPT !.project = u.project,
                              !.resource = u.resource, !.rtype = u.rtype]

(* one_or_none() raises MultipleResultsFound: the risk is put aside.       *)
PutAside(r) == [r EXCEPT !.status = "ERROR"]

MatchMany(w) ==
    /\ Processing(w, "match")
    /\ \E u, v \in Matching(w) : u # v
    /\ risks' = [risks EXCEPT ![rid[w]] = PutAside(@)]
    /\ Finish(w)
    /\ UNCHANGED <<usage, born, casts, todo, sent, now, faults>>

MatchOne(w) ==
    /\ Processing(w, "match")
    /\ \E u \in Matching(w) :
        /\ Matching(w) = {u}
        /\ row' = [row EXCEPT ![w] = Attributed(@, u)]
    /\ Goto(w, "decide")
    /\ UNCHANGED <<table, born, casts, lock, rid, wasNew, other, todo, sent,
                   now, faults>>

MatchNone(w) ==
    /\ Processing(w, "match") /\ Matching(w) = {}
    /\ Goto(w, "lookup")
    /\ UNCHANGED <<table, born, casts, lock, session, todo, sent, now, faults>>

(* _find_and_create_ip_usage.  Neutron has no port to offer: none or many  *)
(* with the IP, an internal network, a port too young or not of an instance. *)
LookupNone(w) ==
    /\ Processing(w, "lookup")
    /\ Goto(w, "decide")
    /\ UNCHANGED <<table, born, casts, lock, session, todo, sent, now, faults>>

(* The row a live port on the risk's IP would be recorded as.              *)
Candidates(r) == {u \in UsageRows :
                    u.ip = r.ip /\ u.end = NoVal /\ u.start <= r.time}

PortRows(p) == {v \in usage : v.port = p}

(* The port is already recorded, whatever IP and period its row now has.   *)
LookupRecorded(w) ==
    /\ Processing(w, "lookup")
    /\ \E u \in Candidates(row[w]) : \E v \in PortRows(u.port) :
        row' = [row EXCEPT ![w] = Attributed(@, v)]
    /\ Goto(w, "decide")
    /\ UNCHANGED <<table, born, casts, lock, rid, wasNew, other, todo, sent,
                   now, faults>>

LookupUnrecorded(w) ==
    /\ Processing(w, "lookup")
    /\ \E u \in Candidates(row[w]) :
        /\ PortRows(u.port) = {}
        /\ other' = [other EXCEPT ![w] = u]
    /\ Goto(w, "insert")
    /\ UNCHANGED <<table, born, casts, lock, rid, row, wasNew, todo, sent, now,
                   faults>>

(* Mutants of InsertUsage: the risk was attributed, or marked PROCESSED,   *)
(* before the new row is committed, and the commit writes that as well.    *)
InsertAndAttribute(w) ==
    /\ Processing(w, "insert") /\ PortRows(other[w].port) = {}
    /\ usage' = usage \cup {other[w]}
    /\ risks' = [risks EXCEPT ![rid[w]] = Attributed(@, other[w])]
    /\ lock' = ReleasedBy(w)
    /\ Goto(w, "refresh")
    /\ UNCHANGED <<born, casts, session, todo, sent, now, faults>>

InsertAndProcess(w) ==
    /\ Processing(w, "insert") /\ PortRows(other[w].port) = {}
    /\ usage' = usage \cup {other[w]}
    /\ risks' = [risks EXCEPT ![rid[w]].status = "PROCESSED"]
    /\ lock' = ReleasedBy(w)
    /\ Goto(w, "refresh")
    /\ UNCHANGED <<born, casts, session, todo, sent, now, faults>>

(* The commit of the new row ends the transaction, and with it the row     *)
(* lock on the risk.                                                       *)
InsertUsage(w) ==
    /\ Processing(w, "insert") /\ PortRows(other[w].port) = {}
    /\ usage' = usage \cup {other[w]}
    /\ lock' = ReleasedBy(w)
    /\ Goto(w, "refresh")
    /\ UNCHANGED <<risks, born, casts, session, todo, sent, now, faults>>

(* IntegrityError: the port was recorded since the lookup.                 *)
InsertConflict(w) ==
    /\ Processing(w, "insert") /\ PortRows(other[w].port) # {}
    /\ Rollback(w) /\ UNCHANGED faults

(* The commit expired both objects: they are read again, without a lock.   *)
Refresh(w) ==
    /\ Processing(w, "refresh") /\ Exists(rid[w])
    /\ \E v \in PortRows(other[w].port) :
        row' = [row EXCEPT ![w] = Attributed(risks[rid[w]], v)]
    /\ other' = [other EXCEPT ![w] = NoVal]
    /\ Goto(w, "decide")
    /\ UNCHANGED <<table, born, casts, lock, rid, wasNew, todo, sent, now,
                   faults>>

RefreshGone(w) ==
    /\ Processing(w, "refresh") /\ ~Exists(rid[w])
    /\ Rollback(w) /\ UNCHANGED faults

-----------------------------------------------------------------------------
(* Remap, look for duplicates, commit.                                     *)

(* Mutant of Remapped: the instance may belong to any project.             *)
RemappedAnyProject(r) ==
    {r} \cup IF r.rtype = "instance"
             THEN {[r EXCEPT !.project = d.project, !.resource = d.resource,
                             !.rtype = "database"] : d \in Databases}
             ELSE {}

(* _remap_trove_instance: no metadata, no server, or the database named by *)
(* the server's metadata.                                                  *)
Remapped(r) ==
    {r} \cup IF r.rtype = "instance" /\ r.project = TroveProject
             THEN {[r EXCEPT !.project = d.project, !.resource = d.resource,
                             !.rtype = "database"] : d \in Databases}
             ELSE {}

(* The duplicate query for a risk i about to be recorded as r.             *)
IsDuplicate(i, r, j) ==
    /\ j # i /\ Exists(j)
    /\ risks[j].resource = r.resource /\ risks[j].type = r.type
    /\ risks[j].project # NoVal /\ risks[j].status = "PROCESSED"

(* Mutant of Duplicates: searched for before the remap.                    *)
DuplicatesBeforeRemap(w, r) ==
    {j \in RiskIds : IsDuplicate(rid[w], row[w], j)}

Duplicates(w, r) == {j \in RiskIds : IsDuplicate(rid[w], r, j)}

(* What the session loads of the duplicate .first() returns.               *)
Loaded(j) == [id |-> j, time |-> risks[j].time, expires |-> risks[j].expires]

(* The search autoflushes that UPDATE, which then waits for the row lock;  *)
(* as the row is locked from there to the commit, and neither the search   *)
(* nor anything a worker sends between the two is visible to the others,   *)
(* the UPDATE and its lock are part of the commit below.  With REPEATABLE  *)
(* READ the search sees the snapshot of the match: the run in which Decide *)
(* directly follows it.                                                    *)
Decide(w) ==
    /\ Processing(w, "decide")
    /\ \E r \in Remapped(row[w]) :
        LET ds == Duplicates(w, r) IN
        /\ row' = [row EXCEPT ![w] = r]
        /\ IF ds = {} THEN UNCHANGED other
           ELSE \E j \in ds : other' = [other EXCEPT ![w] = Loaded(j)]
    /\ Goto(w, "commit")
    /\ UNCHANGED <<table, born, casts, lock, rid, wasNew, todo, sent, now,
                   faults>>

(* The UPDATE of the risk's own row: columns set since they were loaded.   *)
(* Setting status to the value it was loaded with writes nothing.  An      *)
(* owner set after the commit in InsertUsage is always written (the old    *)
(* value was expired); otherwise the row lock keeps the row as loaded.     *)
Flushed(cur, r) ==
    [cur EXCEPT !.status = IF r.status = "PROCESSED" THEN @ ELSE "PROCESSED",
                !.project = r.project, !.resource = r.resource,
                !.rtype = r.rtype]

(* The UPDATE of the duplicate: only columns that differ from the loaded   *)
(* ones are sent, and none at all when the two reports are identical.      *)
Untouched(r, d) == r.time = d.time /\ r.expires = d.expires

(* Mutant of Refreshed: the expiry of the known risk is not extended.      *)
RefreshedTimeOnly(cur, r, d) ==
    [cur EXCEPT !.time = IF r.time = d.time THEN @ ELSE r.time]

Refreshed(cur, r, d) ==
    [cur EXCEPT !.time = IF r.time = d.time THEN @ ELSE r.time,
                !.expires = IF r.expires = d.expires THEN @ ELSE r.expires]

(* Mutant of WillNotify: any committed risk notifies, new or not.          *)
WillNotifyAgain(w) == row[w].notify

WillNotify(w) == wasNew[w] /\ row[w].notify

CommitKeep(w) ==
    LET i == rid[w] IN
    /\ Processing(w, "commit") /\ other[w] = NoVal
    /\ Exists(i) /\ Free(i, w)
    /\ risks' = [risks EXCEPT ![i] = Flushed(@, row[w])]
    /\ IF WillNotify(w)
       THEN /\ Goto(w, "notify") /\ lock' = ReleasedBy(w)
            /\ UNCHANGED session
       ELSE Finish(w)
    /\ UNCHANGED <<usage, born, casts, todo, sent, now, faults>>

(* The report is folded into the duplicate and its own row deleted.        *)
CommitMerge(w) ==
    LET i == rid[w]  d == other[w] IN
    /\ Processing(w, "commit") /\ d # NoVal
    /\ Exists(i) /\ Free(i, w)
    /\ \/ Untouched(row[w], d) /\ risks' = [risks EXCEPT ![i] = NoVal]
       \/ /\ ~Untouched(row[w], d) /\ Exists(d.id) /\ lock[d.id] = NoVal
          /\ risks' = [risks EXCEPT ![d.id] = Refreshed(@, row[w], d),
                                    ![i] = NoVal]
    /\ Finish(w)
    /\ UNCHANGED <<usage, born, casts, todo, sent, now, faults>>

(* StaleDataError: an UPDATE found its row gone.                           *)
CommitStale(w) ==
    /\ Processing(w, "commit")
    /\ \/ ~Exists(rid[w])
       \/ other[w] # NoVal /\ ~Untouched(row[w], other[w])
                           /\ ~Exists(other[w].id)
    /\ Rollback(w) /\ UNCHANGED faults

(* _notify reloads the risk, as the commit expired it; a row gone by now   *)
(* ends in the caller's rollback, one without a project is not for anybody. *)
Notifiable(i) == Exists(i) /\ risks[i].project # NoVal

(* The reload, without a lock.  The transaction it opens ends with the     *)
(* session, but what it read may change before the message is sent.        *)
Notify(w) ==
    /\ Processing(w, "notify") /\ Notifiable(rid[w])
    /\ row' = [row EXCEPT ![w] = risks[rid[w]]]
    /\ Goto(w, "send")
    /\ UNCHANGED <<table, born, casts, lock, rid, wasNew, other, todo, sent,
                   now, faults>>

(* The notifier renders what was read and sends it to its project.         *)
Send(w) ==
    /\ Processing(w, "send")
    /\ sent' = [sent EXCEPT ![rid[w]] = @ + 1]
    /\ Finish(w)
    /\ UNCHANGED <<table, born, casts, todo, now, faults>>

NotifySkip(w) ==
    /\ Processing(w, "notify") /\ ~Notifiable(rid[w])
    /\ Rollback(w) /\ UNCHANGED faults

-----------------------------------------------------------------------------
(* clean_expired_risks: read the expired ids, then delete those rows.      *)

(* Mutant of Expired: the filter on the status is missing.                 *)
ExpiredAnyStatus(i) == Exists(i) /\ risks[i].expires < now

Expired(i) ==
    /\ Exists(i) /\ risks[i].expires < now /\ risks[i].status # "NEW"

CleanRead(w) ==
    LET ids == {i \in RiskIds : Expired(i)} IN
    /\ pc[w] = "idle" /\ ids # {}
    /\ todo' = [todo EXCEPT ![w] = ids]
    /\ Goto(w, "clean")
    /\ UNCHANGED <<table, born, casts, lock, session, sent, now, faults>>

CleanCommit(w) ==
    /\ pc[w] = "clean"
    /\ \A i \in todo[w] : lock[i] = NoVal
    /\ risks' = [i \in RiskIds |-> IF i \in todo[w] THEN NoVal ELSE risks[i]]
    /\ todo' = [todo EXCEPT ![w] = {}]
    /\ Goto(w, "idle")
    /\ UNCHANGED <<usage, born, casts, lock, session, sent, now, faults>>

-----------------------------------------------------------------------------
(* Failures.                                                               *)

(* Waiting for a row another transaction has locked: InnoDB ends the wait  *)
(* with an error, after a timeout or because of a deadlock.                *)
Waiting(w) ==
    \/ Processing(w, "start") /\ ~Free(rid[w], w)
    \/ /\ Processing(w, "commit")
       /\ \/ ~Free(rid[w], w)
          \/ other[w] # NoVal /\ ~Untouched(row[w], other[w])
                              /\ lock[other[w].id] # NoVal
    \/ pc[w] = "clean" /\ \E i \in todo[w] : lock[i] # NoVal

Abandon(w) ==
    /\ todo' = [todo EXCEPT ![w] = {}]
    /\ Goto(w, "idle") /\ lock' = ReleasedBy(w)
    /\ CloseSession(w)
    /\ UNCHANGED <<table, born, casts, sent, now>>

LockTimeout(w) ==
    /\ Waiting(w) /\ UNCHANGED faults
    /\ IF pc[w] = "clean" THEN Abandon(w) ELSE Rollback(w)

(* Any other error of the database, keystone, neutron, nova or taynac.     *)
Fail(w) ==
    /\ rid[w] # NoVal /\ faults < MaxFaults
    /\ faults' = faults + 1
    /\ Rollback(w)

(* The process dies, or the clean task fails.                              *)
Crash(w) ==
    /\ pc[w] # "idle" /\ faults < MaxFaults
    /\ faults' = faults + 1
    /\ Abandon(w)

-----------------------------------------------------------------------------
(* The rest of the world.                                                  *)

(* Notifications, the reconcile task and backfill-ports add a row for a    *)
(* port or rewrite the one it has; no row is ever deleted.                 *)
UsageChange(u) ==
    /\ u \notin usage
    /\ usage' = {v \in usage : v.port # u.port} \cup {u}
    /\ UNCHANGED <<risks, born, casts, lock, pc, session, todo, sent, now,
                   faults>>

Tick ==
    /\ now < MaxTime /\ now' = now + 1
    /\ UNCHANGED <<table, born, casts, lock, pc, session, todo, sent, faults>>

(* Nothing left to do: the service is waiting for requests.                *)
Quiet ==
    /\ \A w \in Workers : pc[w] = "idle"
    /\ UNCHANGED vars

(* One step of process_security_risk.                                      *)
Process(w) ==
    \/ LockRow(w) \/ SkipMissing(w)
    \/ MatchMany(w) \/ MatchOne(w) \/ MatchNone(w)
    \/ LookupNone(w) \/ LookupRecorded(w) \/ LookupUnrecorded(w)
    \/ InsertUsage(w) \/ InsertConflict(w) \/ Refresh(w) \/ RefreshGone(w)
    \/ Decide(w) \/ CommitKeep(w) \/ CommitMerge(w) \/ CommitStale(w)
    \/ Notify(w) \/ NotifySkip(w) \/ Send(w) \/ LockTimeout(w)

Next ==
    \/ \E i \in RiskIds, r \in Reports : Create(i, r)
    \/ \E i \in RiskIds : ApiDelete(i) \/ LoseCast(i)
    \/ \E w \in RpcWorkers, i \in RiskIds : StartCast(w, i)
    \/ \E w \in Periodics :
        \/ StartReprocess(w) \/ \E i \in RiskIds : ReprocessNext(w, i)
        \/ CleanRead(w) \/ CleanCommit(w)
    \/ \E w \in Workers : Process(w) \/ Fail(w) \/ Crash(w)
    \/ \E u \in UsageRows : UsageChange(u)
    \/ Tick \/ Quiet

Spec == Init /\ [][Next]_vars

-----------------------------------------------------------------------------
(* Fairness.  A thread that is processing goes on; each periodic task runs *)
(* again on its own schedule whatever the other tasks of the thread do     *)
(* (hence strong fairness); time passes.  No fairness for casts, requests, *)
(* failures or changes of the IP usage.                                    *)

Fairness ==
    /\ WF_vars(Tick)
    /\ \A w \in Workers : WF_vars(Process(w))
    /\ \A w \in Periodics :
        /\ SF_vars(StartReprocess(w))
        /\ WF_vars(\E i \in RiskIds : ReprocessNext(w, i))
        /\ WF_vars(CleanCommit(w))

LiveSpec == Spec /\ Fairness

-----------------------------------------------------------------------------
(* Types.                                                                  *)

Types == {r.type : r \in Reports}
IPs == {r.ip : r \in Reports}
Projects == {r.project : r \in Reports \cup UsageRows \cup Databases}
                \cup Blank
Resources == {r.resource : r \in Reports \cup UsageRows \cup Databases}
                \cup Blank
RTypes == {r.rtype : r \in Reports \cup UsageRows} \cup {"database"}

RowSet ==
    [status : {"NEW", "PROCESSED", "ERROR"}, type : Types, ip : IPs,
     notify : BOOLEAN, time : Times, first_seen : Times, expires : Times,
     project : Projects, resource : Resources, rtype : RTypes]

LoadedSet == [id : RiskIds, time : Times, expires : Times]

Steps == {"idle", "reprocess", "clean", "start", "match", "lookup", "insert",
          "refresh", "decide", "commit", "notify", "send"}

(* Every variable holds a value the code could have put there.             *)
TypeOK ==
    /\ risks \in [RiskIds -> RowSet \cup {NoVal}]
    /\ usage \subseteq UsageRows
    /\ born \in [RiskIds -> [report : Reports, at : Times] \cup {NoVal}]
    /\ casts \subseteq RiskIds
    /\ lock \in [RiskIds -> Workers \cup {NoVal}]
    /\ pc \in [Workers -> Steps]
    /\ rid \in [Workers -> RiskIds \cup {NoVal}]
    /\ row \in [Workers -> RowSet \cup {NoVal}]
    /\ wasNew \in [Workers -> BOOLEAN]
    /\ other \in [Workers -> UsageRows \cup LoadedSet \cup {NoVal}]
    /\ todo \in [Workers -> SUBSET RiskIds]
    /\ sent \in [RiskIds -> Nat]
    /\ now \in Times
    /\ faults \in 0..MaxFaults

ASSUME NoValAssumption ==
    /\ NoVal \notin RowSet /\ NoVal \notin LoadedSet /\ NoVal \notin UsageRows
    /\ NoVal \notin [report : Reports, at : Times]

-----------------------------------------------------------------------------
(* Safety.                                                                 *)

ResourceFirst(i) == born[i] # NoVal /\ born[i].report.ip = NoVal

Active(i) == Exists(i) /\ risks[i].status = "PROCESSED"

(* An exposure: a type of risk on a resource.                              *)
SameExposure(a, b) == a.type = b.type /\ a.resource = b.resource

(* A risk reported with its resource is notified at most once, however     *)
(* often it is delivered, reprocessed, merged into or retried: was_new,    *)
(* read under the row lock, lets one NEW -> PROCESSED transition notify.   *)
ResourceFirstNotifiedOnce ==
    \A i \in RiskIds : ResourceFirst(i) => sent[i] <= 1

(* The same of every risk: the row lock keeps two workers from processing  *)
(* one risk twice.                                                         *)
NotifiedOnce == \A i \in RiskIds : sent[i] <= 1

(* Attribution is all or nothing, and reaches the table only together with *)
(* a status: a NEW risk reported by IP is attributed to nobody.            *)
AttributionConsistent ==
    \A i \in RiskIds : Exists(i) =>
        /\ Given(risks[i].project) <=> Given(risks[i].resource)
        /\ risks[i].ip # NoVal /\ risks[i].status = "NEW" =>
                ~Given(risks[i].project)

(* An exposure is recorded by one processed risk: duplicates are merged.   *)
OneRiskPerExposure ==
    \A i, j \in RiskIds :
        Active(i) /\ Active(j) /\ Given(risks[i].project)
            /\ SameExposure(risks[i], risks[j]) => i = j

(* A message on its way was asked for.  If the risk was reported with its  *)
(* resource, the message goes to the project the risk still belongs to     *)
(* unless it is gone: the reload reads no owner that a later commit of a   *)
(* second processing takes back, but for the trove project, which such a   *)
(* processing may remap after the reload.                                  *)
NotifiesOwner ==
    \A w \in Workers : pc[w] = "send" =>
        /\ born[rid[w]].report.notify
        /\ ResourceFirst(rid[w]) /\ Exists(rid[w]) =>
            row[w].project \in {risks[rid[w]].project, TroveProject}

-----------------------------------------------------------------------------
(* Action properties.                                                      *)

CleanedBy(w, i) ==
    pc[w] = "clean" /\ pc'[w] = "idle" /\ Exists(i) /\ ~Exists(i)'

(* The clean task never deletes a risk that was not processed yet, nor one *)
(* that was stranded: the re-drive must see those first.                   *)
NewNeverCleaned ==
    [][\A w \in Periodics, i \in RiskIds :
        CleanedBy(w, i) => risks[i].status # "NEW"]_vars

MergedBy(w) ==
    /\ pc[w] = "commit" /\ pc'[w] # "commit" /\ other[w] # NoVal
    /\ Exists(rid[w]) /\ risks'[rid[w]] = NoVal

(* A column of the duplicate: what the merged risk said, or left alone by  *)
(* the merge because the search had seen it say the same.                  *)
Told(seen, said, value) == value = said \/ said = seen

(* A risk that is merged away leaves a processed risk of its type with its *)
(* time and expiry, unless it said just what that risk said at the search: *)
(* one on its resource, or one that a second processing has attributed     *)
(* anew since the search (by its IP, or to a trove database).  It speaks   *)
(* of risks on a resource, not of reports left with an empty string.       *)
MergeLeavesSurvivor ==
    [][\A w \in Workers : MergedBy(w) /\ Given(row[w].resource) =>
        \/ Untouched(row[w], other[w])
        \/ \E j \in RiskIds \ {rid[w]} :
            /\ Active(j)' /\ risks'[j].type = row[w].type
            /\ \/ risks'[j].resource = row[w].resource
               \/ risks'[j].ip # NoVal \/ risks'[j].rtype = "database"
            /\ Told(other[w].time, row[w].time, risks'[j].time)
            /\ Told(other[w].expires, row[w].expires, risks'[j].expires)]_vars

(* A merge is silent because the project already knows: a notification of  *)
(* the exposure was sent, or is just about to be.                          *)
SuppressedWasTold ==
    [][\A w \in Workers : MergedBy(w) /\ row[w].notify /\ wasNew[w] =>
        \/ \E i \in RiskIds : born[i] # NoVal /\ sent[i] > 0
            /\ SameExposure(born[i].report, row[w])
        \/ \E v \in Workers : pc[v] \in {"notify", "send"}
            /\ SameExposure(row[v], row[w])]_vars

-----------------------------------------------------------------------------
(* Liveness.                                                               *)

IsNew(i) == Exists(i) /\ risks[i].status = "NEW"

(* A risk does not stay NEW: whatever happens to its cast, the re-drive    *)
(* takes it to PROCESSED or ERROR, or it is deleted.                       *)
NewIsSettled == \A i \in RiskIds : IsNew(i) ~> ~IsNew(i)

(* The IP usage history has a row for the risk.                            *)
Known(i) == Exists(i) /\ \E u \in usage : Matches(risks[i], u)

(* A worker that had to record the IP's port first, and lost the row lock  *)
(* of the NEW risk doing so, leaves it not half done: if the history does  *)
(* not lose what it knows of the risk (the port moves to another address,  *)
(* its row is ended early), then in the end the risk is attributed, put    *)
(* aside as ambiguous, or gone.                                            *)
FallbackAttributes ==
    \A i \in RiskIds :
        [](Known(i) => [](Exists(i) => Known(i))) =>
            ((\E w \in Workers : pc[w] = "refresh" /\ rid[w] = i /\ wasNew[w])
                ~> (Exists(i) => Given(risks[i].project)
                                 \/ risks[i].status = "ERROR"))

-----------------------------------------------------------------------------
(* The abstract specification: the life of each risk, as its owner sees it. *)

StatusOf(i) ==
    IF born[i] = NoVal THEN "none"
    ELSE IF Exists(i) THEN risks[i].status ELSE "gone"

OwnerOf(i) == IF Exists(i) THEN risks[i].project ELSE NoVal

(* The messages about it that are being sent: to whom, by which worker.    *)
MailOf(i) ==
    [w \in Workers |->
        IF pc[w] = "send" /\ rid[w] = i THEN row[w].project ELSE NoVal]

Life(i) == INSTANCE RiskLifecycle
    WITH Senders <- Workers,
         status <- StatusOf(i), project <- OwnerOf(i),
         located <- ResourceFirst(i), mail <- MailOf(i), told <- sent[i]

(* However its processing is interleaved, repeated, abandoned or merged, a *)
(* risk lives the life of RiskLifecycle: once attributed it keeps an owner *)
(* and is not put aside, it is not NEW again, a message goes to who owned  *)
(* the settled risk when it was prepared, and of a risk reported with its  *)
(* resource only one is sent.                                              *)
(* This is \A i \in RiskIds : Life(i)!Spec, in the form TLC evaluates.     *)
LivesAsPromised ==
    /\ \A i \in RiskIds : Life(i)!Init
    /\ [][\A i \in RiskIds : [Life(i)!Next]_(Life(i)!vars)]_vars

-----------------------------------------------------------------------------
(* The inductive invariant: why the properties above hold.                 *)

InSession == {"match", "lookup", "insert", "refresh", "decide", "commit",
              "notify", "send"}

(* A row names a whole owner or none, and without an IP it names one.      *)
Whole(r) ==
    /\ Given(r.project) <=> Given(r.resource)
    /\ r.ip = NoVal => Given(r.resource)

TableOK ==
    \A i \in RiskIds : Exists(i) =>
        /\ born[i] # NoVal
        /\ risks[i].ip = born[i].report.ip
        /\ Whole(risks[i])
        /\ risks[i].ip # NoVal /\ IsNew(i) => ~Given(risks[i].project)

(* A loaded copy is of a risk that was created, by IP if it went through   *)
(* the match; a risk that was not NEW when loaded never is again.          *)
SessionOf(w) ==
    /\ pc[w] \in InSession =>
        /\ rid[w] \in RiskIds /\ row[w] \in RowSet
        /\ born[rid[w]] # NoVal
        /\ row[w].ip = born[rid[w]].report.ip
        /\ Whole(row[w])
        /\ row[w].status # "NEW" => ~IsNew(rid[w])
    /\ pc[w] \in {"match", "lookup", "insert", "refresh"} => row[w].ip # NoVal
    /\ pc[w] \in {"insert", "refresh"} => other[w] \in UsageRows
    /\ pc[w] = "commit" => other[w] \in LoadedSet \cup {NoVal}
    /\ pc[w] \notin {"insert", "refresh", "commit"} => other[w] = NoVal

SessionOK == \A w \in Workers : SessionOf(w)

(* The steps at which a worker may hold a row lock.                        *)
Locking == {"match", "lookup", "insert", "decide", "commit"}

(* A row lock is held from the locking read to the commit or rollback,     *)
(* except by a worker that inserted a usage row on the way; while it is    *)
(* held was_new tells the truth.                                           *)
LockOf(i) ==
    LET w == lock[i] IN
    w # NoVal =>
        /\ rid[w] = i /\ Exists(i)
        /\ pc[w] \in Locking
        /\ wasNew[w] => IsNew(i)

HolderOf(w) ==
    /\ pc[w] \in {"match", "lookup", "insert"} => lock[rid[w]] = w
    /\ pc[w] \in {"decide", "commit"} /\ row[w].ip = NoVal => lock[rid[w]] = w

LockOK ==
    /\ \A i \in RiskIds : LockOf(i)
    /\ \A w \in Workers : HolderOf(w)

Pending(w, i) == pc[w] \in {"notify", "send"} /\ rid[w] = i

(* Of a resource-first risk: while it is NEW nothing was sent, and at most *)
(* one worker is ever about to send.                                       *)
NotifyOf(i) ==
    /\ born[i] = NoVal => sent[i] = 0
    /\ ResourceFirst(i) =>
        /\ sent[i] \in {0, 1}
        /\ IsNew(i) => sent[i] = 0 /\ \A w \in Workers : ~Pending(w, i)
        /\ \A w \in Workers : Pending(w, i) =>
            sent[i] = 0 /\ \A v \in Workers : Pending(v, i) => v = w

NotifyOK == \A i \in RiskIds : NotifyOf(i)

(* What the clean task read is still not NEW when it deletes it.           *)
CleanOK ==
    \A w \in Workers : pc[w] = "clean" =>
        \A i \in todo[w] : born[i] # NoVal /\ ~IsNew(i)

(* Type correctness and the five facts that carry the safety properties.   *)
IInv == TypeOK /\ TableOK /\ SessionOK /\ LockOK /\ NotifyOK /\ CleanOK

(* On top of it, what the refinement rests on.  What a session believes of *)
(* the owner is so when it acts: a risk being matched has none, and one    *)
(* about to be recorded with no owner has none and is locked, so nobody    *)
(* can have given it one since; a risk being notified is not NEW, and a    *)
(* message has a project to go to.                                         *)
CopyOf(w) ==
    /\ pc[w] \in {"match", "lookup", "insert"} => ~Given(row[w].project)
    /\ pc[w] \in Locking /\ ~Given(row[w].project) =>
            lock[rid[w]] = w /\ risks[rid[w]].project = row[w].project
    /\ pc[w] \in {"notify", "send"} => ~IsNew(rid[w])
    /\ pc[w] = "send" => row[w].project # NoVal

CopyOK == \A w \in Workers : CopyOf(w)

=============================================================================
