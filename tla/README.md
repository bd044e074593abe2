# A TLA+ model of varroa

Varroa records which OpenStack resource owned an IP address when, and keeps the
security risks reported against those resources. This directory holds TLA+
modules that model its control flow, TLC configurations that check them on
small instances, and proofs checked by TLAPS. Paths below are relative to
`src/varroa/` unless they start with `src/`.

## The system

| component | state | operations | talks to |
|---|---|---|---|
| API (`api/v1`, `manager.py`) | none of its own: a request's token, and the rows it has loaded | create, list, show, delete a risk; create, show, list, rename, delete a risk type; list IP usage | reads and writes the risk and type tables, casts `process_security_risk` to the workers |
| policy and validation (`common/policies.py`, `common/utils.py`, `api/v1/schemas`) | none | who may do what, which reports are taken | called by the API |
| risk processing (`worker/manager.py:74-352`) | one database session per call: the loaded risk, `was_new`, the IP usage or duplicate it found | `process_security_risk` | risk table (`FOR UPDATE`), IP usage table, neutron (ports, networks), nova (trove metadata), taynac |
| periodic tasks (`worker/periodic.py`, `worker/manager.py:354-452`) | the list a task has read and not worked off | `clean_expired_risks`, `reprocess_new_risks`, `reconcile_open_ip_usages` | both tables, neutron; the re-drive calls `process_security_risk` |
| IP usage tracking (`notification/endpoints.py`, `cmd/manage.py`) | one database session per notification | port create, update and delete events, `backfill-ports` | IP usage table, neutron; a failed event is requeued |
| notification drivers (`worker/notifier.py`) | a cached client | `send` | taynac |
| plumbing (`common/`, `app.py`, `extensions.py`, `cmd/`, `metrics.py`, `migrations/`) | none that outlives a call | configuration, tokens, transports, process start | libraries |

Two tables carry everything: `security_risk` (`models.py:80-132`) and `ip_usage`
(`models.py:26-57`, one row per port, rows never deleted); `security_risk_type`
names the kinds of risks and is referred to by every risk. Every worker process
runs RPC threads and one periodic thread over one shared `Manager`
(`cmd/worker.py:40-48`), so each task runs once per process and they overlap
with each other and with the casts.

What is hard about it:

* **The lock that is not kept.** `process_security_risk` takes the risk's row
  with `FOR UPDATE`, but recording a new IP usage commits in the middle
  (`worker/manager.py:350`), which releases the lock while the worker goes on.
* **Search, then write.** The duplicate search (166), the clean list (361), the
  list of stranded risks (446) and the IP usage lookups are read first and acted
  on later; other workers commit in between.
* **At-most-once and at-least-once together.** A cast can be lost or delivered
  twice; the re-drive runs in parallel with both; the notification is sent after
  the commit and never retried.
* **neutron moves on.** A port event says only which port it is about; the
  handler asks neutron what it is now, writes a little later, and the listener's
  threads handle other events meanwhile, in any order, some again, some never.
* **Authorised once, committed later.** A request authorises what it has loaded,
  then commits; other requests and the workers commit in between, and the database
  alone notices a name taken, a type used or a row gone.
* **A listing is several requests.** Pages are cut by offset from a table that
  changes between them.
* **Two rows at once.** A merge locks its own risk and the duplicate, the clean
  task locks many: waits, timeouts and deadlock victims.

What makes each component correct: a risk does not stay `NEW`; it is attributed
to a whole owner or none; an exposure (type and resource) has one processed risk
and its project is told once; what expired and was processed goes, nothing else
does; a merged report is not lost. What the API stores names a whole owner or none,
a client told of a risk can count on its processing, and a caller is listed what it
could be shown. The IP usage table has one open row per
address, says what neutron says once events are handled, and keeps no open row
of a deleted port for ever.

## Modules

| module | models |
|---|---|
| `RiskLifecycle` | the life of one risk as its owner sees it: the abstract specification |
| `RiskProcessing` | creation, casts, `process_security_risk`, the re-drive, the clean task, deletion, and the IP usage table as its environment |
| `MCRiskProcessing` | small instances of it |
| `RiskProcessing_proofs` | its invariant, and the theorems that follow from it alone |
| `RiskLifecycle_proofs` | `RiskProcessing` implements `RiskLifecycle` |
| `RiskReports_proofs` | who is notified, and when only once; one risk per exposure when risks are processed one at a time |
| `RiskMerge_proofs` | what a merged report said is kept |
| `IPUsageTracking` | the IP usage table: port events, the reconcile task, `backfill-ports` and the fallback as its writers, and neutron as their environment |
| `MCIPUsageTracking` | small instances of it |
| `IPUsageTracking_proofs` | its invariant, and what the reconcile task ends |
| `IPUsageOwners_proofs` | who owns an address: one open row when notifications are handled one at a time; what a single consumer achieves |
| `ApiPolicy` | the policy rules, the scope of listings, the validation of reports: operators, no state |
| `RiskApi` | the requests that read or write types and risks, commit by commit, with the workers as their environment |
| `RiskListing` | `RiskApi` with clients that follow a listing page by page |
| `MCRiskListing` | a small instance of both |
| `RiskApi_proofs` | theorems about `RiskApi` |
| `RiskListing_proofs` | theorems about `RiskListing`, and about `RiskApi` while listings go on |

`RiskProcessing` and `IPUsageTracking` meet in the IP usage table. `RiskProcessing`
sees it as an environment that does anything to one row at a time (`UsageChange`),
which covers whatever `IPUsageTracking` does to it, also the reconcile task's many
rows in one commit, as more states in between only allow more. `IPUsageTracking` sees
risk processing as one of the `Recorders`. `RiskApi` and `RiskProcessing` meet in the
risk table: each sees the other as steps that may happen at any time (`WorkerStep`
there, `Create` and `ApiDelete` here), and what `RiskProcessing` assumes of the owners
its reports name (`ReportsAssumption`) is what `RiskApi` shows of the risks it stores
(`StoredReports`).

### RiskProcessing

State. `risks` and `usage` are the two tables. `casts` is the queue of
`process_security_risk` messages. Per worker (an RPC thread or a periodic
thread) `pc` is the step it takes next, and `rid`, `row`, `wasNew` and `other`
are its session: the id, the loaded risk with the attributes set on it, `was_new`,
and the second object it holds (the `IPUsage` it adds, later the duplicate it
found). `todo` is the list a periodic task has read. `lock` is InnoDB's row lock
per risk. `born` and `sent` are history: the report a risk was created from and
when, and the messages sent for it. `last_seen` is left out, as it is only ever
written together with `time` and with the same value.

Steps. An action is what the database sees at once.

| step of a worker (`pc`) | code |
|---|---|
| `start`: LockRow, SkipMissing | `worker/manager.py:90-113` |
| `match`: MatchMany, MatchOne, MatchNone | 113-155 |
| `lookup`: LookupNone, LookupRecorded, LookupUnrecorded | 282-348 |
| `insert`: InsertUsage, InsertConflict | 349-350, the commit in the middle |
| `refresh`: Refresh, RefreshGone | 142-155 once the commit has expired the session |
| `decide`: Decide | 157-195: remap, search for a duplicate |
| `commit`: CommitKeep, CommitMerge, CommitStale | 197 with its flush |
| `notify`: Notify, NotifySkip | 199-209, the reload after the commit |
| `send`: Send | 211, `worker/notifier.py:67-86` |

Any exception ends in `Rollback` (78-86). `LockTimeout` ends a wait for a row
lock; `Fail` is any other error, `Crash` the death of the process.

Why this grain is right:

* A flush with its commit is one step: rows written but not committed are locked
  and invisible to the others. The autoflush of the duplicate search sends the
  UPDATE of the worker's own row a little before the commit; it is part of the
  commit step for the same reason, and its wait for the row lock and its failure
  on a vanished row (`StaleDataError`) are too.
* The consistent reads of one transaction (the match, the port lookup, the
  duplicate search) are separate steps, as with READ COMMITTED. With REPEATABLE
  READ, InnoDB's default, they see the snapshot of the first; they change
  nothing the others see, so such a run is the one in which they follow each
  other directly.
* An UPDATE writes the columns that changed since they were loaded. For the
  duplicate this matters (its row is not locked when it is read) and is
  modelled column by column. For the worker's own row it does not: either the
  row lock was held since the load, or the owner was set on an expired object,
  and SQLAlchemy then writes it whatever it was.

* The reload before a notification and the message are two steps. The message is
  rendered from what was reloaded, and goes to the project read then; until it is
  sent the risk may be deleted, cleaned, merged or given another owner.

Environment. `UsageChange` lets any row of `UsageRows` appear or replace the row
of its port at any time: port notifications, the reconcile task, `backfill-ports`
and the fallback of other workers. neutron and trove metadata answer anything
(`LookupNone`, `Candidates`, `Remapped`).

Assumptions on the constants: a report has a complete resource and no IP, or an IP
and no resource, each column of which is then NULL or an empty string. This is what
`_validate_report_mode` lets through (`api/v1/schemas/security_risk.py:77-95`): it asks
for values that are true, and what it does not ask for is stored as it came. `Given`
is that test, where the worker's own tests are for NULL alone. A usage row names a port,
an address, a project and an instance, as neutron does of a compute port; trove metadata
names no blank project or database (`worker/manager.py:261` tests it).

Empty strings are where the two tests part. A report by IP with `resource_id: ""` is
never matched with the IP history (`worker/manager.py:113` asks for NULL) and is recorded
without an owner. With `project_id: ""` and no match it counts as having a project in the
duplicate search and in `_notify` (168, 206): two such risks of different addresses are
merged, and a message is prepared for a project without a name. The model has all
of this; `OneRiskPerExposure` and `MergeLeavesSurvivor` speak of risks on a
resource and leave it out.

Properties.

| property | says |
|---|---|
| `TypeOK` | types |
| `ResourceFirstNotifiedOnce` | a risk reported with its resource is notified at most once |
| `AttributionConsistent` | owner and resource are given together (NULL and empty are neither), and never to a NEW risk reported by IP |
| `NotifiesOwner` | a message on its way was asked for; of a risk reported with its resource and still on record, it goes to the project the risk belongs to, unless that was the trove project at the reload |
| `NewNeverCleaned` | the clean task never deletes a NEW risk, however old its list |
| `MergeLeavesSurvivor` | what a merged report on a resource said is in the risk it was merged into, unless both said the same at the search |
| `OneRiskPerExposure` | while risks are processed one at a time, one processed risk per exposure with an owner |
| `NotifiedOnce` | while each risk is processed by one worker at a time, no risk is notified twice |
| `LivesAsPromised` | each risk lives the life `RiskLifecycle` describes |
| `NewIsSettled` | every NEW risk is processed, put aside, merged or deleted |
| `FallbackAttributes` | a risk that lost its row lock in the fallback is not left half done, as long as the IP history keeps what it knows of the risk |
| `IInv`, `CopyOK` | the inductive invariants of the proofs |

`NotifiesOwner` is not true of risks reported by IP: after the commit in the middle
two workers may attribute one risk to different owners, and the one that reloads first
has its message sent to the owner the other replaces. For `FallbackAttributes` the
premise matters: if the first processing fails after that commit and the port then moves
to another address (`notification/endpoints.py:250`) or its row ends before the risk's
time, the re-drive finds nothing and records the risk without an owner. `attribution` has
such a row, and the property fails there without the premise.

### RiskLifecycle

The abstract specification: one risk, with its `status`, the `project` that owns it,
whether it was reported with its resource (`located`), the messages being sent about it
(`mail`: to whom, by which sender) and how many were sent (`told`). It is reported,
settled (processed, perhaps attributed), put aside and removed, each in one step; a message
is prepared, then delivered or dropped. What it promises: a risk does not come back to
`NEW`; once it has an owner it always has one and is not put aside; a message goes to
who owned the settled risk when it was prepared, and of a located risk one is delivered
at most.

`Life(i)` in `RiskProcessing` is the refinement mapping, for each risk `i`: `StatusOf`
(`"none"` if never created, `"gone"` if no longer in the table, else the row's
status), `OwnerOf`, `ResourceFirst`, `MailOf(i)` (the project a worker at `send` has
read), `sent[i]`. Everything that makes processing hard,
sessions, locks, merges, redelivery, crashes, is invisible at this level: it must
come out as a step of `RiskLifecycle` or as none. `LivesAsPromised` is this for all
risks at once: `\A i : Life(i)!Spec`, in the form TLC takes as a property.

### ApiPolicy, RiskApi and RiskListing

`ApiPolicy` is what the API decides without the database: the rules of
`common/policies.py`, the scope of a listing (`api/v1/resources/security_risk.py`,
`ip_usage.py`), and which reports are taken (`ReportMode`, `IsPrivateIP`). Rules are
modelled as oslo.policy enforces them: a rule's `scope_types` are system and project,
so a domain token fails every one; a token without any scope passes for a project
token with neither project nor roles; `is_admin:1` never holds of a keystone token. An
address is what the tests of `utils.is_private_ip` say of it. `ReportMode` takes a resource
field for given if it is true in Python, as the schema does: an empty string is left out, and
stored.

`RiskApi`. State: `types` and `risks` are the tables, `cast` the ids whose processing
was cast, `req` the request of each client. A step is what the database sees at once.
A request's reads are one step, as they share the snapshot of the first (REPEATABLE
READ), a commit is another.

| request | steps | code |
|---|---|---|
| create a type | CreateType | `api/v1/resources/security_risk_type.py` |
| show a type | ShowType | |
| rename a type | PatchType, then PatchCommit | |
| delete a type | DeleteType (with the search for its risks), then DropType | with `manager.py:38-49` |
| create a risk | CreateRisk (validation, type, address), InsertRisk, CastRisk | `api/v1/resources/security_risk.py`, `manager.py:28-32` |
| show a risk | ShowRisk | |
| delete a risk | DeleteRisk, then RemoveRisk | with `manager.py:34-36` |

`Fail` ends any request that is under way. The database is there with what it
alone enforces: the unique name, the foreign key from risk to type (`DropAllowed`,
`InsertRisk`), an UPDATE of a row that is gone (an error) and a DELETE of one (none). A
commit expires what the session loaded; the id of a new risk, and a type for the
answer, are read again, so that a row removed in between turns a success into a 500.

`RiskListing` adds `walk`, the listing a client follows: a page is cut by offset from
the rows that match then, and its `next` link leads to the following one; a page
after the first without rows is a 404. The query has no ORDER BY; the model takes the
rows in the order of their ids, as InnoDB returns them for this query.

Assumptions on the constants: tokens are as keystone issues them (a project token names
a project, which is not blank, a token without scope no roles).

| property | says |
|---|---|
| `References` | every risk is of a type that exists, no two types share a name, whatever requests cross |
| `CreatedIsCast` | a client told of a new risk can count on its processing having been cast |
| `WritesByAdmin` | types are renamed and deleted, and risks recorded, only in the course of an administrator's request about them |
| `ListingAgrees` | for a reader, the risks that can be listed are those that can be shown, and IP usage is listed for the same projects |
| `WalkFaithful` | a listing repeats a row only if one came, is cut off by a 404 only if one left, and misses none there was at its start unless one left |
| `ListsOwnRows` | whoever may not list all projects is listed rows of its own, by their owner at that moment |
| `IInv` | the inductive invariant, with `StoredReports`: what is stored was reported by a public address or on a resource, and names a whole owner or none |

### IPUsageTracking

State. `ports` and `gone` are neutron: the ports created and the ids of those
deleted. A port has at most one public address and one instance here, which is
what the handlers look for (the first public address of a port on an external
network, owned by `compute:`); a port without either is one they ignore. `rows` is
the table, a row per port id. `events` is the set of notifications queued: handled
in any order, by any of the listener's threads (`executor="threading"`, several
processes), again if the handler fails, and lost if `Lossy`. Per worker, `pc` is its
next step; `event`, `target` and `seen` are the notification and the port as read from
neutron; `open` the rows still to be closed (a handler) or asked about (the
reconcile task), `absent` the ids neutron did not list, `own` the loaded row.

| step | code |
|---|---|
| IgnorePort, ReadPort | `notification/endpoints.py:134-189` |
| `dupes`: FindDupes | 191-199 |
| `close`: CloseDupe, one commit per row | 201-208 |
| `close`, none left: LookupOwn | 210-215 |
| `insert`: Insert, InsertConflict | 216-241 |
| `update`: Update | 243-256 |
| HandleEnd | 107-130 |
| RecordRead, RecordInsert | `cmd/manage.py:42-106`, `worker/manager.py:282-352` |
| ReconcileRead, ReconcileList (per batch), ReconcileEnd | `worker/manager.py:376-421` |

`Fail` is an exception, which requeues the notification (`sample`, 93-103), or a
process that dies. `Handled` lets a notification that was handled be delivered
again. What was committed stays.

An UPDATE writes the columns that differ from the row as it was loaded
(`Written`): clearing an end that was not set when the row was loaded writes
nothing, so an end set in between survives; clearing one that was set undoes it.
Loading a row and writing it are steps of their own for this reason. `HandleEnd`
needs no such split: it writes one column, so it is as if it had done so when it
loaded the row. With REPEATABLE READ the two reads of a handler (FindDupes,
LookupOwn) see one snapshot: such a run is the one in which they follow each
other directly, and the counterexamples below remain with the other thread's
commit moved before the first read. A time is a second; `created_at` has no
finer one.

| property | says |
|---|---|
| `TypeOK` | types; a row has a public address and an instance |
| `TracksPorts` | once all events are handled, the open rows are the live ports with their addresses and instances |
| `OneOpenRow` | an address has one open row |
| `PeriodsDisjoint` | nor did two rows claim it for the same time, but for the second it changed hands |
| `ReconcileEndsOnlyGone` | the reconcile task ends no row of a port that exists |
| `GoneIsClosed` | the row of a deleted port is in the end closed for good |
| `GoneStaysClosed` | the closed row of a deleted port is not opened again |
| `IInv` | the inductive invariant of the proofs |

## Runs

| run | instance | shows |
|---|---|---|
| `dedupe` | 2 resource-first risks of one exposure, a trove database in the metadata, 2 RPC workers, 1 periodic thread, clock 0..2, 1 fault | IInv, ResourceFirstNotifiedOnce, NotifiesOwner, NewNeverCleaned, MergeLeavesSurvivor, LivesAsPromised |
| `attribution` | 1 risk by IP, its resource columns NULL or empty strings, 2 RPC workers, 1 periodic thread, 3 usage rows on 2 ports, one of them moved to another address, clock 0..1, 1 fault, under `LiveSpec` | TypeOK, AttributionConsistent, CopyOK, LivesAsPromised, FallbackAttributes, NewIsSettled |
| `serial` | 3 risks by IP (with an empty project) or resource, 1 RPC worker, 1 trove port and database | OneRiskPerExposure, NotifiedOnce |
| `tracking` | 2 ports and 2 addresses that move between them, 1 consumer, 1 fault | TypeOK, TracksPorts, OneOpenRow |
| `history` | 2 ports that keep 1 address while they live, 1 consumer, clock 0..2, lost events, 1 fault | PeriodsDisjoint |
| `reconcile` | 2 ports, 2 addresses, 1 consumer, 1 reconciler in batches of 1, 1 recorder, lost events | IInv, ReconcileEndsOnlyGone |
| `reconcile_live` | 1 port, 2 consumers, 1 reconciler, 1 recorder, lost events, 1 fault | GoneIsClosed |
| `api` | 2 clients that hold an administrator's, a reader's and a domain token, 2 types, 2 names, 2 risks, 7 bodies, pages of 1 row | IInv, References, CreatedIsCast, ListingAgrees, WritesByAdmin, WalkFaithful, ListsOwnRows |

`TracksPorts`, `OneOpenRow` and `PeriodsDisjoint` hold of what one consumer thread
does, in any order of events, and are proved of it below. With two they do not: a
port read by one and deleted while the other handles its end leaves an open row
(`reopened` shows a sharper form of it). Nor does `PeriodsDisjoint` with ports that
change their address, as a row keeps its port's creation as its start, or with a
reconcile, which dates a missed deletion when it is noticed. `tracking` has no
reconciler to keep it small; with one it passes too (2.4 million states), and
`OneConsumerTracks` shows it for any number of them.

Four runs end in a counterexample: what a comment, a test or the documentation
says of the program and the code does not do.

| run | violated | how |
|---|---|---|
| `double_notify` | NotifiedOnce | the mid-way commit drops the row lock; a redelivered cast finds the risk NEW; both notify |
| `concurrent_duplicates` | OneRiskPerExposure | two workers search before either commits |
| `silent_merge` | SuppressedWasTold | the first notification is lost after the commit; later duplicates stay silent |
| `reopened` | GoneStaysClosed | an update handled across the deletion clears the end just set |

Bounds. `RiskIds`, `RpcWorkers`, `Periodics`: the hazards need two risks of one exposure
and two threads on one of them; a third risk is there where the order of merges matters
(`serial`). `MaxTime` 2 (`dedupe`) lets a risk be created, expire, and be listed by both
tasks at different times; 1 is enough where only the re-drive matters (`attribution`), or
merges (`serial`). `MaxFaults` 1 is one redelivery, failure or crash: every hazard above
needs at most one, and the theorems hold for any number. `Interval` is 0: a risk is
re-driven as soon as the clock has moved on, the hardest case, as the re-drive then runs
into the cast. No run disables the deadlock check: a quiet service stutters (`Quiet`), so
a deadlock would be a worker that cannot go on.

For `RiskApi` and `RiskListing`: two clients are what a search and a commit can be
separated by, two types and two names what can collide, and one type alone is used by
the bodies so that it can be in use while the other comes and goes. With pages of one
row, two risks make a listing of two pages, whose second may be missed, repeated or
not found. The bodies are one of each kind the validation tells apart, valid or not, with
fields left out or empty.
`ListingAgrees` is about every token of `AllTokens` (seven: of each scope, with and
without the roles the rules ask for), also those no client of the run holds. Names are
symmetric; ids are not, as listings order them.

For `IPUsageTracking`: two ports are what an address can change hands between, and
what two batches of one need; two consumers, or one and a recorder, what a row can
be fought over by. `Moving` tells whether a port may change its address: it is off
in `history` because the property is false otherwise, and in `reconcile`
to keep it small, as the reconcile task does not look at addresses. The clock
stands still where no property looks at times. `MaxFaults` 0 in `reconcile` is
enough for a property of a reconcile that does not fail.

The API runs without fairness: nothing is promised to happen in the end.

Fairness of `RiskProcessing` (`LiveSpec`, which `attribution` runs under; it uses no
symmetry, which liveness does not allow). A thread that is processing goes on
(weak fairness of `Process`, which includes the end of a lock wait); time passes; a periodic task
runs again on its own schedule, `futurist` calls each one every interval
(`worker/periodic.py:59-82`), even though the thread is busy with the others in
between: strong fairness of the start of the re-drive. Nothing is assumed of
casts, requests, or changes of the IP usage. In `IPUsageTracking`, a consumer that
has a notification goes on, a recorder finishes what it read, and the reconcile
task is called every `reconcile_interval`. Faults are bounded: an error that
never ends keeps a risk NEW, as it does in the code.

## Proofs

`RiskProcessing_proofs` proves, for every number of risks, workers, usage rows,
faults and every bound of the clock:

* `Invariance`: `Spec => []IInv`;
* `TypeCorrect`: `Spec => []TypeOK`;
* `NotifiedAtMostOnce`: `Spec => []ResourceFirstNotifiedOnce`;
* `WholeAttribution`: `Spec => []AttributionConsistent`;
* `NewRisksSurviveCleaning`: `Spec => NewNeverCleaned`.

The argument. None of these is inductive: that a resource-first risk is notified
once depends on who holds its row lock, on what that worker's session says, and on
who is about to send. `IInv` makes this explicit: `TableOK` (rows are whole and
keep their IP), `SessionOK` (a session agrees with the table; a risk that was not
NEW when loaded never is again), `LockOK` (the lock is held from the locking read
to the commit unless the risk was reported by IP and the worker inserted a usage
row; while it is held `was_new` tells the truth), `NotifyOK` (while a
resource-first risk is NEW nothing was sent and nobody is about to; afterwards
one message at most was sent or is pending) and `CleanOK` (nothing on a clean list
is NEW). The key lemma is `NeverNewAgain`: no step takes a risk back to NEW.
Each part is one lemma (`TypeStep`, `TableStep`, `SessionStep`, `LockStep`,
`NotifyStep`, `CleanStep`), with one step per action.

`RiskLifecycle_proofs` proves the refinement:

* `CopiesHold`: `Spec => []CopyOK`;
* `Implements`: `Spec => Life(i)!Spec` for every risk `i`;
* `LivesSo`: `Spec => LivesAsPromised`.

That every step comes out as one of `RiskLifecycle` needs more than `IInv`: a worker about
to put a risk aside, or to record it without an owner, must be right that it has none,
though it loaded the risk long ago. `CopyOK` says what a session believes of the owner is
so when it acts on it: from the locking read through the match the risk has no owner; a
worker that comes to `decide` or `commit` without one still holds the row lock; one about
to notify does so for a risk that is not NEW, and a message has a project to go to. That a
lock holder's row does not change is `LockKept`. A worker that lost its lock in the
fallback is covered because it has attributed the risk by then.

`RiskReports_proofs`:

* `OwnersAreNotified`: `Spec => []NotifiesOwner`. That the message was asked for is from
  `ReportOK`: the table and the sessions keep the type and the wish to be notified of the
  report a risk was created from. That it goes to the owner is from `OwnersOK`: a worker
  about to decide on a risk reported with its resource has its owner in its session, and
  one about to commit replaces none but the trove project. So no commit after the reload
  takes the owner back (`OwnerMoves`);
* `SerialProcessing`: `Spec /\ []Serially => []OneRiskPerExposure`. `Serially` says that
  at most one session is past its locking read at a time. The run `serial` is the
  instance with one worker, `concurrent_duplicates` shows that the hypothesis is
  needed. `SoleOK`: a worker about to keep its risk found no other of its exposure,
  and there is still none;
* `UndividedNotifiesOnce`: `Spec /\ []KeptApart => []NotifiedOnce`, for risks reported by
  IP too. `KeptApart`: no two workers are between the locking read and the commit of one
  risk. `OnceOK` is `NotifyOK` for every risk, with what the lock gives there put as
  `TruthOf`: a session that loaded the risk NEW is right until its commit, or the risk is
  gone (`NewUntil`);
* `LockNotifiesOnce`: `Spec /\ [][\A w \in Workers : ~InsertUsage(w)]_vars => []NotifiedOnce`.
  The row lock gives `KeptApart` as long as no worker commits a new IP usage in the
  middle (`LockEnds`). So that commit is the one way to the second message
  `double_notify` finds; redelivery, the re-drive, failures and crashes do not add another.

`RiskMerge_proofs` proves `MergesAreKept`: `Spec => MergeLeavesSurvivor`. A worker's
search and its commit are two steps, and the duplicate it found may be remapped, merged or
deleted in between. For a risk on a resource, `MergeOK` says that until it is gone, and
then the merge fails, it is a processed risk with an owner, of the type searched for, and
on the resource searched for unless a second processing attributed it anew. `SettledStays`
is the lemma behind it: no step of another worker undoes that.

`IPUsageTracking_proofs` proves, for every number of ports, addresses, threads,
faults and every batch size: `Invariance`, `TypeCorrect`, and
`LivePortsKeepTheirRows`: `Spec => ReconcileEndsOnlyGone`. What the reconcile task
ends was read from two sources at different times, the table and neutron. That
every id it holds as absent is that of a deleted port needs `TableOK` (a row is that
of a port that was once created, so a port neutron does not list is a deleted one,
not one yet to come) and `SessionOK` (what a session read is still so), and both
rest on `Monotone`: created ports, deleted ports and rows do not go away. The
same invariant gives that a handler always has a port to track and, when it
updates, a row to update.

`IPUsageOwners_proofs` proves `SerialHandling`: `Spec /\ []Serially => []OneOpenRow`. Here
`Serially` says that one handler at most is past its first read and that no recorder
is about to insert; deletions, the reconcile task, failures and repeated delivery are
unrestricted, and so are moving addresses. `OwnersOK`: past its search a handler still
has on its list every other open row on its address, and when it writes there is none.

The other three are about a single consumer thread (`SoleConsumer`) and a table that no
fallback or backfill writes (`Recorders = {}`), for any number of ports, addresses,
instances and faults:

* `OneConsumerTracks`: `Spec => []TracksPorts`, if no notification is lost; ports may
  move and reconciles run;
* `OneConsumerOwns`: `Spec => []OneOpenRow`, also with losses;
* `OneConsumerHistory`: `Spec => []PeriodsDisjoint`, if ports keep their address and no
  reconcile runs (`StaysPut`); notifications may be lost.

The hypotheses are what the properties need. A recorder may open the row of a port
after its deletion was handled, and does not close other rows on the address. Two
consumers may undo each other (`reopened`). What is lost is what the reconcile task is
for, and it dates what it ends by its own clock, perhaps long after the address has gone
to the next port. A port that changes its address takes its row, start included, along.

`TracksPorts` speaks of a table at rest, so the invariant must say what is still on its
way there. `TrackOK`: the row of a live port is right and nobody handles the port
(`UpToDate`), or somebody who read it as it is now does, or a notification about it is
queued (`LiveOf`); the row of a deleted port is closed, or its deletion is queued
(`GoneOf`). A handler also closes rows of other ports, in whatever order the
notifications come, and `HandlerOf` is why it never spoils one: a live port that got the
address since the handler read it has a notification queued, which will open its row again.
The steps of the consumer are split in `QueueStep`, `SearchStep` and `ReturnStep`, those of
neutron are `NeutronStep`, those of all others `OtherStep`.

`PeriodOK` puts the ports of an address in order. Of any two, one was deleted before the
other was created (`Before`). While the row of the earlier is open, the later has no row,
and whoever handles it still has the earlier one to close. The earlier row ends with its
port or a second before the creation of another port, the one whose handler closed
it. If that was a third port, younger than both, the end may come after the creation of the
later of the two; but then the later one is gone, has no row and gets none. `InTurnDisjoint`
draws the conclusion.

`RiskApi_proofs` proves, for every number of clients, tokens, types, risks and bodies:
`Invariance`, `TypeCorrect`, `TablesRefer` (`References`), `ToldOfIsCast`
(`CreatedIsCast`), `AdministratorsWrite` (`WritesByAdmin`) and `ShownIsListed`
(`ListingAgrees`). `IInv` adds `RequestsOK` to the properties: a request under way is by
an administrator, and a report to be inserted was validated. `References` and
`CreatedIsCast` are then kept by each commit because the database checks again what the
request had read before. `ShownIsListed` needs no invariant: it is about the
rules, for every token and every project a risk may belong to.

`RiskListing_proofs` proves of `ListSpec`, the API with listings: `ListingInvariance`
(`IInv`), `ListingKeepsTables` (`References` and `CreatedIsCast`), `ListingWritesNothing`
(`WritesByAdmin`), `ListingFaithful` (`WalkFaithful`) and `ListingOwn` (`ListsOwnRows`). Pages
are cut by the rank of a row among those that match, which is a cardinality, so the
module first proves what ranks do: they grow with the set (`RankGrows`) and leave no gap
(`NextRank`, from the existence of a least and a greatest element). That there are
finitely many rows is not assumed but part of the invariant: a step records at most one
(`RecordedStep`). `WalkOK` then says, for a client
whose pages so far span the first `k` places: unless a row came, what it saw and is
still there is among the first `k`; unless one left, there is a row after them and what it
has not seen of the first page's time is yet to come. `WatchStep` is the hard part: a row
that comes or leaves moves all after it, and it is the one bit of history about the move
(`came`, `left`) that says which half still holds.

The proofs assume what the modules' ASSUMEs state: the report modes (with NULL or empty
columns in a report by IP), complete usage rows, worker sets without common members,
tokens as keystone issues them, and a NULL that is no other value.

The strengthened invariants were given to TLC before they were proved: `TrackOK` with 2
ports, a consumer and a reconciler, `PeriodOK` with 3 ports, `WalkOK` on the instance of
`api`, `OnceOK` on those of `dedupe` and `double_notify` as far as `KeptApart` holds.

Every safety invariant and every action property that a passing run checks is thus
stated by a theorem. Only model-checked are the liveness properties
`FallbackAttributes`, `NewIsSettled` and `GoneIsClosed`: liveness under fairness is
outside what TLAPS proves. The four counterexamples are TLC's.

## Not modelled

* Messages: their text (templates) and delivery by taynac. Whom a message goes to, and
  that it is handed to the notifier, are modelled.
* The listing of types, which is neither scoped nor different from the listing of risks,
  and the filters by resource, which select as the filter by type does.
* The text of requests and answers: names' lengths, date formats, the schemas' unknown
  fields. What a report combines is modelled.
* Keystone, clients, RPC transports and configuration (`common/`, `extensions.py`,
  `app.py`), process start and graceful shutdown (`cmd/`; a shutdown that cuts a task
  short is covered by `Crash`), the gauge (`metrics.py`) and `migrations/`: no state that
  a property of this kind relates.
* The gap locks InnoDB takes for a row that is not there: nothing inserts an id twice.
* Ports with several public addresses, which the fallback and the handlers record
  differently.

## Plan

Done: `RiskProcessing`, `IPUsageTracking`, `ApiPolicy`, `RiskApi` and `RiskListing` with
their runs and invariants; `RiskLifecycle` with the refinement, by TLC and by TLAPS;
proofs of every safety invariant and action property the runs check.

Left: what the rest of the code may rely on when components meet (what
`IPUsageTracking` does to a row as `RiskProcessing` allows it, as a theorem); several
public addresses per port; risks and IP usage in one specification, to follow an
address from its port to the message its owner gets.
