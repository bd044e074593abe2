--------------------------- MODULE IPUsageTracking ---------------------------
(***************************************************************************)
(* Who owned an IP address, and when: the ip_usage table, one row per      *)
(* neutron port, kept up to date by port notifications, by the reconcile   *)
(* task, by backfill-ports and by the fallback of risk processing.         *)
(*                                                                         *)
(* neutron goes on changing while a notification is queued and while it    *)
(* is handled: every read of neutron or of the table is a step of its own, *)
(* and so is every commit.                                                 *)
(***************************************************************************)
EXTENDS Integers, FiniteSets

CONSTANTS
    Ports,          \* port ids, each used for at most one port
    IPs,            \* public addresses on external networks
    Devices,        \* instances a port may be attached to
    Consumers,      \* threads of the notification listeners
    Reconcilers,    \* periodic threads
    Recorders,      \* risk processing and backfill-ports, recording a port
    Batch,          \* PORT_ID_QUERY_BATCH
    MaxTime,        \* bound on the clock
    MaxFaults,      \* bound on failed or twice delivered operations
    Lossy,          \* whether notifications may be lost
    Moving,         \* whether a port may change its address
    NoVal           \* NULL

Workers == Consumers \cup Reconcilers \cup Recorders
Times == 0..MaxTime
Ends == -1..MaxTime

ASSUME ConstantsAssumption ==
    /\ Consumers \cap Reconcilers = {} /\ Consumers \cap Recorders = {}
    /\ Reconcilers \cap Recorders = {}
    /\ Batch \in Nat \ {0} /\ MaxTime \in Nat /\ MaxFaults \in Nat
    /\ Lossy \in BOOLEAN /\ Moving \in BOOLEAN
    /\ NoVal \notin IPs \cup Devices \cup Ports \cup Ends

(* A port as get_port_by_id shows it: the first public address among its   *)
(* fixed IPs and the instance it is attached to, if there are such.        *)
PortSet == [ip : IPs \cup {NoVal}, device : Devices \cup {NoVal},
            created : Times]
RowSet == [ip : IPs, device : Devices, start : Times,
           end : Ends \cup {NoVal}]
EventSet == [kind : {"port.create.end", "port.update.end"}, port : Ports]
                \cup [kind : {"port.delete.end"}, port : Ports, at : Times]

ASSUME NoValAssumption ==
    NoVal \notin PortSet /\ NoVal \notin RowSet /\ NoVal \notin EventSet

VARIABLES
    ports,      \* neutron: id -> port, or NoVal if never created
    gone,       \* neutron: ids of deleted ports
    rows,       \* the ip_usage table: port id -> row or NoVal
    events,     \* notifications queued
    pc,         \* worker -> the step it is about to take
    event,      \* consumer -> the notification it handles, or NoVal
    target,     \* worker -> id of the port it read from neutron, or NoVal
    seen,       \* worker -> that port as it was then, or NoVal
    open,       \* worker -> port ids of open rows still to close or to ask for
    absent,     \* reconciler -> port ids neutron did not list
    own,        \* consumer -> its copy of the port's row, or NoVal
    now,        \* the clock
    faults      \* faults so far

neutron == <<ports, gone>>
session == <<pc, event, target, seen, open, absent, own>>
vars == <<neutron, rows, events, session, now, faults>>

Init ==
    /\ ports = [p \in Ports |-> NoVal]
    /\ gone = {}
    /\ rows = [p \in Ports |-> NoVal]
    /\ events = {}
    /\ pc = [w \in Workers |-> "idle"]
    /\ event = [w \in Workers |-> NoVal]
    /\ target = [w \in Workers |-> NoVal]
    /\ seen = [w \in Workers |-> NoVal]
    /\ open = [w \in Workers |-> {}]
    /\ absent = [w \in Workers |-> {}]
    /\ own = [w \in Workers |-> NoVal]
    /\ now = 0
    /\ faults = 0

-----------------------------------------------------------------------------
(* neutron.  An address belongs to one live port at a time.                *)

Alive(p) == ports[p] # NoVal /\ p \notin gone

FreeFor(p, ip) == \A q \in Ports \ {p} : Alive(q) => ports[q].ip # ip

CreatePort(p, ip, d) ==
    /\ ports[p] = NoVal /\ FreeFor(p, ip)
    /\ ports' = [ports EXCEPT ![p] =
                    [ip |-> ip, device |-> d, created |-> now]]
    /\ events' = events \cup {[kind |-> "port.create.end", port |-> p]}
    /\ UNCHANGED <<gone, rows, session, now, faults>>

UpdatePort(p, ip, d) ==
    /\ Alive(p) /\ (ip = NoVal \/ FreeFor(p, ip))
    /\ Moving \/ ip = ports[p].ip
    /\ ports' = [ports EXCEPT ![p] = [@ EXCEPT !.ip = ip, !.device = d]]
    /\ ports' # ports
    /\ events' = events \cup {[kind |-> "port.update.end", port |-> p]}
    /\ UNCHANGED <<gone, rows, session, now, faults>>

DeletePort(p) ==
    /\ Alive(p)
    /\ gone' = gone \cup {p}
    /\ events' = events \cup
                    {[kind |-> "port.delete.end", port |-> p, at |-> now]}
    /\ UNCHANGED <<ports, rows, session, now, faults>>

(* Lost on the way, or discarded by sample() as malformed.                 *)
LoseEvent(e) ==
    /\ Lossy /\ e \in events
    /\ events' = events \ {e}
    /\ UNCHANGED <<neutron, rows, session, now, faults>>

-----------------------------------------------------------------------------
(* Sessions.                                                               *)

Goto(w, step) == pc' = [pc EXCEPT ![w] = step]

Close(w) ==
    /\ Goto(w, "idle")
    /\ event' = [event EXCEPT ![w] = NoVal]
    /\ target' = [target EXCEPT ![w] = NoVal]
    /\ seen' = [seen EXCEPT ![w] = NoVal]
    /\ open' = [open EXCEPT ![w] = {}]
    /\ absent' = [absent EXCEPT ![w] = {}]
    /\ own' = [own EXCEPT ![w] = NoVal]

(* The handler returned, with these notifications still queued: its own is *)
(* acknowledged, or delivered again as the consumer died before it could.  *)
Handled(e, queued) ==
    \/ events' = queued /\ UNCHANGED faults
    \/ /\ faults < MaxFaults /\ faults' = faults + 1
       /\ events' = queued \cup {e}

-----------------------------------------------------------------------------
(* Port notifications.                                                     *)

(* handle_end, in one step: only its UPDATE of one column depends on what  *)
(* it read.                                                                *)
HandleEnd(w, e) ==
    /\ pc[w] = "idle" /\ e \in events /\ e.kind = "port.delete.end"
    /\ IF rows[e.port] = NoVal THEN UNCHANGED rows
       ELSE rows' = [rows EXCEPT ![e.port].end = e.at]
    /\ Handled(e, events \ {e})
    /\ UNCHANGED <<neutron, session, now>>

(* Mutant of Tracked: the check for a public address is missing.           *)
TrackedAnyAddress(port) == port.device # NoVal

(* A compute port with a public address on an external network.            *)
Tracked(port) == port.ip # NoVal /\ port.device # NoVal

Handles(w, e) ==
    pc[w] = "idle" /\ e \in events /\ e.kind # "port.delete.end"

(* handle_create_update: the port is gone, or not one to track.            *)
IgnorePort(w, e) ==
    /\ Handles(w, e)
    /\ e.port \in gone \/ ~Tracked(ports[e.port])
    /\ Handled(e, events \ {e})
    /\ UNCHANGED <<neutron, rows, session, now>>

ReadPort(w, e) ==
    /\ Handles(w, e)
    /\ e.port \notin gone /\ Tracked(ports[e.port])
    /\ Goto(w, "dupes")
    /\ event' = [event EXCEPT ![w] = e]
    /\ target' = [target EXCEPT ![w] = e.port]
    /\ seen' = [seen EXCEPT ![w] = ports[e.port]]
    /\ events' = events \ {e}
    /\ UNCHANGED <<neutron, rows, open, absent, own, now, faults>>

IsOpen(p) == rows[p] # NoVal /\ rows[p].end = NoVal

OpenOnAddress(ip, p) ==
    {q \in Ports \ {p} : IsOpen(q) /\ rows[q].ip = ip}

(* Mutant of FindDupes: only a port without a row looks for them.          *)
FindDupesIfNew(w) ==
    /\ pc[w] = "dupes"
    /\ open' = [open EXCEPT ![w] = IF rows[target[w]] # NoVal THEN {}
                                ELSE OpenOnAddress(seen[w].ip, target[w])]
    /\ Goto(w, "close")
    /\ UNCHANGED <<neutron, rows, events, event, target, seen, absent, own,
                   now, faults>>

FindDupes(w) ==
    /\ pc[w] = "dupes"
    /\ open' = [open EXCEPT ![w] = OpenOnAddress(seen[w].ip, target[w])]
    /\ Goto(w, "close")
    /\ UNCHANGED <<neutron, rows, events, event, target, seen, absent, own,
                   now, faults>>

(* Mutant of CloseDupe: the end is the time of the close, not the new      *)
(* port's creation.                                                        *)
CloseDupeNow(w) ==
    /\ pc[w] = "close"
    /\ \E q \in open[w] :
        /\ rows' = [rows EXCEPT ![q].end = now]
        /\ open' = [open EXCEPT ![w] = @ \ {q}]
    /\ UNCHANGED <<neutron, events, pc, event, target, seen, absent, own, now,
                   faults>>

(* Each of them is ended and committed on its own.                         *)
CloseDupe(w) ==
    /\ pc[w] = "close"
    /\ \E q \in open[w] :
        /\ rows' = [rows EXCEPT ![q].end = seen[w].created - 1]
        /\ open' = [open EXCEPT ![w] = @ \ {q}]
    /\ UNCHANGED <<neutron, events, pc, event, target, seen, absent, own, now,
                   faults>>

LookupOwn(w) ==
    /\ pc[w] = "close" /\ open[w] = {}
    /\ own' = [own EXCEPT ![w] = rows[target[w]]]
    /\ Goto(w, IF rows[target[w]] = NoVal THEN "insert" ELSE "update")
    /\ UNCHANGED <<neutron, rows, events, event, target, seen, open, absent,
                   now, faults>>

(* The row a port is recorded as.                                          *)
NewRow(port) == [ip |-> port.ip, device |-> port.device,
                 start |-> port.created, end |-> NoVal]

Insert(w) ==
    /\ pc[w] = "insert" /\ rows[target[w]] = NoVal
    /\ rows' = [rows EXCEPT ![target[w]] = NewRow(seen[w])]
    /\ Handled(event[w], events) /\ Close(w)
    /\ UNCHANGED <<neutron, now>>

(* Mutant of InsertConflict: the row the other one inserted is not read.   *)
InsertConflictUnread(w) ==
    /\ pc[w] = "insert" /\ rows[target[w]] # NoVal
    /\ Goto(w, "update")
    /\ UNCHANGED <<neutron, rows, events, event, target, seen, open, absent,
                   own, now, faults>>

(* IntegrityError: roll back, read the row the other one inserted.         *)
InsertConflict(w) ==
    /\ pc[w] = "insert" /\ rows[target[w]] # NoVal
    /\ own' = [own EXCEPT ![w] = rows[target[w]]]
    /\ Goto(w, "update")
    /\ UNCHANGED <<neutron, rows, events, event, target, seen, open, absent,
                   now, faults>>

(* The UPDATE sends the columns that differ from the row as it was loaded. *)
Written(loaded, new, current) == IF new = loaded THEN current ELSE new

(* Mutant of Refreshed: a stale end is not cleared.                        *)
RefreshedNotReopened(cur, old, port) ==
    [cur EXCEPT !.ip = Written(old.ip, port.ip, @),
                !.device = Written(old.device, port.device, @)]

Refreshed(cur, old, port) ==
    [cur EXCEPT !.ip = Written(old.ip, port.ip, @),
                !.device = Written(old.device, port.device, @),
                !.end = Written(old.end, NoVal, @)]

Update(w) ==
    /\ pc[w] = "update"
    /\ rows' = [rows EXCEPT ![target[w]] = Refreshed(@, own[w], seen[w])]
    /\ Handled(event[w], events) /\ Close(w)
    /\ UNCHANGED <<neutron, now>>

-----------------------------------------------------------------------------
(* _find_and_create_ip_usage and backfill-ports: a port read from neutron  *)
(* is recorded unless it has a row.                                        *)

RecordRead(w, p) ==
    /\ pc[w] = "idle" /\ Alive(p) /\ Tracked(ports[p])
    /\ target' = [target EXCEPT ![w] = p]
    /\ seen' = [seen EXCEPT ![w] = ports[p]]
    /\ Goto(w, "record")
    /\ UNCHANGED <<neutron, rows, events, event, open, absent, own, now,
                   faults>>

(* A row found, or an IntegrityError, leaves the table alone.              *)
RecordInsert(w) ==
    /\ pc[w] = "record"
    /\ rows' = [rows EXCEPT ![target[w]] =
                    IF @ = NoVal THEN NewRow(seen[w]) ELSE @]
    /\ Close(w)
    /\ UNCHANGED <<neutron, events, now, faults>>

-----------------------------------------------------------------------------
(* reconcile_open_ip_usages.                                               *)

ReconcileRead(w) ==
    /\ pc[w] = "idle" /\ \E p \in Ports : IsOpen(p)
    /\ open' = [open EXCEPT ![w] = {p \in Ports : IsOpen(p)}]
    /\ Goto(w, "list")
    /\ UNCHANGED <<neutron, rows, events, event, target, seen, absent, own,
                   now, faults>>

(* Slices of Batch ids, the last one possibly shorter.                     *)
Chunks(s) == {c \in SUBSET s : \/ Cardinality(c) = Batch
                               \/ c = s /\ Cardinality(s) < Batch}

(* Mutants of Unlisted: one id of the chunk is not sent; an error of       *)
(* neutron is taken for an answer that lists every port.                   *)
UnlistedCutShort(c) ==
    {p \in c : ~Alive(p)} \cup {CHOOSE p \in c : TRUE}
UnlistedOnError(c) == {}

Unlisted(c) == {p \in c : ~Alive(p)}

ReconcileList(w) ==
    /\ pc[w] = "list"
    /\ \E c \in Chunks(open[w]) :
        /\ open' = [open EXCEPT ![w] = @ \ c]
        /\ absent' = [absent EXCEPT ![w] = @ \cup Unlisted(c)]
        /\ Goto(w, IF open[w] = c THEN "end" ELSE "list")
    /\ UNCHANGED <<neutron, rows, events, event, target, seen, own, now,
                   faults>>

(* All of them end now, in one commit.                                     *)
ReconcileEnd(w) ==
    /\ pc[w] = "end"
    /\ rows' = [p \in Ports |-> IF p \in absent[w]
                                THEN [rows[p] EXCEPT !.end = now] ELSE rows[p]]
    /\ Close(w)
    /\ UNCHANGED <<neutron, events, now, faults>>

-----------------------------------------------------------------------------
(* Failures: of the database, neutron or keystone, or of the process.  A   *)
(* notification is requeued; what was committed stays.                     *)

Fail(w) ==
    /\ pc[w] # "idle" /\ faults < MaxFaults
    /\ faults' = faults + 1
    /\ events' = IF event[w] = NoVal THEN events ELSE events \cup {event[w]}
    /\ Close(w)
    /\ UNCHANGED <<neutron, rows, now>>

Tick ==
    /\ now < MaxTime /\ now' = now + 1
    /\ UNCHANGED <<neutron, rows, events, session, faults>>

(* Nothing left to do but wait for neutron.                                *)
Quiet ==
    /\ \A w \in Workers : pc[w] = "idle"
    /\ UNCHANGED vars

Consume(w) ==
    \/ \E e \in events : HandleEnd(w, e) \/ IgnorePort(w, e) \/ ReadPort(w, e)
    \/ FindDupes(w) \/ CloseDupe(w) \/ LookupOwn(w)
    \/ Insert(w) \/ InsertConflict(w) \/ Update(w)

Next ==
    \/ \E p \in Ports :
        \/ \E ip \in IPs, d \in Devices : CreatePort(p, ip, d)
        \/ \E ip \in IPs \cup {NoVal}, d \in Devices \cup {NoVal} :
            UpdatePort(p, ip, d)
        \/ DeletePort(p)
    \/ \E e \in events : LoseEvent(e)
    \/ \E w \in Consumers : Consume(w)
    \/ \E w \in Recorders : RecordInsert(w) \/ \E p \in Ports : RecordRead(w, p)
    \/ \E w \in Reconcilers :
        ReconcileRead(w) \/ ReconcileList(w) \/ ReconcileEnd(w)
    \/ \E w \in Workers : Fail(w)
    \/ Tick \/ Quiet

Spec == Init /\ [][Next]_vars

(* Fairness.  A consumer that has a notification goes on and takes the     *)
(* next one; a recorder finishes; the reconcile task runs again and again. *)
Fairness ==
    /\ \A w \in Consumers : WF_vars(Consume(w))
    /\ \A w \in Recorders : WF_vars(RecordInsert(w))
    /\ \A w \in Reconcilers :
        WF_vars(ReconcileRead(w) \/ ReconcileList(w) \/ ReconcileEnd(w))

LiveSpec == Spec /\ Fairness

-----------------------------------------------------------------------------
(* Types.                                                                  *)

Steps == {"idle", "dupes", "close", "insert", "update", "record", "list",
          "end"}

(* Every variable holds a value the code could have put there.             *)
TypeOK ==
    /\ ports \in [Ports -> PortSet \cup {NoVal}]
    /\ gone \subseteq Ports
    /\ rows \in [Ports -> RowSet \cup {NoVal}]
    /\ events \subseteq EventSet
    /\ pc \in [Workers -> Steps]
    /\ event \in [Workers -> EventSet \cup {NoVal}]
    /\ target \in [Workers -> Ports \cup {NoVal}]
    /\ seen \in [Workers -> PortSet \cup {NoVal}]
    /\ open \in [Workers -> SUBSET Ports]
    /\ absent \in [Workers -> SUBSET Ports]
    /\ own \in [Workers -> RowSet \cup {NoVal}]
    /\ now \in Times
    /\ faults \in 0..MaxFaults

-----------------------------------------------------------------------------
(* Safety.                                                                 *)

(* No notification is queued or being handled.                             *)
Settled == events = {} /\ \A w \in Workers : pc[w] = "idle"

(* Once every notification is handled, the table is what neutron says: a   *)
(* live port has an open row with its address and its instance, a deleted  *)
(* one has no open row.                                                    *)
TracksPorts ==
    Settled => \A p \in Ports :
        /\ Alive(p) /\ Tracked(ports[p]) =>
            /\ IsOpen(p)
            /\ rows[p].ip = ports[p].ip /\ rows[p].device = ports[p].device
        /\ p \in gone => ~IsOpen(p)

(* An address has at most one current owner: risks reported against it now *)
(* are not put aside as ambiguous.                                         *)
OneOpenRow ==
    \A p, q \in Ports :
        IsOpen(p) /\ IsOpen(q) /\ rows[p].ip = rows[q].ip => p = q

EndsBy(r, t) == r.end # NoVal /\ r.end <= t

(* Nor had it two owners at any time in the past, but for the second in    *)
(* which it changed hands.                                                 *)
PeriodsDisjoint ==
    \A p, q \in Ports :
        p # q /\ rows[p] # NoVal /\ rows[q] # NoVal /\ rows[p].ip = rows[q].ip
            => EndsBy(rows[p], rows[q].start) \/ EndsBy(rows[q], rows[p].start)

-----------------------------------------------------------------------------
(* The invariant the theorems rest on.                                     *)

(* Only ports that exist or existed have rows and notifications.           *)
TableOK ==
    /\ \A p \in Ports : p \in gone \/ rows[p] # NoVal => ports[p] # NoVal
    /\ \A e \in events : ports[e.port] # NoVal

(* What a session holds is still so, however long ago it was read: rows    *)
(* and deleted ports do not go away.                                       *)
SessionOf(w) ==
    /\ event[w] # NoVal => ports[event[w].port] # NoVal
    /\ pc[w] \in {"dupes", "close", "insert", "update"} => event[w] # NoVal
    /\ pc[w] \in {"dupes", "close", "insert", "update", "record"} =>
        /\ target[w] # NoVal /\ ports[target[w]] # NoVal
        /\ seen[w] # NoVal /\ Tracked(seen[w])
    /\ pc[w] = "update" => own[w] # NoVal /\ rows[target[w]] # NoVal
    /\ \A p \in open[w] \cup absent[w] : rows[p] # NoVal
    /\ absent[w] \subseteq gone

SessionOK == \A w \in Workers : SessionOf(w)

(* The inductive invariant.  That the reconcile task holds none but        *)
(* deleted ports as absent needs every open row to be that of a port       *)
(* neutron once listed.                                                    *)
IInv == TypeOK /\ TableOK /\ SessionOK

-----------------------------------------------------------------------------
(* Action properties.                                                      *)

(* The reconcile task ends the row of no port that still exists: it reads  *)
(* the table before it asks neutron, in batches, what exists.              *)
ReconcileEndsOnlyGone ==
    [][\A w \in Reconcilers, p \in Ports :
        pc[w] = "end" /\ pc'[w] = "idle" /\ rows'[p] # rows[p]
            => p \in gone]_vars

(* A create or update event means the port is active: the row of a port    *)
(* that is gone, once closed, is not opened again.                         *)
GoneStaysClosed ==
    [][\A p \in Ports :
        p \in gone /\ rows[p] # NoVal /\ ~IsOpen(p) => ~IsOpen(p)']_vars

-----------------------------------------------------------------------------
(* Liveness.                                                               *)

(* Whatever notifications were lost or handled too late, the reconcile     *)
(* task closes the rows of deleted ports, and they stay closed.            *)
GoneIsClosed == \A p \in Ports : <>[](p \in gone => ~IsOpen(p))

=============================================================================
