------------------------- MODULE IPUsageOwners_proofs -------------------------
(***************************************************************************)
(* Who owns an address according to the table.  One open row per address,  *)
(* as long as notifications are handled one at a time: why the search of a *)
(* handler for other open rows, and its closing of them one by one, is     *)
(* enough.  Then what a single consumer thread achieves, in whatever order *)
(* it takes the notifications: the open rows are what neutron says, and    *)
(* the closed ones do not overlap in time.                                 *)
(***************************************************************************)
EXTENDS IPUsageTracking_proofs

USE DEF Goto, neutron, session, Times, Ends

Busy(w) == pc[w] \in {"dupes", "close", "insert", "update"}

Serially ==
    /\ \A v, w \in Workers : Busy(v) /\ Busy(w) => v = w
    /\ \A w \in Workers : pc[w] # "record"

(* Past its search a handler knows every open row on its address but its   *)
(* own; when it writes there is none, and its own row has the address it   *)
(* was loaded with.                                                        *)
ClearOf(w) ==
    /\ pc[w] = "close" => OpenOnAddress(seen[w].ip, target[w]) \subseteq open[w]
    /\ pc[w] \in {"insert", "update"} =>
            OpenOnAddress(seen[w].ip, target[w]) = {}
    /\ pc[w] = "update" => own[w].ip = rows[target[w]].ip

OwnersOK == OneOpenRow /\ \A w \in Workers : ClearOf(w)

-----------------------------------------------------------------------------
(* Rows that end, and all else but the writes of a handler.                *)

RowEnds(p) ==
    \/ rows'[p] = rows[p]
    \/ rows[p] # NoVal /\ ~IsOpen(p)' /\ rows'[p].ip = rows[p].ip

LEMMA EndingKeepsOne ==
  ASSUME OneOpenRow, \A p \in Ports : RowEnds(p)
  PROVE  OneOpenRow'
  <1>1. \A p \in Ports : IsOpen(p)' => IsOpen(p) /\ rows'[p] = rows[p]
    BY DEF RowEnds, IsOpen
  <1> QED
    BY <1>1 DEF OneOpenRow

LEMMA EndingKeepsClear ==
  ASSUME \A p \in Ports : RowEnds(p), NEW w \in Workers, ClearOf(w),
         Busy(w) => target[w] \in Ports,
         pc[w] = "update" => rows[target[w]] # NoVal,
         Untouched(w), open'[w] = open[w]
  PROVE  ClearOf(w)'
  <1>1. \A p \in Ports : IsOpen(p)' => IsOpen(p) /\ rows'[p] = rows[p]
    BY DEF RowEnds, IsOpen
  <1>2. OpenOnAddress(seen[w].ip, target[w])'
          \subseteq OpenOnAddress(seen[w].ip, target[w])
    BY <1>1 DEF OpenOnAddress, Untouched
  <1>3. pc[w] = "update" => rows'[target[w]].ip = rows[target[w]].ip
    BY DEF Busy, RowEnds
  <1> QED
    BY <1>2, <1>3 DEF ClearOf, Untouched

LEMMA Enders ==
  ASSUME TypeOK, SessionOK, NEW w \in Workers, StepOf(w),
         ~Insert(w), ~Update(w), ~RecordInsert(w), NEW p \in Ports
  PROVE  RowEnds(p)
  <1> USE ConstantsAssumption, NoValAssumption
  <1>1. CASE UNCHANGED rows
    BY <1>1 DEF RowEnds
  <1>2. ASSUME NEW q \in Ports, NEW t \in Ends, rows[q] # NoVal,
               rows' = [rows EXCEPT ![q].end = t]
        PROVE  RowEnds(p)
    <2>1. CASE p # q
      BY <1>2, <2>1 DEF RowEnds, TypeOK
    <2>2. CASE p = q
      <3>1. rows[q] \in RowSet /\ t # NoVal
        BY <1>2 DEF TypeOK
      <3>2. rows'[q] = [rows[q] EXCEPT !.end = t]
        BY <1>2 DEF TypeOK
      <3>3. rows'[q].ip = rows[q].ip /\ rows'[q].end = t
        BY <3>1, <3>2 DEF RowSet
      <3> QED
        BY <1>2, <2>2, <3>1, <3>3 DEF RowEnds, IsOpen
    <2> QED
      BY <2>1, <2>2
  <1>3. ASSUME NEW e \in events, HandleEnd(w, e) PROVE RowEnds(p)
    <2>1. e.port \in Ports /\ e.at \in Ends
      BY <1>3 DEF HandleEnd, TypeOK, EventSet
    <2> QED
      BY <1>1, <1>2, <1>3, <2>1 DEF HandleEnd
  <1>4. CASE CloseDupe(w)
    <2>1. PICK q \in open[w] :
            rows' = [rows EXCEPT ![q].end = seen[w].created - 1]
      BY <1>4 DEF CloseDupe
    <2>2. q \in Ports /\ rows[q] \in RowSet
      BY SessionFacts
    <2>3. seen[w].created - 1 \in Ends
      BY <1>4, SessionFacts DEF CloseDupe, PortSet
    <2> QED
      BY <1>2, <2>1, <2>2, <2>3
  <1>5. CASE ReconcileEnd(w)
    <2>1. CASE p \notin absent[w]
      BY <1>5, <2>1 DEF ReconcileEnd, RowEnds
    <2>2. CASE p \in absent[w]
      <3>1. rows[p] \in RowSet /\ now # NoVal
        BY <2>2, SessionFacts DEF TypeOK
      <3>2. rows'[p] = [rows[p] EXCEPT !.end = now]
        BY <1>5, <2>2 DEF ReconcileEnd
      <3>3. rows'[p].ip = rows[p].ip /\ rows'[p].end = now
        BY <3>1, <3>2 DEF RowSet
      <3> QED
        BY <3>1, <3>3 DEF RowEnds, IsOpen
    <2> QED
      BY <2>1, <2>2
  <1> QED
    BY <1>1, <1>3, <1>4, <1>5
    DEF StepOf, Consume, IgnorePort, ReadPort, FindDupes, LookupOwn,
        InsertConflict, RecordRead, ReconcileRead, ReconcileList, Fail

-----------------------------------------------------------------------------
(* The writes.                                                             *)

(* A row written open on an address nobody else has open.                  *)
LEMMA WriteKeepsOne ==
  ASSUME TypeOK, OneOpenRow, NEW q \in Ports, NEW r \in RowSet,
         rows' = [rows EXCEPT ![q] = r], OpenOnAddress(r.ip, q) = {}
  PROVE  OneOpenRow'
  <1>1. rows'[q] = r /\ \A p \in Ports \ {q} : rows'[p] = rows[p]
    BY DEF TypeOK
  <1>2. \A p \in Ports \ {q} : IsOpen(p) => rows[p].ip # r.ip
    BY DEF OpenOnAddress
  <1> SUFFICES ASSUME NEW a \in Ports, NEW b \in Ports, IsOpen(a)', IsOpen(b)',
                      rows'[a].ip = rows'[b].ip
               PROVE  a = b
    BY DEF OneOpenRow
  <1>3. CASE a # q /\ b # q
    BY <1>1, <1>3 DEF OneOpenRow, IsOpen
  <1>4. CASE a = q /\ b # q
    BY <1>1, <1>2, <1>4 DEF IsOpen
  <1>5. CASE a # q /\ b = q
    BY <1>1, <1>2, <1>5 DEF IsOpen
  <1> QED
    BY <1>3, <1>4, <1>5

(* Each step of a handler leaves it sure of its address.                   *)
LEMMA OwnClear ==
  ASSUME TypeOK, SessionOK, NEW w \in Workers, StepOf(w), ClearOf(w)
  PROVE  ClearOf(w)'
  <1> USE ConstantsAssumption, NoValAssumption
  <1>1. ASSUME pc'[w] \notin {"close", "insert", "update"} PROVE ClearOf(w)'
    BY <1>1 DEF ClearOf
  <1>2. CASE FindDupes(w)
    BY <1>2 DEF FindDupes, ClearOf, OpenOnAddress, IsOpen, TypeOK
  <1>3. CASE CloseDupe(w)
    <2>1. PICK q \in open[w] :
            /\ rows' = [rows EXCEPT ![q].end = seen[w].created - 1]
            /\ open' = [open EXCEPT ![w] = @ \ {q}]
      BY <1>3 DEF CloseDupe
    <2>2. q \in Ports /\ rows[q] \in RowSet
      BY SessionFacts
    <2>3. seen[w].created - 1 \in Ends
      BY <1>3, SessionFacts DEF CloseDupe, PortSet
    <2>4. ~IsOpen(q)'
      BY <2>1, <2>2, <2>3 DEF IsOpen, TypeOK, RowSet
    <2>5. \A p \in Ports \ {q} : rows'[p] = rows[p]
      BY <2>1 DEF TypeOK
    <2>6. /\ pc[w] = "close" /\ open'[w] = open[w] \ {q}
          /\ UNCHANGED <<pc, seen, target>>
      BY <1>3, <2>1 DEF CloseDupe, TypeOK
    <2> QED
      BY <2>4, <2>5, <2>6 DEF ClearOf, OpenOnAddress, IsOpen
  <1>4. CASE LookupOwn(w)
    BY <1>4 DEF LookupOwn, ClearOf, OpenOnAddress, IsOpen, TypeOK
  <1>5. CASE InsertConflict(w)
    BY <1>5 DEF InsertConflict, ClearOf, OpenOnAddress, IsOpen, TypeOK
  <1>6. ASSUME Close(w) PROVE ClearOf(w)'
    BY <1>1, <1>6 DEF Close, TypeOK
  <1>7. ASSUME NEW e \in events, HandleEnd(w, e) \/ IgnorePort(w, e)
        PROVE  ClearOf(w)'
    BY <1>1, <1>7 DEF HandleEnd, IgnorePort, Handles
  <1>8. CASE \/ \E e \in events : ReadPort(w, e)
             \/ \E p \in Ports : RecordRead(w, p)
             \/ ReconcileRead(w) \/ ReconcileList(w)
    BY <1>1, <1>8
    DEF ReadPort, RecordRead, ReconcileRead, ReconcileList, TypeOK
  <1> QED
    BY <1>2, <1>3, <1>4, <1>5, <1>6, <1>7, <1>8
    DEF StepOf, Consume, Insert, Update, RecordInsert, ReconcileEnd, Fail

LEMMA OwnersStep ==
  ASSUME IInv, Serially, OwnersOK, [Next]_vars
  PROVE  OwnersOK'
  <1> USE ConstantsAssumption, NoValAssumption
  <1>1. TypeOK /\ TableOK /\ SessionOK
    BY DEF IInv
  <1>2. \A w \in Workers :
          /\ Busy(w) => target[w] \in Ports
          /\ pc[w] = "update" => rows[target[w]] # NoVal
    BY <1>1, SessionFacts DEF Busy, SessionOK, SessionOf
  <1>3. ASSUME NEW w \in Workers, Insert(w) \/ Update(w) PROVE OwnersOK'
    <2>1. /\ pc[w] \in {"insert", "update"} /\ Busy(w) /\ Close(w)
          /\ OpenOnAddress(seen[w].ip, target[w]) = {}
      BY <1>3 DEF Insert, Update, Busy, OwnersOK, ClearOf
    <2>2. PICK r \in RowSet :
            r.ip = seen[w].ip /\ rows' = [rows EXCEPT ![target[w]] = r]
      <3>1. CASE Insert(w)
        <4>1. seen[w] \in PortSet /\ Tracked(seen[w])
          BY <1>1, <3>1, SessionFacts DEF Insert
        <4>2. NewRow(seen[w]) \in RowSet /\ NewRow(seen[w]).ip = seen[w].ip
          BY <4>1, NewRowType DEF NewRow
        <4> QED
          BY <3>1, <4>2 DEF Insert
      <3>2. CASE Update(w)
        <4> DEFINE r == Refreshed(rows[target[w]], own[w], seen[w])
        <4>1. /\ seen[w] \in PortSet /\ Tracked(seen[w])
              /\ own[w] \in RowSet /\ rows[target[w]] \in RowSet
              /\ own[w].ip = rows[target[w]].ip
          BY <1>1, <3>2, SessionFacts DEF Update, OwnersOK, ClearOf
        <4>2. r \in RowSet
          BY <4>1, RefreshedType
        <4>3. r.ip = seen[w].ip
          BY <4>1 DEF Refreshed, Written, RowSet
        <4> HIDE DEF r
        <4>4. rows' = [rows EXCEPT ![target[w]] = r]
          BY <3>2 DEF Update, r
        <4> QED
          BY <4>2, <4>3, <4>4
      <3> QED
        BY <1>3, <3>1, <3>2
    <2>3. OneOpenRow'
      BY <1>1, <1>2, <2>1, <2>2, WriteKeepsOne DEF OwnersOK
    <2>4. ASSUME NEW v \in Workers PROVE ClearOf(v)'
      <3>1. CASE v = w
        BY <1>1, <2>1, <3>1 DEF Close, TypeOK, ClearOf
      <3>2. CASE v # w
        <4>1. pc'[v] = pc[v]
          BY <1>1, <2>1, <3>2, SessionCloses DEF Untouched
        <4>2. ~Busy(v)
          BY <2>1, <3>2 DEF Serially
        <4> QED
          BY <4>1, <4>2 DEF Busy, ClearOf
      <3> QED
        BY <3>1, <3>2
    <2> QED
      BY <2>3, <2>4 DEF OwnersOK
  <1>4. ASSUME NEW w \in Workers, StepOf(w), ~Insert(w), ~Update(w)
        PROVE  OwnersOK'
    <2>1. ~RecordInsert(w)
      BY DEF Serially, RecordInsert
    <2>2. \A p \in Ports : RowEnds(p)
      BY <1>1, <1>4, <2>1, Enders
    <2>3. OneOpenRow'
      BY <2>2, EndingKeepsOne DEF OwnersOK
    <2>4. ASSUME NEW v \in Workers PROVE ClearOf(v)'
      <3>1. CASE v = w
        BY <1>1, <1>4, <3>1, OwnClear DEF OwnersOK
      <3>2. CASE v # w
        <4>1. Untouched(v) /\ open'[v] = open[v]
          BY <1>1, <1>4, <3>2, OthersUntouched
        <4> QED
          BY <1>2, <2>2, <4>1, EndingKeepsClear DEF OwnersOK
      <3> QED
        BY <3>1, <3>2
    <2> QED
      BY <2>3, <2>4 DEF OwnersOK
  <1>5. CASE /\ \A v \in Workers : Untouched(v) /\ open'[v] = open[v]
             /\ UNCHANGED rows
    <2>1. \A p \in Ports : RowEnds(p)
      BY <1>5 DEF RowEnds
    <2>2. OneOpenRow'
      BY <2>1, EndingKeepsOne DEF OwnersOK
    <2>3. ASSUME NEW v \in Workers PROVE ClearOf(v)'
      BY <1>2, <1>5, <2>1, EndingKeepsClear DEF OwnersOK
    <2> QED
      BY <2>2, <2>3 DEF OwnersOK
  <1> QED
    BY <1>1, <1>3, <1>4, <1>5, StepOrUntouched

(* An address has one open row, whatever is deleted, reconciled, lost,     *)
(* delivered twice or fails half-way, and however addresses move: only     *)
(* handlers that overlap, or ports recorded by others, can open a second.  *)
THEOREM SerialHandling == Spec /\ []Serially => []OneOpenRow
  <1>1. Init => OwnersOK
    BY DEF Init, OwnersOK, OneOpenRow, IsOpen, ClearOf
  <1>2. IInv /\ Serially /\ OwnersOK /\ [Next]_vars => OwnersOK'
    BY OwnersStep
  <1>3. OwnersOK => OneOpenRow
    BY DEF OwnersOK
  <1> QED
    BY <1>1, <1>2, <1>3, Invariance, PTL DEF Spec

-----------------------------------------------------------------------------
(* A single consumer: what the queue owes to the table.                    *)

SoleConsumer == \A v, w \in Consumers : v = w

(* Only consumers handle notifications, and hold one only then.            *)
RolesOK ==
    \A w \in Workers : /\ Busy(w) => w \in Consumers
                       /\ event[w] # NoVal => Busy(w)
                       /\ pc[w] = "record" => w \in Recorders

Deletes(e) == e.kind = "port.delete.end"

Pending(p) == \E e \in events : e.port = p /\ ~Deletes(e)

Ending(p) == \E e \in events : e.port = p /\ Deletes(e)

ToTrack(p) == Alive(p) /\ Tracked(ports[p])

Handling(p) == \E w \in Consumers : Busy(w) /\ target[w] = p

UpToDate(p) ==
    IsOpen(p) /\ rows[p].ip = ports[p].ip /\ rows[p].device = ports[p].device

SeenAsIs(w) ==
    LET p == ports[target[w]] IN seen[w].ip = p.ip /\ seen[w].device = p.device

(* The row of a live port is what neutron says, or somebody will see to it.*)
LiveOf(p) ==
    ToTrack(p) =>
        \/ Pending(p)
        \/ \E w \in Consumers : Busy(w) /\ target[w] = p /\ SeenAsIs(w)
        \/ UpToDate(p) /\ ~Handling(p)

GoneOf(p) == p \in gone => Ending(p) \/ (~IsOpen(p) /\ ~Handling(p))

(* A handler closes no row that is right: the address it read was its      *)
(* port's, and a live port that got it since has a notification queued.    *)
HandlerOf(w) ==
    Busy(w) =>
        /\ event[w].port = target[w] /\ ~Deletes(event[w])
        /\ \A q \in Ports \ {target[w]} :
                ToTrack(q) /\ ~Pending(q) => ports[q].ip # seen[w].ip
        /\ pc[w] = "close" =>
                \A q \in open[w] : q # target[w] /\ rows[q].ip = seen[w].ip
        /\ pc[w] = "update" =>
                /\ own[w].ip = rows[target[w]].ip
                /\ own[w].device = rows[target[w]].device
                /\ own[w].end = NoVal => IsOpen(target[w]) \/ target[w] \in gone

(* neutron assigns an address once; what is to be deleted is gone.         *)
OneAddress ==
    \A p, q \in Ports : p # q /\ Alive(p) /\ Alive(q) /\ ports[p].ip # NoVal
                            => ports[p].ip # ports[q].ip

DeletedGone == \A e \in events : Deletes(e) => e.port \in gone

TrackOK ==
    /\ RolesOK /\ OneAddress /\ DeletedGone
    /\ \A p \in Ports : LiveOf(p) /\ GoneOf(p)
    /\ \A w \in Consumers : HandlerOf(w)

LEMMA RolesStep ==
  ASSUME IInv, RolesOK, [Next]_vars
  PROVE  RolesOK'
  <1> USE ConstantsAssumption
  <1>1. TypeOK
    BY DEF IInv
  <1> DEFINE Role(v) == /\ Busy(v)' => v \in Consumers
                        /\ event'[v] # NoVal => Busy(v)'
                        /\ pc'[v] = "record" => v \in Recorders
  <1> SUFFICES ASSUME NEW v \in Workers PROVE Role(v)
    BY DEF RolesOK, Busy
  <1>2. /\ Busy(v) => v \in Consumers
        /\ event[v] # NoVal => Busy(v)
        /\ pc[v] = "record" => v \in Recorders
    BY DEF RolesOK
  <1>3. CASE Untouched(v)
    BY <1>2, <1>3 DEF Busy, Untouched
  <1>4. CASE StepOf(v)
    <2>1. CASE Close(v)
      BY <1>1, <2>1 DEF Close, Busy, TypeOK
    <2>2. CASE \E e \in events : HandleEnd(v, e) \/ IgnorePort(v, e)
      BY <1>2, <2>2 DEF HandleEnd, IgnorePort, Busy
    <2>3. CASE v \in Consumers /\ \E e \in events : ReadPort(v, e)
      BY <1>1, <2>3 DEF ReadPort, Busy, TypeOK
    <2>4. CASE FindDupes(v) \/ CloseDupe(v) \/ LookupOwn(v) \/ InsertConflict(v)
      BY <1>1, <1>2, <2>4
      DEF FindDupes, CloseDupe, LookupOwn, InsertConflict, Busy, TypeOK
    <2>5. CASE \/ v \in Recorders /\ \E p \in Ports : RecordRead(v, p)
               \/ v \in Reconcilers /\ (ReconcileRead(v) \/ ReconcileList(v))
      BY <1>1, <1>2, <2>5
      DEF RecordRead, ReconcileRead, ReconcileList, Busy, TypeOK
    <2> QED
      BY <1>4, <2>1, <2>2, <2>3, <2>4, <2>5
      DEF StepOf, Consume, Insert, Update, RecordInsert, ReconcileEnd, Fail
  <1> QED
    BY <1>1, <1>3, <1>4, StepOrUntouched, OthersUntouched

LEMMA AddressesStep ==
  ASSUME IInv, OneAddress, [Next]_vars
  PROVE  OneAddress'
  <1> USE ConstantsAssumption, NoValAssumption
  <1>1. TypeOK /\ TableOK
    BY DEF IInv
  <1>2. CASE UNCHANGED neutron
    BY <1>2 DEF OneAddress, Alive
  <1>3. ASSUME NEW p \in Ports, NEW r \in PortSet, gone' = gone,
               ports' = [ports EXCEPT ![p] = r],
               r.ip = NoVal \/ FreeFor(p, r.ip)
        PROVE  OneAddress'
    <2>1. ports'[p] = r /\ \A q \in Ports \ {p} : ports'[q] = ports[q]
      BY <1>1, <1>3 DEF TypeOK
    <2> QED
      BY <1>3, <2>1 DEF OneAddress, Alive, FreeFor
  <1>4. ASSUME NEW p \in Ports, NEW ip \in IPs, NEW d \in Devices,
               CreatePort(p, ip, d)
        PROVE  OneAddress'
    <2>1. [ip |-> ip, device |-> d, created |-> now] \in PortSet
      BY <1>1 DEF TypeOK, PortSet
    <2> QED
      BY <1>3, <1>4, <2>1 DEF CreatePort
  <1>5. ASSUME NEW p \in Ports, NEW ip \in IPs \cup {NoVal},
               NEW d \in Devices \cup {NoVal}, UpdatePort(p, ip, d)
        PROVE  OneAddress'
    <2> DEFINE r == [ports[p] EXCEPT !.ip = ip, !.device = d]
    <2>1. ports[p] \in PortSet
      BY <1>1, <1>5 DEF UpdatePort, Alive, TypeOK
    <2>2. r \in PortSet /\ r.ip = ip
      BY <2>1, UpdatedType DEF PortSet
    <2>3. ports' = [ports EXCEPT ![p] = r] /\ gone' = gone
      BY <1>5 DEF UpdatePort
    <2>4. ip = NoVal \/ FreeFor(p, ip)
      BY <1>5 DEF UpdatePort
    <2> HIDE DEF r
    <2> QED
      BY <1>3, <2>2, <2>3, <2>4
  <1>6. ASSUME NEW p \in Ports, DeletePort(p) PROVE OneAddress'
    BY <1>6 DEF DeletePort, OneAddress, Alive
  <1> QED
    BY <1>2, <1>4, <1>5, <1>6
    DEF Next, vars, LoseEvent, Consume, HandleEnd, IgnorePort, ReadPort,
        FindDupes, CloseDupe, LookupOwn, Insert, InsertConflict, Update,
        RecordInsert, RecordRead, ReconcileRead, ReconcileList, ReconcileEnd,
        Fail, Tick, Quiet

(* A port changes and a notification is queued.                            *)
LEMMA PortChanges ==
  ASSUME TrackOK, NEW p \in Ports, UNCHANGED <<rows, session>>,
         \A q \in Ports \ {p} : ports'[q] = ports[q] /\ (q \in gone' <=> q \in gone),
         gone \subseteq gone', events \subseteq events',
         (Pending(p)' /\ p \notin gone') \/ (Ending(p)' /\ p \in gone')
  PROVE  /\ \A q \in Ports : LiveOf(q)' /\ GoneOf(q)'
         /\ \A w \in Consumers : HandlerOf(w)'
  <1>1. ASSUME NEW q \in Ports
        PROVE  (Pending(q) => Pending(q)') /\ (Ending(q) => Ending(q)')
    BY DEF Pending, Ending
  <1>2. LiveOf(p)' /\ GoneOf(p)'
    BY DEF LiveOf, GoneOf, ToTrack, Alive
  <1>3. ASSUME NEW q \in Ports, q # p PROVE LiveOf(q)' /\ GoneOf(q)'
    <2>1. LiveOf(q) /\ GoneOf(q)
      BY DEF TrackOK
    <2>2. /\ ports'[q] = ports[q] /\ (q \in gone' <=> q \in gone)
          /\ (ToTrack(q)' <=> ToTrack(q)) /\ (Handling(q)' <=> Handling(q))
          /\ (UpToDate(q)' <=> UpToDate(q)) /\ (IsOpen(q)' <=> IsOpen(q))
      BY <1>3 DEF ToTrack, Alive, Tracked, Handling, Busy, UpToDate, IsOpen
    <2>3. LiveOf(q)'
      BY <1>1, <2>1, <2>2 DEF LiveOf, SeenAsIs, Busy
    <2>4. GoneOf(q)'
      BY <1>1, <2>1, <2>2 DEF GoneOf
    <2> QED
      BY <2>3, <2>4
  <1>4. ASSUME NEW w \in Consumers PROVE HandlerOf(w)'
    <2>1. HandlerOf(w)
      BY DEF TrackOK
    <2>2. ASSUME NEW q \in Ports, ToTrack(q)', ~Pending(q)'
          PROVE  ToTrack(q) /\ ~Pending(q) /\ ports'[q] = ports[q]
      <3>1. q # p
        BY <2>2 DEF ToTrack, Alive
      <3> QED
        BY <1>1, <2>2, <3>1 DEF ToTrack, Alive, Tracked
    <2> QED
      BY <2>1, <2>2 DEF HandlerOf, Busy, IsOpen
  <1> QED
    BY <1>2, <1>3, <1>4

(* A port whose row, notifications and handler stay as they are.           *)
LEMMA PortKept ==
  ASSUME NEW p \in Ports, LiveOf(p), GoneOf(p), UNCHANGED neutron,
         rows'[p] = rows[p], Pending(p) => Pending(p)', Ending(p) => Ending(p)',
         \A w \in Consumers : Busy(w)' /\ target'[w] = p
                                <=> Busy(w) /\ target[w] = p,
         \A w \in Consumers : Busy(w) /\ target[w] = p => seen'[w] = seen[w]
  PROVE  LiveOf(p)' /\ GoneOf(p)'
  <1>1. /\ ToTrack(p)' <=> ToTrack(p)
        /\ UpToDate(p)' <=> UpToDate(p)
        /\ IsOpen(p)' <=> IsOpen(p)
    BY DEF ToTrack, Alive, Tracked, UpToDate, IsOpen
  <1>2. Handling(p)' <=> Handling(p)
    BY DEF Handling
  <1>3. ASSUME NEW w \in Consumers, Busy(w), target[w] = p, SeenAsIs(w)
        PROVE  Busy(w)' /\ target'[w] = p /\ SeenAsIs(w)'
    BY <1>3 DEF SeenAsIs
  <1>4. LiveOf(p)'
    BY <1>1, <1>2, <1>3 DEF LiveOf
  <1>5. GoneOf(p)'
    BY <1>1, <1>2 DEF GoneOf
  <1> QED
    BY <1>4, <1>5

(* A handler that returned has seen to its port if its row is right now,   *)
(* or it is gone and a notification says so.                               *)
LEMMA PortSettled ==
  ASSUME SoleConsumer, NEW w \in Consumers, Busy(w), ~Busy(w)',
         NEW p \in Ports, p = target[w], LiveOf(p), GoneOf(p),
         UNCHANGED neutron, events \subseteq events',
         ToTrack(p) /\ SeenAsIs(w) =>
            \/ Pending(p)'
            \/ /\ rows'[p] # NoVal /\ rows'[p].end = NoVal
               /\ rows'[p].ip = seen[w].ip /\ rows'[p].device = seen[w].device
  PROVE  LiveOf(p)' /\ GoneOf(p)'
  <1>1. Handling(p) /\ ~Handling(p)'
    BY DEF SoleConsumer, Handling, Busy
  <1>2. (Pending(p) => Pending(p)') /\ (Ending(p) => Ending(p)')
    BY DEF Pending, Ending
  <1>3. ToTrack(p)' <=> ToTrack(p)
    BY DEF ToTrack, Alive, Tracked
  <1>4. SeenAsIs(w) /\ rows'[p].ip = seen[w].ip /\ rows'[p].device = seen[w].device
          => rows'[p].ip = ports'[p].ip /\ rows'[p].device = ports'[p].device
    BY DEF SeenAsIs
  <1>5. ToTrack(p) => Pending(p) \/ SeenAsIs(w)
    BY <1>1 DEF LiveOf, SoleConsumer
  <1>6. LiveOf(p)'
    BY <1>1, <1>2, <1>3, <1>4, <1>5 DEF LiveOf, UpToDate, IsOpen
  <1>7. GoneOf(p)'
    BY <1>1, <1>2 DEF GoneOf
  <1> QED
    BY <1>6, <1>7

(* The steps of the consumer that are not about a session under way.       *)
LEMMA QueueStep ==
  ASSUME IInv, TrackOK, SoleConsumer, NEW w \in Consumers, NEW e \in events,
         HandleEnd(w, e) \/ IgnorePort(w, e) \/ ReadPort(w, e)
  PROVE  (\A p \in Ports : LiveOf(p)' /\ GoneOf(p)') /\ HandlerOf(w)'
  <1> USE ConstantsAssumption, NoValAssumption
  <1>1. TypeOK /\ TableOK
    BY DEF IInv
  <1>2. w \in Workers /\ e \in EventSet /\ e.port \in Ports
    BY <1>1 DEF Workers, TypeOK, EventSet
  <1>3. pc[w] = "idle" /\ ~Busy(w) /\ \A v \in Consumers : v = w
    BY DEF HandleEnd, IgnorePort, ReadPort, Handles, Busy, SoleConsumer
  <1>4. \A p \in Ports : LiveOf(p) /\ GoneOf(p)
    BY DEF TrackOK
  <1>5. CASE HandleEnd(w, e)
    <2>1. /\ UNCHANGED <<neutron, session>> /\ Deletes(e)
          /\ events \ {e} \subseteq events'
      BY <1>5 DEF HandleEnd, Handled, Deletes
    <2>2. e.port \in gone /\ e.at \in Ends
      BY <1>2, <2>1 DEF TrackOK, DeletedGone, Deletes, EventSet
    <2>3. \A p \in Ports : p # e.port => rows'[p] = rows[p]
      BY <1>1, <1>2, <1>5 DEF HandleEnd, TypeOK
    <2>4. rows'[e.port] = NoVal \/ rows'[e.port].end = e.at
      BY <1>1, <1>2, <1>5 DEF HandleEnd, TypeOK, RowSet
    <2>5. ASSUME NEW p \in Ports, p # e.port PROVE LiveOf(p)' /\ GoneOf(p)'
      <3>1. (Pending(p) => Pending(p)') /\ (Ending(p) => Ending(p)')
        BY <2>1, <2>5 DEF Pending, Ending
      <3> QED
        BY <1>3, <1>4, <2>1, <2>3, <2>5, <3>1, PortKept DEF Busy
    <2>6. ASSUME NEW p \in Ports, p = e.port PROVE LiveOf(p)' /\ GoneOf(p)'
      <3>1. p \in gone' /\ ~IsOpen(p)' /\ ~Handling(p)'
        BY <1>3, <2>1, <2>2, <2>4, <2>6 DEF IsOpen, Handling, Busy
      <3> QED
        BY <3>1 DEF LiveOf, GoneOf, ToTrack, Alive
    <2> QED
      BY <1>3, <2>1, <2>5, <2>6 DEF HandlerOf, Busy
  <1>6. CASE IgnorePort(w, e)
    <2>1. /\ UNCHANGED <<neutron, rows, session>> /\ ~Deletes(e)
          /\ events \ {e} \subseteq events' /\ ~ToTrack(e.port)
      BY <1>6 DEF IgnorePort, Handles, Handled, Deletes, ToTrack, Alive
    <2>2. ASSUME NEW p \in Ports, p # e.port PROVE LiveOf(p)' /\ GoneOf(p)'
      <3>1. (Pending(p) => Pending(p)') /\ (Ending(p) => Ending(p)')
        BY <2>1, <2>2 DEF Pending, Ending
      <3> QED
        BY <1>3, <1>4, <2>1, <2>2, <3>1, PortKept DEF Busy
    <2>3. ASSUME NEW p \in Ports, p = e.port PROVE LiveOf(p)' /\ GoneOf(p)'
      <3>1. Ending(p) => Ending(p)'
        BY <2>1 DEF Ending
      <3>2. ~ToTrack(p)' /\ (IsOpen(p)' <=> IsOpen(p)) /\ (p \in gone' <=> p \in gone)
        BY <2>1, <2>3 DEF ToTrack, Alive, Tracked, IsOpen
      <3>3. ~Handling(p)'
        BY <1>3, <2>1 DEF Handling, Busy
      <3> QED
        BY <1>4, <3>1, <3>2, <3>3 DEF LiveOf, GoneOf
    <2> QED
      BY <1>3, <2>1, <2>2, <2>3 DEF HandlerOf, Busy
  <1>7. CASE ReadPort(w, e)
    <2>1. /\ UNCHANGED <<neutron, rows>> /\ ~Deletes(e) /\ events' = events \ {e}
          /\ e.port \notin gone /\ Tracked(ports[e.port])
      BY <1>7 DEF ReadPort, Handles, Deletes
    <2>2. /\ pc'[w] = "dupes" /\ event'[w] = e /\ target'[w] = e.port
          /\ seen'[w] = ports[e.port] /\ Busy(w)'
      BY <1>1, <1>2, <1>7 DEF ReadPort, TypeOK, Busy
    <2>3. ToTrack(e.port) /\ ports[e.port].ip # NoVal
      BY <1>1, <2>1 DEF TableOK, ToTrack, Alive, Tracked
    <2>4. ASSUME NEW p \in Ports, p # e.port PROVE LiveOf(p)' /\ GoneOf(p)'
      <3>1. (Pending(p) => Pending(p)') /\ (Ending(p) => Ending(p)')
        BY <2>1, <2>4 DEF Pending, Ending
      <3> QED
        BY <1>3, <1>4, <2>1, <2>2, <2>4, <3>1, PortKept DEF Busy
    <2>5. ASSUME NEW p \in Ports, p = e.port PROVE LiveOf(p)' /\ GoneOf(p)'
      <3>1. SeenAsIs(w)' /\ target'[w] = p /\ p \notin gone'
        BY <2>1, <2>2, <2>5 DEF SeenAsIs
      <3> QED
        BY <2>2, <3>1 DEF LiveOf, GoneOf
    <2>6. HandlerOf(w)'
      <3>1. ASSUME NEW q \in Ports, q # e.port, ToTrack(q)'
            PROVE  ports'[q].ip # seen'[w].ip
        <4>1. ToTrack(q)
          BY <2>1, <3>1 DEF ToTrack, Alive, Tracked
        <4> QED
          BY <1>2, <2>1, <2>2, <2>3, <3>1, <4>1 DEF TrackOK, OneAddress, ToTrack
      <3> QED
        BY <2>1, <2>2, <3>1 DEF HandlerOf, Deletes
    <2> QED
      BY <2>4, <2>5, <2>6
  <1> QED
    BY <1>5, <1>6, <1>7

(* Between its read of the port and its last write.                        *)
LEMMA SearchStep ==
  ASSUME IInv, TrackOK, SoleConsumer, NEW w \in Consumers,
         FindDupes(w) \/ CloseDupe(w) \/ LookupOwn(w) \/ InsertConflict(w)
  PROVE  (\A p \in Ports : LiveOf(p)' /\ GoneOf(p)') /\ HandlerOf(w)'
  <1> USE ConstantsAssumption, NoValAssumption
  <1>1. TypeOK /\ SessionOK /\ w \in Workers
    BY DEF IInv, Workers
  <1>2. /\ UNCHANGED <<neutron, events, event, target, seen>>
        /\ Busy(w) /\ Busy(w)' /\ \A v \in Consumers : v = w
    BY <1>1
    DEF FindDupes, CloseDupe, LookupOwn, InsertConflict, Busy, TypeOK,
        SoleConsumer
  <1>3. target[w] \in Ports
    BY <1>1, <1>2, SessionFacts DEF Busy
  <1>4. HandlerOf(w) /\ \A p \in Ports : LiveOf(p) /\ GoneOf(p)
    BY DEF TrackOK
  <1>5. ASSUME NEW p \in Ports, rows'[p] = rows[p]
        PROVE  LiveOf(p)' /\ GoneOf(p)'
    <2>1. (Pending(p) => Pending(p)') /\ (Ending(p) => Ending(p)')
      BY <1>2 DEF Pending, Ending
    <2> QED
      BY <1>2, <1>4, <1>5, <2>1, PortKept
  <1>6. /\ event'[w].port = target'[w] /\ ~Deletes(event'[w])
        /\ \A q \in Ports \ {target'[w]} :
             ToTrack(q)' /\ ~Pending(q)' => ports'[q].ip # seen'[w].ip
    <2>1. \A q \in Ports : (ToTrack(q)' <=> ToTrack(q)) /\ (Pending(q)' <=> Pending(q))
      BY <1>2 DEF ToTrack, Alive, Tracked, Pending
    <2> QED
      BY <1>2, <1>4, <2>1 DEF HandlerOf, Deletes
  <1>7. CASE FindDupes(w)
    <2>1. /\ rows' = rows /\ pc'[w] = "close"
          /\ open'[w] = OpenOnAddress(seen[w].ip, target[w])
      BY <1>1, <1>7 DEF FindDupes, TypeOK
    <2>2. HandlerOf(w)'
      BY <1>2, <1>6, <2>1 DEF HandlerOf, OpenOnAddress, Deletes
    <2> QED
      BY <1>5, <2>1, <2>2
  <1>8. CASE CloseDupe(w)
    <2>1. PICK q \in open[w] :
            /\ rows' = [rows EXCEPT ![q].end = seen[w].created - 1]
            /\ open' = [open EXCEPT ![w] = @ \ {q}]
      BY <1>8 DEF CloseDupe
    <2>2. /\ q \in Ports /\ rows[q] \in RowSet /\ pc[w] = "close"
          /\ q # target[w] /\ rows[q].ip = seen[w].ip
      BY <1>1, <1>2, <1>4, <1>8, <2>1, SessionFacts DEF CloseDupe, HandlerOf
    <2>3. seen[w].created - 1 \in Ends
      BY <1>1, <2>2, SessionFacts DEF PortSet
    <2>4. /\ ~IsOpen(q)' /\ rows'[q].ip = rows[q].ip
          /\ \A p \in Ports : p # q => rows'[p] = rows[p]
      BY <1>1, <2>1, <2>2, <2>3 DEF IsOpen, TypeOK, RowSet
    <2>5. ~Handling(q) /\ ~Handling(q)'
      BY <1>2, <2>2 DEF Handling, Busy
    <2>6. ToTrack(q) => Pending(q)
      <3>1. ToTrack(q) /\ ~Pending(q) => ~UpToDate(q)
        BY <1>2, <1>4, <2>2 DEF HandlerOf, UpToDate
      <3>2. LiveOf(q)
        BY <1>4, <2>2
      <3> QED
        BY <1>2, <2>2, <3>1, <3>2 DEF LiveOf
    <2>7. LiveOf(q)' /\ GoneOf(q)'
      <3>1. (ToTrack(q)' <=> ToTrack(q)) /\ (Pending(q)' <=> Pending(q))
        BY <1>2 DEF ToTrack, Alive, Tracked, Pending
      <3> QED
        BY <2>4, <2>5, <2>6, <3>1 DEF LiveOf, GoneOf
    <2>8. \A p \in Ports : LiveOf(p)' /\ GoneOf(p)'
      BY <1>5, <2>4, <2>7
    <2>9. pc' = pc /\ open'[w] = open[w] \ {q} /\ open[w] \subseteq Ports
      BY <1>1, <1>8, <2>1 DEF CloseDupe, TypeOK
    <2>10. \A p \in open'[w] : p # target'[w] /\ rows'[p].ip = seen'[w].ip
      BY <1>2, <1>4, <2>2, <2>4, <2>9 DEF HandlerOf
    <2>11. HandlerOf(w)'
      BY <1>6, <2>2, <2>9, <2>10 DEF HandlerOf, Deletes
    <2> QED
      BY <2>8, <2>11
  <1>9. CASE LookupOwn(w) \/ InsertConflict(w)
    <2>1. /\ rows' = rows /\ own'[w] = rows[target[w]]
          /\ pc'[w] \in {"insert", "update"}
          /\ pc'[w] = "update" => rows[target[w]] # NoVal
      BY <1>1, <1>9 DEF LookupOwn, InsertConflict, TypeOK
    <2>2. HandlerOf(w)'
      BY <1>2, <1>6, <2>1 DEF HandlerOf, IsOpen, Deletes
    <2> QED
      BY <1>5, <2>1, <2>2
  <1> QED
    BY <1>7, <1>8, <1>9

(* Its last write, or a failure.                                           *)
LEMMA ReturnStep ==
  ASSUME IInv, TrackOK, SoleConsumer, NEW w \in Consumers,
         Insert(w) \/ Update(w) \/ Fail(w)
  PROVE  (\A p \in Ports : LiveOf(p)' /\ GoneOf(p)') /\ HandlerOf(w)'
  <1> USE ConstantsAssumption, NoValAssumption
  <1>1. TypeOK /\ SessionOK /\ w \in Workers
    BY DEF IInv, Workers
  <1>2. /\ UNCHANGED neutron /\ Close(w) /\ ~Busy(w)' /\ pc'[w] = "idle"
        /\ \A v \in Consumers : v = w
    BY <1>1 DEF Insert, Update, Fail, Close, Busy, TypeOK, SoleConsumer
  <1>3. HandlerOf(w)'
    BY <1>2 DEF HandlerOf
  <1>4. HandlerOf(w) /\ \A p \in Ports : LiveOf(p) /\ GoneOf(p)
    BY DEF TrackOK
  <1>5. events \subseteq events'
    BY DEF Insert, Update, Fail, Handled
  <1>6. \A p \in Ports : (Pending(p) => Pending(p)') /\ (Ending(p) => Ending(p)')
    BY <1>5 DEF Pending, Ending
  <1>7. ASSUME NEW p \in Ports, rows'[p] = rows[p], ~(Busy(w) /\ target[w] = p)
        PROVE  LiveOf(p)' /\ GoneOf(p)'
    BY <1>2, <1>4, <1>6, <1>7, PortKept
  <1>8. ASSUME NEW p \in Ports, p = target[w], Insert(w)
        PROVE  LiveOf(p)' /\ GoneOf(p)'
    <2>1. Busy(w) /\ seen[w] \in PortSet /\ Tracked(seen[w])
      BY <1>1, <1>8, SessionFacts DEF Insert, Busy
    <2>2. rows'[p] = NewRow(seen[w])
      BY <1>1, <1>8 DEF Insert, TypeOK
    <2>3. NewRow(seen[w]) # NoVal
      BY <2>1, NewRowType
    <2>4. /\ NewRow(seen[w]).end = NoVal /\ NewRow(seen[w]).ip = seen[w].ip
          /\ NewRow(seen[w]).device = seen[w].device
      BY DEF NewRow
    <2> QED
      BY <1>2, <1>4, <1>5, <1>8, <2>1, <2>2, <2>3, <2>4, PortSettled
  <1>9. ASSUME NEW p \in Ports, p = target[w], Update(w)
        PROVE  LiveOf(p)' /\ GoneOf(p)'
    <2>1. /\ Busy(w) /\ seen[w] \in PortSet /\ Tracked(seen[w])
          /\ own[w] \in RowSet /\ rows[p] \in RowSet /\ pc[w] = "update"
      BY <1>1, <1>9, SessionFacts DEF Update, Busy
    <2> DEFINE r == Refreshed(rows[p], own[w], seen[w])
    <2>2. rows'[p] = r
      BY <1>1, <1>9 DEF Update, TypeOK
    <2>3. /\ own[w].ip = rows[p].ip /\ own[w].device = rows[p].device
          /\ own[w].end = NoVal => IsOpen(p) \/ p \in gone
      BY <1>4, <1>9, <2>1 DEF HandlerOf
    <2>4. /\ r \in RowSet /\ r.ip = seen[w].ip /\ r.device = seen[w].device
          /\ IsOpen(p) \/ own[w].end # NoVal => r.end = NoVal
      <3>1. r \in RowSet
        BY <2>1, RefreshedType
      <3>2. /\ r.ip = Written(own[w].ip, seen[w].ip, rows[p].ip)
            /\ r.device = Written(own[w].device, seen[w].device, rows[p].device)
            /\ r.end = Written(own[w].end, NoVal, rows[p].end)
        BY <2>1 DEF Refreshed, RowSet
      <3> HIDE DEF r
      <3> QED
        BY <2>3, <3>1, <3>2 DEF Written, IsOpen
    <2> HIDE DEF r
    <2>5. ToTrack(p) => r.end = NoVal
      BY <2>3, <2>4 DEF ToTrack, Alive
    <2> QED
      BY <1>2, <1>4, <1>5, <1>9, <2>1, <2>2, <2>4, <2>5, PortSettled
  <1>10. ASSUME NEW p \in Ports, p = target[w], Fail(w), Busy(w)
         PROVE  LiveOf(p)' /\ GoneOf(p)'
    <2>1. event[w] # NoVal /\ event[w].port = p /\ ~Deletes(event[w])
      BY <1>1, <1>4, <1>10 DEF HandlerOf, SessionOK, SessionOf, Busy
    <2>2. event[w] \in events'
      BY <1>10, <2>1 DEF Fail
    <2>3. Pending(p)'
      BY <2>1, <2>2 DEF Pending, Deletes
    <2> QED
      BY <1>2, <1>4, <1>5, <1>10, <2>3, PortSettled
  <1>11. CASE Fail(w)
    <2>1. rows' = rows
      BY <1>11 DEF Fail
    <2> QED
      BY <1>3, <1>7, <1>10, <1>11, <2>1
  <1>12. CASE Insert(w) \/ Update(w)
    <2>1. \A p \in Ports : p # target[w] => rows'[p] = rows[p]
      BY <1>1, <1>12 DEF Insert, Update, TypeOK
    <2> QED
      BY <1>3, <1>7, <1>8, <1>9, <1>12, <2>1
  <1> QED
    BY <1>11, <1>12

(* Reconciling, failures of it, and the clock.                             *)
LEMMA OtherStep ==
  ASSUME IInv, TrackOK, UNCHANGED neutron, events \subseteq events',
         \A w \in Consumers : Untouched(w) /\ open'[w] = open[w],
         \/ UNCHANGED rows
         \/ \E v \in Reconcilers : ReconcileEnd(v)
  PROVE  /\ \A p \in Ports : LiveOf(p)' /\ GoneOf(p)'
         /\ \A w \in Consumers : HandlerOf(w)'
  <1> USE ConstantsAssumption, NoValAssumption
  <1>1. TypeOK /\ SessionOK
    BY DEF IInv
  <1>2. \A p \in Ports : LiveOf(p) /\ GoneOf(p)
    BY DEF TrackOK
  <1>3. \A w \in Consumers : (Busy(w)' <=> Busy(w)) /\ UNCHANGED <<target[w], seen[w]>>
    BY DEF Untouched, Busy
  <1>4. ASSUME NEW p \in Ports
        PROVE  \/ rows'[p] = rows[p]
               \/ /\ p \in gone /\ ~IsOpen(p)' /\ rows'[p].ip = rows[p].ip
                  /\ rows'[p].device = rows[p].device
    <2>1. ASSUME NEW v \in Reconcilers, ReconcileEnd(v), p \in absent[v]
          PROVE  /\ p \in gone /\ ~IsOpen(p)' /\ rows'[p].ip = rows[p].ip
                 /\ rows'[p].device = rows[p].device
      <3>1. v \in Workers
        BY DEF Workers
      <3>2. p \in gone /\ rows[p] \in RowSet
        BY <1>1, <2>1, <3>1, SessionFacts DEF SessionOK, SessionOf
      <3>3. rows'[p] = [rows[p] EXCEPT !.end = now] /\ now # NoVal
        BY <1>1, <2>1 DEF ReconcileEnd, TypeOK
      <3> QED
        BY <3>2, <3>3 DEF RowSet, IsOpen
    <2>2. ASSUME NEW v \in Reconcilers, ReconcileEnd(v), p \notin absent[v]
          PROVE  rows'[p] = rows[p]
      BY <2>2 DEF ReconcileEnd
    <2> QED
      BY <2>1, <2>2
  <1>5. \A p \in Ports : (Pending(p) => Pending(p)') /\ (Ending(p) => Ending(p)')
    BY DEF Pending, Ending
  <1>6. ASSUME NEW p \in Ports PROVE LiveOf(p)' /\ GoneOf(p)'
    <2>1. CASE rows'[p] = rows[p]
      BY <1>2, <1>3, <1>5, <2>1, PortKept
    <2>2. CASE p \in gone /\ ~IsOpen(p)'
      <3>1. Handling(p)' <=> Handling(p)
        BY <1>3 DEF Handling
      <3>2. GoneOf(p)
        BY <1>2
      <3> QED
        BY <1>5, <2>2, <3>1, <3>2 DEF LiveOf, GoneOf, ToTrack, Alive
    <2> QED
      BY <1>4, <2>1, <2>2
  <1>7. ASSUME NEW w \in Consumers PROVE HandlerOf(w)'
    <2>1. HandlerOf(w) /\ Untouched(w) /\ open'[w] = open[w] /\ w \in Workers
      BY DEF TrackOK, Workers
    <2>2. \A p \in Ports : rows[p] # NoVal =>
            rows'[p].ip = rows[p].ip /\ rows'[p].device = rows[p].device
      BY <1>4
    <2>3. \A p \in Ports : IsOpen(p) \/ p \in gone => IsOpen(p)' \/ p \in gone'
      BY <1>4 DEF IsOpen
    <2>4. \A q \in Ports : (ToTrack(q)' <=> ToTrack(q)) /\ (~Pending(q)' => ~Pending(q))
      BY <1>5 DEF ToTrack, Alive, Tracked
    <2>5. Busy(w) => target[w] \in Ports
      BY <1>1, <2>1, SessionFacts DEF Busy
    <2>6. /\ \A q \in open[w] : q \in Ports /\ rows[q] # NoVal
          /\ pc[w] = "update" => rows[target[w]] # NoVal
      BY <1>1, <2>1, SessionFacts DEF SessionOK, SessionOf
    <2>7. /\ Busy(w)' <=> Busy(w)
          /\ pc'[w] = pc[w] /\ event'[w] = event[w] /\ target'[w] = target[w]
          /\ seen'[w] = seen[w] /\ own'[w] = own[w]
      BY <2>1 DEF Untouched, Busy
    <2>8. /\ Busy(w) => /\ event'[w].port = target'[w] /\ ~Deletes(event'[w])
                        /\ \A q \in Ports \ {target'[w]} :
                             ToTrack(q)' /\ ~Pending(q)' => ports'[q].ip # seen'[w].ip
      BY <2>1, <2>4, <2>7 DEF HandlerOf, Deletes
    <2>9. pc'[w] = "close" =>
             \A q \in open'[w] : q # target'[w] /\ rows'[q].ip = seen'[w].ip
      BY <2>1, <2>2, <2>6, <2>7 DEF HandlerOf, Busy
    <2>10. pc'[w] = "update" =>
             /\ own'[w].ip = rows'[target'[w]].ip
             /\ own'[w].device = rows'[target'[w]].device
             /\ own'[w].end = NoVal => IsOpen(target[w])' \/ target'[w] \in gone'
      BY <2>1, <2>2, <2>3, <2>5, <2>6, <2>7 DEF HandlerOf, Busy, IsOpen
    <2> QED
      BY <2>7, <2>8, <2>9, <2>10 DEF HandlerOf, Deletes
  <1> QED
    BY <1>6, <1>7

LEMMA NeutronStep ==
  ASSUME IInv, TrackOK, NEW p \in Ports,
         \/ \E ip \in IPs, d \in Devices : CreatePort(p, ip, d)
         \/ \E ip \in IPs \cup {NoVal}, d \in Devices \cup {NoVal} :
                UpdatePort(p, ip, d)
         \/ DeletePort(p)
  PROVE  /\ \A q \in Ports : LiveOf(q)' /\ GoneOf(q)'
         /\ \A w \in Consumers : HandlerOf(w)'
  <1>1. TypeOK /\ TableOK
    BY DEF IInv
  <1>2. ASSUME NEW e, e \in events', e.port = p
        PROVE  (~Deletes(e) => Pending(p)') /\ (Deletes(e) => Ending(p)')
    BY <1>2 DEF Pending, Ending, Deletes
  <1>3. ASSUME NEW ip \in IPs, NEW d \in Devices, CreatePort(p, ip, d)
        PROVE  Pending(p)' /\ p \notin gone' /\ events \subseteq events'
    <2> DEFINE e == [kind |-> "port.create.end", port |-> p]
    <2>1. e \in events' /\ e.port = p /\ ~Deletes(e) /\ events \subseteq events'
      BY <1>3 DEF CreatePort, Deletes
    <2>2. p \notin gone'
      BY <1>1, <1>3 DEF CreatePort, TableOK
    <2> QED
      BY <1>2, <2>1, <2>2
  <1>4. ASSUME NEW ip \in IPs \cup {NoVal}, NEW d \in Devices \cup {NoVal},
               UpdatePort(p, ip, d)
        PROVE  Pending(p)' /\ p \notin gone' /\ events \subseteq events'
    <2> DEFINE e == [kind |-> "port.update.end", port |-> p]
    <2>1. e \in events' /\ e.port = p /\ ~Deletes(e) /\ events \subseteq events'
      BY <1>4 DEF UpdatePort, Deletes
    <2>2. p \notin gone'
      BY <1>4 DEF UpdatePort, Alive
    <2> QED
      BY <1>2, <2>1, <2>2
  <1>5. ASSUME DeletePort(p)
        PROVE  Ending(p)' /\ p \in gone' /\ events \subseteq events'
    <2> DEFINE e == [kind |-> "port.delete.end", port |-> p, at |-> now]
    <2>1. e \in events' /\ e.port = p /\ Deletes(e) /\ events \subseteq events'
      BY <1>5 DEF DeletePort, Deletes
    <2>2. p \in gone'
      BY <1>5 DEF DeletePort
    <2> QED
      BY <1>2, <2>1, <2>2
  <1>6. UNCHANGED <<rows, session>> /\ gone \subseteq gone'
    BY DEF CreatePort, UpdatePort, DeletePort
  <1>7. \A q \in Ports \ {p} : ports'[q] = ports[q] /\ (q \in gone' <=> q \in gone)
    BY <1>1 DEF CreatePort, UpdatePort, DeletePort, TypeOK
  <1>8. /\ events \subseteq events'
        /\ (Pending(p)' /\ p \notin gone') \/ (Ending(p)' /\ p \in gone')
    BY <1>3, <1>4, <1>5
  <1>9. (UNCHANGED <<rows, session>>) /\ gone \subseteq gone' /\ events \subseteq events'
    BY <1>6, <1>8
  <1> QED
    BY <1>7, <1>8, <1>9, PortChanges

(* What is queued again is of a port that is still there, or was queued.   *)
LEMMA DeletedStep ==
  ASSUME IInv, TrackOK, [Next]_vars
  PROVE  DeletedGone'
  <1> USE ConstantsAssumption, NoValAssumption
  <1>1. TypeOK /\ TableOK /\ SessionOK
    BY DEF IInv
  <1>2. gone \subseteq gone'
    BY <1>1, Monotone
  <1> SUFFICES ASSUME NEW e \in events', Deletes(e), e \notin events
               PROVE  e.port \in gone'
    BY <1>2 DEF TrackOK, DeletedGone, Deletes
  <1>3. ASSUME NEW w \in Workers, e = event[w], event[w] # NoVal PROVE FALSE
    BY <1>3 DEF TrackOK, RolesOK, HandlerOf
  <1>4. ASSUME NEW w \in Consumers, Consume(w) PROVE FALSE
    <2>1. w \in Workers
      BY DEF Workers
    <2>2. ASSUME NEW f \in events, HandleEnd(w, f) \/ IgnorePort(w, f)
          PROVE  events' \subseteq events
      BY <2>2, HandledQueue DEF HandleEnd, IgnorePort
    <2>3. CASE Insert(w) \/ Update(w)
      <3>1. events' \subseteq events \cup {event[w]}
        BY <2>3, HandledQueue DEF Insert, Update
      <3>2. event[w] # NoVal
        BY <1>1, <2>1, <2>3 DEF Insert, Update, SessionOK, SessionOf
      <3> QED
        BY <1>3, <2>1, <3>1, <3>2
    <2> QED
      BY <1>4, <2>2, <2>3
      DEF Consume, ReadPort, FindDupes, CloseDupe, LookupOwn, InsertConflict
  <1>5. ASSUME NEW w \in Workers, Fail(w) PROVE FALSE
    BY <1>3, <1>5 DEF Fail
  <1>6. ASSUME NEW p \in Ports, DeletePort(p) PROVE e.port \in gone'
    BY <1>6 DEF DeletePort
  <1>7. ASSUME NEW p, NEW ip, NEW d, CreatePort(p, ip, d) \/ UpdatePort(p, ip, d)
        PROVE  FALSE
    BY <1>7 DEF CreatePort, UpdatePort, Deletes
  <1> QED
    BY <1>4, <1>5, <1>6, <1>7, Queuers

LEMMA TrackStep ==
  ASSUME IInv, TrackOK, [Next]_vars, SoleConsumer, Recorders = {}, ~Lossy
  PROVE  TrackOK'
  <1> USE ConstantsAssumption
  <1> DEFINE Rest == /\ \A p \in Ports : LiveOf(p)' /\ GoneOf(p)'
                     /\ \A w \in Consumers : HandlerOf(w)'
  <1>1. TypeOK
    BY DEF IInv
  <1>2. RolesOK' /\ OneAddress' /\ DeletedGone'
    BY RolesStep, AddressesStep, DeletedStep DEF TrackOK
  <1>3. ASSUME NEW p \in Ports,
               \/ \E ip \in IPs, d \in Devices : CreatePort(p, ip, d)
               \/ \E ip \in IPs \cup {NoVal}, d \in Devices \cup {NoVal} :
                      UpdatePort(p, ip, d)
               \/ DeletePort(p)
        PROVE  Rest
    BY <1>3, NeutronStep
  <1>4. ASSUME NEW w \in Consumers, Consume(w) \/ Fail(w) PROVE Rest
    <2>1. \A v \in Consumers : v = w
      BY DEF SoleConsumer
    <2>2. (\A p \in Ports : LiveOf(p)' /\ GoneOf(p)') /\ HandlerOf(w)'
      BY <1>4, QueueStep, SearchStep, ReturnStep DEF Consume
    <2> QED
      BY <2>1, <2>2
  <1>5. ASSUME NEW v \in Workers, v \notin Consumers,
               \/ v \in Reconcilers /\ \/ ReconcileRead(v) \/ ReconcileList(v)
                                       \/ ReconcileEnd(v)
               \/ Fail(v)
        PROVE  Rest
    <2>1. StepOf(v) /\ UNCHANGED neutron /\ events \subseteq events'
      BY <1>5 DEF StepOf, ReconcileRead, ReconcileList, ReconcileEnd, Fail
    <2>2. \A w \in Consumers : w \in Workers /\ w # v
      BY <1>5 DEF Workers
    <2>3. \A w \in Consumers : Untouched(w) /\ open'[w] = open[w]
      BY <1>1, <2>1, <2>2, OthersUntouched
    <2>4. UNCHANGED rows \/ \E u \in Reconcilers : ReconcileEnd(u)
      BY <1>5 DEF ReconcileRead, ReconcileList, Fail
    <2> QED
      BY <2>1, <2>3, <2>4, OtherStep
  <1>6. ASSUME UNCHANGED <<neutron, rows, events, session>> PROVE Rest
    <2>1. \A w \in Consumers : Untouched(w) /\ open'[w] = open[w]
      BY <1>6 DEF Untouched
    <2> QED
      BY <1>6, <2>1, OtherStep
  <1>7. Rest
    <2>1. CASE \E v \in Workers : Fail(v)
      BY <1>4, <1>5, <2>1
    <2>2. CASE \E w \in Reconcilers :
                  ReconcileRead(w) \/ ReconcileList(w) \/ ReconcileEnd(w)
      BY <1>5, <2>2 DEF Workers
    <2> QED
      BY <1>3, <1>4, <1>6, <2>1, <2>2 DEF Next, LoseEvent, Tick, Quiet, vars
  <1> QED
    BY <1>2, <1>7 DEF TrackOK

(* With a single consumer and no loss the table follows neutron, however   *)
(* ports move while their notifications wait, fail, or are handled again,  *)
(* and however often the reconcile task runs in between.                   *)
THEOREM OneConsumerTracks ==
  ASSUME SoleConsumer, Recorders = {}, ~Lossy
  PROVE  Spec => []TracksPorts
  <1>1. Init => TrackOK
    BY ConstantsAssumption
    DEF Init, TrackOK, RolesOK, Busy, OneAddress, Alive, DeletedGone, LiveOf,
        ToTrack, GoneOf, HandlerOf, Workers
  <1>2. IInv /\ TrackOK /\ [Next]_vars => TrackOK'
    BY TrackStep
  <1>3. TrackOK => TracksPorts
    <2> SUFFICES ASSUME TrackOK, Settled, NEW p \in Ports
                 PROVE  /\ ToTrack(p) => UpToDate(p)
                        /\ p \in gone => ~IsOpen(p)
      BY DEF TracksPorts, ToTrack, UpToDate
    <2>1. ~Pending(p) /\ ~Ending(p)
      BY DEF Settled, Pending, Ending
    <2>2. \A w \in Consumers : ~Busy(w)
      BY DEF Settled, Busy, Workers
    <2> QED
      BY <2>1, <2>2 DEF TrackOK, LiveOf, GoneOf
  <1> QED
    BY <1>1, <1>2, <1>3, Invariance, PTL DEF Spec

(* The same consumer leaves an address one open row, without a condition   *)
(* on what it does.                                                        *)
THEOREM OneConsumerOwns ==
  ASSUME SoleConsumer, Recorders = {}
  PROVE  Spec => []OneOpenRow
  <1>1. Init => RolesOK
    BY ConstantsAssumption DEF Init, RolesOK, Busy
  <1>2. IInv /\ RolesOK /\ [Next]_vars => RolesOK'
    BY RolesStep
  <1>3. RolesOK => Serially
    BY DEF RolesOK, Serially, SoleConsumer
  <1> QED
    BY <1>1, <1>2, <1>3, Invariance, SerialHandling, PTL DEF Spec

-----------------------------------------------------------------------------
(* Addresses that stay with their ports: whose past is whose.              *)

StaysPut == ~Moving /\ Reconcilers = {} /\ Recorders = {}

EndsAfter(p, t) == rows[p] # NoVal /\ rows[p].end # NoVal /\ rows[p].end > t

OpenTo(w, p) == pc[w] = "dupes" \/ (pc[w] = "close" /\ p \in open[w])

(* Of two ports of an address p was deleted before q was created.  While   *)
(* the row of p is open, or late in ending, q has no row, and whoever      *)
(* handles q has yet to close that of p.                                   *)
Before(p, q) ==
    /\ p \in gone /\ ports[p].created <= ports[q].created
    /\ \A e \in events : Deletes(e) /\ e.port = p => e.at <= ports[q].created
    /\ Handling(p) => rows[q] = NoVal
    /\ IsOpen(p) =>
        /\ rows[q] = NoVal
        /\ \A w \in Consumers : Busy(w) /\ target[w] = q => OpenTo(w, p)
    /\ EndsAfter(p, ports[q].created) =>
        rows[q] = NoVal /\ q \in gone /\ ~Handling(q)

InTurn ==
    \A p, q \in Ports :
        /\ p # q /\ ports[p] # NoVal /\ ports[q] # NoVal
        /\ ports[p].ip = ports[q].ip
        => Before(p, q) \/ Before(q, p)

TimesOK ==
    /\ \A p \in Ports :
        ports[p] # NoVal => ports[p].ip # NoVal /\ ports[p].created <= now
    /\ \A e \in events : Deletes(e) => e.port \in gone /\ e.at <= now

(* A row is of the address and the creation of its port.                   *)
RowFixed(p) ==
    rows[p] # NoVal =>
        /\ rows[p].ip = ports[p].ip /\ rows[p].start = ports[p].created
        /\ rows[p].end # NoVal => p \in gone /\ rows[p].end <= now

SeenFixed(w) ==
    Busy(w) =>
        /\ ~Deletes(event[w])
        /\ seen[w].ip = ports[target[w]].ip
        /\ seen[w].created = ports[target[w]].created
        /\ rows[target[w]] = NoVal \/ IsOpen(target[w])
        /\ pc[w] = "update" => own[w].ip = seen[w].ip /\ own[w].end = NoVal
        /\ pc[w] = "close" => \A q \in open[w] :
                q # target[w] /\ IsOpen(q) /\ rows[q].ip = seen[w].ip

PeriodOK ==
    /\ RolesOK /\ TimesOK /\ InTurn
    /\ \A p \in Ports : RowFixed(p)
    /\ \A w \in Consumers : SeenFixed(w)

LEMMA InTurnDisjoint ==
  ASSUME TypeOK, TableOK, PeriodOK
  PROVE  PeriodsDisjoint
  <1> USE ConstantsAssumption, NoValAssumption
  <1>1. ASSUME NEW p \in Ports, NEW q \in Ports, Before(p, q),
               rows[p] # NoVal, rows[q] # NoVal
        PROVE  EndsBy(rows[p], rows[q].start)
    <2>1. ~IsOpen(p) /\ ~EndsAfter(p, ports[q].created)
      BY <1>1 DEF Before
    <2>2. rows[q].start = ports[q].created
      BY <1>1 DEF PeriodOK, RowFixed
    <2>3. rows[p] \in RowSet /\ rows[q] \in RowSet
      BY <1>1 DEF TypeOK
    <2>4. rows[p].end \in Int /\ rows[q].start \in Int
      BY <1>1, <2>1, <2>3 DEF RowSet, IsOpen
    <2> QED
      BY <1>1, <2>1, <2>2, <2>4 DEF IsOpen, EndsAfter, EndsBy
  <1> SUFFICES ASSUME NEW p \in Ports, NEW q \in Ports, p # q,
                      rows[p] # NoVal, rows[q] # NoVal,
                      rows[p].ip = rows[q].ip
               PROVE  \/ EndsBy(rows[p], rows[q].start)
                      \/ EndsBy(rows[q], rows[p].start)
    BY DEF PeriodsDisjoint
  <1>2. /\ ports[p] # NoVal /\ ports[q] # NoVal
        /\ ports[p].ip = ports[q].ip
    BY DEF TableOK, PeriodOK, RowFixed
  <1>3. Before(p, q) \/ Before(q, p)
    BY <1>2 DEF PeriodOK, InTurn
  <1> QED
    BY <1>1, <1>3

(* What a step may do to the two and leave them in turn.                   *)
RowAsWas(p) ==
    /\ rows'[p] = NoVal <=> rows[p] = NoVal
    /\ IsOpen(p)' => IsOpen(p)
    /\ rows[p] # NoVal =>
        rows'[p].ip = rows[p].ip /\ rows'[p].start = rows[p].start

SameEnd(p) == rows[p] # NoVal => rows'[p].end = rows[p].end

LEMMA BeforeKept ==
  ASSUME NEW p \in Ports, NEW q \in Ports, Before(p, q),
         ports'[p].created = ports[p].created,
         ports'[q].created = ports[q].created, gone \subseteq gone',
         \A e \in events' : Deletes(e) /\ e.port = p => e \in events,
         RowAsWas(p), RowAsWas(q),
         \/ SameEnd(p)
         \/ ~EndsAfter(p, ports[q].created)'
         \/ rows[q] = NoVal /\ q \in gone /\ ~Handling(q),
         Handling(p)' => Handling(p), Handling(q)' => Handling(q),
         \A w \in Consumers :
            Busy(w)' /\ target'[w] = q =>
                /\ Busy(w) /\ target[w] = q
                /\ OpenTo(w, p) => OpenTo(w, p)' \/ ~IsOpen(p)'
  PROVE  Before(p, q)'
  <1>1. EndsAfter(p, ports[q].created)'
          => rows'[q] = NoVal /\ q \in gone' /\ ~Handling(q)'
    BY DEF Before, EndsAfter, SameEnd, RowAsWas
  <1>2. IsOpen(p)' =>
          /\ rows'[q] = NoVal
          /\ \A w \in Consumers :
                Busy(w)' /\ target'[w] = q => OpenTo(w, p)'
    BY DEF Before, RowAsWas
  <1>3. /\ p \in gone' /\ ports'[p].created <= ports'[q].created
        /\ \A e \in events' :
              Deletes(e) /\ e.port = p => e.at <= ports'[q].created
        /\ Handling(p)' => rows'[q] = NoVal
    BY DEF Before, RowAsWas, Deletes
  <1> QED
    BY <1>1, <1>2, <1>3 DEF Before, Deletes

(* neutron as it was, or a port of it attached elsewhere or deleted.       *)
SamePorts ==
    /\ \A p \in Ports :
        /\ ports'[p] = NoVal <=> ports[p] = NoVal
        /\ ports'[p].ip = ports[p].ip /\ ports'[p].created = ports[p].created
    /\ gone \subseteq gone'

LEMMA PeriodsKept ==
  ASSUME IInv, PeriodOK, [Next]_vars, SamePorts, UNCHANGED <<rows, session>>,
         now <= now',
         \A e \in events' : Deletes(e) =>
            \/ e \in events
            \/ e.port \notin gone /\ e.port \in gone' /\ e.at <= now'
  PROVE  PeriodOK'
  <1> USE ConstantsAssumption, NoValAssumption
  <1>1. TypeOK /\ TableOK /\ SessionOK /\ TypeOK'
    BY TypeStep DEF IInv
  <1>2. RolesOK'
    BY RolesStep DEF PeriodOK
  <1>3. TimesOK'
    <2>1. \A p \in Ports : ports[p] # NoVal => ports[p].created \in Int
      BY <1>1 DEF TypeOK, PortSet
    <2>2. now \in Int /\ now' \in Int
      BY <1>1 DEF TypeOK
    <2>3. ASSUME NEW p \in Ports, ports'[p] # NoVal
          PROVE  ports'[p].ip # NoVal /\ ports'[p].created <= now'
      BY <2>1, <2>2, <2>3 DEF PeriodOK, TimesOK, SamePorts
    <2>4. ASSUME NEW e \in events, Deletes(e)
          PROVE  e.port \in gone' /\ e.at <= now'
      <3>1. e.at \in Int
        BY <1>1, <2>4 DEF TypeOK, EventSet, Deletes
      <3> QED
        BY <2>2, <2>4, <3>1 DEF PeriodOK, TimesOK, SamePorts
    <2> QED
      BY <2>3, <2>4 DEF TimesOK, Deletes
  <1>4. ASSUME NEW p \in Ports PROVE RowFixed(p)'
    <2>1. rows[p] # NoVal /\ rows[p].end # NoVal => rows[p].end \in Int
      BY <1>1 DEF TypeOK, RowSet
    <2>2. now \in Int /\ now' \in Int
      BY <1>1 DEF TypeOK
    <2> QED
      BY <2>1, <2>2 DEF PeriodOK, RowFixed, SamePorts
  <1>5. ASSUME NEW w \in Consumers PROVE SeenFixed(w)'
    <2>1. Busy(w) => target[w] \in Ports
      BY <1>1, SessionFacts DEF Busy, Workers
    <2>2. SeenFixed(w)
      BY DEF PeriodOK
    <2> QED
      BY <2>1, <2>2 DEF SeenFixed, SamePorts, Busy, IsOpen, Deletes
  <1>6. InTurn'
    <2>1. ASSUME NEW p \in Ports, NEW q \in Ports, Before(p, q)
          PROVE  Before(p, q)'
      <3>1. /\ \A e \in events' : Deletes(e) /\ e.port = p => e \in events
            /\ RowAsWas(p) /\ RowAsWas(q) /\ SameEnd(p)
        BY <2>1 DEF Before, RowAsWas, SameEnd, IsOpen
      <3>2. /\ Handling(p)' => Handling(p)
            /\ Handling(q)' => Handling(q)
            /\ \A w \in Consumers :
                Busy(w)' /\ target'[w] = q =>
                    /\ Busy(w) /\ target[w] = q
                    /\ OpenTo(w, p) => OpenTo(w, p)' \/ ~IsOpen(p)'
        BY DEF Handling, Busy, OpenTo
      <3> QED
        BY <2>1, <3>1, <3>2, BeforeKept DEF SamePorts
    <2> QED
      BY <2>1 DEF PeriodOK, InTurn, SamePorts
  <1> QED
    BY <1>2, <1>3, <1>4, <1>5, <1>6 DEF PeriodOK

LEMMA CreateStep ==
  ASSUME IInv, PeriodOK, [Next]_vars,
         NEW p \in Ports, NEW ip \in IPs, NEW d \in Devices,
         CreatePort(p, ip, d)
  PROVE  PeriodOK'
  <1> USE ConstantsAssumption, NoValAssumption
  <1>1. TypeOK /\ TableOK /\ SessionOK
    BY DEF IInv
  <1> DEFINE new == [ip |-> ip, device |-> d, created |-> now]
  <1>2. /\ ports[p] = NoVal /\ ports'[p] = new /\ new # NoVal
        /\ \A q \in Ports \ {p} : ports'[q] = ports[q]
    <2>1. new \in PortSet
      BY <1>1 DEF PortSet, TypeOK
    <2> QED
      BY <1>1, <2>1 DEF CreatePort, TypeOK
  <1>3. new.ip = ip /\ new.created = now /\ ip # NoVal /\ now \in Int
    BY <1>1 DEF TypeOK
  <1> HIDE DEF new
  <1>4. /\ UNCHANGED <<gone, rows, session, now>>
        /\ \A e \in events' : Deletes(e) => e \in events
    BY DEF CreatePort, Deletes
  <1>5. p \notin gone /\ rows[p] = NoVal
    BY <1>1, <1>2 DEF TableOK
  <1>6. \A w \in Consumers : Busy(w) => target[w] # p
    BY <1>1, <1>2 DEF SessionOK, SessionOf, Busy, Workers
  <1>7. TimesOK'
    BY <1>2, <1>3, <1>4 DEF PeriodOK, TimesOK, Deletes
  <1>8. ASSUME NEW q \in Ports PROVE RowFixed(q)'
    BY <1>2, <1>4, <1>5 DEF PeriodOK, RowFixed
  <1>9. ASSUME NEW w \in Consumers PROVE SeenFixed(w)'
    <2>1. Busy(w) => target[w] \in Ports
      BY <1>1, SessionFacts DEF Busy, Workers
    <2>2. SeenFixed(w)
      BY DEF PeriodOK
    <2> QED
      BY <1>2, <1>4, <1>6, <2>1, <2>2
      DEF SeenFixed, Busy, IsOpen, Deletes
  <1>10. ASSUME NEW q \in Ports, q # p, ports[q] # NoVal, ports[q].ip = ip
         PROVE  Before(q, p)'
    <2>1. q \in gone
      BY <1>10 DEF CreatePort, FreeFor, Alive
    <2>2. ports'[q].created <= now /\ ports'[p].created = now
      BY <1>2, <1>3, <1>10 DEF PeriodOK, TimesOK
    <2>3. \A e \in events' : Deletes(e) => e.at <= now
      BY <1>4 DEF PeriodOK, TimesOK
    <2>4. ~EndsAfter(q, now)
      <3>1. rows[q] # NoVal /\ rows[q].end # NoVal =>
              rows[q].end \in Int /\ rows[q].end <= now
        BY <1>1 DEF PeriodOK, RowFixed, TypeOK, RowSet
      <3> QED
        BY <1>3, <3>1 DEF EndsAfter
    <2>5. \A w \in Consumers : ~(Busy(w)' /\ target'[w] = p)
      BY <1>4, <1>6 DEF Busy
    <2> QED
      BY <1>4, <1>5, <2>1, <2>2, <2>3, <2>4, <2>5
      DEF Before, EndsAfter, Deletes
  <1>11. ASSUME NEW a \in Ports, NEW b \in Ports, a # p, b # p, Before(a, b)
         PROVE  Before(a, b)'
    <2>1. ports'[a].created = ports[a].created /\ ports'[b].created = ports[b].created
      BY <1>2, <1>11
    <2>2. /\ \A e \in events' : Deletes(e) /\ e.port = a => e \in events
          /\ RowAsWas(a) /\ RowAsWas(b) /\ SameEnd(a)
      BY <1>4 DEF RowAsWas, SameEnd, IsOpen
    <2>3. /\ Handling(a)' => Handling(a)
          /\ Handling(b)' => Handling(b)
          /\ \A w \in Consumers :
              Busy(w)' /\ target'[w] = b =>
                  /\ Busy(w) /\ target[w] = b
                  /\ OpenTo(w, a) => OpenTo(w, a)' \/ ~IsOpen(a)'
      BY <1>4 DEF Handling, Busy, OpenTo
    <2> QED
      BY <1>4, <1>11, <2>1, <2>2, <2>3, BeforeKept
  <1>12. InTurn'
    <2> SUFFICES ASSUME NEW a \in Ports, NEW b \in Ports, a # b,
                        ports'[a] # NoVal, ports'[b] # NoVal,
                        ports'[a].ip = ports'[b].ip
                 PROVE  Before(a, b)' \/ Before(b, a)'
      BY DEF InTurn
    <2>1. CASE a # p /\ b # p
      BY <1>2, <1>11, <2>1 DEF PeriodOK, InTurn
    <2>2. CASE a = p
      BY <1>2, <1>3, <1>10, <2>2
    <2>3. CASE b = p
      BY <1>2, <1>3, <1>10, <2>3
    <2> QED
      BY <2>1, <2>2, <2>3
  <1> QED
    BY <1>7, <1>8, <1>9, <1>12, RolesStep DEF PeriodOK

LEMMA TurnKept ==
  ASSUME PeriodOK, UNCHANGED <<neutron, now>>,
         \A e \in events' : Deletes(e) => e \in events,
         \A p, q \in Ports :
            /\ p # q /\ ports[p] # NoVal /\ ports[q] # NoVal
            /\ ports[p].ip = ports[q].ip /\ Before(p, q)
            => Before(p, q)'
  PROVE  TimesOK' /\ InTurn'
  <1>1. TimesOK'
    BY DEF PeriodOK, TimesOK, Deletes
  <1>2. InTurn'
    BY DEF PeriodOK, InTurn
  <1> QED
    BY <1>1, <1>2

(* Rows that stay as they were while the handler, if there is one, returns.*)
LEMMA IdleKept ==
  ASSUME IInv, PeriodOK, [Next]_vars, \A w \in Consumers : ~Busy(w)',
         UNCHANGED <<neutron, now>>,
         \A e \in events' : Deletes(e) => e \in events,
         \A p \in Ports : RowAsWas(p) /\ SameEnd(p)
  PROVE  PeriodOK'
  <1>1. \A p \in Ports : ~Handling(p)'
    BY DEF Handling
  <1>2. ASSUME NEW p \in Ports, NEW q \in Ports, Before(p, q)
        PROVE  Before(p, q)'
    <2>1. \A e \in events' : Deletes(e) /\ e.port = p => e \in events
      OBVIOUS
    <2> QED
      BY <1>1, <1>2, <2>1, BeforeKept
  <1>3. TimesOK' /\ InTurn'
    BY <1>2, TurnKept
  <1>4. \A p \in Ports : RowFixed(p)'
    BY DEF PeriodOK, RowFixed, RowAsWas, SameEnd
  <1>5. \A w \in Consumers : SeenFixed(w)'
    BY DEF SeenFixed
  <1> QED
    BY <1>3, <1>4, <1>5, RolesStep DEF PeriodOK

LEMMA ReturnPeriods ==
  ASSUME IInv, PeriodOK, [Next]_vars, SoleConsumer, NEW w \in Consumers,
         Insert(w) \/ Update(w) \/ Fail(w)
  PROVE  PeriodOK'
  <1> USE ConstantsAssumption, NoValAssumption
  <1>1. TypeOK /\ TableOK /\ SessionOK /\ w \in Workers
    BY DEF IInv, Workers
  <1>2. /\ UNCHANGED <<neutron, now>> /\ ~Busy(w)'
        /\ \A v \in Consumers : v = w
    BY <1>1 DEF Insert, Update, Fail, Close, Busy, TypeOK, SoleConsumer
  <1>3. SeenFixed(w) /\ event[w] # NoVal => Busy(w)
    BY <1>1 DEF PeriodOK, RolesOK
  <1>4. \A e \in events' : Deletes(e) => e \in events
    <2>1. CASE Insert(w) \/ Update(w)
      <3>1. Busy(w) /\ events' \subseteq events \cup {event[w]}
        BY <2>1, HandledQueue DEF Insert, Update, Busy
      <3> QED
        BY <3>1 DEF PeriodOK, SeenFixed
    <2>2. CASE Fail(w)
      BY <1>1, <2>2 DEF Fail, PeriodOK, RolesOK, SeenFixed
    <2> QED
      BY <2>1, <2>2
  <1>5. CASE Fail(w)
    <2>1. \A p \in Ports : RowAsWas(p) /\ SameEnd(p)
      BY <1>5 DEF Fail, RowAsWas, SameEnd, IsOpen
    <2> QED
      BY <1>2, <1>4, <2>1, IdleKept
  <1>6. CASE Update(w)
    <2> DEFINE r == Refreshed(rows[target[w]], own[w], seen[w])
    <2>1. /\ Busy(w) /\ seen[w] \in PortSet /\ Tracked(seen[w])
          /\ own[w] \in RowSet /\ rows[target[w]] \in RowSet
          /\ target[w] \in Ports /\ pc[w] = "update"
      BY <1>1, <1>6, SessionFacts DEF Update, Busy
    <2>2. /\ own[w].ip = seen[w].ip /\ own[w].end = NoVal
          /\ IsOpen(target[w])
      BY <2>1 DEF PeriodOK, SeenFixed
    <2>3. r \in RowSet /\ r.start = rows[target[w]].start
      BY <2>1, RefreshedType
    <2>4. r.ip = rows[target[w]].ip /\ r.end = rows[target[w]].end
      BY <2>1, <2>2 DEF Refreshed, Written, RowSet
    <2>5. rows' = [rows EXCEPT ![target[w]] = r]
      BY <1>6 DEF Update
    <2> HIDE DEF r
    <2>6. rows'[target[w]] = r /\ \A p \in Ports \ {target[w]} : rows'[p] = rows[p]
      BY <1>1, <2>1, <2>5 DEF TypeOK
    <2>7. ASSUME NEW p \in Ports PROVE RowAsWas(p) /\ SameEnd(p)
      <3>1. CASE p = target[w]
        BY <2>1, <2>2, <2>3, <2>4, <2>6, <3>1 DEF RowAsWas, SameEnd, IsOpen
      <3>2. CASE p # target[w]
        BY <2>6, <3>2 DEF RowAsWas, SameEnd, IsOpen
      <3> QED
        BY <3>1, <3>2
    <2> QED
      BY <1>2, <1>4, <2>7, IdleKept
  <1>7. CASE Insert(w)
    <2>1. PICK t \in Ports : t = target[w]
      BY <1>1, <1>7, SessionFacts DEF Insert
    <2>2. /\ Busy(w) /\ seen[w] \in PortSet /\ Tracked(seen[w])
          /\ pc[w] = "insert" /\ rows[t] = NoVal
      BY <1>1, <1>7, <2>1, SessionFacts DEF Insert, Busy
    <2>3. NewRow(seen[w]) \in RowSet
      BY <2>2, NewRowType
    <2>4. /\ rows'[t] = NewRow(seen[w])
          /\ \A p \in Ports \ {t} : rows'[p] = rows[p]
      BY <1>1, <1>7, <2>1, <2>3 DEF Insert, TypeOK
    <2>5. /\ rows'[t] # NoVal /\ rows'[t].end = NoVal
          /\ rows'[t].ip = ports[t].ip /\ rows'[t].start = ports[t].created
      BY <2>1, <2>2, <2>3, <2>4 DEF NewRow, PeriodOK, SeenFixed
    <2>6. /\ Handling(t) /\ ~OpenTo(w, t)
          /\ \A p \in Ports : ~Handling(p)' /\ ~OpenTo(w, p)
      BY <1>2, <2>1, <2>2 DEF Handling, OpenTo
    <2>7. ASSUME NEW p \in Ports PROVE RowFixed(p)'
      <3>1. CASE p = t
        BY <1>2, <2>5, <3>1 DEF RowFixed
      <3>2. CASE p # t
        BY <1>2, <2>4, <3>2 DEF PeriodOK, RowFixed
      <3> QED
        BY <3>1, <3>2
    <2>8. ASSUME NEW p \in Ports, NEW q \in Ports, p # q, Before(p, q)
          PROVE  Before(p, q)'
      <3>1. /\ p \in gone' /\ ports'[p].created <= ports'[q].created
            /\ \A e \in events' :
                Deletes(e) /\ e.port = p => e.at <= ports'[q].created
        BY <1>2, <1>4, <2>8 DEF Before
      <3>2. CASE p = t
        <4>1. rows'[q] = NoVal
          BY <2>4, <2>6, <2>8, <3>2 DEF Before
        <4>2. ~EndsAfter(p, ports[q].created)'
          BY <2>5, <3>2 DEF EndsAfter
        <4> QED
          BY <1>2, <2>6, <3>1, <4>1, <4>2 DEF Before, Deletes
      <3>3. CASE p # t /\ q = t
        <4>1. ~IsOpen(p)
          BY <2>1, <2>2, <2>6, <2>8, <3>3 DEF Before
        <4>2. ~EndsAfter(p, ports[q].created)
          BY <2>6, <2>8, <3>3 DEF Before
        <4>3. ~IsOpen(p)' /\ ~EndsAfter(p, ports[q].created)'
          BY <1>2, <2>4, <3>3, <4>1, <4>2 DEF IsOpen, EndsAfter
        <4> QED
          BY <2>6, <3>1, <4>3 DEF Before, Deletes
      <3>4. CASE p # t /\ q # t
        <4>1. RowAsWas(p) /\ RowAsWas(q) /\ SameEnd(p)
          BY <2>4, <3>4 DEF RowAsWas, SameEnd, IsOpen
        <4>2. \A e \in events' : Deletes(e) /\ e.port = p => e \in events
          BY <1>4
        <4> QED
          BY <1>2, <2>6, <2>8, <4>1, <4>2, BeforeKept
      <3> QED
        BY <3>2, <3>3, <3>4
    <2>9. TimesOK' /\ InTurn'
      BY <1>2, <1>4, <2>8, TurnKept
    <2>10. \A v \in Consumers : SeenFixed(v)'
      BY <1>2 DEF SeenFixed
    <2> QED
      BY <2>7, <2>9, <2>10, RolesStep DEF PeriodOK
  <1> QED
    BY <1>5, <1>6, <1>7

LEMMA QueuePeriods ==
  ASSUME IInv, PeriodOK, [Next]_vars, SoleConsumer, NEW w \in Consumers,
         NEW e \in events, HandleEnd(w, e) \/ IgnorePort(w, e) \/ ReadPort(w, e)
  PROVE  PeriodOK'
  <1> USE ConstantsAssumption, NoValAssumption
  <1>1. /\ TypeOK /\ TableOK /\ SessionOK /\ w \in Workers
        /\ e \in EventSet /\ e.port \in Ports
    BY DEF IInv, Workers, TypeOK, EventSet
  <1>2. /\ UNCHANGED <<neutron, now>> /\ pc[w] = "idle" /\ ~Busy(w)
        /\ \A v \in Consumers : v = w
        /\ \A p \in Ports : ~Handling(p)
    BY DEF HandleEnd, IgnorePort, ReadPort, Handles, Busy, SoleConsumer,
           Handling
  <1>3. CASE HandleEnd(w, e)
    <2>1. /\ UNCHANGED session /\ Deletes(e) /\ events' \subseteq events
      BY <1>3, HandledQueue DEF HandleEnd, Deletes
    <2>2. /\ \A p \in Ports : ~Handling(p)'
          /\ \A v \in Consumers : ~Busy(v)'
      BY <1>2, <2>1 DEF Handling, Busy
    <2>3. e.port \in gone /\ e.at \in Ends /\ e.at <= now
      BY <1>1, <2>1 DEF PeriodOK, TimesOK, Deletes, EventSet
    <2>4. \A p \in Ports : p # e.port => rows'[p] = rows[p]
      BY <1>1, <1>3 DEF HandleEnd, TypeOK
    <2>5. rows[e.port] = NoVal => rows'[e.port] = NoVal
      BY <1>3 DEF HandleEnd
    <2>6. rows[e.port] # NoVal =>
            /\ rows'[e.port] # NoVal /\ rows'[e.port].end = e.at
            /\ rows'[e.port].ip = rows[e.port].ip
            /\ rows'[e.port].start = rows[e.port].start
      <3>1. rows[e.port] # NoVal => rows[e.port] \in RowSet
        BY <1>1 DEF TypeOK
      <3>2. rows[e.port] # NoVal =>
              rows'[e.port] = [rows[e.port] EXCEPT !.end = e.at]
        BY <1>1, <1>3 DEF HandleEnd, TypeOK
      <3> QED
        BY <2>3, <3>1, <3>2, EndedType DEF RowSet
    <2>7. \A p \in Ports : RowAsWas(p)
      BY <2>3, <2>4, <2>5, <2>6 DEF RowAsWas, IsOpen
    <2>8. ASSUME NEW p \in Ports PROVE RowFixed(p)'
      <3>1. CASE p = e.port
        BY <1>2, <2>3, <2>5, <2>6, <3>1 DEF PeriodOK, RowFixed
      <3>2. CASE p # e.port
        BY <1>2, <2>4, <3>2 DEF PeriodOK, RowFixed
      <3> QED
        BY <3>1, <3>2
    <2>9. ASSUME NEW p \in Ports, NEW q \in Ports, Before(p, q),
                 ports[q] # NoVal
          PROVE  Before(p, q)'
      <3>1. SameEnd(p) \/ ~EndsAfter(p, ports[q].created)'
        <4>1. CASE p # e.port
          BY <2>4, <4>1 DEF SameEnd
        <4>2. CASE p = e.port
          <5>1. e.at <= ports[q].created
            BY <2>1, <2>9, <4>2 DEF Before
          <5>2. e.at \in Int /\ ports[q].created \in Int
            BY <1>1, <2>3, <2>9 DEF TypeOK, PortSet
          <5> QED
            BY <1>2, <2>5, <2>6, <4>2, <5>1, <5>2 DEF EndsAfter
        <4> QED
          BY <4>1, <4>2
      <3>2. \A f \in events' : Deletes(f) /\ f.port = p => f \in events
        BY <2>1
      <3> QED
        BY <1>2, <2>2, <2>7, <2>9, <3>1, <3>2, BeforeKept
    <2>10. TimesOK' /\ InTurn'
      BY <1>2, <2>1, <2>9, TurnKept
    <2>11. \A v \in Consumers : SeenFixed(v)'
      BY <2>2 DEF SeenFixed
    <2> QED
      BY <2>8, <2>10, <2>11, RolesStep DEF PeriodOK
  <1>4. CASE IgnorePort(w, e)
    <2>1. UNCHANGED <<rows, session>> /\ events' \subseteq events
      BY <1>4, HandledQueue DEF IgnorePort
    <2>2. /\ \A p \in Ports : RowAsWas(p) /\ SameEnd(p)
          /\ \A v \in Consumers : ~Busy(v)'
      BY <1>2, <2>1 DEF RowAsWas, SameEnd, IsOpen, Busy
    <2> QED
      BY <1>2, <2>1, <2>2, IdleKept
  <1>5. CASE ReadPort(w, e)
    <2>1. /\ UNCHANGED rows /\ events' \subseteq events /\ ~Deletes(e)
          /\ e.port \notin gone
      BY <1>5 DEF ReadPort, Handles, Deletes
    <2>2. /\ pc'[w] = "dupes" /\ event'[w] = e /\ target'[w] = e.port
          /\ seen'[w] = ports[e.port] /\ Busy(w)'
      BY <1>1, <1>5 DEF ReadPort, TypeOK, Busy
    <2>3. SeenFixed(w)'
      <3>1. rows[e.port] = NoVal \/ IsOpen(e.port)
        BY <1>1, <2>1 DEF PeriodOK, RowFixed, IsOpen
      <3> QED
        BY <1>2, <2>1, <2>2, <3>1 DEF SeenFixed, IsOpen, Deletes
    <2>4. \A p \in Ports : RowFixed(p)'
      BY <1>2, <2>1 DEF PeriodOK, RowFixed
    <2>5. ASSUME NEW p \in Ports, NEW q \in Ports, Before(p, q)
          PROVE  Before(p, q)'
      <3>1. p # e.port /\ ~Handling(p)'
        BY <1>2, <2>1, <2>2, <2>5 DEF Before, Handling
      <3>2. \A v \in Consumers : OpenTo(v, p)'
        BY <1>2, <2>2 DEF OpenTo
      <3>3. q \in gone => ~Handling(q)'
        BY <1>2, <2>1, <2>2 DEF Handling
      <3> QED
        BY <1>2, <2>1, <2>5, <3>1, <3>2, <3>3
        DEF Before, IsOpen, EndsAfter, Deletes
    <2>6. TimesOK' /\ InTurn'
      BY <1>2, <2>1, <2>5, TurnKept
    <2> QED
      BY <1>2, <2>3, <2>4, <2>6, RolesStep DEF PeriodOK
  <1> QED
    BY <1>3, <1>4, <1>5

LEMMA SearchPeriods ==
  ASSUME IInv, PeriodOK, [Next]_vars, SoleConsumer, NEW w \in Consumers,
         FindDupes(w) \/ CloseDupe(w) \/ LookupOwn(w) \/ InsertConflict(w)
  PROVE  PeriodOK'
  <1> USE ConstantsAssumption, NoValAssumption
  <1>1. TypeOK /\ TableOK /\ SessionOK /\ w \in Workers
    BY DEF IInv, Workers
  <1>2. /\ UNCHANGED <<neutron, events, event, target, seen, now>>
        /\ Busy(w) /\ Busy(w)' /\ \A v \in Consumers : v = w
    BY <1>1
    DEF FindDupes, CloseDupe, LookupOwn, InsertConflict, Busy, TypeOK,
        SoleConsumer
  <1>3. PICK t \in Ports : t = target[w]
    BY <1>1, <1>2, SessionFacts DEF Busy
  <1>4. /\ SeenFixed(w) /\ ports[t] # NoVal /\ seen[w] \in PortSet
        /\ seen[w].ip = ports[t].ip /\ seen[w].created = ports[t].created
    BY <1>1, <1>2, <1>3, SessionFacts
    DEF PeriodOK, SeenFixed, SessionOK, SessionOf, Busy
  <1>5. \A p \in Ports : Handling(p) <=> p = t
    BY <1>2, <1>3 DEF Handling
  <1>6. \A p \in Ports : Handling(p)' <=> p = t
    BY <1>2, <1>3 DEF Handling
  <1>7. ASSUME UNCHANGED rows, SeenFixed(w)',
               \A p \in Ports :
                    /\ p # t /\ IsOpen(p) /\ rows[p].ip = ports[t].ip
                    /\ OpenTo(w, p)
                    => OpenTo(w, p)'
        PROVE  PeriodOK'
    <2>1. ASSUME NEW p \in Ports, NEW q \in Ports, Before(p, q), p # q,
                 ports[p].ip = ports[q].ip
          PROVE  Before(p, q)'
      <3>1. RowAsWas(p) /\ RowAsWas(q) /\ SameEnd(p)
        BY <1>7 DEF RowAsWas, SameEnd, IsOpen
      <3>2. q = t /\ OpenTo(w, p) => OpenTo(w, p)' \/ ~IsOpen(p)'
        BY <1>7, <2>1 DEF PeriodOK, RowFixed, IsOpen
      <3>3. \A v \in Consumers :
              Busy(v)' /\ target'[v] = q =>
                  /\ Busy(v) /\ target[v] = q
                  /\ OpenTo(v, p) => OpenTo(v, p)' \/ ~IsOpen(p)'
        BY <1>2, <1>3, <3>2
      <3>4. \A e \in events' : Deletes(e) /\ e.port = p => e \in events
        BY <1>2
      <3>5. (Handling(p)' => Handling(p)) /\ (Handling(q)' => Handling(q))
        BY <1>5, <1>6
      <3> QED
        BY <1>2, <2>1, <3>1, <3>3, <3>4, <3>5, BeforeKept
    <2>2. TimesOK' /\ InTurn'
      BY <1>2, <2>1, TurnKept
    <2>3. \A p \in Ports : RowFixed(p)'
      BY <1>2, <1>7 DEF PeriodOK, RowFixed
    <2> QED
      BY <1>2, <1>7, <2>2, <2>3, RolesStep DEF PeriodOK
  <1>8. CASE FindDupes(w)
    <2>1. /\ rows' = rows /\ pc'[w] = "close"
          /\ open'[w] = OpenOnAddress(seen[w].ip, t)
      BY <1>1, <1>3, <1>8 DEF FindDupes, TypeOK
    <2>2. SeenFixed(w)'
      BY <1>2, <1>3, <1>4, <2>1 DEF SeenFixed, OpenOnAddress, IsOpen, Deletes
    <2>3. \A p \in Ports : p # t /\ IsOpen(p) /\ rows[p].ip = ports[t].ip
                              => OpenTo(w, p)'
      BY <1>4, <2>1 DEF OpenTo, OpenOnAddress
    <2> QED
      BY <1>7, <2>1, <2>2, <2>3
  <1>9. CASE LookupOwn(w) \/ InsertConflict(w)
    <2>1. /\ rows' = rows /\ own'[w] = rows[t] /\ pc'[w] \in {"insert", "update"}
          /\ pc'[w] = "update" => rows[t] # NoVal
      BY <1>1, <1>3, <1>9 DEF LookupOwn, InsertConflict, TypeOK
    <2>2. \A p \in Ports : ~OpenTo(w, p)
      BY <1>9 DEF LookupOwn, InsertConflict, OpenTo
    <2>3. rows[t] # NoVal => rows[t].end = NoVal /\ rows[t].ip = ports[t].ip
      BY <1>2, <1>3, <1>4 DEF SeenFixed, IsOpen, PeriodOK, RowFixed
    <2>4. SeenFixed(w)'
      BY <1>2, <1>3, <1>4, <2>1, <2>3 DEF SeenFixed, IsOpen, Deletes
    <2> QED
      BY <1>7, <2>1, <2>2, <2>4
  <1>10. CASE CloseDupe(w)
    <2>1. PICK x \in open[w] :
            /\ rows' = [rows EXCEPT ![x].end = seen[w].created - 1]
            /\ open' = [open EXCEPT ![w] = @ \ {x}]
      BY <1>10 DEF CloseDupe
    <2> DEFINE last == seen[w].created - 1
    <2>2. /\ x \in Ports /\ rows[x] \in RowSet /\ rows[x] # NoVal
          /\ pc[w] = "close" /\ pc' = pc
          /\ x # t /\ IsOpen(x) /\ rows[x].ip = seen[w].ip
      BY <1>1, <1>2, <1>3, <1>4, <1>10, <2>1, SessionFacts
      DEF CloseDupe, SeenFixed
    <2>3. last \in Ends /\ last = ports[t].created - 1
      BY <1>4 DEF PortSet
    <2>4. /\ rows'[x] # NoVal /\ rows'[x].end = last
          /\ rows'[x].ip = rows[x].ip /\ rows'[x].start = rows[x].start
      <3>1. rows'[x] = [rows[x] EXCEPT !.end = last]
        BY <1>1, <2>1, <2>2 DEF TypeOK
      <3> QED
        BY <2>2, <2>3, <3>1, EndedType DEF RowSet
    <2>5. \A p \in Ports \ {x} : rows'[p] = rows[p]
      BY <1>1, <2>1, <2>2 DEF TypeOK
    <2> HIDE DEF last
    <2>6. /\ ports[x] # NoVal /\ ports[x].ip = ports[t].ip
          /\ x \in gone
      <3>1. ports[x] # NoVal /\ ports[x].ip = ports[t].ip
        BY <1>1, <1>4, <2>2 DEF TableOK, PeriodOK, RowFixed
      <3>2. Before(x, t) \/ Before(t, x)
        BY <1>4, <2>2, <3>1 DEF PeriodOK, InTurn
      <3>3. ~Before(t, x)
        BY <1>5, <2>2 DEF Before
      <3> QED
        BY <3>1, <3>2, <3>3 DEF Before
    <2>7. \A p \in Ports : ports[p] # NoVal =>
            ports[p].created \in Int /\ ports[p].created <= now
      BY <1>1 DEF PeriodOK, TimesOK, TypeOK, PortSet
    <2>8. \A p \in Ports : RowAsWas(p)
      BY <2>2, <2>3, <2>4, <2>5 DEF RowAsWas, IsOpen
    <2>9. ~IsOpen(x)'
      BY <2>3, <2>4 DEF IsOpen
    <2>10. open'[w] = open[w] \ {x} /\ open[w] \subseteq Ports
      BY <1>1, <2>1 DEF TypeOK
    <2>11. SeenFixed(w)'
      <3>1. rows'[t] = rows[t]
        BY <2>2, <2>5
      <3>2. \A q \in open'[w] : q # t /\ IsOpen(q)' /\ rows'[q].ip = seen'[w].ip
        BY <1>2, <1>3, <1>4, <2>2, <2>5, <2>10 DEF SeenFixed, IsOpen
      <3> QED
        BY <1>2, <1>3, <1>4, <2>2, <3>1, <3>2 DEF SeenFixed, IsOpen, Deletes
    <2>12. ASSUME NEW p \in Ports PROVE RowFixed(p)'
      <3>1. CASE p = x
        <4>1. last <= now
          BY <1>1, <1>4, <2>3, <2>7 DEF TypeOK
        <4> QED
          BY <1>2, <2>2, <2>4, <2>6, <3>1, <4>1 DEF PeriodOK, RowFixed
      <3>2. CASE p # x
        BY <1>2, <2>5, <3>2 DEF PeriodOK, RowFixed
      <3> QED
        BY <3>1, <3>2
    <2>13. ASSUME NEW p \in Ports, NEW q \in Ports, Before(p, q), p # q,
                  ports[p] # NoVal, ports[q] # NoVal, ports[p].ip = ports[q].ip
           PROVE  Before(p, q)'
      <3>1. \/ SameEnd(p)
            \/ ~EndsAfter(p, ports[q].created)'
            \/ rows[q] = NoVal /\ q \in gone /\ ~Handling(q)
        <4>1. CASE p # x
          BY <2>5, <4>1 DEF SameEnd
        <4>2. CASE p = x /\ last > ports[q].created
          <5>1. rows[q] = NoVal
            BY <2>2, <2>13, <4>2 DEF Before
          <5>2. ports[t].created > ports[q].created
            BY <1>4, <2>3, <2>7, <2>13, <4>2
          <5>3. q # t /\ ~Before(t, q)
            BY <1>4, <2>7, <2>13, <5>2 DEF Before
          <5>4. q \in gone
            BY <1>4, <2>6, <2>13, <4>2, <5>3 DEF PeriodOK, InTurn, Before
          <5> QED
            BY <1>5, <5>1, <5>3, <5>4
        <4>3. CASE p = x /\ ~(last > ports[q].created)
          BY <1>2, <2>4, <4>3 DEF EndsAfter
        <4> QED
          BY <4>1, <4>2, <4>3
      <3>2. OpenTo(w, p) => OpenTo(w, p)' \/ ~IsOpen(p)'
        BY <2>2, <2>9, <2>10 DEF OpenTo
      <3>3. \A v \in Consumers :
              Busy(v)' /\ target'[v] = q =>
                  /\ Busy(v) /\ target[v] = q
                  /\ OpenTo(v, p) => OpenTo(v, p)' \/ ~IsOpen(p)'
        BY <1>2, <3>2
      <3>4. \A e \in events' : Deletes(e) /\ e.port = p => e \in events
        BY <1>2
      <3>5. (Handling(p)' => Handling(p)) /\ (Handling(q)' => Handling(q))
        BY <1>5, <1>6
      <3> QED
        BY <1>2, <2>8, <2>13, <3>1, <3>3, <3>4, <3>5, BeforeKept
    <2>14. TimesOK' /\ InTurn'
      BY <1>2, <2>13, TurnKept
    <2> QED
      BY <1>2, <2>11, <2>12, <2>14, RolesStep DEF PeriodOK
  <1> QED
    BY <1>8, <1>9, <1>10

LEMMA PeriodStep ==
  ASSUME IInv, PeriodOK, [Next]_vars, SoleConsumer, StaysPut
  PROVE  PeriodOK'
  <1> USE ConstantsAssumption
  <1>1. TypeOK /\ TableOK /\ SessionOK /\ TypeOK'
    BY TypeStep DEF IInv
  <1>2. now \in Int /\ \A p \in Ports : ports[p] # NoVal => ports[p] \in PortSet
    BY <1>1 DEF TypeOK
  <1>3. ASSUME NEW p \in Ports, NEW ip \in IPs \cup {NoVal},
               NEW d \in Devices \cup {NoVal}, UpdatePort(p, ip, d)
        PROVE  PeriodOK'
    <2>1. ports[p] \in PortSet /\ ip = ports[p].ip
      BY <1>2, <1>3 DEF UpdatePort, Alive, StaysPut
    <2> DEFINE r == [ports[p] EXCEPT !.ip = ip, !.device = d]
    <2>2. r \in PortSet /\ r.ip = ports[p].ip /\ r.created = ports[p].created
      BY <2>1, UpdatedType DEF PortSet
    <2>3. ports' = [ports EXCEPT ![p] = r]
      BY <1>3 DEF UpdatePort
    <2> HIDE DEF r
    <2>4. SamePorts
      BY <1>1, <1>3, <2>1, <2>2, <2>3, NoValAssumption
      DEF SamePorts, UpdatePort, TypeOK
    <2>5. \A e \in events' : Deletes(e) => e \in events
      BY <1>3 DEF UpdatePort, Deletes
    <2>6. (UNCHANGED <<rows, session>>) /\ now <= now'
      BY <1>2, <1>3 DEF UpdatePort
    <2> QED
      BY <2>4, <2>5, <2>6, PeriodsKept
  <1>4. ASSUME NEW p \in Ports, DeletePort(p) PROVE PeriodOK'
    <2>1. SamePorts /\ (UNCHANGED <<rows, session>>) /\ now <= now'
      BY <1>2, <1>4 DEF DeletePort, SamePorts
    <2>2. \A e \in events' : Deletes(e) =>
            \/ e \in events
            \/ e.port \notin gone /\ e.port \in gone' /\ e.at <= now'
      BY <1>2, <1>4 DEF DeletePort, Alive
    <2> QED
      BY <2>1, <2>2, PeriodsKept
  <1>5. ASSUME UNCHANGED <<neutron, rows, session>>, events' \subseteq events,
               now' = now \/ now' = now + 1
        PROVE  PeriodOK'
    <2>1. SamePorts /\ (UNCHANGED <<rows, session>>) /\ now <= now'
      BY <1>2, <1>5 DEF SamePorts
    <2> QED
      BY <1>5, <2>1, PeriodsKept
  <1>6. CASE Tick \/ UNCHANGED vars \/ \E e \in events : LoseEvent(e)
    BY <1>5, <1>6 DEF Tick, LoseEvent, vars
  <1>7. ASSUME NEW p \in Ports, NEW ip \in IPs, NEW d \in Devices,
               CreatePort(p, ip, d)
        PROVE  PeriodOK'
    BY <1>7, CreateStep
  <1>8. ASSUME NEW w \in Consumers, Consume(w) \/ Fail(w) PROVE PeriodOK'
    BY <1>8, QueuePeriods, SearchPeriods, ReturnPeriods DEF Consume
  <1>9. CASE \E w \in Workers : Fail(w)
    BY <1>8, <1>9 DEF Workers, StaysPut
  <1> QED
    BY <1>3, <1>4, <1>6, <1>7, <1>8, <1>9 DEF Next, Quiet, StaysPut

(* With a single consumer, and no reconcile or recorder beside it, the     *)
(* periods of an address never overlap as long as ports keep theirs,       *)
(* whatever notifications are lost, delivered twice, late or out of order, *)
(* and wherever a handler dies.                                            *)
THEOREM OneConsumerHistory ==
  ASSUME SoleConsumer, StaysPut
  PROVE  Spec => []PeriodsDisjoint
  <1>1. Init => PeriodOK
    BY ConstantsAssumption
    DEF Init, PeriodOK, RolesOK, Busy, TimesOK, InTurn, RowFixed, SeenFixed,
        Workers
  <1>2. IInv /\ PeriodOK /\ [Next]_vars => PeriodOK'
    BY PeriodStep
  <1>3. IInv /\ PeriodOK => PeriodsDisjoint
    BY InTurnDisjoint DEF IInv
  <1> QED
    BY <1>1, <1>2, <1>3, Invariance, PTL DEF Spec

=============================================================================
