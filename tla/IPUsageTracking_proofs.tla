----------------------- MODULE IPUsageTracking_proofs -----------------------
(***************************************************************************)
(* Theorems about IPUsageTracking, from the inductive invariant IInv.      *)
(***************************************************************************)
EXTENDS IPUsageTracking, TLAPS

(* Shorthands for the hypotheses shared by the lemmas below.               *)
USE DEF Goto, neutron, session, Times, Ends

LEMMA InitIInv == Init => IInv
  <1> SUFFICES ASSUME Init PROVE IInv
    OBVIOUS
  <1> USE ConstantsAssumption DEF Init
  <1>1. TypeOK
    BY DEF TypeOK, Steps
  <1>2. TableOK
    BY DEF TableOK
  <1>3. SessionOK
    BY DEF SessionOK, SessionOf
  <1> QED
    BY <1>1, <1>2, <1>3 DEF IInv

-----------------------------------------------------------------------------
(* What the helpers return.                                                *)

(* A tracked port is recorded as an open row.                              *)
LEMMA NewRowType ==
  ASSUME NEW s \in PortSet, Tracked(s)
  PROVE  NewRow(s) \in RowSet /\ NewRow(s).end = NoVal
  BY DEF NewRow, Tracked, PortSet, RowSet

(* Refreshing keeps the start: whatever was loaded, a row stays a row.     *)
LEMMA RefreshedType ==
  ASSUME NEW s \in PortSet, Tracked(s), NEW c \in RowSet, NEW o \in RowSet
  PROVE  Refreshed(c, o, s) \in RowSet /\ Refreshed(c, o, s).start = c.start
  BY DEF Refreshed, Written, Tracked, PortSet, RowSet

(* A port moved or attached elsewhere.                                     *)
LEMMA UpdatedType ==
  ASSUME NEW s \in PortSet, NEW ip \in IPs \cup {NoVal},
         NEW d \in Devices \cup {NoVal}
  PROVE  [s EXCEPT !.ip = ip, !.device = d] \in PortSet
  BY DEF PortSet

(* Ending a row, by the handler or by reconcile.                           *)
LEMMA EndedType ==
  ASSUME NEW c \in RowSet, NEW t \in Ends
  PROVE  [c EXCEPT !.end = t] \in RowSet
  BY DEF RowSet

LEMMA HandledType ==
  ASSUME TypeOK, NEW e \in EventSet, NEW q \in SUBSET EventSet, Handled(e, q)
  PROVE  /\ events' \subseteq EventSet /\ faults' \in 0..MaxFaults
         /\ events' \subseteq q \cup {e}
  BY ConstantsAssumption DEF TypeOK, Handled

LEMMA CloseType ==
  ASSUME TypeOK, NEW w \in Workers, Close(w)
  PROVE  /\ pc' \in [Workers -> Steps]
         /\ event' \in [Workers -> EventSet \cup {NoVal}]
         /\ target' \in [Workers -> Ports \cup {NoVal}]
         /\ seen' \in [Workers -> PortSet \cup {NoVal}]
         /\ open' \in [Workers -> SUBSET Ports]
         /\ absent' \in [Workers -> SUBSET Ports]
         /\ own' \in [Workers -> RowSet \cup {NoVal}]
  BY DEF TypeOK, Close, Steps

(* What a session that handles or records a port holds.                    *)
LEMMA SessionFacts ==
  ASSUME TypeOK, SessionOK, NEW w \in Workers
  PROVE  /\ pc[w] \in {"dupes", "close", "insert", "update"} =>
              event[w] \in EventSet
         /\ pc[w] \in {"dupes", "close", "insert", "update", "record"} =>
              /\ target[w] \in Ports /\ seen[w] \in PortSet
              /\ Tracked(seen[w])
         /\ pc[w] = "update" =>
              own[w] \in RowSet /\ rows[target[w]] \in RowSet
         /\ \A p \in open[w] \cup absent[w] :
              p \in Ports /\ rows[p] \in RowSet
  BY DEF TypeOK, SessionOK, SessionOf

-----------------------------------------------------------------------------
(* Type correctness.                                                       *)

LEMMA ConsumeType ==
  ASSUME TypeOK, TableOK, SessionOK, NEW w \in Consumers, Consume(w)
  PROVE  TypeOK'
  <1> USE ConstantsAssumption, NoValAssumption
  <1>0. w \in Workers
    BY DEF Workers
  <1>1. ASSUME NEW e \in events, HandleEnd(w, e) PROVE TypeOK'
    <2>1. e \in EventSet /\ e.port \in Ports /\ e.at \in Ends
      BY <1>1 DEF HandleEnd, TypeOK, EventSet
    <2>2. rows' \in [Ports -> RowSet \cup {NoVal}]
      BY <1>1, <2>1, EndedType DEF HandleEnd, TypeOK
    <2>3. events' \subseteq EventSet /\ faults' \in 0..MaxFaults
      BY <1>1, <2>1, HandledType DEF HandleEnd, TypeOK
    <2> QED
      BY <1>1, <2>2, <2>3 DEF HandleEnd, TypeOK
  <1>2. ASSUME NEW e \in events, IgnorePort(w, e) PROVE TypeOK'
    <2>1. events' \subseteq EventSet /\ faults' \in 0..MaxFaults
      BY <1>2, HandledType DEF IgnorePort, TypeOK
    <2> QED
      BY <1>2, <2>1 DEF IgnorePort, TypeOK
  <1>3. ASSUME NEW e \in events, ReadPort(w, e) PROVE TypeOK'
    <2>1. e \in EventSet /\ e.port \in Ports
      BY <1>3 DEF TypeOK, EventSet
    <2> QED
      BY <1>0, <1>3, <2>1 DEF ReadPort, TypeOK, Steps
  <1>4. CASE FindDupes(w)
    BY <1>0, <1>4 DEF FindDupes, OpenOnAddress, TypeOK, Steps
  <1>5. CASE CloseDupe(w)
    <2>1. PICK q \in open[w] :
            /\ rows' = [rows EXCEPT ![q].end = seen[w].created - 1]
            /\ open' = [open EXCEPT ![w] = @ \ {q}]
      BY <1>5 DEF CloseDupe
    <2>2. q \in Ports /\ rows[q] \in RowSet
      BY <1>0, SessionFacts
    <2>3. seen[w].created - 1 \in Ends
      BY <1>0, <1>5, SessionFacts DEF CloseDupe, PortSet
    <2>4. rows' \in [Ports -> RowSet \cup {NoVal}]
      BY <2>1, <2>2, <2>3, EndedType DEF TypeOK
    <2> QED
      BY <1>0, <1>5, <2>1, <2>4 DEF CloseDupe, TypeOK
  <1>6. CASE LookupOwn(w)
    BY <1>0, <1>6, SessionFacts DEF LookupOwn, TypeOK, Steps
  <1>7. CASE Insert(w)
    <2>1. event[w] \in EventSet /\ target[w] \in Ports /\ seen[w] \in PortSet
          /\ Tracked(seen[w])
      BY <1>0, <1>7, SessionFacts DEF Insert
    <2>2. rows' \in [Ports -> RowSet \cup {NoVal}]
      BY <1>7, <2>1, NewRowType DEF Insert, TypeOK
    <2>3. events' \subseteq EventSet /\ faults' \in 0..MaxFaults
      BY <1>7, <2>1, HandledType DEF Insert, TypeOK
    <2> QED
      BY <1>0, <1>7, <2>2, <2>3, CloseType DEF Insert, TypeOK
  <1>8. CASE InsertConflict(w)
    BY <1>0, <1>8, SessionFacts DEF InsertConflict, TypeOK, Steps
  <1>9. CASE Update(w)
    <2>1. event[w] \in EventSet /\ target[w] \in Ports /\ seen[w] \in PortSet
          /\ Tracked(seen[w]) /\ own[w] \in RowSet
          /\ rows[target[w]] \in RowSet
      BY <1>0, <1>9, SessionFacts DEF Update
    <2>2. rows' \in [Ports -> RowSet \cup {NoVal}]
      BY <1>9, <2>1, RefreshedType DEF Update, TypeOK
    <2>3. events' \subseteq EventSet /\ faults' \in 0..MaxFaults
      BY <1>9, <2>1, HandledType DEF Update, TypeOK
    <2> QED
      BY <1>0, <1>9, <2>2, <2>3, CloseType DEF Update, TypeOK
  <1> QED
    BY <1>1, <1>2, <1>3, <1>4, <1>5, <1>6, <1>7, <1>8, <1>9 DEF Consume

LEMMA TypeStep ==
  ASSUME TypeOK, TableOK, SessionOK, [Next]_vars
  PROVE  TypeOK'
  <1> USE ConstantsAssumption, NoValAssumption
  <1>1. ASSUME NEW p \in Ports, NEW ip \in IPs, NEW d \in Devices,
               CreatePort(p, ip, d)
        PROVE  TypeOK'
    <2>1. [ip |-> ip, device |-> d, created |-> now] \in PortSet
      BY DEF TypeOK, PortSet
    <2>2. [kind |-> "port.create.end", port |-> p] \in EventSet
      BY DEF EventSet
    <2> QED
      BY <1>1, <2>1, <2>2 DEF CreatePort, TypeOK
  <1>2. ASSUME NEW p \in Ports, NEW ip \in IPs \cup {NoVal},
               NEW d \in Devices \cup {NoVal}, UpdatePort(p, ip, d)
        PROVE  TypeOK'
    <2>1. ports' \in [Ports -> PortSet \cup {NoVal}]
      <3>1. ports[p] \in PortSet
        BY <1>2 DEF UpdatePort, Alive, TypeOK
      <3>2. [ports[p] EXCEPT !.ip = ip, !.device = d] \in PortSet
        BY <3>1, UpdatedType
      <3> QED
        BY <1>2, <3>2 DEF UpdatePort, TypeOK
    <2>2. [kind |-> "port.update.end", port |-> p] \in EventSet
      BY DEF EventSet
    <2> QED
      BY <1>2, <2>1, <2>2 DEF UpdatePort, TypeOK
  <1>3. ASSUME NEW p \in Ports, DeletePort(p) PROVE TypeOK'
    <2>1. [kind |-> "port.delete.end", port |-> p, at |-> now] \in EventSet
      BY DEF EventSet, TypeOK
    <2> QED
      BY <1>3, <2>1 DEF DeletePort, TypeOK
  <1>4. ASSUME NEW e \in events, LoseEvent(e) PROVE TypeOK'
    BY <1>4 DEF LoseEvent, TypeOK
  <1>5. ASSUME NEW w \in Consumers, Consume(w) PROVE TypeOK'
    BY <1>5, ConsumeType
  <1>6. ASSUME NEW w \in Recorders, NEW p \in Ports, RecordRead(w, p)
        PROVE  TypeOK'
    BY <1>6 DEF RecordRead, Alive, TypeOK, Steps, Workers
  <1>7. ASSUME NEW w \in Recorders, RecordInsert(w) PROVE TypeOK'
    <2>1. w \in Workers
      BY DEF Workers
    <2>2. NewRow(seen[w]) \in RowSet
      BY <1>7, <2>1, SessionFacts, NewRowType DEF RecordInsert
    <2>3. rows' \in [Ports -> RowSet \cup {NoVal}]
      BY <1>7, <2>2 DEF RecordInsert, TypeOK
    <2> QED
      BY <1>7, <2>1, <2>3, CloseType DEF RecordInsert, TypeOK
  <1>8. ASSUME NEW w \in Reconcilers, ReconcileRead(w) PROVE TypeOK'
    BY <1>8 DEF ReconcileRead, TypeOK, Steps, Workers
  <1>9. ASSUME NEW w \in Reconcilers, ReconcileList(w) PROVE TypeOK'
    <2>1. w \in Workers
      BY DEF Workers
    <2>2. PICK c \in Chunks(open[w]) :
            /\ open' = [open EXCEPT ![w] = @ \ c]
            /\ absent' = [absent EXCEPT ![w] = @ \cup Unlisted(c)]
            /\ Goto(w, IF open[w] = c THEN "end" ELSE "list")
      BY <1>9 DEF ReconcileList
    <2>3. Unlisted(c) \subseteq Ports
      BY <2>1, <2>2 DEF Unlisted, Chunks, TypeOK
    <2> QED
      BY <1>9, <2>1, <2>2, <2>3 DEF ReconcileList, TypeOK, Steps
  <1>10. ASSUME NEW w \in Reconcilers, ReconcileEnd(w) PROVE TypeOK'
    <2>1. w \in Workers
      BY DEF Workers
    <2>2. \A p \in absent[w] : [rows[p] EXCEPT !.end = now] \in RowSet
      BY <2>1, SessionFacts, EndedType DEF TypeOK
    <2>3. rows' \in [Ports -> RowSet \cup {NoVal}]
      BY <1>10, <2>2 DEF ReconcileEnd, TypeOK
    <2> QED
      BY <1>10, <2>1, <2>3, CloseType DEF ReconcileEnd, TypeOK
  <1>11. ASSUME NEW w \in Workers, Fail(w) PROVE TypeOK'
    <2>1. events' \subseteq EventSet /\ faults' \in 0..MaxFaults
      BY <1>11 DEF Fail, TypeOK
    <2> QED
      BY <1>11, <2>1, CloseType DEF Fail, TypeOK
  <1>12. CASE Tick
    BY <1>12 DEF Tick, TypeOK
  <1>13. CASE UNCHANGED vars
    BY <1>13 DEF vars, TypeOK
  <1> QED
    BY <1>1, <1>2, <1>3, <1>4, <1>5, <1>6, <1>7, <1>8, <1>9, <1>10, <1>11,
       <1>12, <1>13
    DEF Next, Quiet

-----------------------------------------------------------------------------
(* Ports, rows and notifications.                                          *)

(* A handler that returns leaves no notification but its own and those     *)
(* that were queued.                                                       *)
LEMMA HandledQueue ==
  ASSUME NEW e, NEW q, Handled(e, q)
  PROVE  events' \subseteq q \cup {e}
  BY DEF Handled

(* Whatever happens, a port that was created stays known, a deleted one    *)
(* stays deleted, and no row is removed.                                   *)
LEMMA Monotone ==
  ASSUME TypeOK, TableOK, SessionOK, [Next]_vars
  PROVE  /\ \A p \in Ports : ports[p] # NoVal => ports'[p] # NoVal
         /\ gone \subseteq gone'
         /\ \A p \in Ports : rows[p] # NoVal => rows'[p] # NoVal
  <1> USE ConstantsAssumption, NoValAssumption
  <1>1. ASSUME NEW w \in Consumers, Consume(w)
        PROVE  /\ UNCHANGED neutron
               /\ \A p \in Ports : rows[p] # NoVal => rows'[p] # NoVal
    <2>1. w \in Workers /\ TypeOK'
      BY <1>1, TypeStep DEF Workers, Next
    <2>2. UNCHANGED neutron
      BY <1>1
      DEF Consume, HandleEnd, IgnorePort, ReadPort, FindDupes, CloseDupe,
          LookupOwn, Insert, InsertConflict, Update
    <2>3. CASE \E e \in events : HandleEnd(w, e)
      BY <2>2, <2>3, EndedType DEF HandleEnd, TypeOK, EventSet
    <2>4. CASE CloseDupe(w)
      <3>1. PICK q \in open[w] :
              rows' = [rows EXCEPT ![q].end = seen[w].created - 1]
        BY <2>4 DEF CloseDupe
      <3>2. q \in Ports /\ rows[q] \in RowSet
        BY <2>1, SessionFacts
      <3>3. seen[w].created - 1 \in Ends
        BY <2>1, <2>4, SessionFacts DEF CloseDupe, PortSet
      <3> QED
        BY <2>2, <3>1, <3>2, <3>3, EndedType DEF TypeOK
    <2>5. CASE Insert(w)
      BY <2>1, <2>2, <2>5, SessionFacts, NewRowType DEF Insert, TypeOK
    <2>6. CASE Update(w)
      BY <2>1, <2>2, <2>6, SessionFacts, RefreshedType DEF Update, TypeOK
    <2>7. CASE UNCHANGED rows
      BY <2>2, <2>7
    <2> QED
      BY <1>1, <2>3, <2>4, <2>5, <2>6, <2>7
      DEF Consume, IgnorePort, ReadPort, FindDupes, LookupOwn, InsertConflict
  <1>2. ASSUME NEW p \in Ports, NEW ip \in IPs, NEW d \in Devices,
               CreatePort(p, ip, d)
        PROVE  /\ ports'[p] # NoVal /\ UNCHANGED <<gone, rows>>
               /\ \A q \in Ports \ {p} : ports'[q] = ports[q]
    <2>1. [ip |-> ip, device |-> d, created |-> now] \in PortSet
      BY DEF TypeOK, PortSet
    <2> QED
      BY <1>2, <2>1 DEF CreatePort, TypeOK
  <1>3. ASSUME NEW p \in Ports, NEW ip \in IPs \cup {NoVal},
               NEW d \in Devices \cup {NoVal}, UpdatePort(p, ip, d)
        PROVE  /\ ports'[p] # NoVal /\ UNCHANGED <<gone, rows>>
               /\ \A q \in Ports \ {p} : ports'[q] = ports[q]
    <2>1. ports[p] \in PortSet
      BY <1>3 DEF UpdatePort, Alive, TypeOK
    <2>2. [ports[p] EXCEPT !.ip = ip, !.device = d] \in PortSet
      BY <2>1, UpdatedType
    <2> QED
      BY <1>3, <2>2 DEF UpdatePort, TypeOK
  <1>4. ASSUME NEW p \in Ports, DeletePort(p)
        PROVE  UNCHANGED <<ports, rows>> /\ gone \subseteq gone'
    BY <1>4 DEF DeletePort
  <1>5. ASSUME NEW w \in Recorders, RecordInsert(w)
        PROVE  /\ UNCHANGED neutron
               /\ \A p \in Ports : rows[p] # NoVal => rows'[p] # NoVal
    BY <1>5 DEF RecordInsert, TypeOK
  <1>6. ASSUME NEW w \in Reconcilers, ReconcileEnd(w)
        PROVE  /\ UNCHANGED neutron
               /\ \A p \in Ports : rows[p] # NoVal => rows'[p] # NoVal
    <2>1. \A p \in absent[w] : [rows[p] EXCEPT !.end = now] \in RowSet
      BY SessionFacts, EndedType DEF TypeOK, Workers
    <2> QED
      BY <1>6, <2>1 DEF ReconcileEnd, TypeOK
  <1> QED
    <2>1. CASE UNCHANGED <<neutron, rows>>
      BY <2>1
    <2> QED
      BY <1>1, <1>2, <1>3, <1>4, <1>5, <1>6, <2>1
      DEF Next, vars, Quiet, Tick, Fail, LoseEvent, RecordRead, ReconcileRead,
          ReconcileList

(* Only neutron, consumers and failures queue notifications.               *)
LEMMA Queuers ==
  ASSUME [Next]_vars
  PROVE  \/ events' \subseteq events
         \/ \E p \in Ports :
             \/ \E ip \in IPs, d \in Devices : CreatePort(p, ip, d)
             \/ \E ip \in IPs \cup {NoVal}, d \in Devices \cup {NoVal} :
                   UpdatePort(p, ip, d)
             \/ DeletePort(p)
         \/ \E w \in Consumers : Consume(w)
         \/ \E w \in Workers : Fail(w)
  <1>1. ASSUME NEW w, RecordInsert(w) \/ \E p \in Ports : RecordRead(w, p)
        PROVE  events' = events
    BY <1>1 DEF RecordInsert, RecordRead
  <1>2. ASSUME NEW w, ReconcileRead(w) \/ ReconcileList(w) \/ ReconcileEnd(w)
        PROVE  events' = events
    BY <1>2 DEF ReconcileRead, ReconcileList, ReconcileEnd
  <1>3. ASSUME \E e \in events : LoseEvent(e) PROVE events' \subseteq events
    BY <1>3 DEF LoseEvent
  <1>4. ASSUME Tick \/ Quiet \/ UNCHANGED vars PROVE events' = events
    BY <1>4 DEF Tick, Quiet, vars
  <1> QED
    BY <1>1, <1>2, <1>3, <1>4 DEF Next

(* The events a step adds are those of a created port.                     *)
LEMMA TableStep ==
  ASSUME TypeOK, TableOK, SessionOK, [Next]_vars
  PROVE  TableOK'
  <1> USE ConstantsAssumption, NoValAssumption
  <1>1. ASSUME NEW p \in Ports, p \in gone' PROVE ports'[p] # NoVal
    <2>1. CASE p \in gone
      BY <2>1, Monotone DEF TableOK
    <2>2. CASE p \notin gone
      <3>1. DeletePort(p)
        BY <1>1, <2>2
        DEF Next, vars, Quiet, Tick, Fail, LoseEvent, RecordRead, RecordInsert,
            ReconcileRead, ReconcileList, ReconcileEnd, CreatePort, UpdatePort,
            DeletePort, Consume, HandleEnd, IgnorePort, ReadPort, FindDupes,
            CloseDupe, LookupOwn, Insert, InsertConflict, Update
      <3> QED
        BY <3>1 DEF DeletePort, Alive
    <2> QED
      BY <2>1, <2>2
  <1>2. ASSUME NEW p \in Ports, rows'[p] # NoVal PROVE ports'[p] # NoVal
    <2>1. CASE rows[p] # NoVal
      BY <2>1, Monotone DEF TableOK
    <2>2. CASE rows[p] = NoVal
      <3>1. ASSUME NEW w \in Workers,
                   Insert(w) \/ Update(w) \/ RecordInsert(w)
            PROVE  ports[p] # NoVal
        <4>1. /\ target[w] \in Ports /\ ports[target[w]] # NoVal
              /\ p = target[w] \/ rows'[p] = rows[p]
          BY <3>1, SessionFacts
          DEF SessionOK, SessionOf, Insert, Update, RecordInsert, TypeOK
        <4> QED
          BY <1>2, <2>2, <4>1
      <3>2. ASSUME NEW w \in Workers, CloseDupe(w)
            PROVE  rows'[p] = rows[p]
        BY <2>2, <3>2, SessionFacts DEF CloseDupe, TypeOK
      <3>3. ASSUME NEW w \in Workers, ReconcileEnd(w)
            PROVE  rows'[p] = rows[p]
        BY <2>2, <3>3, SessionFacts DEF ReconcileEnd
      <3>4. ASSUME NEW w, NEW e \in events, HandleEnd(w, e)
            PROVE  rows'[p] = rows[p]
        BY <2>2, <3>4 DEF HandleEnd, TypeOK
      <3>5. ports[p] # NoVal
        BY <1>2, <2>2, <3>1, <3>2, <3>3, <3>4
        DEF Next, vars, Quiet, Tick, Fail, LoseEvent, RecordRead,
            ReconcileRead, ReconcileList, CreatePort, UpdatePort, DeletePort,
            Consume, IgnorePort, ReadPort, FindDupes, LookupOwn,
            InsertConflict, Workers
      <3> QED
        BY <3>5, Monotone
    <2> QED
      BY <2>1, <2>2
  <1>3. ASSUME NEW e \in events' PROVE ports'[e.port] # NoVal
    <2>1. CASE e \in events
      BY <2>1, Monotone DEF TableOK, TypeOK, EventSet
    <2>2. ASSUME NEW w \in Workers, e = event[w], event[w] # NoVal
          PROVE  ports'[e.port] # NoVal
      BY <2>2, Monotone DEF SessionOK, SessionOf, TypeOK, EventSet
    <2>3. ASSUME NEW p \in Ports, e.port = p, ports'[p] # NoVal
          PROVE  ports'[e.port] # NoVal
      BY <2>3
    <2>4. ASSUME NEW w \in Consumers, Consume(w), e \notin events
          PROVE  e = event[w] /\ event[w] # NoVal
      <3>1. w \in Workers
        BY DEF Workers
      <3>2. ASSUME NEW f \in events, HandleEnd(w, f) \/ IgnorePort(w, f)
            PROVE  events' \subseteq events
        BY <3>2, HandledQueue DEF HandleEnd, IgnorePort
      <3>3. CASE Insert(w) \/ Update(w)
        <4>1. events' \subseteq events \cup {event[w]}
          BY <3>3, HandledQueue DEF Insert, Update
        <4>2. event[w] # NoVal
          BY <3>1, <3>3 DEF Insert, Update, SessionOK, SessionOf
        <4> QED
          BY <2>4, <4>1, <4>2
      <3> QED
        BY <2>4, <3>2, <3>3
        DEF Consume, ReadPort, FindDupes, CloseDupe, LookupOwn, InsertConflict
    <2>5. ASSUME NEW w \in Workers, Fail(w), e \notin events
          PROVE  e = event[w] /\ event[w] # NoVal
      BY <2>5 DEF Fail
    <2>6. ASSUME NEW p \in Ports, NEW ip \in IPs, NEW d \in Devices,
                 CreatePort(p, ip, d), e \notin events
          PROVE  e.port = p /\ ports'[p] # NoVal
      <3>1. [ip |-> ip, device |-> d, created |-> now] \in PortSet
        BY DEF TypeOK, PortSet
      <3> QED
        BY <2>6, <3>1 DEF CreatePort, TypeOK
    <2>7. ASSUME NEW p \in Ports, NEW ip \in IPs \cup {NoVal},
                 NEW d \in Devices \cup {NoVal}, UpdatePort(p, ip, d),
                 e \notin events
          PROVE  e.port = p /\ ports'[p] # NoVal
      <3>1. ports[p] # NoVal /\ e = [kind |-> "port.update.end", port |-> p]
        BY <2>7 DEF UpdatePort, Alive
      <3>2. ports'[p] # NoVal
        BY <3>1, Monotone
      <3> QED
        BY <3>1, <3>2
    <2>8. ASSUME NEW p \in Ports, DeletePort(p), e \notin events
          PROVE  e.port = p /\ ports'[p] # NoVal
      BY <2>8 DEF DeletePort, Alive
    <2> QED
      <3>1. CASE e \notin events
        <4>1. ASSUME NEW w \in Consumers, Consume(w)
              PROVE  ports'[e.port] # NoVal
          BY <2>2, <2>4, <3>1, <4>1 DEF Workers
        <4>2. ASSUME NEW w \in Workers, Fail(w)
              PROVE  ports'[e.port] # NoVal
          BY <2>2, <2>5, <3>1, <4>2
        <4>3. ASSUME NEW p \in Ports,
                     \/ \E ip \in IPs, d \in Devices : CreatePort(p, ip, d)
                     \/ \E ip \in IPs \cup {NoVal}, d \in Devices \cup {NoVal} :
                           UpdatePort(p, ip, d)
                     \/ DeletePort(p)
              PROVE  ports'[e.port] # NoVal
          <5>1. e.port = p /\ ports'[p] # NoVal
            BY <2>6, <2>7, <2>8, <3>1, <4>3
          <5> QED
            BY <5>1
        <4> QED
          BY <3>1, <4>1, <4>2, <4>3, Queuers
      <3> QED
        BY <2>1, <3>1
  <1> QED
    BY <1>1, <1>2, <1>3 DEF TableOK

-----------------------------------------------------------------------------
(* Sessions.                                                               *)

(* A session that does not move.                                           *)
Untouched(v) ==
    /\ pc'[v] = pc[v] /\ event'[v] = event[v] /\ target'[v] = target[v]
    /\ seen'[v] = seen[v] /\ open'[v] \subseteq open[v]
    /\ absent'[v] = absent[v] /\ own'[v] = own[v]

(* The steps of one worker.                                                *)
StepOf(v) ==
    \/ v \in Consumers /\ Consume(v)
    \/ v \in Recorders /\ (RecordInsert(v) \/ \E p \in Ports : RecordRead(v, p))
    \/ v \in Reconcilers /\ \/ ReconcileRead(v) \/ ReconcileList(v)
                            \/ ReconcileEnd(v)
    \/ Fail(v)

(* It keeps what it knows.                                                 *)
LEMMA SessionStays ==
  ASSUME TypeOK, TableOK, SessionOK, [Next]_vars, NEW w \in Workers,
         Untouched(w)
  PROVE  SessionOf(w)'
  <1> USE ConstantsAssumption
  <1>1. SessionOf(w)
    BY DEF SessionOK
  <1>2. event[w] # NoVal => event[w].port \in Ports
    BY DEF TypeOK, EventSet
  <1>3. target[w] # NoVal => target[w] \in Ports
    BY DEF TypeOK
  <1>4. open[w] \cup absent[w] \subseteq Ports
    BY DEF TypeOK
  <1> QED
    BY <1>1, <1>2, <1>3, <1>4, Monotone DEF SessionOf, Tracked, Untouched

(* A session that ends knows nothing.                                      *)
LEMMA SessionCloses ==
  ASSUME TypeOK, NEW w \in Workers, Close(w)
  PROVE  /\ SessionOf(w)'
         /\ \A v \in Workers \ {w} : Untouched(v) /\ open'[v] = open[v]
  BY DEF TypeOK, Close, SessionOf, Untouched

(* No worker touches the session of another.                               *)
LEMMA OthersUntouched ==
  ASSUME TypeOK, NEW w \in Workers, StepOf(w),
         NEW v \in Workers, v # w
  PROVE  Untouched(v) /\ open'[v] = open[v]
  <1>1. CASE v \in Workers /\ Close(w)
    BY <1>1, SessionCloses
  <1>2. CASE \E e \in events : HandleEnd(w, e) \/ IgnorePort(w, e)
    BY <1>2 DEF HandleEnd, IgnorePort, Untouched
  <1>3. CASE \/ \E e \in events : ReadPort(w, e)
             \/ FindDupes(w) \/ CloseDupe(w) \/ LookupOwn(w)
             \/ InsertConflict(w)
    BY <1>3
    DEF ReadPort, FindDupes, CloseDupe, LookupOwn, InsertConflict, TypeOK,
        Untouched
  <1>4. CASE \/ \E p \in Ports : RecordRead(w, p)
             \/ ReconcileRead(w) \/ ReconcileList(w)
    BY <1>4
    DEF RecordRead, ReconcileRead, ReconcileList, TypeOK, Untouched
  <1> QED
    BY <1>1, <1>2, <1>3, <1>4
    DEF StepOf, Consume, Insert, Update, RecordInsert, ReconcileEnd, Fail

LEMMA StepOrUntouched ==
  ASSUME TypeOK, [Next]_vars
  PROVE  \/ \E w \in Workers : StepOf(w)
         \/ /\ \A v \in Workers : Untouched(v) /\ open'[v] = open[v]
            /\ UNCHANGED rows
  <1>1. CASE UNCHANGED <<session, rows>>
    BY <1>1 DEF Untouched
  <1>2. ASSUME NEW w,
               \/ w \in Consumers /\ Consume(w)
               \/ /\ w \in Recorders
                  /\ RecordInsert(w) \/ \E p \in Ports : RecordRead(w, p)
               \/ /\ w \in Reconcilers
                  /\ ReconcileRead(w) \/ ReconcileList(w) \/ ReconcileEnd(w)
               \/ w \in Workers /\ Fail(w)
        PROVE  w \in Workers /\ StepOf(w)
    BY <1>2 DEF StepOf, Workers
  <1>3. ASSUME NEW p \in Ports, NEW ip, NEW d,
               CreatePort(p, ip, d) \/ UpdatePort(p, ip, d) \/ DeletePort(p)
        PROVE  UNCHANGED <<session, rows>>
    BY <1>3 DEF CreatePort, UpdatePort, DeletePort
  <1> QED
    BY <1>1, <1>2, <1>3 DEF Next, Quiet, Tick, LoseEvent, vars

(* Each step of a session leaves it with what it knows to be so.           *)
LEMMA OwnStep ==
  ASSUME TypeOK, TableOK, SessionOK, [Next]_vars, NEW w \in Workers, StepOf(w)
  PROVE  SessionOf(w)'
  <1> USE ConstantsAssumption, NoValAssumption
  <1>1. SessionOf(w)
    BY DEF SessionOK
  <1>2. CASE Close(w)
    BY <1>2, SessionCloses
  <1>3. CASE \E e \in events : HandleEnd(w, e) \/ IgnorePort(w, e)
    <2>1. Untouched(w)
      BY <1>3 DEF HandleEnd, IgnorePort, Untouched
    <2> QED
      BY <2>1, SessionStays
  <1>4. ASSUME NEW e \in events, ReadPort(w, e) PROVE SessionOf(w)'
    <2>1. e \in EventSet /\ e # NoVal /\ e.port \in Ports
          /\ ports[e.port] # NoVal
      BY DEF TypeOK, TableOK, EventSet
    <2>2. UNCHANGED <<neutron, rows, open, absent>>
      BY <1>4 DEF ReadPort
    <2>3. /\ pc'[w] = "dupes" /\ event'[w] = e /\ target'[w] = e.port
          /\ seen'[w] = ports[e.port] /\ Tracked(ports[e.port])
      BY <1>4 DEF ReadPort, TypeOK
    <2> QED
      BY <1>1, <2>1, <2>2, <2>3 DEF SessionOf, Tracked
  <1>5. CASE FindDupes(w)
    BY <1>1, <1>5
    DEF FindDupes, OpenOnAddress, IsOpen, SessionOf, Tracked, TypeOK
  <1>6. CASE CloseDupe(w)
    <2>1. Untouched(w)
      BY <1>6 DEF CloseDupe, TypeOK, Untouched
    <2> QED
      BY <2>1, SessionStays
  <1>7. CASE LookupOwn(w)
    BY <1>1, <1>7 DEF LookupOwn, SessionOf, Tracked, TypeOK
  <1>8. CASE InsertConflict(w)
    BY <1>1, <1>8 DEF InsertConflict, SessionOf, Tracked, TypeOK
  <1>9. ASSUME NEW p \in Ports, RecordRead(w, p) PROVE SessionOf(w)'
    BY <1>1, <1>9 DEF RecordRead, Alive, SessionOf, Tracked, TypeOK
  <1>10. CASE ReconcileRead(w)
    BY <1>1, <1>10 DEF ReconcileRead, IsOpen, SessionOf, Tracked, TypeOK
  <1>11. CASE ReconcileList(w)
    <2>1. PICK c \in Chunks(open[w]) :
            /\ open' = [open EXCEPT ![w] = @ \ c]
            /\ absent' = [absent EXCEPT ![w] = @ \cup Unlisted(c)]
            /\ Goto(w, IF open[w] = c THEN "end" ELSE "list")
      BY <1>11 DEF ReconcileList
    <2>2. \A p \in c : p \in Ports /\ rows[p] # NoVal
      BY <1>1, <2>1 DEF Chunks, SessionOf, TypeOK
    <2>3. Unlisted(c) \subseteq gone /\ Unlisted(c) \subseteq c
      BY <2>2 DEF Unlisted, Alive, TableOK
    <2>4. /\ pc'[w] \in {"list", "end"} /\ open'[w] \subseteq open[w]
          /\ absent'[w] = absent[w] \cup Unlisted(c)
      BY <2>1 DEF TypeOK
    <2>5. UNCHANGED <<neutron, rows, event>>
      BY <1>11 DEF ReconcileList
    <2> QED
      BY <1>1, <2>2, <2>3, <2>4, <2>5 DEF SessionOf
  <1> QED
    BY <1>2, <1>3, <1>4, <1>5, <1>6, <1>7, <1>8, <1>9, <1>10, <1>11
    DEF StepOf, Consume, Insert, Update, RecordInsert, ReconcileEnd, Fail

LEMMA SessionStep ==
  ASSUME TypeOK, TableOK, SessionOK, [Next]_vars
  PROVE  SessionOK'
  <1> SUFFICES ASSUME NEW v \in Workers PROVE SessionOf(v)'
    BY DEF SessionOK, Workers
  <1>1. CASE Untouched(v)
    BY <1>1, SessionStays
  <1>2. CASE StepOf(v)
    BY <1>2, OwnStep
  <1> QED
    BY <1>1, <1>2, StepOrUntouched, OthersUntouched

-----------------------------------------------------------------------------
(* The theorems.                                                           *)

(* IInv holds in every reachable state.                                    *)
THEOREM Invariance == Spec => []IInv
  <1>1. IInv /\ [Next]_vars => IInv'
    BY TypeStep, TableStep, SessionStep DEF IInv
  <1> QED
    BY InitIInv, <1>1, PTL DEF Spec

(* Type correctness.                                                       *)
THEOREM TypeCorrect == Spec => []TypeOK
  <1>1. IInv => TypeOK
    BY DEF IInv
  <1> QED
    BY Invariance, <1>1, PTL

(* For any number of ports, batches and concurrent handlers: however long  *)
(* ago the task read the table and asked neutron, the row of no live port  *)
(* is ended.                                                               *)
THEOREM LivePortsKeepTheirRows == Spec => ReconcileEndsOnlyGone
  <1>1. ASSUME IInv, [Next]_vars, NEW w \in Reconcilers, NEW p \in Ports,
               pc[w] = "end", pc'[w] = "idle", rows'[p] # rows[p]
        PROVE  p \in gone
    <2>1. w \in Workers
      BY DEF Workers
    <2>2. StepOf(w)
      BY <1>1, <2>1, StepOrUntouched, OthersUntouched DEF Untouched, IInv
    <2>3. ReconcileEnd(w)
      BY <1>1, <2>1, <2>2, ConstantsAssumption
      DEF StepOf, Consume, HandleEnd, IgnorePort, ReadPort, Handles, FindDupes,
          CloseDupe, LookupOwn, Insert, InsertConflict, Update, RecordInsert,
          RecordRead, ReconcileRead, ReconcileList, Fail
    <2>4. p \in absent[w]
      BY <1>1, <2>3 DEF ReconcileEnd
    <2> QED
      BY <1>1, <2>1, <2>4 DEF IInv, SessionOK, SessionOf
  <1>2. IInv /\ [Next]_vars =>
          [\A w \in Reconcilers, p \in Ports :
              pc[w] = "end" /\ pc'[w] = "idle" /\ rows'[p] # rows[p]
                  => p \in gone]_vars
    BY <1>1
  <1> QED
    BY Invariance, <1>2, PTL DEF Spec, ReconcileEndsOnlyGone

=============================================================================
