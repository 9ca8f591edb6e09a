---------------------------- MODULE LifecycleProofs ----------------------------
(***************************************************************************)
(* Proofs about WorkOrders as long as no two operations on one order       *)
(* overlap: it then implements WorkOrderLifecycle, and its events mirror   *)
(* its table.  For any number of orders, assignees, classifications,       *)
(* operations and outbox ids.                                              *)
(***************************************************************************)
EXTENDS WorkOrdersProofs

\* What holds under any interleaving.
Known == TypeInv /\ CheckInv /\ IdInv /\ CreatedInv

\* op turns the row into its copy in memory as its endpoint allows.
Intended(op, row) ==
    \/ /\ op.type = "assigned"
       /\ CanAssign(row.status)
       /\ \E a \in Assignees :
             op.mem = [row EXCEPT !.assignee = a, !.status = "assigned"]
    \/ /\ op.type = "triaged"
       /\ row.triage = None
       /\ \E t \in Triages : op.mem = [row EXCEPT !.triage = t]
    \/ \E next \in Status \ {"assigned"} :
          /\ CanTransition(row.status, next)
          /\ op.type = StatusEvents[next]
          /\ op.mem = [row EXCEPT !.status = next]

\* With nobody else at its order an operation's copy is never stale: it still
\* is what it makes of the row, and the save writes what it changed.
Fresh(p) ==
    InFlight(p) /\ ops[p].type # "created" =>
        /\ Intended(ops[p], Target(p))
        /\ ops[p].pc # "loaded" => ops[p].diff = Diff(ops[p].mem, Target(p))

\* A staged event is the next one of its order.
NextOfItsOrder(p) ==
    ops[p].pc = "staged" =>
        /\ ops[p].id \in 1 .. MaxEvents
        /\ \A e \in outbox : e.order = ops[p].order => e.id < ops[p].id

OpsInv ==
    /\ OneAtATime
    /\ nextId # 0
    /\ \A p \in Procs : Fresh(p) /\ NextOfItsOrder(p)

TableInv ==
    /\ LastEventIsTheRow
    /\ WorkHasAssignee

SerialInv == OpsInv /\ TableInv

LEMMA SerialInvInit == Init => SerialInv
BY DEF Init, SerialInv, OpsInv, TableInv, OneAtATime, InFlight, Idle, Fresh,
       NextOfItsOrder, LastEventIsTheRow, WorkHasAssignee, Absent

-----------------------------------------------------------------------------
(* The operations                                                          *)

LEMMA OpsInvNext ==
    Known /\ Known' /\ OpsInv /\ [Next /\ OneAtATime']_vars => OpsInv'
<1> SUFFICES ASSUME Known, Known', OpsInv, [Next /\ OneAtATime']_vars
             PROVE  OpsInv'
    OBVIOUS
<1> USE DEF Idle
<1>0. /\ rows \in [Orders -> Row \cup {Absent}]
      /\ ops \in [Procs -> Op \cup {Idle}] /\ ops' \in [Procs -> Op \cup {Idle}]
      /\ nextId \in Nat /\ nextId # 0 /\ nextId' \in Nat
    BY DEF Known, TypeInv, TypeOK, OpsInv
\* A step of p that changes nothing but its own operation.
<1>1. ASSUME NEW p \in Procs, UNCHANGED <<rows, outbox>>,
             nextId' \in {nextId, nextId + 1},
             OneAtATime', Fresh(p)', NextOfItsOrder(p)',
             \A q \in Procs \ {p} : ops'[q] = ops[q]
      PROVE  OpsInv'
    <2>1. ASSUME NEW q \in Procs, q # p
          PROVE  (Fresh(q) /\ NextOfItsOrder(q))'
        <3>1. ops'[q] = ops[q] /\ Fresh(q) /\ NextOfItsOrder(q)
            BY <1>1, <2>1 DEF OpsInv
        <3> QED
            BY <1>1, <3>1 DEF Fresh, NextOfItsOrder, InFlight, Target
    <2> QED
        BY <1>0, <1>1, <2>1 DEF OpsInv
<1>2. ASSUME NEW p \in Procs, NEW o \in Orders, OneAtATime', Create(p, o)
      PROVE  OpsInv'
    <2>1. /\ UNCHANGED <<rows, outbox>> /\ nextId' = nextId + 1
          /\ ops'[p].pc = "staged" /\ ops'[p].type = "created"
          /\ ops'[p].order = o /\ ops'[p].id = nextId /\ nextId <= MaxEvents
          /\ rows[o] = Absent
          /\ \A q \in Procs \ {p} : ops'[q] = ops[q]
        BY <1>0, <1>2 DEF Create
    <2>2. \A e \in outbox : e.order # o
        BY <2>1 DEF Known, CreatedInv
    <2>3. Fresh(p)'
        BY <2>1 DEF Fresh
    <2>4. NextOfItsOrder(p)'
        BY <1>0, <2>1, <2>2, BoundAssumption DEF NextOfItsOrder
    <2> QED
        BY <1>1, <1>2, <2>1, <2>3, <2>4
\* An operation loads its order and changes the copy.
<1>3. ASSUME NEW p \in Procs, NEW o \in Orders, NEW type, NEW mem, OneAtATime',
             UNCHANGED <<rows, outbox, nextId>>,
             ops' = [ops EXCEPT ![p] = Loaded(o, type, mem)],
             Intended(Loaded(o, type, mem), rows[o])
      PROVE  OpsInv'
    <2>1. ops'[p] = Loaded(o, type, mem) /\ \A q \in Procs \ {p} : ops'[q] = ops[q]
        BY <1>0, <1>3
    <2>2. ops'[p].pc = "loaded" /\ ops'[p].order = o
        BY <2>1 DEF Loaded
    <2>3. Fresh(p)' /\ NextOfItsOrder(p)'
        BY <1>3, <2>1, <2>2 DEF Fresh, NextOfItsOrder, Target
    <2> QED
        BY <1>1, <1>3, <2>1, <2>3
<1>4. ASSUME NEW p \in Procs, NEW o \in Orders, NEW a \in Assignees,
             OneAtATime', Assign(p, o, a)
      PROVE  OpsInv'
    <2> DEFINE mem == [rows[o] EXCEPT !.assignee = a, !.status = "assigned"]
    <2>1. Intended(Loaded(o, "assigned", mem), rows[o])
        BY <1>4 DEF Assign, Intended, Loaded
    <2> QED
        BY <1>3, <1>4, <2>1 DEF Assign
<1>5. ASSUME NEW p \in Procs, NEW o \in Orders, NEW next \in Status,
             OneAtATime', UpdateStatus(p, o, next)
      PROVE  OpsInv'
    <2> DEFINE mem == [rows[o] EXCEPT !.status = next]
    <2>1. Intended(Loaded(o, StatusEvents[next], mem), rows[o])
        BY <1>5 DEF UpdateStatus, Intended, Loaded
    <2> QED
        BY <1>3, <1>5, <2>1 DEF UpdateStatus
<1>6. ASSUME NEW p \in Procs, NEW o \in Orders, NEW t \in Triages,
             OneAtATime', ApplyTriage(p, o, t)
      PROVE  OpsInv'
    <2> DEFINE mem == [rows[o] EXCEPT !.triage = t]
    <2>1. Intended(Loaded(o, "triaged", mem), rows[o])
        BY <1>6 DEF ApplyTriage, Intended, Loaded
    <2> QED
        BY <1>3, <1>6, <2>1 DEF ApplyTriage
<1>7. ASSUME NEW p \in Procs, OneAtATime', SaveSelect(p)
      PROVE  OpsInv'
    <2>1. ops[p] \in Op /\ InFlight(p) /\ Fresh(p)
        BY <1>0, <1>7 DEF SaveSelect, OpsInv, InFlight
    <2>2. /\ ops'[p].pc = "selected" /\ ops'[p].type = ops[p].type
          /\ ops'[p].mem = ops[p].mem /\ ops'[p].order = ops[p].order
          /\ ops'[p].diff = Diff(ops[p].mem, Target(p))
          /\ UNCHANGED <<rows, outbox, nextId>>
          /\ \A q \in Procs \ {p} : ops'[q] = ops[q]
        BY <1>0, <1>7, <2>1 DEF SaveSelect, Op
    <2>3. Fresh(p)' /\ NextOfItsOrder(p)'
        BY <2>1, <2>2 DEF Fresh, NextOfItsOrder, Intended, Target
    <2> QED
        BY <1>1, <1>7, <2>2, <2>3
<1>8. ASSUME NEW p \in Procs, OneAtATime', UpdateAndStage(p)
      PROVE  OpsInv'
    <2>1. ops[p] \in Op /\ InFlight(p) /\ Fresh(p) /\ ops[p].pc = "selected"
        BY <1>0, <1>8 DEF UpdateAndStage, OpsInv, InFlight
    <2>2. /\ ops'[p].pc = "staged" /\ ops'[p].type = ops[p].type
          /\ ops'[p].mem = ops[p].mem /\ ops'[p].order = ops[p].order
          /\ ops'[p].diff = ops[p].diff /\ ops'[p].id = nextId
          /\ nextId <= MaxEvents /\ nextId' = nextId + 1
          /\ UNCHANGED <<rows, outbox>>
          /\ \A q \in Procs \ {p} : ops'[q] = ops[q]
        BY <1>0, <1>8, <2>1 DEF UpdateAndStage, Op
    <2>3. Fresh(p)'
        BY <2>1, <2>2 DEF Fresh, Intended, Target
    <2>4. NextOfItsOrder(p)'
        BY <1>0, <2>2, BoundAssumption DEF NextOfItsOrder, Known, IdInv
    <2> QED
        BY <1>1, <1>8, <2>2, <2>3, <2>4
<1>9. ASSUME NEW p \in Procs, OneAtATime', CheckViolation(p) \/ Rollback(p)
      PROVE  OpsInv'
    <2>1. /\ ops'[p] = Idle /\ UNCHANGED <<rows, outbox, nextId>>
          /\ \A q \in Procs \ {p} : ops'[q] = ops[q]
        BY <1>0, <1>9 DEF CheckViolation, Rollback
    <2>2. Fresh(p)' /\ NextOfItsOrder(p)'
        BY <2>1 DEF Fresh, NextOfItsOrder, InFlight
    <2> QED
        BY <1>1, <1>9, <2>1, <2>2
<1>10. ASSUME NEW p \in Procs, OneAtATime', Commit(p)
       PROVE  OpsInv'
    <2>1. /\ ops[p] \in Op /\ ops'[p] = Idle /\ nextId' = nextId
          /\ ops[p].pc = "staged"
          /\ \A q \in Procs \ {p} : ops'[q] = ops[q]
          /\ outbox' = outbox \cup {EventOf(ops[p])}
          /\ \A o \in Orders \ {ops[p].order} : rows'[o] = rows[o]
        BY <1>0, <1>10 DEF Commit
    <2>2. ASSUME NEW q \in Procs
          PROVE  (Fresh(q) /\ NextOfItsOrder(q))'
        <3>1. CASE q = p
            BY <2>1, <3>1 DEF Fresh, NextOfItsOrder, InFlight
        <3>2. CASE q # p /\ ops[q] = Idle
            BY <2>1, <3>2 DEF Fresh, NextOfItsOrder, InFlight
        <3>3. CASE q # p /\ ops[q] # Idle
            <4>1. ops[q] \in Op /\ ops'[q] = ops[q]
                BY <1>0, <2>1, <3>3
            <4>2. InFlight(p) /\ InFlight(q)
                BY <2>1, <4>1 DEF InFlight, Op
            <4>3. ops[q].order # ops[p].order /\ ops[q].order \in Orders
                BY <3>3, <4>1, <4>2 DEF OpsInv, OneAtATime, Op
            <4>4. Target(q)' = Target(q)
                BY <2>1, <4>1, <4>3 DEF Target
            <4>5. Fresh(q)'
                BY <4>1, <4>4 DEF OpsInv, Fresh, InFlight
            <4>6. NextOfItsOrder(q)'
                BY <2>1, <4>1, <4>3 DEF OpsInv, NextOfItsOrder, EventOf
            <4> QED
                BY <4>5, <4>6
        <3> QED
            BY <3>1, <3>2, <3>3
    <2> QED
        BY <1>0, <1>10, <2>1, <2>2 DEF OpsInv
<1>11. CASE UNCHANGED vars
    BY <1>11 DEF vars, OpsInv, OneAtATime, Fresh, NextOfItsOrder, InFlight, Target
<1> QED
    BY <1>2, <1>4, <1>5, <1>6, <1>7, <1>8, <1>9, <1>10, <1>11 DEF Next, Step

-----------------------------------------------------------------------------
(* The table and the events                                                *)

\* A commit puts the copy in the place of the row.
LEMMA CommitChange ==
    ASSUME Known, OpsInv, NEW p \in Procs, Commit(p)
    PROVE  /\ ops[p] \in Op
           /\ rows' = [rows EXCEPT ![ops[p].order] = ops[p].mem]
           /\ outbox' = outbox \cup {EventOf(ops[p])}
           /\ \/ /\ ops[p].type = "created"
                 /\ ops[p].mem = NewRow
                 /\ rows[ops[p].order] = Absent
              \/ /\ ops[p].type # "created"
                 /\ rows[ops[p].order] \in Row
                 /\ Intended(ops[p], rows[ops[p].order])
           /\ ops[p].id \in 1 .. MaxEvents
           /\ \A e \in outbox : e.order = ops[p].order => e.id < ops[p].id
<1>1. /\ ops[p] \in Op /\ ops[p].pc = "staged" /\ InFlight(p)
      /\ ops[p].order \in Orders /\ ops[p].mem \in Row
      /\ Target(p) = rows[ops[p].order] /\ Target(p) \in Row \cup {Absent}
    BY DEF Commit, Known, TypeInv, TypeOK, Idle, InFlight, Op, Target
<1>2. \/ /\ ops[p].type = "created" /\ ops[p].mem = NewRow
         /\ Target(p) = Absent /\ ops[p].diff = Columns
      \/ /\ ops[p].type # "created" /\ Target(p) \in Row
         /\ Intended(ops[p], Target(p))
         /\ ops[p].diff = Diff(ops[p].mem, Target(p))
    BY <1>1 DEF Known, TypeInv, TargetsExist, OpsInv, Fresh
<1>3. Written(Target(p), ops[p].mem, ops[p].diff) = ops[p].mem
    <2>1. ASSUME NEW mem \in Row, NEW row \in Row \cup {Absent},
                 NEW diff \in {Columns, Diff(mem, row)}
          PROVE  Written(row, mem, diff) = mem
        BY <2>1 DEF Written, Diff, Columns, Row
    <2> QED
        BY <1>1, <1>2, <2>1
<1>4. rows' = [rows EXCEPT ![ops[p].order] = ops[p].mem]
    BY <1>1, <1>3 DEF Commit, Target
<1> QED
    BY <1>1, <1>2, <1>4 DEF Commit, OpsInv, NextOfItsOrder

LEMMA TableInvCommit ==
    ASSUME Known, OpsInv, TableInv, NEW p \in Procs, Commit(p)
    PROVE  TableInv'
<1> DEFINE op == ops[p]
           o == op.order
           new == EventOf(op)
<1>1. /\ op \in Op /\ o \in Orders /\ rows' = [rows EXCEPT ![o] = op.mem]
      /\ outbox' = outbox \cup {new} /\ op.id \in Nat
      /\ \/ op.type = "created" /\ op.mem = NewRow /\ rows[o] = Absent
         \/ op.type # "created" /\ rows[o] \in Row /\ Intended(op, rows[o])
      /\ \A e \in outbox : e.order = o => e.id < op.id
    BY CommitChange DEF Op
<1>2. new.id = op.id /\ new.order = o /\ new.type = op.type /\ new.data = op.mem
    BY DEF EventOf
<1>3. /\ rows \in [Orders -> Row \cup {Absent}]
      /\ \A e \in outbox : e.id \in Nat /\ e.order \in Orders
      /\ \A e \in outbox : rows[e.order] # Absent
      /\ \A q \in Orders : rows[q].status = "assigned" => rows[q].assignee # None
    BY DEF Known, TypeInv, TypeOK, Event, CreatedInv, CheckInv, AssignedHasAssignee
<1>4. rows'[o] = op.mem /\ \A q \in Orders \ {o} : rows'[q] = rows[q]
    BY <1>1, <1>3
<1> HIDE DEF new
<1>5. LastEventIsTheRow'
    <2> SUFFICES ASSUME NEW e \in outbox', \A f \in outbox' : f.order = e.order => f.id <= e.id
                 PROVE  e.data = rows'[e.order]
        BY DEF LastEventIsTheRow
    <2>1. CASE e = new
        BY <1>2, <1>4, <2>1
    <2>2. CASE e \in outbox /\ e.order = o
        <3>1. new.id <= e.id /\ e.id < op.id
            BY <1>1, <1>2, <2>2
        <3> QED
            BY <1>1, <1>2, <1>3, <2>2, <3>1
    <2>3. CASE e \in outbox /\ e.order # o
        BY <1>1, <1>3, <1>4, <2>3 DEF TableInv, LastEventIsTheRow
    <2> QED
        BY <1>1, <2>1, <2>2, <2>3
\* What the operation makes of the row.
<1>6. /\ op.mem.status \in {"in_progress", "completed"} => op.mem.assignee # None
      /\ op.type # "triaged" /\ rows[o] # Absent => op.mem.triage = rows[o].triage
      /\ op.type = "triaged" => rows[o].triage = None /\ op.mem.triage # None
    <2>1. CASE op.type = "created" /\ op.mem = NewRow /\ rows[o] = Absent
        BY <2>1 DEF NewRow
    <2>2. CASE rows[o] \in Row /\ Intended(op, rows[o])
        <3>1. ASSUME op.type = "assigned", NEW a \in Assignees,
                     op.mem = [rows[o] EXCEPT !.assignee = a, !.status = "assigned"]
              PROVE  op.mem.status = "assigned" /\ op.mem.triage = rows[o].triage
            BY <2>2, <3>1 DEF Row
        <3>2. ASSUME op.type = "triaged", rows[o].triage = None, NEW t \in Triages,
                     op.mem = [rows[o] EXCEPT !.triage = t]
              PROVE  /\ op.mem.triage # None
                     /\ op.mem.status = rows[o].status
                     /\ op.mem.assignee = rows[o].assignee
            BY <2>2, <3>2, NullAssumption DEF Row
        <3>3. ASSUME NEW next \in Status \ {"assigned"},
                     CanTransition(rows[o].status, next),
                     op.type = StatusEvents[next],
                     op.mem = [rows[o] EXCEPT !.status = next]
              PROVE  /\ op.type # "triaged"
                     /\ op.mem.triage = rows[o].triage
                     /\ op.mem.assignee = rows[o].assignee
                     /\ op.mem.status \in {"in_progress", "completed"} =>
                            rows[o].status \in {"assigned", "in_progress"}
            <4>1. next \in {"in_progress", "completed", "cancelled"}
                BY <2>2, <3>3 DEF CanTransition, AllowedTransitions, Row, Status
            <4>2. op.type # "triaged"
                BY <3>3, <4>1 DEF StatusEvents
            <4>3. op.mem.status = next /\ op.mem.triage = rows[o].triage
                  /\ op.mem.assignee = rows[o].assignee
                BY <2>2, <3>3 DEF Row
            <4>4. next \in {"in_progress", "completed"} =>
                      rows[o].status \in {"assigned", "in_progress"}
                BY <2>2, <3>3 DEF CanTransition, AllowedTransitions, Row, Status
            <4> QED
                BY <4>2, <4>3, <4>4
        <3>4. rows[o].status \in {"in_progress", "completed", "assigned"} =>
                  rows[o].assignee # None
            BY <1>1, <1>3 DEF TableInv, WorkHasAssignee
        <3>5. CASE /\ op.type = "assigned"
                   /\ \E a \in Assignees :
                         op.mem = [rows[o] EXCEPT !.assignee = a, !.status = "assigned"]
            BY <3>1, <3>5
        <3>6. CASE /\ op.type = "triaged" /\ rows[o].triage = None
                   /\ \E t \in Triages : op.mem = [rows[o] EXCEPT !.triage = t]
            BY <3>2, <3>4, <3>6
        <3>7. CASE \E next \in Status \ {"assigned"} :
                       /\ CanTransition(rows[o].status, next)
                       /\ op.type = StatusEvents[next]
                       /\ op.mem = [rows[o] EXCEPT !.status = next]
            BY <3>3, <3>4, <3>7
        <3> HIDE DEF op
        <3> QED
            BY <2>2, <3>5, <3>6, <3>7 DEF Intended
    <2> QED
        BY <1>1, <2>1, <2>2
<1>7. WorkHasAssignee'
    BY <1>1, <1>4, <1>6 DEF TableInv, WorkHasAssignee
<1> QED
    BY <1>5, <1>7 DEF TableInv

LEMMA TableInvNext ==
    Known /\ OpsInv /\ TableInv /\ [Next]_vars => TableInv'
<1> SUFFICES ASSUME Known, OpsInv, TableInv, [Next]_vars
             PROVE  TableInv'
    OBVIOUS
<1>1. CASE UNCHANGED <<rows, outbox>>
    BY <1>1 DEF TableInv, LastEventIsTheRow, WorkHasAssignee
<1>2. ASSUME NEW p \in Procs, Commit(p)
      PROVE  TableInv'
    BY <1>2, TableInvCommit
<1> QED
    BY <1>1, <1>2, OnlyCommitPublishes

-----------------------------------------------------------------------------
(* The theorems                                                            *)

LEMMA SerialImpliesSpec == SerialSpec => Spec
<1>1. [Next /\ OneAtATime']_vars => [Next]_vars
    OBVIOUS
<1> QED
    BY <1>1, PTL DEF SerialSpec, Spec

LEMMA SerialInvariant == SerialSpec => [](Known /\ SerialInv)
<1>1. Known /\ Known' /\ SerialInv /\ [Next /\ OneAtATime']_vars => SerialInv'
    <2>1. [Next /\ OneAtATime']_vars => [Next]_vars
        OBVIOUS
    <2> QED
        BY <2>1, OpsInvNext, TableInvNext DEF SerialInv
<1>2. Spec => []Known
    BY TypeInvariant, CheckInvariant, IdInvariant, CreatedInvariant, PTL DEF Known
<1> QED
    BY <1>1, <1>2, SerialImpliesSpec, SerialInvInit, PTL DEF SerialSpec

\* The snapshot of an order's last event is the order's row.
THEOREM EventsMirrorTheTable == SerialSpec => []LastEventIsTheRow
<1>1. SerialInv => LastEventIsTheRow
    BY DEF SerialInv, TableInv
<1> QED
    BY <1>1, SerialInvariant, PTL

\* An order is only worked on, and only completed, by somebody.
THEOREM WorkIsAssigned == SerialSpec => []WorkHasAssignee
<1>1. SerialInv => WorkHasAssignee
    BY DEF SerialInv, TableInv
<1> QED
    BY <1>1, SerialInvariant, PTL

\* The three steps of a save, and the failures between them, look from outside
\* like one step of the state chart with one event.
THEOREM Refinement == SerialSpec => ImplementsLifecycle
<1> DEFINE events == {[id |-> e.id, order |-> e.order, type |-> e.type,
                       data |-> e.data] : e \in outbox}
<1>1. Init => Lifecycle!Init
    BY DEF Init, Lifecycle!Init, Absent, Lifecycle!Absent
<1>2. Known /\ SerialInv /\ [Next]_vars => [Lifecycle!Next]_Lifecycle!vars
    <2> SUFFICES ASSUME Known, SerialInv, [Next]_vars
                 PROVE  Lifecycle!Next \/ UNCHANGED Lifecycle!vars
        OBVIOUS
    <2>1. CASE UNCHANGED <<rows, outbox>>
        BY <2>1 DEF Lifecycle!vars
    <2>2. ASSUME NEW p \in Procs, Commit(p)
          PROVE  Lifecycle!Next
        <3>0. PICK op \in Op, o \in Orders : op = ops[p] /\ o = op.order
            BY <2>2, CommitChange DEF SerialInv, Op
        <3>1. /\ op \in Op /\ o \in Orders /\ rows' = [rows EXCEPT ![o] = op.mem]
              /\ outbox' = outbox \cup {EventOf(op)} /\ op.id \in 1 .. MaxEvents
              /\ \/ op.type = "created" /\ op.mem = NewRow /\ rows[o] = Absent
                 \/ rows[o] \in Row /\ Intended(op, rows[o])
              /\ \A e \in outbox : e.order = o => e.id < op.id
            BY <2>2, <3>0, CommitChange DEF SerialInv
        <3>2. \A e \in outbox : e.id # op.id
            BY <2>2, <3>0 DEF Commit, Known, IdInv
        <3>3. events' = events \cup
                  {[id |-> op.id, order |-> o, type |-> op.type, data |-> op.mem]}
            <4> DEFINE new == EventOf(op)
            <4>1. new.id = op.id /\ new.order = o /\ new.type = op.type /\ new.data = op.mem
                BY <3>0 DEF EventOf
            <4>2. outbox' = outbox \cup {new}
                BY <3>1
            <4> HIDE DEF new
            <4> QED
                BY <4>1, <4>2
        <3>4. \A e \in events : e.id # op.id /\ (e.order = o => e.id < op.id)
            BY <3>1, <3>2
        <3>5. ASSUME NEW new, NEW type, new = op.mem, type = op.type
              PROVE  Lifecycle!Becomes(o, new, type)
            <4> HIDE DEF events
            <4> QED
                BY <3>1, <3>3, <3>4, <3>5 DEF Lifecycle!Becomes, events
        <3>6. rows[o] # Absent <=> rows[o] # Lifecycle!Absent
            BY DEF Absent, Lifecycle!Absent
        <3>7. Lifecycle!Change(o) => Lifecycle!Next
            BY DEF Lifecycle!Next
        <3>8. CASE op.type = "created" /\ op.mem = NewRow /\ rows[o] = Absent
            <4>1. NewRow = [Lifecycle!Absent EXCEPT !.status = "open"]
                BY DEF NewRow, Lifecycle!Absent
            <4>2. Lifecycle!Open(o)
                BY <3>5, <3>6, <3>8, <4>1 DEF Lifecycle!Open
            <4> QED
                BY <3>7, <4>2 DEF Lifecycle!Change
        <3>9. ASSUME rows[o] \in Row, op.type = "assigned",
                     CanAssign(rows[o].status), NEW a \in Assignees,
                     op.mem = [rows[o] EXCEPT !.assignee = a, !.status = "assigned"]
              PROVE  Lifecycle!Next
            <4>1. op.mem = [rows[o] EXCEPT !.status = "assigned", !.assignee = a]
                BY <3>9 DEF Row
            <4>2. Lifecycle!Assign(o, a)
                BY <3>5, <3>9, <4>1 DEF Lifecycle!Assign, CanAssign, AssignableStatuses
            <4> QED
                BY <3>7, <4>2 DEF Lifecycle!Change
        <3>10. ASSUME rows[o] \in Row, op.type = "triaged", rows[o].triage = None,
                     NEW t \in Triages, op.mem = [rows[o] EXCEPT !.triage = t]
              PROVE  Lifecycle!Next
            <4>1. rows[o] # Lifecycle!Absent
                BY <3>6, <3>10, RowTypes
            <4>2. Lifecycle!Triage(o, t)
                BY <3>5, <3>10, <4>1 DEF Lifecycle!Triage
            <4> QED
                BY <3>7, <4>2 DEF Lifecycle!Change
        <3>11. ASSUME rows[o] \in Row, NEW next \in Status \ {"assigned"},
                      CanTransition(rows[o].status, next),
                      op.type = StatusEvents[next],
                      op.mem = [rows[o] EXCEPT !.status = next]
               PROVE  Lifecycle!Next
            <4>1. \/ next = "in_progress" /\ rows[o].status = "assigned"
                  \/ next = "completed" /\ rows[o].status = "in_progress"
                  \/ /\ next = "cancelled"
                     /\ rows[o].status \in {"open", "assigned", "in_progress"}
                BY <3>11 DEF CanTransition, AllowedTransitions, Row, Status
            <4>2. CASE next = "in_progress" /\ rows[o].status = "assigned"
                <5>1. rows[o].assignee # None
                    BY <3>1, <4>2 DEF Known, CheckInv, AssignedHasAssignee
                <5>2. op.type = "started"
                    BY <3>11, <4>2 DEF StatusEvents
                <5>3. Lifecycle!Start(o)
                    BY <3>5, <3>11, <4>2, <5>1, <5>2 DEF Lifecycle!Start
                <5> QED
                    BY <3>7, <5>3 DEF Lifecycle!Change
            <4>3. CASE next = "completed" /\ rows[o].status = "in_progress"
                <5>1. op.type = "completed"
                    BY <3>11, <4>3 DEF StatusEvents
                <5>2. Lifecycle!Complete(o)
                    BY <3>5, <3>11, <4>3, <5>1 DEF Lifecycle!Complete
                <5> QED
                    BY <3>7, <5>2 DEF Lifecycle!Change
            <4>4. CASE /\ next = "cancelled"
                       /\ rows[o].status \in {"open", "assigned", "in_progress"}
                <5>1. op.type = "cancelled"
                    BY <3>11, <4>4 DEF StatusEvents
                <5>2. Lifecycle!Cancel(o)
                    BY <3>5, <3>11, <4>4, <5>1 DEF Lifecycle!Cancel
                <5> QED
                    BY <3>7, <5>2 DEF Lifecycle!Change
            <4> QED
                BY <4>1, <4>2, <4>3, <4>4
        <3> QED
            BY <3>1, <3>8, <3>9, <3>10, <3>11 DEF Intended
    <2> QED
        BY <2>1, <2>2, OnlyCommitPublishes
<1>3. [Next /\ OneAtATime']_vars => [Next]_vars
    OBVIOUS
<1> QED
    BY <1>1, <1>2, <1>3, SerialInvariant, PTL
    DEF SerialSpec, ImplementsLifecycle, Lifecycle!Spec

=============================================================================
