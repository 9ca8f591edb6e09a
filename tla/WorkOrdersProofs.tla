-------------------------- MODULE WorkOrdersProofs --------------------------
(***************************************************************************)
(* Proofs about WorkOrders, for any sets of orders, assignees,             *)
(* classifications and concurrent operations.                              *)
(*                                                                         *)
(* The argument is layered: each invariant below is preserved by every     *)
(* step given the ones before it, and a safety property follows from the   *)
(* last ones it needs.                                                     *)
(***************************************************************************)
EXTENDS WorkOrders, TLAPS

-----------------------------------------------------------------------------
(* Types                                                                   *)

LEMMA RowTypes ==
    /\ NewRow \in Row
    /\ Absent \notin Row
    /\ NewRow # Absent
BY DEF NewRow, Row, Absent, Status

\* An UPDATE on an existing row leaves a row, and on a missing one (the INSERT
\* of a new order, which writes every column) makes one.
LEMMA WrittenType ==
    ASSUME NEW row \in Row \cup {Absent}, NEW mem \in Row,
           NEW diff \in SUBSET Columns,
           row # Absent \/ diff = Columns
    PROVE  Written(row, mem, diff) \in Row
BY DEF Written, Row, Columns


\* A creation works alone on an id without a row; every other operation works
\* on an order that exists.
TargetsExist ==
    \A p \in Procs : InFlight(p) =>
        \/ /\ ops[p].type = "created"
           /\ ops[p].pc = "staged"
           /\ ops[p].locked
           /\ ops[p].mem = NewRow
           /\ ops[p].diff = Columns
           /\ Target(p) = Absent
           /\ \A q \in Procs :
                 InFlight(q) /\ ops[q].order = ops[p].order => q = p
        \/ /\ ops[p].type # "created"
           /\ Target(p) # Absent

TypeInv == TypeOK /\ TargetsExist

LEMMA TypeInvInit == Init => TypeInv
BY DEF Init, TypeInv, TypeOK, TargetsExist, InFlight, Idle

LEMMA TypeInvNext == TypeInv /\ [Next]_vars => TypeInv'
<1> SUFFICES ASSUME TypeInv, [Next]_vars
             PROVE  TypeInv'
    OBVIOUS
<1> USE RowTypes DEF TypeInv, TypeOK, TargetsExist, InFlight, Target, Idle
<1>1. ASSUME NEW p \in Procs, NEW o \in Orders, Create(p, o)
      PROVE  TypeInv'
    BY <1>1 DEF Create, Op, Columns, EventType
<1>2. ASSUME NEW p \in Procs, NEW o \in Orders, NEW a \in Assignees,
             Assign(p, o, a)
      PROVE  TypeInv'
  <2>1. rows[o] \in Row
      BY <1>2 DEF Assign
  <2>2. [rows[o] EXCEPT !.assignee = a, !.status = "assigned"] \in Row
      BY <2>1 DEF Row, Status
  <2>3. ops'[p] \in Op /\ ops'[p].type # "created" /\ ops'[p].order = o
      BY <1>2, <2>2 DEF Assign, Loaded, Op, EventType
  <2> QED
      BY <1>2, <2>3 DEF Assign
<1>3. ASSUME NEW p \in Procs, NEW o \in Orders, NEW next \in Status,
             UpdateStatus(p, o, next)
      PROVE  TypeInv'
  <2>1. rows[o] \in Row
      BY <1>3 DEF UpdateStatus
  <2>2. [rows[o] EXCEPT !.status = next] \in Row
      BY <2>1 DEF Row
  <2>3. next \in {"in_progress", "completed", "cancelled"}
      BY <1>3, <2>1
      DEF UpdateStatus, CanTransition, AllowedTransitions, Row, Status
  <2>4. StatusEvents[next] \in EventType /\ StatusEvents[next] # "created"
      BY <2>3 DEF StatusEvents, EventType
  <2>5. ops'[p] \in Op /\ ops'[p].type # "created" /\ ops'[p].order = o
      BY <1>3, <2>2, <2>4 DEF UpdateStatus, Loaded, Op
  <2> QED
      BY <1>3, <2>5 DEF UpdateStatus
<1>4. ASSUME NEW p \in Procs, NEW o \in Orders, NEW t \in Triages,
             ApplyTriage(p, o, t)
      PROVE  TypeInv'
  <2>1. rows[o] \in Row
      BY <1>4 DEF ApplyTriage
  <2>2. [rows[o] EXCEPT !.triage = t] \in Row
      BY <2>1 DEF Row
  <2>3. ops'[p] \in Op /\ ops'[p].type # "created" /\ ops'[p].order = o
      BY <1>4, <2>2 DEF ApplyTriage, Loaded, Op, EventType
  <2> QED
      BY <1>4, <2>3 DEF ApplyTriage
<1>5. ASSUME NEW p \in Procs, SaveSelect(p)
      PROVE  TypeInv'
  <2>1. ops[p] \in Op
      BY <1>5 DEF SaveSelect
  <2>2. ops'[p] \in Op /\ ops'[p].type = ops[p].type
            /\ ops'[p].order = ops[p].order
      BY <1>5, <2>1 DEF SaveSelect, Op, Diff
  <2> QED
      BY <1>5, <2>1, <2>2 DEF SaveSelect, Op
<1>6. ASSUME NEW p \in Procs, UpdateAndStage(p)
      PROVE  TypeInv'
  <2>1. ops[p] \in Op
      BY <1>6 DEF UpdateAndStage
  <2>2. PICK lock \in BOOLEAN :
           ops' = [ops EXCEPT ![p].pc = "staged", ![p].locked = lock,
                              ![p].id = nextId]
      BY <1>6 DEF UpdateAndStage
  <2>3. ops'[p] \in Op /\ ops'[p].type = ops[p].type
            /\ ops'[p].order = ops[p].order
      BY <1>6, <2>1, <2>2 DEF Op
  <2> QED
      BY <1>6, <2>1, <2>2, <2>3 DEF UpdateAndStage, Op
<1>7. ASSUME NEW p \in Procs, CheckViolation(p)
      PROVE  TypeInv'
    BY <1>7 DEF CheckViolation
<1>8. ASSUME NEW p \in Procs, Commit(p)
      PROVE  TypeInv'
  <2>1. ops[p] \in Op /\ ops[p].order \in Orders /\ ops[p].mem \in Row
      BY <1>8 DEF Commit, Op
  <2>2. Written(Target(p), ops[p].mem, ops[p].diff) \in Row
      BY <1>8, <2>1, WrittenType DEF Commit, Op
  <2>3. EventOf(ops[p]) \in Event
      BY <2>1 DEF EventOf, Event, Op
  <2>4. rows' = [rows EXCEPT ![ops[p].order] =
                    Written(Target(p), ops[p].mem, ops[p].diff)]
      BY <1>8, <2>1 DEF Commit
  <2>5. TypeOK'
      BY <1>8, <2>1, <2>2, <2>3, <2>4 DEF Commit
  <2>6. \A o \in Orders :
           \/ rows'[o] = rows[o]
           \/ o = ops[p].order /\ rows'[o] # Absent
      BY <2>1, <2>2, <2>4
  <2>7. TargetsExist'
      BY <1>8, <2>1, <2>6 DEF Commit, Op
  <2> QED
      BY <2>5, <2>7
<1>9. ASSUME NEW p \in Procs, Rollback(p)
      PROVE  TypeInv'
    BY <1>9 DEF Rollback
<1>10. CASE UNCHANGED vars
    BY <1>10 DEF vars
<1> QED
    BY <1>1, <1>2, <1>3, <1>4, <1>5, <1>6, <1>7, <1>8, <1>9, <1>10
    DEF Next, Step

LEMMA TypeInvariant == Spec => []TypeInv
BY TypeInvInit, TypeInvNext, PTL DEF Spec

\* Every variable keeps its type, whatever the operations do to each other.
THEOREM TypeCorrect == Spec => []TypeOK
BY TypeInvariant, PTL DEF TypeInv
-----------------------------------------------------------------------------
(* The row lock                                                            *)

\* A transaction that writes its row holds the row's lock, and at most one
\* transaction holds it.
LockInv ==
    /\ \A p \in Procs : InFlight(p) =>
          /\ ops[p].locked => ops[p].pc = "staged"
          /\ ops[p].pc = "staged" /\ ops[p].diff # {} => ops[p].locked
    /\ \A p, q \in Procs :
          /\ InFlight(p) /\ InFlight(q)
          /\ ops[p].locked /\ ops[q].locked
          /\ ops[p].order = ops[q].order
          => p = q

LEMMA LockInvInit == Init => LockInv
BY DEF Init, LockInv, InFlight, Idle

LEMMA LockInvNext ==
    TypeInv /\ TypeInv' /\ LockInv /\ [Next]_vars => LockInv'
<1> SUFFICES ASSUME TypeInv, TypeInv', LockInv, [Next]_vars
             PROVE  LockInv'
    OBVIOUS
<1> USE DEF LockInv, InFlight, Idle, TypeInv, TypeOK
<1>1. ASSUME NEW p \in Procs, NEW o \in Orders, Create(p, o)
      PROVE  LockInv'
    BY <1>1 DEF Create
<1>2. ASSUME NEW p \in Procs, NEW o \in Orders, NEW a \in Assignees,
             Assign(p, o, a)
      PROVE  LockInv'
    BY <1>2 DEF Assign, Loaded
<1>3. ASSUME NEW p \in Procs, NEW o \in Orders, NEW next \in Status,
             UpdateStatus(p, o, next)
      PROVE  LockInv'
    BY <1>3 DEF UpdateStatus, Loaded
<1>4. ASSUME NEW p \in Procs, NEW o \in Orders, NEW t \in Triages,
             ApplyTriage(p, o, t)
      PROVE  LockInv'
    BY <1>4 DEF ApplyTriage, Loaded
<1>5. ASSUME NEW p \in Procs, SaveSelect(p)
      PROVE  LockInv'
  <2>1. ops[p] \in Op
      BY <1>5 DEF SaveSelect
  <2>2. ops'[p].pc = "selected" /\ ops'[p].locked = ops[p].locked
      BY <1>5, <2>1 DEF SaveSelect, Op
  <2> QED
      BY <1>5, <2>1, <2>2 DEF SaveSelect, Op
<1>6. ASSUME NEW p \in Procs, UpdateAndStage(p)
      PROVE  LockInv'
  <2>1. PICK lock \in BOOLEAN :
           /\ ops[p].diff # {} => lock
           /\ lock => LockFree(p)
           /\ AssigneeWhenAssigned(Written(Target(p), ops[p].mem, ops[p].diff))
           /\ ops' = [ops EXCEPT ![p].pc = "staged", ![p].locked = lock,
                                 ![p].id = nextId]
      BY <1>6 DEF UpdateAndStage
  <2>2. /\ ops[p] \in Op
        /\ ops'[p].pc = "staged" /\ ops'[p].locked = lock
        /\ ops'[p].id = nextId /\ ops'[p].order = ops[p].order
        /\ ops'[p].diff = ops[p].diff /\ ops'[p].mem = ops[p].mem
        /\ ops'[p].type = ops[p].type
        /\ \A q \in Procs : q # p => ops'[q] = ops[q]
        /\ rows' = rows /\ outbox' = outbox /\ nextId' = nextId + 1
      BY <1>6, <2>1 DEF UpdateAndStage, Op, TypeInv, TypeOK, Idle
  <2> QED
      BY <1>6, <2>1, <2>2 DEF UpdateAndStage, LockFree
<1>7. ASSUME NEW p \in Procs, CheckViolation(p)
      PROVE  LockInv'
    BY <1>7 DEF CheckViolation
<1>8. ASSUME NEW p \in Procs, Commit(p)
      PROVE  LockInv'
    BY <1>8 DEF Commit
<1>9. ASSUME NEW p \in Procs, Rollback(p)
      PROVE  LockInv'
    BY <1>9 DEF Rollback
<1>10. CASE UNCHANGED vars
    BY <1>10 DEF vars
<1> QED
    BY <1>1, <1>2, <1>3, <1>4, <1>5, <1>6, <1>7, <1>8, <1>9, <1>10
    DEF Next, Step

LEMMA LockInvariant == Spec => []LockInv
BY TypeInvariant, LockInvInit, LockInvNext, PTL DEF Spec

-----------------------------------------------------------------------------
(* The CHECK constraint                                                    *)

\* An UPDATE of no columns leaves the row as it is.
LEMMA WrittenNothing ==
    ASSUME NEW row \in Row \cup {Absent}, NEW mem
    PROVE  Written(row, mem, {}) = row
BY DEF Written, Row, Absent

\* The row satisfies the constraint, and so will it after any pending COMMIT:
\* the constraint was checked under the lock, and nobody writes before the
\* lock is released.
CheckInv ==
    /\ AssignedHasAssignee
    /\ \A p \in Procs : ops[p].pc = "staged" =>
          AssigneeWhenAssigned(Written(Target(p), ops[p].mem, ops[p].diff))

LEMMA CheckInvInit == Init => CheckInv
BY DEF Init, CheckInv, AssignedHasAssignee, Absent, Idle

LEMMA CheckInvNext ==
    TypeInv /\ TypeInv' /\ LockInv /\ CheckInv /\ [Next]_vars => CheckInv'
<1> SUFFICES ASSUME TypeInv, TypeInv', LockInv, CheckInv, [Next]_vars
             PROVE  CheckInv'
    OBVIOUS
<1> USE DEF CheckInv, AssignedHasAssignee, Target, Idle, TypeInv, TypeOK
<1>1. ASSUME NEW p \in Procs, NEW o \in Orders, Create(p, o)
      PROVE  CheckInv'
    BY <1>1 DEF Create, AssigneeWhenAssigned, Written, NewRow, Columns
<1>2. ASSUME NEW p \in Procs, NEW o \in Orders, NEW a \in Assignees,
             Assign(p, o, a)
      PROVE  CheckInv'
    BY <1>2 DEF Assign, Loaded
<1>3. ASSUME NEW p \in Procs, NEW o \in Orders, NEW next \in Status,
             UpdateStatus(p, o, next)
      PROVE  CheckInv'
    BY <1>3 DEF UpdateStatus, Loaded
<1>4. ASSUME NEW p \in Procs, NEW o \in Orders, NEW t \in Triages,
             ApplyTriage(p, o, t)
      PROVE  CheckInv'
    BY <1>4 DEF ApplyTriage, Loaded
<1>5. ASSUME NEW p \in Procs, SaveSelect(p)
      PROVE  CheckInv'
    BY <1>5 DEF SaveSelect, Op
<1>6. ASSUME NEW p \in Procs, UpdateAndStage(p)
      PROVE  CheckInv'
  <2>1. PICK lock \in BOOLEAN :
           /\ ops[p].diff # {} => lock
           /\ lock => LockFree(p)
           /\ AssigneeWhenAssigned(Written(Target(p), ops[p].mem, ops[p].diff))
           /\ ops' = [ops EXCEPT ![p].pc = "staged", ![p].locked = lock,
                                 ![p].id = nextId]
      BY <1>6 DEF UpdateAndStage
  <2>2. /\ ops[p] \in Op
        /\ ops'[p].pc = "staged" /\ ops'[p].locked = lock
        /\ ops'[p].id = nextId /\ ops'[p].order = ops[p].order
        /\ ops'[p].diff = ops[p].diff /\ ops'[p].mem = ops[p].mem
        /\ ops'[p].type = ops[p].type
        /\ \A q \in Procs : q # p => ops'[q] = ops[q]
        /\ rows' = rows /\ outbox' = outbox /\ nextId' = nextId + 1
      BY <1>6, <2>1 DEF UpdateAndStage, Op, TypeInv, TypeOK, Idle
  <2> QED
      BY <2>1, <2>2
<1>7. ASSUME NEW p \in Procs, CheckViolation(p)
      PROVE  CheckInv'
    BY <1>7 DEF CheckViolation
<1>8. ASSUME NEW p \in Procs, Commit(p)
      PROVE  CheckInv'
  <2>1. ops[p] \in Op /\ ops[p].pc = "staged"
      BY <1>8 DEF Commit
  <2>2. rows' = [rows EXCEPT ![ops[p].order] =
                    Written(Target(p), ops[p].mem, ops[p].diff)]
      BY <1>8, <2>1 DEF Commit, Op
  <2>3. AssignedHasAssignee'
      BY <2>1, <2>2 DEF Op, AssigneeWhenAssigned
  <2>4. ASSUME NEW q \in Procs, ops'[q].pc = "staged"
        PROVE  AssigneeWhenAssigned(Written(Target(q), ops[q].mem, ops[q].diff))'
    <3>1. q # p /\ ops'[q] = ops[q] /\ ops[q] \in Op
        BY <1>8, <2>4 DEF Commit
    <3>2. CASE ops[q].order # ops[p].order
      <4>1. rows'[ops[q].order] = rows[ops[q].order]
          BY <2>1, <2>2, <3>1, <3>2 DEF Op
      <4> QED
          BY <2>4, <3>1, <4>1
    <3>3. CASE ops[q].order = ops[p].order /\ ops[q].diff # {}
      <4>1. ops[p].diff = {}
          BY <2>1, <2>4, <3>1, <3>3 DEF LockInv, InFlight
      <4>2. rows' = rows
          <5>1. rows \in [Orders -> Row \cup {Absent}]
              BY DEF TypeInv, TypeOK
          <5>2. ops[p].order \in Orders /\ Target(p) \in Row \cup {Absent}
              BY <2>1, <5>1 DEF Op, Target
          <5>3. Written(Target(p), ops[p].mem, ops[p].diff) = rows[ops[p].order]
              BY <4>1, <5>2, WrittenNothing DEF Target
          <5> QED
              BY <2>2, <5>1, <5>2, <5>3
      <4> QED
          BY <2>4, <3>1, <4>2
    <3>4. CASE ops[q].order = ops[p].order /\ ops[q].diff = {}
      <4>1. rows'[ops[q].order] \in Row \cup {Absent}
          BY <3>1 DEF Op
      <4>2. Written(Target(q), ops[q].mem, ops[q].diff)' = rows'[ops[q].order]
          BY <3>1, <3>4, <4>1, WrittenNothing
      <4> QED
          BY <2>3, <3>1, <4>1, <4>2 DEF AssigneeWhenAssigned, Op
    <3> QED
        BY <3>2, <3>3, <3>4
  <2> QED
      BY <2>3, <2>4
<1>9. ASSUME NEW p \in Procs, Rollback(p)
      PROVE  CheckInv'
    BY <1>9 DEF Rollback
<1>10. CASE UNCHANGED vars
    BY <1>10 DEF vars
<1> QED
    BY <1>1, <1>2, <1>3, <1>4, <1>5, <1>6, <1>7, <1>8, <1>9, <1>10
    DEF Next, Step

LEMMA CheckInvariant == Spec => []CheckInv
BY TypeInvariant, LockInvariant, CheckInvInit, CheckInvNext, PTL DEF Spec

\* No interleaving of saves leaves an order assigned to nobody.
THEOREM AssigneeGuaranteed == Spec => []AssignedHasAssignee
BY CheckInvariant, PTL DEF CheckInv

-----------------------------------------------------------------------------
(* The ids of the outbox                                                   *)

\* Every id used so far is below the sequence, and no two events, committed or
\* about to be, share one.
IdInv ==
    /\ \A e \in outbox : e.id < nextId
    /\ \A e, f \in outbox : e.id = f.id => e = f
    /\ \A p \in Procs : ops[p].pc = "staged" =>
          /\ ops[p].id < nextId
          /\ \A e \in outbox : e.id # ops[p].id
    /\ \A p, q \in Procs :
          ops[p].pc = "staged" /\ ops[q].pc = "staged" /\ ops[p].id = ops[q].id
          => p = q

LEMMA IdInvInit == Init => IdInv
BY DEF Init, IdInv, Idle

LEMMA IdInvNext ==
    TypeInv /\ TypeInv' /\ IdInv /\ [Next]_vars => IdInv'
<1> SUFFICES ASSUME TypeInv, TypeInv', IdInv, [Next]_vars
             PROVE  IdInv'
    OBVIOUS
<1> USE DEF IdInv, Idle, TypeInv, TypeOK, Event
<1>1. ASSUME NEW p \in Procs, NEW o \in Orders, Create(p, o)
      PROVE  IdInv'
    BY <1>1 DEF Create, Op
<1>2. ASSUME NEW p \in Procs, NEW o \in Orders, NEW a \in Assignees,
             Assign(p, o, a)
      PROVE  IdInv'
    BY <1>2 DEF Assign, Loaded
<1>3. ASSUME NEW p \in Procs, NEW o \in Orders, NEW next \in Status,
             UpdateStatus(p, o, next)
      PROVE  IdInv'
    BY <1>3 DEF UpdateStatus, Loaded
<1>4. ASSUME NEW p \in Procs, NEW o \in Orders, NEW t \in Triages,
             ApplyTriage(p, o, t)
      PROVE  IdInv'
    BY <1>4 DEF ApplyTriage, Loaded
<1>5. ASSUME NEW p \in Procs, SaveSelect(p)
      PROVE  IdInv'
    BY <1>5 DEF SaveSelect, Op
<1>6. ASSUME NEW p \in Procs, UpdateAndStage(p)
      PROVE  IdInv'
  <2>1. PICK lock \in BOOLEAN :
           /\ lock => LockFree(p)
           /\ ops' = [ops EXCEPT ![p].pc = "staged", ![p].locked = lock,
                                 ![p].id = nextId]
      BY <1>6 DEF UpdateAndStage
  <2>2. /\ ops[p] \in Op
        /\ ops'[p].pc = "staged" /\ ops'[p].locked = lock
        /\ ops'[p].id = nextId /\ ops'[p].order = ops[p].order
        /\ ops'[p].type = ops[p].type
        /\ \A q \in Procs : q # p => ops'[q] = ops[q]
        /\ rows' = rows /\ outbox' = outbox /\ nextId' = nextId + 1
      BY <1>6, <2>1 DEF UpdateAndStage, Op, TypeInv, TypeOK, Idle
  <2> QED
      BY <2>1, <2>2 DEF Op
<1>7. ASSUME NEW p \in Procs, CheckViolation(p)
      PROVE  IdInv'
    BY <1>7 DEF CheckViolation
<1>8. ASSUME NEW p \in Procs, Commit(p)
      PROVE  IdInv'
  <2>1. /\ ops[p] \in Op /\ ops[p].pc = "staged"
        /\ ops'[p] = Idle /\ nextId' = nextId
        /\ \A q \in Procs : q # p => ops'[q] = ops[q]
        /\ outbox' = outbox \cup {EventOf(ops[p])}
      BY <1>8 DEF Commit
  <2> QED
      BY <2>1 DEF EventOf, Op
<1>9. ASSUME NEW p \in Procs, Rollback(p)
      PROVE  IdInv'
    BY <1>9 DEF Rollback
<1>10. CASE UNCHANGED vars
    BY <1>10 DEF vars
<1> QED
    BY <1>1, <1>2, <1>3, <1>4, <1>5, <1>6, <1>7, <1>8, <1>9, <1>10
    DEF Next, Step

LEMMA IdInvariant == Spec => []IdInv
BY TypeInvariant, IdInvInit, IdInvNext, PTL DEF Spec

-----------------------------------------------------------------------------
(* `created` comes first                                                   *)

\* c is the `created` event of order o, and the first of its events.
FirstOf(o, c) ==
    /\ c.order = o
    /\ c.type = "created"
    /\ \A f \in outbox : f.order = o /\ f # c => c.id < f.id /\ f.type # "created"

\* Exactly the orders that exist have events, one of them `created`, whose id
\* is below those of the order's other events, committed or about to be.
CreatedInv ==
    /\ \A e \in outbox : rows[e.order] # Absent
    /\ \A o \in Orders : rows[o] # Absent => \E c \in outbox : FirstOf(o, c)
    /\ \A p \in Procs : ops[p].pc = "staged" /\ ops[p].type # "created" =>
          \A c \in outbox :
              c.order = ops[p].order /\ c.type = "created" => c.id < ops[p].id

LEMMA CreatedInvInit == Init => CreatedInv
BY DEF Init, CreatedInv, Idle

LEMMA CreatedInvNext ==
    TypeInv /\ TypeInv' /\ IdInv /\ CreatedInv /\ [Next]_vars => CreatedInv'
<1> SUFFICES ASSUME TypeInv, TypeInv', IdInv, CreatedInv, [Next]_vars
             PROVE  CreatedInv'
    OBVIOUS
<1> USE DEF CreatedInv, FirstOf, Idle, TypeInv, TypeOK
<1>1. ASSUME NEW p \in Procs, NEW o \in Orders, Create(p, o)
      PROVE  CreatedInv'
    BY <1>1 DEF Create, Op
<1>2. ASSUME NEW p \in Procs, NEW o \in Orders, NEW a \in Assignees,
             Assign(p, o, a)
      PROVE  CreatedInv'
    BY <1>2 DEF Assign, Loaded
<1>3. ASSUME NEW p \in Procs, NEW o \in Orders, NEW next \in Status,
             UpdateStatus(p, o, next)
      PROVE  CreatedInv'
    BY <1>3 DEF UpdateStatus, Loaded
<1>4. ASSUME NEW p \in Procs, NEW o \in Orders, NEW t \in Triages,
             ApplyTriage(p, o, t)
      PROVE  CreatedInv'
    BY <1>4 DEF ApplyTriage, Loaded
<1>5. ASSUME NEW p \in Procs, SaveSelect(p)
      PROVE  CreatedInv'
    BY <1>5 DEF SaveSelect, Op
<1>6. ASSUME NEW p \in Procs, UpdateAndStage(p)
      PROVE  CreatedInv'
  <2>1. PICK lock \in BOOLEAN :
           /\ lock => LockFree(p)
           /\ ops' = [ops EXCEPT ![p].pc = "staged", ![p].locked = lock,
                                 ![p].id = nextId]
      BY <1>6 DEF UpdateAndStage
  <2>2. /\ ops[p] \in Op
        /\ ops'[p].pc = "staged" /\ ops'[p].locked = lock
        /\ ops'[p].id = nextId /\ ops'[p].order = ops[p].order
        /\ ops'[p].type = ops[p].type
        /\ \A q \in Procs : q # p => ops'[q] = ops[q]
        /\ rows' = rows /\ outbox' = outbox /\ nextId' = nextId + 1
      BY <1>6, <2>1 DEF UpdateAndStage, Op, TypeInv, TypeOK, Idle
  <2> QED
      BY <2>2 DEF Op, IdInv
<1>7. ASSUME NEW p \in Procs, CheckViolation(p)
      PROVE  CreatedInv'
    BY <1>7 DEF CheckViolation
<1>8. ASSUME NEW p \in Procs, Commit(p)
      PROVE  CreatedInv'
  <2>1. /\ ops[p] \in Op /\ ops[p].pc = "staged"
        /\ ops'[p] = Idle /\ nextId' = nextId
        /\ \A q \in Procs : q # p => ops'[q] = ops[q]
        /\ outbox' = outbox \cup {EventOf(ops[p])}
      BY <1>8 DEF Commit
  <2>2. /\ rows' = [rows EXCEPT ![ops[p].order] = rows'[ops[p].order]]
        /\ rows'[ops[p].order] # Absent
    <3>1. Written(Target(p), ops[p].mem, ops[p].diff) \in Row
        BY <2>1, WrittenType DEF TargetsExist, InFlight, Op, Target
    <3> QED
        BY <1>8, <2>1, <3>1, RowTypes DEF Commit, Op, Target
  <2>3. PICK e \in outbox' :
           /\ e.id = ops[p].id /\ e.order = ops[p].order
           /\ e.type = ops[p].type
           /\ outbox' = outbox \cup {e}
      BY <2>1 DEF EventOf
  <2>4. \A f \in outbox' : f \in outbox \/ f = e
      BY <2>3
  <2>5. \A f \in outbox' : rows'[f.order] # Absent
      BY <2>1, <2>2, <2>3, <2>4 DEF Op, Event
  <2>6. ASSUME NEW o \in Orders, rows'[o] # Absent
        PROVE  \E c \in outbox' : FirstOf(o, c)'
    <3>1. CASE o = ops[p].order /\ ops[p].type = "created"
      <4>1. \A f \in outbox : f.order # o
          BY <2>1, <3>1 DEF TargetsExist, InFlight, Target
      <4>2. FirstOf(o, e)'
          BY <2>3, <2>4, <3>1, <4>1
      <4> QED
          BY <2>3, <4>2
    <3>2. CASE ~(o = ops[p].order /\ ops[p].type = "created")
      <4>1. rows[o] # Absent
          BY <2>1, <2>2, <2>6, <3>2 DEF TargetsExist, InFlight, Target
      <4>2. PICK c \in outbox : FirstOf(o, c)
          BY <4>1
      <4>3. e.order = o => c.id < e.id /\ e.type # "created"
          BY <2>1, <2>3, <3>2, <4>2
      <4>4. FirstOf(o, c)'
          BY <2>4, <4>2, <4>3
      <4> QED
          BY <2>1, <4>2, <4>4
    <3> QED
        BY <3>1, <3>2
  <2>7. ASSUME NEW q \in Procs, ops'[q].pc = "staged", ops'[q].type # "created",
               NEW c \in outbox', c.order = ops'[q].order, c.type = "created"
        PROVE  c.id < ops'[q].id
    <3>1. q # p /\ ops'[q] = ops[q] /\ ops[q].pc = "staged"
        BY <2>1, <2>7
    <3>2. c # e
        BY <2>1, <2>3, <2>7, <3>1 DEF TargetsExist, InFlight
    <3> QED
        BY <2>4, <2>7, <3>1, <3>2
  <2> QED
      BY <2>5, <2>6, <2>7
<1>9. ASSUME NEW p \in Procs, Rollback(p)
      PROVE  CreatedInv'
    BY <1>9 DEF Rollback
<1>10. CASE UNCHANGED vars
    BY <1>10 DEF vars
<1> QED
    BY <1>1, <1>2, <1>3, <1>4, <1>5, <1>6, <1>7, <1>8, <1>9, <1>10
    DEF Next, Step

LEMMA CreatedInvariant == Spec => []CreatedInv
BY TypeInvariant, IdInvariant, CreatedInvInit, CreatedInvNext, PTL DEF Spec

\* Whoever sorts the events of an order by id meets one `created`, first.
THEOREM CreatedFirst == Spec => []CreatedComesFirst
<1>1. TypeInv /\ CreatedInv => CreatedComesFirst
    BY DEF TypeInv, TypeOK, Event, CreatedInv, FirstOf, CreatedComesFirst
<1> QED
    BY <1>1, TypeInvariant, CreatedInvariant, PTL

-----------------------------------------------------------------------------
(* What a commit does                                                      *)

\* Only a commit changes rows or events.
LEMMA OnlyCommitPublishes ==
    ASSUME [Next]_vars
    PROVE  \/ UNCHANGED <<rows, outbox>>
           \/ \E p \in Procs : Commit(p)
BY DEF Next, Step, vars, Create, Assign, UpdateStatus, ApplyTriage, SaveSelect,
       UpdateAndStage, CheckViolation, Rollback

\* State and event change together, and the event tells all that changed.
THEOREM DualWriteClosed == Spec => AtomicChangeAndEvent
<1> DEFINE A ==
      /\ outbox \subseteq outbox'
      /\ \A o \in Orders : rows'[o] # rows[o] =>
            \E e \in outbox' \ outbox :
                /\ e.order = o
                /\ \A c \in Columns :
                      rows'[o][c] # rows[o][c] => e.data[c] = rows'[o][c]
<1>1. TypeInv /\ IdInv /\ [Next]_vars => A
  <2> SUFFICES ASSUME TypeInv, IdInv, [Next]_vars
               PROVE  A
      OBVIOUS
  <2>1. CASE UNCHANGED <<rows, outbox>>
      BY <2>1
  <2>2. ASSUME NEW p \in Procs, Commit(p)
        PROVE  A
    <3> DEFINE e == EventOf(ops[p])
    <3>1. /\ ops[p] \in Op /\ ops[p].pc = "staged"
          /\ outbox' = outbox \cup {e}
          /\ rows' = [rows EXCEPT ![ops[p].order] =
                         Written(Target(p), ops[p].mem, ops[p].diff)]
        BY <2>2 DEF Commit, TypeInv, TypeOK, Idle, Target, Op
    <3>2. e \in outbox' \ outbox
        BY <3>1 DEF EventOf, IdInv
    <3>3. e.order = ops[p].order /\ e.data = ops[p].mem
        BY DEF EventOf
    <3>4. ASSUME NEW o \in Orders, rows'[o] # rows[o]
          PROVE  /\ o = ops[p].order
                 /\ rows'[o] = Written(rows[o], ops[p].mem, ops[p].diff)
        BY <3>1, <3>4 DEF TypeInv, TypeOK, Target, Op
    <3>5. ASSUME NEW row, NEW mem, NEW diff, NEW c \in Columns,
                 Written(row, mem, diff)[c] # row[c]
          PROVE  Written(row, mem, diff)[c] = mem[c]
        BY <3>5 DEF Written, Columns
    <3> HIDE DEF e
    <3> QED
        BY <3>1, <3>2, <3>3, <3>4, <3>5
  <2> QED
      BY <2>1, <2>2, OnlyCommitPublishes
<1> QED
    BY <1>1, TypeInvariant, IdInvariant, PTL DEF Spec, AtomicChangeAndEvent

\* While a transaction holds a row's lock, every event of that order whose save
\* also held it has a smaller id.
OrderInv ==
    \A p \in Procs : ops[p].pc = "staged" /\ ops[p].locked =>
        \A f \in outbox :
            f.order = ops[p].order /\ f.locked => f.id < ops[p].id

LEMMA OrderInvInit == Init => OrderInv
BY DEF Init, OrderInv

LEMMA OrderInvNext ==
    TypeInv /\ TypeInv' /\ IdInv /\ LockInv /\ OrderInv /\ [Next]_vars => OrderInv'
<1> SUFFICES ASSUME TypeInv, TypeInv', IdInv, LockInv, OrderInv, [Next]_vars
             PROVE  OrderInv'
    OBVIOUS
<1> USE DEF OrderInv, Idle, TypeInv, TypeOK, Event
<1>1. ASSUME NEW p \in Procs, NEW o \in Orders, Create(p, o)
      PROVE  OrderInv'
    BY <1>1 DEF Create, Op, IdInv
<1>2. ASSUME NEW p \in Procs, NEW o \in Orders, NEW a \in Assignees,
             Assign(p, o, a)
      PROVE  OrderInv'
    BY <1>2 DEF Assign, Loaded
<1>3. ASSUME NEW p \in Procs, NEW o \in Orders, NEW next \in Status,
             UpdateStatus(p, o, next)
      PROVE  OrderInv'
    BY <1>3 DEF UpdateStatus, Loaded
<1>4. ASSUME NEW p \in Procs, NEW o \in Orders, NEW t \in Triages,
             ApplyTriage(p, o, t)
      PROVE  OrderInv'
    BY <1>4 DEF ApplyTriage, Loaded
<1>5. ASSUME NEW p \in Procs, SaveSelect(p)
      PROVE  OrderInv'
    BY <1>5 DEF SaveSelect, Op
<1>6. ASSUME NEW p \in Procs, UpdateAndStage(p)
      PROVE  OrderInv'
  <2>1. PICK lock \in BOOLEAN :
           /\ lock => LockFree(p)
           /\ ops' = [ops EXCEPT ![p].pc = "staged", ![p].locked = lock,
                                 ![p].id = nextId]
      BY <1>6 DEF UpdateAndStage
  <2>2. /\ ops[p] \in Op
        /\ ops'[p].pc = "staged" /\ ops'[p].locked = lock
        /\ ops'[p].id = nextId /\ ops'[p].order = ops[p].order
        /\ ops'[p].type = ops[p].type
        /\ \A q \in Procs : q # p => ops'[q] = ops[q]
        /\ rows' = rows /\ outbox' = outbox /\ nextId' = nextId + 1
      BY <1>6, <2>1 DEF UpdateAndStage, Op, TypeInv, TypeOK, Idle
  <2> QED
      BY <2>2 DEF Op, IdInv
<1>7. ASSUME NEW p \in Procs, CheckViolation(p)
      PROVE  OrderInv'
    BY <1>7 DEF CheckViolation
<1>8. ASSUME NEW p \in Procs, Commit(p)
      PROVE  OrderInv'
  <2>1. /\ ops[p] \in Op /\ ops[p].pc = "staged"
        /\ ops'[p] = Idle /\ nextId' = nextId
        /\ \A q \in Procs : q # p => ops'[q] = ops[q]
        /\ outbox' = outbox \cup {EventOf(ops[p])}
      BY <1>8 DEF Commit
  <2>2. \A q \in Procs :
           q # p /\ ops[q].pc = "staged" /\ ops[q].locked /\ ops[p].locked
           => ops[q].order # ops[p].order
      BY <2>1 DEF LockInv, InFlight
  <2> QED
      BY <2>1, <2>2 DEF EventOf
<1>9. ASSUME NEW p \in Procs, Rollback(p)
      PROVE  OrderInv'
    BY <1>9 DEF Rollback
<1>10. CASE UNCHANGED vars
    BY <1>10 DEF vars
<1> QED
    BY <1>1, <1>2, <1>3, <1>4, <1>5, <1>6, <1>7, <1>8, <1>9, <1>10
    DEF Next, Step

LEMMA OrderInvariant == Spec => []OrderInv
BY TypeInvariant, IdInvariant, LockInvariant, OrderInvInit, OrderInvNext, PTL
   DEF Spec

\* The order of the ids is the order of the commits, order by order.
THEOREM CommitOrder == Spec => SavesCommitInIdOrder
<1>1. /\ TypeInv /\ OrderInv /\ [Next]_vars
      => \A e \in outbox' \ outbox, f \in outbox :
            e.order = f.order /\ e.locked /\ f.locked => f.id < e.id
  <2> SUFFICES ASSUME TypeInv, OrderInv, [Next]_vars,
                      NEW e \in outbox' \ outbox, NEW f \in outbox,
                      e.order = f.order, e.locked, f.locked
               PROVE  f.id < e.id
      OBVIOUS
  <2>1. PICK p \in Procs : Commit(p)
      BY OnlyCommitPublishes
  <2>2. e = EventOf(ops[p]) /\ ops[p].pc = "staged"
      BY <2>1 DEF Commit
  <2> QED
      BY <2>2 DEF OrderInv, EventOf
<1> QED
    BY <1>1, TypeInvariant, OrderInvariant, PTL DEF Spec, SavesCommitInIdOrder

=============================================================================
