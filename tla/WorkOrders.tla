----------------------------- MODULE WorkOrders -----------------------------
(***************************************************************************)
(* The write side of the work-orders service: POST /work-orders, the       *)
(* assign and status endpoints and the triage consumer, each a             *)
(* read-modify-write of one row of work_orders that stages one row of      *)
(* outbox_events in the same Postgres transaction (READ COMMITTED).        *)
(*                                                                         *)
(* An operation loads the order outside the transaction, decides on the    *)
(* loaded copy, and then saves it.  manager.save() is itself three steps:  *)
(* SELECT the row, compare every column of the copy in memory with it, and *)
(* UPDATE the columns that differ -- so a save writes back, besides what   *)
(* the operation changed, every column another commit changed since the    *)
(* load.  The UPDATE waits for the row lock and is invisible until COMMIT; *)
(* the outbox id is a bigserial, taken before COMMIT and never given back. *)
(***************************************************************************)
EXTENDS WorkOrderTransitions, Naturals

CONSTANTS
    Orders,      \* ids of the work orders that may be created
    Assignees,   \* users an order can be assigned to
    Triages,     \* classifications the model can return
    Procs,       \* operations that can be in flight at a time
    None,        \* SQL NULL
    MaxEvents    \* bound: outbox ids handed out in a behaviour

ASSUME NullAssumption == None \notin Assignees \cup Triages
ASSUME BoundAssumption == MaxEvents \in Nat

VARIABLES
    rows,     \* work_orders, as committed: [Orders -> Row or Absent]
    outbox,   \* outbox_events, as committed
    nextId,   \* next value of outbox_events_id_seq
    ops       \* the operation each process is executing

vars == <<rows, outbox, nextId, ops>>

-----------------------------------------------------------------------------
(* The row.  The triage_* columns are only ever written together and count *)
(* as one column; title, description, priority and property_id never       *)
(* change.                                                                 *)

Columns == {"status", "assignee", "triage"}

Row == [ status   : Status,
         assignee : Assignees \cup {None},
         triage   : Triages \cup {None} ]

\* No row with this id: findOneBy() resolves to null.
Absent == [status |-> "absent", assignee |-> None, triage |-> None]

\* The defaults of the table: what INSERT makes of a new order.
NewRow == [status |-> "open", assignee |-> None, triage |-> None]

\* Seeded fault: the table without its CHECK constraint.
NoConstraint(row) == TRUE

\* chk_work_orders_assignee_when_assigned
AssigneeWhenAssigned(row) == row.status = "assigned" => row.assignee # None

\* The columns save() finds changed between the copy and the selected row.
Diff(mem, row) == {c \in Columns : mem[c] # row[c]}

\* UPDATE of the columns in diff, on whatever the row has become.
Written(row, mem, diff) ==
    [ status   |-> IF "status"   \in diff THEN mem.status   ELSE row.status,
      assignee |-> IF "assignee" \in diff THEN mem.assignee ELSE row.assignee,
      triage   |-> IF "triage"   \in diff THEN mem.triage   ELSE row.triage ]

-----------------------------------------------------------------------------
(* Operations in flight.  pc: "loaded" the copy is changed in memory,      *)
(* "selected" inside the transaction after save()'s SELECT, "staged" after *)
(* the UPDATE and the outbox INSERT, before COMMIT.  locked: the UPDATE    *)
(* was issued, so the transaction holds the row lock.                      *)

Idle == [pc |-> "idle"]

Op == [ pc     : {"loaded", "selected", "staged"},
        order  : Orders,
        type   : EventType,
        mem    : Row,
        diff   : SUBSET Columns,
        locked : BOOLEAN,
        id     : Nat ]

\* A committed outbox row: the event's type and the snapshot of the copy in
\* memory.  locked is history: whether the save held the row lock.
Event == [id : Nat, order : Orders, type : EventType, data : Row,
          locked : BOOLEAN]

Loaded(o, type, mem) ==
    [pc |-> "loaded", order |-> o, type |-> type, mem |-> mem,
     diff |-> {}, locked |-> FALSE, id |-> 0]

InFlight(p) == ops[p].pc # "idle"

Target(p) == rows[ops[p].order]

\* Seeded faults: the event carries only the columns that were written, or the
\* row as it was before the change.
PartialEvent(op) ==
    [id |-> op.id, order |-> op.order, type |-> op.type,
     data |-> [c \in op.diff |-> op.mem[c]], locked |-> op.locked]

StaleEvent(op) ==
    [id |-> op.id, order |-> op.order, type |-> op.type,
     data |-> rows[op.order], locked |-> op.locked]

\* The event that outbox.stage() builds from the saved entity.
EventOf(op) ==
    [id |-> op.id, order |-> op.order, type |-> op.type, data |-> op.mem,
     locked |-> op.locked]

LockFree(p) ==
    \A q \in Procs \ {p} :
        ~(InFlight(q) /\ ops[q].order = ops[p].order /\ ops[q].locked)

-----------------------------------------------------------------------------
Init ==
    /\ rows = [o \in Orders |-> Absent]
    /\ outbox = {}
    /\ nextId = 1
    /\ ops = [p \in Procs |-> Idle]

\* Seeded fault: create() inserts the order before the transaction that stages
\* its event.
CreateRowFirst(p, o) ==
    /\ ops[p] = Idle
    /\ rows[o] = Absent
    /\ nextId <= MaxEvents
    /\ rows' = [rows EXCEPT ![o] = NewRow]
    /\ ops' = [ops EXCEPT ![p] =
                  [pc |-> "staged", order |-> o, type |-> "created",
                   mem |-> NewRow, diff |-> {}, locked |-> FALSE,
                   id |-> nextId]]
    /\ nextId' = nextId + 1
    /\ UNCHANGED outbox

\* create(): INSERT INTO work_orders and INSERT INTO outbox_events, up to
\* COMMIT.  The id is generated, so nobody else can be working on the order.
Create(p, o) ==
    /\ ops[p] = Idle
    /\ rows[o] = Absent
    /\ \A q \in Procs : InFlight(q) => ops[q].order # o
    /\ nextId <= MaxEvents
    /\ ops' = [ops EXCEPT ![p] =
                  [pc |-> "staged", order |-> o, type |-> "created",
                   mem |-> NewRow, diff |-> Columns, locked |-> TRUE,
                   id |-> nextId]]
    /\ nextId' = nextId + 1
    /\ UNCHANGED <<rows, outbox>>

\* assign(): 404 and 409 leave nothing behind; otherwise the copy is changed.
Assign(p, o, a) ==
    /\ ops[p] = Idle
    /\ rows[o] # Absent
    /\ CanAssign(rows[o].status)
    /\ ops' = [ops EXCEPT ![p] =
                  Loaded(o, "assigned",
                         [rows[o] EXCEPT !.assignee = a, !.status = "assigned"])]
    /\ UNCHANGED <<rows, outbox, nextId>>

\* updateStatus(): `assigned` is refused before the table is consulted.
UpdateStatus(p, o, next) ==
    /\ ops[p] = Idle
    /\ rows[o] # Absent
    /\ next # "assigned"
    /\ CanTransition(rows[o].status, next)
    /\ ops' = [ops EXCEPT ![p] =
                  Loaded(o, StatusEvents[next], [rows[o] EXCEPT !.status = next])]
    /\ UNCHANGED <<rows, outbox, nextId>>

\* TriageService.apply(): skipped when triaged_at is already set on the copy.
ApplyTriage(p, o, t) ==
    /\ ops[p] = Idle
    /\ rows[o] # Absent
    /\ rows[o].triage = None
    /\ ops' = [ops EXCEPT ![p] =
                  Loaded(o, "triaged", [rows[o] EXCEPT !.triage = t])]
    /\ UNCHANGED <<rows, outbox, nextId>>

\* BEGIN and the SELECT of manager.save(): the columns to write are fixed.
SaveSelect(p) ==
    /\ ops[p].pc = "loaded"
    /\ ops' = [ops EXCEPT ![p].pc = "selected",
                          ![p].diff = Diff(ops[p].mem, Target(p))]
    /\ UNCHANGED <<rows, outbox, nextId>>

\* Seeded fault: saveAndStage() inserts the event before it saves the order, so
\* the id is taken ahead of the row lock.
StageBeforeSave(p) ==
    /\ ops[p].pc = "selected"
    /\ \/ /\ ops[p].id = 0
          /\ nextId <= MaxEvents
          /\ ops' = [ops EXCEPT ![p].id = nextId]
          /\ nextId' = nextId + 1
       \/ /\ ops[p].id # 0
          /\ LockFree(p)
          /\ AssigneeWhenAssigned(Written(Target(p), ops[p].mem, ops[p].diff))
          /\ ops' = [ops EXCEPT ![p].pc = "staged", ![p].locked = TRUE]
          /\ UNCHANGED nextId
    /\ UNCHANGED <<rows, outbox>>

\* UPDATE, which waits for the row lock, then outbox.stage()'s INSERT, which
\* takes an id.  Nothing to write means no UPDATE and no lock -- unless
\* updated_at, which the model leaves out, is all that differs.
UpdateAndStage(p) ==
    /\ ops[p].pc = "selected"
    /\ nextId <= MaxEvents
    /\ \E lock \in BOOLEAN :
          /\ ops[p].diff # {} => lock
          /\ lock => LockFree(p)
          /\ AssigneeWhenAssigned(Written(Target(p), ops[p].mem, ops[p].diff))
          /\ ops' = [ops EXCEPT ![p].pc = "staged",
                                ![p].locked = lock,
                                ![p].id = nextId]
    /\ nextId' = nextId + 1
    /\ UNCHANGED <<rows, outbox>>

\* The UPDATE runs into the CHECK constraint: the transaction aborts, 500.
CheckViolation(p) ==
    /\ ops[p].pc = "selected"
    /\ LockFree(p)
    /\ ~AssigneeWhenAssigned(Written(Target(p), ops[p].mem, ops[p].diff))
    /\ ops' = [ops EXCEPT ![p] = Idle]
    /\ UNCHANGED <<rows, outbox, nextId>>

\* Seeded fault: the triage is saved without an event of its own.
TriageSavesSilently(p) ==
    /\ ops[p].pc = "staged"
    /\ rows' = [rows EXCEPT ![ops[p].order] =
                   Written(@, ops[p].mem, ops[p].diff)]
    /\ outbox' = IF ops[p].type = "triaged" THEN outbox
                 ELSE outbox \cup {EventOf(ops[p])}
    /\ ops' = [ops EXCEPT ![p] = Idle]
    /\ UNCHANGED nextId

\* COMMIT: the row and its event become visible together.
Commit(p) ==
    /\ ops[p].pc = "staged"
    /\ rows' = [rows EXCEPT ![ops[p].order] =
                   Written(@, ops[p].mem, ops[p].diff)]
    /\ outbox' = outbox \cup {EventOf(ops[p])}
    /\ ops' = [ops EXCEPT ![p] = Idle]
    /\ UNCHANGED nextId

\* The process dies or the connection breaks before COMMIT: Postgres rolls
\* back, the id stays used.
Rollback(p) ==
    /\ InFlight(p)
    /\ ops' = [ops EXCEPT ![p] = Idle]
    /\ UNCHANGED <<rows, outbox, nextId>>

Step(p) ==
    \/ \E o \in Orders : Create(p, o)
    \/ \E o \in Orders, a \in Assignees : Assign(p, o, a)
    \/ \E o \in Orders, next \in Status : UpdateStatus(p, o, next)
    \/ \E o \in Orders, t \in Triages : ApplyTriage(p, o, t)
    \/ SaveSelect(p)
    \/ UpdateAndStage(p)
    \/ CheckViolation(p)
    \/ Commit(p)
    \/ Rollback(p)

Next == \E p \in Procs : Step(p)

Spec == Init /\ [][Next]_vars

-----------------------------------------------------------------------------
(* Safety under any interleaving of the operations.                        *)

TypeOK ==
    /\ rows \in [Orders -> Row \cup {Absent}]
    /\ outbox \subseteq Event
    /\ nextId \in Nat
    /\ ops \in [Procs -> Op \cup {Idle}]

\* An assigned order has an assignee, although a stale save can put any mix of
\* old and new columns together: only the CHECK constraint of the table stands
\* between such a mix and a row "assigned" to nobody.
AssignedHasAssignee ==
    \A o \in Orders : rows[o].status = "assigned" => rows[o].assignee # None

\* A consumer that orders the events of a work order by outbox id finds exactly
\* one `created` and finds it first: no operation gets hold of an order, and
\* no id, before the insert is committed.
CreatedComesFirst ==
    \A e \in outbox :
        \E c \in outbox :
            /\ c.order = e.order
            /\ c.type = "created"
            /\ \A f \in outbox : f.order = e.order /\ f # c =>
                   c.id < f.id /\ f.type # "created"

\* The dual write is closed: whenever committed columns of an order change, an
\* event of that order becomes visible in the same instant whose snapshot
\* carries the new value of each of them, and no recorded event is ever lost
\* or altered.
AtomicChangeAndEvent ==
    [][ /\ outbox \subseteq outbox'
        /\ \A o \in Orders : rows'[o] # rows[o] =>
               \E e \in outbox' \ outbox :
                   /\ e.order = o
                   /\ \A c \in Columns :
                          rows'[o][c] # rows[o][c] => e.data[c] = rows'[o][c]
      ]_vars

\* The events of one order commit in the order of their ids, which is what lets
\* the relay's ORDER BY id stand for the order of the changes: a save that
\* writes the row holds its lock before it takes an id and until it commits.
\* (A save that finds nothing to write is exempt, and does overtake.)
SavesCommitInIdOrder ==
    [][ \A e \in outbox' \ outbox, f \in outbox :
           e.order = f.order /\ e.locked /\ f.locked => f.id < e.id ]_vars

-----------------------------------------------------------------------------
(* What holds as long as no two operations on one order overlap.           *)

OneAtATime ==
    \A p, q \in Procs :
        p # q /\ InFlight(p) /\ InFlight(q) => ops[p].order # ops[q].order

SerialSpec == Init /\ [][Next /\ OneAtATime']_vars

\* Each order then follows the state chart, one event per change.
Lifecycle == INSTANCE WorkOrderLifecycle WITH
    Ids    <- 1 .. MaxEvents,
    state  <- rows,
    events <- {[id |-> e.id, order |-> e.order, type |-> e.type,
                data |-> e.data] : e \in outbox}

ImplementsLifecycle == Lifecycle!Spec

\* The last event of an order is its state: a projection that keeps the
\* snapshot with the highest id (the activity feed, the notifications) shows
\* what the table holds.
LastEventIsTheRow ==
    \A e \in outbox :
        (\A f \in outbox : f.order = e.order => f.id <= e.id)
            => e.data = rows[e.order]

\* Nobody works on, or has completed, an order without an assignee, although
\* the CHECK constraint only speaks of `assigned`.
WorkHasAssignee ==
    \A o \in Orders :
        rows[o].status \in {"in_progress", "completed"}
            => rows[o].assignee # None

-----------------------------------------------------------------------------
(* What the documents say, and overlapping operations break.               *)

\* completed and cancelled are terminal (docs/notes/phase-1-work-orders.md).
TerminalIsFinal ==
    [][ \A o \in Orders :
           rows[o].status \in {"completed", "cancelled"} =>
               rows'[o].status = rows[o].status ]_vars

\* A duplicate `created` cannot triage an order twice, thanks to the guard by
\* triaged_at (docs/adr/0006-llm-triage.md).  The guard is read before the
\* transaction, and the queue sets no prefetch: two deliveries both pass it.
TriagedOnce ==
    \A e, f \in outbox :
        e.order = f.order /\ e.type = "triaged" /\ f.type = "triaged" => e = f

=============================================================================
