----------------------------- MODULE TriageProofs -----------------------------
(***************************************************************************)
(* Proofs about Triage: no triage is lost, whatever overlaps, is delivered *)
(* twice, crashes or fails; and without overlaps the write side keeps its  *)
(* promises with the triage at work beside the endpoints.                  *)
(***************************************************************************)
EXTENDS Triage, LifecycleProofs, FiniteSetTheorems

-----------------------------------------------------------------------------
(* The write side goes on as it would without the queue                     *)

LEMMA TriageStepIsStep ==
    ASSUME [TriageNext]_triageVars
    PROVE  [Next]_vars
BY DEF TriageNext, triageVars, Next, PublishCreated, Deliver, Classify, SkipTriage,
       Ack, LoseDelivery, Operate

LEMMA TriageImpliesSpec == TriageSpec => Spec
<1>1. TriageInit => Init
    BY DEF TriageInit
<1>2. [TriageNext]_triageVars => [Next]_vars
    BY TriageStepIsStep
<1> QED
    BY <1>1, <1>2, PTL DEF TriageSpec, Spec

LEMMA SerialTriageImplies == SerialTriageSpec => TriageSpec /\ SerialSpec
<1>1. TriageInit => Init
    BY DEF TriageInit
<1>2. [SerialNext]_triageVars => [TriageNext]_triageVars
    BY DEF SerialNext
<1>3. [SerialNext]_triageVars => [Next /\ OneAtATime']_vars
    <2>1. CASE UNCHANGED triageVars
        BY <2>1 DEF triageVars
    <2>2. CASE TriageNext /\ OneAtATime'
        BY <2>2, TriageStepIsStep
    <2> QED
        BY <2>1, <2>2 DEF SerialNext
<1> QED
    BY <1>1, <1>2, <1>3, PTL DEF SerialTriageSpec, TriageSpec, SerialSpec

\* The triage keeps to the state chart, and the events mirror the table.
THEOREM TriageKeepsTheChart ==
    SerialTriageSpec =>
        /\ ImplementsLifecycle
        /\ []LastEventIsTheRow
        /\ []WorkHasAssignee
BY SerialTriageImplies, Refinement, EventsMirrorTheTable, WorkIsAssigned, PTL

-----------------------------------------------------------------------------
(* A row that shows a triage has an event of it                             *)

\* Also a copy that saw one, and may write it back.
TriageSeen ==
    /\ \A o \in Orders : rows[o].triage # None => Recorded(o, "triaged")
    /\ \A p \in Procs :
          InFlight(p) /\ ops[p].type # "triaged" /\ ops[p].mem.triage # None =>
              Recorded(ops[p].order, "triaged")

LEMMA TriageSeenInit == Init => TriageSeen
BY DEF Init, TriageSeen, Absent, InFlight, Idle

LEMMA TriageSeenNext == TypeInv /\ TriageSeen /\ [Next]_vars => TriageSeen'
<1> SUFFICES ASSUME TypeInv, TriageSeen, [Next]_vars
             PROVE  TriageSeen'
    OBVIOUS
<1> USE DEF Idle
<1>0. /\ rows \in [Orders -> Row \cup {Absent}]
      /\ ops \in [Procs -> Op \cup {Idle}]
    BY DEF TypeInv, TypeOK
\* A step of p that changes nothing but its own operation.
<1>1. ASSUME NEW p \in Procs, UNCHANGED <<rows, outbox>>,
             \A q \in Procs \ {p} : ops'[q] = ops[q],
             InFlight(p)' => \/ ops'[p].type = "triaged"
                             \/ ops'[p].mem.triage = None
                             \/ Recorded(ops'[p].order, "triaged")
      PROVE  TriageSeen'
    BY <1>1 DEF TriageSeen, Recorded, InFlight
<1>2. ASSUME NEW p \in Procs, NEW o \in Orders, Create(p, o)
      PROVE  TriageSeen'
    <2>1. ops'[p].mem = NewRow
        BY <1>0, <1>2 DEF Create
    <2> QED
        BY <1>0, <1>1, <1>2, <2>1 DEF Create, NewRow
<1>3. ASSUME NEW p \in Procs, NEW o \in Orders, NEW a \in Assignees, Assign(p, o, a)
      PROVE  TriageSeen'
    <2>1. /\ ops'[p].order = o
          /\ ops'[p].mem = [rows[o] EXCEPT !.assignee = a, !.status = "assigned"]
          /\ rows[o] \in Row
        BY <1>0, <1>3 DEF Assign, Loaded
    <2>2. ops'[p].mem.triage = rows[o].triage
        BY <2>1 DEF Row
    <2> QED
        BY <1>0, <1>1, <1>3, <2>1, <2>2 DEF Assign, TriageSeen
<1>4. ASSUME NEW p \in Procs, NEW o \in Orders, NEW next \in Status,
             UpdateStatus(p, o, next)
      PROVE  TriageSeen'
    <2>1. /\ ops'[p].order = o
          /\ ops'[p].mem = [rows[o] EXCEPT !.status = next]
          /\ rows[o] \in Row
        BY <1>0, <1>4 DEF UpdateStatus, Loaded
    <2>2. ops'[p].mem.triage = rows[o].triage
        BY <2>1 DEF Row
    <2> QED
        BY <1>0, <1>1, <1>4, <2>1, <2>2 DEF UpdateStatus, TriageSeen
<1>5. ASSUME NEW p \in Procs, NEW o \in Orders, NEW t \in Triages, ApplyTriage(p, o, t)
      PROVE  TriageSeen'
    <2>1. ops'[p].type = "triaged"
        BY <1>0, <1>5 DEF ApplyTriage, Loaded
    <2> QED
        BY <1>0, <1>1, <1>5, <2>1 DEF ApplyTriage
<1>6. ASSUME NEW p \in Procs, SaveSelect(p) \/ UpdateAndStage(p)
      PROVE  TriageSeen'
    <2>1. ops[p] \in Op /\ ops[p].pc \in {"loaded", "selected"} /\ InFlight(p)
        <3>1. ops[p].pc \in {"loaded", "selected"}
            BY <1>6 DEF SaveSelect, UpdateAndStage
        <3> QED
            BY <1>0, <3>1 DEF InFlight
    <2>2. /\ ops'[p].type = ops[p].type /\ ops'[p].mem = ops[p].mem
          /\ ops'[p].order = ops[p].order
          /\ \A q \in Procs \ {p} : ops'[q] = ops[q]
          /\ UNCHANGED <<rows, outbox>>
        <3>1. CASE SaveSelect(p)
            BY <1>0, <2>1, <3>1 DEF SaveSelect, Op
        <3>2. CASE UpdateAndStage(p)
            BY <1>0, <2>1, <3>2 DEF UpdateAndStage, Op
        <3> QED
            BY <1>6, <3>1, <3>2
    <2> QED
        BY <1>1, <2>1, <2>2 DEF TriageSeen
<1>7. ASSUME NEW p \in Procs, CheckViolation(p) \/ Rollback(p)
      PROVE  TriageSeen'
    <2>1. ~ InFlight(p)'
        BY <1>0, <1>7 DEF CheckViolation, Rollback, InFlight
    <2> QED
        BY <1>0, <1>1, <1>7, <2>1 DEF CheckViolation, Rollback
<1>8. ASSUME NEW p \in Procs, Commit(p)
      PROVE  TriageSeen'
    <2>0. PICK op \in Op : op = ops[p]
        BY <1>0, <1>8 DEF Commit
    <2>1. /\ ops[p] = op /\ InFlight(p) /\ op.order \in Orders
          /\ rows' = [rows EXCEPT ![op.order] = Written(rows[op.order], op.mem, op.diff)]
          /\ outbox' = outbox \cup {EventOf(op)}
          /\ ops'[p] = Idle /\ \A q \in Procs \ {p} : ops'[q] = ops[q]
        BY <1>0, <1>8, <2>0 DEF Commit, InFlight, Op
    <2>2. \A type : \A o \in Orders : Recorded(o, type) => Recorded(o, type)'
        BY <2>1 DEF Recorded
    <2>3. Recorded(op.order, op.type)'
        <3>1. EventOf(op).order = op.order /\ EventOf(op).type = op.type
            BY DEF EventOf
        <3> QED
            BY <2>1, <3>1 DEF Recorded
    <2>4. ASSUME NEW o \in Orders, rows'[o].triage # None
          PROVE  Recorded(o, "triaged")'
        <3>1. CASE o # op.order
            BY <1>0, <2>1, <2>2, <2>4, <3>1 DEF TriageSeen
        <3>2. CASE o = op.order
            <4>1. rows'[o].triage \in {op.mem.triage, rows[o].triage}
                BY <1>0, <2>1, <3>2 DEF Written
            <4>2. CASE op.type = "triaged"
                BY <2>3, <3>2, <4>2
            <4>3. CASE op.type # "triaged" /\ op.mem.triage # None
                BY <2>1, <2>2, <3>2, <4>3 DEF TriageSeen
            <4>4. CASE rows[o].triage # None
                BY <2>2, <4>4 DEF TriageSeen
            <4> QED
                BY <2>4, <4>1, <4>2, <4>3, <4>4
        <3> QED
            BY <3>1, <3>2
    <2>5. ASSUME NEW q \in Procs, InFlight(q)', ops'[q].type # "triaged",
                 ops'[q].mem.triage # None
          PROVE  Recorded(ops[q].order, "triaged")'
        <3>1. q # p /\ ops'[q] = ops[q] /\ ops[q] \in Op
            BY <1>0, <2>1, <2>5 DEF InFlight
        <3>2. PICK o \in Orders : o = ops[q].order
            BY <3>1 DEF Op
        <3>3. Recorded(o, "triaged")
            BY <2>5, <3>1, <3>2 DEF TriageSeen, InFlight
        <3>4. Recorded(o, "triaged")'
            BY <2>2, <3>3
        <3> QED
            BY <3>1, <3>2, <3>4 DEF Recorded
    <2> QED
        BY <2>4, <2>5 DEF TriageSeen
<1>9. CASE UNCHANGED vars
    BY <1>9 DEF vars, TriageSeen, Recorded, InFlight
<1> QED
    BY <1>2, <1>3, <1>4, <1>5, <1>6, <1>7, <1>8, <1>9 DEF Next, Step

LEMMA TriageSeenInvariant == Spec => []TriageSeen
BY TypeInvariant, TriageSeenInit, TriageSeenNext, PTL DEF Spec

-----------------------------------------------------------------------------
(* The queue and its messages                                               *)

Handling(p, o) == delivery[p] # NoDelivery /\ delivery[p].order = o

\* Nothing is left to do about o.
Settled(o) == o \in unclassified \/ Recorded(o, "triaged")

\* A message is about an announced order, and while its handler saves, the
\* operation in flight is that save.
DeliveryInv(p) ==
    /\ delivery[p] # NoDelivery => Recorded(delivery[p].order, "created")
    /\ delivery[p].pc = "applying" =>
           /\ InFlight(p)
           /\ ops[p].type = "triaged"
           /\ ops[p].order = delivery[p].order
    /\ delivery[p].pc = "done" => Settled(delivery[p].order)

QueueInv ==
    /\ queue \in [Orders -> Nat]
    /\ published \in [Orders -> Nat]
    /\ delivery \in [Procs -> Delivery \cup {NoDelivery}]
    /\ \A o \in Orders : queue[o] > 0 => Recorded(o, "created")
    /\ \A p \in Procs : DeliveryInv(p)
    /\ NoTriageIsLost

LEMMA QueueInvInit == TriageInit => QueueInv
BY DEF TriageInit, QueueInv, DeliveryInv, NoDelivery, NoTriageIsLost

\* A step that is about process p and the orders X, and leaves all others alone.
LEMMA QueueInvLocal ==
    ASSUME QueueInv, NEW p \in Procs, NEW X \in SUBSET Orders,
           outbox \subseteq outbox', unclassified \subseteq unclassified',
           queue' \in [Orders -> Nat], UNCHANGED published,
           delivery' \in [Procs -> Delivery \cup {NoDelivery}],
           \A o \in Orders \ X : queue'[o] = queue[o],
           \A x \in X : Recorded(x, "created"),
           \A q \in Procs \ {p} : delivery'[q] = delivery[q] /\ (ops'[q] = ops[q]),
           DeliveryInv(p)',
           delivery[p] # NoDelivery => delivery[p].order \in X,
           \A x \in X : queue'[x] > 0 \/ Handling(p, x)' \/ Settled(x)'
                            \/ (queue[x] = 0 /\ ~ Handling(p, x))
    PROVE  QueueInv'
<1>1. \A o, type : Recorded(o, type) => Recorded(o, type)'
    BY DEF Recorded
<1>2. \A o : Settled(o) => Settled(o)'
    BY <1>1 DEF Settled
<1>3. \A o \in Orders : queue'[o] > 0 => Recorded(o, "created")'
    BY <1>1 DEF QueueInv
<1>4. ASSUME NEW q \in Procs, q # p
      PROVE  DeliveryInv(q)'
    <2>1. DeliveryInv(q) /\ delivery'[q] = delivery[q] /\ ops'[q] = ops[q]
        BY <1>4 DEF QueueInv
    <2>2. CASE delivery[q] = NoDelivery
        BY <2>1, <2>2 DEF DeliveryInv, NoDelivery
    <2>3. CASE delivery[q] # NoDelivery
        <3>1. PICK o \in Orders : o = delivery[q].order /\ o = delivery'[q].order
            BY <2>1, <2>3 DEF QueueInv, Delivery
        <3>2. /\ Recorded(o, "created")'
              /\ delivery[q].pc = "done" => Settled(o)'
            BY <1>1, <1>2, <2>1, <2>3, <3>1 DEF DeliveryInv
        <3> QED
            BY <2>1, <3>1, <3>2 DEF DeliveryInv, InFlight, Settled, Recorded
    <2> QED
        BY <2>2, <2>3
<1>5. NoTriageIsLost'
    <2> SUFFICES ASSUME NEW o \in Orders, published[o] > 0
                 PROVE  \/ queue'[o] > 0
                        \/ \E q \in Procs : Handling(q, o)'
                        \/ Settled(o)'
        BY DEF NoTriageIsLost, Handling, Settled
    <2>1. queue[o] > 0 \/ (\E q \in Procs : Handling(q, o)) \/ Settled(o)
        BY DEF QueueInv, NoTriageIsLost, Handling, Settled
    <2>2. CASE Settled(o)
        BY <1>2, <2>2
    <2>3. CASE queue[o] > 0
        BY <2>3 DEF QueueInv
    <2>4. ASSUME NEW q \in Procs, Handling(q, o)
          PROVE  queue'[o] > 0 \/ (\E r \in Procs : Handling(r, o)') \/ Settled(o)'
        <3>1. CASE q # p
            BY <2>4, <3>1 DEF Handling
        <3>2. CASE q = p
            BY <2>4, <3>2 DEF Handling
        <3> QED
            BY <3>1, <3>2
    <2> QED
        BY <2>1, <2>2, <2>3, <2>4
<1> QED
    BY <1>3, <1>4, <1>5 DEF QueueInv

\* A step that is about the message of p.
LEMMA QueueInvAt ==
    ASSUME QueueInv, NEW p \in Procs, NEW x \in Orders,
           outbox \subseteq outbox', unclassified \subseteq unclassified',
           queue' \in [Orders -> Nat], UNCHANGED published,
           delivery' \in [Procs -> Delivery \cup {NoDelivery}],
           \A o \in Orders \ {x} : queue'[o] = queue[o],
           Recorded(x, "created"),
           \A q \in Procs \ {p} : delivery'[q] = delivery[q] /\ ops'[q] = ops[q],
           DeliveryInv(p)',
           delivery[p] # NoDelivery => delivery[p].order = x,
           queue'[x] > 0 \/ Handling(p, x)' \/ Settled(x)'
    PROVE  QueueInv'
<1> DEFINE X == {x}
<1>1. X \in SUBSET Orders
    OBVIOUS
<1>2. /\ \A o \in Orders \ X : queue'[o] = queue[o]
      /\ \A o \in X : Recorded(o, "created")
      /\ delivery[p] # NoDelivery => delivery[p].order \in X
      /\ \A o \in X : queue'[o] > 0 \/ Handling(p, o)' \/ Settled(o)'
                         \/ (queue[o] = 0 /\ ~ Handling(p, o))
    OBVIOUS
<1> HIDE DEF X
<1> QED
    BY <1>1, <1>2, QueueInvLocal

\* A step of p concerns no other operation, an operation in flight keeps its
\* order and its event, and only its COMMIT records one.
LEMMA StepLocal ==
    ASSUME TypeInv, NEW p \in Procs, Step(p)
    PROVE  /\ \A q \in Procs \ {p} : ops'[q] = ops[q]
           /\ outbox \subseteq outbox'
           /\ outbox' # outbox =>
                  outbox' = outbox \cup {EventOf(ops[p])} /\ InFlight(p)
           /\ InFlight(p) /\ ops'[p] # Idle =>
                  /\ InFlight(p)'
                  /\ ops'[p].type = ops[p].type
                  /\ ops'[p].order = ops[p].order
<1>0. ops \in [Procs -> Op \cup {Idle}]
    BY DEF TypeInv, TypeOK
<1>1. ASSUME \/ \E o \in Orders : Create(p, o)
             \/ \E o \in Orders, a \in Assignees : Assign(p, o, a)
             \/ \E o \in Orders, next \in Status : UpdateStatus(p, o, next)
             \/ \E o \in Orders, t \in Triages : ApplyTriage(p, o, t)
      PROVE  /\ ~ InFlight(p)
             /\ UNCHANGED outbox
             /\ \A q \in Procs \ {p} : ops'[q] = ops[q]
    <2>1. PICK op : ops[p] = Idle /\ ops' = [ops EXCEPT ![p] = op] /\ UNCHANGED outbox
        <3>1. CASE \E o \in Orders : Create(p, o)
            BY <3>1 DEF Create
        <3>2. CASE \E o \in Orders, a \in Assignees : Assign(p, o, a)
            BY <3>2 DEF Assign
        <3>3. CASE \E o \in Orders, next \in Status : UpdateStatus(p, o, next)
            BY <3>3 DEF UpdateStatus
        <3>4. CASE \E o \in Orders, t \in Triages : ApplyTriage(p, o, t)
            BY <3>4 DEF ApplyTriage
        <3> QED
            BY <1>1, <3>1, <3>2, <3>3, <3>4
    <2> QED
        BY <1>0, <2>1 DEF InFlight, Idle
<1>2. ASSUME SaveSelect(p)
      PROVE  /\ UNCHANGED outbox
             /\ \A q \in Procs \ {p} : ops'[q] = ops[q]
             /\ InFlight(p)' /\ ops'[p].type = ops[p].type
             /\ ops'[p].order = ops[p].order
    BY <1>0, <1>2 DEF SaveSelect, Op, Idle, InFlight
<1>3. ASSUME UpdateAndStage(p)
      PROVE  /\ UNCHANGED outbox
             /\ \A q \in Procs \ {p} : ops'[q] = ops[q]
             /\ InFlight(p)' /\ ops'[p].type = ops[p].type
             /\ ops'[p].order = ops[p].order
    BY <1>0, <1>3 DEF UpdateAndStage, Op, Idle, InFlight
<1>4. ASSUME CheckViolation(p) \/ Rollback(p)
      PROVE  /\ UNCHANGED outbox
             /\ \A q \in Procs \ {p} : ops'[q] = ops[q]
             /\ ops'[p] = Idle
    BY <1>0, <1>4 DEF CheckViolation, Rollback
<1>5. ASSUME Commit(p)
      PROVE  /\ outbox' = outbox \cup {EventOf(ops[p])} /\ InFlight(p)
             /\ \A q \in Procs \ {p} : ops'[q] = ops[q]
             /\ ops'[p] = Idle
    BY <1>0, <1>5 DEF Commit, InFlight
<1> QED
    BY <1>1, <1>2, <1>3, <1>4, <1>5 DEF Step

LEMMA QueueInvNext ==
    TypeInv /\ CreatedInv /\ TriageSeen /\ QueueInv /\ [TriageNext]_triageVars
    => QueueInv'
<1> SUFFICES ASSUME TypeInv, CreatedInv, TriageSeen, QueueInv, [TriageNext]_triageVars
             PROVE  QueueInv'
    OBVIOUS
<1>0. /\ queue \in [Orders -> Nat] /\ published \in [Orders -> Nat]
      /\ delivery \in [Procs -> Delivery \cup {NoDelivery}]
      /\ ops \in [Procs -> Op \cup {Idle}]
      /\ \A p \in Procs : DeliveryInv(p)
      /\ NoDelivery.pc = "none"
    BY DEF QueueInv, TypeInv, TypeOK, NoDelivery
<1>1. ASSUME NEW o \in Orders, PublishCreated(o)
      PROVE  QueueInv'
    <2>1. /\ published' \in [Orders -> Nat] /\ queue' \in [Orders -> Nat]
          /\ queue'[o] > 0
          /\ \A x \in Orders \ {o} :
                 queue'[x] = queue[x] /\ published'[x] = published[x]
          /\ UNCHANGED <<vars, delivery, unclassified>>
          /\ Recorded(o, "created")
        BY <1>0, <1>1 DEF PublishCreated
    <2>2. \A p \in Procs : DeliveryInv(p)'
        BY <1>0, <2>1 DEF DeliveryInv, Recorded, InFlight, Settled, vars
    <2>3. NoTriageIsLost'
        BY <2>1 DEF QueueInv, NoTriageIsLost, Recorded, vars
    <2>4. \A x \in Orders : queue'[x] > 0 => Recorded(x, "created")'
        BY <2>1 DEF QueueInv, Recorded, vars
    <2> QED
        BY <1>0, <2>1, <2>2, <2>3, <2>4 DEF QueueInv
<1>2. ASSUME NEW p \in Procs, NEW o \in Orders, Deliver(p, o)
      PROVE  QueueInv'
    <2>1. /\ queue' \in [Orders -> Nat] /\ Recorded(o, "created")
          /\ \A x \in Orders \ {o} : queue'[x] = queue[x]
          /\ delivery'[p] = [pc |-> "classifying", order |-> o, triage |-> None]
          /\ \A q \in Procs \ {p} : delivery'[q] = delivery[q]
          /\ delivery' \in [Procs -> Delivery \cup {NoDelivery}]
          /\ UNCHANGED <<vars, published, unclassified>>
        BY <1>0, <1>2 DEF Deliver, Delivery, QueueInv
    <2>2. Handling(p, o)' /\ DeliveryInv(p)'
        BY <2>1 DEF Handling, DeliveryInv, NoDelivery, Recorded, vars
    <2> QED
        BY <1>0, <1>2, <2>1, <2>2, QueueInvAt DEF Deliver, vars
\* The message at hand.
<1>3. ASSUME NEW p \in Procs, delivery[p] # NoDelivery
      PROVE  \E x \in Orders : /\ delivery[p].order = x /\ Recorded(x, "created")
                               /\ delivery[p] \in Delivery
    BY <1>0, <1>3 DEF DeliveryInv, Delivery
<1>4. ASSUME NEW p \in Procs, Classify(p)
      PROVE  QueueInv'
    <2>0. delivery[p] # NoDelivery
        BY <1>0, <1>4 DEF Classify
    <2>1. PICK x \in Orders : /\ delivery[p].order = x /\ Recorded(x, "created")
                              /\ delivery[p] \in Delivery
        BY <1>3, <2>0
    <2>2. PICK t \in Triages \cup {None} :
              /\ delivery' = [delivery EXCEPT
                                 ![p].pc = IF t = None THEN "done" ELSE "classified",
                                 ![p].triage = t]
              /\ unclassified' = IF t = None
                                 THEN unclassified \cup {delivery[p].order}
                                 ELSE unclassified
        BY <1>4 DEF Classify
    <2>3. /\ delivery'[p] \in Delivery /\ delivery'[p].order = x
          /\ delivery'[p].pc = IF t = None THEN "done" ELSE "classified"
          /\ \A q \in Procs \ {p} : delivery'[q] = delivery[q]
          /\ delivery' \in [Procs -> Delivery \cup {NoDelivery}]
        BY <1>0, <2>1, <2>2 DEF Delivery
    <2>4. delivery'[p] # NoDelivery
        BY <2>3 DEF NoDelivery
    <2>5. /\ UNCHANGED <<rows, outbox, nextId, ops, published, queue>>
          /\ unclassified \subseteq unclassified'
        BY <1>4, <2>2 DEF Classify, vars
    <2>6. DeliveryInv(p)' /\ Handling(p, x)'
        BY <2>1, <2>2, <2>3, <2>4, <2>5 DEF DeliveryInv, Handling, Recorded, Settled
    <2> QED
        BY <1>0, <2>1, <2>3, <2>5, <2>6, QueueInvAt
<1>5. ASSUME NEW p \in Procs, SkipTriage(p)
      PROVE  QueueInv'
    <2>0. delivery[p] # NoDelivery
        BY <1>0, <1>5 DEF SkipTriage
    <2>1. PICK x \in Orders : /\ delivery[p].order = x /\ Recorded(x, "created")
                              /\ delivery[p] \in Delivery
        BY <1>3, <2>0
    <2>2. /\ delivery'[p] \in Delivery /\ delivery'[p].order = x
          /\ delivery'[p].pc = "done"
          /\ \A q \in Procs \ {p} : delivery'[q] = delivery[q]
          /\ delivery' \in [Procs -> Delivery \cup {NoDelivery}]
          /\ UNCHANGED <<rows, outbox, nextId, ops, published, queue, unclassified>>
        BY <1>0, <1>5, <2>1 DEF SkipTriage, Delivery, vars
    \* The order exists, so it is triaged.
    <2>3. rows[x] # Absent
        BY <2>1 DEF Recorded, CreatedInv
    <2>4. Recorded(x, "triaged")
        BY <1>5, <2>1, <2>3 DEF SkipTriage, TriageSeen
    <2>5. delivery'[p] # NoDelivery
        BY <2>2 DEF NoDelivery
    <2>6. DeliveryInv(p)' /\ Handling(p, x)'
        BY <2>1, <2>2, <2>4, <2>5 DEF DeliveryInv, Handling, Recorded, Settled
    <2> QED
        BY <1>0, <2>1, <2>2, <2>6, QueueInvAt
\* The message is dropped once nothing is left to do.
<1>6. ASSUME NEW p \in Procs, Ack(p)
      PROVE  QueueInv'
    <2>0. delivery[p] # NoDelivery
        BY <1>0, <1>6 DEF Ack
    <2>1. PICK x \in Orders : /\ delivery[p].order = x /\ Recorded(x, "created")
                              /\ delivery[p] \in Delivery
        BY <1>3, <2>0
    <2>2. /\ delivery'[p] = NoDelivery
          /\ \A q \in Procs \ {p} : delivery'[q] = delivery[q]
          /\ delivery' \in [Procs -> Delivery \cup {NoDelivery}]
          /\ UNCHANGED <<rows, outbox, nextId, ops, published, queue, unclassified>>
        BY <1>0, <1>6 DEF Ack, vars
    <2>3. Settled(x)
        BY <1>0, <1>6, <2>1 DEF Ack, DeliveryInv
    <2>4. Settled(x)' /\ DeliveryInv(p)'
        BY <1>0, <2>2, <2>3 DEF DeliveryInv, Recorded, Settled, NoDelivery
    <2> QED
        BY <1>0, <2>1, <2>2, <2>4, QueueInvAt
\* The message goes back into the queue.
<1>7. ASSUME NEW p \in Procs, delivery[p] # NoDelivery, Requeue(p),
             outbox \subseteq outbox', UNCHANGED <<published, unclassified>>,
             \A q \in Procs \ {p} : ops'[q] = ops[q]
      PROVE  QueueInv'
    <2>1. PICK x \in Orders : /\ delivery[p].order = x /\ Recorded(x, "created")
                              /\ delivery[p] \in Delivery
        BY <1>3, <1>7
    <2>2. /\ delivery'[p] = NoDelivery
          /\ \A q \in Procs \ {p} : delivery'[q] = delivery[q]
          /\ delivery' \in [Procs -> Delivery \cup {NoDelivery}]
          /\ queue' \in [Orders -> Nat] /\ queue'[x] > 0
          /\ \A o \in Orders \ {x} : queue'[o] = queue[o]
        BY <1>0, <1>7, <2>1 DEF Requeue
    <2>3. DeliveryInv(p)'
        BY <2>2 DEF DeliveryInv, NoDelivery
    <2> QED
        BY <1>0, <1>7, <2>1, <2>2, <2>3, QueueInvAt
<1>8. ASSUME NEW p \in Procs, LoseDelivery(p)
      PROVE  QueueInv'
    BY <1>7, <1>8 DEF LoseDelivery, vars
<1>9. ASSUME NEW p \in Procs, Operate(p)
      PROVE  QueueInv'
    <2>1. /\ \A q \in Procs \ {p} : ops'[q] = ops[q]
          /\ outbox \subseteq outbox' /\ UNCHANGED <<published, unclassified>>
          /\ outbox' # outbox =>
                 outbox' = outbox \cup {EventOf(ops[p])} /\ InFlight(p)
          /\ InFlight(p) /\ ops'[p] # Idle =>
                 /\ InFlight(p)'
                 /\ ops'[p].type = ops[p].type
                 /\ ops'[p].order = ops[p].order
        BY <1>9, StepLocal DEF Operate
    <2>2. CASE EndpointStep(p)
        <3> DEFINE X == {}
        <3>1. /\ X \in SUBSET Orders
              /\ \A o \in Orders \ X : queue'[o] = queue[o]
              /\ \A o \in X : Recorded(o, "created")
              /\ delivery[p] # NoDelivery => delivery[p].order \in X
              /\ \A o \in X : queue'[o] > 0 \/ Handling(p, o)' \/ Settled(o)'
                                 \/ (queue[o] = 0 /\ ~ Handling(p, o))
              /\ UNCHANGED <<queue, delivery>>
              /\ DeliveryInv(p)'
            BY <1>0, <2>2 DEF EndpointStep, DeliveryInv
        <3> HIDE DEF X
        <3> QED
            BY <1>0, <2>1, <3>1, QueueInvLocal
    <2>3. CASE StartsApplying(p)
        <3>0. delivery[p] # NoDelivery
            BY <1>0, <2>3 DEF StartsApplying
        <3>1. PICK x \in Orders : /\ delivery[p].order = x /\ Recorded(x, "created")
                                  /\ delivery[p] \in Delivery
            BY <1>3, <3>0
        <3>2. /\ delivery'[p] \in Delivery /\ delivery'[p].order = x
              /\ delivery'[p].pc = "applying"
              /\ \A q \in Procs \ {p} : delivery'[q] = delivery[q]
              /\ delivery' \in [Procs -> Delivery \cup {NoDelivery}]
              /\ UNCHANGED queue
              /\ ops'[p].pc = "loaded" /\ ops'[p].type = "triaged" /\ ops'[p].order = x
            BY <1>0, <2>3, <3>1 DEF StartsApplying, Delivery, Loaded
        <3>3. delivery'[p] # NoDelivery
            BY <3>2 DEF NoDelivery
        <3>4. DeliveryInv(p)' /\ Handling(p, x)'
            BY <2>1, <3>1, <3>2, <3>3 DEF DeliveryInv, Handling, Recorded, InFlight
        <3> QED
            BY <1>0, <2>1, <3>1, <3>2, <3>4, QueueInvAt
    <2>4. CASE ApplyingStep(p)
        <3>0. delivery[p] # NoDelivery
            BY <1>0, <2>4 DEF ApplyingStep
        <3>1. PICK x \in Orders : /\ delivery[p].order = x /\ Recorded(x, "created")
                                  /\ delivery[p] \in Delivery
            BY <1>3, <3>0
        <3>2. CASE Aborts(p)
            BY <1>7, <2>1, <2>4, <3>0, <3>2 DEF ApplyingStep
        <3>3. CASE ~ Aborts(p)
            <4>1. InFlight(p) /\ ops[p].type = "triaged" /\ ops[p].order = x
                BY <1>0, <2>4, <3>1 DEF ApplyingStep, DeliveryInv
            <4>2. /\ delivery'[p].order = x /\ delivery'[p] \in Delivery
                  /\ delivery'[p].pc = IF ops'[p] = Idle THEN "done" ELSE "applying"
                  /\ \A q \in Procs \ {p} : delivery'[q] = delivery[q]
                  /\ delivery' \in [Procs -> Delivery \cup {NoDelivery}]
                  /\ UNCHANGED queue
                BY <1>0, <2>4, <3>1, <3>3 DEF ApplyingStep, Delivery
            <4>3. delivery'[p] # NoDelivery
                BY <4>2 DEF NoDelivery
            \* It is done only by its COMMIT.
            <4>4. ASSUME ops'[p] = Idle
                  PROVE  Recorded(x, "triaged")'
                <5>1. outbox' = outbox \cup {EventOf(ops[p])}
                    BY <2>1, <3>3, <4>1, <4>4 DEF Aborts
                <5>2. EventOf(ops[p]).order = x /\ EventOf(ops[p]).type = "triaged"
                    BY <4>1 DEF EventOf
                <5> QED
                    BY <5>1, <5>2 DEF Recorded
            <4>5. DeliveryInv(p)' /\ Handling(p, x)'
                BY <2>1, <3>1, <4>1, <4>2, <4>3, <4>4
                   DEF DeliveryInv, Handling, Recorded, Settled
            <4> QED
                BY <1>0, <2>1, <3>1, <4>2, <4>5, QueueInvAt
        <3> QED
            BY <3>2, <3>3
    <2> QED
        BY <1>9, <2>2, <2>3, <2>4 DEF Operate
<1>10. CASE UNCHANGED triageVars
    BY <1>10 DEF triageVars, broker, vars, QueueInv, DeliveryInv, Recorded, Settled,
                 InFlight, NoTriageIsLost
<1> QED
    BY <1>1, <1>2, <1>4, <1>5, <1>6, <1>8, <1>9, <1>10 DEF TriageNext

LEMMA QueueInvariant == TriageSpec => []QueueInv
<1>1. TriageSpec => [](TypeInv /\ CreatedInv /\ TriageSeen)
    BY TriageImpliesSpec, TypeInvariant, CreatedInvariant, TriageSeenInvariant, PTL
<1> QED
    BY <1>1, QueueInvInit, QueueInvNext, PTL DEF TriageSpec

\* An announced order is queued, in hand, triaged or unclassifiable: under any
\* overlap of deliveries and endpoints, however often a message is delivered,
\* and wherever a process dies or a save fails.
THEOREM NoTriageLost == TriageSpec => []NoTriageIsLost
BY QueueInvariant, PTL DEF QueueInv

-----------------------------------------------------------------------------
(* The queue holds no more than was published                              *)

\* The messages about o that are being handled.
InHand(o) == {p \in Procs : Handling(p, o)}

\* However often a message is delivered, put back and delivered again, there
\* are never more of them than the relay has published.
CountOf(o) ==
    /\ IsFiniteSet(InHand(o))
    /\ queue[o] + Cardinality(InHand(o)) <= published[o]
    /\ published[o] <= MaxCopies

CountInv ==
    /\ \A o \in Orders : CountOf(o)
    /\ unclassified \subseteq Orders
    /\ failures \in 0 .. MaxFailures

LEMMA CountInvInit == TriageInit => CountInv
<1> SUFFICES ASSUME TriageInit
             PROVE  CountInv
    OBVIOUS
<1>1. \A o \in Orders : InHand(o) = {} /\ queue[o] = 0 /\ published[o] = 0
    BY DEF TriageInit, InHand, Handling
<1>2. ASSUME NEW o \in Orders
      PROVE  CountOf(o)
    <2>1. IsFiniteSet(InHand(o)) /\ Cardinality(InHand(o)) = 0
        BY <1>1, FS_EmptySet
    <2> QED
        BY <1>1, <2>1, CopiesAssumption DEF CountOf
<1>3. unclassified \subseteq Orders /\ failures \in 0 .. MaxFailures
    BY CopiesAssumption DEF TriageInit
<1> QED
    BY <1>2, <1>3 DEF CountInv

Load(p, o) == IF Handling(p, o) THEN 1 ELSE 0

\* A step of p takes a message in hand, or lets go of one, and nobody else does.
LEMMA InHandStep ==
    ASSUME NEW p \in Procs, \A q \in Procs \ {p} : delivery'[q] = delivery[q],
           NEW o \in Orders, IsFiniteSet(InHand(o))
    PROVE  /\ IsFiniteSet(InHand(o)')
           /\ Cardinality(InHand(o)) \in Nat /\ Cardinality(InHand(o)') \in Nat
           /\ Cardinality(InHand(o)') + Load(p, o)
                 = Cardinality(InHand(o)) + Load(p, o)'
<1>1. \A q \in Procs : q # p => (Handling(q, o)' <=> Handling(q, o))
    BY DEF Handling
<1> DEFINE others == InHand(o) \ {p}
<1>2. /\ IsFiniteSet(others) /\ Cardinality(others) \in Nat
      /\ Cardinality(InHand(o)) \in Nat
      /\ Cardinality(InHand(o)) = Cardinality(others) + Load(p, o)
    <2>1. IsFiniteSet(others)
        BY FS_RemoveElement
    <2>2. Cardinality(others) \in Nat /\ Cardinality(InHand(o)) \in Nat
        BY <2>1, FS_CardinalityType
    <2>3. p \in InHand(o) <=> Handling(p, o)
        BY DEF InHand
    <2>4. Cardinality(others) = IF p \in InHand(o) THEN Cardinality(InHand(o)) - 1
                                ELSE Cardinality(InHand(o))
        BY FS_RemoveElement
    <2> QED
        BY <2>1, <2>2, <2>3, <2>4 DEF Load
<1>3. InHand(o)' = IF Handling(p, o)' THEN others \cup {p} ELSE others
    BY <1>1 DEF InHand
<1>4. p \notin others
    OBVIOUS
<1> HIDE DEF others
<1>5. /\ IsFiniteSet(others \cup {p})
      /\ Cardinality(others \cup {p}) = Cardinality(others) + 1
    BY <1>2, <1>4, FS_AddElement
<1>6. CASE Handling(p, o)'
    BY <1>2, <1>3, <1>5, <1>6 DEF Load
<1>7. CASE ~Handling(p, o)'
    BY <1>2, <1>3, <1>7 DEF Load
<1> QED
    BY <1>6, <1>7

\* What p takes in hand leaves the queue, and only that goes back.
LEMMA CountFrame ==
    ASSUME QueueInv, QueueInv', CountInv, NEW p \in Procs,
           \A q \in Procs \ {p} : delivery'[q] = delivery[q],
           UNCHANGED published,
           \A o \in Orders : queue'[o] + Load(p, o)' <= queue[o] + Load(p, o),
           unclassified' \subseteq Orders, failures' \in 0 .. MaxFailures
    PROVE  CountInv'
<1>1. ASSUME NEW o \in Orders
      PROVE  CountOf(o)'
    <2>1. CountOf(o)
        BY DEF CountInv
    <2>2. /\ IsFiniteSet(InHand(o)')
          /\ Cardinality(InHand(o)) \in Nat /\ Cardinality(InHand(o)') \in Nat
          /\ Cardinality(InHand(o)') + Load(p, o)
                = Cardinality(InHand(o)) + Load(p, o)'
        BY <2>1, InHandStep DEF CountOf
    <2>3. queue[o] \in Nat /\ queue'[o] \in Nat /\ published[o] \in Nat
        BY DEF QueueInv
    <2>4. Load(p, o) \in {0, 1} /\ Load(p, o)' \in {0, 1}
        BY DEF Load
    <2>5. queue'[o] + Cardinality(InHand(o)') <= published[o]
        BY <2>1, <2>2, <2>3, <2>4 DEF CountOf
    <2> QED
        BY <2>1, <2>2, <2>5 DEF CountOf
<1> QED
    BY <1>1 DEF CountInv

LEMMA CountInvNext ==
    TypeInv /\ QueueInv /\ QueueInv' /\ CountInv /\ [TriageNext]_triageVars => CountInv'
<1> SUFFICES ASSUME TypeInv, QueueInv, QueueInv', CountInv, [TriageNext]_triageVars
             PROVE  CountInv'
    OBVIOUS
<1>0. /\ queue \in [Orders -> Nat] /\ published \in [Orders -> Nat]
      /\ delivery \in [Procs -> Delivery \cup {NoDelivery}]
      /\ unclassified \subseteq Orders
      /\ failures \in 0 .. MaxFailures /\ MaxFailures \in Nat /\ MaxCopies \in Nat
      /\ NoDelivery.pc = "none"
    BY CopiesAssumption DEF QueueInv, CountInv, NoDelivery
<1>1. ASSUME NEW x \in Orders, PublishCreated(x)
      PROVE  CountInv'
    <2>1. /\ published[x] < MaxCopies
          /\ published' = [published EXCEPT ![x] = @ + 1]
          /\ queue' = [queue EXCEPT ![x] = @ + 1]
          /\ UNCHANGED <<delivery, unclassified, failures>>
        BY <1>1 DEF PublishCreated
    <2>2. ASSUME NEW o \in Orders
          PROVE  CountOf(o)'
        <3>1. CountOf(o) /\ InHand(o)' = InHand(o)
            BY <2>1 DEF CountInv, InHand, Handling
        <3>2. Cardinality(InHand(o)) \in Nat
            BY <3>1, FS_CardinalityType DEF CountOf
        <3>3. queue[o] \in Nat /\ published[o] \in Nat
            BY <1>0
        <3>4. \/ o = x /\ queue'[o] = queue[o] + 1 /\ published'[o] = published[o] + 1
              \/ o # x /\ queue'[o] = queue[o] /\ published'[o] = published[o]
            BY <1>0, <2>1
        <3> QED
            BY <1>0, <2>1, <3>1, <3>2, <3>3, <3>4 DEF CountOf
    <2> QED
        BY <1>0, <2>1, <2>2 DEF CountInv
<1>2. ASSUME NEW p \in Procs, NEW x \in Orders, Deliver(p, x)
      PROVE  CountInv'
    <2>1. /\ queue[x] > 0 /\ queue' = [queue EXCEPT ![x] = @ - 1]
          /\ delivery[p] = NoDelivery
          /\ delivery'[p] = [pc |-> "classifying", order |-> x, triage |-> None]
          /\ \A q \in Procs \ {p} : delivery'[q] = delivery[q]
          /\ UNCHANGED <<published, unclassified, failures>>
        BY <1>0, <1>2 DEF Deliver
    <2>2. ASSUME NEW o \in Orders
          PROVE  queue'[o] + Load(p, o)' <= queue[o] + Load(p, o)
        <3>1. Load(p, o) = 0 /\ Load(p, o)' \in {0, 1}
            BY <2>1 DEF Load, Handling
        <3>2. o # x => Load(p, o)' = 0
            BY <2>1 DEF Load, Handling
        <3> QED
            BY <1>0, <2>1, <3>1, <3>2
    <2> QED
        BY <1>0, <2>1, <2>2, CountFrame
\* A message stays in hand: neither the queue nor what it is about changes.
<1>3. ASSUME NEW p \in Procs, delivery[p] # NoDelivery,
             delivery'[p].order = delivery[p].order,
             \A q \in Procs \ {p} : delivery'[q] = delivery[q],
             UNCHANGED <<queue, published>>,
             unclassified' \subseteq Orders, failures' \in 0 .. MaxFailures
      PROVE  CountInv'
    <2>1. ASSUME NEW o \in Orders
          PROVE  queue'[o] + Load(p, o)' <= queue[o] + Load(p, o)
        <3>1. Handling(p, o)' => Handling(p, o)
            BY <1>3 DEF Handling
        <3>2. Load(p, o)' <= Load(p, o) /\ Load(p, o) \in {0, 1} /\ Load(p, o)' \in {0, 1}
            BY <3>1 DEF Load
        <3> QED
            BY <1>0, <1>3, <3>2
    <2> QED
        BY <1>3, <2>1, CountFrame
\* A message is let go: into the queue, or for good.
<1>4. ASSUME NEW p \in Procs, NEW x \in Orders, delivery[p] # NoDelivery,
             delivery[p].order = x, delivery'[p] = NoDelivery,
             \A q \in Procs \ {p} : delivery'[q] = delivery[q],
             queue' = queue \/ queue' = [queue EXCEPT ![x] = @ + 1],
             UNCHANGED <<published, unclassified>>, failures' \in 0 .. MaxFailures
      PROVE  CountInv'
    <2>1. ASSUME NEW o \in Orders
          PROVE  queue'[o] + Load(p, o)' <= queue[o] + Load(p, o)
        <3>1. /\ Load(p, o)' = 0 /\ Load(p, o) \in {0, 1}
              /\ o = x => Load(p, o) = 1
            BY <1>4 DEF Load, Handling
        <3> QED
            BY <1>0, <1>4, <3>1
    <2> QED
        BY <1>0, <1>4, <2>1, CountFrame
<1>5. ASSUME NEW p \in Procs, Classify(p) \/ SkipTriage(p)
      PROVE  CountInv'
    <2>1. delivery[p] \in Delivery
        BY <1>0, <1>5 DEF Classify, SkipTriage
    <2>2. /\ delivery'[p].order = delivery[p].order
          /\ \A q \in Procs \ {p} : delivery'[q] = delivery[q]
          /\ UNCHANGED <<queue, published, failures>>
          /\ unclassified' \subseteq Orders
        <3>1. delivery[p].order \in Orders /\ delivery \in [Procs -> Delivery \cup {NoDelivery}]
            BY <1>0, <2>1 DEF Delivery
        <3>2. CASE Classify(p)
            <4>1. PICK t \in Triages \cup {None} :
                     /\ delivery' = [delivery EXCEPT
                            ![p].pc = IF t = None THEN "done" ELSE "classified",
                            ![p].triage = t]
                     /\ unclassified' = IF t = None
                                        THEN unclassified \cup {delivery[p].order}
                                        ELSE unclassified
                BY <3>2 DEF Classify
            <4>2. UNCHANGED <<queue, published, failures>>
                BY <3>2 DEF Classify
            <4>3. unclassified' \subseteq Orders
                BY <1>0, <3>1, <4>1
            <4>4. /\ delivery'[p].order = delivery[p].order
                  /\ \A q \in Procs \ {p} : delivery'[q] = delivery[q]
                BY <2>1, <3>1, <4>1 DEF Delivery
            <4> QED
                BY <4>2, <4>3, <4>4
        <3>3. CASE SkipTriage(p)
            <4>1. /\ delivery' = [delivery EXCEPT ![p].pc = "done"]
                  /\ UNCHANGED <<queue, published, unclassified, failures>>
                BY <3>3 DEF SkipTriage
            <4>2. /\ delivery'[p].order = delivery[p].order
                  /\ \A q \in Procs \ {p} : delivery'[q] = delivery[q]
                BY <2>1, <3>1, <4>1 DEF Delivery
            <4> QED
                BY <1>0, <4>1, <4>2
        <3> QED
            BY <1>5, <3>2, <3>3
    <2>3. delivery[p] # NoDelivery
        BY <1>0, <1>5 DEF Classify, SkipTriage
    <2> QED
        BY <1>0, <1>3, <2>2, <2>3
<1>6. ASSUME NEW p \in Procs, Ack(p)
      PROVE  CountInv'
    <2>1. /\ delivery[p] # NoDelivery /\ delivery'[p] = NoDelivery
          /\ \A q \in Procs \ {p} : delivery'[q] = delivery[q]
          /\ UNCHANGED <<queue, published, unclassified, failures>>
        BY <1>0, <1>6 DEF Ack
    <2>2. PICK x \in Orders : delivery[p].order = x
        BY <1>0, <2>1 DEF Delivery
    <2> QED
        BY <1>0, <1>4, <2>1, <2>2
<1>7. ASSUME NEW p \in Procs, delivery[p] # NoDelivery, Requeue(p),
             UNCHANGED <<published, unclassified>>, failures' \in 0 .. MaxFailures
      PROVE  CountInv'
    <2>1. PICK x \in Orders : delivery[p].order = x
        BY <1>0, <1>7 DEF Delivery
    <2>2. /\ delivery'[p] = NoDelivery
          /\ \A q \in Procs \ {p} : delivery'[q] = delivery[q]
          /\ queue' = [queue EXCEPT ![x] = @ + 1]
        BY <1>0, <1>7, <2>1 DEF Requeue
    <2> QED
        BY <1>4, <1>7, <2>1, <2>2
<1>8. Failure => failures' \in 0 .. MaxFailures
    BY <1>0 DEF Failure
<1>9. ASSUME NEW p \in Procs, LoseDelivery(p)
      PROVE  CountInv'
    BY <1>7, <1>8, <1>9 DEF LoseDelivery
<1>10. ASSUME NEW p \in Procs, Operate(p)
      PROVE  CountInv'
    <2>1. UNCHANGED <<published, unclassified>> /\ failures' \in 0 .. MaxFailures
        BY <1>0, <1>8, <1>10 DEF Operate
    <2>2. CASE EndpointStep(p)
        <3>1. \A o \in Orders : queue'[o] + Load(p, o)' <= queue[o] + Load(p, o)
            BY <1>0, <2>2 DEF EndpointStep, Load, Handling
        <3> QED
            BY <1>0, <2>1, <2>2, <3>1, CountFrame DEF EndpointStep
    <2>3. CASE StartsApplying(p) \/ (ApplyingStep(p) /\ ~Aborts(p))
        <3>1. delivery[p] # NoDelivery /\ delivery[p] \in Delivery
            BY <1>0, <2>3 DEF StartsApplying, ApplyingStep
        <3>2. /\ delivery'[p].order = delivery[p].order
              /\ \A q \in Procs \ {p} : delivery'[q] = delivery[q]
              /\ UNCHANGED queue
            BY <1>0, <2>3, <3>1 DEF StartsApplying, ApplyingStep, Delivery
        <3> QED
            BY <1>0, <1>3, <2>1, <3>1, <3>2
    <2>4. CASE ApplyingStep(p) /\ Aborts(p)
        <3>1. delivery[p] # NoDelivery
            BY <1>0, <2>4 DEF ApplyingStep
        <3> QED
            BY <1>7, <2>1, <2>4, <3>1 DEF ApplyingStep
    <2> QED
        BY <1>10, <2>2, <2>3, <2>4 DEF Operate
<1>11. CASE UNCHANGED triageVars
    BY <1>11 DEF triageVars, broker, CountInv, CountOf, InHand, Handling
<1> QED
    BY <1>1, <1>2, <1>5, <1>6, <1>9, <1>10, <1>11 DEF TriageNext

\* Every variable keeps its type, under any overlap; the queue never holds more
\* messages about an order than were published, so requeuing one and handling it
\* at once (a message counted twice) cannot happen.
THEOREM TriageTypeCorrect == TriageSpec => []TriageTypeOK
<1>1. TypeInv /\ QueueInv /\ CountInv => TriageTypeOK
    <2> SUFFICES ASSUME TypeInv, QueueInv, CountInv
                 PROVE  TriageTypeOK
        OBVIOUS
    <2>1. ASSUME NEW o \in Orders
          PROVE  queue[o] \in 0 .. MaxCopies /\ published[o] \in 0 .. MaxCopies
        <3>1. CountOf(o) /\ queue[o] \in Nat /\ published[o] \in Nat
            BY DEF CountInv, QueueInv
        <3>2. Cardinality(InHand(o)) \in Nat
            BY <3>1, FS_CardinalityType DEF CountOf
        <3> QED
            BY <3>1, <3>2, CopiesAssumption DEF CountOf
    <2>2. queue \in [Orders -> 0 .. MaxCopies] /\ published \in [Orders -> 0 .. MaxCopies]
        BY <2>1 DEF QueueInv
    <2> QED
        BY <2>2 DEF TriageTypeOK, TypeInv, QueueInv, CountInv
<1> QED
    BY <1>1, TriageImpliesSpec, TypeInvariant, QueueInvariant, CountInvInit,
       CountInvNext, PTL DEF TriageSpec

=============================================================================
