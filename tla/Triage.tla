-------------------------------- MODULE Triage --------------------------------
(***************************************************************************)
(* The triage of new work orders: the queue work-orders.triage with its    *)
(* consumer, the classifier, and the endpoints of WorkOrders at work on    *)
(* the same rows.                                                          *)
(*                                                                         *)
(* A `created` event reaches the queue after its commit, at least once.    *)
(* The consumer awaits the classifier, which may take its time and may     *)
(* have no answer, and then applies the answer to whatever the order has   *)
(* become.  The queue sets no prefetch, so copies of one event may be      *)
(* handled at the same time.  RabbitMQ is external: a message stays with   *)
(* the broker until it is acknowledged, and a handler that throws, or a    *)
(* channel that breaks, puts it back in the queue.                         *)
(***************************************************************************)
EXTENDS WorkOrders

CONSTANTS
    MaxCopies,   \* bound: `created` messages of one order
    MaxFailures  \* bound: operations and deliveries that fail

ASSUME CopiesAssumption == MaxCopies \in Nat /\ MaxFailures \in Nat

VARIABLES
    published,    \* `created` messages the relay has sent, per order
    queue,        \* those ready in work-orders.triage
    delivery,     \* the message each process is handling
    unclassified, \* history: orders the classifier had no answer for
    failures      \* failures so far

broker == <<published, queue, delivery, unclassified>>
triageVars == <<vars, broker, failures>>

-----------------------------------------------------------------------------
NoDelivery == [pc |-> "none"]

\* pc: awaiting the classifier, about to apply its answer, saving, about to
\* acknowledge.
Delivery == [pc : {"classifying", "classified", "applying", "done"},
             order : Orders, triage : Triages \cup {None}]

TriageInit ==
    /\ Init
    /\ published = [o \in Orders |-> 0]
    /\ queue = [o \in Orders |-> 0]
    /\ delivery = [p \in Procs |-> NoDelivery]
    /\ unclassified = {}
    /\ failures = 0

Failure ==
    /\ failures < MaxFailures
    /\ failures' = failures + 1

Recorded(o, type) == \E e \in outbox : e.order = o /\ e.type = type

\* Seeded fault: the queue is bound to the key of another event.
PublishAssigned(o) ==
    /\ Recorded(o, "assigned")
    /\ published[o] < MaxCopies
    /\ published' = [published EXCEPT ![o] = @ + 1]
    /\ queue' = [queue EXCEPT ![o] = @ + 1]
    /\ UNCHANGED <<vars, delivery, unclassified, failures>>

\* The relay publishes the event of the INSERT, perhaps twice.
PublishCreated(o) ==
    /\ Recorded(o, "created")
    /\ published[o] < MaxCopies
    /\ published' = [published EXCEPT ![o] = @ + 1]
    /\ queue' = [queue EXCEPT ![o] = @ + 1]
    /\ UNCHANGED <<vars, delivery, unclassified, failures>>

\* onWorkOrderCreated() starts, and calls the classifier.
Deliver(p, o) ==
    /\ queue[o] > 0
    /\ ops[p] = Idle
    /\ delivery[p] = NoDelivery
    /\ queue' = [queue EXCEPT ![o] = @ - 1]
    /\ delivery' = [delivery EXCEPT ![p] =
                       [pc |-> "classifying", order |-> o, triage |-> None]]
    /\ UNCHANGED <<vars, published, unclassified, failures>>

\* classify() resolves, and never rejects: no API key, an API error, a refusal
\* or an answer without text all mean null, which leaves the order as it is.
Classify(p) ==
    /\ delivery[p].pc = "classifying"
    /\ \E t \in Triages \cup {None} :
          /\ delivery' = [delivery EXCEPT
                             ![p].pc = IF t = None THEN "done" ELSE "classified",
                             ![p].triage = t]
          /\ unclassified' = IF t = None
                             THEN unclassified \cup {delivery[p].order}
                             ELSE unclassified
    /\ UNCHANGED <<vars, published, queue, failures>>

\* apply() returns early: the order is gone, or it is triaged already.
SkipTriage(p) ==
    /\ delivery[p].pc = "classified"
    /\ ops[p] = Idle
    /\ LET row == rows[delivery[p].order]
       IN  row = Absent \/ row.triage # None
    /\ delivery' = [delivery EXCEPT ![p].pc = "done"]
    /\ UNCHANGED <<vars, published, queue, unclassified, failures>>

Ack(p) ==
    /\ delivery[p].pc = "done"
    /\ delivery' = [delivery EXCEPT ![p] = NoDelivery]
    /\ UNCHANGED <<vars, published, queue, unclassified, failures>>

\* Seeded faults: a message whose handler throws is rejected for good, or is
\* put back while its handler goes on.
Rejected(p) ==
    /\ delivery' = [delivery EXCEPT ![p] = NoDelivery]
    /\ UNCHANGED queue

StillHandled(p) ==
    /\ queue' = [queue EXCEPT ![delivery[p].order] = @ + 1]
    /\ UNCHANGED delivery

\* The broker takes the message back.
Requeue(p) ==
    /\ queue' = [queue EXCEPT ![delivery[p].order] = @ + 1]
    /\ delivery' = [delivery EXCEPT ![p] = NoDelivery]

\* The process or its channel dies outside a transaction.
LoseDelivery(p) ==
    /\ delivery[p] # NoDelivery
    /\ ops[p] = Idle
    /\ Failure
    /\ Requeue(p)
    /\ UNCHANGED <<vars, published, unclassified>>

-----------------------------------------------------------------------------
(* The steps of WorkOrders, and what they mean to the message at hand.      *)

\* The operation ends without a commit.
Aborts(p) == InFlight(p) /\ ops'[p] = Idle /\ outbox' = outbox

\* A step of an endpoint, in a process that handles no message.
EndpointStep(p) ==
    /\ delivery[p] = NoDelivery
    /\ ops'[p] # Idle => ops'[p].type # "triaged"
    /\ UNCHANGED <<queue, delivery>>

\* apply() has loaded the order and put the answer of the classifier in it.
StartsApplying(p) ==
    /\ delivery[p].pc = "classified"
    /\ ops'[p] = Loaded(delivery[p].order, "triaged",
                        [rows[delivery[p].order] EXCEPT
                            !.triage = delivery[p].triage])
    /\ delivery' = [delivery EXCEPT ![p].pc = "applying"]
    /\ UNCHANGED queue

\* A step of its transaction: a rollback throws, and COMMIT lets it return.
ApplyingStep(p) ==
    /\ delivery[p].pc = "applying"
    /\ IF Aborts(p) THEN Requeue(p)
       ELSE /\ delivery' = IF ops'[p] = Idle
                           THEN [delivery EXCEPT ![p].pc = "done"]
                           ELSE delivery
            /\ UNCHANGED queue

Operate(p) ==
    /\ Step(p)
    /\ EndpointStep(p) \/ StartsApplying(p) \/ ApplyingStep(p)
    /\ IF Aborts(p) THEN Failure ELSE UNCHANGED failures
    /\ UNCHANGED <<published, unclassified>>

TriageNext ==
    \/ \E o \in Orders : PublishCreated(o)
    \/ \E p \in Procs, o \in Orders : Deliver(p, o)
    \/ \E p \in Procs : Classify(p) \/ SkipTriage(p) \/ Ack(p) \/ LoseDelivery(p)
    \/ \E p \in Procs : Operate(p)

\* Any overlap of transactions, and no fairness.
TriageSpec == TriageInit /\ [][TriageNext]_triageVars

\* Only the windows between load and COMMIT exclude each other: the classifier
\* may be asked about an order while an endpoint changes it.
SerialNext == TriageNext /\ OneAtATime'

\* What has begun goes on: a statement returns, the classifier answers.
Proceeds(p) ==
    \/ Classify(p) \/ SkipTriage(p) \/ Ack(p)
    \/ /\ InFlight(p) \/ delivery[p].pc = "classified"
       /\ Operate(p)
       /\ ~Aborts(p)
       /\ OneAtATime'

TriageFairness ==
    /\ \A o \in Orders : WF_triageVars(published[o] = 0 /\ PublishCreated(o))
    /\ \A o \in Orders : WF_triageVars(\E p \in Procs : Deliver(p, o))
    /\ \A p \in Procs : WF_triageVars(Proceeds(p))

SerialTriageSpec ==
    TriageInit /\ [][SerialNext]_triageVars /\ TriageFairness

-----------------------------------------------------------------------------
TriageTypeOK ==
    /\ TypeOK
    /\ published \in [Orders -> 0 .. MaxCopies]
    /\ queue \in [Orders -> 0 .. MaxCopies]
    /\ delivery \in [Procs -> Delivery \cup {NoDelivery}]
    /\ unclassified \subseteq Orders
    /\ failures \in 0 .. MaxFailures

\* An order that was announced is on its way to the classifier, or was triaged,
\* or the classifier had nothing to say about it: no crash between the call,
\* the save and the acknowledgement loses a triage.
NoTriageIsLost ==
    \A o \in Orders :
        published[o] > 0 =>
            \/ queue[o] > 0
            \/ \E p \in Procs : delivery[p] # NoDelivery /\ delivery[p].order = o
            \/ o \in unclassified
            \/ Recorded(o, "triaged")

\* Every new order is in the end triaged or found unclassifiable, unless the
\* model runs out of outbox ids.
EveryOrderIsTriaged ==
    \A o \in Orders :
        Recorded(o, "created") ~>
            Recorded(o, "triaged") \/ o \in unclassified \/ nextId > MaxEvents

=============================================================================
