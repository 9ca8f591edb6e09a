----------------------------- MODULE OutboxRelay -----------------------------
(***************************************************************************)
(* The publishing half of the outbox: the relays of all work-orders        *)
(* instances drain the unpublished tail of outbox_events into RabbitMQ and *)
(* Kafka.  A drain is one transaction: it claims a batch of rows with FOR  *)
(* UPDATE SKIP LOCKED, and for each row in id order publishes to RabbitMQ, *)
(* appends to Kafka and stamps published_at; COMMIT makes the stamps stick *)
(* and any error rolls all of them back, leaving what was sent sent.       *)
(*                                                                         *)
(* The writers of the rows are the environment here: they commit them in   *)
(* any order of ids, except that the rows of one order commit in id order  *)
(* (SavesCommitInIdOrder of module WorkOrders).                            *)
(***************************************************************************)
EXTENDS Naturals, Sequences, FiniteSets

CONSTANTS
    Orders,        \* work orders the events are about
    None,          \* no order: the id is not (yet) a committed row
    Relays,        \* processes of the work-orders service
    BatchSize,     \* BATCH_SIZE
    BootOutcomes,  \* what producer.connect() may come to when a process starts
    MaxId,         \* bound: ids of the outbox
    MaxFaults      \* bound: failures of brokers, connections and processes

ASSUME OrdersAssumption == None \notin Orders
ASSUME BatchAssumption == BatchSize \in Nat \ {0}
ASSUME BootAssumption == BootOutcomes \subseteq BOOLEAN /\ BootOutcomes # {}
ASSUME BoundsAssumption == MaxId \in Nat /\ MaxFaults \in Nat

VARIABLES
    outbox,      \* the order of each committed row, None where there is none
    published,   \* ids whose published_at is set, as committed
    relay,       \* the drain each process is in
    connected,   \* whether the process's Kafka producer ever connected
    rabbit,      \* copies of each event handed to the exchange, up to MaxCopies
    kafka,       \* per order, the events appended to its partition, in order
    faults       \* failures so far

vars == <<outbox, published, relay, connected, rabbit, kafka, faults>>

-----------------------------------------------------------------------------
Ids == 1 .. MaxId

\* Bound: a relay without Kafka republishes for ever, and this many copies of
\* an event stand for any number above.
MaxCopies == MaxFaults + 2

\* pc is the statement the drain is at; todo are the claimed rows still to do,
\* stamped those done in this transaction, and tx says whether Postgres still
\* has the transaction.
Drain == [ pc      : {"idle", "publish", "record", "stamp", "commit"},
           todo    : SUBSET Ids,
           stamped : SUBSET Ids,
           tx      : BOOLEAN ]

NotDraining == [pc |-> "idle", todo |-> {}, stamped |-> {}, tx |-> FALSE]

Committed == {i \in Ids : outbox[i] # None}

\* The rows a live transaction has locked.
Claimed(r) == IF relay[r].tx THEN relay[r].todo \cup relay[r].stamped ELSE {}

\* Seeded fault: a plain SELECT, without FOR UPDATE SKIP LOCKED.
AvailableUnlocked == Committed \ published

\* WHERE published_at IS NULL ... SKIP LOCKED
Available == (Committed \ published) \ UNION {Claimed(r) : r \in Relays}

\* Seeded fault: the batch comes in any order.
CurrentUnordered(r, i) == i \in relay[r].todo

\* The row of the batch that is being handled: ORDER BY id.
Current(r, i) == i \in relay[r].todo /\ \A j \in relay[r].todo : i <= j

InKafka(i) ==
    \E o \in Orders : outbox[i] = o /\ \E n \in DOMAIN kafka[o] : kafka[o][n] = i

Goto(r, pc) == relay' = [relay EXCEPT ![r].pc = pc]

\* Seeded fault: no finally, so `draining` stays set after an error.
StaysDraining(r) ==
    relay' = [relay EXCEPT ![r] = [NotDraining EXCEPT !.pc = "draining"]]

\* The catch block: ROLLBACK, and `draining` is reset.
Abort(r) == relay' = [relay EXCEPT ![r] = NotDraining]

Fault == faults < MaxFaults /\ faults' = faults + 1

-----------------------------------------------------------------------------
Init ==
    /\ outbox = [i \in Ids |-> None]
    /\ published = {}
    /\ relay = [r \in Relays |-> NotDraining]
    /\ connected \in [Relays -> BootOutcomes]
    /\ rabbit = [i \in Ids |-> 0]
    /\ kafka = [o \in Orders |-> <<>>]
    /\ faults = 0

\* A writer commits the row with id i.
CommitRow(i, o) ==
    /\ outbox[i] = None
    /\ \A j \in Ids : outbox[j] = o => j < i
    /\ outbox' = [outbox EXCEPT ![i] = o]
    /\ UNCHANGED <<published, relay, connected, rabbit, kafka, faults>>

\* Seeded fault: the rows are stamped, and committed, as they are claimed.
StampOnClaim(r) ==
    /\ relay[r].pc = "idle"
    /\ \E batch \in (SUBSET Available) \ {{}} :
          /\ Cardinality(batch) <= BatchSize
          /\ relay' = [relay EXCEPT ![r] =
                          [pc |-> "publish", todo |-> batch, stamped |-> {},
                           tx |-> TRUE]]
          /\ published' = published \cup batch
    /\ UNCHANGED <<outbox, connected, rabbit, kafka, faults>>

\* A tick: BEGIN and the SELECT, skipped while the last drain is still running.
\* An empty batch commits at once and changes nothing.
Claim(r) ==
    /\ relay[r].pc = "idle"
    /\ \E batch \in (SUBSET Available) \ {{}} :
          /\ Cardinality(batch) <= BatchSize
          /\ batch # Available => Cardinality(batch) = BatchSize
          /\ \A i \in batch, j \in Available \ batch : i < j
          /\ relay' = [relay EXCEPT ![r] =
                          [pc |-> "publish", todo |-> batch, stamped |-> {},
                           tx |-> TRUE]]
    /\ UNCHANGED <<outbox, published, connected, rabbit, kafka, faults>>

Announced(i, copies) ==
    IF rabbit[i] + copies <= MaxCopies THEN rabbit[i] + copies ELSE MaxCopies

\* await amqp.publish(...)
Publish(r, i) ==
    /\ relay[r].pc = "publish" /\ Current(r, i)
    /\ rabbit' = [rabbit EXCEPT ![i] = Announced(i, 1)]
    /\ Goto(r, "record")
    /\ UNCHANGED <<outbox, published, connected, kafka, faults>>

\* The connection breaks before the confirm: the client publishes again when it
\* is back, and the await resolves then.
PublishTwice(r, i) ==
    /\ relay[r].pc = "publish" /\ Current(r, i)
    /\ rabbit' = [rabbit EXCEPT ![i] = Announced(i, 2)]
    /\ Goto(r, "record")
    /\ Fault
    /\ UNCHANGED <<outbox, published, connected, kafka>>

\* Seeded fault: an error of publish() is swallowed and the drain goes on.
PublishErrorSwallowed(r, i) ==
    /\ relay[r].pc = "publish" /\ Current(r, i)
    /\ Goto(r, "record")
    /\ Fault
    /\ UNCHANGED <<outbox, published, connected, rabbit, kafka>>

\* It throws, whether or not the message got through.
PublishFails(r, i) ==
    /\ relay[r].pc = "publish" /\ Current(r, i)
    /\ \E copies \in {0, 1} :
          rabbit' = [rabbit EXCEPT ![i] = Announced(i, copies)]
    /\ Abort(r)
    /\ Fault
    /\ UNCHANGED <<outbox, published, connected, kafka>>

\* The order's id is the key of the message, so an order's events share a
\* partition.
Appended(i) == [kafka EXCEPT ![outbox[i]] = Append(@, i)]

\* await audit.record(...)
Record(r, i) ==
    /\ relay[r].pc = "record" /\ Current(r, i)
    /\ connected[r]
    /\ kafka' = Appended(i)
    /\ Goto(r, "stamp")
    /\ UNCHANGED <<outbox, published, connected, rabbit, faults>>

\* The acknowledgement is lost: the client sends again, and succeeds, or it
\* gives up and throws.
RecordTwice(r, i) ==
    /\ relay[r].pc = "record" /\ Current(r, i)
    /\ connected[r]
    /\ kafka' = [kafka EXCEPT ![outbox[i]] = Append(Append(@, i), i)]
    /\ Goto(r, "stamp")
    /\ Fault
    /\ UNCHANGED <<outbox, published, connected, rabbit>>

\* Seeded fault: record() catches its own errors.
RecordErrorSwallowed(r, i) ==
    /\ relay[r].pc = "record" /\ Current(r, i)
    /\ Goto(r, "stamp")
    /\ Fault
    /\ UNCHANGED <<outbox, published, connected, rabbit, kafka>>

\* record() throws, whether or not the message was appended.
RecordFails(r, i) ==
    /\ relay[r].pc = "record" /\ Current(r, i)
    /\ connected[r]
    /\ kafka' \in {kafka, Appended(i)}
    /\ Abort(r)
    /\ Fault
    /\ UNCHANGED <<outbox, published, connected, rabbit>>

\* A producer whose connect() failed at boot refuses every send: onModuleInit
\* logs the failure and nothing connects it later.
RecordRefused(r) ==
    /\ relay[r].pc = "record"
    /\ ~connected[r]
    /\ Abort(r)
    /\ UNCHANGED <<outbox, published, connected, rabbit, kafka, faults>>

\* Seeded fault: the UPDATE has slipped out of the loop and stamps the last row.
StampLastOnly(r, i) ==
    /\ relay[r].pc = "stamp" /\ Current(r, i)
    /\ relay[r].tx
    /\ relay' = [relay EXCEPT
                    ![r].pc = IF relay[r].todo = {i} THEN "commit" ELSE "publish",
                    ![r].todo = @ \ {i},
                    ![r].stamped = IF relay[r].todo = {i} THEN {i} ELSE @]
    /\ UNCHANGED <<outbox, published, connected, rabbit, kafka, faults>>

\* UPDATE ... SET published_at, still inside the transaction.
Stamp(r, i) ==
    /\ relay[r].pc = "stamp" /\ Current(r, i)
    /\ relay[r].tx
    /\ relay' = [relay EXCEPT
                    ![r].pc = IF relay[r].todo = {i} THEN "commit" ELSE "publish",
                    ![r].todo = @ \ {i},
                    ![r].stamped = @ \cup {i}]
    /\ UNCHANGED <<outbox, published, connected, rabbit, kafka, faults>>

CommitDrain(r) ==
    /\ relay[r].pc = "commit"
    /\ relay[r].tx
    /\ published' = published \cup relay[r].stamped
    /\ relay' = [relay EXCEPT ![r] = NotDraining]
    /\ UNCHANGED <<outbox, connected, rabbit, kafka, faults>>

\* The database connection breaks: Postgres rolls back and frees the rows, and
\* the drain finds out at its next statement.
LoseConnection(r) ==
    /\ relay[r].tx
    /\ relay' = [relay EXCEPT ![r].tx = FALSE]
    /\ Fault
    /\ UNCHANGED <<outbox, published, connected, rabbit, kafka>>

DatabaseFails(r) ==
    /\ relay[r].pc \in {"stamp", "commit"}
    /\ ~relay[r].tx
    /\ Abort(r)
    /\ UNCHANGED <<outbox, published, connected, rabbit, kafka, faults>>

\* The process dies and a new one starts.
Restart(r) ==
    /\ Abort(r)
    /\ \E c \in BootOutcomes : connected' = [connected EXCEPT ![r] = c]
    /\ Fault
    /\ UNCHANGED <<outbox, published, rabbit, kafka>>

\* What a drain does when nothing goes wrong around it.
DrainStep(r) ==
    \/ Claim(r)
    \/ \E i \in Ids : Publish(r, i) \/ Record(r, i) \/ Stamp(r, i)
    \/ RecordRefused(r)
    \/ CommitDrain(r)
    \/ DatabaseFails(r)

FaultStep(r) ==
    \/ \E i \in Ids : PublishTwice(r, i) \/ PublishFails(r, i)
    \/ \E i \in Ids : RecordTwice(r, i) \/ RecordFails(r, i)
    \/ LoseConnection(r)
    \/ Restart(r)

Next ==
    \/ \E i \in Ids, o \in Orders : CommitRow(i, o)
    \/ \E r \in Relays : DrainStep(r) \/ FaultStep(r)

Spec == Init /\ [][Next]_vars

\* The timer ticks for ever, and every await of a drain settles.
Fairness == \A r \in Relays : WF_vars(DrainStep(r))

FairSpec == Spec /\ Fairness

-----------------------------------------------------------------------------
TypeOK ==
    /\ outbox \in [Ids -> Orders \cup {None}]
    /\ published \subseteq Ids
    /\ relay \in [Relays -> Drain]
    /\ connected \in [Relays -> BOOLEAN]
    /\ rabbit \in [Ids -> Nat]
    /\ kafka \in [Orders -> Seq(Ids)]
    /\ faults \in Nat

\* Relays partition the work: no row is in the transaction of two of them, and
\* none is claimed again once its stamp is committed.
ClaimsAreExclusive ==
    \A r \in Relays :
        /\ Claimed(r) \cap published = {}
        /\ \A s \in Relays \ {r} : Claimed(r) \cap Claimed(s) = {}

\* No event is lost: a stamp is only ever set, pending or committed, on a row
\* that has reached both brokers, whatever failed before.
StampedReachedBoth ==
    \A i \in Ids :
        i \in published \/ (\E r \in Relays : i \in relay[r].stamped)
            => rabbit[i] > 0 /\ InKafka(i)

\* The audit stream never runs ahead of the exchange: what an auditor reads the
\* notifications and the triage have been sent.
AuditedWasAnnounced == \A i \in Ids : InKafka(i) => rabbit[i] > 0

\* Duplicates have a cause: an event is published once, plus once more at most
\* for every failure -- not for every relay, every tick or every row of a batch.
\* (For processes whose producer connected.)
DuplicatesHaveACause == \A i \in Ids : rabbit[i] <= 1 + faults

\* The first time an event shows up on its partition, no later event of the
\* order is there yet: an auditor who drops duplicates reads an order's events
\* as they happened.  True of one relay; "partition key" alone does not make it
\* true of two (docs/events.md: "Ordering is guaranteed per aggregate on the
\* Kafka side").
KafkaKeepsOrder ==
    \A o \in Orders : \A n \in DOMAIN kafka[o] :
        \/ \E m \in 1 .. n - 1 : kafka[o][m] = kafka[o][n]
        \/ \A m \in 1 .. n - 1 : kafka[o][m] < kafka[o][n]

\* Every committed event is eventually published, for good: the failures end,
\* the rows of the failed drains are claimed again, and no relay keeps rows
\* from another for ever.
EverythingIsRelayed ==
    \A i \in Ids : outbox[i] # None ~> i \in published

\* A process that boots without Kafka only loses the audit trail: "kafka connect
\* failed, audit records will be dropped".  The events still reach the exchange.
AnnouncedWithoutKafka ==
    \A i \in Ids : outbox[i] # None ~> rabbit[i] > 0

-----------------------------------------------------------------------------
\* Together the relays are an at-least-once channel into both brokers: an
\* event is in at most the exchange, then in both, before it counts as done,
\* and none of this is ever undone.
Channel == INSTANCE AtLeastOnce WITH
    Events    <- Ids,
    sent      <- Committed,
    announced <- {i \in Ids : rabbit[i] > 0},
    audited   <- {i \in Ids : InKafka(i)},
    done      <- published

ImplementsAtLeastOnce == Channel!Spec

=============================================================================
