# PropFlow: a TLA+ model

PropFlow is a set of NestJS services that take maintenance requests ("work
orders") for properties. This directory models the system from the gateway to
the ends of its event streams: the gateway's guards and proxy, the write side of
the work-orders service with its transactional outbox and its triage, the relays
that carry the outbox into RabbitMQ and Kafka, the notifications service, and the
audit log with its feed. Paths below are relative to `src/`; `W` is
`apps/work-orders-service/src`, `N` is
`apps/notifications-service/src/notifications`, `A` is
`apps/audit-service/src/audit`, `G` is `apps/api-gateway/src`.

## 1. The system

```
client -> api-gateway -> work-orders-service --(Postgres: work_orders, outbox_events)
                     \-> properties-service        |
                     \-> audit-service             | outbox relay, one per process
                                                   v
                              RabbitMQ topic exchange      Kafka topic (key = order)
                               |            |                    |
                     notifications-service  triage consumer   audit-service
                                            (in work-orders)   (audit_events, feed)
```

| component | state | operations | what makes it correct |
|---|---|---|---|
| work-orders, write side (`W/work-orders`, `W/messaging/work-order-events.outbox.ts`) | `work_orders`, `outbox_events`, the operations in flight | create, assign, updateStatus, triage apply | a change and its event commit together; the state chart is followed; an assigned order has an assignee |
| work-orders, outbox relay (`W/messaging/outbox-relay.ts`, `work-order-audit.producer.ts`) | `published_at`, a drain per process, a Kafka producer per process | claim, publish, record, stamp, commit, abort | nothing committed is lost, nothing is stamped before both brokers have it, duplicates only after failures, per-order order on Kafka |
| triage (`W/triage`) | queue `work-orders.triage`, `triaged_at` | consume `created`, classify (LLM), apply | an announced order is triaged or found unclassifiable in the end; once; the triage never drives a transition (the last two fail when operations overlap) |
| notifications (`N`) | main queue, retry queue, DLQ, in-memory set of processed events | consume, send, mark, retry, dead-letter | every event is notified or parked; nothing is parked early; a repeated notification has a known cause |
| audit ingest (`A/audit-stream.consumer.ts`, `audit-ingest.service.ts`) | Kafka offsets, `audit_events` | consume, insert on conflict do nothing | every record once and in the order of its partition, whatever is replayed; nothing skipped |
| activity feed (`A/activity-feed.service.ts`) | none | keyset page of `audit_events` | pages neither repeat nor miss a row, while rows keep coming |
| properties (`apps/properties-service`) | `properties` | create, list, get | what a reader of the list misses, or sees again, has a known cause |
| gateway (`G`) | JWTs, a context per request, none of the domain | login, guards, proxy with a timeout, summary | each route only for its roles; changes carry the caller's identity; failures degrade as documented; every request is answered |
| contracts, observability, health, DTO validation, configuration | none | | wiring and stateless checks |

How they interact: HTTP from the gateway; the database between the write side
and the relay; RabbitMQ from the relay to notifications and triage, which
writes back to the same tables; Kafka from the relay to audit. The identity of a
request travels in headers (`x-request-id`, `x-user-id`).

What is hard:

* **Interleaving.** Every operation on an order is a read-modify-write whose
  read is outside the transaction, with no lock and no version column. The
  triage's copy is loaded in a queue consumer, concurrently with requests.
  `k8s/work-orders.yaml` runs two replicas, so two relays drain one table.
* **Partial saves.** TypeORM's `save()` writes only the columns in which the
  copy differs from the row it selects again inside the transaction, so two
  overlapping saves can leave a mix of both.
* **Failure between two steps.** A drain publishes to two brokers inside one
  database transaction; each of its awaits can fail, the connection can break
  without the process noticing, the process can die.
* **Order.** Outbox ids are taken before commit; relays order by id.
* **Redelivery, retry, limits.** A failed notification travels as a copy with an
  attempt header, the original may be redelivered with the old header, and the
  memory of what was done is bounded and dies with the process. Kafka replays
  what was not committed, and everything under a fresh group.
* **Two writers of one partition.** A rebalance hands a partition over while its
  former owner is still inserting. Ids of the log are taken before the rows are
  visible.
* **Late effects.** The gateway answers after 3 s at the latest, and what it gave
  up on may still commit, perhaps behind the caller's retry.
* **Lists that change while they are read.** Orders and properties are paged by
  offset, newest `created_at` first, with no tiebreaker and, for orders, with
  filters. A `created_at` is the start of a transaction, not its commit.

`PROJECT.json` lists every hazard at its line, with the properties that cover it.

## 2. Modules

| module | what it is |
|---|---|
| `WorkOrderTransitions` | the tables of `work-order-transitions.ts`, the event types, `STATUS_EVENTS` |
| `WorkOrders` | the write side: rows, outbox, id sequence, operations in flight |
| `WorkOrderLifecycle` | abstract: an order's state chart, one atomic change with one event at a time |
| `OutboxRelay` | the relays, the two brokers, the failures |
| `AtLeastOnce` | abstract: an event is announced, then audited, then done, and nothing is undone |
| `Notifications` | the consumers of the notifications service, its three kinds of queue, the store of processed events |
| `NotificationCauses` | `Notifications` with a history of the occasions on which the duplicate check cannot help (EXTENDS) |
| `Triage` | the triage queue, the classifier and the consumer, on top of `WorkOrders` (EXTENDS) |
| `Audit` | topic, consumer group, replicas, `audit_events`, a reader of the feed |
| `Projection` | abstract: each event enters the log once, after all that was published before it in its partition |
| `Gateway` | callers, contexts, guards, routes, downstream calls, and the services' handlers as callers see them |
| `MCWorkOrders`, `MCTriage`, `MCOutboxRelay`, `MCNotifications`, `MCAudit`, `MCGateway` | what the instances TLC checks need besides their constants |
| `WorkOrdersProofs`, `LifecycleProofs`, `TriageProofs`, `OutboxRelayProofs`, `NotificationsProofs`, `AuditProofs`, `GatewayProofs` | inductive invariants, theorems, TLAPS proofs |
| `NumberSets` | lemmas about finite sets of numbers: the least and the greatest member, how many members two sets have, and ranks, on which both the feed's pages and the lists' rest |

Operators marked "Seeded fault" are plausible bugs that PROJECT.json puts in the
place of a definition, to see that the property concerned notices; no
specification uses them.

### WorkOrders

`rows` is `work_orders` as committed, `outbox` is `outbox_events` as committed,
`nextId` the bigserial behind the outbox id, and `ops[p]` the operation process
`p` is in. An operation goes through

| step | code |
|---|---|
| `Assign`, `UpdateStatus`, `ApplyTriage` -> `loaded` | `findOneBy`, the checks, the assignments to the entity (`work-orders.service.ts:82-117`, `triage.service.ts:19-35`). A 404 or 409 changes nothing and is not a step. |
| `SaveSelect` -> `selected` | `BEGIN` and the SELECT of `manager.save()`; the columns to write are fixed here |
| `UpdateAndStage` -> `staged` | the UPDATE (waits for the row lock) and `outbox.stage()`'s INSERT (takes an id) |
| `CheckViolation` | the UPDATE meets `chk_work_orders_assignee_when_assigned` |
| `Commit` | COMMIT: row and event become visible |
| `Rollback` | the process or the connection dies before COMMIT |

`Create` is one step up to `staged`: the id is generated by the insert, so no
other operation can know the order before the commit. A classification that is
null does nothing and is not a step (`work-order-triage.consumer.ts:39-44`).

Abstractions: the four triage columns are written together and count as one;
title, description, priority and property never change; `updated_at` is left
out, so a save whose other columns are all equal may or may not issue an UPDATE
(it does when `updated_at` of the copy is old), and the model allows both.
`Diff`, `Written`, `LockFree` and `Rollback` are TypeORM and Postgres (READ
COMMITTED), modelled from the calls the code makes.

### Triage

The module extends `WorkOrders`: a process either executes an endpoint or handles
a message, and then its operation is the transaction of `apply()`.

| step | code |
|---|---|
| `PublishCreated` | the relay announces the event, perhaps more than once; the queue is bound to `created` |
| `Deliver`, `Classify` | `onWorkOrderCreated` and the await of `classify()`, which never rejects: every failure is null (`anthropic-triage.classifier.ts`) |
| `SkipTriage` | the early returns of `apply()` (`triage.service.ts`) |
| `StartsApplying`, `ApplyingStep` | the load, then the steps of `WorkOrders` |
| `Ack`, `Requeue`, `LoseDelivery` | the transport: what throws or dies is delivered again |

The prompt, the schema of the answer and the model's reasons are data: an answer
is one of `Triages`, or null.

### OutboxRelay

`outbox[i]` says which order the committed row `i` is about; `published` are the
ids with a committed `published_at`; `relay[r]` is the drain of process `r` with
its program counter; `kafka[o]` is what the partition holds of order `o`;
`rabbit[i]` counts the copies handed to the exchange. `Claim` is BEGIN and the
SELECT, which Postgres executes as one statement; the rows it locks stay locked
while `tx` holds. `LoseConnection` takes `tx` away without the process noticing:
it goes on publishing until its next statement (`DatabaseFails`). The outcome of
every await is a step of its own: `Publish`/`PublishTwice`/`PublishFails`,
`Record`/`RecordTwice`/`RecordFails`/`RecordRefused`, `Stamp`.
The writers are the environment: `CommitRow` commits rows in any order of
ids, except that rows of one order commit in id order -- which is
`SavesCommitInIdOrder` of `WorkOrders`, proved there. (The exception noted there,
a save that finds nothing to write, can overtake; it is left out of the relay's
environment.)

Left out: a publish that waits in the AMQP client while RabbitMQ is away (it
delays the drain and, in the end, is one of the outcomes above); the interval
between ticks.

### Notifications

`ready`, `waiting` and `parked` count the copies of each message in the main
queue, the retry queue and the dead-letter queue; RabbitMQ may deliver in any
order once messages are requeued, so the queues are bags. A message is an event
and its `x-attempt` header. `handlers[h]` is an invocation of `onWorkOrder...`:

| step | code |
|---|---|
| `Deliver` | delivery, `isDuplicate()`, and the call of `send()` (`work-order-events.consumer.ts:55-60`) |
| `Send`, `SendFails` | the await of `send()` settles (`Rejections`: a rejected send may have delivered) |
| `Mark` | `processed.mark()` with its eviction (`processed-events.store.ts:23-32`) |
| `Republish`, `RepublishTwice`, `RepublishFails` | the catch block (`event-retry.handler.ts:31-55`): to the retry queue or the dead-letter exchange; the client repeats an unconfirmed publish; a publish that rejects rejects the handler, and the message is requeued as it was |
| `Ack` | the transport acknowledges what a resolved handler returned from |
| `Expire` | the TTL of the retry queue (`messaging-resilience.ts:22-40`) |
| `Crash` | the process dies: unacknowledged messages are requeued, the store is empty |
| `LoseChannel` | unacknowledged messages are requeued; invocations carry on without a claim (`owned`) on theirs |

`Announce` is the relay, which may publish an event more than once. The two
consumers (`created`, `completed`) have the same code and queues of their own, so
one stands for both. `sent`, `failures` and `announced` are histories, capped by
`MaxCount` and `MaxCopies`. The text of notifications is left out.

`NotificationCauses` adds `causes`, the times an invocation went past the check
while another one of the same event was in its awaits (`Overlaps`), or the process
lost what it knew of an event, dying or evicting it (`Forgets`). A crash or a lost
channel that makes it forget nothing is not a cause.

### Audit

`topic[p]` is what partition `p` holds, `owner` and `committed` are the consumer
group's, `next[c]` and `work[c]` are a replica's, `rows` is `audit_events` as
committed, `nextId` its bigserial, `reader` somebody paging through the feed.

| step | code |
|---|---|
| `Publish` | the relay's record, keyed by order; it may come twice |
| `Insert` | `eachMessage` -> `ingest.record()` sends its INSERT and the id is taken; a record the table refuses throws, so nothing moves |
| `CommitInsert`, `InsertFails` | the INSERT ends, with ON CONFLICT DO NOTHING; or fails, before or after the row is there |
| `Resolve`, `CommitOffset` | `eachMessage` has returned; autocommit |
| `Rebalance`, `Revoke`, `Crash`, `Replay` | handing a partition over, the former owner noticing between two records, dying, a fresh consumer group |
| `FirstPage`, `NextPage` | `ActivityFeedService.list()`: one SELECT of `limit + 1` rows below the cursor |

A partition stands for the orders hashed to it, so the feed's filter by order is
a filter by partition here. The columns of a row besides id and event are data.
A record without a value is not consumed here: the relay never produces one.

### Gateway

| step | code |
|---|---|
| `Login` | `G/auth`: a token for an account of `AUTH_USERS` |
| `Ask`, `Retry`, `NextPage` | the callers (external), with any `x-user-id` and any `x-request-id` header, in use or not |
| `Arriving` | the request-context middleware: the caller's `x-request-id`, or a new one; echoed on the response |
| `Authenticate`, `Unauthorized`, `Forbidden` | the guards, in their order; the first writes the user into the context |
| `BadPath`, `Forward` | `ParseUUIDPipe`; the client's calls, whose headers come from the context |
| `Receive`, `Timeout`, `Unreachable` | the outcomes of `fetch()` and `response.json()` (`downstream.client.ts`) |
| `Respond` | the controller returns; for the summary, `Promise.all` with its catch |
| `SelectPage`, `CountRows` | the SELECT and the COUNT of `findAndCount()`, between which others commit |
| `FindOne`, `Invalid`, `Fail` | get and feed; the ValidationPipe; a service that rolls back |
| `BeginCreate`, `CommitCreate` | the transaction of create, which fixes `created_at`, begins and ends |
| `Load`, `Refuse` | `assign()` and `updateStatus()` load the order and check the copy |
| `Save`, `Violates` | the save, which may find the row overtaken by another request; the 500 of the CHECK constraint |

`Routes` is the table of the four proxy controllers: roles and calls. A row is a
number, taken as its transaction begins; `createdAt`, part of the circumstances
(`scenario`), says what time that was, the same one for several rows if it likes,
so a row may appear below rows that have been read. A list is a table with a
status to filter by; a page of it is any slice that ORDER BY `created_at` DESC
allows (`FirstRows`). `entered` and `left` count the rows that came into each list
and went out of it.

`Save` and `Violates` stand for the steps of `WorkOrders` as a caller sees them. A
save that nobody overtook writes the status it was asked for; one that was
overtaken may also find that status in the row, and leave it to whatever it becomes;
and if somebody assigned the order meanwhile it may be refused. When exactly
which happens is in `WorkOrders`, with the columns it depends on.

Left out: the saves of the triage consumer, which may set a status back as any
stale save may (for a list that is one more way to enter and to leave; a CHECK
violation still needs a request that assigns); the filters by priority, property
and city, whose columns never change, so that such a list is one of a smaller
table; which strings pass the DTOs, a bit of the wish.

## 3. Runs

| run | instance | shows |
|---|---|---|
| `write_side` | 1 order, 1 user, no classification, 3 processes, 5 outbox ids | `created` first, the dual write, commit order, and the CHECK constraint holding the line, under every interleaving and crash |
| `triage` | 1 order, 1 user, 2 classifications, 2 processes, 5 ids, `created` delivered up to twice, 2 failures, fair; no overlap of transactions on an order | no triage is lost, the last event is the row, work has an assignee, refinement of `WorkOrderLifecycle`; every order is triaged or unclassifiable in the end |
| `triaged_twice` | 1 order, 2 classifications, 2 processes, `created` delivered up to twice, overlaps allowed, nothing fails | **violated**: two deliveries in hand at once triage the order twice |
| `terminal_is_final` | 1 order, 1 user, 1 classification, 2 processes, 5 ids | **violated**: a stale save takes an order out of a terminal status |
| `relay` | 1 order, 2 relays, 3 ids, batch 2, 2 faults, fair | claims are exclusive, nothing stamped is missing from a broker, the audit never runs ahead, duplicates have causes, refinement of `AtLeastOnce`; under fairness every committed event is published for good |
| `relay_order` | 2 orders, 1 relay, 3 ids, batch 2, 2 faults, Kafka may be away at boot | per-order order on Kafka, up to duplicates |
| `two_relays_order` | 2 relays, batch 1, no faults | **violated**: two relays swap an order's events |
| `boot_without_kafka` | 1 relay, no faults, fair | **violated**: a process that boots without Kafka announces nothing beyond the row it is stuck on |
| `notifications` | 2 events, each announced up to twice, 2 invocations, store of 1, 2 attempts, 1 fault of any kind, a rejected send may have delivered, fair | no event disappears; nothing is parked before its attempts failed; the store keeps its limit; beyond the first, every notification has a rejected send, an overlap or a forgotten event behind it; every announced event is notified or parked |
| `notified_once` | 2 invocations, one event announced twice, nothing fails | **violated**: both copies pass the duplicate check |
| `audit` | 1 partition, 2 replicas, 3 events and one the table refuses, 3 records, 1 fault of any kind, pages of 1, fair | the log is the projection of the topic, in its order, nothing skipped; pages neither repeat nor miss a row, with rows appended between them; every record is recorded unless a refused one is in front |
| `api` | a technician and a manager, 3 rows per table, pages of 2, up to 2 wishes in up to 2 attempts, 6 circumstances, fair | identity and roles of every change; answers below 500 are true for good; outages stay with the routes that need the service, and a 500 without one has another request's assign behind it; what offset pages miss left the list or shares its `created_at`, what they repeat entered it; every request is answered |

The circumstances of `api` (`MCGateway`): properties in trouble, with every kind
of route and refusal, forged user ids and reused request ids; work-orders in
trouble; both users at one order, reusing request ids; a reader of a list, filtered
or not, beside one who inserts rows and takes an order out of the filter, with
distinct `created_at` and again with shared ones; a reader beside inserts that
commit late.

Bounds. A lost update needs two operations on one order; the mix of three
overlapping ones is what runs into the CHECK constraint, which is why
`write_side` has three processes, and five ids are enough for it to happen (the
constraint's mutant is caught there). The classification is a column like any
other for these properties; it comes back in `triage`. The properties of `triage`
speak of one order at a time, so there is one; two copies and two failures give
an overlap of a redelivery with an endpoint, and a failure of the second attempt.
Three ids with batches of two give a full batch, a partial one and a
batch that straddles a rollback; two faults give a failure during the recovery
of a failure. The properties of `relay` speak of single rows, whose order does not
matter to them; rows that commit out of id order, of several orders, are in
`relay_order`. `MaxCopies` is above what the faults allow, so the counter's cap
hides nothing when the producers are connected. Of the notifications, two events
with a store for one make it evict, two invocations meet in the store, and one
fault can hit any attempt of any copy; `MaxCount` is the number of attempts, so
the caps hide no early parking, and two notifications of an event are one more
than the first. Two attempts have a first and a last one (the theorems hold for
any number). In `audit` one partition is where two writers can meet, and no safety
property but the feed's relates two partitions; three events and pages of one let
a row be appended above a cursor between two pages, also above one that is not the first.
A row that appears below a cursor needs writers of two partitions and is only in
the theorems, which also have the filter. In `api` three rows in pages of two
leave a second page, which one insert or one departure shifts, and two inserts by
a whole page; the second attempt meets the late commit of the first; the CHECK
violation needs one request to assign while another is between its load and its
save. The two rows that share a `created_at` are on either side of a page boundary
once a row is inserted. Symmetry is
used for safety and action properties only.

Deadlock is not checked: once the ids of the bound are used up every order ends
closed and triaged (or the outbox drained, or the topic recorded, or every wish answered) and
nothing is left to do.

Fairness (`relay`, `boot_without_kafka`): weak fairness of each relay's
`DrainStep`. `setInterval` ticks for ever and every await inside a drain
settles; `finally` resets `draining`. Failures are bounded and not fair.
`notifications`: weak fairness of each invocation's `HandlerStep` and of
`Expire` for each message: RabbitMQ delivers while there is room, sends and
publishes settle, the TTL runs out. `Announce` and the faults are not fair.
`triage`: the relay announces each `created` event at least once (what
`EverythingIsRelayed` shows), the broker delivers, and what has begun proceeds:
the classifier's client answers or times out, statements return.
`audit`: weak fairness of each replica's statements, and strong fairness of
`Insert` per replica and partition, since kafkajs fetches all its partitions in
turn and a replica is busy in between; offsets need not be committed.
`api`: weak fairness of `GatewayStep`, of which the 3 s timer is one, and of the
services that are not in trouble; those in trouble need never answer.

### Disagreements with the documents

* A stale save leaves a terminal status (`docs/notes/phase-1-work-orders.md:27`;
  the gap noted at line 32 is still there). The triage's save does the same, though
  "it annotates, never drives a transition" (`docs/flows.md:286`).
* Two relays reorder one order's events on Kafka (`docs/events.md:102`).
* Without Kafka at boot, nothing but the head of the batch reaches RabbitMQ, and
  that again and again (`work-order-audit.producer.ts:34`).
* Two concurrent copies of an event are both notified: "exactly-once *in effect*
  [...] idempotent consumers at every hop" (`docs/adr/0007-outbox-pattern.md:40`).
* Two deliveries of a `created` event in hand at once triage its order twice: "A
  duplicate `created` event cannot double-triage (guarded by `triaged_at`)"
  (`docs/adr/0006-llm-triage.md:41`). The guard is read outside the transaction,
  and the consumer has no prefetch limit.

Four more that the models show and no run of their own records:

* Offset paging "can skip/duplicate items when rows are inserted between pages"
  (`docs/notes/phase-1-work-orders.md:42`). Inserts duplicate but never skip, not
  even those that commit late, below what was read: an inserted row only moves
  others to later pages. What skips is a row that leaves the status filter, and
  `created_at` without a tiebreaker (`MissesHaveACause`).
* A 500 of a service in perfect health: the CHECK constraint's, when one request
  assigns an order that another one is saving from an older copy
  (`OutagesAreContained`).
* A republish that rejects (`RepublishFails`) has the message tried again with the
  attempt it had, although "the original message is always acked"
  (`event-retry.handler.ts:12`).
* A downstream whose body stalls or breaks gives 500, since `response.json()` is
  outside the `try` whose comment names 504 and 502 (`downstream.client.ts:22`;
  `Timeout` of `Gateway`).

## 4. Proofs

For every value of the constants that the named assumptions allow (NULL is not a
user, a batch is at least one row, ...):

`WorkOrdersProofs` -- `TypeCorrect`, `AssigneeGuaranteed`, `CreatedFirst`,
`DualWriteClosed`, `CommitOrder`. The argument: `TypeInv` (types, and every
operation in flight but a create has an existing target); `LockInv` (two staged
operations never both hold the lock of one row, and a staged operation with
something to write holds it); `CheckInv` (what a staged operation is about to
write satisfies the CHECK constraint, which stays true because the locked row
cannot change under it); `IdInv` (ids are unique and below the sequence);
`CreatedInv` (an order has a row exactly when its `created` event is committed,
and that id is below all others of the order); `OrderInv` (a staged locked
operation has an id above those of the committed locked saves of its order).
Each is inductive given those before it.

`LifecycleProofs` -- `EventsMirrorTheTable`, `WorkIsAssigned` and `Refinement` (of
`WorkOrderLifecycle`), under `SerialSpec`: no two operations on
one order overlap. The invariant says that a copy is never stale (`Fresh`: it
still is what the endpoint makes of the row, and the columns to write are those
it changed), so a commit puts the copy in the place of the row (`CommitChange`),
and that a staged id is above those of the order's events.

`TriageProofs` -- `TriageKeepsTheChart` carries these three over to the triage and
the endpoints together. `NoTriageLost` needs no serialization: it holds for any
overlap (`TriageSpec`). It rests on `DeliveryInv` (while the handler saves, the
operation in flight is that save, so only its COMMIT makes the message done) and
on `TriageSeen` (a row that shows a triage, and a stale copy that might write one
back, has a `triaged` event), which is why the early return of `apply()` may
acknowledge. `TriageTypeCorrect` needs to count: the queue stays within its type
because the messages about an order that are queued and those that a process has
in hand are together no more than were published (`CountInv`), so requeuing only
gives back what a delivery took.

`OutboxRelayProofs` -- `TypeCorrect`, `ExclusiveClaims`, `NoEventLost`,
`AuditFollows`, `SingleRelayKeepsOrder`, `Refinement`, `DuplicatesArePaidFor` and
its corollary `DuplicatesPaidForWithKafka`. The invariant relates a
drain's program counter to the brokers: everything stamped is in both, the row
being recorded is in RabbitMQ, the row being stamped in both; todo and stamped
are disjoint, and committed. For one relay the order of a partition follows from
a stronger fact: every event of the order below a claimed row that is not in the
batch has already been appended. `DuplicatesArePaidFor` assumes that the producers
are connected; `boot_without_kafka` shows what happens otherwise, and the corollary
discharges the assumption for processes that only boot with Kafka at hand. A
duplicate may come long after the failure that causes it, since a drain whose
connection is gone goes on announcing. So the invariant `CauseInv` counts, for
every row, the times it was announced and the drains without a transaction that
are still going to announce it; all but one are paid for by failures, and that one
only if the row is stamped or announced under a transaction that may still commit.

`NotificationsProofs` -- `TypeCorrect`, `EveryEventAccountedFor` and
`ParkedIsExhausted` and `RepeatsAreCaused`, for any number of events, copies,
invocations and faults and any prefetch.
`EveryEventAccountedFor` rests on `SentInv` (what the store remembers, and what an
invocation is about to mark, has been sent): then an ack takes a copy away only
when the event is sent or when a republished copy, or the dead letter, has taken
its place, and requeuing returns what a crash takes from the invocations.
`NothingIsLost` alone is not inductive: a duplicate is acknowledged because of
what the store says. `ParkedIsExhausted` rests on `AttemptInv`: wherever a copy
with attempt k is, k - 1 sends of its event have been rejected, and k when its
invocation is in the catch block. Copies do multiply, so this counts rejections
per event and not per copy. `RepeatsAreCaused` balances an account for every event
(`AccountInv`): what was sent, and the invocations that are about to send, are at
most the rejected sends and the causes, plus one while the process knows of the
event or somebody is about to send it. A delivery adds to the one side only if the
store does not remember the event; if nobody is at it the one is free, and
otherwise it overlaps and is a cause. When the process forgets an event, that is a
cause, and the one is free again. What relays, brokers and retries do besides is on
neither side.

`AuditProofs` -- `TypeCorrect`, `NoRecordSkipped`, `FeedInTopicOrder`,
`FeedWithoutRepeats`, `FeedWithoutGaps` and `Refinement`, for any number of
partitions, replicas, records, faults and any page size. None of the properties
is inductive: a replica that lost its partition goes on, so what the group has
committed says nothing about who is inserting. The invariant `IInv` says of every
offset that anybody holds -- committed, next, or being worked on -- that all
records before it are in the log (`Behind`). An insert under way then has an id
above the rows of all events before its own, because they were there when it
took the id; and a row cannot be there before an event that precedes it
(`RowInPlace`). The two together give the order of the feed, however inserts
overtake each other. The reader's part rests on `PageOfFeed`: a page is below its
cursor, and everything from `nextCursor` up to the cursor is on it -- which needs
the largest and the smallest id of a finite set, and counts rows (`Newest` is
"fewer than n are newer"). Rows that appear below a cursor change nothing of it,
and rows that appear above were not there at the start. For the refinement, the
record being inserted has `Behind` at its offset, which is what `Record` of
`Projection` asks.

`GatewayProofs` -- `ChangesHaveAnAuthor`, `OutagesStayContained`,
`AnswersStayHonest`, `PagesMissWhatLeft`, `PagesRepeatWhatEntered` and
`GatewayTypeCorrect`, for any callers, wishes, headers, outages, times of creation,
page size and number of attempts. The assumptions: `AUTH_USERS` is a finite list of
users with a role, a page holds at least one row, the caps on wishes and attempts
are natural numbers. Every step but a login is one of a few shapes, which `Moves`
proves once: either a request turns (it is asked, passes a guard, is sent on, hears
from a service, ends) or one call goes on in a service. The invariants below are
shown shape by shape.

* `GatewayInv`: behind the guard a request's context names its user; a call is one
  of those its route makes, in the name of its user, whom the route admits, and
  under the id that is on its response -- which may be the id of other requests as
  well. A change copies this from its call, which gives `ChangesHaveAnAuthor`, even
  when the change commits long after its request was answered and the user asks
  for something else.
* `OutageInv`: only a service in trouble is answered for with 500 or more, or a
  save that was overtaken. That the assign behind the latter is another request's
  needs `HonestyInv`: a call that is still to save has changed nothing itself.
* `AllFresh`, `HonestyInv`: nobody works for a request that is still to come, and
  those who work for this one do what it asks. So at most one call will ever change
  anything for a request; before it replies nothing is made, and the reply tells
  which. What the gateway says with 2xx or 4xx it has from that reply; 5xx promises
  nothing. `AnswersAreHonest` alone is not inductive: it says nothing of calls that
  the gateway has given up on.
* `ReadInv`: take a reading that has come to the n first rows. Of the rows of the
  start that were not shown and have a `created_at` of their own, those that left
  the list, and those with fewer than n newer rows in it, are no more than have left
  since (`Missed`, in `Fits`): a row that leaves may let one other slip past the
  offset, and one that enters only pushes rows back. At the last page all have fewer
  than n rows before them, and the promise follows (`Complete`). For the repeats,
  where all `created_at` are distinct, the last row shown has moved back by no more
  than entered. `ReadInv` says this of the request, and of what a page under way
  would make of it, because rows come and go between the SELECT, the COUNT and the
  answer. A page itself is any set the database may return (`SliceRanks`).
* `GivenInv`, `CountInv`, `ProgressInv`: the types. The row numbers are the part that
  needs an argument: every one taken stands for a create of a request of its own, so
  they are at most one above the rows there were and the requests that have been
  issued and are not queued any more.

Every invariant that a passing run checks is stated by one of these theorems. Only
model-checked is the liveness (`EverythingIsRelayed`, `EverythingSettles`,
`EveryOrderIsTriaged`, `EverythingIsRecorded`, `EveryRequestIsAnswered`), which needs
fairness and ENABLED and so is beyond the prover.

## 5. Plan

Done, in this order: `WorkOrders` and `WorkOrderLifecycle`, `OutboxRelay` and
`AtLeastOnce`, `Notifications`, `Audit` and `Projection`, `Triage`, `Gateway`, each
with its safety proved, and its refinement where it has an abstract specification.

Left: `PropFlow`, the write side, relay and audit end to end, from `AtLeastOnce`
and `Projection`: the log ends up with every outbox event once.

## 6. Not modelled

* Health endpoints, metrics, logging: they ask and report, and change no state of
  the domain. OpenAPI decorators and the generated `api-types.ts`: no behaviour.
* Migrations, connection settings, `docker-compose` and `k8s` files: wiring. What
  they decide is a constant (two replicas, prefetch, attempts, batch size).
* Contents: the text of notifications, prompts and the classifier's schema,
  password comparison and token encoding, the strings the DTOs accept, the
  filters of the lists by columns that never change.
* The triage consumer's saves as a caller of the gateway would see them: `Triage`
  has them beside the endpoints, `Gateway` only the endpoints. Clocks that step
  back in the middle of a transaction: `createdAt` is whatever it is, but fixed.
* Records of the topic without a value, and those that are not JSON: no producer
  of this repository makes one.
