-------------------------------- MODULE Audit --------------------------------
(***************************************************************************)
(* The audit service: the replicas of one Kafka consumer group record the  *)
(* topic propflow.work-orders in the table audit_events, and the activity  *)
(* feed pages through that table, newest first.                            *)
(*                                                                         *)
(* A replica handles one record at a time: INSERT .. ON CONFLICT (event_id)*)
(* DO NOTHING, then on to the next offset, which it commits to the group   *)
(* later.  The id of a row is a bigserial, taken when the INSERT starts    *)
(* and before its row is visible, so ids of two replicas commit in any     *)
(* order.  A partition is handed to another replica while the one that had *)
(* it is still at work and knows nothing of it.                            *)
(*                                                                         *)
(* Kafka and kafkajs are external: a topic only grows, a group has one     *)
(* owner per partition, an owner starts at the committed offset, and only  *)
(* the owner can commit.                                                   *)
(***************************************************************************)
EXTENDS Naturals, Sequences, FiniteSets

CONSTANTS
    Events,       \* events the relay may publish
    Poison,       \* those the table refuses (correlation_id is varchar(64))
    Partitions,   \* each stands for the work orders hashed to it
    Replicas,     \* members of the consumer group
    FirstOwners,  \* how the group may give out the partitions at first
    Limit,        \* page size of the feed
    None,         \* no filter
    Filters,      \* what a reader may ask the feed for
    FaultKinds,   \* which faults may happen, of "crash", "database",
                  \* "rebalance" and "replay"
    MaxRecords,   \* bound: records of a partition
    MaxFaults     \* bound: faults in a behaviour

ASSUME PoisonAssumption == Poison \subseteq Events
ASSUME GroupAssumption == FirstOwners \subseteq [Partitions -> Replicas]
ASSUME FilterAssumption == None \notin Partitions
ASSUME ReaderAssumption == Filters \subseteq Partitions \cup {None}
ASSUME LimitAssumption == Limit \in Nat \ {0}
ASSUME BoundsAssumption == MaxRecords \in Nat /\ MaxFaults \in Nat

VARIABLES
    topic,       \* the records of each partition, duplicates included
    owner,       \* the replica the group has given each partition to
    committed,   \* the offset committed for each partition
    next,        \* the offset each replica handles next, 0 where it has none
    work,        \* the record each replica is at
    rows,        \* audit_events, as committed
    nextId,      \* next value of audit_events_id_seq
    reader,      \* somebody paging through the feed
    faults       \* faults so far

consumption == <<owner, committed, next, work>>
vars == <<topic, owner, committed, next, work, rows, nextId, reader, faults>>

-----------------------------------------------------------------------------
Offsets == 1 .. MaxRecords + 1

AuditEvent == [id : Nat \ {0}, event : Events, part : Partitions]

\* pc: "inserting" the id is taken, "recorded" the INSERT has returned.
Work == [pc : {"inserting", "recorded"}, part : Partitions,
         at : 1 .. MaxRecords, id : Nat \ {0}]

Idle == [pc |-> "idle"]

Recorded == {r.event : r \in rows}

\* Seeded faults: offsets count from 0, or a new group starts at the end.
BeginningAtZero == [p \in Partitions |-> 0]
Latest == [p \in Partitions |-> Len(topic[p]) + 1]

\* fromBeginning: a group without offsets starts with the first record.
Beginning == [p \in Partitions |-> 1]

Assigned(owners, offsets) ==
    [c \in Replicas |->
        [p \in Partitions |-> IF owners[p] = c THEN offsets[p] ELSE 0]]

NotReading == [pc |-> "idle", filter |-> None, cursor |-> 0,
               before |-> {}, page |-> {}, start |-> {}]

Fault(kind) ==
    /\ kind \in FaultKinds
    /\ faults < MaxFaults
    /\ faults' = faults + 1

Init ==
    /\ topic = [p \in Partitions |-> <<>>]
    /\ owner \in FirstOwners
    /\ committed = Beginning
    /\ next = Assigned(owner, committed)
    /\ work = [c \in Replicas |-> Idle]
    /\ rows = {}
    /\ nextId = 1
    /\ reader = NotReading
    /\ faults = 0

-----------------------------------------------------------------------------
(* The topic.                                                              *)

\* The relay appends an event, perhaps again.  Its key, the work order, always
\* leads to the same partition.
Publish(p, e) ==
    /\ Len(topic[p]) < MaxRecords
    /\ \A q \in Partitions \ {p} : \A i \in DOMAIN topic[q] : topic[q][i] # e
    /\ topic' = [topic EXCEPT ![p] = Append(@, e)]
    /\ UNCHANGED <<consumption, rows, nextId, reader, faults>>

-----------------------------------------------------------------------------
(* Ingestion.                                                              *)

\* Seeded fault: a record the table refuses is logged and passed over.
InsertOrSkip(c, p) ==
    /\ work[c] = Idle
    /\ next[c][p] \in DOMAIN topic[p]
    /\ IF topic[p][next[c][p]] \in Poison
       THEN /\ next' = [next EXCEPT ![c][p] = @ + 1]
            /\ UNCHANGED <<work, nextId>>
       ELSE /\ work' = [work EXCEPT ![c] = [pc |-> "inserting", part |-> p,
                                            at |-> next[c][p], id |-> nextId]]
            /\ nextId' = nextId + 1
            /\ UNCHANGED next
    /\ UNCHANGED <<topic, owner, committed, rows, reader, faults>>

\* Seeded fault: record() throws for an event it has recorded already.
InsertOrThrow(c, p) ==
    /\ work[c] = Idle
    /\ next[c][p] \in DOMAIN topic[p]
    /\ topic[p][next[c][p]] \notin Poison \cup Recorded
    /\ work' = [work EXCEPT ![c] = [pc |-> "inserting", part |-> p,
                                    at |-> next[c][p], id |-> nextId]]
    /\ nextId' = nextId + 1
    /\ UNCHANGED <<topic, owner, committed, next, rows, reader, faults>>

\* eachMessage: ingest.record() sends its INSERT.  A record the table refuses
\* throws, however often it is delivered, and nothing changes.
Insert(c, p) ==
    /\ work[c] = Idle
    /\ next[c][p] \in DOMAIN topic[p]
    /\ topic[p][next[c][p]] \notin Poison
    /\ work' = [work EXCEPT ![c] = [pc |-> "inserting", part |-> p,
                                    at |-> next[c][p], id |-> nextId]]
    /\ nextId' = nextId + 1
    /\ UNCHANGED <<topic, owner, committed, next, rows, reader, faults>>

\* Seeded fault: an upsert, which gives the event its new id.
StoredAnew(w) ==
    LET e == topic[w.part][w.at]
    IN  {r \in rows : r.event # e}
            \cup {[id |-> w.id, event |-> e, part |-> w.part]}

\* ON CONFLICT DO NOTHING: the unique index lets the first of several rows in.
Stored(w) ==
    LET e == topic[w.part][w.at]
    IN  IF e \in Recorded THEN rows
        ELSE rows \cup {[id |-> w.id, event |-> e, part |-> w.part]}

CommitInsert(c) ==
    /\ work[c].pc = "inserting"
    /\ rows' = Stored(work[c])
    /\ work' = [work EXCEPT ![c].pc = "recorded"]
    /\ UNCHANGED <<topic, owner, committed, next, nextId, reader, faults>>

\* The INSERT fails, or its answer is lost: eachMessage throws, and the record
\* is delivered again.
InsertFails(c) ==
    /\ work[c].pc = "inserting"
    /\ Fault("database")
    /\ rows' \in {rows, Stored(work[c])}
    /\ work' = [work EXCEPT ![c] = Idle]
    /\ UNCHANGED <<topic, owner, committed, next, nextId, reader>>

\* eachMessage has returned.
Resolve(c) ==
    /\ work[c].pc = "recorded"
    /\ next' = [next EXCEPT ![c][work[c].part] = work[c].at + 1]
    /\ work' = [work EXCEPT ![c] = Idle]
    /\ UNCHANGED <<topic, owner, committed, rows, nextId, reader, faults>>

\* autoCommit, which the group refuses to anybody but the owner.
CommitOffset(c, p) ==
    /\ owner[p] = c
    /\ next[c][p] > committed[p]
    /\ committed' = [committed EXCEPT ![p] = next[c][p]]
    /\ UNCHANGED <<topic, owner, next, work, rows, nextId, reader, faults>>

\* The group gives p to c, and the owner so far does not know.
Rebalance(c, p) ==
    /\ owner[p] # c
    /\ next[c][p] = 0
    /\ Fault("rebalance")
    /\ owner' = [owner EXCEPT ![p] = c]
    /\ next' = [next EXCEPT ![c][p] = committed[p]]
    /\ UNCHANGED <<topic, committed, work, rows, nextId, reader>>

\* A heartbeat tells it, between two records.
Revoke(c, p) ==
    /\ owner[p] # c
    /\ next[c][p] # 0
    /\ work[c] = Idle
    /\ next' = [next EXCEPT ![c][p] = 0]
    /\ UNCHANGED <<topic, owner, committed, work, rows, nextId, reader, faults>>

\* The replica dies and joins again: what it had not committed is replayed.
Crash(c) ==
    /\ Fault("crash")
    /\ work' = [work EXCEPT ![c] = Idle]
    /\ next' = [next EXCEPT ![c] = Assigned(owner, committed)[c]]
    /\ UNCHANGED <<topic, owner, committed, rows, nextId, reader>>

\* Deployed with a fresh AUDIT_CONSUMER_GROUP: the history streams in again.
Replay ==
    /\ Fault("replay")
    /\ committed' = Beginning
    /\ next' = Assigned(owner, Beginning)
    /\ work' = [c \in Replicas |-> Idle]
    /\ UNCHANGED <<topic, owner, rows, nextId, reader>>

-----------------------------------------------------------------------------
(* The activity feed.                                                      *)

Newest(S, n) == {r \in S : Cardinality({q \in S : q.id > r.id}) < n}

Matching(filter) == {r \in rows : filter = None \/ r.part = filter}

\* Seeded faults: the cursor of a page is the row after it, or is inclusive.
CursorIsNextRow(filter, cursor) ==
    LET found == {r \in Matching(filter) : cursor = 0 \/ r.id < cursor}
        fetched == Newest(found, Limit + 1)
    IN  [data |-> Newest(fetched, Limit),
         nextCursor |-> IF Cardinality(fetched) > Limit
                        THEN (CHOOSE r \in fetched : \A q \in fetched : r.id <= q.id).id
                        ELSE 0]

CursorInclusive(filter, cursor) ==
    LET found == {r \in Matching(filter) : cursor = 0 \/ r.id <= cursor}
        fetched == Newest(found, Limit + 1)
        page == Newest(fetched, Limit)
    IN  [data |-> page,
         nextCursor |-> IF Cardinality(fetched) > Limit
                        THEN (CHOOSE r \in page : \A q \in page : r.id <= q.id).id
                        ELSE 0]

\* ActivityFeedService.list(): one SELECT of Limit + 1 rows below the cursor.
List(filter, cursor) ==
    LET found == {r \in Matching(filter) : cursor = 0 \/ r.id < cursor}
        fetched == Newest(found, Limit + 1)
        page == Newest(fetched, Limit)
    IN  [data |-> page,
         nextCursor |-> IF Cardinality(fetched) > Limit
                        THEN (CHOOSE r \in page : \A q \in page : r.id <= q.id).id
                        ELSE 0]

\* GET /activity: the first page, or the page the last nextCursor leads to.
\* start, page and before are history: what was in the log at the first page,
\* what the last page showed and what those before it did.
ReadPage(filter, cursor) ==
    LET answer == List(filter, cursor)
    IN  reader' =
          [pc     |-> IF answer.nextCursor = 0 THEN "done" ELSE "paging",
           filter |-> filter,
           cursor |-> answer.nextCursor,
           before |-> reader.before \cup reader.page,
           page   |-> answer.data,
           start  |-> IF cursor = 0 THEN Matching(filter) ELSE reader.start]

FirstPage ==
    /\ reader.pc = "idle"
    /\ \E filter \in Filters : ReadPage(filter, 0)
    /\ UNCHANGED <<topic, consumption, rows, nextId, faults>>

NextPage ==
    /\ reader.pc = "paging"
    /\ ReadPage(reader.filter, reader.cursor)
    /\ UNCHANGED <<topic, consumption, rows, nextId, faults>>

-----------------------------------------------------------------------------
ReplicaStep(c) == CommitInsert(c) \/ Resolve(c)

Next ==
    \/ \E p \in Partitions, e \in Events : Publish(p, e)
    \/ \E c \in Replicas, p \in Partitions :
          Insert(c, p) \/ CommitOffset(c, p) \/ Rebalance(c, p) \/ Revoke(c, p)
    \/ \E c \in Replicas : ReplicaStep(c) \/ InsertFails(c) \/ Crash(c)
    \/ Replay
    \/ FirstPage
    \/ NextPage

Spec == Init /\ [][Next]_vars

\* A replica is handed the records of each partition it has, between those of
\* its others, and its statements end.
Fairness ==
    /\ \A c \in Replicas : WF_vars(ReplicaStep(c))
    /\ \A c \in Replicas, p \in Partitions : SF_vars(Insert(c, p))

FairSpec == Spec /\ Fairness

-----------------------------------------------------------------------------
TypeOK ==
    /\ topic \in [Partitions -> Seq(Events)]
    /\ \A p \in Partitions : Len(topic[p]) <= MaxRecords
    /\ owner \in [Partitions -> Replicas]
    /\ committed \in [Partitions -> Offsets]
    /\ next \in [Replicas -> [Partitions -> Offsets \cup {0}]]
    /\ work \in [Replicas -> Work \cup {Idle}]
    /\ rows \subseteq AuditEvent
    /\ nextId \in Nat \ {0}
    /\ reader \in [pc : {"idle", "paging", "done"},
                   filter : Partitions \cup {None}, cursor : Nat,
                   before : SUBSET AuditEvent, page : SUBSET AuditEvent,
                   start : SUBSET AuditEvent]
    /\ faults \in Nat

\* Whatever dies, moves or is redelivered, the group never gets past a record
\* that is not in the log -- also not past one the table refuses.
NothingIsSkipped ==
    \A p \in Partitions : \A i \in 1 .. committed[p] - 1 :
        topic[p][i] \in Recorded

\* e was in the topic before any record of f.
Precedes(e, f, p) ==
    \E i \in DOMAIN topic[p] :
        topic[p][i] = e /\ \A j \in 1 .. i : topic[p][j] # f

\* The feed of a work order tells its story in the order in which it was first
\* published, although ids are taken before rows are visible, two replicas may
\* be at one partition and every record may be replayed.
FeedKeepsTopicOrder ==
    \A r, s \in rows :
        r.part = s.part /\ Precedes(r.event, s.event, r.part) => r.id < s.id

\* Events appended between two requests never shift or duplicate rows across
\* pages (activity-feed.service.ts): a page is below all pages before it,
\* although the log grows between two pages -- with several partitions also
\* below a cursor that was handed out already.
FeedNeverRepeats ==
    \A r \in reader.page, s \in reader.before : r.id < s.id

\* A reader who follows nextCursor to the end has seen everything that was in
\* the log when he began.
FeedIsComplete ==
    reader.pc = "done" => reader.start \subseteq reader.before \cup reader.page

\* The table is the projection of the topic, whoever fills it.
ProjectionOfTopic == INSTANCE Projection WITH recorded <- Recorded

ImplementsProjection == ProjectionOfTopic!Spec

\* No record the table refuses is in the way of e.
Unobstructed(e, p) ==
    \E i \in DOMAIN topic[p] :
        /\ topic[p][i] = e
        /\ \A j \in 1 .. i : topic[p][j] \notin Poison

\* Every event is recorded in the end, unless a record that is refused for ever
\* is in front of it.
EverythingIsRecorded ==
    \A p \in Partitions, e \in Events :
        Unobstructed(e, p) ~> e \in Recorded

=============================================================================
