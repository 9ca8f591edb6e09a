------------------------------ MODULE AuditProofs ------------------------------
(***************************************************************************)
(* Proofs about Audit, for any number of events, partitions, replicas,     *)
(* records and faults and any page size.                                   *)
(***************************************************************************)
EXTENDS Audit, Integers, NumberSets, TLAPS

USE PoisonAssumption, FilterAssumption, LimitAssumption, BoundsAssumption

-----------------------------------------------------------------------------
(* The pages of the feed                                                    *)

\* Rows of the log, as the pages see them.
Log(S) == /\ S \subseteq AuditEvent
          /\ IsFiniteSet(S)
          /\ \A r \in S : r.id < nextId

NewerRows(S, r) == {q \in S : q.id > r.id}

LEMMA NewerCount ==
    ASSUME NEW S, IsFiniteSet(S), NEW r
    PROVE  /\ IsFiniteSet(NewerRows(S, r))
           /\ Cardinality(NewerRows(S, r)) \in Nat
<1>1. NewerRows(S, r) \in SUBSET S
    BY DEF NewerRows
<1>2. IsFiniteSet(NewerRows(S, r))
    BY <1>1, FS_Subset
<1> QED
    BY <1>2, FS_CardinalityType

\* The newest rows of a set are its newest n, so nothing newer is left out.
LEMMA NewestIsUpward ==
    ASSUME NEW S, Log(S), NEW n \in Nat, NEW p \in Newest(S, n),
           NEW r \in S, p.id <= r.id
    PROVE  r \in Newest(S, n)
<1>1. p \in S /\ p.id \in Nat /\ r.id \in Nat /\ \A q \in S : q.id \in Nat
    BY DEF Newest, Log, AuditEvent
<1>2. NewerRows(S, r) \in SUBSET NewerRows(S, p)
    BY <1>1 DEF NewerRows
<1>3. /\ Cardinality(NewerRows(S, r)) <= Cardinality(NewerRows(S, p))
      /\ Cardinality(NewerRows(S, r)) \in Nat /\ Cardinality(NewerRows(S, p)) \in Nat
    BY <1>2, NewerCount, FS_Subset DEF Log
<1>4. Cardinality(NewerRows(S, p)) < n
    BY DEF Newest, NewerRows
<1>5. Cardinality(NewerRows(S, r)) < n
    BY <1>3, <1>4
<1> QED
    BY <1>5 DEF Newest, NewerRows

\* If they are fewer than asked for, they are all there are.
LEMMA NewestMayBeAll ==
    ASSUME NEW S, Log(S), nextId \in Nat, NEW n \in Nat,
           Cardinality(Newest(S, n)) < n
    PROVE  Newest(S, n) = S
<1> DEFINE N == Newest(S, n)
           left == {k \in Nat : \E q \in S \ N : q.id = k}
<1>1. SUFFICES ASSUME NEW x \in S, x \notin N
               PROVE  FALSE
    BY DEF Newest
<1>2. N \in SUBSET S
    BY DEF Newest
<1>3. \A q \in S : q.id \in Nat /\ q.id <= nextId
    BY DEF Log, AuditEvent
<1>4. left \in SUBSET Nat /\ left # {} /\ \A k \in left : k <= nextId
    BY <1>1, <1>3
<1>5. PICK k \in left : \A j \in left : j <= k
    <2> HIDE DEF left
    <2> QED
        BY <1>4, GreatestElement
<1>6. PICK r \in S \ N : r.id = k
    BY <1>5
<1>7. NewerRows(S, r) \in SUBSET N
    <2>1. ASSUME NEW q \in S, q.id > r.id, q \notin N
          PROVE  FALSE
        <3>1. q.id \in left
            BY <2>1, <1>3
        <3> QED
            BY <3>1, <2>1, <1>5, <1>6, <1>3
    <2> QED
        BY <2>1 DEF NewerRows
<1>8. IsFiniteSet(N) /\ Cardinality(N) \in Nat
    BY <1>2, FS_Subset, FS_CardinalityType DEF Log
<1>9. /\ Cardinality(NewerRows(S, r)) <= Cardinality(N)
      /\ Cardinality(NewerRows(S, r)) \in Nat
    BY <1>7, <1>8, FS_Subset, NewerCount DEF Log
<1>10. ~ (Cardinality(NewerRows(S, r)) < n)
    BY <1>6 DEF Newest, NewerRows
<1> QED
    BY <1>8, <1>9, <1>10

LEMMA SubsetIsLog ==
    ASSUME NEW S, Log(S), NEW T \in SUBSET S
    PROVE  Log(T)
<1>1. IsFiniteSet(T)
    BY FS_Subset DEF Log
<1> QED
    BY <1>1 DEF Log

\* What a page is: below the cursor, and nothing is left out between the
\* cursor and nextCursor, or below the cursor if there is no nextCursor.
LEMMA PageOfFeed ==
    ASSUME Log(rows), nextId \in Nat, NEW filter, NEW cursor \in Nat
    PROVE  LET answer == List(filter, cursor)
               found == {r \in Matching(filter) : cursor = 0 \/ r.id < cursor}
           IN  /\ answer.data \subseteq found
               /\ answer.nextCursor \in Nat
               /\ answer.nextCursor = 0 => found = answer.data
               /\ answer.nextCursor # 0 =>
                      /\ \E r \in answer.data : answer.nextCursor = r.id
                      /\ \A r \in answer.data : answer.nextCursor <= r.id
                      /\ \A r \in found :
                             answer.nextCursor <= r.id => r \in answer.data
<1> DEFINE found == {r \in Matching(filter) : cursor = 0 \/ r.id < cursor}
           fetched == Newest(found, Limit + 1)
           page == Newest(fetched, Limit)
           least == CHOOSE r \in page : \A q \in page : r.id <= q.id
           answer == List(filter, cursor)
<1>1. /\ found \subseteq rows /\ fetched \subseteq found /\ page \subseteq fetched
    BY DEF Matching, Newest
<1>2. Log(found) /\ Log(fetched) /\ Log(page)
    BY <1>1, SubsetIsLog
<1>3. \A r \in found : r.id \in Nat \ {0} /\ r.id <= nextId
    BY <1>2 DEF Log, AuditEvent
<1>4. answer = [data |-> page,
                nextCursor |-> IF Cardinality(fetched) > Limit THEN least.id ELSE 0]
    BY DEF List
<1>5. Limit \in Nat /\ Limit + 1 \in Nat /\ Limit > 0
    OBVIOUS
<1>6. Cardinality(fetched) \in Nat /\ Cardinality(page) \in Nat
    BY <1>2, FS_CardinalityType DEF Log
<1> HIDE DEF found, fetched, page, least, answer
<1>7. CASE Cardinality(fetched) > Limit
    <2>1. fetched # {}
        BY <1>5, <1>6, <1>7, FS_EmptySet
    <2>2. PICK t \in fetched : \A q \in fetched : q.id <= t.id
        <3> DEFINE ids == {k \in Nat : \E q \in fetched : q.id = k}
        <3>1. ids \in SUBSET Nat /\ ids # {} /\ \A k \in ids : k <= nextId
            BY <2>1, <1>1, <1>3
        <3>2. PICK k \in ids : \A j \in ids : j <= k
            <4> HIDE DEF ids
            <4> QED
                BY <3>1, GreatestElement
        <3>3. PICK q \in fetched : q.id = k
            BY <3>2
        <3>4. \A x \in fetched : x.id \in ids
            BY <1>1, <1>3
        <3> QED
            BY <3>2, <3>3, <3>4
    <2>3. t \in page
        <3>1. {q \in fetched : q.id > t.id} = {}
            BY <2>2, <1>1, <1>3
        <3>2. Cardinality({q \in fetched : q.id > t.id}) = 0
            BY <3>1, FS_EmptySet
        <3> QED
            BY <3>2, <1>5 DEF page, Newest
    <2>4. \E r \in page : \A q \in page : r.id <= q.id
        <3> DEFINE ids == {k \in Nat : \E q \in page : q.id = k}
        <3>1. ids \in SUBSET Nat /\ ids # {}
            BY <2>3, <1>1, <1>3
        <3>2. PICK k \in ids : \A j \in ids : k <= j
            <4> HIDE DEF ids
            <4> QED
                BY <3>1, LeastElement
        <3>3. PICK q \in page : q.id = k
            BY <3>2
        <3>4. \A x \in page : x.id \in ids
            BY <1>1, <1>3
        <3> QED
            BY <3>2, <3>3, <3>4
    <2>5. least \in page /\ \A q \in page : least.id <= q.id
        BY <2>4 DEF least
    <2>6. least.id \in Nat \ {0}
        BY <2>5, <1>1, <1>3
    <2>7. ASSUME NEW r \in found, least.id <= r.id
          PROVE  r \in page
        <3>1. r \in fetched
            <4>1. least \in Newest(found, Limit + 1)
                BY <2>5, <1>1 DEF fetched
            <4> QED
                BY <4>1, <2>7, <1>2, <1>5, NewestIsUpward DEF fetched
        <3>2. least \in Newest(fetched, Limit)
            BY <2>5 DEF page
        <3> QED
            BY <3>1, <3>2, <2>7, <1>2, <1>5, NewestIsUpward DEF page
    <2>8. answer.data = page /\ answer.nextCursor = least.id
        BY <1>4, <1>7
    <2> QED
        BY <2>5, <2>6, <2>7, <2>8, <1>1 DEF answer, found
<1>8. CASE ~ (Cardinality(fetched) > Limit)
    <2>1. fetched = found
        <3>1. Cardinality(Newest(found, Limit + 1)) < Limit + 1
            BY <1>5, <1>6, <1>8 DEF fetched
        <3> QED
            BY <3>1, <1>2, <1>5, NewestMayBeAll DEF fetched, Log
    <2>2. ASSUME NEW r \in fetched
          PROVE  r \in page
        <3> DEFINE above == {q \in fetched : q.id > r.id}
        <3>1. above \in SUBSET (fetched \ {r})
            BY <1>1, <1>3
        <3>2. /\ IsFiniteSet(fetched \ {r})
              /\ Cardinality(fetched \ {r}) = Cardinality(fetched) - 1
            BY <1>2, FS_RemoveElement DEF Log
        <3>3. Cardinality(above) \in Nat /\ Cardinality(above) <= Cardinality(fetched) - 1
            BY <3>1, <3>2, FS_Subset, FS_CardinalityType
        <3>4. Cardinality(above) < Limit
            BY <3>3, <1>5, <1>6, <1>8
        <3> QED
            BY <3>4 DEF page, Newest
    <2>3. answer.data = page /\ answer.nextCursor = 0
        BY <1>4, <1>8
    <2> QED
        BY <2>1, <2>2, <2>3, <1>1 DEF answer, found
<1> QED
    BY <1>7, <1>8

-----------------------------------------------------------------------------
(* The inductive invariant                                                  *)

\* All records of p before offset n are in the log.
Behind(p, n) ==
    \A i \in 1 .. n - 1 : i \in DOMAIN topic[p] /\ topic[p][i] \in Recorded

\* Nobody is ahead of the log: neither the group, nor a replica that believes
\* to be at a partition, nor one that is at work there.
OffsetsBehind ==
    /\ \A p \in Partitions : Behind(p, committed[p])
    /\ \A c \in Replicas, p \in Partitions : Behind(p, next[c][p])

\* An insert under way has an id above those of the events before it.
WorkBehind(w) ==
    /\ w.at \in DOMAIN topic[w.part]
    /\ Behind(w.part, w.at)
    /\ w.pc = "recorded" => topic[w.part][w.at] \in Recorded
    /\ w.id < nextId
    /\ w.pc = "inserting" =>
           \A r \in rows, j \in 1 .. w.at - 1 :
               r.event = topic[w.part][j] => r.id < w.id

WorksBehind == \A c \in Replicas : work[c] # Idle => WorkBehind(work[c])

\* A row is there after all that its event was published after.
RowInPlace(r) ==
    \E i \in DOMAIN topic[r.part] :
        topic[r.part][i] = r.event /\ Behind(r.part, i)

RowsInPlace == Log(rows) /\ \A r \in rows : RowInPlace(r)

\* Where the reader stands.
ReaderInv ==
    /\ reader.start \subseteq Matching(reader.filter)
    /\ reader.pc = "idle" =>
           reader.before = {} /\ reader.page = {} /\ reader.start = {}
    /\ reader.pc = "paging" =>
           /\ reader.cursor # 0
           /\ \A r \in reader.before \cup reader.page : reader.cursor <= r.id
           /\ \A r \in reader.start :
                  reader.cursor <= r.id => r \in reader.before \cup reader.page
    /\ FeedNeverRepeats
    /\ FeedIsComplete

IngestInv == OffsetsBehind /\ WorksBehind /\ RowsInPlace /\ FeedKeepsTopicOrder

IInv == TypeOK /\ IngestInv /\ ReaderInv

-----------------------------------------------------------------------------
LEMMA InitIInv == Init => IInv
<1> SUFFICES ASSUME Init
             PROVE  IInv
    OBVIOUS
<1> USE DEF Init
<1>1. Recorded = {} /\ \A filter : Matching(filter) = {}
    BY DEF Recorded, Matching
<1>2. TypeOK
    <2>0. owner \in [Partitions -> Replicas]
        BY GroupAssumption
    <2>1. topic \in [Partitions -> Seq(Events)] /\ \A p \in Partitions : Len(topic[p]) = 0
        OBVIOUS
    <2>2. committed \in [Partitions -> Offsets]
        BY DEF Beginning, Offsets
    <2>3. next \in [Replicas -> [Partitions -> Offsets \cup {0}]]
        BY <2>2 DEF Assigned
    <2>4. reader \in [pc : {"idle", "paging", "done"},
                      filter : Partitions \cup {None}, cursor : Nat,
                      before : SUBSET AuditEvent, page : SUBSET AuditEvent,
                      start : SUBSET AuditEvent]
        BY DEF NotReading
    <2> QED
        BY <2>0, <2>1, <2>2, <2>3, <2>4 DEF TypeOK
<1>3. OffsetsBehind
    <2>1. \A p \in Partitions : committed[p] = 1
        BY DEF Beginning
    <2>2. \A c \in Replicas, p \in Partitions : next[c][p] \in {0, 1}
        BY <2>1 DEF Assigned
    <2> QED
        BY <2>1, <2>2 DEF OffsetsBehind, Behind
<1>4. WorksBehind
    BY DEF WorksBehind
<1>5. RowsInPlace /\ FeedKeepsTopicOrder
    BY FS_EmptySet DEF RowsInPlace, Log, FeedKeepsTopicOrder
<1>6. ReaderInv
    BY <1>1 DEF ReaderInv, NotReading, FeedNeverRepeats, FeedIsComplete
<1> QED
    BY <1>2, <1>3, <1>4, <1>5, <1>6 DEF IInv, IngestInv

-----------------------------------------------------------------------------
(* What every step preserves                                                *)

\* The topic and the log only grow.
Grows ==
    /\ \A p \in Partitions : \A i \in DOMAIN topic[p] :
          i \in DOMAIN topic'[p] /\ topic'[p][i] = topic[p][i]
    /\ rows \subseteq rows'

LEMMA BehindGrows ==
    ASSUME Grows, NEW p \in Partitions, NEW n, Behind(p, n)
    PROVE  Behind(p, n)'
<1>1. Recorded \subseteq Recorded'
    BY DEF Grows, Recorded
<1> QED
    BY <1>1 DEF Grows, Behind

\* Somebody inserts a row, or finds that its event is there already.
LEMMA StoredRows ==
    ASSUME IInv, NEW w \in Work, WorkBehind(w), w.pc = "inserting",
           rows' = Stored(w), UNCHANGED <<topic, nextId>>
    PROVE  /\ Grows
           /\ topic[w.part][w.at] \in Recorded'
           /\ (RowsInPlace /\ FeedKeepsTopicOrder)'
           /\ \A v \in Work : WorkBehind(v) => WorkBehind(v)'
<1> DEFINE e == topic[w.part][w.at]
           new == [id |-> w.id, event |-> e, part |-> w.part]
<1>1. w.at \in DOMAIN topic[w.part] /\ topic[w.part] \in Seq(Events)
    BY DEF IInv, TypeOK, WorkBehind, Work
<1>2. new \in AuditEvent /\ e \in Events
    BY <1>1 DEF Work, AuditEvent
<1>3. CASE e \in Recorded
    <2>1. UNCHANGED <<topic, nextId, rows>>
        BY <1>3 DEF Stored
    <2>2. Recorded' = Recorded
        BY <2>1 DEF Recorded
    <2>3. Grows
        BY <2>1 DEF Grows
    <2>4. (RowsInPlace /\ FeedKeepsTopicOrder)'
        BY <2>1, <2>2 DEF IInv, IngestInv, RowsInPlace, Log, RowInPlace, Behind,
                          FeedKeepsTopicOrder, Precedes
    <2>5. \A v \in Work : WorkBehind(v) => WorkBehind(v)'
        BY <2>1, <2>2 DEF WorkBehind, Behind
    <2> QED
        BY <1>3, <2>2, <2>3, <2>4, <2>5
<1>4. CASE e \notin Recorded
    <2>1. rows' = rows \cup {new}
        BY <1>4 DEF Stored
    <2>2. Grows /\ e \in Recorded'
        BY <2>1 DEF Grows, Recorded
    <2>3. \A r \in rows : r.event \in Recorded
        BY DEF Recorded
    <2>4. \A n : \A p \in Partitions : Behind(p, n) => Behind(p, n)'
        BY <2>2, BehindGrows
    <2>5. Log(rows)'
        <3>1. IsFiniteSet(rows')
            BY <2>1, FS_AddElement DEF IInv, IngestInv, RowsInPlace, Log
        <3> QED
            BY <3>1, <2>1, <1>1, <1>2 DEF IInv, IngestInv, RowsInPlace, Log, WorkBehind
    <2>6. \A r \in rows' : RowInPlace(r)'
        <3>1. ASSUME NEW r \in rows
              PROVE  RowInPlace(r)'
            <4>1. RowInPlace(r) /\ r.part \in Partitions
                BY DEF IInv, IngestInv, RowsInPlace, Log, AuditEvent
            <4> QED
                BY <4>1, <2>4 DEF RowInPlace
        <3>2. RowInPlace(new)'
            <4>1. w.part \in Partitions /\ Behind(w.part, w.at)
                BY <1>1 DEF Work, WorkBehind
            <4>2. Behind(w.part, w.at)'
                BY <4>1, <2>4
            <4> QED
                BY <4>2, <1>1 DEF RowInPlace, Behind
        <3> QED
            BY <3>1, <3>2, <2>1
    <2>7. FeedKeepsTopicOrder'
        <3>1. SUFFICES ASSUME NEW r \in rows', NEW s \in rows', r.part = s.part,
                              NEW i \in DOMAIN topic[r.part],
                              topic[r.part][i] = r.event,
                              \A j \in 1 .. i : topic[r.part][j] # s.event
                       PROVE  r.id < s.id
            BY DEF FeedKeepsTopicOrder, Precedes
        <3>2. r.part \in Partitions /\ topic[r.part] \in Seq(Events) /\ i \in Nat \ {0}
            BY <2>5 DEF IInv, TypeOK, Log, AuditEvent
        <3>3. CASE r \in rows /\ s \in rows
            BY <3>1, <3>3 DEF IInv, IngestInv, FeedKeepsTopicOrder, Precedes
        <3>4. CASE r \in rows /\ s = new
            \* Its event was recorded when the new row got its id.
            <4>1. topic[w.part][w.at] = e /\ w.at \in Nat \ {0}
                BY <1>1 DEF Work
            <4>2. ~ (w.at \in 1 .. i)
                BY <3>1, <3>4, <4>1
            <4>3. i \in 1 .. w.at - 1
                BY <3>2, <4>1, <4>2
            <4> QED
                BY <3>1, <3>4, <4>3, <1>1 DEF WorkBehind
        <3>5. CASE r = new /\ s \in rows
            \* It could not be there without the one before it.
            <4>1. PICK k \in DOMAIN topic[s.part] :
                      topic[s.part][k] = s.event /\ Behind(s.part, k)
                BY <3>5 DEF IInv, IngestInv, RowsInPlace, RowInPlace
            <4>2. k \in Nat \ {0} /\ ~ (k \in 1 .. i)
                BY <3>1, <3>2, <4>1
            <4>3. i \in 1 .. k - 1
                BY <3>2, <4>2
            <4>4. r.event \in Recorded
                BY <3>1, <4>1, <4>3 DEF Behind
            <4> QED
                BY <4>4, <3>5, <1>4
        <3>6. CASE r = new /\ s = new
            BY <3>1, <3>2, <3>6
        <3> QED
            BY <2>1, <3>3, <3>4, <3>5, <3>6
    <2>8. ASSUME NEW v \in Work, WorkBehind(v)
          PROVE  WorkBehind(v)'
        <3>2. Behind(v.part, v.at)'
            BY <2>8, <2>4 DEF WorkBehind, Work
        <3>3. Recorded \subseteq Recorded'
            BY <2>1 DEF Recorded
        <3>4. ASSUME v.pc = "inserting", NEW r \in rows', NEW j \in 1 .. v.at - 1,
                     r.event = topic[v.part][j]
              PROVE  r.id < v.id
            <4>1. r.event \in Recorded
                BY <2>8, <3>4 DEF WorkBehind, Behind
            <4>2. r \in rows
                BY <4>1, <1>4, <2>1
            <4> QED
                BY <2>8, <3>4, <4>2 DEF WorkBehind
        <3> QED
            BY <2>8, <3>2, <3>3, <3>4 DEF WorkBehind
    <2> QED
        BY <2>2, <2>5, <2>6, <2>7, <2>8 DEF RowsInPlace
<1> QED
    BY <1>3, <1>4

-----------------------------------------------------------------------------
(* Type correctness                                                         *)

LEMMA ReadPageTyped ==
    ASSUME IInv, NEW filter \in Partitions \cup {None}, NEW cursor \in Nat,
           ReadPage(filter, cursor)
    PROVE  reader' \in [pc : {"idle", "paging", "done"},
                        filter : Partitions \cup {None}, cursor : Nat,
                        before : SUBSET AuditEvent, page : SUBSET AuditEvent,
                        start : SUBSET AuditEvent]
<1>1. Log(rows) /\ nextId \in Nat /\ rows \subseteq AuditEvent
    BY DEF IInv, TypeOK, IngestInv, RowsInPlace
<1>2. /\ List(filter, cursor).nextCursor \in Nat
      /\ List(filter, cursor).data \subseteq Matching(filter)
    BY <1>1, PageOfFeed
<1>3. Matching(filter) \subseteq AuditEvent
    BY <1>1 DEF Matching
<1>4. /\ reader.before \in SUBSET AuditEvent /\ reader.page \in SUBSET AuditEvent
      /\ reader.start \in SUBSET AuditEvent
    BY DEF IInv, TypeOK
<1> QED
    BY <1>2, <1>3, <1>4 DEF ReadPage

LEMMA TypeStep == IInv /\ [Next]_vars => TypeOK'
<1> SUFFICES ASSUME IInv, [Next]_vars
             PROVE  TypeOK'
    OBVIOUS
<1> USE DEF TypeOK, consumption
<1>0. TypeOK
    BY DEF IInv
<1>1. ASSUME NEW p \in Partitions, NEW e \in Events, Publish(p, e)
      PROVE  TypeOK'
    <2>1. topic[p] \in Seq(Events) /\ Len(topic[p]) < MaxRecords
        BY <1>0, <1>1 DEF Publish
    <2>2. /\ Append(topic[p], e) \in Seq(Events)
          /\ Len(Append(topic[p], e)) = Len(topic[p]) + 1
        BY <2>1
    <2>3. topic' \in [Partitions -> Seq(Events)]
        BY <2>2, <1>0, <1>1 DEF Publish
    <2>4. \A q \in Partitions : Len(topic'[q]) <= MaxRecords
        BY <2>1, <2>2, <1>0, <1>1 DEF Publish
    <2> QED
        BY <1>0, <1>1, <2>3, <2>4 DEF Publish
<1>2. ASSUME NEW c \in Replicas, NEW p \in Partitions, Insert(c, p)
      PROVE  TypeOK'
    <2>1. next[c][p] \in 1 .. MaxRecords
        BY <1>0, <1>2 DEF Insert
    <2>2. [pc |-> "inserting", part |-> p, at |-> next[c][p], id |-> nextId] \in Work
        BY <2>1, <1>0 DEF Work
    <2>3. work' \in [Replicas -> Work \cup {Idle}]
        BY <2>2, <1>0, <1>2 DEF Insert
    <2> QED
        BY <1>0, <1>2, <2>3 DEF Insert
<1>3. ASSUME NEW c \in Replicas, NEW p \in Partitions, CommitOffset(c, p)
      PROVE  TypeOK'
    <2>1. next[c][p] \in Offsets \cup {0} /\ committed[p] \in Offsets
        BY <1>0
    <2>2. next[c][p] \in Offsets
        BY <2>1, <1>3 DEF CommitOffset, Offsets
    <2> QED
        BY <1>0, <1>3, <2>2 DEF CommitOffset
<1>4. ASSUME NEW c \in Replicas, NEW p \in Partitions, Rebalance(c, p)
      PROVE  TypeOK'
    BY <1>0, <1>4 DEF Rebalance, Fault
<1>5. ASSUME NEW c \in Replicas, NEW p \in Partitions, Revoke(c, p)
      PROVE  TypeOK'
    BY <1>0, <1>5 DEF Revoke
<1>6. ASSUME NEW c \in Replicas, work[c].pc = "inserting"
      PROVE  /\ work[c] \in Work
             /\ [work[c] EXCEPT !.pc = "recorded"] \in Work
             /\ Stored(work[c]) \subseteq AuditEvent
    <2>1. work[c] \in Work
        BY <1>0, <1>6 DEF Idle
    <2>2. WorkBehind(work[c])
        BY <1>6, <2>1 DEF IInv, IngestInv, WorksBehind, Idle
    <2>3. topic[work[c].part][work[c].at] \in Events
        BY <1>0, <2>1, <2>2 DEF Work, WorkBehind
    <2>4. [work[c] EXCEPT !.pc = "recorded"] \in Work
        BY <2>1 DEF Work
    <2>5. Stored(work[c]) \subseteq AuditEvent
        <3> DEFINE w == work[c]
        <3>1. [id |-> w.id, event |-> topic[w.part][w.at], part |-> w.part] \in AuditEvent
            BY <2>1, <2>3 DEF Work, AuditEvent
        <3> QED
            BY <1>0, <3>1 DEF Stored
    <2> QED
        BY <2>1, <2>4, <2>5
<1>7. ASSUME NEW c \in Replicas, CommitInsert(c)
      PROVE  TypeOK'
    <2>1. work' \in [Replicas -> Work \cup {Idle}] /\ rows' \subseteq AuditEvent
        BY <1>0, <1>6, <1>7 DEF CommitInsert
    <2> QED
        BY <1>0, <1>7, <2>1 DEF CommitInsert
<1>8. ASSUME NEW c \in Replicas, InsertFails(c)
      PROVE  TypeOK'
    <2>1. rows' \subseteq AuditEvent
        BY <1>0, <1>6, <1>8 DEF InsertFails
    <2>2. faults' \in Nat
        BY <1>0, <1>8 DEF InsertFails, Fault
    <2> QED
        BY <1>0, <1>8, <2>1, <2>2 DEF InsertFails
<1>9. ASSUME NEW c \in Replicas, Resolve(c)
      PROVE  TypeOK'
    <2>1. work[c] \in Work
        BY <1>0, <1>9 DEF Resolve, Idle
    <2>2. work[c].at + 1 \in Offsets /\ work[c].part \in Partitions
        BY <2>1 DEF Work, Offsets
    <2>3. next' \in [Replicas -> [Partitions -> Offsets \cup {0}]]
        BY <1>0, <1>9, <2>2 DEF Resolve
    <2> QED
        BY <1>0, <1>9, <2>3 DEF Resolve
<1>10. Assigned(owner, committed) \in [Replicas -> [Partitions -> Offsets \cup {0}]]
    BY <1>0 DEF Assigned
<1>11. ASSUME NEW c \in Replicas, Crash(c)
       PROVE  TypeOK'
    <2>1. next' \in [Replicas -> [Partitions -> Offsets \cup {0}]]
        BY <1>0, <1>10, <1>11 DEF Crash
    <2>2. faults' \in Nat
        BY <1>0, <1>11 DEF Crash, Fault
    <2> QED
        BY <1>0, <1>11, <2>1, <2>2 DEF Crash
<1>12. ASSUME Replay
       PROVE  TypeOK'
    <2>1. Beginning \in [Partitions -> Offsets]
        BY DEF Beginning, Offsets
    <2>2. Assigned(owner, Beginning) \in [Replicas -> [Partitions -> Offsets \cup {0}]]
        BY <2>1 DEF Assigned
    <2>3. faults' \in Nat
        BY <1>0, <1>12 DEF Replay, Fault
    <2> QED
        BY <1>0, <1>12, <2>1, <2>2, <2>3 DEF Replay
<1>13. ASSUME FirstPage
       PROVE  TypeOK'
    <2>1. PICK filter \in Partitions \cup {None} : ReadPage(filter, 0)
        BY <1>13, ReaderAssumption DEF FirstPage
    <2> QED
        BY <1>0, <1>13, <2>1, ReadPageTyped DEF FirstPage
<1>14. ASSUME NextPage
       PROVE  TypeOK'
    <2>1. reader.filter \in Partitions \cup {None} /\ reader.cursor \in Nat
        BY <1>0
    <2> QED
        BY <1>0, <1>14, <2>1, ReadPageTyped DEF NextPage
<1>15. CASE UNCHANGED vars
    BY <1>0, <1>15 DEF vars
<1> QED
    BY <1>1, <1>2, <1>3, <1>4, <1>5, <1>7, <1>8, <1>9, <1>11, <1>12, <1>13,
       <1>14, <1>15 DEF Next, ReplicaStep

-----------------------------------------------------------------------------
(* The ingestion, step by step                                              *)

\* As long as the log stays as it is, so does what is behind it.
LEMMA SameLog ==
    ASSUME IInv, UNCHANGED <<topic, rows, nextId>>
    PROVE  /\ \A n : \A p \in Partitions : Behind(p, n) => Behind(p, n)'
           /\ \A v \in Work : WorkBehind(v) => WorkBehind(v)'
           /\ (RowsInPlace /\ FeedKeepsTopicOrder)'
<1>1. Recorded' = Recorded
    BY DEF Recorded
<1> QED
    BY <1>1 DEF IInv, IngestInv, Behind, WorkBehind, RowsInPlace, Log, RowInPlace,
                FeedKeepsTopicOrder, Precedes

LEMMA PublishKeeps ==
    ASSUME IInv, TypeOK', NEW p \in Partitions, NEW e \in Events, Publish(p, e)
    PROVE  IngestInv'
<1>1. /\ topic \in [Partitions -> Seq(Events)] /\ topic' \in [Partitions -> Seq(Events)]
      /\ UNCHANGED <<committed, next, work, rows, nextId>>
      /\ Recorded' = Recorded
    BY DEF IInv, TypeOK, Publish, consumption, Recorded
<1>2. /\ \A q \in Partitions : q # p => topic'[q] = topic[q]
      /\ topic'[p] = Append(topic[p], e)
    BY <1>1 DEF Publish
<1>3. /\ Len(topic'[p]) = Len(topic[p]) + 1
      /\ \A i \in 1 .. Len(topic[p]) : topic'[p][i] = topic[p][i]
    BY <1>1, <1>2
<1>4. Grows
    <2>1. \A i \in DOMAIN topic[p] : i \in DOMAIN topic'[p] /\ topic'[p][i] = topic[p][i]
        BY <1>1, <1>3
    <2> QED
        BY <1>1, <1>2, <2>1 DEF Grows
<1>5. OffsetsBehind'
    BY <1>1, <1>4 DEF IInv, IngestInv, OffsetsBehind, Behind, Grows
<1>6. WorksBehind'
    <2>1. SUFFICES ASSUME NEW c \in Replicas, work[c] # Idle
                   PROVE  WorkBehind(work[c])'
        BY <1>1 DEF WorksBehind
    <2>2. WorkBehind(work[c]) /\ work[c] \in Work
        BY <2>1 DEF IInv, TypeOK, IngestInv, WorksBehind
    <2>3. work[c].part \in Partitions
        BY <2>2 DEF Work
    <2> QED
        BY <1>1, <1>4, <2>2, <2>3 DEF WorkBehind, Behind, Grows
<1>7. RowsInPlace'
    <2>1. Log(rows)'
        BY <1>1 DEF IInv, IngestInv, RowsInPlace, Log
    <2>2. ASSUME NEW r \in rows
          PROVE  RowInPlace(r)'
        <3>1. RowInPlace(r) /\ r.part \in Partitions
            BY DEF IInv, IngestInv, RowsInPlace, Log, AuditEvent
        <3> QED
            BY <3>1, <1>1, <1>4 DEF RowInPlace, Behind, Grows
    <2> QED
        BY <1>1, <2>1, <2>2 DEF RowsInPlace
<1>8. FeedKeepsTopicOrder'
    <2>1. SUFFICES ASSUME NEW r \in rows, NEW s \in rows, r.part = s.part,
                          NEW i \in DOMAIN topic'[r.part],
                          topic'[r.part][i] = r.event,
                          \A j \in 1 .. i : topic'[r.part][j] # s.event
                   PROVE  r.id < s.id
        BY <1>1 DEF FeedKeepsTopicOrder, Precedes
    <2>2. r.part \in Partitions
        BY DEF IInv, IngestInv, RowsInPlace, Log, AuditEvent
    \* s is in the topic already, so the new record cannot come before it.
    <2>3. PICK k \in DOMAIN topic[r.part] : topic[r.part][k] = s.event
        BY <2>1 DEF IInv, IngestInv, RowsInPlace, RowInPlace
    <2>4. k \in 1 .. Len(topic[r.part]) /\ i \in 1 .. Len(topic'[r.part])
        BY <1>1, <2>2, <2>3
    <2>5. topic'[r.part][k] = s.event
        BY <1>4, <2>2, <2>3 DEF Grows
    <2>6. i < k
        BY <2>1, <2>4, <2>5
    <2>7. /\ i \in DOMAIN topic[r.part]
          /\ \A j \in 1 .. i : topic'[r.part][j] = topic[r.part][j]
        BY <1>1, <1>4, <2>2, <2>4, <2>6 DEF Grows
    <2>8. i \in 1 .. i
        BY <2>4
    <2> QED
        BY <2>1, <2>7, <2>8 DEF IInv, IngestInv, FeedKeepsTopicOrder, Precedes
<1> QED
    BY <1>5, <1>6, <1>7, <1>8 DEF IngestInv

LEMMA InsertKeeps ==
    ASSUME IInv, NEW c \in Replicas, NEW p \in Partitions, Insert(c, p)
    PROVE  IngestInv'
<1> DEFINE w == [pc |-> "inserting", part |-> p, at |-> next[c][p], id |-> nextId]
<1>1. /\ UNCHANGED <<topic, committed, next, rows>> /\ nextId' = nextId + 1
      /\ nextId \in Nat /\ work' = [work EXCEPT ![c] = w]
      /\ next[c][p] \in DOMAIN topic[p]
      /\ Recorded' = Recorded
    BY DEF IInv, TypeOK, Insert, Recorded
<1>2. OffsetsBehind'
    BY <1>1 DEF IInv, IngestInv, OffsetsBehind, Behind
<1>3. Log(rows) /\ \A r \in rows : r.id \in Nat
    BY DEF IInv, IngestInv, RowsInPlace, Log, AuditEvent
<1>4. RowsInPlace' /\ FeedKeepsTopicOrder'
    <2>1. Log(rows)'
        BY <1>1, <1>3 DEF Log
    <2>2. \A r \in rows : RowInPlace(r)'
        BY <1>1 DEF IInv, IngestInv, RowsInPlace, RowInPlace, Behind
    <2>3. FeedKeepsTopicOrder'
        BY <1>1 DEF IInv, IngestInv, FeedKeepsTopicOrder, Precedes
    <2> QED
        BY <1>1, <2>1, <2>2, <2>3 DEF RowsInPlace
<1>5. WorksBehind'
    <2>1. SUFFICES ASSUME NEW d \in Replicas, work'[d] # Idle
                   PROVE  WorkBehind(work[d])'
        BY DEF WorksBehind
    <2>2. CASE d = c
        <3>1. work'[d] = w
            BY <1>1, <2>2 DEF IInv, TypeOK
        <3>2. Behind(p, next[c][p])
            BY DEF IInv, IngestInv, OffsetsBehind
        <3> QED
            BY <1>1, <1>3, <3>1, <3>2 DEF WorkBehind, Behind, Log
    <2>3. CASE d # c
        <3>1. work'[d] = work[d]
            BY <1>1, <2>3 DEF IInv, TypeOK
        <3>2. WorkBehind(work[d]) /\ work[d].id \in Nat
            BY <2>1, <3>1 DEF IInv, TypeOK, IngestInv, WorksBehind, Work
        <3> QED
            BY <1>1, <3>1, <3>2 DEF WorkBehind, Behind
    <2> QED
        BY <2>2, <2>3
<1> QED
    BY <1>2, <1>4, <1>5 DEF IngestInv

\* Replica c stores its row, and is then at v.
LEMMA StoreKeeps ==
    ASSUME IInv, NEW c \in Replicas, work[c].pc = "inserting",
           rows' = Stored(work[c]), UNCHANGED <<topic, nextId, committed, next>>,
           NEW v \in {Idle, [work[c] EXCEPT !.pc = "recorded"]},
           work' = [work EXCEPT ![c] = v]
    PROVE  IngestInv'
<1>1. PICK w \in Work : w = work[c]
    BY DEF IInv, TypeOK, Idle
<1>2. WorkBehind(w)
    BY <1>1 DEF IInv, IngestInv, WorksBehind, Work, Idle
<1>3. /\ Grows /\ topic[w.part][w.at] \in Recorded'
      /\ (RowsInPlace /\ FeedKeepsTopicOrder)'
      /\ \A x \in Work : WorkBehind(x) => WorkBehind(x)'
    BY <1>1, <1>2, StoredRows
<1>4. OffsetsBehind'
    <2>1. Recorded \subseteq Recorded'
        BY <1>3 DEF Grows, Recorded
    <2> QED
        BY <2>1 DEF IInv, IngestInv, OffsetsBehind, Behind
<1>5. WorksBehind'
    <2>1. SUFFICES ASSUME NEW d \in Replicas, work'[d] # Idle
                   PROVE  WorkBehind(work[d])'
        BY DEF WorksBehind
    <2>2. CASE d # c
        <3>1. PICK x \in Work : x = work[d] /\ x = work'[d]
            BY <2>1, <2>2 DEF IInv, TypeOK
        <3>2. WorkBehind(x)
            BY <2>1, <3>1 DEF IInv, IngestInv, WorksBehind
        <3>3. WorkBehind(x)'
            BY <1>3, <3>2
        <3> QED
            BY <3>1, <3>3 DEF WorkBehind, Behind
    <2>3. CASE d = c
        <3>1. work'[c] = [w EXCEPT !.pc = "recorded"]
            BY <1>1, <2>1, <2>3 DEF IInv, TypeOK
        <3>2. /\ work'[c].pc = "recorded" /\ work'[c].part = w.part
              /\ work'[c].at = w.at /\ work'[c].id = w.id
            BY <3>1 DEF Work
        <3>3. WorkBehind(w)'
            BY <1>2, <1>3
        <3> QED
            BY <2>3, <3>2, <3>3, <1>3 DEF WorkBehind, Behind
    <2> QED
        BY <2>2, <2>3
<1> QED
    BY <1>3, <1>4, <1>5 DEF IngestInv

\* A step that leaves the log alone moves offsets only to offsets that are
\* behind it, and starts no work.
LEMMA MoveKeeps ==
    ASSUME IInv, UNCHANGED <<topic, rows, nextId>>,
           \A p \in Partitions : Behind(p, committed'[p]),
           \A c \in Replicas, p \in Partitions : Behind(p, next'[c][p]),
           \A c \in Replicas : work'[c] \in {work[c], Idle}
    PROVE  IngestInv'
<1>1. Recorded' = Recorded
    BY DEF Recorded
<1>2. OffsetsBehind'
    BY <1>1 DEF OffsetsBehind, Behind
<1>3. WorksBehind'
    <2>1. SUFFICES ASSUME NEW d \in Replicas, work'[d] # Idle
                   PROVE  WorkBehind(work[d])'
        BY DEF WorksBehind
    <2>2. work'[d] = work[d] /\ WorkBehind(work[d])
        BY <2>1 DEF IInv, IngestInv, WorksBehind
    <2> QED
        BY <1>1, <2>2 DEF WorkBehind, Behind
<1> QED
    BY <1>2, <1>3, SameLog DEF IngestInv

LEMMA IngestStep == IInv /\ [Next]_vars => IngestInv'
<1> SUFFICES ASSUME IInv, [Next]_vars
             PROVE  IngestInv'
    OBVIOUS
<1>0. TypeOK' /\ TypeOK
    BY TypeStep DEF IInv
<1>1. /\ \A p \in Partitions : Behind(p, committed[p]) /\ Behind(p, 1) /\ Behind(p, 0)
      /\ \A c \in Replicas, p \in Partitions : Behind(p, next[c][p])
    BY DEF IInv, IngestInv, OffsetsBehind, Behind
<1>2. ASSUME NEW p \in Partitions, NEW e \in Events, Publish(p, e)
      PROVE  IngestInv'
    BY <1>0, <1>2, PublishKeeps
<1>3. ASSUME NEW c \in Replicas, NEW p \in Partitions, Insert(c, p)
      PROVE  IngestInv'
    BY <1>3, InsertKeeps
<1>4. ASSUME NEW c \in Replicas, NEW p \in Partitions, CommitOffset(c, p)
      PROVE  IngestInv'
    <2>1. \A q \in Partitions : Behind(q, committed'[q])
        BY <1>0, <1>1, <1>4 DEF CommitOffset, TypeOK
    <2> QED
        BY <1>1, <1>4, <2>1, MoveKeeps DEF CommitOffset
<1>5. ASSUME NEW c \in Replicas, NEW p \in Partitions, Rebalance(c, p)
      PROVE  IngestInv'
    <2>1. \A d \in Replicas, q \in Partitions : Behind(q, next'[d][q])
        BY <1>0, <1>1, <1>5 DEF Rebalance, TypeOK
    <2> QED
        BY <1>1, <1>5, <2>1, MoveKeeps DEF Rebalance
<1>6. ASSUME NEW c \in Replicas, NEW p \in Partitions, Revoke(c, p)
      PROVE  IngestInv'
    <2>1. \A d \in Replicas, q \in Partitions : Behind(q, next'[d][q])
        BY <1>0, <1>1, <1>6 DEF Revoke, TypeOK
    <2> QED
        BY <1>1, <1>6, <2>1, MoveKeeps DEF Revoke
<1>7. ASSUME NEW c \in Replicas, CommitInsert(c)
      PROVE  IngestInv'
    BY <1>7, StoreKeeps DEF CommitInsert
<1>8. ASSUME NEW c \in Replicas, InsertFails(c)
      PROVE  IngestInv'
    <2>1. CASE rows' = rows
        <3>1. \A d \in Replicas : work'[d] \in {work[d], Idle}
            BY <1>0, <1>8 DEF InsertFails, TypeOK
        <3> QED
            BY <1>1, <1>8, <2>1, <3>1, MoveKeeps DEF InsertFails
    <2>2. CASE rows' = Stored(work[c])
        BY <1>8, <2>2, StoreKeeps DEF InsertFails
    <2> QED
        BY <1>8, <2>1, <2>2 DEF InsertFails
<1>9. ASSUME NEW c \in Replicas, Resolve(c)
      PROVE  IngestInv'
    <2> DEFINE w == work[c]
    <2>1. w \in Work /\ WorkBehind(w) /\ w.pc = "recorded"
        BY <1>0, <1>9 DEF Resolve, TypeOK, IInv, IngestInv, WorksBehind, Work, Idle
    <2>2. Behind(w.part, w.at + 1)
        <3>1. w.at \in Nat /\ \A i \in 1 .. (w.at + 1) - 1 : i = w.at \/ i \in 1 .. w.at - 1
            BY <2>1 DEF Work
        <3> QED
            BY <2>1, <3>1 DEF WorkBehind, Behind
    <2>3. \A d \in Replicas, q \in Partitions : Behind(q, next'[d][q])
        BY <1>0, <1>1, <1>9, <2>2 DEF Resolve, TypeOK
    <2>4. \A d \in Replicas : work'[d] \in {work[d], Idle}
        BY <1>0, <1>9 DEF Resolve, TypeOK
    <2> QED
        BY <1>1, <1>9, <2>3, <2>4, MoveKeeps DEF Resolve
<1>10. ASSUME NEW c \in Replicas, Crash(c)
       PROVE  IngestInv'
    <2>1. \A q \in Partitions : Assigned(owner, committed)[c][q] \in {0, committed[q]}
        BY DEF Assigned
    <2>2. \A d \in Replicas, q \in Partitions : Behind(q, next'[d][q])
        BY <1>0, <1>1, <1>10, <2>1 DEF Crash, TypeOK
    <2>3. \A d \in Replicas : work'[d] \in {work[d], Idle}
        BY <1>0, <1>10 DEF Crash, TypeOK
    <2> QED
        BY <1>1, <1>10, <2>2, <2>3, MoveKeeps DEF Crash
<1>11. ASSUME Replay
       PROVE  IngestInv'
    <2>1. \A d \in Replicas, q \in Partitions : next'[d][q] \in {0, 1}
        BY <1>11 DEF Replay, Assigned, Beginning
    <2>2. \A d \in Replicas, q \in Partitions : Behind(q, next'[d][q])
        BY <1>1, <2>1
    <2>3. \A q \in Partitions : Behind(q, committed'[q])
        BY <1>1, <1>11 DEF Replay, Beginning
    <2> QED
        BY <1>11, <2>2, <2>3, MoveKeeps DEF Replay
<1>12. CASE FirstPage \/ NextPage \/ UNCHANGED vars
    <2>1. UNCHANGED <<topic, owner, committed, next, work, rows, nextId>>
        BY <1>12 DEF FirstPage, NextPage, consumption, vars
    <2> QED
        BY <1>1, <2>1, MoveKeeps
<1> QED
    BY <1>2, <1>3, <1>4, <1>5, <1>6, <1>7, <1>8, <1>9, <1>10, <1>11, <1>12
       DEF Next, ReplicaStep

-----------------------------------------------------------------------------
(* The reader                                                               *)

LEMMA ReadPageKeeps ==
    ASSUME IInv, NEW filter, NEW cursor \in Nat, ReadPage(filter, cursor),
           UNCHANGED rows,
           \/ reader.pc = "idle" /\ cursor = 0
           \/ reader.pc = "paging" /\ cursor = reader.cursor /\ filter = reader.filter
    PROVE  ReaderInv'
<1> DEFINE found == {r \in Matching(filter) : cursor = 0 \/ r.id < cursor}
           answer == List(filter, cursor)
<1>1. /\ Log(rows) /\ nextId \in Nat
      /\ \A r \in AuditEvent : r.id \in Nat
      /\ rows \subseteq AuditEvent /\ reader.start \subseteq AuditEvent
      /\ reader.before \subseteq AuditEvent /\ reader.page \subseteq AuditEvent
    BY DEF IInv, TypeOK, IngestInv, RowsInPlace, AuditEvent
<1>2. /\ answer.data \subseteq found
      /\ answer.nextCursor \in Nat
      /\ answer.nextCursor = 0 => found = answer.data
      /\ answer.nextCursor # 0 =>
             /\ \E r \in answer.data : answer.nextCursor = r.id
             /\ \A r \in answer.data : answer.nextCursor <= r.id
             /\ \A r \in found : answer.nextCursor <= r.id => r \in answer.data
    BY <1>1, PageOfFeed
<1> HIDE DEF answer
<1>3. /\ reader'.pc = IF answer.nextCursor = 0 THEN "done" ELSE "paging"
      /\ reader'.filter = filter
      /\ reader'.cursor = answer.nextCursor
      /\ reader'.before = reader.before \cup reader.page
      /\ reader'.page = answer.data
      /\ reader'.start = IF cursor = 0 THEN Matching(filter) ELSE reader.start
    BY DEF ReadPage, answer
<1>4. Matching(filter)' = Matching(filter) /\ Matching(filter) \subseteq rows
    BY DEF Matching
<1>5. /\ reader'.start \subseteq Matching(filter)
      /\ \A r \in reader'.before : cursor # 0 /\ cursor <= r.id
      /\ \A r \in reader'.start : r \in found \/ r \in reader'.before
    <2>1. CASE reader.pc = "idle" /\ cursor = 0
        BY <1>3, <2>1 DEF IInv, ReaderInv
    <2>2. CASE reader.pc = "paging" /\ cursor = reader.cursor /\ filter = reader.filter
        <3>1. /\ cursor # 0 /\ reader.start \subseteq Matching(filter)
              /\ \A r \in reader.before \cup reader.page : cursor <= r.id
              /\ \A r \in reader.start :
                     cursor <= r.id => r \in reader.before \cup reader.page
            BY <2>2 DEF IInv, ReaderInv
        <3>2. reader'.start = reader.start
            BY <1>3, <3>1
        <3>3. \A r \in reader.start : r.id < cursor \/ cursor <= r.id
            BY <1>1
        <3> QED
            BY <1>3, <3>1, <3>2, <3>3
    <2> QED
        BY <2>1, <2>2
<1>6. \A r \in reader'.page, s \in reader'.before : r.id < s.id
    <2> SUFFICES ASSUME NEW r \in answer.data, NEW s \in reader'.before
                 PROVE  r.id < s.id
        BY <1>3
    <2>1. cursor # 0 /\ r.id < cursor /\ cursor <= s.id
        BY <1>2, <1>5
    <2>2. r.id \in Nat /\ s.id \in Nat
        BY <1>1, <1>2, <1>3, <1>4
    <2> QED
        BY <2>1, <2>2
<1>7. CASE answer.nextCursor = 0
    <2>1. reader'.pc = "done" /\ reader'.start \subseteq reader'.before \cup reader'.page
        BY <1>2, <1>3, <1>5, <1>7
    <2> QED
        BY <1>3, <1>4, <1>5, <1>6, <2>1 DEF ReaderInv, FeedNeverRepeats, FeedIsComplete
<1>8. CASE answer.nextCursor # 0
    <2>1. reader'.pc = "paging" /\ reader'.cursor # 0
        BY <1>3, <1>8
    <2>2. ASSUME NEW r \in reader'.before \cup reader'.page
          PROVE  reader'.cursor <= r.id
        <3>1. CASE r \in reader'.page
            BY <1>2, <1>3, <1>8, <3>1
        <3>2. CASE r \in reader'.before
            <4>1. PICK q \in answer.data : answer.nextCursor = q.id
                BY <1>2, <1>8
            <4>2. q.id < r.id
                BY <1>3, <1>6, <3>2, <4>1
            <4>3. q.id \in Nat /\ r.id \in Nat
                BY <1>1, <1>2, <1>3, <1>4, <3>2
            <4> QED
                BY <1>3, <4>1, <4>2, <4>3
        <3> QED
            BY <3>1, <3>2
    <2>3. \A r \in reader'.start :
              reader'.cursor <= r.id => r \in reader'.before \cup reader'.page
        BY <1>2, <1>3, <1>5, <1>8
    <2> QED
        BY <1>3, <1>4, <1>5, <1>6, <2>1, <2>2, <2>3
           DEF ReaderInv, FeedNeverRepeats, FeedIsComplete
<1> QED
    BY <1>7, <1>8

LEMMA ReaderStep == IInv /\ [Next]_vars => ReaderInv'
<1> SUFFICES ASSUME IInv, [Next]_vars
             PROVE  ReaderInv'
    OBVIOUS
<1>1. ASSUME rows \subseteq rows', UNCHANGED reader
      PROVE  ReaderInv'
    <2>1. Matching(reader.filter) \subseteq Matching(reader.filter)'
        BY <1>1 DEF Matching
    <2> QED
        BY <1>1, <2>1 DEF IInv, ReaderInv, FeedNeverRepeats, FeedIsComplete
<1>2. ASSUME NEW c \in Replicas, CommitInsert(c) \/ InsertFails(c)
      PROVE  ReaderInv'
    <2>1. rows \subseteq rows' /\ UNCHANGED reader
        BY <1>2 DEF CommitInsert, InsertFails, Stored
    <2> QED
        BY <1>1, <2>1
<1>3. ASSUME FirstPage
      PROVE  ReaderInv'
    <2>1. PICK filter \in Partitions \cup {None} : ReadPage(filter, 0)
        BY <1>3, ReaderAssumption DEF FirstPage
    <2> QED
        BY <1>3, <2>1, ReadPageKeeps DEF FirstPage
<1>4. ASSUME NextPage
      PROVE  ReaderInv'
    <2>1. reader.cursor \in Nat
        BY DEF IInv, TypeOK
    <2> QED
        BY <1>4, <2>1, ReadPageKeeps DEF NextPage
<1>5. ASSUME UNCHANGED <<rows, reader>>
      PROVE  ReaderInv'
    BY <1>1, <1>5
<1>6. CASE UNCHANGED vars
    BY <1>5, <1>6 DEF vars
<1>7. ASSUME NEW p \in Partitions, NEW e \in Events, Publish(p, e)
      PROVE  ReaderInv'
    BY <1>5, <1>7 DEF Publish
<1>8. ASSUME NEW c \in Replicas, NEW p \in Partitions,
             Insert(c, p) \/ CommitOffset(c, p) \/ Rebalance(c, p) \/ Revoke(c, p)
      PROVE  ReaderInv'
    BY <1>5, <1>8 DEF Insert, CommitOffset, Rebalance, Revoke
<1>9. ASSUME NEW c \in Replicas, Resolve(c) \/ Crash(c)
      PROVE  ReaderInv'
    BY <1>5, <1>9 DEF Resolve, Crash
<1>10. ASSUME Replay
       PROVE  ReaderInv'
    BY <1>5, <1>10 DEF Replay
<1> QED
    BY <1>2, <1>3, <1>4, <1>6, <1>7, <1>8, <1>9, <1>10 DEF Next, ReplicaStep

-----------------------------------------------------------------------------
(* The theorems                                                             *)

LEMMA Inductive == Spec => []IInv
<1>1. IInv /\ [Next]_vars => IInv'
    BY TypeStep, IngestStep, ReaderStep DEF IInv
<1> QED
    BY <1>1, InitIInv, PTL DEF Spec

\* Every variable keeps its type.
THEOREM TypeCorrect == Spec => []TypeOK
<1>1. IInv => TypeOK
    BY DEF IInv
<1> QED
    BY <1>1, Inductive, PTL

\* No record that the group has got past is missing from the log, whatever
\* crashes, fails, moves to another replica or is replayed.
THEOREM NoRecordSkipped == Spec => []NothingIsSkipped
<1>1. IInv => NothingIsSkipped
    BY DEF IInv, IngestInv, OffsetsBehind, Behind, NothingIsSkipped
<1> QED
    BY <1>1, Inductive, PTL

\* The ids of the log follow the first publication of the events in each
\* partition, though they are handed out before the rows are visible.
THEOREM FeedInTopicOrder == Spec => []FeedKeepsTopicOrder
<1>1. IInv => FeedKeepsTopicOrder
    BY DEF IInv, IngestInv
<1> QED
    BY <1>1, Inductive, PTL

\* A page holds no row that an earlier page of the same reading could show.
THEOREM FeedWithoutRepeats == Spec => []FeedNeverRepeats
<1>1. IInv => FeedNeverRepeats
    BY DEF IInv, ReaderInv
<1> QED
    BY <1>1, Inductive, PTL

\* The pages together leave out nothing that was there at the first of them.
THEOREM FeedWithoutGaps == Spec => []FeedIsComplete
<1>1. IInv => FeedIsComplete
    BY DEF IInv, ReaderInv
<1> QED
    BY <1>1, Inductive, PTL

-----------------------------------------------------------------------------
(* The table is a projection of the topic                                   *)

\* The event of a finished INSERT is recorded after all that precedes it, or
\* was recorded before.
LEMMA StoredIsRecord ==
    ASSUME IInv, NEW c \in Replicas, work[c].pc = "inserting",
           rows' = Stored(work[c]), UNCHANGED topic
    PROVE  ProjectionOfTopic!Next \/ UNCHANGED ProjectionOfTopic!vars
<1>1. PICK w \in Work : w = work[c]
    BY DEF IInv, TypeOK, Idle
<1>2. WorkBehind(w) /\ w.part \in Partitions
    BY <1>1 DEF IInv, IngestInv, WorksBehind, Work, Idle
<1> DEFINE e == topic[w.part][w.at]
<1>3. e \in Events /\ w.at \in DOMAIN topic[w.part]
    BY <1>2 DEF IInv, TypeOK, WorkBehind
<1>4. CASE e \in Recorded
    BY <1>1, <1>4 DEF Stored, Recorded, ProjectionOfTopic!vars
<1>5. CASE e \notin Recorded
    <2>1. Recorded' = Recorded \cup {e}
        <3> DEFINE new == [id |-> w.id, event |-> e, part |-> w.part]
        <3>1. rows' = rows \cup {new} /\ new.event = e
            BY <1>1, <1>5 DEF Stored
        <3> HIDE DEF new, e
        <3> QED
            BY <3>1 DEF Recorded
    <2>2. \A j \in 1 .. w.at - 1 : topic[w.part][j] \in Recorded
        BY <1>2 DEF WorkBehind, Behind
    <2>3. ProjectionOfTopic!Record(w.part, e)
        BY <1>3, <1>5, <2>1, <2>2 DEF ProjectionOfTopic!Record
    <2> QED
        BY <1>2, <1>3, <2>3 DEF ProjectionOfTopic!Next
<1> QED
    BY <1>4, <1>5

\* Replicas, offsets and ids are invisible from outside: each step publishes a
\* record, records one event, or changes nothing of the projection.
THEOREM Refinement == Spec => ImplementsProjection
<1>1. Init => ProjectionOfTopic!Init
    BY DEF Init, ProjectionOfTopic!Init, Recorded
<1>2. IInv /\ [Next]_vars => [ProjectionOfTopic!Next]_ProjectionOfTopic!vars
    <2> SUFFICES ASSUME IInv, [Next]_vars
                 PROVE  ProjectionOfTopic!Next \/ UNCHANGED ProjectionOfTopic!vars
        OBVIOUS
    <2>1. ASSUME NEW p \in Partitions, NEW e \in Events, Publish(p, e)
          PROVE  ProjectionOfTopic!Next
        <3>1. ProjectionOfTopic!Publish(p, e)
            BY <2>1 DEF Publish, Recorded, ProjectionOfTopic!Publish
        <3> QED
            BY <3>1 DEF ProjectionOfTopic!Next
    <2>2. ASSUME UNCHANGED <<topic, rows>>
          PROVE  UNCHANGED ProjectionOfTopic!vars
        BY <2>2 DEF ProjectionOfTopic!vars, Recorded
    <2>3. ASSUME NEW c \in Replicas, CommitInsert(c)
          PROVE  ProjectionOfTopic!Next \/ UNCHANGED ProjectionOfTopic!vars
        BY <2>3, StoredIsRecord DEF CommitInsert
    <2>4. ASSUME NEW c \in Replicas, InsertFails(c)
          PROVE  ProjectionOfTopic!Next \/ UNCHANGED ProjectionOfTopic!vars
        BY <2>2, <2>4, StoredIsRecord DEF InsertFails
    <2>5. ASSUME NEW c \in Replicas, NEW p \in Partitions,
                 Insert(c, p) \/ CommitOffset(c, p) \/ Rebalance(c, p) \/ Revoke(c, p)
          PROVE  UNCHANGED <<topic, rows>>
        BY <2>5 DEF Insert, CommitOffset, Rebalance, Revoke
    <2>6. ASSUME NEW c \in Replicas, Resolve(c) \/ Crash(c)
          PROVE  UNCHANGED <<topic, rows>>
        BY <2>6 DEF Resolve, Crash
    <2>7. CASE Replay \/ FirstPage \/ NextPage \/ UNCHANGED vars
        BY <2>2, <2>7 DEF Replay, FirstPage, NextPage, vars
    <2> QED
        BY <2>1, <2>2, <2>3, <2>4, <2>5, <2>6, <2>7 DEF Next, ReplicaStep
<1> QED
    BY <1>1, <1>2, Inductive, PTL
    DEF Spec, ImplementsProjection, ProjectionOfTopic!Spec

=============================================================================
