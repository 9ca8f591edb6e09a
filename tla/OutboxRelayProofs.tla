-------------------------- MODULE OutboxRelayProofs --------------------------
(***************************************************************************)
(* Proofs about OutboxRelay, for any number of orders, relays, rows and    *)
(* failures and any batch size.                                            *)
(***************************************************************************)
EXTENDS OutboxRelay, FiniteSetTheorems, TLAPS

USE OrdersAssumption, BatchAssumption, BootAssumption, BoundsAssumption

-----------------------------------------------------------------------------
(* What a step does to the drain of a relay                                *)

\* Nothing but relay r's drain differs, and it is well-formed.
OnlyDrain(r) ==
    /\ relay' \in [Relays -> Drain]
    /\ \A s \in Relays : s # r => relay'[s] = relay[s]

SameRows(r) ==
    /\ relay'[r].todo = relay[r].todo
    /\ relay'[r].stamped = relay[r].stamped

LEMMA GotoFrame ==
    ASSUME TypeOK, NEW r \in Relays, NEW pc \in {"record", "stamp"}, Goto(r, pc)
    PROVE  /\ OnlyDrain(r) /\ SameRows(r)
           /\ relay'[r].pc = pc /\ relay'[r].tx = relay[r].tx
<1>1. relay[r] \in Drain
    BY DEF TypeOK
<1>2. relay' = [relay EXCEPT ![r] = [relay[r] EXCEPT !.pc = pc]]
    BY DEF Goto
<1>3. [relay[r] EXCEPT !.pc = pc] \in Drain
    BY <1>1 DEF Drain
<1> QED
    BY <1>1, <1>2, <1>3 DEF TypeOK, Drain, OnlyDrain, SameRows

LEMMA StampFrame ==
    ASSUME TypeOK, NEW r \in Relays, NEW i \in Ids, Stamp(r, i)
    PROVE  /\ OnlyDrain(r)
           /\ relay'[r].pc = IF relay[r].todo = {i} THEN "commit" ELSE "publish"
           /\ relay'[r].todo = relay[r].todo \ {i}
           /\ relay'[r].stamped = relay[r].stamped \cup {i}
           /\ relay[r].tx /\ relay'[r].tx
           /\ i \in relay[r].todo
           /\ UNCHANGED <<outbox, published, connected, rabbit, kafka, faults>>
<1> DEFINE d == [relay[r] EXCEPT
                    !.pc = IF relay[r].todo = {i} THEN "commit" ELSE "publish",
                    !.todo = relay[r].todo \ {i},
                    !.stamped = relay[r].stamped \cup {i}]
<1>1. relay[r] \in Drain
    BY DEF TypeOK
<1>2. relay' = [relay EXCEPT ![r] = d] /\ relay[r].tx
    BY <1>1 DEF Stamp, Drain, TypeOK
<1>3. d \in Drain
    BY <1>1 DEF Drain
<1>4. OnlyDrain(r) /\ relay'[r] = d
    BY <1>2, <1>3 DEF TypeOK, OnlyDrain
<1>5. /\ i \in relay[r].todo
      /\ UNCHANGED <<outbox, published, connected, rabbit, kafka, faults>>
    BY DEF Stamp, Current
<1>6. /\ d.pc = IF relay[r].todo = {i} THEN "commit" ELSE "publish"
      /\ d.todo = relay[r].todo \ {i}
      /\ d.stamped = relay[r].stamped \cup {i}
      /\ d.tx = relay[r].tx
    BY <1>1 DEF Drain
<1> QED
    BY <1>2, <1>4, <1>5, <1>6

LEMMA LoseConnectionFrame ==
    ASSUME TypeOK, NEW r \in Relays, LoseConnection(r)
    PROVE  /\ OnlyDrain(r) /\ SameRows(r)
           /\ relay'[r].pc = relay[r].pc /\ relay'[r].tx = FALSE
<1>1. relay[r] \in Drain
    BY DEF TypeOK
<1>2. relay' = [relay EXCEPT ![r] = [relay[r] EXCEPT !.tx = FALSE]]
    BY DEF LoseConnection
<1>3. [relay[r] EXCEPT !.tx = FALSE] \in Drain
    BY <1>1 DEF Drain
<1> QED
    BY <1>1, <1>2, <1>3 DEF TypeOK, Drain, OnlyDrain, SameRows

LEMMA AbortFrame ==
    ASSUME TypeOK, NEW r \in Relays, relay' = [relay EXCEPT ![r] = NotDraining]
    PROVE  /\ OnlyDrain(r)
           /\ relay'[r].pc = "idle" /\ relay'[r].tx = FALSE
           /\ relay'[r].todo = {} /\ relay'[r].stamped = {}
BY DEF NotDraining, Drain, TypeOK, OnlyDrain

LEMMA ClaimFrame ==
    ASSUME TypeOK, NEW r \in Relays, Claim(r)
    PROVE  /\ OnlyDrain(r)
           /\ relay[r].pc = "idle"
           /\ relay'[r].pc = "publish" /\ relay'[r].tx /\ relay'[r].stamped = {}
           /\ relay'[r].todo # {} /\ relay'[r].todo \subseteq Available
           /\ \A i \in relay'[r].todo : \A j \in Available :
                 j \notin relay'[r].todo => i < j
<1>1. PICK batch \in (SUBSET Available) \ {{}} :
         /\ \A i \in batch, j \in Available \ batch : i < j
         /\ relay' = [relay EXCEPT ![r] =
                         [pc |-> "publish", todo |-> batch, stamped |-> {},
                          tx |-> TRUE]]
    BY DEF Claim
<1>2. batch \subseteq Ids
    BY DEF Available, Committed
<1>3. [pc |-> "publish", todo |-> batch, stamped |-> {}, tx |-> TRUE] \in Drain
    BY <1>2 DEF Drain
<1>4. relay'[r] = [pc |-> "publish", todo |-> batch, stamped |-> {}, tx |-> TRUE]
    BY <1>1 DEF TypeOK
<1> QED
    BY <1>1, <1>3, <1>4 DEF TypeOK, OnlyDrain, Claim

-----------------------------------------------------------------------------
(* Types                                                                   *)

\* Only committed rows are ever claimed.
ClaimedExist ==
    \A r \in Relays : \A i \in Ids :
        i \in relay[r].todo \/ i \in relay[r].stamped => outbox[i] # None

TypeInv == TypeOK /\ ClaimedExist

LEMMA TypeInvInit == Init => TypeInv
BY DEF Init, TypeInv, ClaimedExist, TypeOK, NotDraining, Drain, Ids

LEMMA AnnouncedType ==
    ASSUME TypeOK, NEW i \in Ids, NEW copies \in {0, 1, 2}
    PROVE  /\ Announced(i, copies) \in Nat
           /\ rabbit[i] > 0 => Announced(i, copies) > 0
           /\ Announced(i, 1) > 0 /\ Announced(i, 2) > 0
BY DEF Announced, MaxCopies, TypeOK

\* The partition an event is appended to is that of its order.
LEMMA AppendedType ==
    ASSUME TypeInv, NEW r \in Relays, NEW i \in relay[r].todo
    PROVE  /\ i \in Ids /\ outbox[i] \in Orders
           /\ kafka[outbox[i]] \in Seq(Ids)
           /\ Appended(i) \in [Orders -> Seq(Ids)]
<1>1. i \in Ids /\ outbox[i] \in Orders
    BY DEF TypeInv, TypeOK, ClaimedExist, Drain
<1> QED
    BY <1>1 DEF TypeInv, TypeOK, Appended

\* What a step of one drain leaves behind outside the drain.
OthersTyped ==
    /\ outbox' = outbox /\ published' \subseteq Ids
    /\ connected' \in [Relays -> BOOLEAN]
    /\ rabbit' \in [Ids -> Nat] /\ kafka' \in [Orders -> Seq(Ids)]
    /\ faults' \in Nat

\* A drain that gets hold of no other row keeps the types.
LEMMA TypeInvFrame ==
    ASSUME TypeInv, NEW r \in Relays, OnlyDrain(r), OthersTyped,
           \A i \in Ids :
              i \in relay'[r].todo \/ i \in relay'[r].stamped =>
                 i \in relay[r].todo \/ i \in relay[r].stamped
    PROVE  TypeInv'
<1>1. TypeOK'
    BY DEF TypeInv, TypeOK, OnlyDrain, OthersTyped
<1>2. ClaimedExist'
    BY DEF TypeInv, ClaimedExist, OnlyDrain, OthersTyped
<1> QED
    BY <1>1, <1>2 DEF TypeInv

LEMMA TypeInvNext ==
    TypeInv /\ [Next]_vars => TypeInv'
<1> SUFFICES ASSUME TypeInv, [Next]_vars
             PROVE  TypeInv'
    OBVIOUS
<1> USE DEF TypeInv
<1>1. ASSUME NEW i \in Ids, NEW o \in Orders, CommitRow(i, o)
      PROVE  TypeInv'
    BY <1>1 DEF CommitRow, TypeOK, ClaimedExist
<1>2. ASSUME NEW r \in Relays, Claim(r)
      PROVE  TypeInv'
  <2>1. \A i \in relay'[r].todo : outbox[i] # None
      BY <1>2, ClaimFrame DEF Available, Committed
  <2>2. /\ OnlyDrain(r) /\ relay'[r].stamped = {}
        /\ UNCHANGED <<outbox, published, connected, rabbit, kafka, faults>>
      BY <1>2, ClaimFrame DEF Claim
  <2>3. TypeOK'
      BY <2>2 DEF TypeOK, OnlyDrain
  <2>4. ClaimedExist'
      BY <2>1, <2>2 DEF ClaimedExist, OnlyDrain
  <2> QED
      BY <2>3, <2>4
<1>3. ASSUME NEW r \in Relays, NEW i \in Ids,
             Publish(r, i) \/ PublishTwice(r, i)
      PROVE  TypeInv'
  <2>1. rabbit' \in [Ids -> Nat]
      BY <1>3, AnnouncedType DEF Publish, PublishTwice, TypeOK
  <2>2. OnlyDrain(r) /\ SameRows(r)
      BY <1>3, GotoFrame DEF Publish, PublishTwice
  <2>3. OthersTyped
      BY <1>3, <2>1 DEF OthersTyped, Publish, PublishTwice, Fault, TypeOK
  <2> QED
      BY <2>2, <2>3, TypeInvFrame DEF SameRows
<1>4. ASSUME NEW r \in Relays, NEW i \in Ids, PublishFails(r, i)
      PROVE  TypeInv'
  <2>1. rabbit' \in [Ids -> Nat]
      BY <1>4, AnnouncedType DEF PublishFails, TypeOK
  <2>2. OnlyDrain(r) /\ relay'[r].todo = {} /\ relay'[r].stamped = {}
      BY <1>4, AbortFrame DEF PublishFails, Abort
  <2>3. OthersTyped
      BY <1>4, <2>1 DEF OthersTyped, PublishFails, Fault, TypeOK
  <2> QED
      BY <2>2, <2>3, TypeInvFrame DEF SameRows
<1>5. ASSUME NEW r \in Relays, NEW i \in Ids, Record(r, i)
      PROVE  TypeInv'
  <2>1. kafka' \in [Orders -> Seq(Ids)]
      BY <1>5, AppendedType DEF Record, Current
  <2>2. OnlyDrain(r) /\ SameRows(r)
      BY <1>5, GotoFrame DEF Record
  <2>3. OthersTyped
      BY <1>5, <2>1 DEF OthersTyped, Record, TypeOK
  <2> QED
      BY <2>2, <2>3, TypeInvFrame DEF SameRows
<1>6. ASSUME NEW r \in Relays, NEW i \in Ids, RecordTwice(r, i)
      PROVE  TypeInv'
  <2>1. outbox[i] \in Orders /\ kafka[outbox[i]] \in Seq(Ids)
      BY <1>6, AppendedType DEF RecordTwice, Current
  <2>2. Append(Append(kafka[outbox[i]], i), i) \in Seq(Ids)
      BY <2>1
  <2>3. kafka' = [kafka EXCEPT ![outbox[i]] = Append(Append(kafka[outbox[i]], i), i)]
      BY <1>6 DEF RecordTwice
  <2>4. kafka' \in [Orders -> Seq(Ids)]
      BY <2>2, <2>3 DEF TypeOK
  <2>5. OnlyDrain(r) /\ SameRows(r)
      BY <1>6, GotoFrame DEF RecordTwice
  <2>6. OthersTyped
      BY <1>6, <2>4 DEF OthersTyped, RecordTwice, Fault, TypeOK
  <2> QED
      BY <2>5, <2>6, TypeInvFrame DEF SameRows
<1>7. ASSUME NEW r \in Relays, NEW i \in Ids, RecordFails(r, i)
      PROVE  TypeInv'
  <2>1. kafka' \in [Orders -> Seq(Ids)]
      BY <1>7, AppendedType DEF RecordFails, Current, TypeOK
  <2>2. OnlyDrain(r) /\ relay'[r].todo = {} /\ relay'[r].stamped = {}
      BY <1>7, AbortFrame DEF RecordFails, Abort
  <2>3. OthersTyped
      BY <1>7, <2>1 DEF OthersTyped, RecordFails, Fault, TypeOK
  <2> QED
      BY <2>2, <2>3, TypeInvFrame DEF SameRows
<1>8. ASSUME NEW r \in Relays, RecordRefused(r)
      PROVE  TypeInv'
  <2>1. OnlyDrain(r) /\ relay'[r].todo = {} /\ relay'[r].stamped = {}
      BY <1>8, AbortFrame DEF RecordRefused, Abort
  <2>2. OthersTyped
      BY <1>8 DEF OthersTyped, RecordRefused, TypeOK
  <2> QED
      BY <2>1, <2>2, TypeInvFrame DEF SameRows
<1>9. ASSUME NEW r \in Relays, NEW i \in Ids, Stamp(r, i)
      PROVE  TypeInv'
  <2>1. /\ OnlyDrain(r)
        /\ relay'[r].todo = relay[r].todo \ {i}
        /\ relay'[r].stamped = relay[r].stamped \cup {i}
        /\ i \in relay[r].todo
      BY <1>9, StampFrame
  <2>2. OthersTyped
      BY <1>9 DEF OthersTyped, Stamp, TypeOK
  <2> QED
      BY <2>1, <2>2, TypeInvFrame DEF SameRows
<1>10. ASSUME NEW r \in Relays, CommitDrain(r)
      PROVE  TypeInv'
  <2>1. published' \subseteq Ids
      BY <1>10 DEF CommitDrain, TypeOK, Drain
  <2>2. OnlyDrain(r) /\ relay'[r].todo = {} /\ relay'[r].stamped = {}
      BY <1>10, AbortFrame DEF CommitDrain, Abort
  <2>3. OthersTyped
      BY <1>10, <2>1 DEF OthersTyped, CommitDrain, TypeOK
  <2> QED
      BY <2>2, <2>3, TypeInvFrame DEF SameRows
<1>11. ASSUME NEW r \in Relays, LoseConnection(r)
      PROVE  TypeInv'
  <2>1. OnlyDrain(r) /\ SameRows(r)
      BY <1>11, LoseConnectionFrame
  <2>2. OthersTyped
      BY <1>11 DEF OthersTyped, LoseConnection, Fault, TypeOK
  <2> QED
      BY <2>1, <2>2, TypeInvFrame DEF SameRows
<1>12. ASSUME NEW r \in Relays, DatabaseFails(r)
      PROVE  TypeInv'
  <2>1. OnlyDrain(r) /\ relay'[r].todo = {} /\ relay'[r].stamped = {}
      BY <1>12, AbortFrame DEF DatabaseFails, Abort
  <2>2. OthersTyped
      BY <1>12 DEF OthersTyped, DatabaseFails, TypeOK
  <2> QED
      BY <2>1, <2>2, TypeInvFrame DEF SameRows
<1>13. ASSUME NEW r \in Relays, Restart(r)
      PROVE  TypeInv'
  <2>1. connected' \in [Relays -> BOOLEAN] /\ faults' \in Nat
      BY <1>13 DEF Restart, Fault, TypeOK
  <2>2. OnlyDrain(r) /\ relay'[r].todo = {} /\ relay'[r].stamped = {}
      BY <1>13, AbortFrame DEF Restart, Abort
  <2>3. OthersTyped
      BY <1>13, <2>1 DEF OthersTyped, Restart, TypeOK
  <2> QED
      BY <2>2, <2>3, TypeInvFrame DEF SameRows
<1>14. CASE UNCHANGED vars
    BY <1>14 DEF vars, TypeOK, ClaimedExist
<1> QED
    BY <1>1, <1>2, <1>3, <1>4, <1>5, <1>6, <1>7,
       <1>8, <1>9, <1>10, <1>11, <1>12, <1>13, <1>14
    DEF Next, DrainStep, FaultStep

LEMMA TypeInvariant == Spec => []TypeInv
BY TypeInvInit, TypeInvNext, PTL DEF Spec

\* Every variable keeps its type.
THEOREM TypeCorrect == Spec => []TypeOK
BY TypeInvariant, PTL DEF TypeInv

-----------------------------------------------------------------------------
(* Claims                                                                  *)

\* Relay r's transaction has row i locked.
Holds(r, i) ==
    relay[r].tx /\ (i \in relay[r].todo \/ i \in relay[r].stamped)

\* A locked row is unpublished, and nobody else has it.
ClaimsInv ==
    \A r \in Relays : \A i \in Ids : Holds(r, i) =>
        /\ i \notin published
        /\ \A s \in Relays : Holds(s, i) => s = r

LEMMA AvailableRows ==
    ASSUME TypeOK, NEW i \in Available
    PROVE  /\ i \in Ids /\ outbox[i] # None /\ i \notin published
           /\ \A r \in Relays : ~Holds(r, i)
BY DEF Available, Committed, Claimed, Holds

LEMMA ClaimsInvInit == Init => ClaimsInv
BY DEF Init, ClaimsInv, Holds, NotDraining

LEMMA ClaimsInvNext ==
    TypeInv /\ ClaimsInv /\ [Next]_vars => ClaimsInv'
<1> SUFFICES ASSUME TypeInv, ClaimsInv, [Next]_vars
             PROVE  ClaimsInv'
    OBVIOUS
<1> USE DEF TypeInv
<1>1. ASSUME NEW i \in Ids, NEW o \in Orders, CommitRow(i, o)
      PROVE  ClaimsInv'
    BY <1>1 DEF CommitRow, ClaimsInv, Holds
<1>2. ASSUME NEW r \in Relays, Claim(r)
      PROVE  ClaimsInv'
  <2>1. /\ OnlyDrain(r) /\ relay'[r].stamped = {}
        /\ relay'[r].todo \subseteq Available
      BY <1>2, ClaimFrame
  <2>2. \A j \in Ids : Holds(r, j)' =>
           /\ j \notin published
           /\ \A s \in Relays : ~Holds(s, j)
      BY <2>1, AvailableRows DEF Holds
  <2>3. \A s \in Relays : s # r => \A j \in Ids : Holds(s, j)' <=> Holds(s, j)
      BY <2>1 DEF Holds, OnlyDrain
  <2> QED
      BY <1>2, <2>2, <2>3 DEF Claim, ClaimsInv
<1>3. ASSUME NEW r \in Relays, NEW i \in Ids,
             Publish(r, i) \/ PublishTwice(r, i)
      PROVE  ClaimsInv'
  <2>1. OnlyDrain(r) /\ SameRows(r) /\ relay'[r].tx = relay[r].tx
      BY <1>3, GotoFrame DEF Publish, PublishTwice
  <2>2. \A s \in Relays : \A j \in Ids : Holds(s, j)' => Holds(s, j)
      BY <2>1 DEF Holds, OnlyDrain, SameRows
  <2> QED
      BY <1>3, <2>2 DEF Publish, PublishTwice, ClaimsInv
<1>4. ASSUME NEW r \in Relays, NEW i \in Ids, PublishFails(r, i)
      PROVE  ClaimsInv'
  <2>1. OnlyDrain(r) /\ relay'[r].tx = FALSE
      BY <1>4, AbortFrame DEF PublishFails, Abort
  <2>2. \A s \in Relays : \A j \in Ids : Holds(s, j)' => Holds(s, j)
      BY <2>1 DEF Holds, OnlyDrain
  <2> QED
      BY <1>4, <2>2 DEF PublishFails, ClaimsInv
<1>5. ASSUME NEW r \in Relays, NEW i \in Ids, Record(r, i)
      PROVE  ClaimsInv'
  <2>1. OnlyDrain(r) /\ SameRows(r) /\ relay'[r].tx = relay[r].tx
      BY <1>5, GotoFrame DEF Record
  <2>2. \A s \in Relays : \A j \in Ids : Holds(s, j)' => Holds(s, j)
      BY <2>1 DEF Holds, OnlyDrain, SameRows
  <2> QED
      BY <1>5, <2>2 DEF Record, ClaimsInv
<1>6. ASSUME NEW r \in Relays, NEW i \in Ids, RecordTwice(r, i)
      PROVE  ClaimsInv'
  <2>1. OnlyDrain(r) /\ SameRows(r) /\ relay'[r].tx = relay[r].tx
      BY <1>6, GotoFrame DEF RecordTwice
  <2>2. \A s \in Relays : \A j \in Ids : Holds(s, j)' => Holds(s, j)
      BY <2>1 DEF Holds, OnlyDrain, SameRows
  <2> QED
      BY <1>6, <2>2 DEF RecordTwice, ClaimsInv
<1>7. ASSUME NEW r \in Relays, NEW i \in Ids, RecordFails(r, i)
      PROVE  ClaimsInv'
  <2>1. OnlyDrain(r) /\ relay'[r].tx = FALSE
      BY <1>7, AbortFrame DEF RecordFails, Abort
  <2>2. \A s \in Relays : \A j \in Ids : Holds(s, j)' => Holds(s, j)
      BY <2>1 DEF Holds, OnlyDrain
  <2> QED
      BY <1>7, <2>2 DEF RecordFails, ClaimsInv
<1>8. ASSUME NEW r \in Relays, RecordRefused(r)
      PROVE  ClaimsInv'
  <2>1. OnlyDrain(r) /\ relay'[r].tx = FALSE
      BY <1>8, AbortFrame DEF RecordRefused, Abort
  <2>2. \A s \in Relays : \A j \in Ids : Holds(s, j)' => Holds(s, j)
      BY <2>1 DEF Holds, OnlyDrain
  <2> QED
      BY <1>8, <2>2 DEF RecordRefused, ClaimsInv
<1>9. ASSUME NEW r \in Relays, NEW i \in Ids, Stamp(r, i)
      PROVE  ClaimsInv'
  <2>1. /\ OnlyDrain(r) /\ relay[r].tx /\ i \in relay[r].todo
        /\ relay'[r].todo = relay[r].todo \ {i}
        /\ relay'[r].stamped = relay[r].stamped \cup {i}
        /\ published' = published
      BY <1>9, StampFrame
  <2>2. \A s \in Relays : \A j \in Ids : Holds(s, j)' => Holds(s, j)
      BY <2>1 DEF Holds, OnlyDrain
  <2> QED
      BY <2>1, <2>2 DEF ClaimsInv
<1>10. ASSUME NEW r \in Relays, CommitDrain(r)
      PROVE  ClaimsInv'
  <2>1. /\ OnlyDrain(r) /\ relay'[r].tx = FALSE
        /\ relay[r].tx /\ published' = published \cup relay[r].stamped
      BY <1>10, AbortFrame DEF CommitDrain
  <2>2. \A s \in Relays : \A j \in Ids : Holds(s, j)' => s # r /\ Holds(s, j)
      BY <2>1 DEF Holds, OnlyDrain
  <2>3. \A s \in Relays : \A j \in Ids : Holds(s, j)' => j \notin relay[r].stamped
      BY <2>1, <2>2 DEF Holds, ClaimsInv
  <2> QED
      BY <2>1, <2>2, <2>3 DEF ClaimsInv
<1>11. ASSUME NEW r \in Relays, LoseConnection(r)
      PROVE  ClaimsInv'
  <2>1. OnlyDrain(r) /\ relay'[r].tx = FALSE
      BY <1>11, LoseConnectionFrame
  <2>2. \A s \in Relays : \A j \in Ids : Holds(s, j)' => Holds(s, j)
      BY <2>1 DEF Holds, OnlyDrain
  <2> QED
      BY <1>11, <2>2 DEF LoseConnection, ClaimsInv
<1>12. ASSUME NEW r \in Relays, DatabaseFails(r)
      PROVE  ClaimsInv'
  <2>1. OnlyDrain(r) /\ relay'[r].tx = FALSE
      BY <1>12, AbortFrame DEF DatabaseFails, Abort
  <2>2. \A s \in Relays : \A j \in Ids : Holds(s, j)' => Holds(s, j)
      BY <2>1 DEF Holds, OnlyDrain
  <2> QED
      BY <1>12, <2>2 DEF DatabaseFails, ClaimsInv
<1>13. ASSUME NEW r \in Relays, Restart(r)
      PROVE  ClaimsInv'
  <2>1. OnlyDrain(r) /\ relay'[r].tx = FALSE
      BY <1>13, AbortFrame DEF Restart, Abort
  <2>2. \A s \in Relays : \A j \in Ids : Holds(s, j)' => Holds(s, j)
      BY <2>1 DEF Holds, OnlyDrain
  <2> QED
      BY <1>13, <2>2 DEF Restart, ClaimsInv
<1>14. CASE UNCHANGED vars
    BY <1>14 DEF vars, ClaimsInv, Holds
<1> QED
    BY <1>1, <1>2, <1>3, <1>4, <1>5, <1>6, <1>7,
       <1>8, <1>9, <1>10, <1>11, <1>12, <1>13, <1>14
    DEF Next, DrainStep, FaultStep

LEMMA ClaimsInvariant == Spec => []ClaimsInv
BY TypeInvariant, ClaimsInvInit, ClaimsInvNext, PTL DEF Spec

\* SKIP LOCKED partitions the work: no row is in the transaction of two relays,
\* or claimed again once its stamp is committed.
THEOREM ExclusiveClaims == Spec => []ClaimsAreExclusive
<1>1. TypeInv /\ ClaimsInv => ClaimsAreExclusive
  <2> SUFFICES ASSUME TypeInv, ClaimsInv
               PROVE  ClaimsAreExclusive
      OBVIOUS
  <2>1. \A r \in Relays : \A i \in Claimed(r) : i \in Ids /\ Holds(r, i)
      BY DEF TypeInv, TypeOK, Drain, Claimed, Holds
  <2> QED
      BY <2>1 DEF ClaimsInv, ClaimsAreExclusive
<1> QED
    BY <1>1, TypeInvariant, ClaimsInvariant, PTL

-----------------------------------------------------------------------------
(* What has reached the brokers                                            *)

\* A partition holds only events of its order.
PartitionInv ==
    \A o \in Orders : \A n \in DOMAIN kafka[o] : outbox[kafka[o][n]] = o

\* Event i may have been appended to its partition, once or twice.
AppendStep(i) ==
    /\ outbox' = outbox
    /\ \/ kafka' = kafka
       \/ kafka' = Appended(i)
       \/ kafka' = [kafka EXCEPT ![outbox[i]] = Append(Append(@, i), i)]

\* Only the row at hand is appended, once or twice.
LEMMA AppendsCurrent ==
    ASSUME [Next]_vars
    PROVE  \/ UNCHANGED <<outbox, kafka>>
           \/ \E i \in Ids, o \in Orders : CommitRow(i, o)
           \/ \E r \in Relays : \E i \in Ids : Current(r, i) /\ AppendStep(i)
<1>1. ASSUME NEW r \in Relays, NEW i \in Ids,
             Record(r, i) \/ RecordTwice(r, i) \/ RecordFails(r, i)
      PROVE  Current(r, i) /\ AppendStep(i)
    BY <1>1 DEF Record, RecordTwice, RecordFails, AppendStep
<1>2. ASSUME NEW r \in Relays, NEW i \in Ids,
             Publish(r, i) \/ PublishTwice(r, i) \/ PublishFails(r, i) \/ Stamp(r, i)
      PROVE  UNCHANGED <<outbox, kafka>>
    BY <1>2 DEF Publish, PublishTwice, PublishFails, Stamp
<1>3. ASSUME NEW r \in Relays,
             \/ Claim(r) \/ RecordRefused(r) \/ CommitDrain(r)
             \/ DatabaseFails(r) \/ LoseConnection(r) \/ Restart(r)
      PROVE  UNCHANGED <<outbox, kafka>>
    BY <1>3 DEF Claim, RecordRefused, CommitDrain, DatabaseFails,
                LoseConnection, Restart
<1>4. CASE UNCHANGED vars
    BY <1>4 DEF vars
<1> QED
    BY <1>1, <1>2, <1>3, <1>4 DEF Next, DrainStep, FaultStep

\* Appending to a sequence keeps what it has and adds what is appended.
LEMMA AppendKeeps ==
    ASSUME NEW S, NEW seq \in Seq(S), NEW x \in S
    PROVE  /\ Append(seq, x) \in Seq(S)
           /\ Len(Append(seq, x)) = Len(seq) + 1
           /\ \A n \in 1 .. Len(seq) : Append(seq, x)[n] = seq[n]
           /\ Append(seq, x)[Len(seq) + 1] = x
OBVIOUS

LEMMA AppendStepEffect ==
    ASSUME TypeInv, PartitionInv, NEW r \in Relays, NEW i \in relay[r].todo,
           AppendStep(i)
    PROVE  /\ PartitionInv'
           /\ \A j \in Ids : InKafka(j) => InKafka(j)'
           /\ \A j \in Ids : InKafka(j)' => InKafka(j) \/ j = i
           /\ kafka' # kafka => InKafka(i)'
<1> DEFINE p == outbox[i]
<1> DEFINE log == kafka[p]
<1>1. i \in Ids /\ p \in Orders /\ log \in Seq(Ids) /\ outbox' = outbox
    BY AppendedType DEF AppendStep
<1>2. CASE kafka' = kafka
    BY <1>1, <1>2 DEF PartitionInv, InKafka
<1>3. ASSUME NEW new \in Seq(Ids), kafka' = [kafka EXCEPT ![p] = new],
             Len(new) > Len(log),
             \A n \in 1 .. Len(log) : new[n] = log[n],
             \A n \in 1 .. Len(new) : n > Len(log) => new[n] = i
      PROVE  /\ PartitionInv'
             /\ \A j \in Ids : InKafka(j) => InKafka(j)'
             /\ \A j \in Ids : InKafka(j)' => InKafka(j) \/ j = i
             /\ InKafka(i)'
  <2>1. kafka \in [Orders -> Seq(Ids)]
      BY DEF TypeInv, TypeOK
  <2>2. kafka'[p] = new /\ \A o \in Orders : o # p => kafka'[o] = kafka[o]
      BY <1>1, <1>3, <2>1
  <2>3. /\ DOMAIN new = 1 .. Len(new) /\ Len(new) \in Nat
        /\ DOMAIN log = 1 .. Len(log) /\ Len(log) \in Nat
      BY <1>1, <1>3
  <2> HIDE DEF p, log
  <2>4. \A n \in DOMAIN new : (n \in DOMAIN log /\ new[n] = log[n]) \/ new[n] = i
      BY <1>3, <2>3
  <2>5. \A n \in DOMAIN log : n \in DOMAIN new /\ new[n] = log[n]
      BY <1>3, <2>3
  <2>6. Len(new) \in DOMAIN new /\ new[Len(new)] = i
      BY <1>3, <2>3
  <2>7. log = kafka[p] /\ p = outbox[i]
      BY DEF log, p
  <2>8. PartitionInv'
      BY <1>1, <2>2, <2>4, <2>7 DEF PartitionInv
  <2>9. ASSUME NEW j \in Ids, InKafka(j)
        PROVE  InKafka(j)'
      BY <1>1, <2>2, <2>5, <2>7, <2>9 DEF InKafka
  <2>10. ASSUME NEW j \in Ids, InKafka(j)'
         PROVE  InKafka(j) \/ j = i
      BY <1>1, <2>2, <2>4, <2>7, <2>10 DEF InKafka
  <2>11. InKafka(i)'
      BY <1>1, <2>2, <2>6, <2>7 DEF InKafka
  <2> QED
      BY <2>8, <2>9, <2>10, <2>11
<1>4. CASE kafka' = Appended(i)
  <2> DEFINE new == Append(log, i)
  <2>1. /\ new \in Seq(Ids) /\ Len(new) = Len(log) + 1 /\ Len(log) \in Nat
        /\ \A n \in 1 .. Len(log) : new[n] = log[n]
        /\ new[Len(log) + 1] = i
      BY <1>1, AppendKeeps
  <2>2. kafka' = [kafka EXCEPT ![p] = new]
      BY <1>4 DEF Appended
  <2> HIDE DEF new, log, p
  <2>3. /\ Len(new) > Len(log)
        /\ \A n \in 1 .. Len(new) : n > Len(log) => new[n] = i
      BY <2>1
  <2> QED
      BY <1>3, <2>1, <2>2, <2>3
<1>5. CASE kafka' = [kafka EXCEPT ![outbox[i]] = Append(Append(@, i), i)]
  <2> DEFINE one == Append(log, i)
  <2> DEFINE new == Append(one, i)
  <2>1. /\ one \in Seq(Ids) /\ Len(one) = Len(log) + 1 /\ Len(log) \in Nat
        /\ \A n \in 1 .. Len(log) : one[n] = log[n]
        /\ one[Len(log) + 1] = i
      BY <1>1, AppendKeeps
  <2> HIDE DEF one
  <2>2. /\ new \in Seq(Ids) /\ Len(new) = Len(one) + 1
        /\ \A n \in 1 .. Len(one) : new[n] = one[n]
        /\ new[Len(one) + 1] = i
      BY <1>1, <2>1, AppendKeeps
  <2>3. kafka' = [kafka EXCEPT ![p] = new]
      BY <1>5 DEF one
  <2> HIDE DEF new, log, p
  <2>4. /\ Len(new) > Len(log)
        /\ \A n \in 1 .. Len(log) : new[n] = log[n]
        /\ \A n \in 1 .. Len(new) : n > Len(log) => new[n] = i
      BY <2>1, <2>2
  <2> QED
      BY <1>3, <2>2, <2>3, <2>4
<1> QED
    BY <1>2, <1>4, <1>5 DEF AppendStep

LEMMA CommitRowEffect ==
    ASSUME TypeInv, PartitionInv, NEW i \in Ids, NEW o \in Orders,
           CommitRow(i, o)
    PROVE  /\ PartitionInv'
           /\ \A j \in Ids : InKafka(j)' <=> InKafka(j)
<1>1. /\ outbox' = [outbox EXCEPT ![i] = o] /\ outbox[i] = None
      /\ kafka' = kafka
      /\ outbox \in [Ids -> Orders \cup {None}] /\ kafka \in [Orders -> Seq(Ids)]
    BY DEF CommitRow, TypeInv, TypeOK
<1>2. \A q \in Orders : \A n \in DOMAIN kafka[q] : kafka[q][n] \in Ids
    BY <1>1
<1>3. \A q \in Orders : \A n \in DOMAIN kafka[q] :
         kafka[q][n] # i /\ outbox'[kafka[q][n]] = outbox[kafka[q][n]]
    BY <1>1, <1>2 DEF PartitionInv
<1> QED
    BY <1>1, <1>3 DEF PartitionInv, InKafka

LEMMA PartitionInvNext == TypeInv /\ PartitionInv /\ [Next]_vars => PartitionInv'
<1> SUFFICES ASSUME TypeInv, PartitionInv, [Next]_vars
             PROVE  PartitionInv'
    OBVIOUS
<1>1. CASE UNCHANGED <<outbox, kafka>>
    BY <1>1 DEF PartitionInv
<1> QED
    BY <1>1, AppendsCurrent, AppendStepEffect, CommitRowEffect
    DEF Current

LEMMA PartitionInvariant == Spec => []PartitionInv
<1>1. Init => PartitionInv
    BY DEF Init, PartitionInv
<1> QED
    BY <1>1, TypeInvariant, PartitionInvNext, PTL DEF Spec

\* The brokers never forget, as far as the program can tell.
LEMMA SentStaysSent ==
    ASSUME TypeInv, PartitionInv, [Next]_vars, NEW j \in Ids
    PROVE  /\ rabbit[j] > 0 => rabbit'[j] > 0
           /\ InKafka(j) => InKafka(j)'
<1>1. rabbit[j] > 0 => rabbit'[j] > 0
  <2>1. ASSUME NEW r \in Relays, NEW i \in Ids,
               Publish(r, i) \/ PublishTwice(r, i) \/ PublishFails(r, i), rabbit[j] > 0
        PROVE  rabbit'[j] > 0
    <3>1. PICK copies \in {0, 1, 2} :
             rabbit' = [rabbit EXCEPT ![i] = Announced(i, copies)]
        BY <2>1 DEF Publish, PublishTwice, PublishFails
    <3> QED
        BY <2>1, <3>1, AnnouncedType DEF TypeInv, TypeOK
  <2>2. ASSUME NEW r \in Relays, NEW i \in Ids,
               \/ Record(r, i) \/ RecordTwice(r, i) \/ RecordFails(r, i)
               \/ Stamp(r, i)
        PROVE  rabbit' = rabbit
      BY <2>2 DEF Record, RecordTwice, RecordFails, Stamp
  <2>3. ASSUME NEW r \in Relays,
               \/ Claim(r) \/ RecordRefused(r) \/ CommitDrain(r)
               \/ DatabaseFails(r) \/ LoseConnection(r) \/ Restart(r)
        PROVE  rabbit' = rabbit
      BY <2>3 DEF Claim, RecordRefused, CommitDrain, DatabaseFails,
                  LoseConnection, Restart
  <2>4. ASSUME NEW i \in Ids, NEW o \in Orders, CommitRow(i, o)
        PROVE  rabbit' = rabbit
      BY <2>4 DEF CommitRow
  <2>5. CASE UNCHANGED vars
      BY <2>5 DEF vars
  <2> QED
      BY <2>1, <2>2, <2>3, <2>4, <2>5 DEF Next, DrainStep, FaultStep
<1>2. InKafka(j) => InKafka(j)'
  <2>1. CASE UNCHANGED <<outbox, kafka>>
      BY <2>1 DEF InKafka
  <2> QED
      BY <2>1, AppendsCurrent, AppendStepEffect, CommitRowEffect
    DEF Current
<1> QED
    BY <1>1, <1>2

-----------------------------------------------------------------------------
(* Stamps                                                                  *)

Delivered(i) == rabbit[i] > 0 /\ InKafka(i)

\* The row at hand has been announced once the drain is past publish(), and is
\* in the audit stream once it is past record(); a stamp comes after both.
BrokerInv ==
    /\ \A i \in Ids : InKafka(i) => rabbit[i] > 0
    /\ \A i \in Ids : i \in published => Delivered(i)
    /\ \A r \in Relays : \A i \in Ids :
          /\ i \in relay[r].stamped => Delivered(i)
          /\ Current(r, i) /\ relay[r].pc \in {"record", "stamp"} => rabbit[i] > 0
          /\ Current(r, i) /\ relay[r].pc = "stamp" => InKafka(i)

LEMMA BrokerInvInit == Init => BrokerInv
BY DEF Init, BrokerInv, InKafka, NotDraining, Current, Ids

\* Two rows cannot both be the one at hand.
LEMMA CurrentUnique ==
    ASSUME NEW r \in Relays, NEW i \in Ids, NEW j \in Ids, Current(r, i),
           Current(r, j)
    PROVE  i = j
BY DEF Current, Ids

\* Preservation, for a step of relay r that leaves the other drains alone.
LEMMA BrokerStep ==
    ASSUME TypeInv, PartitionInv, BrokerInv, [Next]_vars, NEW r \in Relays,
           OnlyDrain(r),
           \A i \in Ids : InKafka(i)' => rabbit'[i] > 0,
           \A i \in Ids : i \in published' => Delivered(i)',
           \A i \in Ids : i \in relay'[r].stamped => Delivered(i)',
           \A i \in Ids : Current(r, i)' /\ relay'[r].pc \in {"record", "stamp"}
                => rabbit'[i] > 0,
           \A i \in Ids : Current(r, i)' /\ relay'[r].pc = "stamp" => InKafka(i)'
    PROVE  BrokerInv'
<1>1. ASSUME NEW s \in Relays, s # r, NEW i \in Ids
      PROVE  /\ i \in relay'[s].stamped => Delivered(i)'
             /\ Current(s, i)' /\ relay'[s].pc \in {"record", "stamp"}
                   => rabbit'[i] > 0
             /\ Current(s, i)' /\ relay'[s].pc = "stamp" => InKafka(i)'
  <2>1. relay'[s] = relay[s]
      BY <1>1 DEF OnlyDrain
  <2>2. Current(s, i)' = Current(s, i)
      BY <2>1 DEF Current
  <2> QED
      BY <2>1, <2>2, SentStaysSent DEF BrokerInv, Delivered
<1> QED
    BY <1>1 DEF BrokerInv

LEMMA RecordEffect ==
    ASSUME TypeInv, PartitionInv, NEW r \in Relays, NEW i \in Ids,
           Record(r, i) \/ RecordTwice(r, i) \/ RecordFails(r, i)
    PROVE  /\ \A j \in Ids : InKafka(j)' => InKafka(j) \/ j = i
           /\ Record(r, i) \/ RecordTwice(r, i) => InKafka(i)'
<1>1. i \in relay[r].todo /\ AppendStep(i)
    BY DEF Record, RecordTwice, RecordFails, Current, AppendStep
<1>2. ASSUME Record(r, i) \/ RecordTwice(r, i)
      PROVE  kafka' # kafka
  <2>1. /\ i \in Ids /\ outbox[i] \in Orders /\ kafka[outbox[i]] \in Seq(Ids)
        /\ kafka \in [Orders -> Seq(Ids)]
      BY <1>1, AppendedType DEF TypeInv, TypeOK
  <2>2. /\ Append(kafka[outbox[i]], i) \in Seq(Ids)
        /\ Len(Append(kafka[outbox[i]], i)) = Len(kafka[outbox[i]]) + 1
        /\ Len(Append(Append(kafka[outbox[i]], i), i)) = Len(kafka[outbox[i]]) + 2
        /\ Len(kafka[outbox[i]]) \in Nat
      BY <2>1
  <2>3. Len(kafka'[outbox[i]]) > Len(kafka[outbox[i]])
      BY <1>2, <2>1, <2>2 DEF Record, RecordTwice, Appended
  <2> QED
      BY <2>2, <2>3
<1> QED
    BY <1>1, <1>2, AppendStepEffect

LEMMA BrokerInvNext ==
    TypeInv /\ PartitionInv /\ BrokerInv /\ [Next]_vars => BrokerInv'
<1> SUFFICES ASSUME TypeInv, PartitionInv, BrokerInv, [Next]_vars
             PROVE  BrokerInv'
    OBVIOUS
<1> USE DEF TypeInv
<1>1. ASSUME NEW i \in Ids, NEW o \in Orders, CommitRow(i, o)
      PROVE  BrokerInv'
  <2>1. \A j \in Ids : InKafka(j)' <=> InKafka(j)
      BY <1>1, CommitRowEffect
  <2> QED
      BY <1>1, <2>1 DEF CommitRow, BrokerInv, Delivered, Current
<1>2. ASSUME NEW r \in Relays, Claim(r)
      PROVE  BrokerInv'
  <2>1. OnlyDrain(r) /\ relay'[r].pc = "publish" /\ relay'[r].stamped = {}
      BY <1>2, ClaimFrame
  <2>2. UNCHANGED <<outbox, published, rabbit, kafka>>
      BY <1>2 DEF Claim
  <2>3. \A j \in Ids : InKafka(j)' <=> InKafka(j)
      BY <2>2 DEF InKafka
  <2> QED
      BY <2>1, <2>2, <2>3, BrokerStep DEF BrokerInv, Delivered
<1>3. ASSUME NEW r \in Relays, NEW i \in Ids,
             Publish(r, i) \/ PublishTwice(r, i)
      PROVE  BrokerInv'
  <2>1. /\ OnlyDrain(r) /\ SameRows(r) /\ relay'[r].pc = "record"
        /\ Current(r, i)
      BY <1>3, GotoFrame DEF Publish, PublishTwice
  <2>2. /\ UNCHANGED <<outbox, published, kafka>>
        /\ rabbit'[i] > 0
      BY <1>3, AnnouncedType DEF Publish, PublishTwice, TypeOK
  <2>3. \A j \in Ids : InKafka(j)' <=> InKafka(j)
      BY <2>2 DEF InKafka
  <2>4. \A j \in Ids : Current(r, j)' => j = i
      BY <2>1, CurrentUnique DEF Current, SameRows
  <2> QED
      BY <2>1, <2>2, <2>3, <2>4, SentStaysSent, BrokerStep
      DEF BrokerInv, Delivered, SameRows
<1>4. ASSUME NEW r \in Relays, NEW i \in Ids, PublishFails(r, i)
      PROVE  BrokerInv'
  <2>1. OnlyDrain(r) /\ relay'[r].pc = "idle" /\ relay'[r].stamped = {}
      BY <1>4, AbortFrame DEF PublishFails, Abort
  <2>2. UNCHANGED <<outbox, published, kafka>>
      BY <1>4 DEF PublishFails
  <2>3. \A j \in Ids : InKafka(j)' <=> InKafka(j)
      BY <2>2 DEF InKafka
  <2> QED
      BY <2>1, <2>2, <2>3, SentStaysSent, BrokerStep DEF BrokerInv, Delivered
<1>5. ASSUME NEW r \in Relays, NEW i \in Ids, Record(r, i)
      PROVE  BrokerInv'
  <2>1. /\ OnlyDrain(r) /\ SameRows(r) /\ relay'[r].pc = "stamp"
        /\ Current(r, i) /\ relay[r].pc = "record"
      BY <1>5, GotoFrame DEF Record
  <2>2. UNCHANGED <<outbox, published, rabbit>>
      BY <1>5 DEF Record
  <2>3. /\ \A j \in Ids : InKafka(j)' => InKafka(j) \/ j = i
        /\ InKafka(i)'
      BY <1>5, RecordEffect
  <2>4. \A j \in Ids : Current(r, j)' => j = i
      BY <2>1, CurrentUnique DEF Current, SameRows
  <2> QED
      BY <2>1, <2>2, <2>3, <2>4, SentStaysSent, BrokerStep
      DEF BrokerInv, Delivered, SameRows
<1>6. ASSUME NEW r \in Relays, NEW i \in Ids, RecordTwice(r, i)
      PROVE  BrokerInv'
  <2>1. /\ OnlyDrain(r) /\ SameRows(r) /\ relay'[r].pc = "stamp"
        /\ Current(r, i) /\ relay[r].pc = "record"
      BY <1>6, GotoFrame DEF RecordTwice
  <2>2. UNCHANGED <<outbox, published, rabbit>>
      BY <1>6 DEF RecordTwice
  <2>3. /\ \A j \in Ids : InKafka(j)' => InKafka(j) \/ j = i
        /\ InKafka(i)'
      BY <1>6, RecordEffect
  <2>4. \A j \in Ids : Current(r, j)' => j = i
      BY <2>1, CurrentUnique DEF Current, SameRows
  <2> QED
      BY <2>1, <2>2, <2>3, <2>4, SentStaysSent, BrokerStep
      DEF BrokerInv, Delivered, SameRows
<1>7. ASSUME NEW r \in Relays, NEW i \in Ids, RecordFails(r, i)
      PROVE  BrokerInv'
  <2>1. /\ OnlyDrain(r) /\ relay'[r].pc = "idle" /\ relay'[r].stamped = {}
        /\ Current(r, i) /\ relay[r].pc = "record"
      BY <1>7, AbortFrame DEF RecordFails, Abort
  <2>2. UNCHANGED <<outbox, published, rabbit>>
      BY <1>7 DEF RecordFails
  <2>3. \A j \in Ids : InKafka(j)' => InKafka(j) \/ j = i
      BY <1>7, RecordEffect
  <2> QED
      BY <2>1, <2>2, <2>3, SentStaysSent, BrokerStep DEF BrokerInv, Delivered
<1>8. ASSUME NEW r \in Relays, RecordRefused(r)
      PROVE  BrokerInv'
  <2>1. OnlyDrain(r) /\ relay'[r].pc = "idle" /\ relay'[r].stamped = {}
      BY <1>8, AbortFrame DEF RecordRefused, Abort
  <2>2. UNCHANGED <<outbox, published, rabbit, kafka>>
      BY <1>8 DEF RecordRefused
  <2>3. \A j \in Ids : InKafka(j)' <=> InKafka(j)
      BY <2>2 DEF InKafka
  <2> QED
      BY <2>1, <2>2, <2>3, BrokerStep DEF BrokerInv, Delivered
<1>9. ASSUME NEW r \in Relays, NEW i \in Ids, Stamp(r, i)
      PROVE  BrokerInv'
  <2>1. /\ OnlyDrain(r) /\ relay'[r].pc \in {"commit", "publish"}
        /\ relay'[r].stamped = relay[r].stamped \cup {i}
        /\ UNCHANGED <<outbox, published, rabbit, kafka>>
      BY <1>9, StampFrame
  <2>2. Delivered(i)
      BY <1>9 DEF Stamp, BrokerInv, Delivered
  <2>3. \A j \in Ids : InKafka(j)' <=> InKafka(j)
      BY <2>1 DEF InKafka
  <2> QED
      BY <2>1, <2>2, <2>3, BrokerStep DEF BrokerInv, Delivered
<1>10. ASSUME NEW r \in Relays, CommitDrain(r)
      PROVE  BrokerInv'
  <2>1. /\ OnlyDrain(r) /\ relay'[r].pc = "idle" /\ relay'[r].stamped = {}
        /\ published' = published \cup relay[r].stamped
      BY <1>10, AbortFrame DEF CommitDrain
  <2>2. UNCHANGED <<outbox, rabbit, kafka>>
      BY <1>10 DEF CommitDrain
  <2>3. \A j \in Ids : InKafka(j)' <=> InKafka(j)
      BY <2>2 DEF InKafka
  <2> QED
      BY <2>1, <2>2, <2>3, BrokerStep DEF BrokerInv, Delivered
<1>11. ASSUME NEW r \in Relays, LoseConnection(r)
      PROVE  BrokerInv'
  <2>1. OnlyDrain(r) /\ SameRows(r) /\ relay'[r].pc = relay[r].pc
      BY <1>11, LoseConnectionFrame
  <2>2. UNCHANGED <<outbox, published, rabbit, kafka>>
      BY <1>11 DEF LoseConnection
  <2>3. \A j \in Ids : (InKafka(j)' <=> InKafka(j)) /\ (Current(r, j)' <=> Current(r, j))
      BY <2>1, <2>2 DEF InKafka, Current, SameRows
  <2> QED
      BY <2>1, <2>2, <2>3, BrokerStep DEF BrokerInv, Delivered, SameRows
<1>12. ASSUME NEW r \in Relays, DatabaseFails(r)
      PROVE  BrokerInv'
  <2>1. OnlyDrain(r) /\ relay'[r].pc = "idle" /\ relay'[r].stamped = {}
      BY <1>12, AbortFrame DEF DatabaseFails, Abort
  <2>2. UNCHANGED <<outbox, published, rabbit, kafka>>
      BY <1>12 DEF DatabaseFails
  <2>3. \A j \in Ids : InKafka(j)' <=> InKafka(j)
      BY <2>2 DEF InKafka
  <2> QED
      BY <2>1, <2>2, <2>3, BrokerStep DEF BrokerInv, Delivered
<1>13. ASSUME NEW r \in Relays, Restart(r)
      PROVE  BrokerInv'
  <2>1. OnlyDrain(r) /\ relay'[r].pc = "idle" /\ relay'[r].stamped = {}
      BY <1>13, AbortFrame DEF Restart, Abort
  <2>2. UNCHANGED <<outbox, published, rabbit, kafka>>
      BY <1>13 DEF Restart
  <2>3. \A j \in Ids : InKafka(j)' <=> InKafka(j)
      BY <2>2 DEF InKafka
  <2> QED
      BY <2>1, <2>2, <2>3, BrokerStep DEF BrokerInv, Delivered
<1>14. CASE UNCHANGED vars
    BY <1>14 DEF vars, BrokerInv, Delivered, InKafka, Current
<1> QED
    BY <1>1, <1>2, <1>3, <1>4, <1>5, <1>6, <1>7,
       <1>8, <1>9, <1>10, <1>11, <1>12, <1>13, <1>14
    DEF Next, DrainStep, FaultStep

LEMMA BrokerInvariant == Spec => []BrokerInv
BY TypeInvariant, PartitionInvariant, BrokerInvInit, BrokerInvNext, PTL DEF Spec

\* No event is lost: a stamp, committed or about to be, means both brokers
\* have it.
THEOREM NoEventLost == Spec => []StampedReachedBoth
<1>1. BrokerInv => StampedReachedBoth
    BY DEF BrokerInv, Delivered, StampedReachedBoth
<1> QED
    BY <1>1, BrokerInvariant, PTL

\* The audit stream never runs ahead of the exchange.
THEOREM AuditFollows == Spec => []AuditedWasAnnounced
<1>1. BrokerInv => AuditedWasAnnounced
    BY DEF BrokerInv, AuditedWasAnnounced
<1> QED
    BY <1>1, BrokerInvariant, PTL

-----------------------------------------------------------------------------
(* The order of a partition, with one relay                                *)

SingleRelay == \A r, s \in Relays : r = s

\* A drain takes an order's rows from the front: what is before a row of the
\* batch is published, or in the batch, or done.
BatchInv ==
    \A r \in Relays :
        /\ relay[r].pc = "idle" => ~relay[r].tx
        /\ \A i, j \in Ids :
              i \in relay[r].todo /\ outbox[j] = outbox[i] /\ j < i =>
                  \/ j \in published
                  \/ j \in relay[r].stamped
                  \/ j \in relay[r].todo

LEMMA BatchInvInit == Init => BatchInv
BY DEF Init, BatchInv, NotDraining

LEMMA BatchInvNext ==
    ASSUME SingleRelay,
           TypeInv, BatchInv, [Next]_vars
    PROVE  BatchInv'
<1> USE DEF TypeInv
<1>1. ASSUME NEW i \in Ids, NEW o \in Orders, CommitRow(i, o)
      PROVE  BatchInv'
  <2>1. /\ outbox' = [outbox EXCEPT ![i] = o] /\ outbox[i] = None
        /\ \A j \in Ids : outbox[j] = o => j < i
        /\ UNCHANGED <<published, relay>>
        /\ outbox \in [Ids -> Orders \cup {None}]
      BY <1>1 DEF CommitRow, TypeOK
  <2>2. \A r \in Relays : \A k \in Ids : k \in relay[r].todo =>
           k # i /\ outbox'[k] = outbox[k]
      BY <2>1 DEF ClaimedExist
  <2>3. ASSUME NEW r \in Relays, NEW k \in Ids, NEW j \in Ids,
               k \in relay[r].todo, outbox'[j] = outbox'[k], j < k
        PROVE  j # i
      BY <2>1, <2>2, <2>3 DEF Ids
  <2> QED
      BY <2>1, <2>2, <2>3 DEF BatchInv
<1>2. ASSUME NEW r \in Relays, Claim(r)
      PROVE  BatchInv'
  <2>1. /\ OnlyDrain(r) /\ relay[r].pc = "idle" /\ relay'[r].pc = "publish"
        /\ relay'[r].todo \subseteq Available
        /\ \A i \in relay'[r].todo : \A j \in Available :
              j \notin relay'[r].todo => i < j
      BY <1>2, ClaimFrame
  <2>2. UNCHANGED <<outbox, published>>
      BY <1>2 DEF Claim
  <2>3. \A s \in Relays : s = r
      BY DEF SingleRelay
  <2>4. Available = Committed \ published
      BY <2>1, <2>3 DEF Available, Claimed, BatchInv
  <2>5. ASSUME NEW i \in Ids, NEW j \in Ids, i \in relay'[r].todo,
               outbox[j] = outbox[i], j < i
        PROVE  j \in published \/ j \in relay'[r].todo
    <3>1. j \in Committed
        BY <2>1, <2>4, <2>5 DEF Committed
    <3> QED
        BY <2>1, <2>4, <2>5, <3>1 DEF Ids
  <2> QED
      BY <2>1, <2>2, <2>3, <2>5 DEF BatchInv
<1>3. ASSUME NEW r \in Relays, NEW i \in Ids,
             Publish(r, i) \/ PublishTwice(r, i)
      PROVE  BatchInv'
  <2>1. OnlyDrain(r) /\ SameRows(r) /\ relay'[r].pc \in {"record", "stamp"}
      BY <1>3, GotoFrame DEF Publish, PublishTwice
  <2> QED
      BY <1>3, <2>1 DEF Publish, PublishTwice, BatchInv, OnlyDrain, SameRows
<1>4. ASSUME NEW r \in Relays, NEW i \in Ids, PublishFails(r, i)
      PROVE  BatchInv'
  <2>1. OnlyDrain(r) /\ relay'[r].tx = FALSE /\ relay'[r].todo = {}
      BY <1>4, AbortFrame DEF PublishFails, Abort
  <2> QED
      BY <1>4, <2>1 DEF PublishFails, BatchInv, OnlyDrain
<1>5. ASSUME NEW r \in Relays, NEW i \in Ids, Record(r, i)
      PROVE  BatchInv'
  <2>1. OnlyDrain(r) /\ SameRows(r) /\ relay'[r].pc \in {"record", "stamp"}
      BY <1>5, GotoFrame DEF Record
  <2> QED
      BY <1>5, <2>1 DEF Record, BatchInv, OnlyDrain, SameRows
<1>6. ASSUME NEW r \in Relays, NEW i \in Ids, RecordTwice(r, i)
      PROVE  BatchInv'
  <2>1. OnlyDrain(r) /\ SameRows(r) /\ relay'[r].pc \in {"record", "stamp"}
      BY <1>6, GotoFrame DEF RecordTwice
  <2> QED
      BY <1>6, <2>1 DEF RecordTwice, BatchInv, OnlyDrain, SameRows
<1>7. ASSUME NEW r \in Relays, NEW i \in Ids, RecordFails(r, i)
      PROVE  BatchInv'
  <2>1. OnlyDrain(r) /\ relay'[r].tx = FALSE /\ relay'[r].todo = {}
      BY <1>7, AbortFrame DEF RecordFails, Abort
  <2> QED
      BY <1>7, <2>1 DEF RecordFails, BatchInv, OnlyDrain
<1>8. ASSUME NEW r \in Relays, RecordRefused(r)
      PROVE  BatchInv'
  <2>1. OnlyDrain(r) /\ relay'[r].tx = FALSE /\ relay'[r].todo = {}
      BY <1>8, AbortFrame DEF RecordRefused, Abort
  <2> QED
      BY <1>8, <2>1 DEF RecordRefused, BatchInv, OnlyDrain
<1>9. ASSUME NEW r \in Relays, NEW i \in Ids, Stamp(r, i)
      PROVE  BatchInv'
  <2>1. /\ OnlyDrain(r) /\ relay'[r].pc # "idle"
        /\ relay'[r].todo = relay[r].todo \ {i}
        /\ relay'[r].stamped = relay[r].stamped \cup {i}
        /\ UNCHANGED <<outbox, published>>
      BY <1>9, StampFrame
  <2> QED
      BY <2>1 DEF BatchInv, OnlyDrain
<1>10. ASSUME NEW r \in Relays, CommitDrain(r)
      PROVE  BatchInv'
  <2>1. /\ OnlyDrain(r) /\ relay'[r].tx = FALSE /\ relay'[r].todo = {}
        /\ published \subseteq published' /\ outbox' = outbox
      BY <1>10, AbortFrame DEF CommitDrain
  <2> QED
      BY <2>1 DEF BatchInv, OnlyDrain
<1>11. ASSUME NEW r \in Relays, LoseConnection(r)
      PROVE  BatchInv'
  <2>1. OnlyDrain(r) /\ SameRows(r) /\ relay'[r].tx = FALSE
      BY <1>11, LoseConnectionFrame
  <2> QED
      BY <1>11, <2>1 DEF LoseConnection, BatchInv, OnlyDrain, SameRows
<1>12. ASSUME NEW r \in Relays, DatabaseFails(r)
      PROVE  BatchInv'
  <2>1. OnlyDrain(r) /\ relay'[r].tx = FALSE /\ relay'[r].todo = {}
      BY <1>12, AbortFrame DEF DatabaseFails, Abort
  <2> QED
      BY <1>12, <2>1 DEF DatabaseFails, BatchInv, OnlyDrain
<1>13. ASSUME NEW r \in Relays, Restart(r)
      PROVE  BatchInv'
  <2>1. OnlyDrain(r) /\ relay'[r].tx = FALSE /\ relay'[r].todo = {}
      BY <1>13, AbortFrame DEF Restart, Abort
  <2> QED
      BY <1>13, <2>1 DEF Restart, BatchInv, OnlyDrain
<1>14. CASE UNCHANGED vars
    BY <1>14 DEF vars, BatchInv
<1> QED
    BY <1>1, <1>2, <1>3, <1>4, <1>5, <1>6, <1>7,
       <1>8, <1>9, <1>10, <1>11, <1>12, <1>13, <1>14
    DEF Next, DrainStep, FaultStep

\* A partition is closed downwards: with an event it has all the earlier ones
\* of the order.
PrefixInv ==
    \A i, j \in Ids : InKafka(i) /\ outbox[j] = outbox[i] /\ j < i => InKafka(j)

\* What is before the row at hand is in Kafka already.
LEMMA EarlierInKafka ==
    ASSUME TypeInv, BrokerInv, BatchInv, NEW r \in Relays,
           NEW i \in Ids, Current(r, i),
           NEW j \in Ids, outbox[j] = outbox[i], j < i
    PROVE  InKafka(j)
<1>1. ~(j \in relay[r].todo)
    BY DEF Current, Ids
<1> QED
    BY <1>1 DEF BatchInv, BrokerInv, Delivered, Current

LEMMA PrefixInvNext ==
    TypeInv /\ PartitionInv /\ BrokerInv /\ BatchInv /\ PrefixInv /\ [Next]_vars
        => PrefixInv'
<1> SUFFICES ASSUME TypeInv, PartitionInv, BrokerInv, BatchInv, PrefixInv,
                    [Next]_vars
             PROVE  PrefixInv'
    OBVIOUS
<1>1. CASE UNCHANGED <<outbox, kafka>>
    BY <1>1 DEF PrefixInv, InKafka
<1>2. ASSUME NEW i \in Ids, NEW o \in Orders, CommitRow(i, o)
      PROVE  PrefixInv'
  <2>1. \A j \in Ids : InKafka(j)' <=> InKafka(j)
      BY <1>2, CommitRowEffect
  <2>2. /\ outbox' = [outbox EXCEPT ![i] = o] /\ outbox[i] = None
        /\ \A j \in Ids : outbox[j] = o => j < i
        /\ outbox \in [Ids -> Orders \cup {None}]
      BY <1>2 DEF CommitRow, TypeInv, TypeOK
  <2>3. ~InKafka(i)
      BY <2>2 DEF InKafka
  <2>4. ASSUME NEW k \in Ids, NEW j \in Ids,
               InKafka(k), outbox'[j] = outbox'[k], j < k
        PROVE  InKafka(j)
    <3>1. k # i /\ outbox'[k] = outbox[k] /\ outbox[k] # None
        BY <2>2, <2>3, <2>4 DEF InKafka
    <3>2. j # i
        BY <2>2, <2>4, <3>1 DEF Ids
    <3> QED
        BY <2>2, <2>4, <3>1, <3>2 DEF PrefixInv
  <2> QED
      BY <2>1, <2>4 DEF PrefixInv
<1>3. ASSUME NEW r \in Relays, NEW i \in Ids, Current(r, i), AppendStep(i)
      PROVE  PrefixInv'
  <2>1. /\ \A j \in Ids : InKafka(j) => InKafka(j)'
        /\ \A j \in Ids : InKafka(j)' => InKafka(j) \/ j = i
      BY <1>3, AppendStepEffect DEF Current
  <2>2. outbox' = outbox
      BY <1>3 DEF AppendStep
  <2> QED
      BY <1>3, <2>1, <2>2, EarlierInKafka DEF PrefixInv
<1> QED
    BY <1>1, <1>2, <1>3, AppendsCurrent

\* n is fine in a log: its event was there before, or is the latest so far.
InOrder(log, n) ==
    \/ \E m \in 1 .. n - 1 : log[m] = log[n]
    \/ \A m \in 1 .. n - 1 : log[m] < log[n]

LEMMA AppendInOrder ==
    ASSUME NEW log \in Seq(Ids), NEW i \in Ids,
           \A n \in DOMAIN log : InOrder(log, n),
           (\E m \in DOMAIN log : log[m] = i) \/ (\A m \in DOMAIN log : log[m] < i)
    PROVE  /\ Append(log, i) \in Seq(Ids)
           /\ \A n \in DOMAIN Append(log, i) : InOrder(Append(log, i), n)
           /\ \E m \in DOMAIN Append(log, i) : Append(log, i)[m] = i
<1> DEFINE new == Append(log, i)
<1>1. /\ new \in Seq(Ids) /\ Len(log) \in Nat /\ Len(new) = Len(log) + 1
      /\ DOMAIN log = 1 .. Len(log) /\ DOMAIN new = 1 .. Len(new)
      /\ \A n \in 1 .. Len(log) : new[n] = log[n]
      /\ new[Len(log) + 1] = i
    BY AppendKeeps
<1> HIDE DEF new
<1>2. ASSUME NEW n \in 1 .. Len(log)
      PROVE  InOrder(new, n)
  <2>1. \A m \in 1 .. n - 1 : m \in 1 .. Len(log)
      BY <1>1
  <2> QED
      BY <1>1, <2>1 DEF InOrder
<1>3. InOrder(new, Len(log) + 1)
    BY <1>1 DEF InOrder
<1>4. \A n \in DOMAIN new : n \in 1 .. Len(log) \/ n = Len(log) + 1
    BY <1>1
<1> QED
    BY <1>1, <1>2, <1>3, <1>4 DEF new

LEMMA OrderNext ==
    /\ TypeInv /\ PartitionInv /\ PrefixInv
    /\ KafkaKeepsOrder /\ [Next]_vars
    => KafkaKeepsOrder'
<1> SUFFICES ASSUME TypeInv, PartitionInv, PrefixInv, KafkaKeepsOrder,
                    [Next]_vars
             PROVE  KafkaKeepsOrder'
    OBVIOUS
<1>1. CASE kafka' = kafka
    BY <1>1 DEF KafkaKeepsOrder
<1>2. ASSUME NEW r \in Relays, NEW i \in Ids, Current(r, i), AppendStep(i)
      PROVE  KafkaKeepsOrder'
  <2> DEFINE p == outbox[i]
  <2> DEFINE log == kafka[p]
  <2>1. /\ p \in Orders /\ log \in Seq(Ids)
        /\ kafka \in [Orders -> Seq(Ids)]
      BY <1>2, AppendedType DEF Current, TypeInv, TypeOK
  <2>2. \A n \in DOMAIN log : InOrder(log, n)
      BY <2>1 DEF KafkaKeepsOrder, InOrder
  <2>3. (\E m \in DOMAIN log : log[m] = i) \/ (\A m \in DOMAIN log : log[m] < i)
    <3>1. \A m \in DOMAIN log :
             log[m] \in Ids /\ InKafka(log[m]) /\ outbox[log[m]] = p
        BY <2>1 DEF PartitionInv, InKafka
    <3>2. InKafka(i) => \E m \in DOMAIN log : log[m] = i
        BY DEF InKafka
    <3>3. \A k \in Ids : k = i \/ k < i \/ i < k
        BY DEF Ids
    <3> QED
        BY <3>1, <3>2, <3>3 DEF PrefixInv
  <2>4. ASSUME NEW new \in Seq(Ids), kafka' = [kafka EXCEPT ![p] = new],
               \A n \in DOMAIN new : InOrder(new, n)
        PROVE  KafkaKeepsOrder'
    <3>1. \A o \in Orders : kafka'[o] = new \/ kafka'[o] = kafka[o]
        BY <2>1, <2>4
    <3>2. ASSUME NEW o \in Orders, NEW n \in DOMAIN kafka'[o]
          PROVE  InOrder(kafka'[o], n)
        BY <2>4, <3>1, <3>2 DEF KafkaKeepsOrder, InOrder
    <3> QED
        BY <3>2 DEF KafkaKeepsOrder, InOrder
  <2> DEFINE one == Append(log, i)
  <2>5. /\ one \in Seq(Ids) /\ \A n \in DOMAIN one : InOrder(one, n)
        /\ \E m \in DOMAIN one : one[m] = i
      BY <2>1, <2>2, <2>3, AppendInOrder
  <2>6. CASE kafka' = Appended(i)
    <3>1. kafka' = [kafka EXCEPT ![p] = one]
        BY <2>6 DEF Appended
    <3> HIDE DEF one, p
    <3> QED
        BY <2>4, <2>5, <3>1
  <2>7. CASE kafka' = [kafka EXCEPT ![outbox[i]] = Append(Append(@, i), i)]
    <3> DEFINE two == Append(one, i)
    <3>1. kafka' = [kafka EXCEPT ![p] = two]
        BY <2>7
    <3> HIDE DEF one, p
    <3>2. two \in Seq(Ids) /\ \A n \in DOMAIN two : InOrder(two, n)
        BY <2>5, AppendInOrder
    <3> HIDE DEF two
    <3> QED
        BY <2>4, <3>1, <3>2
  <2> QED
      BY <1>1, <1>2, <2>6, <2>7 DEF AppendStep
<1>3. ASSUME NEW i \in Ids, NEW o \in Orders, CommitRow(i, o)
      PROVE  kafka' = kafka
    BY <1>3 DEF CommitRow
<1> QED
    BY <1>1, <1>2, <1>3, AppendsCurrent

\* With one relay process an auditor who drops duplicates reads the events of
\* an order in the order of their ids, whatever fails and restarts.
THEOREM SingleRelayKeepsOrder ==
    ASSUME SingleRelay
    PROVE  Spec => []KafkaKeepsOrder
<1>1. Init => PrefixInv /\ KafkaKeepsOrder
    BY DEF Init, PrefixInv, KafkaKeepsOrder, InKafka
<1>2. TypeInv /\ BatchInv /\ [Next]_vars => BatchInv'
    BY BatchInvNext
<1> QED
    BY <1>1, <1>2, TypeInvariant, PartitionInvariant, BrokerInvariant,
       BatchInvInit, PrefixInvNext, OrderNext, PTL DEF Spec

-----------------------------------------------------------------------------
(* The relays implement an at-least-once channel                           *)

\* Initial states and steps map to those of the channel: with the mapping of
\* OutboxRelay, a drain's steps are deliveries or stutters and its commit
\* finishes the events of the batch.
THEOREM Refinement == Spec => ImplementsAtLeastOnce
<1> DEFINE sent == Committed
           announced == {i \in Ids : rabbit[i] > 0}
           audited == {i \in Ids : InKafka(i)}
<1>1. Init => Channel!Init
    BY DEF Init, Channel!Init, Committed, InKafka
<1>2. /\ TypeInv /\ PartitionInv /\ BrokerInv /\ [Next]_vars
      => [Channel!Next]_Channel!vars
  <2> SUFFICES ASSUME TypeInv, PartitionInv, BrokerInv, [Next]_vars
               PROVE  Channel!Next \/ UNCHANGED Channel!vars
      OBVIOUS
  <2>1. ASSUME NEW i \in Ids, NEW o \in Orders, CommitRow(i, o)
        PROVE  Channel!Next
    <3>1. /\ outbox' = [outbox EXCEPT ![i] = o]
          /\ outbox \in [Ids -> Orders \cup {None}]
          /\ UNCHANGED <<published, rabbit>>
        BY <2>1 DEF CommitRow, TypeInv, TypeOK
    <3>2. sent' = sent \cup {i}
        BY <3>1 DEF Committed
    <3>3. audited' = audited
        BY <2>1, CommitRowEffect
    <3>4. Channel!Send(i)
        BY <3>1, <3>2, <3>3 DEF Channel!Send
    <3> QED
        BY <3>4 DEF Channel!Next
  <2>2. ASSUME NEW r \in Relays, NEW i \in Ids,
               Publish(r, i) \/ PublishTwice(r, i) \/ PublishFails(r, i)
        PROVE  Channel!Next \/ UNCHANGED Channel!vars
    <3>1. /\ UNCHANGED <<outbox, published, kafka>>
          /\ i \in relay[r].todo
        BY <2>2 DEF Publish, PublishTwice, PublishFails, Current
    <3>2. PICK copies \in {0, 1, 2} : rabbit' = [rabbit EXCEPT ![i] = Announced(i, copies)]
        BY <2>2 DEF Publish, PublishTwice, PublishFails
    <3>3. sent' = sent /\ audited' = audited /\ i \in sent
        BY <3>1 DEF Committed, InKafka, TypeInv, ClaimedExist
    <3>4. announced' = announced \/ announced' = announced \cup {i}
        BY <3>2, AnnouncedType DEF TypeInv, TypeOK
    <3>5. CASE announced' = announced
        BY <3>1, <3>3, <3>5 DEF Channel!vars
    <3>6. CASE announced' # announced
      <4>1. i \notin published
          BY <3>4, <3>6 DEF BrokerInv, Delivered
      <4>2. Channel!Announce(i)
          BY <3>1, <3>3, <3>4, <3>6, <4>1 DEF Channel!Announce
      <4> QED
          BY <4>2 DEF Channel!Next
    <3> QED
        BY <3>5, <3>6
  <2>3. ASSUME NEW r \in Relays, NEW i \in Ids,
               Record(r, i) \/ RecordTwice(r, i) \/ RecordFails(r, i)
        PROVE  Channel!Next \/ UNCHANGED Channel!vars
    <3>1. /\ UNCHANGED <<outbox, published, rabbit>>
          /\ Current(r, i) /\ relay[r].pc = "record"
        BY <2>3 DEF Record, RecordTwice, RecordFails
    <3>2. sent' = sent /\ announced' = announced /\ i \in announced
        BY <3>1 DEF Committed, BrokerInv
    <3>3. audited' = audited \/ audited' = audited \cup {i}
        BY <2>3, RecordEffect, SentStaysSent
    <3>4. CASE audited' = audited
        BY <3>1, <3>2, <3>4 DEF Channel!vars
    <3>5. CASE audited' # audited
      <4>1. i \notin published
          BY <3>3, <3>5 DEF BrokerInv, Delivered
      <4>2. Channel!Audit(i)
          BY <3>1, <3>2, <3>3, <3>5, <4>1 DEF Channel!Audit
      <4> QED
          BY <4>2 DEF Channel!Next
    <3> QED
        BY <3>4, <3>5
  <2>4. ASSUME NEW r \in Relays, CommitDrain(r)
        PROVE  Channel!Next
    <3>1. /\ UNCHANGED <<outbox, rabbit, kafka>>
          /\ published' = published \cup relay[r].stamped
        BY <2>4 DEF CommitDrain
    <3>2. sent' = sent /\ announced' = announced /\ audited' = audited
        BY <3>1 DEF Committed, InKafka
    <3>3. relay[r].stamped \in SUBSET Ids
        BY DEF TypeInv, TypeOK, Drain
    <3>4. relay[r].stamped \subseteq announced \cap audited
        BY <3>3 DEF BrokerInv, Delivered
    <3>5. Channel!Finish(relay[r].stamped)
        BY <3>1, <3>2, <3>4 DEF Channel!Finish
    <3> QED
        BY <3>3, <3>5 DEF Channel!Next
  <2>5. ASSUME UNCHANGED <<outbox, published, rabbit, kafka>>
        PROVE  UNCHANGED Channel!vars
      BY <2>5 DEF Channel!vars, Committed, InKafka
  <2>6. ASSUME NEW r \in Relays,
               \/ Claim(r) \/ RecordRefused(r) \/ DatabaseFails(r)
               \/ LoseConnection(r) \/ Restart(r)
               \/ \E i \in Ids : Stamp(r, i)
        PROVE  UNCHANGED <<outbox, published, rabbit, kafka>>
      BY <2>6 DEF Claim, RecordRefused, DatabaseFails, LoseConnection, Restart, Stamp
  <2>7. CASE UNCHANGED vars
      BY <2>5, <2>7 DEF vars
  <2> QED
      BY <2>1, <2>2, <2>3, <2>4, <2>5, <2>6, <2>7 DEF Next, DrainStep, FaultStep
<1> QED
    BY <1>1, <1>2, TypeInvariant, PartitionInvariant, BrokerInvariant, PTL
    DEF Spec, ImplementsAtLeastOnce, Channel!Spec

-----------------------------------------------------------------------------
(* Every duplicate has a cause                                             *)

\* Row i is in the batch of r's drain, and r has not announced it yet.
ToPublish(r, i) ==
    /\ i \in relay[r].todo
    /\ relay[r].pc \in {"record", "stamp"} => ~Current(r, i)

\* The connection is lost, and r is going to announce i before it finds out.
Orphan(r, i) == ~relay[r].tx /\ ToPublish(r, i)

Orphans(i) == {r \in Relays : Orphan(r, i)}

\* A transaction that still may commit has announced i.
Pays(r, i) == Holds(r, i) /\ ~ToPublish(r, i)

Paid(i) == i \in published \/ \E r \in Relays : Pays(r, i)

\* Of the times i was announced, or will be by a drain that has lost its
\* transaction, all but the one that counts are paid for by a failure.
CauseOf(i) ==
    /\ IsFiniteSet(Orphans(i))
    /\ rabbit[i] + Cardinality(Orphans(i)) <= faults + (IF Paid(i) THEN 1 ELSE 0)

CauseInv ==
    /\ \A r \in Relays : relay[r].pc = "idle" => ~relay[r].tx
    /\ \A i \in Ids : CauseOf(i)

LEMMA CauseInvInit == Init => CauseInv
<1> SUFFICES ASSUME Init
             PROVE  CauseInv
    OBVIOUS
<1>1. \A r \in Relays : ~relay[r].tx /\ relay[r].todo = {}
    BY DEF Init, NotDraining
<1>2. \A i \in Ids : Orphans(i) = {}
    BY <1>1 DEF Orphans, Orphan, ToPublish
<1>3. ASSUME NEW i \in Ids
      PROVE  CauseOf(i)
    <2>1. IsFiniteSet(Orphans(i)) /\ Cardinality(Orphans(i)) = 0
        BY <1>2, FS_EmptySet
    <2>2. rabbit[i] = 0 /\ faults = 0
        BY DEF Init
    <2> QED
        BY <2>1, <2>2 DEF CauseOf
<1> QED
    BY <1>1, <1>3 DEF CauseInv

Weight(r, i) == IF Orphan(r, i) THEN 1 ELSE 0

\* A step of r makes r an orphan of i, or no longer one, and nobody else.
LEMMA OrphansStep ==
    ASSUME NEW r \in Relays, OnlyDrain(r), NEW i \in Ids, IsFiniteSet(Orphans(i))
    PROVE  /\ IsFiniteSet(Orphans(i)')
           /\ Cardinality(Orphans(i)) \in Nat /\ Cardinality(Orphans(i)') \in Nat
           /\ Cardinality(Orphans(i)') + Weight(r, i)
                 = Cardinality(Orphans(i)) + Weight(r, i)'
<1>1. \A s \in Relays : s # r => (Orphan(s, i)' <=> Orphan(s, i))
    BY DEF OnlyDrain, Orphan, ToPublish, Current
<1> DEFINE others == Orphans(i) \ {r}
<1>2. /\ IsFiniteSet(others) /\ Cardinality(others) \in Nat
      /\ Cardinality(Orphans(i)) \in Nat
      /\ Cardinality(Orphans(i)) = Cardinality(others) + Weight(r, i)
    <2>1. IsFiniteSet(others)
        BY FS_RemoveElement
    <2>2. Cardinality(others) \in Nat /\ Cardinality(Orphans(i)) \in Nat
        BY <2>1, FS_CardinalityType
    <2>3. r \in Orphans(i) <=> Orphan(r, i)
        BY DEF Orphans
    <2>4. Cardinality(others) = IF r \in Orphans(i) THEN Cardinality(Orphans(i)) - 1
                                ELSE Cardinality(Orphans(i))
        BY FS_RemoveElement
    <2> QED
        BY <2>1, <2>2, <2>3, <2>4 DEF Weight
<1>3. Orphans(i)' = IF Orphan(r, i)' THEN others \cup {r} ELSE others
    BY <1>1 DEF Orphans
<1>4. r \notin others
    OBVIOUS
<1> HIDE DEF others
<1>5. /\ IsFiniteSet(others \cup {r})
      /\ Cardinality(others \cup {r}) = Cardinality(others) + 1
    BY <1>2, <1>4, FS_AddElement
<1>6. CASE Orphan(r, i)'
    BY <1>2, <1>3, <1>5, <1>6 DEF Weight
<1>7. CASE ~Orphan(r, i)'
    BY <1>2, <1>3, <1>7 DEF Weight
<1> QED
    BY <1>6, <1>7

\* The books of row i balance after a step of r: r announces it for its own
\* transaction, or a failure pays for what is announced or no longer counts.
LEMMA CauseFrame ==
    ASSUME TypeInv, ClaimsInv, NEW i \in Ids, CauseOf(i), rabbit'[i] \in Nat,
           NEW r \in Relays, OnlyDrain(r), published \subseteq published',
           NEW n \in {0, 1}, faults' = faults + n,
           \/ /\ Pays(r, i) => Pays(r, i)' \/ i \in published'
              /\ rabbit'[i] + Weight(r, i)' <= rabbit[i] + Weight(r, i) + n
           \/ /\ Holds(r, i) /\ ToPublish(r, i) /\ Pays(r, i)'
              /\ rabbit'[i] <= rabbit[i] + n + 1
           \/ /\ n = 1
              /\ rabbit'[i] + Weight(r, i)' <= rabbit[i] + Weight(r, i)
    PROVE  CauseOf(i)'
<1>1. \A s \in Relays : s # r => (Pays(s, i)' <=> Pays(s, i))
    BY DEF OnlyDrain, Pays, Holds, ToPublish, Current
<1>2. /\ IsFiniteSet(Orphans(i)')
      /\ Cardinality(Orphans(i)) \in Nat /\ Cardinality(Orphans(i)') \in Nat
      /\ Cardinality(Orphans(i)') + Weight(r, i)
            = Cardinality(Orphans(i)) + Weight(r, i)'
    BY OrphansStep DEF CauseOf
<1>3. rabbit[i] \in Nat /\ faults \in Nat
    BY DEF TypeInv, TypeOK
<1>4. Weight(r, i) \in {0, 1} /\ Weight(r, i)' \in {0, 1}
    BY DEF Weight
<1>5. rabbit[i] + Cardinality(Orphans(i)) <= faults + (IF Paid(i) THEN 1 ELSE 0)
    BY DEF CauseOf
<1>6. SUFFICES rabbit'[i] + Cardinality(Orphans(i)')
                  <= faults' + (IF Paid(i)' THEN 1 ELSE 0)
    BY <1>2 DEF CauseOf
<1>7. CASE /\ Pays(r, i) => Pays(r, i)' \/ i \in published'
           /\ rabbit'[i] + Weight(r, i)' <= rabbit[i] + Weight(r, i) + n
    <2>1. Paid(i) => Paid(i)'
        BY <1>1, <1>7 DEF Paid
    <2> QED
        BY <1>2, <1>3, <1>4, <1>5, <1>7, <2>1
<1>8. CASE /\ Holds(r, i) /\ ToPublish(r, i) /\ Pays(r, i)'
           /\ rabbit'[i] <= rabbit[i] + n + 1
    <2>1. ~Paid(i) /\ Paid(i)'
        BY <1>8 DEF Paid, Pays, ClaimsInv
    <2>2. Weight(r, i) = 0 /\ Weight(r, i)' = 0
        BY <1>8 DEF Weight, Orphan, Pays, Holds
    <2> QED
        BY <1>2, <1>3, <1>5, <1>8, <2>1, <2>2
<1>9. CASE /\ n = 1
           /\ rabbit'[i] + Weight(r, i)' <= rabbit[i] + Weight(r, i)
    BY <1>2, <1>3, <1>4, <1>5, <1>9
<1> QED
    BY <1>7, <1>8, <1>9

LEMMA AnnouncedBound ==
    ASSUME TypeInv, NEW i \in Ids, NEW j \in Ids, NEW copies \in {0, 1, 2},
           rabbit' = [rabbit EXCEPT ![i] = Announced(i, copies)]
    PROVE  /\ rabbit'[j] \in Nat
           /\ rabbit'[j] <= rabbit[j] + (IF i = j THEN copies ELSE 0)
BY DEF Announced, MaxCopies, TypeInv, TypeOK

\* Publishing row i, once or twice with n failures, keeps the books of every row.
LEMMA CausePublish ==
    ASSUME TypeInv, ClaimsInv, CauseInv, NEW r \in Relays, NEW i \in Ids,
           relay[r].pc = "publish", Current(r, i), Goto(r, "record"),
           NEW n \in {0, 1}, faults' = faults + n, UNCHANGED published,
           rabbit' = [rabbit EXCEPT ![i] = Announced(i, n + 1)]
    PROVE  CauseInv'
<1>1. /\ OnlyDrain(r) /\ SameRows(r)
      /\ relay'[r].pc = "record" /\ relay'[r].tx = relay[r].tx
    BY GotoFrame DEF TypeInv
<1>2. ASSUME NEW j \in Ids
      PROVE  CauseOf(j)'
    <2>1. CauseOf(j)
        BY DEF CauseInv
    <2>2. rabbit'[j] \in Nat /\ rabbit'[j] <= rabbit[j] + (IF i = j THEN n + 1 ELSE 0)
        <3>1. n + 1 \in {0, 1, 2}
            OBVIOUS
        <3> QED
            BY <3>1, AnnouncedBound
    <2>3. rabbit[j] \in Nat
        BY DEF TypeInv, TypeOK
    <2>4. Current(r, i)'
        BY <1>1 DEF Current, SameRows
    <2>5. CASE i # j
        <3>1. ToPublish(r, j)' <=> ToPublish(r, j)
            BY <1>1, <2>4, <2>5, CurrentUnique DEF ToPublish, SameRows, Current, Ids
        <3>2. /\ Pays(r, j)' <=> Pays(r, j)
              /\ Weight(r, j)' = Weight(r, j)
            BY <1>1, <3>1 DEF Pays, Holds, SameRows, Weight, Orphan
        <3>3. Weight(r, j) \in {0, 1}
            BY DEF Weight
        <3> QED
            BY <1>1, <2>1, <2>2, <2>3, <2>5, <3>2, <3>3, CauseFrame
    <2>6. CASE i = j
        <3>1. ToPublish(r, j) /\ ~ToPublish(r, j)'
            BY <1>1, <2>4, <2>6 DEF ToPublish, Current
        <3>2. CASE relay[r].tx
            <4>1. Holds(r, j) /\ Pays(r, j)'
                BY <1>1, <2>6, <3>1, <3>2 DEF Pays, Holds, ToPublish, SameRows
            <4> QED
                BY <1>1, <2>1, <2>2, <2>3, <2>6, <3>1, <4>1, CauseFrame
        <3>3. CASE ~relay[r].tx
            <4>1. /\ Weight(r, j) = 1 /\ Weight(r, j)' = 0
                  /\ ~Pays(r, j)
                BY <1>1, <3>1, <3>3 DEF Weight, Orphan, Pays, Holds
            <4> QED
                BY <1>1, <2>1, <2>2, <2>3, <2>6, <4>1, CauseFrame
        <3> QED
            BY <3>2, <3>3
    <2> QED
        BY <2>5, <2>6
<1>3. \A s \in Relays : relay'[s].pc = "idle" => ~relay'[s].tx
    BY <1>1 DEF CauseInv, OnlyDrain
<1> QED
    BY <1>2, <1>3 DEF CauseInv

\* A drain that is aborted has paid with a failure, or its transaction was lost
\* before.
LEMMA CauseAbort ==
    ASSUME TypeInv, ClaimsInv, CauseInv, NEW r \in Relays,
           relay' = [relay EXCEPT ![r] = NotDraining],
           faults' = faults + 1 \/ (faults' = faults /\ ~relay[r].tx),
           UNCHANGED published,
           \A j \in Ids : /\ rabbit'[j] \in Nat
                          /\ \/ rabbit'[j] <= rabbit[j]
                             \/ /\ rabbit'[j] <= rabbit[j] + 1
                                /\ faults' = faults + 1 /\ ToPublish(r, j)
    PROVE  CauseInv'
<1>1. OnlyDrain(r) /\ relay'[r].todo = {} /\ ~relay'[r].tx
    BY AbortFrame DEF TypeInv
<1>2. ASSUME NEW j \in Ids
      PROVE  CauseOf(j)'
    <2>1. CauseOf(j) /\ rabbit[j] \in Nat /\ rabbit'[j] \in Nat /\ faults \in Nat
        BY DEF CauseInv, TypeInv, TypeOK
    <2>2. Weight(r, j)' = 0 /\ Weight(r, j) \in {0, 1}
        BY <1>1 DEF Weight, Orphan, ToPublish
    <2>3. CASE rabbit'[j] <= rabbit[j] /\ faults' = faults + 1
        <3>1. rabbit'[j] + Weight(r, j)' <= rabbit[j] + Weight(r, j)
            BY <2>1, <2>2, <2>3
        <3> QED
            BY <1>1, <2>1, <2>3, <3>1, CauseFrame
    <2>4. CASE rabbit'[j] <= rabbit[j] /\ faults' = faults + 0 /\ ~relay[r].tx
        <3>1. ~Pays(r, j)
            BY <2>4 DEF Pays, Holds
        <3> QED
            BY <1>1, <2>1, <2>2, <2>4, <3>1, CauseFrame
    <2>5. CASE rabbit'[j] <= rabbit[j] + 1 /\ faults' = faults + 1 /\ ToPublish(r, j)
        <3>1. ~Pays(r, j)
            BY <2>5 DEF Pays
        <3> QED
            BY <1>1, <2>1, <2>2, <2>5, <3>1, CauseFrame
    <2> QED
        BY <2>1, <2>3, <2>4, <2>5
<1>3. \A s \in Relays : relay'[s].pc = "idle" => ~relay'[s].tx
    BY <1>1 DEF CauseInv, OnlyDrain
<1> QED
    BY <1>2, <1>3 DEF CauseInv

\* A step in which nothing is announced and r keeps its row, its transaction,
\* and what it has left to announce.
LEMMA CauseKept ==
    ASSUME TypeInv, ClaimsInv, CauseInv, NEW r \in Relays, OnlyDrain(r),
           NEW n \in {0, 1}, faults' = faults + n,
           UNCHANGED rabbit, published \subseteq published',
           relay'[r].pc = "idle" => ~relay'[r].tx,
           \A j \in Ids : /\ Weight(r, j)' <= Weight(r, j)
                          /\ Pays(r, j) => Pays(r, j)' \/ j \in published'
    PROVE  CauseInv'
<1>1. ASSUME NEW j \in Ids
      PROVE  CauseOf(j)'
    <2>1. CauseOf(j) /\ rabbit[j] \in Nat
        BY DEF CauseInv, TypeInv, TypeOK
    <2>2. Weight(r, j)' \in {0, 1} /\ Weight(r, j) \in {0, 1}
        BY DEF Weight
    <2> QED
        BY <2>1, <2>2, CauseFrame
<1>2. \A s \in Relays : relay'[s].pc = "idle" => ~relay'[s].tx
    BY DEF CauseInv, OnlyDrain
<1> QED
    BY <1>1, <1>2 DEF CauseInv

\* The producers are connected: none refuses a record, which would have a drain
\* announce its first row again at every tick.
AllConnected == \A r \in Relays : connected[r]

LEMMA CauseInvNext ==
    TypeInv /\ ClaimsInv /\ AllConnected /\ CauseInv /\ [Next]_vars => CauseInv'
<1> SUFFICES ASSUME TypeInv, ClaimsInv, AllConnected, CauseInv, [Next]_vars
             PROVE  CauseInv'
    OBVIOUS
<1>0. faults \in Nat /\ faults = faults + 0 /\ relay \in [Relays -> Drain]
    BY DEF TypeInv, TypeOK
<1>1. ASSUME NEW i \in Ids, NEW o \in Orders, CommitRow(i, o)
      PROVE  CauseInv'
    BY <1>1 DEF CommitRow, CauseInv, CauseOf, Orphans, Orphan, ToPublish, Current,
                Paid, Pays, Holds
<1>2. ASSUME NEW r \in Relays, Claim(r)
      PROVE  CauseInv'
    <2>1. /\ OnlyDrain(r) /\ relay'[r].pc = "publish" /\ relay'[r].tx
          /\ relay[r].pc = "idle"
          /\ UNCHANGED <<published, rabbit, faults>>
        BY <1>2, ClaimFrame DEF Claim, TypeInv
    <2>2. ASSUME NEW j \in Ids
          PROVE  /\ Weight(r, j)' <= Weight(r, j)
                 /\ Pays(r, j) => Pays(r, j)' \/ j \in published'
        BY <2>1 DEF Weight, Orphan, Pays, Holds, CauseInv
    <2> QED
        BY <1>0, <2>1, <2>2, CauseKept
<1>3. ASSUME NEW r \in Relays, NEW i \in Ids, Publish(r, i)
      PROVE  CauseInv'
    <2>1. rabbit' = [rabbit EXCEPT ![i] = Announced(i, 0 + 1)]
        BY <1>3 DEF Publish
    <2> QED
        BY <1>0, <1>3, <2>1, CausePublish DEF Publish
<1>4. ASSUME NEW r \in Relays, NEW i \in Ids, PublishTwice(r, i)
      PROVE  CauseInv'
    <2>1. rabbit' = [rabbit EXCEPT ![i] = Announced(i, 1 + 1)]
        BY <1>4 DEF PublishTwice
    <2> QED
        BY <1>4, <2>1, CausePublish DEF PublishTwice, Fault
<1>5. ASSUME NEW r \in Relays, NEW i \in Ids, PublishFails(r, i)
      PROVE  CauseInv'
    <2>1. PICK copies \in {0, 1} : rabbit' = [rabbit EXCEPT ![i] = Announced(i, copies)]
        BY <1>5 DEF PublishFails
    <2>2. ToPublish(r, i)
        BY <1>5 DEF PublishFails, ToPublish, Current
    <2>3. ASSUME NEW j \in Ids
          PROVE  /\ rabbit'[j] \in Nat
                 /\ \/ rabbit'[j] <= rabbit[j]
                    \/ rabbit'[j] <= rabbit[j] + 1 /\ ToPublish(r, j)
        <3>1. rabbit'[j] \in Nat /\ rabbit[j] \in Nat
            BY <2>1, AnnouncedBound DEF TypeInv, TypeOK
        <3>2. i # j => rabbit'[j] = rabbit[j]
            BY <2>1 DEF TypeInv, TypeOK
        <3> QED
            BY <2>1, <2>2, <3>1, <3>2 DEF Announced, TypeInv, TypeOK
    <2>4. /\ relay' = [relay EXCEPT ![r] = NotDraining]
          /\ faults' = faults + 1 /\ UNCHANGED published
        BY <1>5 DEF PublishFails, Abort, Fault
    <2> QED
        BY <2>3, <2>4, CauseAbort
<1>6. ASSUME NEW r \in Relays, NEW i \in Ids, Record(r, i) \/ RecordTwice(r, i)
      PROVE  CauseInv'
    <2>1. /\ OnlyDrain(r) /\ SameRows(r)
          /\ relay[r].pc = "record" /\ Current(r, i)
          /\ relay'[r].pc = "stamp" /\ relay'[r].tx = relay[r].tx
        BY <1>6, GotoFrame DEF Record, RecordTwice, TypeInv
    <2>2. /\ UNCHANGED <<published, rabbit>>
          /\ \E n \in {0, 1} : faults' = faults + n
        BY <1>0, <1>6 DEF Record, RecordTwice, Fault
    <2>3. ASSUME NEW j \in Ids
          PROVE  /\ Weight(r, j)' <= Weight(r, j)
                 /\ Pays(r, j) => Pays(r, j)' \/ j \in published'
        BY <2>1 DEF Weight, Orphan, Pays, Holds, ToPublish, SameRows, Current
    <2> QED
        BY <2>1, <2>2, <2>3, CauseKept
<1>7. ASSUME NEW r \in Relays, NEW i \in Ids, RecordFails(r, i)
      PROVE  CauseInv'
    <2>1. \A j \in Ids : rabbit'[j] \in Nat /\ rabbit'[j] <= rabbit[j]
        BY <1>7 DEF RecordFails, TypeInv, TypeOK
    <2> QED
        BY <1>7, <2>1, CauseAbort DEF RecordFails, Abort, Fault
<1>8. ASSUME NEW r \in Relays, RecordRefused(r)
      PROVE  CauseInv'
    BY <1>8 DEF RecordRefused, AllConnected
<1>9. ASSUME NEW r \in Relays, NEW i \in Ids, Stamp(r, i)
      PROVE  CauseInv'
    <2>1. /\ OnlyDrain(r) /\ relay'[r].pc \in {"publish", "commit"}
          /\ relay[r].tx /\ relay'[r].tx
          /\ relay'[r].todo = relay[r].todo \ {i}
          /\ relay'[r].stamped = relay[r].stamped \cup {i}
          /\ UNCHANGED <<published, rabbit, faults>>
        BY <1>9, StampFrame DEF TypeInv
    <2>2. relay[r].pc = "stamp" /\ Current(r, i)
        BY <1>9 DEF Stamp
    <2>3. ASSUME NEW j \in Ids
          PROVE  /\ Weight(r, j)' <= Weight(r, j)
                 /\ Pays(r, j) => Pays(r, j)' \/ j \in published'
        <3>1. ToPublish(r, j)' => ToPublish(r, j)
            BY <2>1, <2>2, CurrentUnique DEF ToPublish
        <3> QED
            BY <2>1, <3>1 DEF Weight, Orphan, Pays, Holds
    <2> QED
        BY <1>0, <2>1, <2>3, CauseKept
<1>10. ASSUME NEW r \in Relays, CommitDrain(r)
      PROVE  CauseInv'
    <2>1. /\ OnlyDrain(r) /\ relay'[r].tx = FALSE /\ relay'[r].todo = {}
          /\ relay[r].tx /\ relay[r].pc = "commit"
          /\ published' = published \cup relay[r].stamped
          /\ UNCHANGED <<rabbit, faults>>
        BY <1>10, AbortFrame DEF CommitDrain, TypeInv
    <2>2. ASSUME NEW j \in Ids
          PROVE  /\ Weight(r, j)' <= Weight(r, j)
                 /\ Pays(r, j) => Pays(r, j)' \/ j \in published'
        BY <2>1 DEF Weight, Orphan, Pays, Holds, ToPublish
    <2> QED
        BY <1>0, <2>1, <2>2, CauseKept
<1>11. ASSUME NEW r \in Relays, LoseConnection(r)
      PROVE  CauseInv'
    <2>1. /\ OnlyDrain(r) /\ SameRows(r) /\ relay'[r].tx = FALSE
          /\ relay'[r].pc = relay[r].pc /\ relay[r].tx
          /\ UNCHANGED <<published, rabbit>> /\ faults' = faults + 1
        BY <1>11, LoseConnectionFrame DEF LoseConnection, Fault, TypeInv
    <2>2. ASSUME NEW j \in Ids
          PROVE  CauseOf(j)'
        <3>1. CauseOf(j) /\ rabbit[j] \in Nat /\ rabbit'[j] = rabbit[j]
            BY <2>1 DEF CauseInv, TypeInv, TypeOK
        <3>2. ToPublish(r, j)' <=> ToPublish(r, j)
            BY <2>1 DEF ToPublish, SameRows, Current
        <3>3. Weight(r, j) = 0
            BY <2>1 DEF Weight, Orphan
        <3>4. CASE ToPublish(r, j)
            <4>1. ~Pays(r, j) /\ Weight(r, j)' = 1
                BY <2>1, <3>2, <3>4 DEF Pays, Weight, Orphan
            <4> QED
                BY <2>1, <3>1, <3>3, <4>1, CauseFrame
        <3>5. CASE ~ToPublish(r, j)
            <4>1. Weight(r, j)' = 0
                BY <3>2, <3>5 DEF Weight, Orphan
            <4> QED
                BY <2>1, <3>1, <3>3, <4>1, CauseFrame
        <3> QED
            BY <3>4, <3>5
    <2>3. \A s \in Relays : relay'[s].pc = "idle" => ~relay'[s].tx
        BY <2>1 DEF CauseInv, OnlyDrain
    <2> QED
        BY <2>2, <2>3 DEF CauseInv
<1>12. ASSUME NEW r \in Relays, DatabaseFails(r)
      PROVE  CauseInv'
    <2>1. \A j \in Ids : rabbit'[j] \in Nat /\ rabbit'[j] <= rabbit[j]
        BY <1>12 DEF DatabaseFails, TypeInv, TypeOK
    <2> QED
        BY <1>0, <1>12, <2>1, CauseAbort DEF DatabaseFails, Abort
<1>13. ASSUME NEW r \in Relays, Restart(r)
      PROVE  CauseInv'
    <2>1. \A j \in Ids : rabbit'[j] \in Nat /\ rabbit'[j] <= rabbit[j]
        BY <1>13 DEF Restart, TypeInv, TypeOK
    <2> QED
        BY <1>13, <2>1, CauseAbort DEF Restart, Abort, Fault
<1>14. CASE UNCHANGED vars
    BY <1>14 DEF vars, CauseInv, CauseOf, Orphans, Orphan, ToPublish, Current,
                 Paid, Pays, Holds
<1> QED
    BY <1>1, <1>2, <1>3, <1>4, <1>5, <1>6, <1>7,
       <1>8, <1>9, <1>10, <1>11, <1>12, <1>13, <1>14
    DEF Next, DrainStep, FaultStep

\* An event is published once, plus once more at most for every failure, by any
\* number of relays that drain, tick and restart as they like -- as long as the
\* producers are connected: without Kafka a drain announces its first row at
\* every tick and never stamps it.
THEOREM DuplicatesArePaidFor ==
    Spec /\ []AllConnected => []DuplicatesHaveACause
<1>1. TypeInv /\ CauseInv => DuplicatesHaveACause
    <2> SUFFICES ASSUME TypeInv, CauseInv, NEW i \in Ids
                 PROVE  rabbit[i] <= 1 + faults
        BY DEF DuplicatesHaveACause
    <2>1. CauseOf(i) /\ rabbit[i] \in Nat /\ faults \in Nat
        BY DEF CauseInv, TypeInv, TypeOK
    <2>2. Cardinality(Orphans(i)) \in Nat
        BY <2>1, FS_CardinalityType DEF CauseOf
    <2> QED
        BY <2>1, <2>2 DEF CauseOf
<1> QED
    BY <1>1, TypeInvariant, ClaimsInvariant, CauseInvInit, CauseInvNext, PTL DEF Spec

\* Processes that only ever boot with Kafka at hand stay connected.
LEMMA BootedConnected ==
    ASSUME BootOutcomes = {TRUE}
    PROVE  Spec => []AllConnected
<1>1. Init => AllConnected
    BY DEF Init, AllConnected
<1>2. TypeInv /\ AllConnected /\ [Next]_vars => AllConnected'
    <2> SUFFICES ASSUME TypeInv, AllConnected, [Next]_vars
                 PROVE  AllConnected'
        OBVIOUS
    <2>1. ASSUME NEW r \in Relays, Restart(r)
          PROVE  AllConnected'
        BY <2>1 DEF Restart, AllConnected, TypeInv, TypeOK
    <2>2. ASSUME NEW r \in Relays, NEW i \in Ids,
                 \/ Publish(r, i) \/ PublishTwice(r, i) \/ PublishFails(r, i)
                 \/ Record(r, i) \/ RecordTwice(r, i) \/ RecordFails(r, i)
                 \/ Stamp(r, i)
          PROVE  connected' = connected
        BY <2>2 DEF Publish, PublishTwice, PublishFails, Record, RecordTwice,
                    RecordFails, Stamp
    <2>3. ASSUME NEW r \in Relays,
                 \/ Claim(r) \/ RecordRefused(r) \/ CommitDrain(r)
                 \/ DatabaseFails(r) \/ LoseConnection(r)
          PROVE  connected' = connected
        BY <2>3 DEF Claim, RecordRefused, CommitDrain, DatabaseFails, LoseConnection
    <2>4. ASSUME NEW i \in Ids, NEW o \in Orders, CommitRow(i, o)
          PROVE  connected' = connected
        BY <2>4 DEF CommitRow
    <2> QED
        BY <2>1, <2>2, <2>3, <2>4 DEF Next, DrainStep, FaultStep, vars, AllConnected
<1> QED
    BY <1>1, <1>2, TypeInvariant, PTL DEF Spec

COROLLARY DuplicatesPaidForWithKafka ==
    ASSUME BootOutcomes = {TRUE}
    PROVE  Spec => []DuplicatesHaveACause
BY BootedConnected, DuplicatesArePaidFor, PTL

=============================================================================
