------------------------- MODULE NotificationsProofs -------------------------
(***************************************************************************)
(* Proofs about Notifications, for any number of events, invocations,      *)
(* attempts, copies and faults and any store size.                         *)
(***************************************************************************)
EXTENDS NotificationCauses, FiniteSetTheorems, TLAPS

USE LimitsAssumption, EnvironmentAssumption, BoundsAssumption

-----------------------------------------------------------------------------
(* The operators of the model                                              *)

LEMMA MessageType ==
    ASSUME NEW m \in Messages
    PROVE  /\ m.event \in Events /\ m.attempt \in 1 .. MaxAttempts
           /\ m.attempt < MaxAttempts =>
                 /\ [m EXCEPT !.attempt = m.attempt + 1] \in Messages
                 /\ [m EXCEPT !.attempt = m.attempt + 1].event = m.event
                 /\ [m EXCEPT !.attempt = m.attempt + 1].attempt = m.attempt + 1
BY DEF Messages

LEMMA FirstCopyType ==
    ASSUME NEW e \in Events
    PROVE  [event |-> e, attempt |-> 1] \in Messages
BY DEF Messages

\* A queue that receives one copy of a message.
LEMMA QueueGrows ==
    ASSUME NEW queue \in [Messages -> Nat], NEW m \in Messages
    PROVE  LET grown == [queue EXCEPT ![m] = @ + 1]
           IN  /\ grown \in [Messages -> Nat]
               /\ grown[m] > 0
               /\ \A k \in Messages : grown[k] >= queue[k]
<1> DEFINE grown == [queue EXCEPT ![m] = queue[m] + 1]
<1>1. queue[m] \in Nat /\ \A k \in Messages : queue[k] \in Nat
    OBVIOUS
<1>2. grown \in [Messages -> Nat]
    BY <1>1
<1>3. grown[m] = queue[m] + 1 /\ \A k \in Messages : k # m => grown[k] = queue[k]
    OBVIOUS
<1> HIDE DEF grown
<1>4. grown[m] > 0 /\ \A k \in Messages : grown[k] >= queue[k]
    BY <1>1, <1>3
<1> QED
    BY <1>2, <1>4 DEF grown

\* A counter only grows, as far as the bound.
LEMMA CountedType ==
    ASSUME NEW count \in [Events -> Nat], NEW e \in Events, NEW n \in {0, 1}
    PROVE  /\ Counted(count, e, n) \in [Events -> Nat]
           /\ \A f \in Events, k \in 0 .. MaxAttempts :
                 count[f] >= k => Counted(count, e, n)[f] >= k
           /\ \A k \in 0 .. MaxAttempts :
                 k > 0 /\ count[e] >= k - 1 => Counted(count, e, 1)[e] >= k
BY DEF Counted

\* The messages the broker takes back are added to the queue, and only those.
LEMMA RequeuedType ==
    ASSUME TypeOK
    PROVE  /\ Requeued \in [Messages -> Nat]
           /\ \A m \in Messages : Requeued[m] >= ready[m]
           /\ \A h \in Unacked : Requeued[handlers[h].msg] > 0
           /\ \A m \in Messages :
                 Requeued[m] > 0 =>
                    ready[m] > 0 \/ \E h \in Unacked : handlers[h].msg = m
<1> DEFINE Holders(m) == {h \in Unacked : handlers[h].msg = m}
<1>1. \A m \in Messages :
         /\ Cardinality(Holders(m)) \in Nat
         /\ Cardinality(Holders(m)) = 0 <=> Holders(m) = {}
    <2> TAKE m \in Messages
    <2>1. Holders(m) \in SUBSET Handlers
        BY DEF Unacked
    <2>2. IsFiniteSet(Holders(m))
        BY <2>1, FS_Subset
    <2> QED
        BY <2>2, FS_CardinalityType, FS_EmptySet
<1>2. \A m \in Messages : Requeued[m] = ready[m] + Cardinality(Holders(m))
    BY DEF Requeued
<1>3. \A m \in Messages : ready[m] \in Nat
    BY DEF TypeOK
<1> HIDE DEF Holders
<1>4. Requeued \in [Messages -> Nat]
    <2>1. \A m \in Messages : Requeued[m] \in Nat
        BY <1>1, <1>2, <1>3
    <2>2. Requeued = [m \in Messages |-> Requeued[m]]
        BY DEF Requeued
    <2> QED
        BY <2>1, <2>2
<1>5. \A h \in Unacked : Requeued[handlers[h].msg] > 0
    <2> TAKE h \in Unacked
    <2>1. handlers[h].msg \in Messages
        BY DEF Unacked, Busy, TypeOK, Invocation, Idle
    <2>2. h \in Holders(handlers[h].msg)
        BY DEF Holders
    <2> QED
        BY <1>1, <1>2, <1>3, <2>1, <2>2
<1>6. ASSUME NEW m \in Messages, Requeued[m] > 0
      PROVE  ready[m] > 0 \/ \E h \in Unacked : handlers[h].msg = m
    <2>1. ready[m] > 0 \/ Holders(m) # {}
        BY <1>1, <1>2, <1>3, <1>6
    <2> QED
        BY <2>1 DEF Holders
<1> QED
    BY <1>1, <1>2, <1>3, <1>4, <1>5, <1>6

\* mark() keeps the store within its limit and adds nothing but e.
LEMMA MarkedType ==
    ASSUME TypeOK, NEW e \in Events
    PROVE  /\ Marked(e) \in Seq(Events) /\ Len(Marked(e)) <= StoreSize
           /\ \A i \in DOMAIN Marked(e) :
                 Marked(e)[i] = e \/ \E j \in DOMAIN seen : Marked(e)[i] = seen[j]
<1> DEFINE kept == IF Len(seen) >= StoreSize THEN Tail(seen) ELSE seen
<1>1. seen \in Seq(Events) /\ Len(seen) <= StoreSize
    BY DEF TypeOK
<1>2. /\ kept \in Seq(Events) /\ Len(kept) < StoreSize
      /\ \A i \in DOMAIN kept : \E j \in DOMAIN seen : kept[i] = seen[j]
    <2>1. CASE Len(seen) >= StoreSize
        <3>1. /\ Tail(seen) \in Seq(Events) /\ Len(Tail(seen)) = Len(seen) - 1
              /\ \A i \in 1 .. Len(seen) - 1 : Tail(seen)[i] = seen[i + 1]
            BY <1>1, <2>1
        <3> QED
            BY <1>1, <2>1, <3>1
    <2>2. CASE Len(seen) < StoreSize
        BY <1>1, <2>2
    <2> QED
        BY <1>1, <2>1, <2>2
<1>3. Marked(e) = kept \/ Marked(e) = Append(kept, e)
    BY DEF Marked
<1> HIDE DEF kept
<1>4. /\ Append(kept, e) \in Seq(Events) /\ Len(Append(kept, e)) = Len(kept) + 1
      /\ \A i \in 1 .. Len(kept) : Append(kept, e)[i] = kept[i]
      /\ Append(kept, e)[Len(kept) + 1] = e
    BY <1>2
<1> QED
    BY <1>2, <1>3, <1>4

-----------------------------------------------------------------------------
(* What a step does to an invocation                                       *)

OnlyHandler(h) ==
    /\ handlers' \in [Handlers -> Invocation \cup {Idle}]
    /\ \A g \in Handlers : g # h => handlers'[g] = handlers[g]

LEMMA BusyType ==
    ASSUME TypeOK, NEW h \in Handlers, Busy(h)
    PROVE  /\ handlers[h] \in Invocation
           /\ handlers[h].msg \in Messages /\ Event(h) \in Events
           /\ Event(h) = handlers[h].msg.event
<1>1. handlers[h] \in Invocation
    BY DEF TypeOK, Busy, Idle
<1>2. handlers[h].msg \in Messages
    BY <1>1 DEF Invocation
<1> QED
    BY <1>1, <1>2, MessageType DEF Event

LEMMA GotoFrame ==
    ASSUME TypeOK, NEW h \in Handlers, Busy(h),
           NEW pc \in {"sent", "failed", "done"}, Goto(h, pc)
    PROVE  /\ OnlyHandler(h)
           /\ handlers'[h].pc = pc /\ handlers'[h].msg = handlers[h].msg
           /\ handlers'[h].owned = handlers[h].owned
<1>1. handlers[h] \in Invocation
    BY BusyType
<1>2. handlers' = [handlers EXCEPT ![h] = [handlers[h] EXCEPT !.pc = pc]]
    BY DEF Goto
<1>3. [handlers[h] EXCEPT !.pc = pc] \in Invocation
    BY <1>1 DEF Invocation
<1> QED
    BY <1>1, <1>2, <1>3 DEF TypeOK, Invocation, OnlyHandler

LEMMA IdleFrame ==
    ASSUME TypeOK, NEW h \in Handlers, handlers' = [handlers EXCEPT ![h] = Idle]
    PROVE  OnlyHandler(h) /\ handlers'[h] = Idle
BY DEF TypeOK, OnlyHandler

LEMMA DeliverFrame ==
    ASSUME TypeOK, NEW h \in Handlers, NEW m \in Messages, Deliver(h, m)
    PROVE  /\ OnlyHandler(h) /\ ~Busy(h)
           /\ handlers'[h].pc = IF Remembered(m.event) THEN "done" ELSE "sending"
           /\ handlers'[h].msg = m /\ handlers'[h].owned
           /\ ready[m] > 0
           /\ ready' \in [Messages -> Nat]
           /\ \A n \in Messages :
                 ready'[n] <= ready[n] /\ (n # m => ready'[n] = ready[n])
<1> DEFINE d == [pc |-> IF Remembered(m.event) THEN "done" ELSE "sending",
                 msg |-> m, owned |-> TRUE]
<1>1. d \in Invocation
    BY DEF Invocation
<1>2. handlers' = [handlers EXCEPT ![h] = d] /\ ~Busy(h)
    BY DEF Deliver
<1>3. OnlyHandler(h) /\ handlers'[h] = d
    BY <1>1, <1>2 DEF TypeOK, OnlyHandler
<1>4. /\ ready[m] > 0
      /\ ready' \in [Messages -> Nat]
      /\ \A n \in Messages :
            ready'[n] <= ready[n] /\ (n # m => ready'[n] = ready[n])
    BY DEF Deliver, TypeOK
<1> QED
    BY <1>2, <1>3, <1>4

LEMMA SendFailsKeepsSent ==
    ASSUME TypeOK, NEW h \in Handlers, SendFails(h)
    PROVE  \A f \in Events : sent[f] > 0 => sent'[f] > 0
<1>1. PICK n \in {0, 1} : sent' = Counted(sent, Event(h), n)
    BY DEF SendFails
<1>2. Event(h) \in Events /\ sent \in [Events -> Nat]
    BY BusyType DEF SendFails, Busy, TypeOK
<1>3. \A f \in Events : sent[f] >= 1 => sent'[f] >= 1
    BY <1>1, <1>2, CountedType
<1>4. sent' \in [Events -> Nat]
    BY <1>1, <1>2, CountedType
<1> QED
    BY <1>2, <1>3, <1>4

\* A lost channel takes the messages away and leaves the invocations running.
LEMMA DisownedFrame ==
    ASSUME TypeOK, LoseChannel
    PROVE  /\ handlers' \in [Handlers -> Invocation \cup {Idle}]
           /\ \A h \in Handlers :
                 /\ handlers'[h].pc = handlers[h].pc
                 /\ Busy(h) => /\ handlers'[h].msg = handlers[h].msg
                               /\ ~handlers'[h].owned
<1>1. ASSUME NEW h \in Handlers
      PROVE  /\ handlers'[h] \in Invocation \cup {Idle}
             /\ handlers'[h].pc = handlers[h].pc
             /\ Busy(h) => /\ handlers'[h].msg = handlers[h].msg
                           /\ ~handlers'[h].owned
    <2>1. CASE Busy(h)
        <3>1. handlers[h] \in Invocation
            BY <2>1, BusyType
        <3>2. handlers'[h] = [handlers[h] EXCEPT !.owned = FALSE]
            BY <2>1 DEF LoseChannel
        <3> QED
            BY <2>1, <3>1, <3>2 DEF Invocation
    <2>2. CASE ~Busy(h)
        BY <2>2 DEF LoseChannel, Busy, Idle, TypeOK
    <2> QED
        BY <2>1, <2>2
<1> QED
    BY <1>1 DEF LoseChannel

LEMMA RepublishedFrame ==
    ASSUME TypeOK, NEW h \in Handlers, Busy(h), NEW n \in {0, 1, 2},
           Republished(h, n)
    PROVE  /\ waiting' \in [Messages -> Nat] /\ parked' \in [Events -> Nat]
           /\ \A m \in Messages : waiting'[m] >= waiting[m]
           /\ \A e \in Events : parked'[e] >= parked[e]
           /\ n > 0 =>
                 \/ parked'[Event(h)] > 0
                 \/ \E m \in Messages : m.event = Event(h) /\ waiting'[m] > 0
           /\ \A m \in Messages :
                 waiting'[m] > 0 =>
                    \/ waiting[m] > 0
                    \/ /\ m.event = Event(h)
                       /\ m.attempt = handlers[h].msg.attempt + 1
           /\ \A e \in Events :
                 parked'[e] > 0 =>
                    \/ parked[e] > 0
                    \/ e = Event(h) /\ handlers[h].msg.attempt = MaxAttempts
<1> DEFINE m == handlers[h].msg
           next == [m EXCEPT !.attempt = m.attempt + 1]
<1>1. m \in Messages /\ m.event = Event(h) /\ Event(h) \in Events
    BY BusyType
<1>2. m.attempt \in 1 .. MaxAttempts
    BY <1>1, MessageType
<1>3. CASE m.attempt < MaxAttempts
    <2>1. next \in Messages /\ next.event = m.event /\ next.attempt = m.attempt + 1
        BY <1>1, <1>3, MessageType
    <2>2. waiting' = [waiting EXCEPT ![next] = @ + n] /\ parked' = parked
        BY <1>3 DEF Republished
    <2> HIDE DEF next, m
    <2>3. /\ waiting' \in [Messages -> Nat]
          /\ waiting'[next] = waiting[next] + n
          /\ \A k \in Messages : k # next => waiting'[k] = waiting[k]
        BY <2>1, <2>2 DEF TypeOK
    <2>4. \A k \in Messages : waiting[k] \in Nat
        BY DEF TypeOK
    <2>5. /\ parked' \in [Events -> Nat]
          /\ \A e \in Events : parked'[e] = parked[e] /\ parked[e] \in Nat
        BY <2>2 DEF TypeOK
    <2>6. n > 0 => waiting'[next] > 0
        BY <2>1, <2>3, <2>4
    <2>7. \A k \in Messages : waiting'[k] >= waiting[k]
        BY <2>1, <2>3, <2>4
    <2>8. \A k \in Messages :
             waiting'[k] > 0 =>
                \/ waiting[k] > 0
                \/ k.event = Event(h) /\ k.attempt = m.attempt + 1
        BY <1>1, <2>1, <2>3
    <2>9. n > 0 => \E k \in Messages : k.event = Event(h) /\ waiting'[k] > 0
        BY <1>1, <2>1, <2>6
    <2> QED
        BY <2>3, <2>5, <2>7, <2>8, <2>9 DEF m
<1>4. CASE m.attempt = MaxAttempts
    <2>1. parked' = [parked EXCEPT ![m.event] = @ + n] /\ waiting' = waiting
        BY <1>2, <1>4 DEF Republished
    <2> HIDE DEF m
    <2>2. /\ parked' \in [Events -> Nat]
          /\ parked'[Event(h)] = parked[Event(h)] + n
          /\ \A e \in Events : e # Event(h) => parked'[e] = parked[e]
          /\ \A e \in Events : parked[e] \in Nat
        BY <1>1, <2>1 DEF TypeOK
    <2>3. \A e \in Events : parked'[e] >= parked[e]
        BY <1>1, <2>2
    <2>4. n > 0 => parked'[Event(h)] > 0
        BY <1>1, <2>2
    <2>5. waiting' \in [Messages -> Nat] /\ \A k \in Messages :
             waiting'[k] = waiting[k] /\ waiting[k] \in Nat
        BY <2>1 DEF TypeOK
    <2>6. m.attempt = MaxAttempts
        BY <1>4
    <2> QED
        BY <1>1, <2>2, <2>3, <2>4, <2>5, <2>6 DEF m
<1> QED
    BY <1>2, <1>3, <1>4

-----------------------------------------------------------------------------
(* Types                                                                   *)

LEMMA TypeInit == Init => TypeOK
BY DEF Init, TypeOK

LEMMA TypeStep == TypeOK /\ [Next]_vars => TypeOK'
<1> SUFFICES ASSUME TypeOK, [Next]_vars PROVE TypeOK'
    OBVIOUS
<1>1. ASSUME NEW e \in Events, Announce(e) PROVE TypeOK'
    <2>1. ready' \in [Messages -> Nat]
        BY <1>1, FirstCopyType, QueueGrows DEF Announce, TypeOK
    <2>2. announced' \in [Events -> Nat]
        BY <1>1 DEF Announce, TypeOK
    <2>3. faults' \in Nat
        BY <1>1 DEF Announce, Fault, TypeOK
    <2> QED
        BY <1>1, <2>1, <2>2, <2>3 DEF Announce, TypeOK
<1>2. ASSUME NEW h \in Handlers, NEW m \in Messages, Deliver(h, m) PROVE TypeOK'
    <2>1. OnlyHandler(h) /\ ready' \in [Messages -> Nat]
        BY <1>2, DeliverFrame
    <2> QED
        BY <1>2, <2>1 DEF Deliver, TypeOK, OnlyHandler
<1>3. ASSUME NEW h \in Handlers, Send(h) PROVE TypeOK'
    <2>1. Busy(h) /\ Goto(h, "sent")
        BY <1>3 DEF Send, Busy
    <2>2. OnlyHandler(h) /\ Event(h) \in Events
        BY <2>1, GotoFrame, BusyType
    <2>3. sent' \in [Events -> Nat]
        BY <1>3, <2>2, CountedType DEF Send, TypeOK
    <2> QED
        BY <1>3, <2>2, <2>3 DEF Send, TypeOK, OnlyHandler
<1>4. ASSUME NEW h \in Handlers, SendFails(h) PROVE TypeOK'
    <2>1. Busy(h) /\ Goto(h, "failed")
        BY <1>4 DEF SendFails, Busy
    <2>2. OnlyHandler(h) /\ Event(h) \in Events
        BY <2>1, GotoFrame, BusyType
    <2>3. PICK n \in {0, 1} : sent' = Counted(sent, Event(h), n)
        BY <1>4 DEF SendFails
    <2>4. sent' \in [Events -> Nat]
        BY <2>2, <2>3, CountedType DEF TypeOK
    <2>5. failures' \in [Events -> Nat]
        BY <1>4, <2>2, CountedType DEF SendFails, TypeOK
    <2> QED
        BY <1>4, <2>2, <2>4, <2>5 DEF SendFails, TypeOK, OnlyHandler
<1>5. ASSUME NEW h \in Handlers, Mark(h) PROVE TypeOK'
    <2>1. Busy(h) /\ Goto(h, "done")
        BY <1>5 DEF Mark, Busy
    <2>2. OnlyHandler(h) /\ Event(h) \in Events
        BY <2>1, GotoFrame, BusyType
    <2>3. seen' \in Seq(Events) /\ Len(seen') <= StoreSize
        BY <1>5, <2>2, MarkedType DEF Mark
    <2> QED
        BY <1>5, <2>2, <2>3 DEF Mark, TypeOK, OnlyHandler
<1>6. ASSUME NEW h \in Handlers, Republish(h) \/ RepublishTwice(h) PROVE TypeOK'
    <2>1. Busy(h) /\ Goto(h, "done") /\ \E n \in {0, 1, 2} : Republished(h, n)
        BY <1>6 DEF Republish, RepublishTwice, Busy
    <2>2. OnlyHandler(h) /\ waiting' \in [Messages -> Nat] /\ parked' \in [Events -> Nat]
        BY <2>1, GotoFrame, RepublishedFrame
    <2>3. faults' \in Nat
        BY <1>6 DEF Republish, RepublishTwice, Fault, TypeOK
    <2> QED
        BY <1>6, <2>2, <2>3 DEF Republish, RepublishTwice, TypeOK, OnlyHandler
<1>7. ASSUME NEW h \in Handlers, RepublishFails(h) PROVE TypeOK'
    <2>1. Busy(h) /\ \E n \in {0, 1, 2} : Republished(h, n)
        BY <1>7 DEF RepublishFails, Busy
    <2>2. waiting' \in [Messages -> Nat] /\ parked' \in [Events -> Nat]
        BY <2>1, RepublishedFrame
    <2>3. OnlyHandler(h)
        BY <1>7, IdleFrame DEF RepublishFails
    <2>4. ready' \in [Messages -> Nat]
        <3>1. ready \in [Messages -> Nat] /\ handlers[h].msg \in Messages
            BY <2>1, BusyType DEF TypeOK
        <3> QED
            BY <1>7, <3>1, QueueGrows DEF RepublishFails
    <2>5. faults' \in Nat
        BY <1>7 DEF RepublishFails, Fault, TypeOK
    <2> QED
        BY <1>7, <2>2, <2>3, <2>4, <2>5 DEF RepublishFails, TypeOK, OnlyHandler
<1>8. ASSUME NEW h \in Handlers, Ack(h) PROVE TypeOK'
    BY <1>8, IdleFrame DEF Ack, TypeOK, OnlyHandler
<1>9. ASSUME NEW m \in Messages, Expire(m) PROVE TypeOK'
    <2>1. waiting' \in [Messages -> Nat] /\ ready' \in [Messages -> Nat]
        BY <1>9 DEF Expire, TypeOK
    <2> QED
        BY <1>9, <2>1 DEF Expire, TypeOK
<1>10. CASE Crash
    <2>1. ready' \in [Messages -> Nat] /\ faults' \in Nat
        BY <1>10, RequeuedType DEF Crash, Fault, TypeOK
    <2> QED
        BY <1>10, <2>1 DEF Crash, TypeOK
<1>11. CASE LoseChannel
    <2>0. ready' = Requeued /\ Fault("channel")
        BY <1>11 DEF LoseChannel
    <2>1. ready' \in [Messages -> Nat] /\ faults' \in Nat
        BY <2>0, RequeuedType DEF Fault, TypeOK
    <2>2. handlers' \in [Handlers -> Invocation \cup {Idle}]
        BY <1>11, DisownedFrame
    <2> QED
        BY <1>11, <2>1, <2>2 DEF LoseChannel, TypeOK
<1>12. CASE UNCHANGED vars
    BY <1>12 DEF vars, TypeOK
<1> QED
    BY <1>1, <1>2, <1>3, <1>4, <1>5, <1>6, <1>7, <1>8, <1>9, <1>10, <1>11, <1>12
       DEF Next, HandlerStep, FaultStep

\* The store never outgrows MAX_ENTRIES, and every variable keeps its type.
THEOREM TypeCorrect == Spec => []TypeOK
<1> QED
    BY TypeInit, TypeStep, PTL DEF Spec

-----------------------------------------------------------------------------
(* No notification is lost                                                 *)

\* What is remembered, or about to be, has gone out.
SentInv ==
    /\ \A i \in DOMAIN seen : sent[seen[i]] > 0
    /\ \A h \in Handlers : handlers[h].pc = "sent" => sent[Event(h)] > 0

LossInv == TypeOK /\ SentInv /\ NothingIsLost

Settled(e) == sent[e] > 0 \/ parked[e] > 0 \/ Pending(e)

\* What a step must keep: nothing that went out is forgotten, and a pending
\* event is settled or still pending.
Keeps ==
    /\ \A e \in Events : sent[e] > 0 => sent'[e] > 0
    /\ \A e \in Events : parked[e] > 0 => parked'[e] > 0
    /\ \A e \in Events : Pending(e) => Settled(e)'

LEMMA KeepsNothingIsLost ==
    ASSUME NothingIsLost, Keeps, UNCHANGED announced
    PROVE  NothingIsLost'
BY DEF NothingIsLost, Keeps, Settled

\* A message in a queue, or a handler, that carries e makes it pending.
LEMMA QueuedIsPending ==
    ASSUME NEW m \in Messages, ready'[m] > 0 \/ waiting'[m] > 0
    PROVE  Pending(m.event)'
BY DEF Pending

LEMMA HandledIsPending ==
    ASSUME NEW h \in Handlers, handlers'[h].pc \in {"sending", "failed"},
           handlers'[h].owned, NEW e, Event(h)' = e
    PROVE  Pending(e)'
BY DEF Pending, Event

\* The queues did not lose anything, and the invocations other than h are as
\* they were: every event but h's stays pending.
LEMMA OthersStayPending ==
    ASSUME TypeOK, TypeOK', NEW h \in Handlers, OnlyHandler(h),
           \A m \in Messages : ready'[m] >= ready[m] /\ waiting'[m] >= waiting[m],
           NEW e \in Events, Pending(e),
           ~(handlers[h].pc \in {"sending", "failed"} /\ handlers[h].owned
               /\ Event(h) = e)
    PROVE  Pending(e)'
<1>1. CASE \E m \in Messages : m.event = e /\ (ready[m] > 0 \/ waiting[m] > 0)
    <2>1. PICK m \in Messages : m.event = e /\ (ready[m] > 0 \/ waiting[m] > 0)
        BY <1>1
    <2>2. /\ ready[m] \in Nat /\ ready'[m] \in Nat
          /\ waiting[m] \in Nat /\ waiting'[m] \in Nat
        BY DEF TypeOK
    <2> QED
        BY <2>1, <2>2, QueuedIsPending
<1>2. CASE \E g \in Handlers : /\ handlers[g].pc \in {"sending", "failed"}
                               /\ handlers[g].owned /\ Event(g) = e
    <2>1. PICK g \in Handlers : /\ handlers[g].pc \in {"sending", "failed"}
                                /\ handlers[g].owned /\ Event(g) = e
        BY <1>2
    <2>2. handlers'[g] = handlers[g]
        BY <2>1 DEF OnlyHandler
    <2>3. Event(g)' = e
        BY <2>1, <2>2 DEF Event
    <2> QED
        BY <2>1, <2>2, <2>3, HandledIsPending
<1> QED
    BY <1>1, <1>2 DEF Pending

LEMMA LossInit == Init => LossInv
<1> SUFFICES ASSUME Init PROVE LossInv
    OBVIOUS
<1>1. TypeOK
    BY TypeInit
<1>2. SentInv
    BY DEF Init, SentInv, Idle
<1>3. NothingIsLost
    BY DEF Init, NothingIsLost
<1> QED
    BY <1>1, <1>2, <1>3 DEF LossInv

LEMMA SentStep == LossInv /\ [Next]_vars => SentInv'
<1> SUFFICES ASSUME LossInv, [Next]_vars PROVE SentInv'
    OBVIOUS
<1>0. TypeOK /\ SentInv /\ \A i \in DOMAIN seen : seen[i] \in Events
    BY DEF LossInv, TypeOK
<1>1. ASSUME UNCHANGED <<seen, sent>>,
             \A g \in Handlers :
                handlers'[g].pc = "sent" =>
                    handlers[g].pc = "sent" /\ handlers'[g].msg = handlers[g].msg
      PROVE  SentInv'
    BY <1>0, <1>1 DEF SentInv, Event
<1>2. ASSUME NEW e \in Events, Announce(e) PROVE SentInv'
    BY <1>1, <1>2 DEF Announce
<1>3. ASSUME NEW h \in Handlers, NEW m \in Messages, Deliver(h, m) PROVE SentInv'
    <2>1. OnlyHandler(h) /\ handlers'[h].pc # "sent"
        BY <1>0, <1>3, DeliverFrame
    <2> QED
        BY <1>1, <1>3, <2>1 DEF Deliver, OnlyHandler
<1>4. ASSUME NEW h \in Handlers, Send(h) PROVE SentInv'
    <2>1. Busy(h) /\ Goto(h, "sent")
        BY <1>4 DEF Send, Busy
    <2>2. OnlyHandler(h) /\ handlers'[h].msg = handlers[h].msg /\ Event(h) \in Events
        BY <1>0, <2>1, GotoFrame, BusyType
    <2>3. /\ \A f \in Events : sent[f] > 0 => sent'[f] > 0
          /\ sent'[Event(h)] > 0
        <3>1. /\ sent \in [Events -> Nat] /\ sent' = Counted(sent, Event(h), 1)
              /\ sent' \in [Events -> Nat]
            BY <1>0, <1>4, <2>2, CountedType DEF Send, TypeOK
        <3>2. 1 \in 0 .. MaxAttempts
            OBVIOUS
        <3>3. \A f \in Events : sent[f] >= 1 => sent'[f] >= 1
            BY <2>2, <3>1, <3>2, CountedType
        <3>4. sent[Event(h)] >= 1 - 1 => sent'[Event(h)] >= 1
            BY <2>2, <3>1, <3>2, CountedType
        <3>5. \A f \in Events : sent[f] \in Nat /\ sent'[f] \in Nat
            BY <3>1
        <3> QED
            BY <2>2, <3>3, <3>4, <3>5
    <2>4. \A g \in Handlers : g # h /\ handlers[g].pc = "sent" => Event(g) \in Events
        BY <1>0, BusyType DEF Busy
    <2>5. ASSUME NEW g \in Handlers, handlers'[g].pc = "sent"
          PROVE  sent'[Event(g)'] > 0
        <3>1. CASE g = h
            BY <2>2, <2>3, <3>1 DEF Event
        <3>2. CASE g # h
            <4>1. handlers'[g] = handlers[g]
                BY <2>2, <3>2 DEF OnlyHandler
            <4>2. sent[Event(g)] > 0 /\ Event(g)' = Event(g) /\ Event(g) \in Events
                BY <1>0, <2>4, <2>5, <3>2, <4>1 DEF SentInv, Event
            <4> QED
                BY <2>3, <4>2
        <3> QED
            BY <3>1, <3>2
    <2>6. \A i \in DOMAIN seen' : sent'[seen'[i]] > 0
        BY <1>0, <1>4, <2>3 DEF Send, SentInv
    <2> QED
        BY <2>5, <2>6 DEF SentInv
<1>5. ASSUME NEW h \in Handlers, SendFails(h) PROVE SentInv'
    <2>1. Busy(h) /\ Goto(h, "failed")
        BY <1>5 DEF SendFails, Busy
    <2>2. OnlyHandler(h) /\ handlers'[h].pc = "failed" /\ Event(h) \in Events
        BY <1>0, <2>1, GotoFrame, BusyType
    <2>3. \A f \in Events : sent[f] > 0 => sent'[f] > 0
        BY <1>0, <1>5, SendFailsKeepsSent
    <2>4. ASSUME NEW g \in Handlers, handlers'[g].pc = "sent"
          PROVE  sent'[Event(g)'] > 0
        <3>1. handlers'[g] = handlers[g]
            BY <2>2, <2>4 DEF OnlyHandler
        <3>2. sent[Event(g)] > 0 /\ Event(g)' = Event(g) /\ Event(g) \in Events
            BY <1>0, <2>4, <3>1, BusyType DEF SentInv, Event, Busy
        <3> QED
            BY <2>3, <3>2
    <2>5. \A i \in DOMAIN seen' : sent'[seen'[i]] > 0
        BY <1>0, <1>5, <2>3 DEF SendFails, SentInv
    <2> QED
        BY <2>4, <2>5 DEF SentInv
<1>6. ASSUME NEW h \in Handlers, Mark(h) PROVE SentInv'
    <2>1. Busy(h) /\ Goto(h, "done") /\ UNCHANGED sent /\ seen' = Marked(Event(h))
        BY <1>6 DEF Mark, Busy
    <2>2. /\ OnlyHandler(h) /\ handlers'[h].pc = "done"
          /\ Event(h) \in Events /\ sent[Event(h)] > 0
        BY <1>0, <1>6, <2>1, GotoFrame, BusyType DEF SentInv, Mark
    <2>3. \A i \in DOMAIN seen' : sent'[seen'[i]] > 0
        <3> TAKE i \in DOMAIN seen'
        <3>1. seen'[i] = Event(h) \/ \E j \in DOMAIN seen : seen'[i] = seen[j]
            BY <1>0, <2>1, <2>2, MarkedType
        <3> QED
            BY <1>0, <2>1, <2>2, <3>1 DEF SentInv
    <2>4. \A g \in Handlers : handlers'[g].pc = "sent" => sent'[Event(g)'] > 0
        BY <1>0, <2>1, <2>2 DEF OnlyHandler, SentInv, Event
    <2> QED
        BY <2>3, <2>4 DEF SentInv
<1>7. ASSUME NEW h \in Handlers, Republish(h) \/ RepublishTwice(h) PROVE SentInv'
    <2>1. Busy(h) /\ Goto(h, "done") /\ UNCHANGED <<seen, sent>>
        BY <1>7 DEF Republish, RepublishTwice, Busy
    <2>2. OnlyHandler(h) /\ handlers'[h].pc = "done"
        BY <1>0, <2>1, GotoFrame
    <2> QED
        BY <1>1, <2>1, <2>2 DEF OnlyHandler
<1>8. ASSUME NEW h \in Handlers, RepublishFails(h) \/ Ack(h) PROVE SentInv'
    <2>1. handlers' = [handlers EXCEPT ![h] = Idle] /\ UNCHANGED <<seen, sent>>
        BY <1>8 DEF RepublishFails, Ack
    <2>2. OnlyHandler(h) /\ handlers'[h] = Idle
        BY <1>0, <2>1, IdleFrame
    <2>3. handlers'[h].pc # "sent"
        BY <2>2 DEF Idle
    <2> QED
        BY <1>1, <2>1, <2>2, <2>3 DEF OnlyHandler
<1>9. ASSUME NEW m \in Messages, Expire(m) PROVE SentInv'
    BY <1>1, <1>9 DEF Expire
<1>10. CASE Crash
    BY <1>10 DEF Crash, SentInv, Idle
<1>11. CASE LoseChannel
    <2>1. \A g \in Handlers :
             handlers'[g].pc = "sent" =>
                 handlers[g].pc = "sent" /\ handlers'[g].msg = handlers[g].msg
        BY <1>0, <1>11, DisownedFrame DEF Busy
    <2> QED
        BY <1>1, <1>11, <2>1 DEF LoseChannel
<1>12. CASE UNCHANGED vars
    BY <1>1, <1>12 DEF vars
<1> QED
    BY <1>2, <1>3, <1>4, <1>5, <1>6, <1>7, <1>8, <1>9, <1>10, <1>11, <1>12
       DEF Next, HandlerStep, FaultStep

LEMMA LossStep == LossInv /\ [Next]_vars => LossInv'
<1> SUFFICES ASSUME LossInv, [Next]_vars PROVE LossInv'
    OBVIOUS
<1>0. TypeOK /\ SentInv /\ NothingIsLost /\ TypeOK' /\ SentInv'
    BY TypeStep, SentStep DEF LossInv
<1>1. ASSUME NEW e \in Events, Announce(e) PROVE NothingIsLost'
    <2> DEFINE first == [event |-> e, attempt |-> 1]
    <2>1. first \in Messages /\ first.event = e
        BY FirstCopyType
    <2>2. /\ ready' = [ready EXCEPT ![first] = @ + 1]
          /\ announced' = [announced EXCEPT ![e] = @ + 1]
          /\ UNCHANGED <<waiting, parked, handlers, sent>>
        BY <1>1 DEF Announce
    <2> HIDE DEF first
    <2>3. ready'[first] > 0 /\ \A m \in Messages : ready'[m] >= ready[m]
        BY <1>0, <2>1, <2>2, QueueGrows DEF TypeOK
    <2>4. Pending(e)'
        BY <2>1, <2>3, QueuedIsPending
    <2>5. \A f \in Events : Pending(f) => Pending(f)'
        BY <1>0, <2>2, <2>3 DEF Pending, Event, TypeOK
    <2>6. \A f \in Events : f # e => announced'[f] = announced[f]
        BY <1>0, <2>2 DEF TypeOK
    <2> QED
        BY <1>0, <2>2, <2>4, <2>5, <2>6 DEF NothingIsLost
<1>2. ASSUME NEW h \in Handlers, NEW m \in Messages, Deliver(h, m)
      PROVE  NothingIsLost'
    <2>1. /\ UNCHANGED <<waiting, parked, seen, announced, sent>>
          /\ ~Busy(h) /\ OnlyHandler(h)
          /\ handlers'[h].pc = IF Remembered(m.event) THEN "done" ELSE "sending"
          /\ handlers'[h].msg = m /\ handlers'[h].owned
          /\ \A n \in Messages : n # m => ready'[n] = ready[n]
        BY <1>0, <1>2, DeliverFrame DEF Deliver
    <2>2. Settled(m.event)'
        <3>1. CASE Remembered(m.event)
            BY <1>0, <2>1, <3>1 DEF SentInv, Remembered, Settled
        <3>2. CASE ~Remembered(m.event)
            BY <2>1, <3>2 DEF Settled, Pending, Event
        <3> QED
            BY <3>1, <3>2
    <2>3. ASSUME NEW e \in Events, e # m.event, Pending(e) PROVE Pending(e)'
        <3>1. CASE \E n \in Messages : n.event = e /\ (ready[n] > 0 \/ waiting[n] > 0)
            BY <2>1, <2>3, <3>1 DEF Pending
        <3>2. CASE \E g \in Handlers : /\ handlers[g].pc \in {"sending", "failed"}
                                       /\ handlers[g].owned /\ Event(g) = e
            BY <2>1, <3>2 DEF Pending, Busy, OnlyHandler, Event
        <3> QED
            BY <2>3, <3>1, <3>2 DEF Pending
    <2>4. Keeps
        BY <2>1, <2>2, <2>3 DEF Keeps, Settled
    <2> QED
        BY <1>0, <2>1, <2>4, KeepsNothingIsLost
<1>3. ASSUME NEW h \in Handlers, Send(h) PROVE NothingIsLost'
    <2>1. /\ Busy(h) /\ Goto(h, "sent")
          /\ UNCHANGED <<ready, waiting, parked, announced>>
        BY <1>3 DEF Send, Busy
    <2>2. OnlyHandler(h) /\ handlers'[h].pc = "sent" /\ Event(h) \in Events
          /\ handlers'[h].msg = handlers[h].msg
        BY <1>0, <2>1, GotoFrame, BusyType
    <2>3. sent'[Event(h)] > 0
        BY <1>0, <2>2 DEF SentInv, Event
    <2>4. \A f \in Events : sent[f] > 0 => sent'[f] > 0
        <3>1. sent \in [Events -> Nat] /\ sent' = Counted(sent, Event(h), 1)
            BY <1>0, <1>3 DEF Send, TypeOK
        <3>2. \A f \in Events : sent[f] >= 1 => sent'[f] >= 1
            BY <2>2, <3>1, CountedType
        <3>3. \A f \in Events : sent[f] \in Nat /\ sent'[f] \in Nat
            BY <1>0 DEF TypeOK
        <3> QED
            BY <3>2, <3>3
    <2>5. \A f \in Events : Pending(f) => Settled(f)'
        <3> SUFFICES ASSUME NEW f \in Events, Pending(f), f # Event(h)
                     PROVE  Pending(f)'
            BY <2>3 DEF Settled
        <3>1. \A k \in Messages : ready'[k] >= ready[k] /\ waiting'[k] >= waiting[k]
            BY <1>0, <2>1 DEF TypeOK
        <3> QED
            BY <1>0, <2>2, <3>1, OthersStayPending
    <2>6. Keeps
        BY <2>1, <2>4, <2>5 DEF Keeps
    <2> QED
        BY <1>0, <2>1, <2>6, KeepsNothingIsLost
<1>4. ASSUME NEW h \in Handlers, SendFails(h) PROVE NothingIsLost'
    <2>1. /\ Busy(h) /\ Goto(h, "failed")
          /\ UNCHANGED <<ready, waiting, parked, announced>>
        BY <1>4 DEF SendFails, Busy
    <2>2. /\ OnlyHandler(h) /\ handlers'[h].pc = "failed"
          /\ handlers'[h].msg = handlers[h].msg
          /\ handlers'[h].owned = handlers[h].owned
        BY <1>0, <2>1, GotoFrame
    <2>3. \A f \in Events : sent[f] > 0 => sent'[f] > 0
        BY <1>0, <1>4, SendFailsKeepsSent
    <2>4. \A f \in Events : Pending(f) => Settled(f)'
        <3> SUFFICES ASSUME NEW f \in Events, Pending(f) PROVE Pending(f)'
            BY DEF Settled
        <3>1. CASE handlers[h].owned /\ Event(h) = f
            <4>1. Event(h)' = f
                BY <2>2, <3>1 DEF Event
            <4> QED
                BY <2>2, <3>1, <4>1, HandledIsPending
        <3>2. CASE ~(handlers[h].owned /\ Event(h) = f)
            <4>1. \A k \in Messages :
                     ready'[k] >= ready[k] /\ waiting'[k] >= waiting[k]
                BY <1>0, <2>1 DEF TypeOK
            <4> QED
                BY <1>0, <2>2, <3>2, <4>1, OthersStayPending
        <3> QED
            BY <3>1, <3>2
    <2>5. Keeps
        BY <2>1, <2>3, <2>4 DEF Keeps
    <2> QED
        BY <1>0, <2>1, <2>5, KeepsNothingIsLost
<1>5. ASSUME NEW h \in Handlers, Mark(h) \/ Ack(h) PROVE NothingIsLost'
    <2>1. /\ UNCHANGED <<ready, waiting, parked, announced, sent>>
          /\ handlers[h].pc \notin {"sending", "failed"} /\ Busy(h)
          /\ Goto(h, "done") \/ handlers' = [handlers EXCEPT ![h] = Idle]
        BY <1>5 DEF Mark, Ack, Busy
    <2>2. OnlyHandler(h)
        BY <1>0, <2>1, GotoFrame, IdleFrame
    <2>3. \A k \in Messages : ready'[k] >= ready[k] /\ waiting'[k] >= waiting[k]
        BY <1>0, <2>1 DEF TypeOK
    <2>4. \A f \in Events : Pending(f) => Settled(f)'
        BY <1>0, <2>1, <2>2, <2>3, OthersStayPending DEF Settled
    <2>5. Keeps
        BY <2>1, <2>4 DEF Keeps
    <2> QED
        BY <1>0, <2>1, <2>5, KeepsNothingIsLost
<1>6. ASSUME NEW h \in Handlers,
             Republish(h) \/ RepublishTwice(h) \/ RepublishFails(h)
      PROVE  NothingIsLost'
    <2>1. /\ UNCHANGED <<announced, sent>> /\ Busy(h)
          /\ Goto(h, "done") \/ handlers' = [handlers EXCEPT ![h] = Idle]
        BY <1>6 DEF Republish, RepublishTwice, RepublishFails, Busy
    <2>2. OnlyHandler(h) /\ Event(h) \in Events /\ handlers[h].msg \in Messages
        BY <1>0, <2>1, GotoFrame, IdleFrame, BusyType
    <2>3. PICK n \in {0, 1, 2} : /\ Republished(h, n)
                                 /\ ~RepublishFails(h) => n > 0
        <3>1. CASE Republish(h) \/ RepublishTwice(h)
            BY <3>1 DEF Republish, RepublishTwice
        <3>2. CASE RepublishFails(h)
            BY <3>2 DEF RepublishFails
        <3> QED
            BY <1>6, <3>1, <3>2
    <2>4. /\ \A k \in Messages : waiting'[k] >= waiting[k]
          /\ \A e \in Events : parked'[e] >= parked[e]
          /\ n > 0 =>
                \/ parked'[Event(h)] > 0
                \/ \E m \in Messages : m.event = Event(h) /\ waiting'[m] > 0
        BY <1>0, <2>1, <2>3, RepublishedFrame
    <2>5. /\ \A k \in Messages : ready'[k] >= ready[k]
          /\ RepublishFails(h) /\ handlers[h].owned => ready'[handlers[h].msg] > 0
        <3>1. \A k \in Messages : ready[k] \in Nat
            BY <1>0 DEF TypeOK
        <3>2. CASE RepublishFails(h)
            <4>1. ready \in [Messages -> Nat] /\ handlers[h].msg \in Messages
                BY <1>0, <2>2 DEF TypeOK
            <4>2. ready' = IF handlers[h].owned
                           THEN [ready EXCEPT ![handlers[h].msg] = @ + 1]
                           ELSE ready
                BY <3>2 DEF RepublishFails
            <4>3. CASE handlers[h].owned
                BY <4>1, <4>2, <4>3, QueueGrows
            <4>4. CASE ~handlers[h].owned
                BY <3>1, <4>2, <4>4
            <4> QED
                BY <4>3, <4>4
        <3>3. CASE ~RepublishFails(h)
            <4>1. ready' = ready
                BY <1>6, <3>3 DEF Republish, RepublishTwice
            <4> QED
                BY <3>1, <3>3, <4>1
        <3> QED
            BY <3>2, <3>3
    <2>6. ASSUME NEW e \in Events, e = Event(h), handlers[h].owned
          PROVE  Settled(e)'
        <3>1. CASE RepublishFails(h)
            <4>1. handlers[h].msg.event = e
                BY <1>0, <2>1, <2>6, BusyType
            <4> QED
                BY <2>2, <2>5, <2>6, <3>1, <4>1, QueuedIsPending DEF Settled
        <3>2. CASE ~RepublishFails(h)
            BY <2>3, <2>4, <2>6, <3>2, QueuedIsPending DEF Settled
        <3> QED
            BY <3>1, <3>2
    <2>7. \A f \in Events : parked[f] > 0 => parked'[f] > 0
        BY <1>0, <2>4 DEF TypeOK
    <2>8. ASSUME NEW f \in Events, Pending(f) PROVE Settled(f)'
        <3>1. CASE handlers[h].owned /\ Event(h) = f
            BY <2>6, <3>1
        <3>2. CASE ~(handlers[h].owned /\ Event(h) = f)
            BY <1>0, <2>2, <2>4, <2>5, <2>8, <3>2, OthersStayPending DEF Settled
        <3> QED
            BY <3>1, <3>2
    <2>9. Keeps
        BY <2>1, <2>7, <2>8 DEF Keeps
    <2> QED
        BY <1>0, <2>1, <2>9, KeepsNothingIsLost
<1>7. ASSUME NEW m \in Messages, Expire(m) PROVE NothingIsLost'
    <2>1. /\ ready' = [ready EXCEPT ![m] = @ + 1]
          /\ waiting' = [waiting EXCEPT ![m] = @ - 1]
          /\ UNCHANGED <<parked, handlers, announced, sent>>
        BY <1>7 DEF Expire
    <2>2. /\ ready'[m] > 0
          /\ \A k \in Messages :
                k # m => ready'[k] = ready[k] /\ waiting'[k] = waiting[k]
        BY <1>0, <2>1 DEF TypeOK
    <2>3. Pending(m.event)'
        BY <2>2, QueuedIsPending
    <2>4. \A f \in Events : f # m.event /\ Pending(f) => Pending(f)'
        BY <2>1, <2>2 DEF Pending, Event
    <2>5. Keeps
        BY <2>1, <2>3, <2>4 DEF Keeps, Settled
    <2> QED
        BY <1>0, <2>1, <2>5, KeepsNothingIsLost
<1>8. ASSUME Crash \/ LoseChannel PROVE NothingIsLost'
    <2>1. ready' = Requeued /\ UNCHANGED <<waiting, parked, announced, sent>>
        BY <1>8 DEF Crash, LoseChannel
    <2>2. /\ \A k \in Messages : ready'[k] >= ready[k]
          /\ \A h \in Unacked : ready'[handlers[h].msg] > 0
        BY <1>0, <2>1, RequeuedType
    <2>3. ASSUME NEW f \in Events, Pending(f) PROVE Pending(f)'
        <3>1. CASE \E k \in Messages : k.event = f /\ (ready[k] > 0 \/ waiting[k] > 0)
            <4>1. PICK k \in Messages : k.event = f /\ (ready[k] > 0 \/ waiting[k] > 0)
                BY <3>1
            <4>2. ready[k] \in Nat /\ ready'[k] \in Nat
                BY <1>0 DEF TypeOK
            <4> QED
                BY <2>1, <2>2, <4>1, <4>2, QueuedIsPending
        <3>2. CASE \E h \in Handlers : /\ handlers[h].pc \in {"sending", "failed"}
                                       /\ handlers[h].owned /\ Event(h) = f
            <4>1. PICK h \in Handlers : /\ handlers[h].pc \in {"sending", "failed"}
                                        /\ handlers[h].owned /\ Event(h) = f
                BY <3>2
            <4>2. h \in Unacked /\ Busy(h)
                BY <4>1 DEF Unacked, Busy
            <4>3. handlers[h].msg \in Messages /\ handlers[h].msg.event = f
                BY <1>0, <4>1, <4>2, BusyType
            <4> QED
                BY <2>2, <4>2, <4>3, QueuedIsPending
        <3> QED
            BY <2>3, <3>1, <3>2 DEF Pending
    <2>4. UNCHANGED <<parked, announced, sent>>
        BY <2>1
    <2>5. Keeps
        BY <2>3, <2>4 DEF Keeps, Settled
    <2> QED
        BY <1>0, <2>4, <2>5, KeepsNothingIsLost
<1>9. ASSUME UNCHANGED vars PROVE NothingIsLost'
    <2>1. UNCHANGED <<ready, waiting, parked, handlers, announced, sent>>
        BY <1>9 DEF vars
    <2>2. \A e \in Events : Pending(e) => Pending(e)'
        BY <2>1 DEF Pending, Event
    <2>3. Keeps
        BY <2>1, <2>2 DEF Keeps, Settled
    <2> QED
        BY <1>0, <2>1, <2>3, KeepsNothingIsLost
<1>10. ASSUME NEW h \in Handlers, HandlerStep(h) \/ FaultStep(h)
       PROVE  NothingIsLost'
    BY <1>2, <1>3, <1>4, <1>5, <1>6, <1>10 DEF HandlerStep, FaultStep
<1>11. NothingIsLost'
    BY <1>1, <1>7, <1>8, <1>9, <1>10 DEF Next
<1> QED
    BY <1>0, <1>11 DEF LossInv

\* An announced event has gone out, is parked, or has a copy on its way,
\* whatever fails: the ack comes last, and mark() only after send().
THEOREM EveryEventAccountedFor == Spec => []NothingIsLost
<1>1. LossInv => NothingIsLost
    BY DEF LossInv
<1> QED
    BY <1>1, LossInit, LossStep, PTL DEF Spec

-----------------------------------------------------------------------------
(* Attempts                                                                *)

\* A copy with attempt k exists only after k - 1 rejected sends of its event.
AttemptInv ==
    /\ \A m \in Messages :
          ready[m] > 0 \/ waiting[m] > 0 => failures[m.event] >= m.attempt - 1
    /\ \A h \in Handlers :
          Busy(h) => failures[Event(h)] >= handlers[h].msg.attempt - 1
    /\ \A h \in Handlers :
          handlers[h].pc = "failed" => failures[Event(h)] >= handlers[h].msg.attempt
    /\ ParkedAfterAllAttempts

\* Where queues, invocations and failures are as before, so are their bounds.
LEMMA AttemptFrame ==
    ASSUME AttemptInv, UNCHANGED failures,
           \A m \in Messages :
              ready'[m] > 0 \/ waiting'[m] > 0 => ready[m] > 0 \/ waiting[m] > 0,
           \A h \in Handlers :
              \/ ~Busy(h)'
              \/ /\ Busy(h) /\ handlers'[h].msg = handlers[h].msg
                 /\ handlers'[h].pc = "failed" => handlers[h].pc = "failed",
           UNCHANGED parked
    PROVE  AttemptInv'
<1>1. \A h \in Handlers :
         Busy(h)' => failures'[Event(h)'] >= handlers'[h].msg.attempt - 1
    BY DEF AttemptInv, Event
<1>2. \A h \in Handlers :
         handlers'[h].pc = "failed" =>
             failures'[Event(h)'] >= handlers'[h].msg.attempt
    BY DEF AttemptInv, Event, Busy
<1> QED
    BY <1>1, <1>2 DEF AttemptInv, ParkedAfterAllAttempts

LEMMA AttemptInit == Init => AttemptInv
BY DEF Init, AttemptInv, ParkedAfterAllAttempts, Busy, Idle

LEMMA AttemptStep == TypeOK /\ AttemptInv /\ [Next]_vars => AttemptInv'
<1> SUFFICES ASSUME TypeOK, AttemptInv, [Next]_vars PROVE AttemptInv'
    OBVIOUS
<1>0. /\ \A m \in Messages : ready[m] \in Nat /\ waiting[m] \in Nat
      /\ \A e \in Events : failures[e] \in Nat
    BY DEF TypeOK
<1>1. ASSUME NEW e \in Events, Announce(e) PROVE AttemptInv'
    <2> DEFINE first == [event |-> e, attempt |-> 1]
    <2>1. first \in Messages /\ first.event = e /\ first.attempt = 1
        BY FirstCopyType
    <2>2. /\ ready' = [ready EXCEPT ![first] = @ + 1]
          /\ UNCHANGED <<waiting, parked, handlers, failures>>
        BY <1>1 DEF Announce
    <2> HIDE DEF first
    <2>3. \A m \in Messages : m # first => ready'[m] = ready[m]
        BY <2>1, <2>2 DEF TypeOK
    <2>4. \A m \in Messages :
             ready'[m] > 0 \/ waiting'[m] > 0 =>
                 failures'[m.event] >= m.attempt - 1
        BY <1>0, <2>1, <2>2, <2>3 DEF AttemptInv
    <2> QED
        BY <2>2, <2>4 DEF AttemptInv, ParkedAfterAllAttempts, Busy, Event
<1>2. ASSUME NEW h \in Handlers, NEW m \in Messages, Deliver(h, m)
      PROVE  AttemptInv'
    <2>1. /\ OnlyHandler(h) /\ handlers'[h].msg = m /\ handlers'[h].pc # "failed"
          /\ ready[m] > 0
          /\ \A n \in Messages : ready'[n] <= ready[n] /\ ready'[n] \in Nat
          /\ UNCHANGED <<waiting, parked, failures>>
        <3>1. OnlyHandler(h) /\ handlers'[h].msg = m /\ handlers'[h].pc # "failed"
            BY <1>2, DeliverFrame
        <3>2. /\ ready' \in [Messages -> Nat]
              /\ \A n \in Messages : ready'[n] <= ready[n]
            BY <1>2, DeliverFrame
        <3>3. ready[m] > 0 /\ UNCHANGED <<waiting, parked, failures>>
            BY <1>2 DEF Deliver
        <3> QED
            BY <3>1, <3>2, <3>3
    <2>2. \A g \in Handlers :
             /\ Busy(g)' => failures'[Event(g)'] >= handlers'[g].msg.attempt - 1
             /\ handlers'[g].pc = "failed" =>
                    failures'[Event(g)'] >= handlers'[g].msg.attempt
        BY <2>1 DEF AttemptInv, OnlyHandler, Busy, Event
    <2>3. \A n \in Messages :
             ready'[n] > 0 \/ waiting'[n] > 0 =>
                 failures'[n.event] >= n.attempt - 1
        BY <1>0, <2>1 DEF AttemptInv
    <2> QED
        BY <2>1, <2>2, <2>3 DEF AttemptInv, ParkedAfterAllAttempts
<1>3. ASSUME NEW h \in Handlers, Send(h) \/ Mark(h) \/ Ack(h) PROVE AttemptInv'
    <2>1. /\ UNCHANGED <<ready, waiting, parked, failures>> /\ Busy(h)
          /\ \/ Goto(h, "sent") \/ Goto(h, "done")
             \/ handlers' = [handlers EXCEPT ![h] = Idle]
        BY <1>3 DEF Send, Mark, Ack, Busy
    <2>2. /\ OnlyHandler(h) /\ handlers'[h].pc # "failed"
          /\ ~Busy(h)' \/ handlers'[h].msg = handlers[h].msg
        <3>1. CASE Goto(h, "sent") \/ Goto(h, "done")
            BY <2>1, <3>1, GotoFrame
        <3>2. CASE handlers' = [handlers EXCEPT ![h] = Idle]
            <4>1. OnlyHandler(h) /\ handlers'[h] = Idle
                BY <3>2, IdleFrame
            <4> QED
                BY <4>1 DEF Idle, Busy
        <3> QED
            BY <2>1, <3>1, <3>2
    <2>3. \A g \in Handlers :
             \/ ~Busy(g)'
             \/ /\ Busy(g) /\ handlers'[g].msg = handlers[g].msg
                /\ handlers'[g].pc = "failed" => handlers[g].pc = "failed"
        BY <2>1, <2>2 DEF OnlyHandler, Busy
    <2> QED
        BY <2>1, <2>3, AttemptFrame
<1>4. ASSUME NEW h \in Handlers, SendFails(h) PROVE AttemptInv'
    <2>1. /\ Busy(h) /\ Goto(h, "failed")
          /\ UNCHANGED <<ready, waiting, parked>>
          /\ failures' = Counted(failures, Event(h), 1)
        BY <1>4 DEF SendFails, Busy
    <2>2. /\ OnlyHandler(h) /\ handlers'[h].msg = handlers[h].msg
          /\ handlers[h].msg \in Messages /\ Event(h) \in Events
          /\ handlers[h].msg.attempt \in 1 .. MaxAttempts
        BY <2>1, GotoFrame, BusyType, MessageType
    <2>3. /\ \A f \in Events, k \in 0 .. MaxAttempts :
                failures[f] >= k => failures'[f] >= k
          /\ \A k \in 0 .. MaxAttempts :
                k > 0 /\ failures[Event(h)] >= k - 1 => failures'[Event(h)] >= k
        BY <2>1, <2>2, CountedType DEF TypeOK
    <2>4. failures'[Event(h)] >= handlers[h].msg.attempt
        BY <2>1, <2>2, <2>3 DEF AttemptInv
    <2>5. ASSUME NEW m \in Messages
          PROVE  m.event \in Events /\ m.attempt - 1 \in 0 .. MaxAttempts
        <3>1. m.event \in Events /\ m.attempt \in 1 .. MaxAttempts
            BY MessageType
        <3> QED
            BY <3>1, LimitsAssumption
    <2>6. \A m \in Messages :
             ready'[m] > 0 \/ waiting'[m] > 0 => failures'[m.event] >= m.attempt - 1
        BY <2>1, <2>3, <2>5 DEF AttemptInv
    <2>7. ASSUME NEW g \in Handlers, g # h
          PROVE  /\ Busy(g)' => failures'[Event(g)'] >= handlers'[g].msg.attempt - 1
                 /\ handlers'[g].pc = "failed" =>
                        failures'[Event(g)'] >= handlers'[g].msg.attempt
        <3>1. handlers'[g] = handlers[g] /\ Event(g)' = Event(g) /\ Busy(g)' = Busy(g)
            BY <2>2, <2>7 DEF OnlyHandler, Event, Busy
        <3>2. Busy(g) => /\ Event(g) \in Events
                         /\ handlers[g].msg.attempt \in 1 .. MaxAttempts
                         /\ handlers[g].msg.attempt - 1 \in 0 .. MaxAttempts
            <4> SUFFICES ASSUME Busy(g)
                         PROVE  /\ Event(g) \in Events
                                /\ handlers[g].msg.attempt \in 1 .. MaxAttempts
                                /\ handlers[g].msg.attempt - 1 \in 0 .. MaxAttempts
                OBVIOUS
            <4>1. Event(g) \in Events /\ handlers[g].msg \in Messages
                BY BusyType
            <4>2. handlers[g].msg.attempt \in 1 .. MaxAttempts
                BY <4>1, MessageType
            <4> QED
                BY <4>1, <4>2, LimitsAssumption
        <3>3. handlers[g].pc = "failed" => Busy(g)
            BY DEF Busy
        <3> QED
            BY <2>3, <3>1, <3>2, <3>3 DEF AttemptInv
    <2>8. Event(h)' = Event(h)
        BY <2>2 DEF Event
    <2>9. \A g \in Handlers :
             /\ Busy(g)' => failures'[Event(g)'] >= handlers'[g].msg.attempt - 1
             /\ handlers'[g].pc = "failed" =>
                    failures'[Event(g)'] >= handlers'[g].msg.attempt
        <3> TAKE g \in Handlers
        <3>1. CASE g = h
            <4>1. failures'[Event(h)] >= handlers'[h].msg.attempt - 1
                <5>1. failures'[Event(h)] \in Nat
                    BY <2>1, <2>2, CountedType DEF TypeOK
                <5> QED
                    BY <2>2, <2>4, <5>1
            <4> QED
                BY <2>2, <2>4, <2>8, <3>1, <4>1
        <3>2. CASE g # h
            BY <2>7, <3>2
        <3> QED
            BY <3>1, <3>2
    <2>10. ParkedAfterAllAttempts'
        BY <2>1, <2>3 DEF AttemptInv, ParkedAfterAllAttempts
    <2> QED
        BY <2>6, <2>9, <2>10 DEF AttemptInv
<1>5. ASSUME NEW h \in Handlers,
             Republish(h) \/ RepublishTwice(h) \/ RepublishFails(h)
      PROVE  AttemptInv'
    <2>1. /\ UNCHANGED failures /\ handlers[h].pc = "failed" /\ Busy(h)
          /\ Goto(h, "done") \/ handlers' = [handlers EXCEPT ![h] = Idle]
          /\ \E n \in {0, 1, 2} : Republished(h, n)
        BY <1>5 DEF Republish, RepublishTwice, RepublishFails, Busy
    <2>2. /\ handlers[h].msg \in Messages /\ Event(h) \in Events
          /\ handlers[h].msg.event = Event(h)
          /\ failures[Event(h)] >= handlers[h].msg.attempt
          /\ handlers[h].msg.attempt \in 1 .. MaxAttempts
        BY <2>1, BusyType, MessageType DEF AttemptInv
    <2>3. /\ OnlyHandler(h) /\ handlers'[h].pc # "failed"
          /\ ~Busy(h)' \/ handlers'[h].msg = handlers[h].msg
        <3>1. CASE Goto(h, "done")
            BY <2>1, <3>1, GotoFrame
        <3>2. CASE handlers' = [handlers EXCEPT ![h] = Idle]
            <4>1. OnlyHandler(h) /\ handlers'[h] = Idle
                BY <3>2, IdleFrame
            <4> QED
                BY <4>1 DEF Idle, Busy
        <3> QED
            BY <2>1, <3>1, <3>2
    <2>4. /\ \A m \in Messages :
                waiting'[m] > 0 =>
                   \/ waiting[m] > 0
                   \/ /\ m.event = Event(h)
                      /\ m.attempt = handlers[h].msg.attempt + 1
          /\ \A e \in Events :
                parked'[e] > 0 =>
                   \/ parked[e] > 0
                   \/ e = Event(h) /\ handlers[h].msg.attempt = MaxAttempts
        BY <2>1, RepublishedFrame
    <2>5. \A m \in Messages :
             ready'[m] > 0 => ready[m] > 0 \/ m = handlers[h].msg
        <3>1. CASE RepublishFails(h)
            BY <2>2, <3>1 DEF RepublishFails, TypeOK
        <3>2. CASE ~RepublishFails(h)
            BY <1>5, <3>2 DEF Republish, RepublishTwice
        <3> QED
            BY <3>1, <3>2
    <2>6. \A m \in Messages :
             ready'[m] > 0 \/ waiting'[m] > 0 => failures'[m.event] >= m.attempt - 1
        <3> TAKE m \in Messages
        <3>1. m.attempt \in 1 .. MaxAttempts
            BY MessageType
        <3> QED
            BY <1>0, <2>1, <2>2, <2>4, <2>5, <3>1 DEF AttemptInv
    <2>7. \A g \in Handlers :
             /\ Busy(g)' => failures'[Event(g)'] >= handlers'[g].msg.attempt - 1
             /\ handlers'[g].pc = "failed" =>
                    failures'[Event(g)'] >= handlers'[g].msg.attempt
        BY <1>0, <2>1, <2>2, <2>3 DEF AttemptInv, OnlyHandler, Busy, Event
    <2>8. ParkedAfterAllAttempts'
        BY <1>0, <2>1, <2>2, <2>4 DEF AttemptInv, ParkedAfterAllAttempts
    <2> QED
        BY <2>6, <2>7, <2>8 DEF AttemptInv
<1>6. ASSUME NEW m \in Messages, Expire(m) PROVE AttemptInv'
    <2>1. /\ UNCHANGED <<parked, handlers, failures>> /\ waiting[m] > 0
          /\ \A n \in Messages :
                ready'[n] > 0 \/ waiting'[n] > 0 => ready[n] > 0 \/ waiting[n] > 0
        BY <1>0, <1>6 DEF Expire, TypeOK
    <2> QED
        BY <2>1, AttemptFrame DEF Busy
<1>7. CASE Crash \/ LoseChannel
    <2>1. ready' = Requeued /\ UNCHANGED <<waiting, parked, failures>>
        BY <1>7 DEF Crash, LoseChannel
    <2>2. \A m \in Messages :
             ready'[m] > 0 => ready[m] > 0 \/ \E h \in Unacked : handlers[h].msg = m
        BY <2>1, RequeuedType
    <2>3. \A h \in Unacked :
             /\ Busy(h) /\ handlers[h].msg.event = Event(h)
             /\ failures[Event(h)] >= handlers[h].msg.attempt - 1
        BY DEF Unacked, Event, AttemptInv
    <2>4. \A m \in Messages :
             ready'[m] > 0 \/ waiting'[m] > 0 => failures'[m.event] >= m.attempt - 1
        BY <2>1, <2>2, <2>3 DEF AttemptInv
    <2>5. \A h \in Handlers :
             \/ ~Busy(h)'
             \/ Busy(h) /\ handlers'[h].msg = handlers[h].msg
                        /\ handlers'[h].pc = handlers[h].pc
        <3>1. CASE Crash
            BY <3>1 DEF Crash, Busy, Idle
        <3>2. CASE LoseChannel
            BY <3>2, DisownedFrame DEF Busy
        <3> QED
            BY <1>7, <3>1, <3>2
    <2>6. \A h \in Handlers :
             /\ Busy(h)' => failures'[Event(h)'] >= handlers'[h].msg.attempt - 1
             /\ handlers'[h].pc = "failed" =>
                    failures'[Event(h)'] >= handlers'[h].msg.attempt
        BY <2>1, <2>5 DEF AttemptInv, Busy, Event
    <2> QED
        BY <2>1, <2>4, <2>6 DEF AttemptInv, ParkedAfterAllAttempts
<1>8. CASE UNCHANGED vars
    BY <1>8, AttemptFrame DEF vars, Busy
<1>9. ASSUME NEW h \in Handlers, HandlerStep(h) \/ FaultStep(h) PROVE AttemptInv'
    BY <1>2, <1>3, <1>4, <1>5, <1>9 DEF HandlerStep, FaultStep
<1> QED
    BY <1>1, <1>6, <1>7, <1>8, <1>9 DEF Next

\* Only an event whose send was rejected MaxAttempts times is parked, however
\* copies of its message were duplicated or redelivered on the way.
THEOREM ParkedIsExhausted == Spec => []ParkedAfterAllAttempts
<1>1. AttemptInv => ParkedAfterAllAttempts
    BY DEF AttemptInv
<1>2. Init => TypeOK /\ AttemptInv
    BY TypeInit, AttemptInit
<1>3. TypeOK /\ AttemptInv /\ [Next]_vars => (TypeOK /\ AttemptInv)'
    BY TypeStep, AttemptStep
<1> QED
    BY <1>1, <1>2, <1>3, PTL DEF Spec

-----------------------------------------------------------------------------
(* Repeats are accounted for                                               *)

Sending(e) == {h \in Handlers : handlers[h].pc = "sending" /\ Event(h) = e}

\* The notification that needs no excuse has been sent, or is being sent.
Begun(e) == Notified(e) \/ Sending(e) # {}

\* What has gone out, and what is about to, is covered by the first time and
\* by the causes so far.
Account(e) ==
    sent[e] + Cardinality(Sending(e)) <=
        failures[e] + causes[e] + (IF Begun(e) THEN 1 ELSE 0)

\* A counter at its bound does not count any further.
Full(e) == failures[e] >= MaxCount \/ causes[e] >= MaxCount

AccountInv ==
    /\ causes \in [Events -> Nat]
    /\ \A e \in Events :
          /\ sent[e] <= MaxCount /\ failures[e] <= MaxCount
          /\ Full(e) \/ Account(e)

LEMMA SendingFinite ==
    ASSUME NEW e
    PROVE  /\ IsFiniteSet(Sending(e)) /\ Cardinality(Sending(e)) \in Nat
           /\ Cardinality(Sending(e)) = 0 <=> Sending(e) = {}
<1>1. Sending(e) \in SUBSET Handlers
    BY DEF Sending
<1>2. IsFiniteSet(Sending(e))
    BY <1>1, FS_Subset
<1> QED
    BY <1>2, FS_CardinalityType, FS_EmptySet

LEMMA AccountInit == CauseInit => AccountInv
<1> SUFFICES ASSUME CauseInit PROVE AccountInv
    OBVIOUS
<1>1. \A e \in Events : Sending(e) = {}
    BY DEF CauseInit, Init, Sending, Idle
<1>2. \A e \in Events : Cardinality(Sending(e)) = 0
    BY <1>1, FS_EmptySet
<1>3. \A e \in Events : sent[e] = 0 /\ failures[e] = 0 /\ causes[e] = 0
    BY DEF CauseInit, Init
<1>4. causes \in [Events -> Nat]
    BY DEF CauseInit
<1> QED
    BY <1>2, <1>3, <1>4 DEF AccountInv, Account

LEMMA CountedValue ==
    ASSUME NEW count \in [Events -> Nat], NEW e \in Events, NEW n \in {0, 1},
           \A f \in Events : count[f] <= MaxCount
    PROVE  \A f \in Events :
              /\ Counted(count, e, n)[f] <= MaxCount
              /\ Counted(count, e, n)[f] \in Nat
              /\ Counted(count, e, n)[f] >= count[f]
              /\ f # e => Counted(count, e, n)[f] = count[f]
              /\ Counted(count, e, n)[f] <= count[f] + n
              /\ f = e => \/ Counted(count, e, n)[f] = count[f] + n
                          \/ Counted(count, e, n)[f] = MaxCount
BY DEF Counted

\* The causes only grow, and an occasion is counted.
LEMMA CausesGrow ==
    ASSUME AccountInv, Observed
    PROVE  /\ causes' \in [Events -> Nat]
           /\ \A e \in Events :
                 /\ causes[e] \in Nat /\ causes'[e] \in Nat
                 /\ causes'[e] >= causes[e]
                 /\ Overlaps(e) \/ Forgets(e) =>
                       causes'[e] = causes[e] + 1 \/ causes'[e] >= MaxCount
<1>1. causes \in [Events -> Nat]
    BY DEF AccountInv
<1> QED
    BY <1>1 DEF Observed

\* What is out or about to go out, less what is excused by a rejected send.
Out(e) == sent[e] + Cardinality(Sending(e)) - failures[e]

\* How a step may change that.
Balanced(e) ==
    \/ Out(e)' <= Out(e) /\ (Begun(e) => Begun(e)')
    \/ Out(e)' < Out(e)
    \/ Out(e)' <= Out(e) /\ Forgets(e)
    \/ Out(e)' <= Out(e) + 1 /\ ~Begun(e) /\ Begun(e)'
    \/ Out(e)' <= Out(e) + 1 /\ Overlaps(e) /\ Begun(e)'

LEMMA OutType ==
    ASSUME TypeOK, NEW e \in Events
    PROVE  /\ sent[e] \in Nat /\ failures[e] \in Nat /\ Out(e) \in Int
           /\ Cardinality(Sending(e)) \in Nat
BY SendingFinite DEF TypeOK, Out

LEMMA OutTypeNext ==
    ASSUME TypeOK', NEW e \in Events
    PROVE  /\ sent'[e] \in Nat /\ failures'[e] \in Nat /\ Out(e)' \in Int
           /\ IsFiniteSet(Sending(e)') /\ Cardinality(Sending(e)') \in Nat
           /\ Cardinality(Sending(e)') = 0 <=> Sending(e)' = {}
<1>1. Sending(e)' \in SUBSET Handlers
    BY DEF Sending
<1>2. IsFiniteSet(Sending(e)')
    BY <1>1, FS_Subset
<1>3. /\ Cardinality(Sending(e)') \in Nat
      /\ Cardinality(Sending(e)') = 0 <=> Sending(e)' = {}
    BY <1>2, FS_CardinalityType, FS_EmptySet
<1> QED
    BY <1>2, <1>3 DEF TypeOK, Out

LEMMA AccountKept ==
    ASSUME TypeOK, TypeOK', AccountInv, Observed, NEW e \in Events,
           failures'[e] >= failures[e],
           Balanced(e) \/ failures'[e] >= MaxCount
    PROVE  Full(e)' \/ Account(e)'
<1> DEFINE b == IF Begun(e) THEN 1 ELSE 0
           n == IF Begun(e)' THEN 1 ELSE 0
<1>1. /\ sent[e] \in Nat /\ sent'[e] \in Nat
      /\ failures[e] \in Nat /\ failures'[e] \in Nat
      /\ Cardinality(Sending(e)) \in Nat /\ Cardinality(Sending(e)') \in Nat
      /\ Out(e) \in Int /\ Out(e)' \in Int
    BY OutType, OutTypeNext
<1>2. /\ causes[e] \in Nat /\ causes'[e] \in Nat /\ causes'[e] >= causes[e]
      /\ Overlaps(e) \/ Forgets(e) =>
             causes'[e] = causes[e] + 1 \/ causes'[e] >= MaxCount
    BY CausesGrow
<1>3. MaxCount \in Nat
    BY BoundsAssumption
<1>4. CASE Full(e) \/ failures'[e] >= MaxCount \/ causes'[e] >= MaxCount
    BY <1>1, <1>2, <1>3, <1>4 DEF Full
<1>5. CASE ~Full(e) /\ ~(failures'[e] >= MaxCount) /\ ~(causes'[e] >= MaxCount)
    <2>1. sent[e] + Cardinality(Sending(e)) <= failures[e] + causes[e] + b
        BY <1>5 DEF AccountInv, Account
    <2>2. /\ b \in {0, 1} /\ n \in {0, 1}
          /\ Begun(e) => b = 1
          /\ ~Begun(e) => b = 0
          /\ Begun(e)' => n = 1
        OBVIOUS
    <2> HIDE DEF b, n
    <2>3. Out(e) <= causes[e] + b
        BY <1>1, <1>2, <2>1, <2>2 DEF Out
    <2>4. Out(e)' <= causes'[e] + n
        <3>1. CASE Out(e)' <= Out(e) /\ (Begun(e) => Begun(e)')
            BY <1>1, <1>2, <2>2, <2>3, <3>1
        <3>2. CASE Out(e)' < Out(e)
            BY <1>1, <1>2, <2>2, <2>3, <3>2
        <3>3. CASE Out(e)' <= Out(e) /\ Forgets(e)
            BY <1>1, <1>2, <1>5, <2>2, <2>3, <3>3
        <3>4. CASE Out(e)' <= Out(e) + 1 /\ ~Begun(e) /\ Begun(e)'
            BY <1>1, <1>2, <2>2, <2>3, <3>4
        <3>5. CASE Out(e)' <= Out(e) + 1 /\ Overlaps(e) /\ Begun(e)'
            BY <1>1, <1>2, <1>5, <2>2, <2>3, <3>5
        <3> QED
            BY <1>5, <3>1, <3>2, <3>3, <3>4, <3>5 DEF Balanced
    <2>5. sent'[e] + Cardinality(Sending(e)') <= failures'[e] + causes'[e] + n
        BY <1>1, <1>2, <2>2, <2>4 DEF Out
    <2> QED
        BY <2>5 DEF Account, n
<1> QED
    BY <1>4, <1>5

\* A step that leaves the store and everyone between check and mark alone.
LEMMA QuietStep ==
    ASSUME TypeOK, TypeOK', UNCHANGED <<seen, sent, failures>>,
           \A h \in Handlers :
               handlers[h].pc \in {"sending", "sent"}
               \/ handlers'[h].pc \in {"sending", "sent"} =>
                   handlers'[h].pc = handlers[h].pc /\ Event(h)' = Event(h),
           NEW e \in Events
    PROVE  failures'[e] >= failures[e] /\ Balanced(e)
<1>1. Sending(e)' = Sending(e)
    BY DEF Sending
<1>2. Notified(e)' <=> Notified(e)
    BY DEF Notified, Remembered
<1>3. Out(e)' = Out(e) /\ Out(e) \in Int /\ failures'[e] = failures[e]
      /\ failures[e] \in Nat
    BY <1>1, OutType DEF Out
<1>4. Begun(e) => Begun(e)'
    BY <1>1, <1>2 DEF Begun
<1> QED
    BY <1>3, <1>4 DEF Balanced

\* Only the invocation that moves can enter or leave its awaits.
LEMMA OthersStay ==
    ASSUME NEW h \in Handlers, OnlyHandler(h), NEW e
    PROVE  /\ Sending(e)' \ {h} = Sending(e) \ {h}
           /\ \A g \in Handlers \ {h} :
                 /\ handlers'[g].pc = handlers[g].pc
                 /\ Event(g)' = Event(g)
BY DEF OnlyHandler, Sending, Event

LEMMA DeliverBalanced ==
    ASSUME TypeOK, TypeOK', NEW h \in Handlers, NEW m \in Messages, Deliver(h, m),
           ~Remembered(m.event), NEW e \in Events
    PROVE  failures'[e] >= failures[e] /\ Balanced(e)
<1>1. /\ OnlyHandler(h) /\ ~Busy(h) /\ UNCHANGED <<seen, sent, failures>>
      /\ handlers'[h].pc = "sending" /\ handlers'[h].msg = m
    BY DeliverFrame DEF Deliver
<1>2. Event(h)' = m.event /\ handlers[h].pc = "idle"
    BY <1>1 DEF Event, Busy
<1>3. /\ Sending(e)' \ {h} = Sending(e) \ {h} /\ h \notin Sending(e)
      /\ \A g \in Handlers \ {h} :
            handlers'[g].pc = handlers[g].pc /\ Event(g)' = Event(g)
    BY <1>1, <1>2, OthersStay DEF Sending
<1>4. /\ Out(e) \in Int /\ sent[e] \in Nat /\ failures[e] \in Nat
      /\ sent'[e] = sent[e] /\ failures'[e] = failures[e]
      /\ Cardinality(Sending(e)) \in Nat
    BY <1>1, OutType
<1>5. CASE e # m.event
    <2>1. Sending(e)' = Sending(e)
        BY <1>2, <1>3, <1>5 DEF Sending
    <2>2. Notified(e)' <=> Notified(e)
        BY <1>1, <1>2, <1>3 DEF Notified, Remembered
    <2>3. Out(e)' = Out(e) /\ (Begun(e) => Begun(e)')
        BY <1>4, <2>1, <2>2 DEF Out, Begun
    <2> QED
        BY <1>4, <2>3 DEF Balanced
<1>6. CASE e = m.event
    <2>1. Sending(e)' = Sending(e) \cup {h}
        BY <1>1, <1>2, <1>3, <1>6 DEF Sending
    <2>2. Cardinality(Sending(e)') = Cardinality(Sending(e)) + 1
        BY <1>3, <2>1, SendingFinite, FS_AddElement
    <2>3. Out(e)' = Out(e) + 1 /\ Begun(e)'
        BY <1>4, <2>1, <2>2 DEF Out, Begun
    <2>4. CASE \E g \in Handlers : InAwait(g, e)
        <3>1. Overlaps(e)
            BY <1>1, <1>2, <1>6, <2>4 DEF Overlaps, InAwait
        <3> QED
            BY <1>4, <2>3, <3>1 DEF Balanced
    <2>5. CASE ~\E g \in Handlers : InAwait(g, e)
        <3>1. Sending(e) = {} /\ ~Notified(e)
            BY <1>6, <2>5 DEF InAwait, Sending, Notified
        <3> QED
            BY <1>4, <2>3, <3>1 DEF Balanced, Begun
    <2> QED
        BY <2>4, <2>5
<1> QED
    BY <1>5, <1>6

\* What an invocation takes out of Sending when its send() settles.
LEMMA SendSettles ==
    ASSUME TypeOK, TypeOK', NEW h \in Handlers, handlers[h].pc = "sending",
           NEW pc \in {"sent", "failed"}, Goto(h, pc), NEW e \in Events
    PROVE  /\ e = Event(h) =>
                 /\ Cardinality(Sending(e)') = Cardinality(Sending(e)) - 1
           /\ e # Event(h) => Sending(e)' = Sending(e)
           /\ handlers'[h].pc = pc /\ Event(h)' = Event(h) /\ OnlyHandler(h)
<1>1. /\ OnlyHandler(h) /\ handlers'[h].pc = pc
      /\ handlers'[h].msg = handlers[h].msg
    BY GotoFrame DEF Busy
<1>2. Event(h)' = Event(h)
    BY <1>1 DEF Event
<1>3. Sending(e)' \ {h} = Sending(e) \ {h} /\ h \notin Sending(e)'
    BY <1>1, OthersStay DEF Sending
<1>4. e = Event(h) => h \in Sending(e) /\ Sending(e)' = Sending(e) \ {h}
    BY <1>3 DEF Sending
<1>5. e # Event(h) => Sending(e)' = Sending(e)
    BY <1>3 DEF Sending
<1>6. e = Event(h) => Cardinality(Sending(e)') = Cardinality(Sending(e)) - 1
    BY <1>4, SendingFinite, FS_RemoveElement
<1> QED
    BY <1>1, <1>2, <1>5, <1>6

LEMMA SendBalanced ==
    ASSUME TypeOK, TypeOK', AccountInv, NEW h \in Handlers, Send(h), NEW e \in Events
    PROVE  failures'[e] >= failures[e] /\ sent'[e] <= MaxCount /\ Balanced(e)
<1>1. /\ handlers[h].pc = "sending" /\ Goto(h, "sent") /\ UNCHANGED <<seen, failures>>
      /\ sent' = Counted(sent, Event(h), 1) /\ Event(h) \in Events
    BY BusyType DEF Send, Busy
<1>2. /\ sent'[e] <= MaxCount /\ sent'[e] <= sent[e] + 1
      /\ e # Event(h) => sent'[e] = sent[e]
    <2>1. sent \in [Events -> Nat] /\ \A f \in Events : sent[f] <= MaxCount
        BY DEF TypeOK, AccountInv
    <2> QED
        BY <1>1, <2>1, CountedValue
<1>3. /\ e = Event(h) => Cardinality(Sending(e)') = Cardinality(Sending(e)) - 1
      /\ e # Event(h) => Sending(e)' = Sending(e)
      /\ handlers'[h].pc = "sent" /\ Event(h)' = Event(h) /\ OnlyHandler(h)
    BY <1>1, SendSettles
<1>4. /\ Out(e) \in Int /\ sent[e] \in Nat /\ failures[e] \in Nat
      /\ sent'[e] \in Nat /\ failures'[e] = failures[e]
      /\ Cardinality(Sending(e)) \in Nat
    BY <1>1, OutType, OutTypeNext
<1>5. Out(e)' <= Out(e)
    BY <1>2, <1>3, <1>4 DEF Out
<1>6. Begun(e) => Begun(e)'
    <2>1. CASE e = Event(h)
        BY <1>3, <2>1 DEF Begun, Notified
    <2>2. CASE e # Event(h)
        <3>1. Notified(e) => Notified(e)'
            BY <1>1, <1>3, OthersStay DEF Notified, Remembered
        <3> QED
            BY <1>3, <2>2, <3>1 DEF Begun
    <2> QED
        BY <2>1, <2>2
<1> QED
    BY <1>2, <1>4, <1>5, <1>6 DEF Balanced

LEMMA SendFailsBalanced ==
    ASSUME TypeOK, TypeOK', AccountInv, NEW h \in Handlers, SendFails(h),
           NEW e \in Events
    PROVE  /\ failures'[e] >= failures[e]
           /\ sent'[e] <= MaxCount /\ failures'[e] <= MaxCount
           /\ Balanced(e) \/ failures'[e] >= MaxCount
<1>1. /\ handlers[h].pc = "sending" /\ Goto(h, "failed") /\ UNCHANGED seen
      /\ failures' = Counted(failures, Event(h), 1) /\ Event(h) \in Events
    BY BusyType DEF SendFails, Busy
<1>2. PICK n \in {0, 1} : sent' = Counted(sent, Event(h), n)
    BY DEF SendFails
<1>3. /\ sent'[e] <= MaxCount /\ sent'[e] <= sent[e] + n
      /\ e # Event(h) => sent'[e] = sent[e]
    <2>1. sent \in [Events -> Nat] /\ \A f \in Events : sent[f] <= MaxCount
        BY DEF TypeOK, AccountInv
    <2> QED
        BY <1>1, <1>2, <2>1, CountedValue
<1>4. /\ failures'[e] <= MaxCount /\ failures'[e] >= failures[e]
      /\ e # Event(h) => failures'[e] = failures[e]
      /\ e = Event(h) => failures'[e] = failures[e] + 1 \/ failures'[e] = MaxCount
    <2>1. failures \in [Events -> Nat] /\ \A f \in Events : failures[f] <= MaxCount
        BY DEF TypeOK, AccountInv
    <2> QED
        BY <1>1, <2>1, CountedValue
<1>5. /\ e = Event(h) => Cardinality(Sending(e)') = Cardinality(Sending(e)) - 1
      /\ e # Event(h) => Sending(e)' = Sending(e)
      /\ handlers'[h].pc = "failed" /\ Event(h)' = Event(h) /\ OnlyHandler(h)
    BY <1>1, SendSettles
<1>6. /\ Out(e) \in Int /\ sent[e] \in Nat /\ failures[e] \in Nat
      /\ sent'[e] \in Nat /\ failures'[e] \in Nat
      /\ Cardinality(Sending(e)) \in Nat
    BY OutType, OutTypeNext
<1>7. MaxCount \in Nat
    BY BoundsAssumption
<1>8. CASE e = Event(h) /\ failures'[e] = failures[e] + 1
    <2>1. Out(e)' < Out(e)
        BY <1>3, <1>5, <1>6, <1>8 DEF Out
    <2> QED
        BY <1>3, <1>4, <2>1 DEF Balanced
<1>9. CASE e = Event(h) /\ failures'[e] = MaxCount
    BY <1>3, <1>4, <1>6, <1>7, <1>9
<1>10. CASE e # Event(h)
    <2>1. Out(e)' = Out(e)
        BY <1>3, <1>4, <1>5, <1>6, <1>10 DEF Out
    <2>2. Notified(e) => Notified(e)'
        BY <1>1, <1>5, OthersStay DEF Notified, Remembered
    <2> QED
        BY <1>3, <1>4, <1>5, <1>6, <1>10, <2>1, <2>2 DEF Balanced, Begun
<1> QED
    BY <1>4, <1>8, <1>9, <1>10

\* mark() knows its event, and forgets another one at the limit only.
LEMMA MarkedKeeps ==
    ASSUME TypeOK, NEW e \in Events
    PROVE  /\ \E i \in DOMAIN Marked(e) : Marked(e)[i] = e
           /\ Len(seen) < StoreSize =>
                 \A i \in DOMAIN seen : \E j \in DOMAIN Marked(e) : Marked(e)[j] = seen[i]
<1> DEFINE kept == IF Len(seen) >= StoreSize THEN Tail(seen) ELSE seen
<1>1. seen \in Seq(Events) /\ Len(seen) \in Nat /\ StoreSize \in Nat
    BY DEF TypeOK
<1>2. kept \in Seq(Events) /\ (Len(seen) < StoreSize => kept = seen)
    <2>1. CASE Len(seen) >= StoreSize
        <3>1. seen # <<>>
            BY <1>1, <2>1
        <3> QED
            BY <1>1, <2>1, <3>1
    <2>2. CASE ~(Len(seen) >= StoreSize)
        BY <1>1, <2>2
    <2> QED
        BY <2>1, <2>2
<1>3. Marked(e) = IF \E i \in DOMAIN kept : kept[i] = e THEN kept ELSE Append(kept, e)
    BY DEF Marked
<1> HIDE DEF kept
<1>4. /\ DOMAIN Append(kept, e) = 1 .. Len(kept) + 1
      /\ DOMAIN kept = 1 .. Len(kept) /\ Len(kept) \in Nat
      /\ \A i \in 1 .. Len(kept) : Append(kept, e)[i] = kept[i]
      /\ Append(kept, e)[Len(kept) + 1] = e
    BY <1>2
<1>5. CASE \E i \in DOMAIN kept : kept[i] = e
    BY <1>2, <1>3, <1>5
<1>6. CASE ~\E i \in DOMAIN kept : kept[i] = e
    <2>1. Marked(e) = Append(kept, e)
        BY <1>3, <1>6
    <2>2. \A i \in DOMAIN kept : i \in DOMAIN Marked(e) /\ Marked(e)[i] = kept[i]
        BY <1>4, <2>1
    <2>3. Len(kept) + 1 \in DOMAIN Marked(e) /\ Marked(e)[Len(kept) + 1] = e
        BY <1>4, <2>1
    <2> QED
        BY <1>2, <2>2, <2>3
<1> QED
    BY <1>5, <1>6

LEMMA MarkBalanced ==
    ASSUME TypeOK, TypeOK', NEW h \in Handlers, Mark(h), NEW e \in Events
    PROVE  failures'[e] >= failures[e] /\ Balanced(e)
<1>1. /\ Busy(h) /\ handlers[h].pc = "sent" /\ Goto(h, "done")
      /\ seen' = Marked(Event(h)) /\ Event(h) \in Events
      /\ UNCHANGED <<sent, failures>>
    BY BusyType DEF Mark, Busy
<1>2. OnlyHandler(h) /\ handlers'[h].pc = "done"
    BY <1>1, GotoFrame
<1>3. Sending(e)' = Sending(e)
    <2>1. Sending(e)' \ {h} = Sending(e) \ {h}
        BY <1>2, OthersStay
    <2>2. h \notin Sending(e) /\ h \notin Sending(e)'
        BY <1>1, <1>2 DEF Sending
    <2> QED
        BY <2>1, <2>2
<1>4. /\ Out(e)' = Out(e) /\ Out(e) \in Int
      /\ failures'[e] = failures[e] /\ failures[e] \in Nat
    BY <1>1, <1>3, OutType DEF Out
<1>5. CASE Notified(e) => Notified(e)'
    <2>1. Begun(e) => Begun(e)'
        BY <1>3, <1>5 DEF Begun
    <2> QED
        BY <1>4, <2>1 DEF Balanced
<1>6. CASE Notified(e) /\ ~Notified(e)'
    <2>1. Event(h) # e
        <3>1. SUFFICES ASSUME Event(h) = e PROVE FALSE
            OBVIOUS
        <3>2. seen' = Marked(e)
            BY <1>1, <3>1
        <3>3. Remembered(e)'
            BY <3>2, MarkedKeeps DEF Remembered
        <3> QED
            BY <1>6, <3>3 DEF Notified
    <2>2. seen' = Marked(Event(h)) /\ Event(h) \in Events
        BY <1>1
    <2>3. \A g \in Handlers : ~(handlers[g].pc = "sent" /\ Event(g) = e)
        <3>1. \A g \in Handlers \ {h} :
                  handlers'[g].pc = handlers[g].pc /\ Event(g)' = Event(g)
            BY <1>2, OthersStay
        <3> QED
            BY <1>1, <1>6, <2>1, <3>1 DEF Notified
    <2>4. Remembered(e) /\ ~Remembered(e)'
        BY <1>6, <2>3 DEF Notified
    <2>5. ~(Len(seen) < StoreSize)
        <3>1. SUFFICES ASSUME Len(seen) < StoreSize PROVE FALSE
            OBVIOUS
        <3>2. \A i \in DOMAIN seen : \E j \in DOMAIN seen' : seen'[j] = seen[i]
            BY <2>2, <3>1, MarkedKeeps
        <3> QED
            BY <2>4, <3>2 DEF Remembered
    <2>6. Len(seen) >= StoreSize
        <3>1. Len(seen) \in Nat /\ StoreSize \in Nat
            BY DEF TypeOK
        <3> QED
            BY <2>5, <3>1
    <2>7. Forgets(e)
        BY <1>6, <2>6 DEF Forgets
    <2> QED
        BY <1>4, <2>7 DEF Balanced
<1> QED
    BY <1>5, <1>6

LEMMA CrashBalanced ==
    ASSUME TypeOK, TypeOK', Crash, NEW e \in Events
    PROVE  failures'[e] >= failures[e] /\ Balanced(e)
<1>1. /\ UNCHANGED <<sent, failures>> /\ seen' = <<>> /\ faults' # faults
      /\ \A h \in Handlers : handlers'[h].pc = "idle"
    BY DEF Crash, Fault, Idle, TypeOK
<1>2. Sending(e)' = {} /\ ~Notified(e)'
    BY <1>1 DEF Sending, Notified, Remembered
<1>3. /\ Out(e) \in Int /\ sent[e] \in Nat /\ failures[e] \in Nat
      /\ sent'[e] = sent[e] /\ failures'[e] = failures[e]
      /\ Cardinality(Sending(e)) \in Nat /\ Cardinality(Sending(e)') = 0
      /\ Cardinality(Sending(e)) = 0 <=> Sending(e) = {}
    BY <1>1, <1>2, OutType, OutTypeNext, SendingFinite
<1>4. Out(e)' <= Out(e) /\ (Sending(e) # {} => Out(e)' < Out(e))
    BY <1>3 DEF Out
<1>5. Notified(e) => Forgets(e)
    BY <1>1, <1>2 DEF Forgets
<1> QED
    BY <1>3, <1>4, <1>5 DEF Balanced, Begun

LEMMA AccountStep ==
    TypeOK /\ TypeOK' /\ AccountInv /\ [CauseNext]_causeVars => AccountInv'
<1> SUFFICES ASSUME TypeOK, TypeOK', AccountInv, [CauseNext]_causeVars
             PROVE  AccountInv'
    OBVIOUS
<1>0. CASE UNCHANGED causeVars
    BY <1>0 DEF AccountInv, Account, Full, Begun, Notified, Remembered, Sending,
                Event, causeVars, vars
<1> SUFFICES ASSUME Next, Observed PROVE AccountInv'
    BY <1>0 DEF CauseNext
<1> DEFINE Done(e) ==
        /\ sent'[e] <= MaxCount /\ failures'[e] <= MaxCount
        /\ failures'[e] >= failures[e]
        /\ Balanced(e) \/ failures'[e] >= MaxCount
<1>1. ASSUME \A e \in Events : Done(e) PROVE AccountInv'
    <2>1. \A e \in Events : Full(e)' \/ Account(e)'
        BY <1>1, AccountKept
    <2>2. causes' \in [Events -> Nat]
        BY CausesGrow
    <2> QED
        BY <1>1, <2>1, <2>2 DEF AccountInv
\* It is enough to look at the balance where nothing is counted.
<1>2. ASSUME UNCHANGED <<sent, failures>>,
             \A e \in Events : failures'[e] >= failures[e] /\ Balanced(e)
      PROVE  AccountInv'
    BY <1>1, <1>2 DEF AccountInv
<1> HIDE DEF Done
<1>3. ASSUME UNCHANGED <<seen, sent, failures>>,
             \A h \in Handlers :
                 handlers[h].pc \in {"sending", "sent"}
                 \/ handlers'[h].pc \in {"sending", "sent"} =>
                     handlers'[h].pc = handlers[h].pc /\ Event(h)' = Event(h)
      PROVE  AccountInv'
    BY <1>2, <1>3, QuietStep
<1>4. ASSUME NEW h \in Handlers, OnlyHandler(h), UNCHANGED <<seen, sent, failures>>,
             handlers[h].pc \notin {"sending", "sent"},
             handlers'[h].pc \notin {"sending", "sent"}
      PROVE  AccountInv'
    BY <1>3, <1>4 DEF OnlyHandler, Event
<1>5. ASSUME NEW e \in Events, Announce(e) PROVE AccountInv'
    BY <1>3, <1>5 DEF Announce, Event
<1>6. ASSUME NEW h \in Handlers, NEW m \in Messages, Deliver(h, m) PROVE AccountInv'
    <2>1. CASE Remembered(m.event)
        <3>1. /\ OnlyHandler(h) /\ UNCHANGED <<seen, sent, failures>>
              /\ handlers'[h].pc = "done" /\ handlers[h].pc = "idle"
            BY <1>6, <2>1, DeliverFrame DEF Deliver, Busy
        <3> QED
            BY <1>4, <3>1
    <2>2. CASE ~Remembered(m.event)
        BY <1>2, <1>6, <2>2, DeliverBalanced DEF Deliver
    <2> QED
        BY <2>1, <2>2
<1>7. ASSUME NEW h \in Handlers, Send(h) PROVE AccountInv'
    <2>1. \A e \in Events : failures'[e] <= MaxCount
        BY <1>7 DEF Send, AccountInv
    <2> QED
        BY <1>1, <1>7, <2>1, SendBalanced DEF Done
<1>8. ASSUME NEW h \in Handlers, SendFails(h) PROVE AccountInv'
    BY <1>1, <1>8, SendFailsBalanced DEF Done
<1>9. ASSUME NEW h \in Handlers, Mark(h) PROVE AccountInv'
    BY <1>2, <1>9, MarkBalanced DEF Mark
<1>10. ASSUME NEW h \in Handlers, Republish(h) \/ RepublishTwice(h) PROVE AccountInv'
    <2>1. /\ Busy(h) /\ Goto(h, "done") /\ UNCHANGED <<seen, sent, failures>>
          /\ handlers[h].pc = "failed"
        BY <1>10 DEF Republish, RepublishTwice, Busy
    <2>2. OnlyHandler(h) /\ handlers'[h].pc = "done"
        BY <2>1, GotoFrame
    <2> QED
        BY <1>4, <2>1, <2>2
<1>11. ASSUME NEW h \in Handlers, RepublishFails(h) \/ Ack(h) PROVE AccountInv'
    <2>1. /\ handlers' = [handlers EXCEPT ![h] = Idle]
          /\ UNCHANGED <<seen, sent, failures>>
          /\ handlers[h].pc \in {"failed", "done"}
        BY <1>11 DEF RepublishFails, Ack
    <2>2. OnlyHandler(h) /\ handlers'[h].pc = "idle"
        <3>1. OnlyHandler(h) /\ handlers'[h] = Idle
            BY <2>1, IdleFrame
        <3> QED
            BY <3>1 DEF Idle
    <2> QED
        BY <1>4, <2>1, <2>2
<1>12. ASSUME NEW m \in Messages, Expire(m) PROVE AccountInv'
    BY <1>3, <1>12 DEF Expire, Event
<1>13. CASE Crash
    BY <1>2, <1>13, CrashBalanced DEF Crash
<1>14. CASE LoseChannel
    <2>1. \A h \in Handlers :
              /\ handlers'[h].pc = handlers[h].pc
              /\ Busy(h) => handlers'[h].msg = handlers[h].msg
        BY <1>14, DisownedFrame
    <2> QED
        BY <1>3, <1>14, <2>1 DEF LoseChannel, Busy, Event
<1> QED
    BY <1>5, <1>6, <1>7, <1>8, <1>9, <1>10, <1>11, <1>12, <1>13, <1>14
       DEF Next, HandlerStep, FaultStep

LEMMA CauseSpecIsSpec == CauseSpec => Spec
<1>1. CauseInit => Init
    BY DEF CauseInit
<1>2. [CauseNext]_causeVars => [Next]_vars
    BY DEF CauseNext, causeVars
<1> QED
    BY <1>1, <1>2, PTL DEF CauseSpec, Spec

\* The idempotent consumer, with any prefetch, through crashes, lost channels
\* and a full store: an event is notified once, and once more for every rejected
\* send, overlap or lost memory of it, however often it was published or put
\* back.
THEOREM RepeatsAreCaused == CauseSpec => []RepeatsAreAccountedFor
<1>1. TypeOK /\ AccountInv => RepeatsAreAccountedFor
    <2> SUFFICES ASSUME TypeOK, AccountInv, NEW e \in Events
                 PROVE  sent[e] <= 1 + failures[e] + causes[e]
        BY DEF RepeatsAreAccountedFor
    <2>1. /\ sent[e] \in Nat /\ failures[e] \in Nat /\ causes[e] \in Nat
          /\ Cardinality(Sending(e)) \in Nat /\ MaxCount \in Nat
        BY OutType, BoundsAssumption DEF AccountInv
    <2>2. CASE Full(e)
        BY <2>1, <2>2 DEF Full, AccountInv
    <2>3. CASE Account(e)
        <3>1. CASE Begun(e)
            BY <2>1, <2>3, <3>1 DEF Account
        <3>2. CASE ~Begun(e)
            BY <2>1, <2>3, <3>2 DEF Account
        <3> QED
            BY <3>1, <3>2
    <2> QED
        BY <2>2, <2>3 DEF AccountInv
<1>2. CauseSpec => []TypeOK
    BY CauseSpecIsSpec, TypeCorrect, PTL
<1>3. TypeOK /\ TypeOK' /\ AccountInv /\ [CauseNext]_causeVars => AccountInv'
    BY AccountStep
<1> QED
    BY <1>1, <1>2, <1>3, AccountInit, PTL DEF CauseSpec

=============================================================================
