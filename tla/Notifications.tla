---------------------------- MODULE Notifications ----------------------------
(***************************************************************************)
(* The notifications service: it consumes work-order events from RabbitMQ, *)
(* sends one notification for each and remembers in memory which ones it   *)
(* has done.  A failed send is retried through a queue without consumers   *)
(* whose messages expire back into the main queue; after MaxAttempts the   *)
(* message is parked in the dead-letter queue.                             *)
(*                                                                         *)
(* `created` and `completed` have a main queue, a retry queue and a dead-  *)
(* letter queue each, and a prefetch limit of their own.  They meet only   *)
(* in the store, so one queue of each kind stands for both.                *)
(***************************************************************************)
EXTENDS Naturals, Sequences, FiniteSets

CONSTANTS
    Events,       \* eventIds
    MaxAttempts,  \* MAX_ATTEMPTS
    StoreSize,    \* MAX_ENTRIES
    Prefetch,     \* prefetchCount: messages delivered and not acknowledged
    Handlers,     \* invocations of the consumer that can be under way
    Rejections,   \* what a send() that rejects may have delivered all the same
    FaultKinds,   \* of "relay", "crash", "channel" and "publish", those that occur
    MaxCopies,    \* bound: times the relay publishes an event
    MaxFaults,    \* bound: faults
    MaxCount      \* bound: the history counters stop here

ASSUME LimitsAssumption ==
    /\ MaxAttempts \in Nat \ {0} /\ StoreSize \in Nat \ {0}
    /\ Prefetch \in Nat \ {0} /\ IsFiniteSet(Handlers)
ASSUME EnvironmentAssumption ==
    /\ Rejections \subseteq {0, 1}
    /\ FaultKinds \subseteq {"relay", "crash", "channel", "publish"}
ASSUME BoundsAssumption ==
    /\ MaxCopies \in Nat /\ MaxFaults \in Nat
    /\ MaxCount \in Nat /\ MaxAttempts <= MaxCount

VARIABLES
    ready,      \* main queue: copies of each message
    waiting,    \* retry queue: copies of each message
    parked,     \* dead-letter queue: messages of each event
    handlers,   \* the invocations under way
    seen,       \* ProcessedEventsStore, oldest first
    announced,  \* history: times each event was published by the relay
    sent,       \* history: notifications that went out
    failures,   \* history: rejected sends
    faults      \* faults so far

vars == <<ready, waiting, parked, handlers, seen, announced, sent, failures,
          faults>>

-----------------------------------------------------------------------------
\* A delivery; attempt is the x-attempt header, 1 where there is none.
Messages == [event : Events, attempt : 1 .. MaxAttempts]

\* pc: "sending" in the await of send(), "sent" before mark(), "failed" in the
\* catch block, "done" the promise has settled.  owned: the channel the message
\* came on is alive, so the broker waits for its ack.
Invocation == [ pc    : {"sending", "sent", "failed", "done"},
                msg   : Messages,
                owned : BOOLEAN ]

Idle == [pc |-> "idle"]

Busy(h) == handlers[h].pc # "idle"

Event(h) == handlers[h].msg.event

Unacked == {h \in Handlers : Busy(h) /\ handlers[h].owned}

\* The main queue once the broker has taken back what was not acknowledged.
Requeued ==
    [m \in Messages |->
        ready[m] + Cardinality({h \in Unacked : handlers[h].msg = m})]

Remembered(e) == \E i \in DOMAIN seen : seen[i] = e

\* Seeded fault: off by one, a store that grows past its limit.
MarkedPastLimit(e) ==
    LET kept == IF Len(seen) > StoreSize THEN Tail(seen) ELSE seen
    IN  IF \E i \in DOMAIN kept : kept[i] = e THEN kept ELSE Append(kept, e)

\* mark(): at the limit the oldest entry goes, even when e is in there already.
Marked(e) ==
    LET kept == IF Len(seen) >= StoreSize THEN Tail(seen) ELSE seen
    IN  IF \E i \in DOMAIN kept : kept[i] = e THEN kept ELSE Append(kept, e)

Counted(count, e, n) ==
    [count EXCEPT ![e] = IF @ + n <= MaxCount THEN @ + n ELSE MaxCount]

Goto(h, pc) == handlers' = [handlers EXCEPT ![h].pc = pc]

Fault(kind) ==
    /\ kind \in FaultKinds
    /\ faults < MaxFaults
    /\ faults' = faults + 1

-----------------------------------------------------------------------------
Init ==
    /\ ready = [m \in Messages |-> 0]
    /\ waiting = [m \in Messages |-> 0]
    /\ parked = [e \in Events |-> 0]
    /\ handlers = [h \in Handlers |-> Idle]
    /\ seen = <<>>
    /\ announced = [e \in Events |-> 0]
    /\ sent = [e \in Events |-> 0]
    /\ failures = [e \in Events |-> 0]
    /\ faults = 0

\* The relay publishes an event and, if it fails before its own COMMIT, again.
Announce(e) ==
    /\ announced[e] < MaxCopies
    /\ IF announced[e] = 0 THEN UNCHANGED faults ELSE Fault("relay")
    /\ announced' = [announced EXCEPT ![e] = @ + 1]
    /\ ready' = [ready EXCEPT ![[event |-> e, attempt |-> 1]] = @ + 1]
    /\ UNCHANGED <<waiting, parked, handlers, seen, sent, failures>>

\* Seeded fault: the event is marked before it is sent.
DeliverMarksFirst(h, m) ==
    /\ ~Busy(h)
    /\ ready[m] > 0
    /\ Cardinality(Unacked) < Prefetch
    /\ ready' = [ready EXCEPT ![m] = @ - 1]
    /\ handlers' = [handlers EXCEPT ![h] =
                       [pc |-> IF Remembered(m.event) THEN "done" ELSE "sending",
                        msg |-> m, owned |-> TRUE]]
    /\ seen' = IF Remembered(m.event) THEN seen ELSE Marked(m.event)
    /\ UNCHANGED <<waiting, parked, announced, sent, failures, faults>>

\* Seeded fault: the handler does not ask the store.
DeliverUnchecked(h, m) ==
    /\ ~Busy(h)
    /\ ready[m] > 0
    /\ Cardinality(Unacked) < Prefetch
    /\ ready' = [ready EXCEPT ![m] = @ - 1]
    /\ handlers' = [handlers EXCEPT ![h] =
                       [pc |-> "sending", msg |-> m, owned |-> TRUE]]
    /\ UNCHANGED <<waiting, parked, seen, announced, sent, failures, faults>>

\* A delivery, up to the first await: the handler returns at once for an event
\* it remembers, and calls send() otherwise.
Deliver(h, m) ==
    /\ ~Busy(h)
    /\ ready[m] > 0
    /\ Cardinality(Unacked) < Prefetch
    /\ ready' = [ready EXCEPT ![m] = @ - 1]
    /\ handlers' = [handlers EXCEPT ![h] =
                       [pc |-> IF Remembered(m.event) THEN "done" ELSE "sending",
                        msg |-> m, owned |-> TRUE]]
    /\ UNCHANGED <<waiting, parked, seen, announced, sent, failures, faults>>

\* The notification goes out.
Send(h) ==
    /\ handlers[h].pc = "sending"
    /\ sent' = Counted(sent, Event(h), 1)
    /\ Goto(h, "sent")
    /\ UNCHANGED <<ready, waiting, parked, seen, announced, failures, faults>>

\* send() rejects.
SendFails(h) ==
    /\ handlers[h].pc = "sending"
    /\ \E n \in Rejections : sent' = Counted(sent, Event(h), n)
    /\ failures' = Counted(failures, Event(h), 1)
    /\ Goto(h, "failed")
    /\ UNCHANGED <<ready, waiting, parked, seen, announced, faults>>

Mark(h) ==
    /\ handlers[h].pc = "sent"
    /\ seen' = Marked(Event(h))
    /\ Goto(h, "done")
    /\ UNCHANGED <<ready, waiting, parked, announced, sent, failures, faults>>

\* Seeded faults: the last attempt is given up, or the attempt is not counted.
RepublishedTooSoon(h, n) ==
    LET m == handlers[h].msg
    IN  IF m.attempt + 1 < MaxAttempts
        THEN /\ waiting' = [waiting EXCEPT
                               ![[m EXCEPT !.attempt = @ + 1]] = @ + n]
             /\ UNCHANGED parked
        ELSE /\ parked' = [parked EXCEPT ![m.event] = @ + n]
             /\ UNCHANGED waiting

RepublishedUncounted(h, n) ==
    LET m == handlers[h].msg
    IN  IF m.attempt < MaxAttempts
        THEN /\ waiting' = [waiting EXCEPT ![m] = @ + n]
             /\ UNCHANGED parked
        ELSE /\ parked' = [parked EXCEPT ![m.event] = @ + n]
             /\ UNCHANGED waiting

\* What the catch block publishes, n times: a copy with the next attempt for the
\* retry queue or, after the last attempt, one for the dead-letter exchange.
Republished(h, n) ==
    LET m == handlers[h].msg
    IN  IF m.attempt < MaxAttempts
        THEN /\ waiting' = [waiting EXCEPT
                               ![[m EXCEPT !.attempt = @ + 1]] = @ + n]
             /\ UNCHANGED parked
        ELSE /\ parked' = [parked EXCEPT ![m.event] = @ + n]
             /\ UNCHANGED waiting

Republish(h) ==
    /\ handlers[h].pc = "failed"
    /\ Republished(h, 1)
    /\ Goto(h, "done")
    /\ UNCHANGED <<ready, seen, announced, sent, failures, faults>>

\* The confirm is lost with the connection: the client publishes again.
RepublishTwice(h) ==
    /\ handlers[h].pc = "failed"
    /\ Fault("publish")
    /\ Republished(h, 2)
    /\ Goto(h, "done")
    /\ UNCHANGED <<ready, seen, announced, sent, failures>>

\* The publish in the catch block rejects, so the handler does: the message goes
\* back to the main queue with the attempt it had.
RepublishFails(h) ==
    /\ handlers[h].pc = "failed"
    /\ Fault("publish")
    /\ \E n \in {0, 1} : Republished(h, n)
    /\ ready' = IF handlers[h].owned
                THEN [ready EXCEPT ![handlers[h].msg] = @ + 1] ELSE ready
    /\ handlers' = [handlers EXCEPT ![h] = Idle]
    /\ UNCHANGED <<seen, announced, sent, failures>>

\* The handler's promise has resolved: the message is acknowledged.
Ack(h) ==
    /\ handlers[h].pc = "done"
    /\ handlers' = [handlers EXCEPT ![h] = Idle]
    /\ UNCHANGED <<ready, waiting, parked, seen, announced, sent, failures,
                   faults>>

\* The TTL of a message in the retry queue runs out.
Expire(m) ==
    /\ waiting[m] > 0
    /\ waiting' = [waiting EXCEPT ![m] = @ - 1]
    /\ ready' = [ready EXCEPT ![m] = @ + 1]
    /\ UNCHANGED <<parked, handlers, seen, announced, sent, failures, faults>>

\* The process dies and a new one starts, with an empty store.
Crash ==
    /\ Fault("crash")
    /\ ready' = Requeued
    /\ handlers' = [h \in Handlers |-> Idle]
    /\ seen' = <<>>
    /\ UNCHANGED <<waiting, parked, announced, sent, failures>>

\* The connection breaks and comes back: the broker delivers again what was not
\* acknowledged, while the invocations of before carry on.
LoseChannel ==
    /\ Fault("channel")
    /\ ready' = Requeued
    /\ handlers' = [h \in Handlers |->
                       IF Busy(h) THEN [handlers[h] EXCEPT !.owned = FALSE]
                       ELSE Idle]
    /\ UNCHANGED <<waiting, parked, seen, announced, sent, failures>>

HandlerStep(h) ==
    \/ \E m \in Messages : Deliver(h, m)
    \/ Send(h)
    \/ SendFails(h)
    \/ Mark(h)
    \/ Republish(h)
    \/ Ack(h)

FaultStep(h) == RepublishTwice(h) \/ RepublishFails(h)

Next ==
    \/ \E e \in Events : Announce(e)
    \/ \E h \in Handlers : HandlerStep(h) \/ FaultStep(h)
    \/ \E m \in Messages : Expire(m)
    \/ Crash
    \/ LoseChannel

Spec == Init /\ [][Next]_vars

\* Messages are delivered as long as there is room, every send and publish
\* settles, and the retry queue's TTL runs out.
Fairness ==
    /\ \A h \in Handlers : WF_vars(HandlerStep(h))
    /\ \A m \in Messages : WF_vars(Expire(m))

FairSpec == Spec /\ Fairness

-----------------------------------------------------------------------------
TypeOK ==
    /\ ready \in [Messages -> Nat]
    /\ waiting \in [Messages -> Nat]
    /\ parked \in [Events -> Nat]
    /\ handlers \in [Handlers -> Invocation \cup {Idle}]
    /\ seen \in Seq(Events) /\ Len(seen) <= StoreSize
    /\ announced \in [Events -> Nat]
    /\ sent \in [Events -> Nat]
    /\ failures \in [Events -> Nat]
    /\ faults \in Nat

\* A copy of e is still to be handled.
Pending(e) ==
    \/ \E m \in Messages : m.event = e /\ (ready[m] > 0 \/ waiting[m] > 0)
    \/ \E h \in Handlers :
          /\ handlers[h].pc \in {"sending", "failed"}
          /\ handlers[h].owned
          /\ Event(h) = e

\* No notification is lost, in whatever step the sender, the broker or the
\* process fails: an event that was announced has gone out, is parked, or is
\* still on its way.
NothingIsLost ==
    \A e \in Events :
        announced[e] > 0 => sent[e] > 0 \/ parked[e] > 0 \/ Pending(e)

\* Nobody is handed an event to look at that the service has not tried to send
\* MaxAttempts times, although attempts are counted in copies of the message and
\* a copy may exist twice.
ParkedAfterAllAttempts ==
    \A e \in Events : parked[e] > 0 => failures[e] >= MaxAttempts

\* Every event is dealt with in the end: a failing message neither circulates
\* for ever nor keeps the others from being handled.
EverythingSettles ==
    \A e \in Events : announced[e] > 0 ~> (sent[e] > 0 \/ parked[e] > 0)

-----------------------------------------------------------------------------
(* What the documents say.                                                 *)

\* "End-to-end delivery is now exactly-once in effect"
\* (docs/adr/0007-outbox-pattern.md): without any failure, an event that was
\* published twice is notified once.
NotifiedOnce == \A e \in Events : sent[e] <= 1

=============================================================================
