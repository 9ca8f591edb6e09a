----------------------------- MODULE AtLeastOnce -----------------------------
(***************************************************************************)
(* What the outbox promises its two readers, without batches, locks or     *)
(* failures (docs/adr/0007-outbox-pattern.md): an event that was committed *)
(* is announced on the exchange and then appended to the audit stream, and *)
(* is done with only once both have it.                                    *)
(***************************************************************************)
CONSTANT Events

VARIABLES
    sent,        \* events committed to the outbox
    announced,   \* events handed to RabbitMQ at least once
    audited,     \* events appended to Kafka at least once
    done         \* events that will not be delivered again

vars == <<sent, announced, audited, done>>

Init ==
    /\ sent = {}
    /\ announced = {}
    /\ audited = {}
    /\ done = {}

Send(e) ==
    /\ sent' = sent \cup {e}
    /\ UNCHANGED <<announced, audited, done>>

Announce(e) ==
    /\ e \in sent \ done
    /\ announced' = announced \cup {e}
    /\ UNCHANGED <<sent, audited, done>>

Audit(e) ==
    /\ e \in announced \ done
    /\ audited' = audited \cup {e}
    /\ UNCHANGED <<sent, announced, done>>

\* Several events are finished at once, and all of them have been delivered.
Finish(batch) ==
    /\ batch \subseteq announced \cap audited
    /\ done' = done \cup batch
    /\ UNCHANGED <<sent, announced, audited>>

Next ==
    \/ \E e \in Events : Send(e) \/ Announce(e) \/ Audit(e)
    \/ \E batch \in SUBSET Events : Finish(batch)

Spec == Init /\ [][Next]_vars

=============================================================================
