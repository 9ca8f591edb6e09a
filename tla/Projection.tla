------------------------------ MODULE Projection ------------------------------
(***************************************************************************)
(* What the audit service promises: audit_events is a projection of the    *)
(* topic that can be rebuilt from it (docs/adr/0002-rabbitmq-first-kafka-  *)
(* later.md).  Whoever records, and however often a record is delivered,   *)
(* an event enters the log once, after everything that was published       *)
(* before it in its partition, and never leaves.                           *)
(***************************************************************************)
EXTENDS Sequences, Naturals

CONSTANTS Events, Partitions

VARIABLES
    topic,       \* the records of each partition
    recorded     \* the events in the log

vars == <<topic, recorded>>

Init ==
    /\ topic = [p \in Partitions |-> <<>>]
    /\ recorded = {}

Publish(p, e) ==
    /\ topic' = [topic EXCEPT ![p] = Append(@, e)]
    /\ UNCHANGED recorded

\* Some record of e has only recorded events before it.
Record(p, e) ==
    /\ e \notin recorded
    /\ \E i \in DOMAIN topic[p] :
          /\ topic[p][i] = e
          /\ \A j \in 1 .. i - 1 : topic[p][j] \in recorded
    /\ recorded' = recorded \cup {e}
    /\ UNCHANGED topic

Next == \E p \in Partitions, e \in Events : Publish(p, e) \/ Record(p, e)

Spec == Init /\ [][Next]_vars

=============================================================================
