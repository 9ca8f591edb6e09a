-------------------------------- MODULE MCAudit --------------------------------
(* The instance TLC checks.  It has a liveness property, so no symmetry; but *)
(* which of the replicas owns the partition first makes no difference.       *)
EXTENDS Audit

MCFirstOwners == {[p \in Partitions |-> CHOOSE c \in Replicas : TRUE]}

=============================================================================
