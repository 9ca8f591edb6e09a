---------------------------- MODULE MCOutboxRelay ----------------------------
(* The instances TLC checks.  Orders and relays are interchangeable, which  *)
(* `relay_order` and the violation run use; liveness takes no symmetry.     *)
EXTENDS OutboxRelay, TLC

Symmetry == Permutations(Orders) \cup Permutations(Relays)

=============================================================================
