----------------------------- MODULE MCWorkOrders -----------------------------
(* The instances TLC checks: permuting orders, assignees, classifications   *)
(* or processes changes nothing, so one of each set of permutations is     *)
(* enough.  Only safety and action properties are checked with it.         *)
EXTENDS WorkOrders, TLC

Symmetry ==
    Permutations(Orders) \cup Permutations(Assignees)
        \cup Permutations(Triages) \cup Permutations(Procs)

=============================================================================
