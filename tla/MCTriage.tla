------------------------------- MODULE MCTriage -------------------------------
(* The instance TLC checks.  It has a liveness property, so no symmetry.    *)
EXTENDS Triage

=============================================================================
