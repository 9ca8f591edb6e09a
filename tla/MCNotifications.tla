---------------------------- MODULE MCNotifications ----------------------------
(* The instances TLC checks.  They take no symmetry, for one of them has a    *)
(* liveness property.                                                        *)
EXTENDS NotificationCauses

=============================================================================
