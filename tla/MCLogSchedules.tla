-------------------------- MODULE MCLogSchedules --------------------------
(***************************************************************************)
(* Instances of LogSchedules for TLC.                                      *)
(***************************************************************************)
EXTENDS LogSchedules

\* The database works.
ReliableSpec == Init /\ [][ReliableNext]_vars

\* The loop, the clock and the service manager go on.
FairSpec == Spec /\ Fairness
=============================================================================
