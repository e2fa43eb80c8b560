----------------------------- MODULE MCRecords -----------------------------
(***************************************************************************)
(* Instances of Records for TLC.                                           *)
(***************************************************************************)
EXTENDS Records, TLC

\* The database works; the maintenance thread gets its turns.
FlushSpec == Init /\ [][ReliableNext]_vars /\ FlushFairness

KeySymmetry == Permutations(Keys)
=============================================================================
