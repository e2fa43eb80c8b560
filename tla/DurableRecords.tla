--------------------------- MODULE DurableRecords ---------------------------
(***************************************************************************)
(* What a store of records that survives restarts promises: the disk       *)
(* follows memory and never falls back, only what was deleted disappears,  *)
(* and a restart brings back what is on disk.                              *)
(*                                                                         *)
(* A record is the number of its version; 0: there is none.                *)
(***************************************************************************)
EXTENDS Naturals

CONSTANT Keys

VARIABLES alive, mem, disk

vars == <<alive, mem, disk>>

None == [k \in Keys |-> 0]

Init == alive = TRUE /\ mem = None /\ disk = None

\* A record is created or changed.
Change(k) ==
    /\ alive
    /\ mem'[k] \in Nat /\ mem'[k] > mem[k] /\ mem'[k] > disk[k]
    /\ mem' = [mem EXCEPT ![k] = mem'[k]]
    /\ UNCHANGED <<alive, disk>>

\* The disk catches up with memory, perhaps not to the newest version.
Write(k) ==
    /\ alive
    /\ disk'[k] \in disk[k] .. mem[k]
    /\ disk' = [disk EXCEPT ![k] = disk'[k]]
    /\ UNCHANGED <<alive, mem>>

\* A record is deleted in memory; on disk at the same time, later, or not.
Delete(k) ==
    /\ alive
    /\ mem' = [mem EXCEPT ![k] = 0]
    /\ disk' \in {disk, [disk EXCEPT ![k] = 0]}
    /\ UNCHANGED alive

\* The process ends, however it ends.
Lose ==
    /\ alive
    /\ alive' = FALSE
    /\ mem' = None
    /\ UNCHANGED disk

\* ... and starts again with what is on disk. It may mark some of the records,
\* which makes new versions of them.
Restart(marked) ==
    /\ ~alive
    /\ alive' = TRUE
    /\ mem' = [k \in Keys |-> IF k \in marked /\ disk[k] # 0 THEN disk[k] + 1 ELSE disk[k]]
    /\ UNCHANGED disk

Next ==
    \/ \E k \in Keys : Change(k) \/ Write(k) \/ Delete(k)
    \/ Lose
    \/ \E marked \in SUBSET Keys : Restart(marked)

Spec == Init /\ [][Next]_vars
=============================================================================
