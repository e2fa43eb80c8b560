------------------------------ MODULE Backups ------------------------------
(***************************************************************************)
(* Full backups: the schedule, backups asked for by users and made by      *)
(* `habeny backup create`, their pruning, and `habeny backup restore`.     *)
(*                                                                         *)
(* The server makes one backup at a time (_lock); a command is a process   *)
(* of its own. A backup is named before its archive is packed, which may   *)
(* take hours; it is listed, and pruned, by its name, but its age is that  *)
(* of the file. Who made it prunes afterwards, without the lock. A restore *)
(* replaces one part of the data after the other, and may fail or be       *)
(* killed at any point.                                                    *)
(***************************************************************************)
EXTENDS Integers, Sequences, FiniteSets

CONSTANTS
    Requests,       \* threads of the server that handle requests for a backup
    Commands,       \* processes of `habeny backup create`
    Keep,           \* HABENY_BACKUP_KEEP
    Interval,       \* HABENY_BACKUP_INTERVAL_HOURS
    Slowest,        \* the hours that packing a scheduled backup takes at most
    MaxTime,        \* bound: the clock, in hours
    MaxBackups,     \* bound: names taken by backups
    Files, Directories, \* what a backup holds beside the database
    MaxRestores     \* bound: restores begun

ASSUME KeepType == Keep \in Nat \ {0}
ASSUME IntervalType == Interval \in Nat \ {0}
ASSUME SlowestType == Slowest \in Nat
ASSUME BoundsType == {MaxTime, MaxBackups, MaxRestores} \subseteq Nat
ASSUME PartsAreNamed == "none" \notin Files \cup Directories

VARIABLES
    hour,           \* the clock
    names,          \* the names taken: the time of each is later than that of those before
    backups,        \* list_backups: name and hour of it, hour of the file, whether by the schedule
    maker,          \* create_backup: idle, staging, packing, packed; and the name it has taken
    passed,         \* whether an hourly pass has ended without an error in this hour
    data, aside,    \* what each part holds, and its *.before-restore: restores counted, or nothing
    restoring,      \* restore_backup: the part it is at, and those left
    restores,       \* restores begun
    replaced        \* what each part held when the last restore began (history)

makingVars == <<hour, names, backups, maker, passed>>
restoreVars == <<data, aside, restoring, restores, replaced>>
backupVars == <<makingVars, restoreVars>>

Maintenance == "maintenance"
InServer == Requests \cup {Maintenance}
Makers == InServer \cup Commands
Parts == Files \cup Directories
Absent == -1
Backup == [name : 1 .. MaxBackups, named : 0 .. MaxTime, at : 0 .. MaxTime, scheduled : BOOLEAN]
Making == [stage : {"idle", "staging", "packing", "packed"}, name : 0 .. MaxBackups, named : 0 .. MaxTime]
Idle == [stage |-> "idle", name |-> 0, named |-> 0]
NotRestoring == [part |-> "none", stage |-> "none", left |-> {}]

BackupTypeOK ==
    /\ hour \in 0 .. MaxTime
    /\ names \in 0 .. MaxBackups
    /\ backups \subseteq Backup
    /\ maker \in [Makers -> Making]
    /\ passed \in BOOLEAN
    /\ {data, aside, replaced} \subseteq [Parts -> Absent .. MaxRestores]
    /\ restoring \in [part : Parts \cup {"none"}, stage : {"none", "clear", "aside", "put"}, left : SUBSET Parts]
    /\ restores \in 0 .. MaxRestores

MakerIs(m, new) == maker' = [maker EXCEPT ![m] = new]
MakerGoes(m, stage) == MakerIs(m, [maker[m] EXCEPT !.stage = stage])
LockFree == \A m \in InServer : maker[m].stage \notin {"staging", "packing"}

-----------------------------------------------------------------------------
(* Making backups. *)

\* Mutant of Due: once there is one.
DueOnce == \A b \in backups : ~b.scheduled

\* backup_if_due: no scheduled one, or the newest of them is too old
Due == \A b \in backups : b.scheduled => hour - b.at >= Interval

\* The maintenance thread comes by.
HourlyPass ==
    /\ maker[Maintenance].stage = "idle"
    /\ IF Due THEN LockFree /\ MakerGoes(Maintenance, "staging") /\ UNCHANGED passed
              ELSE passed' = TRUE /\ UNCHANGED maker
    /\ UNCHANGED <<hour, names, backups, restoreVars>>

Ask(m) ==
    /\ maker[m].stage = "idle" /\ m # Maintenance
    /\ m \in Requests => LockFree
    /\ MakerGoes(m, "staging")
    /\ UNCHANGED <<hour, names, backups, passed, restoreVars>>

\* All is copied and the manifest written.
TakeName(m) ==
    /\ maker[m].stage = "staging" /\ names < MaxBackups
    /\ names' = names + 1
    /\ MakerIs(m, [stage |-> "packing", name |-> names', named |-> hour])
    /\ UNCHANGED <<hour, backups, passed, restoreVars>>

\* os.replace, when the archive is packed
Write(m) ==
    /\ maker[m].stage = "packing"
    /\ backups' = backups \cup {[name |-> maker[m].name, named |-> maker[m].named,
                                 at |-> hour, scheduled |-> m = Maintenance]}
    /\ MakerIs(m, [Idle EXCEPT !.stage = "packed"])
    /\ UNCHANGED <<hour, names, passed, restoreVars>>

\* prune_backups: the newest names of all, whoever made them
Kept == {b \in backups : Cardinality({c \in backups : c.name > b.name}) < Keep}

Prune(m) ==
    /\ maker[m].stage = "packed"
    /\ backups' = Kept
    /\ passed' = (passed \/ m = Maintenance)
    /\ MakerIs(m, Idle)
    /\ UNCHANGED <<hour, names, restoreVars>>

\* No space, or the process ends: nothing is left under the real name.
MakingFails(m) ==
    /\ maker[m].stage # "idle"
    /\ MakerIs(m, Idle)
    /\ UNCHANGED <<hour, names, backups, passed, restoreVars>>

\* The schedule's pruning takes no time, its packing not for ever.
AnHourPasses ==
    /\ hour < MaxTime /\ hour' = hour + 1 /\ passed' = FALSE
    /\ maker[Maintenance].stage # "packed"
    /\ maker[Maintenance].stage = "packing" => hour - maker[Maintenance].named < Slowest
    /\ UNCHANGED <<names, backups, maker, restoreVars>>

MakingNext ==
    \/ HourlyPass \/ AnHourPasses
    \/ \E m \in Makers : Ask(m) \/ TakeName(m) \/ Write(m) \/ Prune(m) \/ MakingFails(m)

-----------------------------------------------------------------------------
(* Restoring, while the server is stopped. *)

At(p, stage) == restoring.part = p /\ restoring.stage = stage
Stage(stage) == restoring' = [restoring EXCEPT !.stage = stage]

\* The backup is unpacked and verified, and holds some of the parts.
RestoreBegins(parts) ==
    /\ restoring = NotRestoring /\ restores < MaxRestores
    /\ restores' = restores + 1
    /\ replaced' = data
    /\ restoring' = [NotRestoring EXCEPT !.left = parts]
    /\ UNCHANGED <<makingVars, data, aside>>

TakePart(p) ==
    /\ restoring.part = "none" /\ p \in restoring.left
    /\ p \in Directories => restoring.left \cap Files = {}
    /\ restoring' = [part |-> p, left |-> restoring.left \ {p},
                     stage |-> IF data[p] = Absent THEN "put" ELSE IF p \in Files THEN "aside" ELSE "clear"]
    /\ UNCHANGED <<makingVars, data, aside, restores, replaced>>

\* rmtree
ClearAside(p) ==
    /\ At(p, "clear")
    /\ aside' = [aside EXCEPT ![p] = Absent]
    /\ Stage("aside")
    /\ UNCHANGED <<makingVars, data, restores, replaced>>

\* Mutant of PutAside: what was put aside before is not replaced.
PutAsideFirstOnly(p) ==
    /\ At(p, "aside")
    /\ aside' = IF aside[p] = Absent THEN [aside EXCEPT ![p] = data[p]] ELSE aside
    /\ data' = IF p \in Directories THEN [data EXCEPT ![p] = Absent] ELSE data
    /\ Stage("put")
    /\ UNCHANGED <<makingVars, restores, replaced>>

\* A file is copied, a directory renamed.
PutAside(p) ==
    /\ At(p, "aside")
    /\ aside' = [aside EXCEPT ![p] = data[p]]
    /\ data' = IF p \in Directories THEN [data EXCEPT ![p] = Absent] ELSE data
    /\ Stage("put")
    /\ UNCHANGED <<makingVars, restores, replaced>>

PutBack(p) ==
    /\ At(p, "put")
    /\ data' = [data EXCEPT ![p] = restores]
    /\ restoring' = [restoring EXCEPT !.part = "none", !.stage = "none"]
    /\ UNCHANGED <<makingVars, aside, restores, replaced>>

\* Also when a directory has been copied in part, and when all is done.
RestoreEnds ==
    /\ restoring # NotRestoring
    /\ restoring' = NotRestoring
    /\ data' \in {data} \cup {[data EXCEPT ![p] = restores] : p \in {p \in Parts : At(p, "put")}}
    /\ UNCHANGED <<makingVars, aside, restores, replaced>>

RestoreNext ==
    \/ \E parts \in SUBSET Parts : RestoreBegins(parts)
    \/ \E p \in Parts : TakePart(p) \/ ClearAside(p) \/ PutAside(p) \/ PutBack(p)
    \/ RestoreEnds

BackupInit ==
    /\ hour = 0 /\ names = 0 /\ backups = {}
    /\ maker = [m \in Makers |-> Idle]
    /\ passed = FALSE
    /\ data \in [Parts -> {Absent, 0}]
    /\ aside = [p \in Parts |-> Absent]
    /\ restoring = NotRestoring /\ restores = 0
    /\ replaced = data

BackupNext == MakingNext \/ RestoreNext

BackupSpec == BackupInit /\ [][BackupNext]_backupVars

-----------------------------------------------------------------------------
(* Properties. *)

\* When the hourly pass ends without an error there is a backup that was named within the
\* interval and the time that packing a scheduled one takes. Backups by users push the
\* scheduled ones out of the number kept, a slow one at once when quicker ones got later
\* names, and the schedule only looks at the files of those that are left (backup.py:
\* create_backup, prune_backups, backup_if_due).
FreshBackup == passed => \E b \in backups : hour - b.named < Interval + Slowest

\* "What's replaced is kept aside" (backup.py: restore_backup), wherever the restore fails
\* or is killed. It is of each restore: one that is tried again keeps what the first left.
ReplacedIsKept == \A p \in Parts : replaced[p] = Absent \/ replaced[p] \in {data[p], aside[p]}
=============================================================================
