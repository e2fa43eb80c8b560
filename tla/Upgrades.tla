------------------------------ MODULE Upgrades ------------------------------
(***************************************************************************)
(* The schema of the database: the server, which migrates it when it       *)
(* starts, and `habeny db migrate`, `restore` and `downgrade`, processes   *)
(* of their own.                                                           *)
(*                                                                         *)
(* Only servers take the lock of the data directory; restore and downgrade *)
(* look whether one runs when they begin (with --force, not even that). A  *)
(* process reads the version once; each migration is a transaction.        *)
(***************************************************************************)
EXTENDS Integers, Sequences, FiniteSets

CONSTANTS
    Commands,       \* processes of the command line
    Releases,       \* latest_version() of the releases that are installed in turn
    Repeatable,     \* migrations that can be applied twice (v0001 is)
    KeepCopies      \* KEEP_BACKUPS

ASSUME ReleasesType == Releases \subseteq Nat \ {0}
ASSUME LatestExists == \E r \in Releases : \A q \in Releases : q <= r
ASSUME RepeatableFirst == Repeatable \subseteq {1}
ASSUME KeepCopiesType == KeepCopies \in Nat \ {0}

VARIABLES
    db,             \* user_version, and the migrations that the tables show
    copies,         \* databases in backups/, the newest first
    installed,      \* the release installed
    process,        \* the server and the commands
    mixed           \* two of them worked at once in a way that is not safe (history)

upgradeVars == <<db, copies, installed, process, mixed>>

Server == "server"
Processes == Commands \cup {Server}
Latest == CHOOSE r \in Releases : \A q \in Releases : q <= r
Database == [version : 0 .. Latest, applied : SUBSET (1 .. Latest)]
Schema(v) == [version |-> v, applied |-> 1 .. v]
Gone == 0
Down == [at |-> "down", release |-> 0, first |-> 0, last |-> 0, file |-> Gone]

Process == [at : {"down", "begun", "up", "saved up", "down to", "saved down", "restore", "serving"},
            release : Releases \cup {0}, first : 0 .. Latest, last : 0 .. Latest, file : 0 .. KeepCopies]

UpgradeTypeOK ==
    /\ db \in Database
    /\ copies \in Seq(Database) /\ Len(copies) <= KeepCopies
    /\ installed \in Releases
    /\ process \in [Processes -> Process]
    /\ mixed \in BOOLEAN

\* Between reading the version and its last change.
AtWork(p) == process[p].at \notin {"down", "begun", "serving"}
Undoing(p) == process[p].at \in {"down to", "saved down", "restore"}
Others(p) == Processes \ {p}
LockIsFree == process[Server].at = "down"

Goes(p, at) == [process EXCEPT ![p].at = at]
Ends(p) == [process EXCEPT ![p] = Down]

\* p comes to work while others do: two upgrades get on unless the database is empty.
Mixes(p, undoing) ==
    mixed' = (mixed \/ \E q \in Others(p) : AtWork(q) /\ (undoing \/ Undoing(q) \/ db.version = 0))

-----------------------------------------------------------------------------
(* Beginning. *)

\* create_app: acquire, and then init_db
ServerStarts ==
    /\ LockIsFree
    /\ process' = [process EXCEPT ![Server] = [Down EXCEPT !.at = "begun", !.release = installed]]
    /\ UNCHANGED <<db, copies, installed, mixed>>

CommandBegins(p) ==
    /\ process[p] = Down
    /\ process' = [process EXCEPT ![p] = [Down EXCEPT !.at = "begun", !.release = installed]]
    /\ UNCHANGED <<db, copies, installed, mixed>>

\* migrate: nothing to do, too new, or pending migrations
ReadVersion(p) ==
    LET known == process[p].release IN
    /\ process[p].at = "begun"
    /\ \/ /\ db.version < known
          /\ process' = [process EXCEPT ![p] = [@ EXCEPT !.at = "up", !.first = db.version + 1, !.last = known]]
          /\ Mixes(p, FALSE)
       \/ /\ db.version = known /\ p = Server
          /\ process' = Goes(p, "serving")
          /\ Mixes(p, FALSE)
       \/ /\ db.version > known \/ (db.version = known /\ p # Server)
          /\ process' = Ends(p) /\ UNCHANGED mixed
    /\ UNCHANGED <<db, copies, installed>>

\* Mutant of AskDowngrade: also while Habeny runs.
AskDowngradeAnyway(p, v) ==
    /\ process[p].at = "begun" /\ p # Server
    /\ v \in 1 .. db.version - 1 /\ db.version <= process[p].release
    /\ process' = [process EXCEPT ![p] = [@ EXCEPT !.at = "down to", !.first = db.version, !.last = v]]
    /\ Mixes(p, TRUE)
    /\ UNCHANGED <<db, copies, installed>>

\* habeny db downgrade --to v; _service_active comes first
AskDowngrade(p, v) ==
    /\ process[p].at = "begun" /\ p # Server /\ LockIsFree
    /\ v \in 1 .. db.version - 1 /\ db.version <= process[p].release
    /\ process' = [process EXCEPT ![p] = [@ EXCEPT !.at = "down to", !.first = db.version, !.last = v]]
    /\ Mixes(p, TRUE)
    /\ UNCHANGED <<db, copies, installed>>

\* habeny db restore
AskRestore(p, i) ==
    /\ process[p].at = "begun" /\ p # Server /\ LockIsFree
    /\ copies[i].version <= process[p].release
    /\ process' = [process EXCEPT ![p] = [@ EXCEPT !.at = "restore", !.file = i]]
    /\ Mixes(p, TRUE)
    /\ UNCHANGED <<db, copies, installed>>

-----------------------------------------------------------------------------
(* Working. *)

Kept(i) == i \in 1 .. KeepCopies - 1

\* backup: the newest KEEP_BACKUPS stay, and a file that some process is to restore may go.
Copy(processes) ==
    LET all == <<db>> \o copies IN
    /\ copies' = SubSeq(all, 1, IF Len(all) < KeepCopies THEN Len(all) ELSE KeepCopies)
    /\ process' = [p \in Processes |-> [processes[p] EXCEPT !.file = IF Kept(@) THEN @ + 1 ELSE Gone]]

SaveFirst(p) ==
    LET saved == Goes(p, IF process[p].at = "up" THEN "saved up" ELSE "saved down") IN
    /\ process[p].at \in {"up", "down to"}
    /\ IF db.applied # {} THEN Copy(saved) ELSE process' = saved /\ UNCHANGED copies
    /\ UNCHANGED <<db, installed, mixed>>

\* One migration, with its row in schema_history
Migrated(m) == [version |-> m, applied |-> db.applied \cup {m}]

StepUp(p) ==
    LET m == process[p].first IN
    /\ process[p].at = "saved up"
    /\ m \in db.applied => m \in Repeatable
    /\ db' = Migrated(m)
    /\ process' = [process EXCEPT ![p] =
          IF m < @.last THEN [@ EXCEPT !.first = m + 1]
          ELSE IF p = Server THEN [@ EXCEPT !.at = "serving"] ELSE Down]
    /\ UNCHANGED <<copies, installed, mixed>>

StepDown(p) ==
    LET m == process[p].first IN
    /\ process[p].at = "saved down"
    /\ m \in db.applied
    /\ db' = [version |-> m - 1, applied |-> db.applied \ {m}]
    /\ process' = [process EXCEPT ![p] = IF m - 1 > @.last THEN [@ EXCEPT !.first = m - 1] ELSE Down]
    /\ UNCHANGED <<copies, installed, mixed>>

\* restore: the file asked for is copied, unless it was the oldest and has made room for
\* the copy of the database it was to replace.
Restore(p) ==
    /\ process[p].at = "restore"
    /\ Copy(Ends(p))
    /\ db' = IF Kept(process[p].file) THEN copies[process[p].file] ELSE db
    /\ UNCHANGED <<installed, mixed>>

\* An error, which rolls the transaction back, or the end of the process at any point.
Fails(p) ==
    /\ process[p] # Down
    /\ process' = Ends(p)
    /\ UNCHANGED <<db, copies, installed, mixed>>

-----------------------------------------------------------------------------
\* postinstall.sh stops the service first.
Install(r) ==
    /\ LockIsFree /\ \A p \in Commands : process[p] = Down
    /\ installed' = r
    /\ UNCHANGED <<db, copies, process, mixed>>

\* A database of some release, or none
UpgradeInit ==
    /\ db \in {Schema(v) : v \in 0 .. Latest}
    /\ copies = <<>>
    /\ installed \in Releases
    /\ process = [p \in Processes |-> Down]
    /\ mixed = FALSE

UpgradeNext ==
    \/ ServerStarts
    \/ \E p \in Commands :
          \/ CommandBegins(p)
          \/ \E v \in 1 .. Latest : AskDowngrade(p, v)
          \/ \E i \in 1 .. Len(copies) : AskRestore(p, i)
    \/ \E p \in Processes : ReadVersion(p) \/ SaveFirst(p) \/ StepUp(p) \/ StepDown(p) \/ Restore(p) \/ Fails(p)
    \/ \E r \in Releases : Install(r)

UpgradeSpec == UpgradeInit /\ [][UpgradeNext]_upgradeVars

-----------------------------------------------------------------------------
(* Properties. *)

\* The version says what the tables are, whatever fails or is killed between two
\* migrations and also when two processes upgrade at once, and a server serves only the
\* schema it knows. Unless a restore or a downgrade works while another process does, or
\* two processes upgrade an empty database (migrations/__init__.py: migrate, downgrade).
SchemaIsKnown ==
    ~mixed => /\ db.applied = 1 .. db.version
              /\ process[Server].at = "serving" => db.version = process[Server].release
=============================================================================
