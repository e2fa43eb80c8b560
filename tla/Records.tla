------------------------------ MODULE Records ------------------------------
(***************************************************************************)
(* A PersistentStore: a dict of records that several threads change in     *)
(* place, and the rows of the `records` table that follow it.              *)
(*                                                                         *)
(* Actors: jobs (request handlers and background tasks, which put, change  *)
(* and save records), the maintenance thread (flush and prune), and the    *)
(* process (exit, crash, start). The store's lock is held for a whole save *)
(* or prune; changes in place do not take it.                              *)
(*                                                                         *)
(* The stores are independent of each other: this is one of them. The      *)
(* content of a record is the number of its version, apart from whether    *)
(* its status is one of active_statuses.                                   *)
(***************************************************************************)
EXTENDS Naturals

CONSTANTS
    Keys,           \* record ids
    NoKey,          \* no record
    MaxVersion      \* bound: versions of a record (the last one is not active)

ASSUME NoKeyIsNone == NoKey \notin Keys
ASSUME MaxVersionType == MaxVersion \in Nat

VARIABLES
    up,         \* "loading" (load), "starting" (resume_log_schedules), "running",
                \* "stopping" (the last flush) or "down"
    mem,        \* the dict
    db,         \* the rows of the records table
    saved,      \* _saved: the version whose digest is remembered (0: none)
    lock,       \* who holds _lock
    at,         \* the save or deletion in progress under the lock
    todo,       \* flush: list(self.keys()) still to save; load: `interrupted`
    doomed,     \* prune: ids still to delete
    late        \* changed, or not saved, after the last flush came by (history)

vars == <<up, mem, db, saved, lock, at, todo, doomed, late>>

Status == {"none", "active", "finished", "interrupted"}
Record == [n : Nat, status : Status]
Row == [n : Nat, status : Status, old : BOOLEAN]
NoRecord == [n |-> 0, status |-> "none"]
NoRow == [n |-> 0, status |-> "none", old |-> FALSE]

At == [key : Keys \cup {NoKey}, step : {"none", "dump", "write", "delete"},
       torn : BOOLEAN, data : Record]
Nothing == [key |-> NoKey, step |-> "none", torn |-> FALSE, data |-> NoRecord]

TypeOK ==
    /\ up \in {"loading", "starting", "running", "stopping", "down"}
    /\ mem \in [Keys -> Record]
    /\ db \in [Keys -> Row]
    /\ saved \in [Keys -> Nat]
    /\ lock \in {"free", "job", "flush", "prune"}
    /\ at \in At
    /\ todo \subseteq Keys
    /\ doomed \subseteq Keys
    /\ late \subseteq Keys
    /\ at = Nothing <=> lock \in {"free", "prune"}
    /\ doomed # {} <=> lock = "prune"

Live == {k \in Keys : mem[k] # NoRecord}
Dirty(k) == k \in Live /\ saved[k] # mem[k].n
Room(n, status) == n <= MaxVersion /\ (status = "active" => n < MaxVersion)
EmptyDict == [k \in Keys |-> NoRecord]
NoDigests == [k \in Keys |-> 0]

Init ==
    /\ up = "running"
    /\ mem = EmptyDict
    /\ db = [k \in Keys |-> NoRow]
    /\ saved = NoDigests
    /\ lock = "free"
    /\ at = Nothing
    /\ todo = {}
    /\ doomed = {}
    /\ late = {}

-----------------------------------------------------------------------------
(* Taking and giving back the lock *)

\* Mutant of Free: save() without the lock.
FreeAlways == TRUE

Free == lock = "free"

Take(who, k, step) ==
    /\ lock' = who
    /\ at' = [Nothing EXCEPT !.key = k, !.step = step]

Release == lock' = "free" /\ at' = Nothing

-----------------------------------------------------------------------------
(* Jobs *)

\* store[k] = value: in the dict at once, then save(k). The ids of jobs are
\* fresh; a detection check may put a finished record back that it still held.
Put(k, status) ==
    /\ up = "running" /\ Free /\ k \notin Live
    /\ db[k] = NoRow \/ status = "finished"
    /\ Room(db[k].n + 1, status)
    /\ mem' = [mem EXCEPT ![k] = [n |-> db[k].n + 1, status |-> status]]
    /\ Take("job", k, "dump")
    /\ UNCHANGED <<up, db, saved, todo, doomed, late>>

\* What is in the dict changes in place, whoever holds the lock; the record may be
\* the one being serialised.
InPlace(k, status) ==
    /\ Room(mem[k].n + 1, status)
    /\ mem' = [mem EXCEPT ![k] = [n |-> mem[k].n + 1, status |-> status]]
    /\ at' = IF at.key = k /\ at.step = "dump" THEN [at EXCEPT !.torn = TRUE] ELSE at

\* A job changes its record.
Change(k, status) ==
    /\ up \in {"running", "stopping"} /\ k \in Live
    /\ mem[k].status # "active" => status = mem[k].status
    /\ InPlace(k, status)
    /\ late' = IF up = "stopping" THEN late \cup {k} ELSE late
    /\ UNCHANGED <<up, db, saved, lock, todo, doomed>>

\* Who changed a record saves it.
Save(k) ==
    /\ up \in {"starting", "running", "stopping"} /\ Free
    /\ Dirty(k)
    /\ Take("job", k, "dump")
    /\ UNCHANGED <<up, mem, db, saved, todo, doomed, late>>

\* resume_log_schedules: an interrupted job is active again, or its time has run
\* out, however old its row is; it is saved before the next one's turn.
Resume(k, status) ==
    /\ up = "starting" /\ \A j \in Keys : ~Dirty(j)
    /\ mem[k].status = "interrupted" /\ status \in {"active", "finished"}
    /\ InPlace(k, status)
    /\ UNCHANGED <<up, db, saved, lock, todo, doomed, late>>

\* pop(k): progress_start drops finished records.
Pop(k) ==
    /\ up = "running" /\ Free
    /\ k \in Live /\ mem[k].status # "active"
    /\ mem' = [mem EXCEPT ![k] = NoRecord]
    /\ saved' = [saved EXCEPT ![k] = 0]
    /\ Take("job", k, "delete")
    /\ UNCHANGED <<up, db, todo, doomed, late>>

-----------------------------------------------------------------------------
(* The holder of the lock: save(k), step by step, and _delete(k) *)

\* Serialise: what was changed meanwhile may defer it to the next flush, and
\* there is nothing to do when the digest is the remembered one.
Dump ==
    /\ at.step = "dump"
    /\ \/ /\ at.torn
          /\ Release
          /\ UNCHANGED late
       \/ /\ IF saved[at.key] = mem[at.key].n
             THEN Release
             ELSE at' = [at EXCEPT !.step = "write", !.data = mem[at.key]] /\ UNCHANGED lock
          /\ late' = late \ {at.key}
    /\ UNCHANGED <<up, mem, db, saved, todo, doomed>>

\* The row is written and committed, and its digest remembered.
Write ==
    /\ at.step = "write"
    /\ db' = [db EXCEPT ![at.key] = [n |-> at.data.n, status |-> at.data.status, old |-> FALSE]]
    /\ saved' = [saved EXCEPT ![at.key] = at.data.n]
    /\ Release
    /\ UNCHANGED <<up, mem, todo, doomed, late>>

\* An sqlite error: it reaches the caller, and a flush ends with it. (A start that
\* cannot save what it resumes ends: Crash.)
WriteFails ==
    /\ at.step = "write" /\ (up = "starting" => lock = "flush")
    /\ todo' = IF lock = "flush" THEN {} ELSE todo
    /\ late' = IF up # "stopping" THEN late
               ELSE late \cup {at.key} \cup (todo \ todo')
    /\ Release
    /\ UNCHANGED <<up, mem, db, saved, doomed>>

Erase ==
    /\ at.step = "delete"
    /\ db' = [db EXCEPT ![at.key] = NoRow]
    /\ Release
    /\ UNCHANGED <<up, mem, saved, todo, doomed, late>>

EraseFails ==
    /\ at.step = "delete"
    /\ Release
    /\ UNCHANGED <<up, mem, db, saved, todo, doomed, late>>

-----------------------------------------------------------------------------
(* The maintenance thread *)

Idle == todo = {} /\ lock \notin {"flush", "prune"}

FlushStart ==
    /\ up \in {"starting", "running"} /\ Idle
    /\ todo' = Live
    /\ UNCHANGED <<up, mem, db, saved, lock, at, doomed, late>>

\* Mutant of FlushKey: only what is still in progress is saved.
FlushActive(k) ==
    /\ up \in {"starting", "running", "stopping"} /\ Free
    /\ k \in todo
    /\ todo' = todo \ {k}
    /\ IF mem[k].status = "active" THEN Take("flush", k, "dump") ELSE UNCHANGED <<lock, at>>
    /\ UNCHANGED <<up, mem, db, saved, doomed, late>>

\* flush comes to the next key, which may have been deleted.
FlushKey(k) ==
    /\ up \in {"starting", "running", "stopping"} /\ Free
    /\ k \in todo
    /\ todo' = todo \ {k}
    /\ IF k \in Live THEN Take("flush", k, "dump") ELSE UNCHANGED <<lock, at>>
    /\ UNCHANGED <<up, mem, db, saved, doomed, late>>

\* A row has not been updated for the retention time: days, while flush saves
\* what has changed every 10 seconds.
Age(k) ==
    /\ db[k].n > 0 /\ ~db[k].old /\ ~Dirty(k)
    /\ db' = [db EXCEPT ![k].old = TRUE]
    /\ UNCHANGED <<up, mem, saved, lock, at, todo, doomed, late>>

\* Mutant of PruneStart: whatever is old goes.
PruneStartAny ==
    /\ up = "running" /\ Idle /\ Free
    /\ doomed' = {k \in Keys : db[k].old}
    /\ doomed' # {}
    /\ lock' = "prune"
    /\ UNCHANGED <<up, mem, db, saved, at, todo, late>>

\* prune selects rows by what the database says of them (for the first time a minute
\* after the start, when resume_log_schedules is through) ...
PruneStart ==
    /\ up = "running" /\ Idle /\ Free
    /\ doomed' = {k \in Keys : db[k].old /\ db[k].status # "active"}
    /\ doomed' # {}
    /\ lock' = "prune"
    /\ UNCHANGED <<up, mem, db, saved, at, todo, late>>

\* ... and deletes them one by one, each in a transaction of its own.
PruneOne(k) ==
    /\ k \in doomed
    /\ mem' = [mem EXCEPT ![k] = NoRecord]
    /\ saved' = [saved EXCEPT ![k] = 0]
    /\ db' = [db EXCEPT ![k] = NoRow]
    /\ doomed' = doomed \ {k}
    /\ lock' = IF doomed' = {} THEN "free" ELSE lock
    /\ UNCHANGED <<up, at, todo, late>>

\* An sqlite error ends the pruning: the record is gone from memory only.
PruneFails(k) ==
    /\ k \in doomed
    /\ mem' = [mem EXCEPT ![k] = NoRecord]
    /\ saved' = [saved EXCEPT ![k] = 0]
    /\ doomed' = {}
    /\ lock' = "free"
    /\ UNCHANGED <<up, db, at, todo, late>>

-----------------------------------------------------------------------------
(* The process *)

\* Mutant of StopMaintenance: stop() without the last flush.
StopWithoutFlush ==
    /\ up = "running" /\ Idle
    /\ up' = "stopping"
    /\ UNCHANGED <<mem, db, saved, lock, at, todo, doomed, late>>

\* Maintenance.stop(): the thread has ended, and flush runs once more.
StopMaintenance ==
    /\ up = "running" /\ Idle
    /\ up' = "stopping"
    /\ todo' = Live
    /\ UNCHANGED <<mem, db, saved, lock, at, doomed, late>>

LoseMemory ==
    /\ up' = "down"
    /\ mem' = EmptyDict
    /\ saved' = NoDigests
    /\ todo' = {}
    /\ doomed' = {}
    /\ late' = {}
    /\ Release
    /\ UNCHANGED db

Exit == up = "stopping" /\ todo = {} /\ Free /\ LoseMemory

Crash == up # "down" /\ LoseMemory

\* load: records in progress become interrupted, and pending detection checks
\* of others (`cut`) are called off.
Start ==
    /\ up = "down"
    /\ up' = "loading"
    /\ \E cut \in SUBSET {k \in Keys : db[k].status = "finished" /\ db[k].n < MaxVersion} :
          /\ todo' = cut \cup {k \in Keys : db[k].status = "active"}
          /\ mem' = [k \in Keys |->
                       [n |-> IF k \in todo' THEN db[k].n + 1 ELSE db[k].n,
                        status |-> IF db[k].status = "active" THEN "interrupted" ELSE db[k].status]]
    /\ saved' = [k \in Keys |-> db[k].n]
    /\ UNCHANGED <<db, lock, at, doomed, late>>

\* ... and the marked ones are saved, one by one. (An error ends the start.)
LoadSave(k) ==
    /\ up = "loading" /\ k \in todo
    /\ todo' = todo \ {k}
    /\ db' = [db EXCEPT ![k] = [n |-> mem[k].n, status |-> mem[k].status, old |-> FALSE]]
    /\ saved' = [saved EXCEPT ![k] = mem[k].n]
    /\ UNCHANGED <<up, mem, lock, at, doomed, late>>

Loaded ==
    /\ up = "loading" /\ todo = {}
    /\ up' = "starting"
    /\ UNCHANGED <<mem, db, saved, lock, at, todo, doomed, late>>

\* The maintenance thread and the server: what was resumed has been saved.
Started ==
    /\ up = "starting" /\ lock # "job" /\ \A k \in Keys : ~Dirty(k)
    /\ up' = "running"
    /\ UNCHANGED <<mem, db, saved, lock, at, todo, doomed, late>>

-----------------------------------------------------------------------------
JobNext(k) ==
    \/ \E s \in {"active", "finished"} : Put(k, s)
    \/ \E s \in Status \ {"none"} : Change(k, s)
    \/ \E s \in {"active", "finished"} : Resume(k, s)
    \/ Save(k) \/ Pop(k)

HolderNext == Dump \/ Write \/ Erase
MaintenanceNext == FlushStart \/ PruneStart \/ \E k \in Keys : FlushKey(k) \/ PruneOne(k)
ErrorNext == WriteFails \/ EraseFails \/ \E k \in Keys : PruneFails(k)
ProcessNext == StopMaintenance \/ Exit \/ Crash \/ Start \/ Loaded \/ Started \/ \E k \in Keys : LoadSave(k)

ReliableNext ==
    \/ \E k \in Keys : JobNext(k) \/ Age(k)
    \/ HolderNext \/ MaintenanceNext \/ ProcessNext

Next == ReliableNext \/ ErrorNext

Spec == Init /\ [][Next]_vars

-----------------------------------------------------------------------------
(* Properties *)

\* flush and save skip a record whose digest is the remembered one: the row
\* must then hold that version, whatever was changed or deleted meanwhile.
DigestAgrees == \A k \in Keys : saved[k] # 0 => db[k].n = saved[k]

\* prune goes by the rows, which lag behind: it must never forget a record
\* that is in progress in memory, not even one that was resumed after more than
\* the retention time.
PruneSparesActive ==
    [][\A k \in doomed : mem'[k] = NoRecord => mem[k].status # "active"]_vars

\* When everything is loaded no row says "running" of a job that is not: the
\* interrupted ones have been marked on disk too, also after crashes while
\* loading.
NoneLeftActive == [][Loaded => \A k \in Keys : db[k].status # "active"]_vars

\* A clean stop loses nothing but what jobs changed after the last flush came
\* by, or what the database refused.
ExitKeepsAll == [][Exit => \A k \in Live \ late : db[k].n = mem[k].n]_vars

\* The store implements DurableRecords: rows never fall back to an older
\* version, only deleted ones disappear, and a start brings them all back.
Durable == INSTANCE DurableRecords WITH
    alive <- up # "down",
    mem <- [k \in Keys |-> mem[k].n],
    disk <- [k \in Keys |-> db[k].n]
IsDurable == Durable!Spec

\* A change made in place reaches the database by itself, if the database does
\* not refuse it: the maintenance thread gets its turns, and the lock after
\* others had it.
FlushFairness ==
    /\ WF_vars(HolderNext)
    /\ SF_vars(FlushStart)
    /\ SF_vars(\E k \in Keys : FlushKey(k))
    /\ \A k \in Keys : WF_vars(PruneOne(k))
    /\ WF_vars(Loaded) /\ WF_vars(Started)
    /\ \A k \in Keys : WF_vars(LoadSave(k))
EventuallySaved == \A k \in Keys : Dirty(k) ~> ~Dirty(k) \/ up \in {"stopping", "down"}

=============================================================================
