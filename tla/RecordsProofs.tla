---------------------------- MODULE RecordsProofs ----------------------------
(***************************************************************************)
(* Records keeps its types, its digests agree with the rows, a start, a    *)
(* prune and a clean stop do what they promise, and it implements          *)
(* DurableRecords, for any number of records and versions.                 *)
(***************************************************************************)
EXTENDS Records, TLAPS

\* A record or row without a version has no status either.
Whole(r) == r.n = 0 => r.status = "none"

\* The disk is never ahead of a record in memory, nor of what is being written;
\* digests are remembered of records in memory only.
Behind ==
    /\ \A k \in Keys : mem[k].n # 0 \/ up = "loading" => db[k].n <= mem[k].n
    /\ \A k \in Keys : saved[k] # 0 => mem[k].n # 0
    /\ at.step = "write" => /\ db[at.key].n <= at.data.n
                            /\ at.data.n <= mem[at.key].n
                            /\ at.data.n # 0

\* What the holder of the lock works on is there, or is gone if it deletes it.
Held ==
    /\ at.step = "none" => at = Nothing
    /\ at.step # "none" => at.key \in Keys
    /\ at.step = "dump" => mem[at.key].n # 0
    /\ at.step = "delete" => mem[at.key].n = 0
    /\ at.step # "none" => lock \in {"job", "flush"}

\* Nothing is left of a process that has ended, and nobody else is about while
\* one starts.
Quiet ==
    /\ up \in {"loading", "down"} => lock = "free"
    /\ up = "down" => mem = EmptyDict /\ saved = NoDigests /\ todo = {}

Inv ==
    /\ TypeOK
    /\ DigestAgrees
    /\ \A k \in Keys : Whole(mem[k]) /\ Whole(db[k])
    /\ Whole(at.data)
    /\ Behind
    /\ Held
    /\ Quiet

-----------------------------------------------------------------------------
USE NoKeyIsNone, MaxVersionType

LEMMA Constructors ==
    /\ NoRecord \in Record /\ NoRow \in Row /\ Nothing \in At
    /\ Whole(NoRecord) /\ Whole(NoRow) /\ Whole(Nothing.data)
    /\ Nothing.step = "none" /\ Nothing.key = NoKey
  BY DEF NoRecord, NoRow, Nothing, Record, Row, At, Status, Whole

LEMMA InitInv == Init => Inv
  BY Constructors DEF Init, Inv, TypeOK, DigestAgrees, Behind, Held, Quiet, EmptyDict,
     NoDigests, Nothing, NoRecord, NoRow, Record, Row, At, Status, Whole

\* A record that is not absent has a version.
LEMMA LiveHasVersion ==
    ASSUME Inv, NEW k \in Live
    PROVE  k \in Keys /\ mem[k].n # 0
<1>1. k \in Keys /\ mem[k] # NoRecord /\ mem[k] \in Record /\ Whole(mem[k])
  BY DEF Live, Inv, TypeOK
<1> QED  BY <1>1 DEF Whole, NoRecord, Record

-----------------------------------------------------------------------------
(* Each action keeps the invariant *)

USE DEF TypeOK, DigestAgrees, Behind, Held, Quiet, Whole, Record, Row, At, Status

\* What a holder that has just taken the lock works on.
LEMMA TakeFacts ==
    ASSUME NEW who \in {"job", "flush"}, NEW k \in Keys, NEW step \in {"dump", "delete"},
           Take(who, k, step)
    PROVE  /\ lock' = who
           /\ at' \in At /\ at' # Nothing
           /\ at'.key = k /\ at'.step = step /\ Whole(at'.data)
<1>1. at' \in At /\ at'.key = k /\ at'.step = step /\ at'.data = Nothing.data
  <2>1. at' = [key |-> k, step |-> step, torn |-> FALSE, data |-> NoRecord]
    BY DEF Take, Nothing
  <2> QED  BY <2>1, Constructors DEF Nothing
<1> QED  BY <1>1, Constructors DEF Take

\* A new version of a record is a record.
LEMMA NewVersion ==
    ASSUME Inv, NEW k \in Keys, NEW v \in Nat, NEW s \in Status
    PROVE  [mem EXCEPT ![k] = [n |-> v, status |-> s]] \in [Keys -> Record]
<1>1. [n |-> v, status |-> s] \in Record
  BY DEF Record
<1> QED  BY <1>1 DEF Inv

LEMMA PutInv ==
    ASSUME Inv, NEW k \in Keys, NEW s \in {"active", "finished"}, Put(k, s)
    PROVE  Inv'
<1>1. TypeOK'
  <2>1. mem' \in [Keys -> Record]
    <3>1. db[k].n + 1 \in Nat /\ s \in Status
      BY DEF Inv
    <3> QED  BY <3>1, NewVersion DEF Put
  <2>2. lock' = "job" /\ at' \in At /\ at' # Nothing
    BY TakeFacts DEF Put
  <2>3. doomed' = {}
    BY DEF Inv, Put, Free
  <2> QED  BY <2>1, <2>2, <2>3 DEF Inv, Put
<1>2. DigestAgrees' /\ Behind'
  BY Constructors DEF Inv, Put, Take, Free, Live, Room, Nothing, NoRecord
<1>3. Held' /\ Quiet'
  BY Constructors DEF Inv, Put, Take, Free, Live, Room, Nothing, NoRecord
<1>4. (\A j \in Keys : Whole(mem[j]) /\ Whole(db[j]))' /\ Whole(at.data)'
  BY Constructors DEF Inv, Put, Take, Free, Live, Room, Nothing, NoRecord
<1> QED  BY <1>1, <1>2, <1>3, <1>4 DEF Inv

\* What is changed in place, by a job or by the start that resumes it.
LEMMA InPlaceInv ==
    ASSUME Inv, NEW k \in Keys, NEW s \in Status \ {"none"}, InPlace(k, s),
           mem[k].n # 0, up \notin {"loading", "down"},
           UNCHANGED <<up, db, saved, lock, todo, doomed>>, late' \subseteq Keys
    PROVE  Inv'
<1>1. TypeOK'
  <2>1. mem' \in [Keys -> Record]
    <3>1. mem[k].n + 1 \in Nat
      BY DEF Inv
    <3> QED  BY <3>1, NewVersion DEF InPlace
  <2>2. at' \in At /\ (at' = Nothing <=> at = Nothing)
    <3>1. CASE at.key = k /\ at.step = "dump"
      <4>1. at' = [at EXCEPT !.torn = TRUE] /\ at \in At
        BY <3>1 DEF Inv, InPlace
      <4>2. at' \in At /\ at'.step = "dump"
        BY <3>1, <4>1
      <4> QED  BY <3>1, <4>2, Constructors
    <3>2. CASE ~(at.key = k /\ at.step = "dump")
      BY <3>2 DEF Inv, InPlace
    <3> QED  BY <3>1, <3>2
  <2> QED  BY <2>1, <2>2 DEF Inv
<1>2. DigestAgrees' /\ Behind'
  BY Constructors DEF Inv, InPlace, Room, Nothing, NoRecord
<1>3. Held' /\ Quiet'
  <2>1. at'.step = at.step /\ at'.key = at.key /\ (at.step = "none" => at' = at)
    BY DEF Inv, InPlace
  <2>2. \A j \in Keys : mem'[j].n # 0 <=> mem[j].n # 0
    BY DEF Inv, InPlace
  <2> QED  BY <2>1, <2>2 DEF Inv
<1>4. (\A j \in Keys : Whole(mem[j]) /\ Whole(db[j]))' /\ Whole(at.data)'
  BY Constructors DEF Inv, InPlace, Room, Nothing, NoRecord
<1> QED  BY <1>1, <1>2, <1>3, <1>4 DEF Inv

LEMMA ChangeInv ==
    ASSUME Inv, NEW k \in Keys, NEW s \in Status \ {"none"}, Change(k, s)
    PROVE  Inv'
<1>1. late' \subseteq Keys /\ mem[k].n # 0
  BY LiveHasVersion DEF Inv, Change
<1> QED  BY <1>1, InPlaceInv DEF Change

LEMMA SaveInv ==
    ASSUME Inv, NEW k \in Keys, Save(k)
    PROVE  Inv'
<1>1. TypeOK'
  BY Constructors, LiveHasVersion DEF Inv, Save, Dirty, Take, Free, Nothing, NoRecord
<1>2. DigestAgrees' /\ Behind'
  BY Constructors, LiveHasVersion DEF Inv, Save, Dirty, Take, Free, Nothing, NoRecord
<1>3. Held' /\ Quiet'
  BY Constructors, LiveHasVersion DEF Inv, Save, Dirty, Take, Free, Nothing, NoRecord
<1>4. (\A j \in Keys : Whole(mem[j]) /\ Whole(db[j]))' /\ Whole(at.data)'
  BY Constructors, LiveHasVersion DEF Inv, Save, Dirty, Take, Free, Nothing, NoRecord
<1> QED  BY <1>1, <1>2, <1>3, <1>4 DEF Inv

LEMMA ResumeInv ==
    ASSUME Inv, NEW k \in Keys, NEW s \in {"active", "finished"}, Resume(k, s)
    PROVE  Inv'
<1>1. late' \subseteq Keys /\ mem[k].n # 0
  BY DEF Inv, Resume
<1>2. s \in Status \ {"none"}
  OBVIOUS
<1> QED  BY <1>1, <1>2, InPlaceInv DEF Resume

LEMMA PopInv ==
    ASSUME Inv, NEW k \in Keys, Pop(k)
    PROVE  Inv'
<1>1. TypeOK'
  BY Constructors, LiveHasVersion DEF Inv, Pop, Take, Free, Nothing, NoRecord
<1>2. DigestAgrees' /\ Behind'
  BY Constructors, LiveHasVersion DEF Inv, Pop, Take, Free, Nothing, NoRecord
<1>3. Held' /\ Quiet'
  BY Constructors, LiveHasVersion DEF Inv, Pop, Take, Free, Nothing, NoRecord
<1>4. (\A j \in Keys : Whole(mem[j]) /\ Whole(db[j]))' /\ Whole(at.data)'
  BY Constructors, LiveHasVersion DEF Inv, Pop, Take, Free, Nothing, NoRecord
<1> QED  BY <1>1, <1>2, <1>3, <1>4 DEF Inv

LEMMA DumpInv ==
    ASSUME Inv, Dump
    PROVE  Inv'
<1>0. /\ at.key \in Keys /\ mem[at.key] \in Record /\ mem[at.key].n # 0
      /\ mem' = mem /\ db' = db /\ saved' = saved /\ up' = up
  BY DEF Inv, Dump
<1>a. CASE Release
  BY <1>0, <1>a, Constructors DEF Inv, Dump, Release
<1>b. CASE at' = [at EXCEPT !.step = "write", !.data = mem[at.key]] /\ lock' = lock
  <2>1. at \in At /\ mem[at.key] \in Record
    BY <1>0 DEF Inv
  <2>2. at' = [key |-> at.key, step |-> "write", torn |-> at.torn, data |-> mem[at.key]]
    BY <1>b, <2>1
  <2>3. at'.step = "write" /\ at'.key = at.key /\ at'.data = mem[at.key]
    BY <2>2
  <2>4. at' \in At
    BY <2>1, <2>2
  <2>5. TypeOK'
    <3>1. at # Nothing /\ at' # Nothing
      BY <2>3, Constructors DEF Dump
    <3>2. late' \subseteq Keys /\ todo' = todo /\ doomed' = doomed
      BY DEF Inv, Dump
    <3> HIDE DEF At, Record, Row, Nothing
    <3> QED  BY <1>0, <1>b, <2>4, <3>1, <3>2 DEF Inv
  <2>6. DigestAgrees' /\ Behind'
    BY <1>0, <2>1, <2>3 DEF Inv, Dump
  <2>7. Held' /\ Quiet'
    BY <1>0, <1>b, <2>3, Constructors DEF Inv, Dump
  <2>8. (\A j \in Keys : Whole(mem[j]) /\ Whole(db[j]))' /\ Whole(at.data)'
    BY <1>0, <2>3 DEF Inv
  <2> QED  BY <2>5, <2>6, <2>7, <2>8 DEF Inv
<1> QED  BY <1>a, <1>b DEF Dump

LEMMA WriteInv ==
    ASSUME Inv, Write
    PROVE  Inv'
<1>1. TypeOK'
  BY Constructors DEF Inv, Write, Release, Nothing, NoRecord
<1>2. DigestAgrees' /\ Behind'
  BY Constructors DEF Inv, Write, Release, Nothing, NoRecord
<1>3. Held' /\ Quiet'
  BY Constructors DEF Inv, Write, Release, Nothing, NoRecord
<1>4. (\A j \in Keys : Whole(mem[j]) /\ Whole(db[j]))' /\ Whole(at.data)'
  BY Constructors DEF Inv, Write, Release, Nothing, NoRecord
<1> QED  BY <1>1, <1>2, <1>3, <1>4 DEF Inv

LEMMA WriteFailsInv ==
    ASSUME Inv, WriteFails
    PROVE  Inv'
<1>1. TypeOK'
  BY Constructors DEF Inv, WriteFails, Release, Nothing, NoRecord
<1>2. DigestAgrees' /\ Behind'
  BY Constructors DEF Inv, WriteFails, Release, Nothing, NoRecord
<1>3. Held' /\ Quiet'
  BY Constructors DEF Inv, WriteFails, Release, Nothing, NoRecord
<1>4. (\A j \in Keys : Whole(mem[j]) /\ Whole(db[j]))' /\ Whole(at.data)'
  BY Constructors DEF Inv, WriteFails, Release, Nothing, NoRecord
<1> QED  BY <1>1, <1>2, <1>3, <1>4 DEF Inv

LEMMA EraseInv ==
    ASSUME Inv, Erase
    PROVE  Inv'
<1>1. TypeOK'
  BY Constructors DEF Inv, Erase, Release, NoRow, Nothing, NoRecord
<1>2. DigestAgrees' /\ Behind'
  BY Constructors DEF Inv, Erase, Release, NoRow, Nothing, NoRecord
<1>3. Held' /\ Quiet'
  BY Constructors DEF Inv, Erase, Release, NoRow, Nothing, NoRecord
<1>4. (\A j \in Keys : Whole(mem[j]) /\ Whole(db[j]))' /\ Whole(at.data)'
  BY Constructors DEF Inv, Erase, Release, NoRow, Nothing, NoRecord
<1> QED  BY <1>1, <1>2, <1>3, <1>4 DEF Inv

LEMMA EraseFailsInv ==
    ASSUME Inv, EraseFails
    PROVE  Inv'
<1>1. TypeOK'
  BY Constructors DEF Inv, EraseFails, Release, Nothing, NoRecord
<1>2. DigestAgrees' /\ Behind'
  BY Constructors DEF Inv, EraseFails, Release, Nothing, NoRecord
<1>3. Held' /\ Quiet'
  BY Constructors DEF Inv, EraseFails, Release, Nothing, NoRecord
<1>4. (\A j \in Keys : Whole(mem[j]) /\ Whole(db[j]))' /\ Whole(at.data)'
  BY Constructors DEF Inv, EraseFails, Release, Nothing, NoRecord
<1> QED  BY <1>1, <1>2, <1>3, <1>4 DEF Inv

LEMMA FlushStartInv ==
    ASSUME Inv, FlushStart
    PROVE  Inv'
<1>1. TypeOK'
  BY Constructors DEF Inv, FlushStart, Idle, Live, Nothing, NoRecord
<1>2. DigestAgrees' /\ Behind'
  BY Constructors DEF Inv, FlushStart, Idle, Live, Nothing, NoRecord
<1>3. Held' /\ Quiet'
  BY Constructors DEF Inv, FlushStart, Idle, Live, Nothing, NoRecord
<1>4. (\A j \in Keys : Whole(mem[j]) /\ Whole(db[j]))' /\ Whole(at.data)'
  BY Constructors DEF Inv, FlushStart, Idle, Live, Nothing, NoRecord
<1> QED  BY <1>1, <1>2, <1>3, <1>4 DEF Inv

LEMMA FlushKeyInv ==
    ASSUME Inv, NEW k \in Keys, FlushKey(k)
    PROVE  Inv'
<1>1. TypeOK'
  <2>1. doomed' = {} /\ lock = "free"
    BY DEF Inv, FlushKey, Free
  <2>2. CASE k \in Live
    <3>1. lock' = "flush" /\ at' \in At /\ at' # Nothing
      BY <2>2, TakeFacts DEF FlushKey
    <3> QED  BY <2>1, <3>1 DEF Inv, FlushKey
  <2>3. CASE k \notin Live
    BY <2>1, <2>3 DEF Inv, FlushKey
  <2> QED  BY <2>2, <2>3
<1>2. DigestAgrees' /\ Behind'
  BY Constructors, LiveHasVersion, ZenonT(30) DEF Inv, FlushKey, Take, Free, Nothing, NoRecord
<1>3. Held' /\ Quiet'
  <2>1. CASE k \in Live
    <3>1. lock' = "flush" /\ at'.key = k /\ at'.step = "dump"
      BY <2>1, TakeFacts DEF FlushKey
    <3> QED  BY <2>1, <3>1, LiveHasVersion DEF Inv, FlushKey
  <2>2. CASE k \notin Live
    BY <2>2 DEF Inv, FlushKey
  <2> QED  BY <2>1, <2>2
<1>4. (\A j \in Keys : Whole(mem[j]) /\ Whole(db[j]))' /\ Whole(at.data)'
  BY Constructors, LiveHasVersion, ZenonT(30) DEF Inv, FlushKey, Take, Free, Nothing, NoRecord
<1> QED  BY <1>1, <1>2, <1>3, <1>4 DEF Inv

LEMMA AgeInv ==
    ASSUME Inv, NEW k \in Keys, Age(k)
    PROVE  Inv'
<1>1. TypeOK'
  <2>1. [db[k] EXCEPT !.old = TRUE] \in Row
    <3>1. \A r \in Row : [r EXCEPT !.old = TRUE] \in Row
      OBVIOUS
    <3> QED  BY <3>1 DEF Inv
  <2>2. db' \in [Keys -> Row]
    BY <2>1 DEF Inv, Age
  <2> QED  BY <2>2 DEF Inv, Age
<1>2. DigestAgrees' /\ Behind'
  BY Constructors DEF Inv, Age, Nothing, NoRecord
<1>3. Held' /\ Quiet'
  BY Constructors DEF Inv, Age, Nothing, NoRecord
<1>4. (\A j \in Keys : Whole(mem[j]) /\ Whole(db[j]))' /\ Whole(at.data)'
  BY Constructors DEF Inv, Age, Nothing, NoRecord
<1> QED  BY <1>1, <1>2, <1>3, <1>4 DEF Inv

LEMMA PruneStartInv ==
    ASSUME Inv, PruneStart
    PROVE  Inv'
<1>1. TypeOK'
  BY Constructors DEF Inv, PruneStart, Idle, Free, Nothing, NoRecord
<1>2. DigestAgrees' /\ Behind'
  BY Constructors DEF Inv, PruneStart, Idle, Free, Nothing, NoRecord
<1>3. Held' /\ Quiet'
  BY Constructors DEF Inv, PruneStart, Idle, Free, Nothing, NoRecord
<1>4. (\A j \in Keys : Whole(mem[j]) /\ Whole(db[j]))' /\ Whole(at.data)'
  BY Constructors DEF Inv, PruneStart, Idle, Free, Nothing, NoRecord
<1> QED  BY <1>1, <1>2, <1>3, <1>4 DEF Inv

LEMMA PruneOneInv ==
    ASSUME Inv, NEW k \in Keys, PruneOne(k)
    PROVE  Inv'
<1>1. TypeOK'
  BY Constructors DEF Inv, PruneOne, NoRow, Nothing, NoRecord
<1>2. DigestAgrees' /\ Behind'
  BY Constructors DEF Inv, PruneOne, NoRow, Nothing, NoRecord
<1>3. Held' /\ Quiet'
  BY Constructors DEF Inv, PruneOne, NoRow, Nothing, NoRecord
<1>4. (\A j \in Keys : Whole(mem[j]) /\ Whole(db[j]))' /\ Whole(at.data)'
  BY Constructors DEF Inv, PruneOne, NoRow, Nothing, NoRecord
<1> QED  BY <1>1, <1>2, <1>3, <1>4 DEF Inv

LEMMA PruneFailsInv ==
    ASSUME Inv, NEW k \in Keys, PruneFails(k)
    PROVE  Inv'
<1>1. TypeOK'
  BY Constructors DEF Inv, PruneFails, Nothing, NoRecord
<1>2. DigestAgrees' /\ Behind'
  BY Constructors DEF Inv, PruneFails, Nothing, NoRecord
<1>3. Held' /\ Quiet'
  BY Constructors DEF Inv, PruneFails, Nothing, NoRecord
<1>4. (\A j \in Keys : Whole(mem[j]) /\ Whole(db[j]))' /\ Whole(at.data)'
  BY Constructors DEF Inv, PruneFails, Nothing, NoRecord
<1> QED  BY <1>1, <1>2, <1>3, <1>4 DEF Inv

LEMMA StopMaintenanceInv ==
    ASSUME Inv, StopMaintenance
    PROVE  Inv'
<1>1. TypeOK'
  BY Constructors DEF Inv, StopMaintenance, Idle, Live, Nothing, NoRecord
<1>2. DigestAgrees' /\ Behind'
  BY Constructors DEF Inv, StopMaintenance, Idle, Live, Nothing, NoRecord
<1>3. Held' /\ Quiet'
  BY Constructors DEF Inv, StopMaintenance, Idle, Live, Nothing, NoRecord
<1>4. (\A j \in Keys : Whole(mem[j]) /\ Whole(db[j]))' /\ Whole(at.data)'
  BY Constructors DEF Inv, StopMaintenance, Idle, Live, Nothing, NoRecord
<1> QED  BY <1>1, <1>2, <1>3, <1>4 DEF Inv

LEMMA LoseMemoryInv ==
    ASSUME Inv, LoseMemory
    PROVE  Inv'
<1>1. TypeOK'
  BY Constructors DEF Inv, LoseMemory, Release, EmptyDict, NoDigests, Nothing, NoRecord
<1>2. DigestAgrees' /\ Behind'
  BY Constructors DEF Inv, LoseMemory, Release, EmptyDict, NoDigests, Nothing, NoRecord
<1>3. Held' /\ Quiet'
  BY Constructors DEF Inv, LoseMemory, Release, EmptyDict, NoDigests, Nothing, NoRecord
<1>4. (\A j \in Keys : Whole(mem[j]) /\ Whole(db[j]))' /\ Whole(at.data)'
  BY Constructors DEF Inv, LoseMemory, Release, EmptyDict, NoDigests, Nothing, NoRecord
<1> QED  BY <1>1, <1>2, <1>3, <1>4 DEF Inv

LEMMA StartInv ==
    ASSUME Inv, Start
    PROVE  Inv'
<1>1. TypeOK'
  BY Constructors DEF Inv, Start, Nothing, NoRecord
<1>2. DigestAgrees' /\ Behind'
  BY Constructors DEF Inv, Start, Nothing, NoRecord
<1>3. Held' /\ Quiet'
  BY Constructors DEF Inv, Start, Nothing, NoRecord
<1>4. (\A j \in Keys : Whole(mem[j]) /\ Whole(db[j]))' /\ Whole(at.data)'
  BY Constructors DEF Inv, Start, Nothing, NoRecord
<1> QED  BY <1>1, <1>2, <1>3, <1>4 DEF Inv

LEMMA LoadSaveInv ==
    ASSUME Inv, NEW k \in Keys, LoadSave(k)
    PROVE  Inv'
<1>1. TypeOK'
  BY Constructors DEF Inv, LoadSave, Nothing, NoRecord
<1>2. DigestAgrees' /\ Behind'
  BY Constructors DEF Inv, LoadSave, Nothing, NoRecord
<1>3. Held' /\ Quiet'
  BY Constructors DEF Inv, LoadSave, Nothing, NoRecord
<1>4. (\A j \in Keys : Whole(mem[j]) /\ Whole(db[j]))' /\ Whole(at.data)'
  BY Constructors DEF Inv, LoadSave, Nothing, NoRecord
<1> QED  BY <1>1, <1>2, <1>3, <1>4 DEF Inv

LEMMA LoadedInv ==
    ASSUME Inv, Loaded
    PROVE  Inv'
<1>1. TypeOK'
  BY Constructors DEF Inv, Loaded, Nothing, NoRecord
<1>2. DigestAgrees' /\ Behind'
  BY Constructors DEF Inv, Loaded, Nothing, NoRecord
<1>3. Held' /\ Quiet'
  BY Constructors DEF Inv, Loaded, Nothing, NoRecord
<1>4. (\A j \in Keys : Whole(mem[j]) /\ Whole(db[j]))' /\ Whole(at.data)'
  BY Constructors DEF Inv, Loaded, Nothing, NoRecord
<1> QED  BY <1>1, <1>2, <1>3, <1>4 DEF Inv

LEMMA StartedInv ==
    ASSUME Inv, Started
    PROVE  Inv'
  BY DEF Inv, Started

LEMMA StepInv == Inv /\ [Next]_vars => Inv'
<1> SUFFICES ASSUME Inv, [Next]_vars PROVE Inv'
  OBVIOUS
<1>1. CASE UNCHANGED vars
  BY <1>1 DEF Inv, vars
<1>2. ASSUME NEW k \in Keys, JobNext(k) PROVE Inv'
  BY <1>2, PutInv, ChangeInv, SaveInv, ResumeInv, PopInv DEF JobNext
<1>3. CASE HolderNext
  BY <1>3, DumpInv, WriteInv, EraseInv DEF HolderNext
<1>4. CASE MaintenanceNext
  BY <1>4, FlushStartInv, PruneStartInv, FlushKeyInv, PruneOneInv DEF MaintenanceNext
<1>5. CASE ErrorNext
  BY <1>5, WriteFailsInv, EraseFailsInv, PruneFailsInv DEF ErrorNext
<1>6. CASE ProcessNext
  BY <1>6, StopMaintenanceInv, LoseMemoryInv, StartInv, LoadedInv, StartedInv, LoadSaveInv
     DEF ProcessNext, Exit, Crash
<1>7. CASE \E k \in Keys : Age(k)
  BY <1>7, AgeInv
<1> QED  BY <1>1, <1>2, <1>3, <1>4, <1>5, <1>6, <1>7 DEF Next, ReliableNext

LEMMA Invariance == Spec => []Inv
  BY InitInv, StepInv, PTL DEF Spec

\* The store's state has its types, the lock its users, and a save or deletion
\* in progress its record.
THEOREM TypeCorrect == Spec => []TypeOK
<1>1. Inv => TypeOK
  BY DEF Inv
<1> QED  BY <1>1, Invariance, PTL

\* Whenever save() skips a record because its digest is the remembered one,
\* the row holds that version.
THEOREM DigestsAgree == Spec => []DigestAgrees
<1>1. Inv => DigestAgrees
  BY DEF Inv
<1> QED  BY <1>1, Invariance, PTL

-----------------------------------------------------------------------------
(* What load leaves *)

\* While a process starts, what was in progress is marked in memory, and on disk
\* too unless it is still to be saved.
Marked ==
    up = "loading" => \A k \in Keys :
        /\ mem[k].status # "active"
        /\ k \notin todo => db[k].status # "active"

LEMMA StartMarks ==
    ASSUME Inv, Start
    PROVE  Marked'
<1> SUFFICES ASSUME NEW k \in Keys
             PROVE  mem'[k].status # "active" /\ (k \notin todo' => db'[k].status # "active")
  BY DEF Marked
<1>1. k \notin todo' => db'[k].status # "active"
  BY DEF Start
<1>2. mem'[k].status = (IF db[k].status = "active" THEN "interrupted" ELSE db[k].status)
  BY DEF Start
<1> QED  BY <1>1, <1>2

LEMMA LoadSaveMarks ==
    ASSUME Inv, Marked, NEW k \in Keys, LoadSave(k)
    PROVE  Marked'
  BY DEF LoadSave, Marked, Inv

\* Nobody else is about: what has the lock, or needs a process that runs, is not enabled.
LEMMA MarkedStep == Inv /\ Marked /\ [Next]_vars => Marked'
<1> SUFFICES ASSUME Inv, Marked, [Next]_vars PROVE Marked'
  OBVIOUS
<1>1. CASE UNCHANGED vars
  BY <1>1 DEF Marked, vars
<1>2. ASSUME NEW k \in Keys, JobNext(k) PROVE up' # "loading"
  BY <1>2 DEF JobNext, Put, Change, Save, Resume, Pop
<1>3. CASE HolderNext \/ WriteFails \/ EraseFails
  <2>1. up' = up /\ lock # "free"
    BY <1>3 DEF HolderNext, Dump, Write, Erase, WriteFails, EraseFails, Inv
  <2> QED  BY <2>1 DEF Marked, Inv
<1>4. ASSUME NEW k \in Keys, PruneOne(k) \/ PruneFails(k) PROVE Marked'
  BY <1>4 DEF Marked, PruneOne, PruneFails, NoRecord, NoRow, Inv
<1>5. ASSUME FlushStart \/ PruneStart \/ \E k \in Keys : FlushKey(k) PROVE up' # "loading"
  BY <1>5 DEF FlushStart, PruneStart, FlushKey
<1>6. CASE StopMaintenance \/ Exit \/ Crash \/ Loaded \/ Started
  BY <1>6 DEF StopMaintenance, Exit, Crash, Loaded, Started, LoseMemory, Marked
<1>7. ASSUME NEW k \in Keys, Age(k) PROVE Marked'
  BY <1>7 DEF Marked, Age, Inv
<1> QED
  BY <1>1, <1>2, <1>3, <1>4, <1>5, <1>6, <1>7, StartMarks, LoadSaveMarks
     DEF Marked, Next, ReliableNext, MaintenanceNext, ErrorNext, ProcessNext

\* When the server comes up no row says "running" of a job that is not, also after crashes
\* in the middle of a load (records.py: load).
THEOREM NoneLeft == Spec => NoneLeftActive
<1>1. Init => Marked
  <2>1. Init => up = "running"
    BY DEF Init
  <2> QED  BY <2>1 DEF Marked
<1>2. Marked /\ [Next]_vars => [Loaded => \A k \in Keys : db[k].status # "active"]_vars
  <2>1. Marked /\ Loaded => \A k \in Keys : db[k].status # "active"
    BY DEF Marked, Loaded
  <2> QED  BY <2>1
<1> QED  BY <1>1, <1>2, Invariance, MarkedStep, PTL DEF Spec, NoneLeftActive

-----------------------------------------------------------------------------
(* What prune deletes *)

\* The disk has the status of the version it holds, and so has what is being
\* written; what is old and not in progress on disk is not in progress in memory
\* either, unless it was resumed just now, and what is being pruned has stayed so.
Settled ==
    /\ \A k \in Keys : mem[k].n # 0 /\ db[k].n = mem[k].n => db[k].status = mem[k].status
    /\ at.step = "write" /\ at.data.n = mem[at.key].n => at.data.status = mem[at.key].status
    /\ \A k \in Keys : db[k].old /\ db[k].status # "active" /\ up # "starting" => mem[k].status # "active"
    /\ \A k \in doomed : mem[k].status # "active"
    /\ doomed # {} => up = "running"

LEMMA PutSettles ==
    ASSUME Inv, Settled, NEW k \in Keys, NEW s \in {"active", "finished"}, Put(k, s)
    PROVE  Settled'
<1>1. /\ mem' = [mem EXCEPT ![k] = [n |-> db[k].n + 1, status |-> s]]
      /\ db' = db /\ up' = up /\ doomed' = doomed /\ db[k].n \in Nat
      /\ db[k].old => s = "finished"
  BY DEF Inv, Put, NoRow
<1>2. at'.step = "dump"
  BY TakeFacts DEF Put
<1>3. doomed = {}
  BY DEF Inv, Put, Free
<1>4. mem'[k].n # db[k].n /\ mem'[k].status = s /\ \A j \in Keys \ {k} : mem'[j] = mem[j]
  BY <1>1 DEF Inv
<1> QED  BY <1>1, <1>2, <1>3, <1>4 DEF Settled

LEMMA InPlaceSettles ==
    ASSUME Inv, Settled, NEW k \in Keys, NEW s \in Status \ {"none"}, InPlace(k, s),
           UNCHANGED <<up, db, doomed>>, up # "loading", mem[k].n # 0,
           s = "active" => up = "starting" \/ mem[k].status = "active"
    PROVE  Settled'
<1>1. /\ mem[k].n \in Nat /\ db[k].n \in Nat /\ db[k].n <= mem[k].n
      /\ at.step = "write" /\ at.key = k => at.data.n \in Nat /\ at.data.n <= mem[k].n
  BY DEF Inv
<1>2. mem'[k] = [n |-> mem[k].n + 1, status |-> s] /\ \A j \in Keys \ {k} : mem'[j] = mem[j]
  BY DEF Inv, InPlace
<1>3. at'.step = at.step /\ at'.key = at.key /\ at'.data = at.data
  BY DEF Inv, InPlace
<1>4. doomed \subseteq Keys /\ (doomed # {} => up = "running")
  BY DEF Inv, Settled
<1>5. at.step = "write" => at.key \in Keys
  BY DEF Inv
<1>6. (\A j \in Keys : mem[j].n # 0 /\ db[j].n = mem[j].n => db[j].status = mem[j].status)'
  BY <1>1, <1>2 DEF Settled
<1>7. (at.step = "write" /\ at.data.n = mem[at.key].n => at.data.status = mem[at.key].status)'
  BY <1>1, <1>2, <1>3, <1>5 DEF Settled
<1>8. (\A j \in Keys : db[j].old /\ db[j].status # "active" /\ up # "starting" => mem[j].status # "active")'
  BY <1>2 DEF Settled
<1> QED  BY <1>2, <1>4, <1>6, <1>7, <1>8 DEF Settled

LEMMA ChangeSettles ==
    ASSUME Inv, Settled, NEW k \in Keys, NEW s \in Status \ {"none"}, Change(k, s)
    PROVE  Settled'
  BY LiveHasVersion, InPlaceSettles DEF Inv, Change

LEMMA ResumeSettles ==
    ASSUME Inv, Settled, NEW k \in Keys, NEW s \in {"active", "finished"}, Resume(k, s)
    PROVE  Settled'
<1>1. mem[k].n # 0 /\ s \in Status \ {"none"}
  BY DEF Inv, Resume
<1> QED  BY <1>1, InPlaceSettles DEF Resume

\* Steps that leave the disk, and memory but for records that go.
LEMMA SettledFrame ==
    ASSUME Inv, Settled, db' = db, doomed' \subseteq doomed,
           \A k \in Keys : mem'[k] \in {mem[k], NoRecord},
           at' = at \/ at'.step # "write",
           up' = up \/ (mem' = EmptyDict /\ doomed' = {})
    PROVE  Settled'
<1>1. NoRecord.n = 0 /\ NoRecord.status = "none" /\ \A k \in Keys : EmptyDict[k] = NoRecord
  BY DEF NoRecord, EmptyDict
<1>2. at.step = "write" => at.key \in Keys /\ at.data.n # 0 /\ doomed \subseteq Keys
  BY DEF Inv
<1>3. (at.step = "write" /\ at.data.n = mem[at.key].n => at.data.status = mem[at.key].status)'
  BY <1>1, <1>2 DEF Settled
<1>4. doomed \subseteq Keys
  BY DEF Inv
<1> QED  BY <1>1, <1>3, <1>4 DEF Settled

LEMMA HolderSettles ==
    ASSUME Inv, Settled, HolderNext \/ WriteFails \/ EraseFails
    PROVE  Settled'
<1>1. mem' = mem /\ up' = up /\ doomed' = doomed /\ doomed = {} /\ at.key \in Keys
  BY DEF Inv, HolderNext, Dump, Write, Erase, WriteFails, EraseFails
<1>2. Release => at'.step = "none"
  BY Constructors DEF Release
<1>3. CASE Dump
  <2>1. CASE Release
    BY <1>1, <1>2, <1>3, <2>1, SettledFrame DEF Dump
  <2>2. CASE at' = [at EXCEPT !.step = "write", !.data = mem[at.key]]
    <3>1. at'.key = at.key /\ at'.data = mem[at.key]
      BY <2>2 DEF Inv
    <3>2. db' = db
      BY <1>3 DEF Dump
    <3> QED  BY <1>1, <3>1, <3>2 DEF Settled
  <2> QED  BY <1>3, <2>1, <2>2 DEF Dump
<1>4. CASE Write
  <2>1. db'[at.key] = [n |-> at.data.n, status |-> at.data.status, old |-> FALSE]
    BY <1>1, <1>4 DEF Inv, Write
  <2>2. \A j \in Keys \ {at.key} : db'[j] = db[j]
    BY <1>4 DEF Inv, Write
  <2> QED  BY <1>1, <1>2, <1>4, <2>1, <2>2 DEF Write, Settled
<1>5. CASE Erase
  <2>1. db'[at.key].n = 0 /\ db'[at.key].old = FALSE
    BY <1>1, <1>5 DEF Inv, Erase, NoRow
  <2>2. \A j \in Keys \ {at.key} : db'[j] = db[j]
    BY <1>5 DEF Inv, Erase
  <2> QED  BY <1>1, <1>2, <1>5, <2>1, <2>2 DEF Erase, Settled
<1>6. CASE WriteFails \/ EraseFails
  BY <1>1, <1>2, <1>6, SettledFrame DEF WriteFails, EraseFails
<1> QED  BY <1>3, <1>4, <1>5, <1>6 DEF HolderNext

LEMMA MaintenanceSettles ==
    ASSUME Inv, Settled, NEW k \in Keys, FlushStart \/ PruneStart \/ FlushKey(k) \/ PruneOne(k) \/ PruneFails(k) \/ Age(k)
    PROVE  Settled'
<1>1. mem \in [Keys -> Record] /\ db \in [Keys -> Row] /\ doomed \subseteq Keys
  BY DEF Inv
<1>2. CASE FlushStart
  BY <1>2, SettledFrame DEF FlushStart
<1>3. CASE PruneStart
  BY <1>3 DEF PruneStart, Settled
<1>4. CASE FlushKey(k)
  <2>1. at' = at \/ at'.step = "dump"
    BY <1>4, TakeFacts DEF FlushKey
  <2> QED  BY <1>4, <2>1, SettledFrame DEF FlushKey
<1>5. CASE PruneFails(k)
  BY <1>1, <1>5, SettledFrame DEF PruneFails
<1>6. CASE PruneOne(k)
  <2>1. at.step # "write"
    BY <1>6, Constructors DEF PruneOne, Inv
  <2>2. /\ mem'[k] = NoRecord /\ db'[k] = NoRow /\ at' = at /\ doomed' \subseteq doomed
        /\ \A j \in Keys \ {k} : mem'[j] = mem[j] /\ db'[j] = db[j]
        /\ up' = up
    BY <1>1, <1>6 DEF PruneOne
  <2>3. NoRecord.n = 0 /\ NoRecord.status # "active"
    BY DEF NoRecord
  <2> QED  BY <1>1, <2>1, <2>2, <2>3 DEF Settled
<1>7. CASE Age(k)
  <2>1. db'[k] = [db[k] EXCEPT !.old = TRUE] /\ UNCHANGED <<up, mem, at, doomed>>
    BY <1>1, <1>7 DEF Age
  <2>2. db'[k].n = db[k].n /\ db'[k].status = db[k].status /\ \A j \in Keys \ {k} : db'[j] = db[j]
    BY <1>1, <1>7, <2>1 DEF Age
  <2>3. mem[k].status = "active" => db[k].status = "active"
    <3>1. SUFFICES ASSUME mem[k].status = "active"
                   PROVE  db[k].status = "active"
      OBVIOUS
    <3>2. k \in Live /\ mem[k].n # 0
      BY <3>1, LiveHasVersion DEF Live, NoRecord
    <3>3. saved[k] = mem[k].n
      BY <1>7, <3>2 DEF Age, Dirty
    <3>4. db[k].n = mem[k].n
      BY <3>2, <3>3 DEF Inv
    <3> QED  BY <3>1, <3>2, <3>4 DEF Settled
  <2>4. \A j \in Keys : db'[j].n = db[j].n /\ db'[j].status = db[j].status
    BY <2>2
  <2>5. \A j \in Keys : db'[j].old /\ db'[j].status # "active" /\ up # "starting" => mem[j].status # "active"
    BY <2>2, <2>3 DEF Settled
  <2> QED  BY <2>1, <2>4, <2>5 DEF Settled
<1> QED  BY <1>2, <1>3, <1>4, <1>5, <1>6, <1>7

LEMMA ProcessSettles ==
    ASSUME Inv, Settled, ProcessNext
    PROVE  Settled'
<1>1. CASE StopMaintenance \/ Loaded \/ Started
  <2>1. doomed = {} /\ UNCHANGED <<mem, db, at, doomed>>
    <3>1. CASE StopMaintenance
      BY <3>1 DEF StopMaintenance, Idle, Inv
    <3>2. CASE Loaded \/ Started
      BY <3>2 DEF Loaded, Started, Settled
    <3> QED  BY <1>1, <3>1, <3>2
  <2>2. CASE StopMaintenance \/ Loaded
    BY <2>1, <2>2 DEF StopMaintenance, Loaded, Settled
  <2>3. CASE Started
    <3>1. ASSUME NEW k \in Keys, mem[k].status = "active" PROVE db[k].status = "active"
      <4>1. k \in Live /\ mem[k].n # 0
        BY <3>1, LiveHasVersion DEF Live, NoRecord
      <4>2. db[k].n = mem[k].n
        BY <2>3, <4>1 DEF Started, Dirty, Inv
      <4> QED  BY <3>1, <4>1, <4>2 DEF Settled
    <3> QED  BY <2>1, <3>1 DEF Settled
  <2> QED  BY <1>1, <2>2, <2>3
<1>2. CASE Exit \/ Crash
  <2>1. mem' = EmptyDict /\ doomed' = {} /\ db' = db /\ at'.step = "none"
    BY <1>2, Constructors DEF Exit, Crash, LoseMemory, Release
  <2> QED  BY <2>1, SettledFrame DEF EmptyDict
<1>3. CASE Start
  <2>1. at.step = "none" /\ at' = at /\ doomed' = {} /\ db' = db
    BY <1>3, Constructors DEF Start, Inv
  <2>2. \A k \in Keys : db[k].n \in Nat
    BY DEF Inv
  <2>3. \A k \in Keys : /\ mem'[k].n = IF k \in todo' THEN db[k].n + 1 ELSE db[k].n
                        /\ mem'[k].status = IF db[k].status = "active" THEN "interrupted" ELSE db[k].status
                        /\ db[k].status = "active" => k \in todo'
    BY <1>3 DEF Start
  <2>4. \A k \in Keys : mem'[k].n = db[k].n => mem'[k].status = db[k].status
    BY <2>2, <2>3
  <2> QED  BY <2>1, <2>3, <2>4 DEF Settled
<1>4. ASSUME NEW k \in Keys, LoadSave(k) PROVE Settled'
  <2>1. at.step = "none" /\ UNCHANGED <<up, mem, at, doomed>>
    BY <1>4, Constructors DEF LoadSave, Inv
  <2>2. db'[k].status = mem[k].status /\ db'[k].old = FALSE /\ \A j \in Keys \ {k} : db'[j] = db[j]
    BY <1>4 DEF LoadSave, Inv
  <2> QED  BY <2>1, <2>2 DEF Settled
<1> QED  BY <1>1, <1>2, <1>3, <1>4 DEF ProcessNext

LEMMA SettledStep == Inv /\ Settled /\ [Next]_vars => Settled'
<1> SUFFICES ASSUME Inv, Settled, [Next]_vars PROVE Settled'
  OBVIOUS
<1>1. CASE UNCHANGED vars
  BY <1>1, SettledFrame DEF vars
<1>2. ASSUME NEW k \in Keys, JobNext(k) PROVE Settled'
  <2>1. CASE Save(k)
    BY <2>1, TakeFacts, SettledFrame DEF Save
  <2>2. CASE Pop(k)
    <3>1. at'.step = "delete" /\ mem' = [mem EXCEPT ![k] = NoRecord]
      BY <2>2, TakeFacts DEF Pop
    <3> QED  BY <2>2, <3>1, SettledFrame DEF Pop, Inv
  <2> QED  BY <1>2, <2>1, <2>2, PutSettles, ChangeSettles, ResumeSettles DEF JobNext
<1>3. ASSUME NEW k \in Keys, FlushKey(k) \/ PruneOne(k) \/ PruneFails(k) \/ Age(k) PROVE Settled'
  BY <1>3, MaintenanceSettles
<1>4. CASE FlushStart
  BY <1>4, SettledFrame DEF FlushStart
<1>5. CASE PruneStart
  BY <1>5 DEF PruneStart, Settled
<1> QED
  BY <1>1, <1>2, <1>3, <1>4, <1>5, HolderSettles, ProcessSettles
     DEF Next, ReliableNext, HolderNext, MaintenanceNext, ErrorNext

\* prune goes by the rows, which lag behind memory; still it never forgets a record
\* that is in progress in memory, however long it takes (records.py: prune).
THEOREM PruneSpares == Spec => PruneSparesActive
<1>1. Init => Settled
  <2>1. Init => /\ mem = EmptyDict /\ doomed = {} /\ at.step = "none"
                /\ \A k \in Keys : db[k].old = FALSE
    BY Constructors DEF Init, NoRow
  <2> QED  BY <2>1 DEF Settled, EmptyDict, NoRecord
<1>2. Settled => [\A k \in doomed : mem'[k] = NoRecord => mem[k].status # "active"]_vars
  BY DEF Settled
<1> QED  BY <1>1, <1>2, Invariance, SettledStep, PTL DEF Spec, PruneSparesActive

-----------------------------------------------------------------------------
(* What a clean stop loses *)

\* The version of k that is in memory is being saved.
BeingSaved(k) ==
    /\ at.key = k
    /\ \/ at.step = "dump" /\ ~at.torn
       \/ at.step = "write" /\ at.data.n = mem[k].n

\* Behind the last flush: what it is done with is on disk or will be, or has
\* been changed, or refused, since.
Flushed ==
    up = "stopping" => \A k \in Live \ late : k \in todo \/ BeingSaved(k) \/ db[k].n = mem[k].n

\* Steps of the stopping process that leave the disk and records as they are, and
\* save only what is then live or late.
LEMMA FlushedFrame ==
    ASSUME Inv, Flushed, up' = up, late' = late,
           \A k \in Keys : mem'[k] = mem[k] \/ mem'[k] = NoRecord,
           \A k \in Live' : db'[k].n = db[k].n,
           \A k \in Live : k \in todo \ todo' => BeingSaved(k)',
           \A k \in Live : BeingSaved(k) => BeingSaved(k)'
    PROVE  Flushed'
<1>1. \A k \in Live' : k \in Live /\ mem'[k] = mem[k]
  BY DEF Live
<1> QED  BY <1>1 DEF Flushed

\* While nothing is being saved.
LEMMA NobodySaves ==
    ASSUME Inv, lock \in {"free", "prune"}
    PROVE  \A k \in Keys : ~BeingSaved(k)
  BY Constructors DEF Inv, BeingSaved

LEMMA JobFlushed ==
    ASSUME Inv, Flushed, NEW k \in Keys, JobNext(k)
    PROVE  Flushed'
<1>1. CASE up' # "stopping"
  BY <1>1 DEF Flushed
<1>2. ASSUME NEW s \in Status \ {"none"}, Change(k, s), up = "stopping" PROVE Flushed'
  <2>1. /\ late' = late \cup {k} /\ todo' = todo /\ db' = db /\ up' = up
        /\ \A j \in Keys \ {k} : mem'[j] = mem[j]
    BY <1>2 DEF Inv, Change, InPlace
  <2>2. /\ at'.key = at.key /\ at'.step = at.step /\ at'.data = at.data
        /\ at.key # k => at' = at
    BY <1>2 DEF Inv, Change, InPlace
  <2>3. ASSUME NEW j \in Live' \ late'
        PROVE  j \in todo' \/ BeingSaved(j)' \/ db'[j].n = mem'[j].n
    <3>1. j \in Keys /\ j # k /\ j \in Live \ late /\ mem'[j] = mem[j]
      BY <2>1, <2>3 DEF Live
    <3>2. BeingSaved(j) => BeingSaved(j)'
      BY <2>2, <3>1 DEF BeingSaved
    <3> QED  BY <1>2, <2>1, <3>1, <3>2 DEF Flushed
  <2> QED  BY <2>3 DEF Flushed
<1>3. CASE Save(k)
  <2>1. \A j \in Keys : ~BeingSaved(j)
    BY <1>3, NobodySaves DEF Save, Free
  <2>2. UNCHANGED <<up, mem, db, todo, late>>
    BY <1>3 DEF Save
  <2> QED  BY <2>1, <2>2, FlushedFrame DEF Live
<1> QED  BY <1>1, <1>2, <1>3 DEF JobNext, Put, Resume, Pop, Change

LEMMA HolderFlushed ==
    ASSUME Inv, Flushed, HolderNext \/ WriteFails \/ EraseFails
    PROVE  Flushed'
<1> SUFFICES ASSUME up = "stopping", up' = "stopping", NEW k \in Live' \ late'
             PROVE  k \in todo' \/ BeingSaved(k)' \/ db'[k].n = mem'[k].n
  BY DEF Flushed, HolderNext, Dump, Write, Erase, WriteFails, EraseFails
<1>1. mem' = mem /\ k \in Keys /\ k \in Live /\ mem[k].n # 0 /\ at.key \in Keys
  BY LiveHasVersion DEF Inv, Live, HolderNext, Dump, Write, Erase, WriteFails, EraseFails
<1>2. CASE Dump
  <2>1. db' = db /\ todo' = todo
    BY <1>2 DEF Dump
  <2>2. CASE k # at.key
    <3>1. k \notin late
      BY <1>2, <2>2 DEF Dump
    <3> QED  BY <1>1, <2>1, <2>2, <3>1 DEF Flushed, BeingSaved
  <2>3. CASE k = at.key /\ at.torn /\ late' = late
    BY <1>1, <1>2, <2>1, <2>3 DEF Dump, Flushed, BeingSaved
  <2>4. CASE k = at.key /\ saved[k] = mem[k].n
    BY <1>1, <2>1, <2>4 DEF Inv
  <2>5. CASE k = at.key /\ at' = [at EXCEPT !.step = "write", !.data = mem[at.key]]
    <3>1. at'.key = k /\ at'.step = "write" /\ at'.data = mem[k]
      BY <2>5 DEF Inv
    <3> QED  BY <1>1, <3>1 DEF BeingSaved
  <2> QED  BY <1>2, <2>2, <2>3, <2>4, <2>5 DEF Dump
<1>3. CASE Write
  <2>1. db'[at.key].n = at.data.n /\ \A j \in Keys \ {at.key} : db'[j] = db[j]
    BY <1>1, <1>3 DEF Inv, Write
  <2>2. k \notin late /\ todo' = todo
    BY <1>3 DEF Write
  <2>3. CASE k = at.key
    <3>1. /\ db[k].n \in Nat /\ mem[k].n \in Nat /\ at.data.n \in Nat
          /\ db[k].n <= at.data.n /\ at.data.n <= mem[k].n
      BY <1>1, <1>3, <2>3 DEF Inv, Write
    <3> QED  BY <1>1, <1>3, <2>1, <2>2, <2>3, <3>1 DEF Write, Flushed, BeingSaved
  <2>4. CASE k # at.key
    BY <1>1, <2>1, <2>2, <2>4 DEF Flushed, BeingSaved
  <2> QED  BY <2>3, <2>4
<1>4. CASE WriteFails
  <2>1. k \notin late /\ k # at.key /\ (k \in todo => k \in todo') /\ db' = db
    BY <1>4 DEF WriteFails
  <2> QED  BY <1>1, <2>1 DEF Flushed, BeingSaved
<1>5. CASE Erase \/ EraseFails
  <2>1. at.step = "delete" /\ k # at.key
    BY <1>1, <1>5 DEF Inv, Erase, EraseFails
  <2>2. db'[k] = db[k] /\ todo' = todo /\ late' = late
    BY <1>1, <1>5, <2>1 DEF Inv, Erase, EraseFails
  <2> QED  BY <1>1, <2>1, <2>2 DEF Flushed, BeingSaved
<1> QED  BY <1>2, <1>3, <1>4, <1>5 DEF HolderNext

LEMMA MaintenanceFlushed ==
    ASSUME Inv, Flushed, NEW k \in Keys, FlushKey(k) \/ PruneOne(k) \/ PruneFails(k) \/ Age(k)
    PROVE  Flushed'
<1>1. mem \in [Keys -> Record] /\ db \in [Keys -> Row] /\ doomed \subseteq Keys
  BY DEF Inv
<1>2. CASE FlushKey(k)
  <2>1. \A j \in Keys : ~BeingSaved(j)
    BY <1>2, NobodySaves DEF FlushKey, Free
  <2>2. /\ UNCHANGED <<up, mem, db, late>> /\ todo \ todo' \subseteq {k}
    BY <1>2 DEF FlushKey
  <2>3. k \in Live => BeingSaved(k)'
    <3>1. k \in Live => Take("flush", k, "dump")
      BY <1>2 DEF FlushKey
    <3>2. Take("flush", k, "dump") => at'.key = k /\ at'.step = "dump" /\ at'.torn = FALSE
      BY DEF Take, Nothing
    <3> QED  BY <3>1, <3>2 DEF BeingSaved
  <2>4. \A j \in Live : j \in Keys
    BY DEF Live
  <2> QED  BY <2>1, <2>2, <2>3, <2>4, FlushedFrame DEF Live
<1>3. CASE PruneOne(k) \/ PruneFails(k)
  <2>1. mem' = [mem EXCEPT ![k] = NoRecord] /\ UNCHANGED <<up, todo, late, at>>
    BY <1>3 DEF PruneOne, PruneFails
  <2>2. \A j \in Live' : j # k
    BY <1>1, <2>1 DEF Live
  <2>3. \A j \in Keys \ {k} : db'[j] = db[j]
    BY <1>1, <1>3 DEF PruneOne, PruneFails
  <2>4. \A j \in Keys : ~BeingSaved(j)
    BY <1>3, NobodySaves DEF PruneOne, PruneFails, Inv
  <2>5. \A j \in Live : j \in Keys
    BY DEF Live
  <2>6. \A j \in Live' : db'[j].n = db[j].n
    BY <2>2, <2>3 DEF Live
  <2>7. \A j \in Keys : mem'[j] = mem[j] \/ mem'[j] = NoRecord
    BY <1>1, <2>1
  <2> QED  BY <2>1, <2>4, <2>5, <2>6, <2>7, FlushedFrame
<1>4. CASE Age(k)
  <2>1. UNCHANGED <<up, mem, at, todo, late>> /\ \A j \in Keys : db'[j].n = db[j].n
    BY <1>1, <1>4 DEF Age
  <2>2. \A j \in Keys : BeingSaved(j)' = BeingSaved(j)
    BY <2>1 DEF BeingSaved
  <2> QED  BY <2>1, <2>2, FlushedFrame DEF Live
<1> QED  BY <1>2, <1>3, <1>4

LEMMA FlushedStep == Inv /\ Flushed /\ [Next]_vars => Flushed'
<1> SUFFICES ASSUME Inv, Flushed, [Next]_vars PROVE Flushed'
  OBVIOUS
<1>1. CASE UNCHANGED vars
  BY <1>1 DEF vars, Flushed, BeingSaved, Live
<1>2. CASE FlushStart \/ PruneStart \/ Exit \/ Crash \/ Start \/ Loaded \/ Started \/ \E k \in Keys : LoadSave(k)
  BY <1>2 DEF FlushStart, PruneStart, Exit, Crash, LoseMemory, Start, Loaded, Started, LoadSave, Flushed
<1>3. CASE StopMaintenance
  <2>1. todo' = Live /\ mem' = mem
    BY <1>3 DEF StopMaintenance
  <2> QED  BY <2>1 DEF Flushed, Live
<1>4. ASSUME NEW k \in Keys, FlushKey(k) \/ PruneOne(k) \/ PruneFails(k) \/ Age(k) PROVE Flushed'
  BY <1>4, MaintenanceFlushed
<1> QED
  BY <1>1, <1>2, <1>3, <1>4, JobFlushed, HolderFlushed
     DEF Next, ReliableNext, HolderNext, MaintenanceNext, ErrorNext, ProcessNext

\* A clean stop loses nothing but what jobs changed after the last flush came by, or
\* what the database refused: whatever was being saved, torn or deleted when it
\* began (maintenance.py: stop; records.py: flush, save).
THEOREM ExitKeeps == Spec => ExitKeepsAll
<1>1. Init => Flushed
  <2>1. Init => up = "running"
    BY DEF Init
  <2> QED  BY <2>1 DEF Flushed
<1>2. Inv /\ Flushed /\ [Next]_vars => [Exit => \A k \in Live \ late : db[k].n = mem[k].n]_vars
  <2> SUFFICES ASSUME Inv, Flushed, Exit, NEW k \in Live \ late PROVE db[k].n = mem[k].n
    OBVIOUS
  <2>1. up = "stopping" /\ todo = {} /\ lock = "free" /\ k \in Keys
    BY DEF Exit, Free, Live
  <2> QED  BY <2>1, NobodySaves DEF Flushed
<1> QED  BY <1>1, <1>2, Invariance, FlushedStep, PTL DEF Spec, ExitKeepsAll

-----------------------------------------------------------------------------
(* Records implements DurableRecords *)

LEMMA InitDurable == Init => Durable!Init
  BY DEF Init, Durable!Init, Durable!None, EmptyDict, NoRecord, NoRow

\* Steps that only change memory.
LEMMA MemoryStep ==
    ASSUME Inv, NEW k \in Keys, up # "down", up' # "down",
           NEW v \in Nat, NEW s \in Status,
           mem' = [mem EXCEPT ![k] = [n |-> v, status |-> s]], db' = db,
           mem[k].n < v, db[k].n < v
    PROVE  Durable!Change(k)
  BY DEF Inv, Durable!Change

LEMMA JobDurable ==
    ASSUME Inv, NEW k \in Keys, JobNext(k)
    PROVE  [Durable!Next]_(Durable!vars)
<1>1. ASSUME NEW s \in {"active", "finished"}, Put(k, s) PROVE Durable!Change(k)
  <2>1. mem[k].n = 0 /\ db[k].n \in Nat /\ s \in Status
    BY <1>1 DEF Inv, Put, Live, NoRecord
  <2>2. /\ mem' = [mem EXCEPT ![k] = [n |-> db[k].n + 1, status |-> s]]
        /\ db' = db /\ up' = up /\ up = "running"
    BY <1>1 DEF Put
  <2>3. db[k].n + 1 \in Nat /\ mem[k].n < db[k].n + 1 /\ db[k].n < db[k].n + 1
    BY <2>1
  <2> QED  BY <2>1, <2>2, <2>3, MemoryStep
<1>2. ASSUME NEW s \in Status \ {"none"}, Change(k, s) PROVE Durable!Change(k)
  <2>1. mem[k].n \in Nat /\ db[k].n \in Nat /\ db[k].n <= mem[k].n
    BY <1>2, LiveHasVersion DEF Inv, Change
  <2>2. /\ mem' = [mem EXCEPT ![k] = [n |-> mem[k].n + 1, status |-> s]]
        /\ db' = db /\ up' = up /\ up # "down"
    BY <1>2 DEF Change, InPlace
  <2>3. mem[k].n + 1 \in Nat /\ mem[k].n < mem[k].n + 1 /\ db[k].n < mem[k].n + 1
    BY <2>1
  <2>4. s \in Status
    OBVIOUS
  <2> QED  BY <2>2, <2>3, <2>4, MemoryStep
<1>3. CASE Save(k)
  BY <1>3 DEF Save, Durable!vars
<1>4. ASSUME NEW s \in {"active", "finished"}, Resume(k, s) PROVE Durable!Next
  <2>1. mem[k].n \in Nat /\ db[k].n \in Nat /\ db[k].n <= mem[k].n /\ s \in Status
    BY <1>4 DEF Inv, Resume
  <2>2. /\ mem' = [mem EXCEPT ![k] = [n |-> mem[k].n + 1, status |-> s]]
        /\ db' = db /\ up' = up /\ up # "down"
    BY <1>4 DEF Resume, InPlace
  <2>3. mem[k].n + 1 \in Nat /\ mem[k].n < mem[k].n + 1 /\ db[k].n < mem[k].n + 1
    BY <2>1
  <2>4. Durable!Change(k)
    BY <2>1, <2>2, <2>3, MemoryStep
  <2> QED  BY <2>4 DEF Durable!Next
<1>5. CASE Pop(k)
  <2>1. Durable!Delete(k)
    BY <1>5 DEF Inv, Pop, NoRecord, Durable!Delete
  <2> QED  BY <2>1 DEF Durable!Next
<1> QED  BY <1>1, <1>2, <1>3, <1>4, <1>5 DEF JobNext, Durable!Next

LEMMA HolderDurable ==
    ASSUME Inv, HolderNext
    PROVE  [Durable!Next]_(Durable!vars)
<1>1. CASE Dump
  BY <1>1 DEF Dump, Durable!vars
<1>2. CASE Write
  <2>1. PICK k \in Keys : k = at.key
    BY <1>2 DEF Inv, Write
  <2>2. /\ db[k].n \in Nat /\ mem[k].n \in Nat /\ up' = up /\ up # "down" /\ mem' = mem
        /\ at.data.n \in db[k].n .. mem[k].n
    BY <1>2, <2>1, Constructors DEF Inv, Write
  <2>3. \A j \in Keys : db'[j].n = IF j = k THEN at.data.n ELSE db[j].n
    BY <1>2, <2>1 DEF Inv, Write
  <2>4. Durable!Write(k)
    BY <2>2, <2>3 DEF Durable!Write
  <2> QED  BY <2>4 DEF Durable!Next
<1>3. CASE Erase
  <2>1. PICK k \in Keys : k = at.key
    BY <1>3 DEF Inv, Erase
  <2>2. mem[k].n = 0 /\ up' = up /\ up # "down" /\ mem' = mem
    BY <1>3, <2>1, Constructors DEF Inv, Erase
  <2>3. \A j \in Keys : db'[j].n = IF j = k THEN 0 ELSE db[j].n
    BY <1>3, <2>1 DEF Inv, Erase, NoRow
  <2>4. Durable!Delete(k)
    BY <2>2, <2>3 DEF Durable!Delete
  <2> QED  BY <2>4 DEF Durable!Next
<1> QED  BY <1>1, <1>2, <1>3 DEF HolderNext

LEMMA MaintenanceDurable ==
    ASSUME Inv, MaintenanceNext \/ ErrorNext \/ \E k \in Keys : Age(k)
    PROVE  [Durable!Next]_(Durable!vars)
<1>1. CASE FlushStart \/ PruneStart \/ WriteFails \/ EraseFails \/ \E k \in Keys : FlushKey(k)
  BY <1>1 DEF FlushStart, PruneStart, WriteFails, EraseFails, FlushKey, Durable!vars
<1>2. ASSUME NEW k \in Keys, Age(k) PROVE UNCHANGED Durable!vars
  BY <1>2 DEF Inv, Age, Durable!vars
<1>3. ASSUME NEW k \in Keys, PruneOne(k) \/ PruneFails(k) PROVE Durable!Delete(k)
  <2>1. up # "down"
    BY <1>3 DEF Inv, PruneOne, PruneFails
  <2>2. \A j \in Keys : mem'[j].n = IF j = k THEN 0 ELSE mem[j].n
    BY <1>3 DEF Inv, PruneOne, PruneFails, NoRecord
  <2>3. up' = up
    BY <1>3 DEF PruneOne, PruneFails
  <2>4. CASE PruneOne(k)
    <3>1. \A j \in Keys : db'[j].n = IF j = k THEN 0 ELSE db[j].n
      BY <2>4 DEF Inv, PruneOne, NoRow
    <3> QED  BY <2>1, <2>2, <2>3, <3>1 DEF Durable!Delete
  <2>5. CASE PruneFails(k)
    BY <2>1, <2>2, <2>3, <2>5 DEF PruneFails, Durable!Delete
  <2> QED  BY <1>3, <2>4, <2>5
<1> QED  BY <1>1, <1>2, <1>3 DEF MaintenanceNext, ErrorNext, Durable!Next

LEMMA ProcessDurable ==
    ASSUME Inv, ProcessNext
    PROVE  [Durable!Next]_(Durable!vars)
<1>1. CASE StopMaintenance \/ Loaded \/ Started
  BY <1>1 DEF StopMaintenance, Loaded, Started, Durable!vars
<1>2. CASE Exit \/ Crash
  <2>1. Durable!Lose
    BY <1>2 DEF Exit, Crash, LoseMemory, EmptyDict, NoRecord, Durable!Lose, Durable!None
  <2> QED  BY <2>1 DEF Durable!Next
<1>3. CASE Start
  <2>1. todo' \subseteq Keys /\ \A k \in todo' : db[k].n # 0
    BY <1>3 DEF Inv, Start
  <2>2. \A k \in Keys : mem'[k].n = IF k \in todo' THEN db[k].n + 1 ELSE db[k].n
    BY <1>3 DEF Start
  <2>3. PICK marked \in SUBSET Keys : marked = todo'
    BY <2>1
  <2>4. Durable!Restart(marked)
    BY <1>3, <2>1, <2>2, <2>3 DEF Start, Durable!Restart
  <2> QED  BY <2>4 DEF Durable!Next
<1>4. ASSUME NEW k \in Keys, LoadSave(k) PROVE Durable!Write(k)
  <2>1. db[k].n \in Nat /\ mem[k].n \in Nat /\ db[k].n <= mem[k].n
    BY <1>4 DEF Inv, LoadSave
  <2>2. \A j \in Keys : db'[j].n = IF j = k THEN mem[k].n ELSE db[j].n
    BY <1>4 DEF Inv, LoadSave
  <2>3. up' = up /\ up # "down" /\ mem' = mem
    BY <1>4 DEF LoadSave
  <2>4. mem[k].n \in db[k].n .. mem[k].n
    BY <2>1
  <2>5. db'[k].n \in db[k].n .. mem[k].n
    BY <2>2, <2>4
  <2> QED  BY <2>2, <2>3, <2>5 DEF Durable!Write
<1> QED  BY <1>1, <1>2, <1>3, <1>4 DEF ProcessNext, Durable!Next

LEMMA StepDurable == Inv /\ [Next]_vars => [Durable!Next]_(Durable!vars)
<1> SUFFICES ASSUME Inv, [Next]_vars PROVE [Durable!Next]_(Durable!vars)
  OBVIOUS
<1>1. CASE UNCHANGED vars
  BY <1>1 DEF vars, Durable!vars
<1>2. CASE Next
  BY <1>2, JobDurable, HolderDurable, MaintenanceDurable, ProcessDurable DEF Next, ReliableNext
<1> QED  BY <1>1, <1>2

\* A PersistentStore is a durable store: rows never fall back to an older
\* version, only deleted records disappear, and a start brings the others back,
\* whatever is changed in place, refused by the database or cut off.
THEOREM Implements == Spec => IsDurable
<1>1. Init => Durable!Init
  BY InitDurable
<1>2. Inv /\ [Next]_vars => [Durable!Next]_(Durable!vars)
  BY StepDurable
<1> QED  BY <1>1, <1>2, Invariance, PTL DEF Spec, IsDurable, Durable!Spec

=============================================================================
