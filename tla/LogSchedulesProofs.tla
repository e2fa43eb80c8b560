------------------------- MODULE LogSchedulesProofs -------------------------
(***************************************************************************)
(* What users stop stays stopped, what had begun is resumed, nothing is    *)
(* completed early, and what is shown is so: for any number of schedules,  *)
(* any duration and any number of restarts.                                *)
(***************************************************************************)
EXTENDS LogSchedules, TLAPS

Resumable(r) == r.status \in Active \/ (r.status = "interrupted" /\ r.before \in Active)
Begun == {"sleeping"} \cup InPass

\* A process that does not run has no tasks, and one that starts has only created
\* some; no task is without a record.
Quiet ==
    /\ ~up => /\ ~stopping /\ loop = "idle" /\ calls = {} /\ toResume = {}
              /\ \A s \in Schedules : task[s] = "none" /\ mem[s] = NoRecord
    /\ loop = "starting" => \A s \in Schedules : task[s] \in {"none", "created"} /\ s \notin cancelled
    /\ \A s \in toResume : task[s] = "none" /\ mem[s].status = "interrupted" /\ Resumable(mem[s]) /\ Resumable(db[s])
    /\ toResume # {} => loop = "starting"
    /\ \A s \in Schedules : mem[s].status = "none" => task[s] = "none"

\* A task has at least the time its schedule has left since its creation.
TimeLeft ==
    \A s \in Timed :
        /\ created[s] <= now
        /\ task[s] = "created" => now + budget[s] >= created[s] + Duration
        /\ task[s] \in Begun => started[s] + budget[s] >= created[s] + Duration

OnlyTimedComplete ==
    \A s \in Indefinite : mem[s].status # "completed" /\ db[s].status # "completed"

\* Only users cancel a task that has not begun; their stop shows.
CancelledNew == \A s \in cancelled : task[s] = "created" => mem[s].status = "stopped"

\* A stop that was not forgotten reaches the task, and the next process.
StopReaches ==
    \A s \in ended \ forgotten :
        /\ Stopped(s)
        /\ task[s] \in {"created", "sleeping"} => s \in cancelled
        /\ s \notin toResume
        /\ ~up => db[s].status = "stopped"

\* What would be resumed after an exit would be resumed after a crash.
Kept ==
    \A s \in Schedules :
        /\ task[s] # "none" /\ Resumable(mem[s]) => Resumable(db[s])
        /\ task[s] = "created" /\ s \notin cancelled => Resumable(mem[s])

\* What is owed is on its way to be resumed.
OnItsWay ==
    \A s \in owed :
        /\ ~up => Resumable(db[s])
        /\ loop = "starting" => s \in toResume
        /\ up /\ loop # "starting" => /\ stopping /\ task[s] \in Begun \cup {"done"}
                                      /\ mem[s].status = "interrupted" /\ Resumable(mem[s])

Inv ==
    /\ TypeOK
    /\ Quiet
    /\ TimeLeft
    /\ OnlyTimedComplete
    /\ CompletedNotEarly
    /\ CancelledNew
    /\ ShownAsItIs
    /\ StopReaches
    /\ Kept
    /\ OnItsWay

-----------------------------------------------------------------------------
USE IndefiniteType, DurationType, SchedulesAreNames

LEMMA NoRecordType == NoRecord \in Record
  BY DEF NoRecord, Record, Status, Active

\* Assigning a status in place.
LEMMA SetStatusFacts ==
    ASSUME TypeOK, NEW s \in Schedules, NEW status \in Status, SetStatus(s, status)
    PROVE  /\ mem' \in [Schedules -> Record]
           /\ mem'[s].status = status /\ mem'[s].before = mem[s].before
           /\ \A t \in Schedules \ {s} : mem'[t] = mem[t]
<1>1. mem[s] \in Record
  BY DEF TypeOK
<1>2. [mem[s] EXCEPT !.status = status] = [status |-> status, before |-> mem[s].before]
  BY <1>1 DEF Record
<1>3. [mem[s] EXCEPT !.status = status] \in Record
  BY <1>1, <1>2 DEF Record
<1> QED  BY <1>1, <1>2, <1>3 DEF SetStatus, TypeOK

\* Interrupting what is in progress.
LEMMA InterruptFacts ==
    ASSUME NEW f \in [Schedules -> Record], NEW g,
           g = [s \in Schedules |->
                  IF f[s].status \in Active
                  THEN [status |-> "interrupted", before |-> f[s].status] ELSE f[s]]
    PROVE  /\ g \in [Schedules -> Record]
           /\ \A s \in Schedules :
                 IF f[s].status \in Active
                 THEN g[s].status = "interrupted" /\ g[s].before = f[s].status
                 ELSE g[s] = f[s]
<1>1. \A s \in Schedules : f[s].status \in Active =>
          [status |-> "interrupted", before |-> f[s].status] \in Record
  BY DEF Record, Status
<1> QED  BY <1>1

\* Assigning a time, of a schedule that has one.
LEMMA SetNatTime ==
    ASSUME NEW f \in [Schedules -> Nat], NEW s \in Schedules, NEW time \in Nat
    PROVE  /\ SetTime(f, s, time) \in [Schedules -> Nat]
           /\ s \in Timed => SetTime(f, s, time)[s] = time
           /\ \A t \in Schedules \ {s} : SetTime(f, s, time)[t] = f[t]
  BY DEF SetTime

LEMMA SetIntTime ==
    ASSUME NEW f \in [Schedules -> Int], NEW s \in Schedules, NEW time \in Int
    PROVE  /\ SetTime(f, s, time) \in [Schedules -> Int]
           /\ s \in Timed => SetTime(f, s, time)[s] = time
           /\ \A t \in Schedules \ {s} : SetTime(f, s, time)[t] = f[t]
  BY DEF SetTime

\* The end of a task leaves the others alone.
LEMMA TaskEndsFacts ==
    ASSUME TypeOK, NEW s \in Schedules, TaskEnds(s)
    PROVE  /\ task' \in [Schedules -> {"none", "created", "sleeping", "done"} \cup InPass]
           /\ task'[s] = "done" /\ \A t \in Schedules \ {s} : task'[t] = task[t]
           /\ started' \in [Schedules -> Nat] /\ budget' \in [Schedules -> Int]
           /\ \A t \in Schedules \ {s} : started'[t] = started[t] /\ budget'[t] = budget[t]
           /\ now' = now /\ created' = created
  BY DEF TypeOK, TaskEnds, SetTask

LEMMA InitInv == Init => Inv
<1> SUFFICES ASSUME Init PROVE Inv
  OBVIOUS
<1>1. TypeOK
  <2>1. mem \in [Schedules -> Record] /\ db \in [Schedules -> Record]
    BY NoRecordType DEF Init
  <2>2. /\ created \in [Schedules -> Nat] /\ started \in [Schedules -> Nat]
        /\ budget \in [Schedules -> Int] /\ now \in Nat
    BY DEF Init
  <2>3. /\ task \in [Schedules -> {"none", "created", "sleeping", "done"} \cup InPass]
        /\ \A s \in Schedules : ~(task[s] \in InPass) /\ loop # s
    BY DEF Init, InPass
  <2> QED  BY <2>1, <2>2, <2>3 DEF Init, TypeOK
<1>2. Quiet /\ TimeLeft /\ StopReaches /\ OnItsWay /\ CancelledNew
  BY DEF Init, Quiet, TimeLeft, StopReaches, OnItsWay, CancelledNew, Begun, InPass, Timed
<1>3. OnlyTimedComplete /\ CompletedNotEarly /\ ShownAsItIs /\ Kept
  BY DEF Init, OnlyTimedComplete, CompletedNotEarly, ShownAsItIs, Kept, NoRecord, Resumable,
     IsActive, Active, InPass
<1> QED  BY <1>1, <1>2, <1>3 DEF Inv

-----------------------------------------------------------------------------
(* Types *)

LEMMA TypeStep == Inv /\ [Next]_vars => TypeOK'
<1> SUFFICES ASSUME Inv, [Next]_vars PROVE TypeOK'
  OBVIOUS
<1> USE DEF Inv, OnLoop, process, record, tasks, times, history, InPass
<1>1. ASSUME NEW s \in Schedules, Create(s) PROVE TypeOK'
  <2>1. "starting" \in Status
    BY DEF Status, Active
  <2>2. mem' \in [Schedules -> Record]
    BY <1>1, <2>1, SetStatusFacts DEF Create
  <2>3. db' \in [Schedules -> Record]
    <3>1. db = mem \/ db[s] = mem[s]
      BY <1>1 DEF Create, New
    <3>2. [db[s] EXCEPT !.status = "starting"] \in Record
      BY <2>1 DEF TypeOK, Record
    <3> QED  BY <1>1, <3>2 DEF Create, TypeOK
  <2>4. created' \in [Schedules -> Nat] /\ budget' \in [Schedules -> Int]
    <3>1. created \in [Schedules -> Nat] /\ budget \in [Schedules -> Int] /\ now \in Nat
      BY DEF TypeOK
    <3>2. Duration \in Int
      OBVIOUS
    <3>3. SetTime(created, s, now) \in [Schedules -> Nat]
      BY <3>1, SetNatTime
    <3>4. SetTime(budget, s, Duration) \in [Schedules -> Int]
      BY <3>1, <3>2, SetIntTime
    <3> QED  BY <1>1, <3>3, <3>4 DEF Create
  <2> QED  BY <1>1, <2>2, <2>3, <2>4 DEF TypeOK, Create, New, SetTask
<1>2. ASSUME NEW s \in Schedules, CreateFails(s) PROVE TypeOK'
  <2>1. mem' \in [Schedules -> Record]
    BY <1>2, SetStatusFacts DEF CreateFails, Status, Active
  <2>2. created' \in [Schedules -> Nat]
    BY <1>2, SetNatTime DEF CreateFails, TypeOK
  <2> QED  BY <1>2, <2>1, <2>2 DEF TypeOK, CreateFails
<1>3. ASSUME NEW s \in Schedules, UserStop(s) PROVE TypeOK'
  <2>1. mem' \in [Schedules -> Record]
    BY <1>3, SetStatusFacts DEF UserStop, Status
  <2> QED  BY <1>3, <2>1 DEF TypeOK, UserStop
<1>4. ASSUME NEW s \in Schedules, Begin(s) PROVE TypeOK'
  <2>1. mem' \in [Schedules -> Record]
    BY <1>4, SetStatusFacts DEF Begin, Status, Active
  <2>2. started' \in [Schedules -> Nat]
    BY <1>4, SetNatTime DEF Begin, TypeOK
  <2>3. Pass(s) \in InPass
    BY DEF Pass
  <2>4. /\ task' \in [Schedules -> {"none", "created", "sleeping", "done"} \cup InPass]
        /\ task'[s] \in InPass /\ \A t \in Schedules \ {s} : task'[t] = task[t]
    BY <1>4, <2>3 DEF TypeOK, Begin, SetTask
  <2> QED  BY <1>4, <2>1, <2>2, <2>4 DEF TypeOK, Begin
<1>5. ASSUME NEW s \in Schedules, NeverBegin(s) PROVE TypeOK'
  BY <1>5 DEF TypeOK, NeverBegin, TaskEnds, SetTask
<1>6. ASSUME NEW s \in Schedules, Wake(s) PROVE TypeOK'
  BY <1>6 DEF TypeOK, Wake, SetTask, Pass
<1>7. ASSUME NEW s \in Schedules, PassEnds(s) PROVE TypeOK'
  <2>1. ASSUME NEW status \in Status, task[s] \in InPass, Finish(s, status) PROVE TypeOK'
    <3>1. mem' \in [Schedules -> Record]
      BY <2>1, SetStatusFacts DEF Finish
    <3> QED  BY <2>1, <3>1, TaskEndsFacts DEF TypeOK, Finish
  <2>2. CASE PassSleeps(s)
    BY <2>2 DEF TypeOK, PassSleeps, SetTask
  <2> QED  BY <1>7, <2>1, <2>2 DEF PassEnds, PassContainerGone, PassRaises, PassCompletes, Status
<1>8. ASSUME NEW s \in Schedules, Cancelled(s) PROVE TypeOK'
  <2>1. mem' \in [Schedules -> Record]
    BY <1>8, SetStatusFacts DEF Cancelled, Status, TypeOK
  <2> QED  BY <1>8, <2>1, TaskEndsFacts DEF TypeOK, Cancelled
<1>9. CASE BeginShutdown
  <2>1. mem' \in [Schedules -> Record]
    BY <1>9, InterruptFacts DEF BeginShutdown, IsActive, TypeOK
  <2> QED  BY <1>9, <2>1 DEF TypeOK, BeginShutdown, Running
<1>10. ASSUME NEW s \in Schedules, CancelCallback(s) PROVE TypeOK'
  BY <1>10 DEF TypeOK, CancelCallback
<1>11. ASSUME NEW s \in Schedules, Flush(s) PROVE TypeOK'
  BY <1>11 DEF TypeOK, Flush
<1>12. CASE Exit \/ Crash
  <2>1. ProcessEnds /\ UNCHANGED deleted
    BY <1>12 DEF Exit, Crash
  <2>2. mem' \in [Schedules -> Record] /\ db' \in [Schedules -> Record]
    BY <1>12, <2>1, NoRecordType DEF Exit, Crash, ProcessEnds, TypeOK
  <2>3. /\ ended' \subseteq Schedules /\ forgotten' \subseteq Schedules /\ refused' \subseteq Schedules
        /\ owed' \subseteq Schedules /\ owedNew' \subseteq Schedules
    BY <1>12 DEF Exit, Crash, Running, TypeOK
  <2>4. now' \in Nat /\ created' \in [Schedules -> Nat] /\ started' \in [Schedules -> Nat]
        /\ budget' \in [Schedules -> Int]
    BY <2>1 DEF ProcessEnds, TypeOK
  <2>5. /\ up' \in BOOLEAN /\ stopping' \in BOOLEAN /\ loop' = "idle" /\ toResume' = {}
        /\ \A s \in Schedules : task'[s] = "none"
        /\ task' \in [Schedules -> {"none", "created", "sleeping", "done"} \cup InPass]
        /\ cancelled' = {} /\ calls' = {}
    BY <2>1 DEF ProcessEnds
  <2>6. deleted' \subseteq Schedules
    BY <2>1 DEF TypeOK
  <2> QED  BY <2>2, <2>3, <2>4, <2>5, <2>6 DEF TypeOK
<1>13. CASE Load
  <2>1. db' \in [Schedules -> Record]
    BY <1>13, InterruptFacts DEF Load, TypeOK
  <2> QED  BY <1>13, <2>1 DEF TypeOK, Load, Quiet
<1>14. ASSUME NEW s \in Schedules, Resume(s) PROVE TypeOK'
  <2>1. mem' \in [Schedules -> Record] /\ db' \in [Schedules -> Record]
    BY <1>14, SetStatusFacts DEF Resume, ResumeTimeOut, ResumeTask, Save, Status, Active, TypeOK
  <2>2. budget' \in [Schedules -> Int]
    <3>1. Duration - Elapsed(s) \in Int
      BY DEF Elapsed, TypeOK
    <3>2. budget \in [Schedules -> Int]
      BY DEF TypeOK
    <3>3. SetTime(budget, s, Duration - Elapsed(s)) \in [Schedules -> Int]
      BY <3>1, <3>2, SetIntTime
    <3> QED  BY <1>14, <3>2, <3>3 DEF Resume, ResumeTimeOut, ResumeTask
  <2> QED  BY <1>14, <2>1, <2>2 DEF TypeOK, Resume, ResumeTimeOut, ResumeTask, SetTask, Quiet
<1>15. CASE Resumed \/ (\E s \in Schedules : DeleteContainer(s)) \/ Tick \/ UNCHANGED vars
  BY <1>15 DEF TypeOK, Resumed, DeleteContainer, Tick, vars
<1> QED
  BY <1>1, <1>2, <1>3, <1>4, <1>5, <1>6, <1>7, <1>8, <1>9, <1>10, <1>11, <1>12, <1>13, <1>14, <1>15
  DEF Next, ReliableNext, RequestNext, TaskNext

-----------------------------------------------------------------------------
(* The process and its tasks *)

LEMMA StatusNames == Active = {"starting", "running"} /\ {"stopped", "error", "completed"} \cup Active \subseteq Status
  BY DEF Status, Active

LEMMA QuietStep == Inv /\ [Next]_vars => Quiet'
<1> SUFFICES ASSUME Inv, [Next]_vars PROVE Quiet'
  OBVIOUS
<1> USE StatusNames DEF Inv, OnLoop, process, record, tasks, times, history, InPass, Resumable, NoRecord, Quiet
<1>1. ASSUME NEW s \in Schedules, Create(s) PROVE Quiet'
  BY <1>1, SetStatusFacts DEF Create, New, SetTask, Save, NoRecord, TypeOK, Quiet
<1>2. ASSUME NEW s \in Schedules, CreateFails(s) PROVE Quiet'
  BY <1>2, SetStatusFacts DEF CreateFails, New, NoRecord, TypeOK, Quiet
<1>3. ASSUME NEW s \in Schedules, UserStop(s) PROVE Quiet'
  BY <1>3, SetStatusFacts DEF UserStop, TypeOK, Quiet
<1>4. ASSUME NEW s \in Schedules, Begin(s) PROVE Quiet'
  BY <1>4, SetStatusFacts DEF Begin, SetTask, Pass, TypeOK, Quiet
<1>5. ASSUME NEW s \in Schedules, NeverBegin(s) PROVE Quiet'
  BY <1>5, TaskEndsFacts DEF NeverBegin, TypeOK, Quiet
<1>6. ASSUME NEW s \in Schedules, Wake(s) PROVE Quiet'
  BY <1>6 DEF Wake, SetTask, Pass, TypeOK, Quiet
<1>7. ASSUME NEW s \in Schedules, PassEnds(s) PROVE Quiet'
  <2>1. ASSUME NEW status \in {"stopped", "error", "completed"}, task[s] \in InPass, Finish(s, status),
               status = "completed" => TimeIsUp(s)
        PROVE  Quiet'
    BY <2>1, SetStatusFacts, TaskEndsFacts DEF Finish, TimeIsUp, TypeOK, Quiet
  <2>2. CASE PassSleeps(s)
    BY <2>2 DEF PassSleeps, SetTask, TimeIsUp, TypeOK, Quiet
  <2>3. CASE PassContainerGone(s)
    BY <2>1, <2>3 DEF PassContainerGone
  <2>4. CASE PassRaises(s)
    BY <2>1, <2>4 DEF PassRaises
  <2>5. CASE PassCompletes(s)
    BY <2>1, <2>5 DEF PassCompletes
  <2> QED  BY <1>7, <2>2, <2>3, <2>4, <2>5 DEF PassEnds
<1>8. ASSUME NEW s \in Schedules, Cancelled(s) PROVE Quiet'
  BY <1>8, SetStatusFacts, TaskEndsFacts DEF Cancelled, TypeOK, Quiet
<1>9. ASSUME NEW s \in Schedules, CancelCallback(s) PROVE Quiet'
  BY <1>9 DEF CancelCallback, TypeOK, Quiet
<1>10. ASSUME NEW s \in Schedules, Flush(s) PROVE Quiet'
  BY <1>10 DEF Flush, TypeOK, Quiet
<1>11. ASSUME NEW s \in Schedules, Resume(s) PROVE Quiet'
  BY <1>11, SetStatusFacts DEF Resume, ResumeTimeOut, ResumeTask, SetTask, Save, Elapsed, TypeOK, Quiet
<1>12. CASE BeginShutdown
  BY <1>12, InterruptFacts DEF BeginShutdown, Running, IsActive, TypeOK, Quiet
<1>13. CASE Exit
  BY <1>13 DEF Exit, ProcessEnds, Running, NoRecord, TypeOK, Quiet
<1>14. CASE Crash
  BY <1>14 DEF Crash, ProcessEnds, Running, NoRecord, TypeOK, Quiet
<1>15. CASE Load
  BY <1>15, InterruptFacts DEF Load, TypeOK, Quiet
<1>16. CASE Resumed \/ (\E s \in Schedules : DeleteContainer(s)) \/ Tick \/ UNCHANGED vars
  BY <1>16 DEF Resumed, DeleteContainer, Tick, vars, TypeOK, Quiet
<1> QED
  BY <1>1, <1>2, <1>3, <1>4, <1>5, <1>6, <1>7, <1>8, <1>9, <1>10, <1>11, <1>12, <1>13, <1>14, <1>15, <1>16
  DEF Next, ReliableNext, RequestNext, TaskNext

-----------------------------------------------------------------------------
(* Durations *)

LEMMA OnlyTimedStep == Inv /\ [Next]_vars => OnlyTimedComplete'
<1> SUFFICES ASSUME Inv, [Next]_vars PROVE OnlyTimedComplete'
  OBVIOUS
<1> USE StatusNames DEF Inv, OnLoop, process, record, tasks, times, history, InPass, Timed, OnlyTimedComplete
<1>1. ASSUME NEW s \in Schedules, Create(s) PROVE OnlyTimedComplete'
  BY <1>1, SetStatusFacts DEF Create, New, SetTask, Save, NoRecord, TypeOK, Quiet
<1>2. ASSUME NEW s \in Schedules, CreateFails(s) PROVE OnlyTimedComplete'
  BY <1>2, SetStatusFacts DEF CreateFails, New, NoRecord, TypeOK, Quiet
<1>3. ASSUME NEW s \in Schedules, UserStop(s) PROVE OnlyTimedComplete'
  BY <1>3, SetStatusFacts DEF UserStop, TypeOK, Quiet
<1>4. ASSUME NEW s \in Schedules, Begin(s) PROVE OnlyTimedComplete'
  BY <1>4, SetStatusFacts DEF Begin, SetTask, Pass, TypeOK, Quiet
<1>5. ASSUME NEW s \in Schedules, PassEnds(s) PROVE OnlyTimedComplete'
  <2>1. ASSUME NEW status \in {"stopped", "error", "completed"}, task[s] \in InPass, Finish(s, status),
               status = "completed" => TimeIsUp(s)
        PROVE  OnlyTimedComplete'
    BY <2>1, SetStatusFacts, TaskEndsFacts DEF Finish, TimeIsUp, TypeOK, Quiet
  <2>2. CASE PassSleeps(s)
    BY <2>2 DEF PassSleeps, SetTask, TimeIsUp, TypeOK, Quiet
  <2>3. CASE PassContainerGone(s)
    BY <2>1, <2>3 DEF PassContainerGone
  <2>4. CASE PassRaises(s)
    BY <2>1, <2>4 DEF PassRaises
  <2>5. CASE PassCompletes(s)
    BY <2>1, <2>5 DEF PassCompletes
  <2> QED  BY <1>5, <2>2, <2>3, <2>4, <2>5 DEF PassEnds
<1>6. ASSUME NEW s \in Schedules, Cancelled(s) PROVE OnlyTimedComplete'
  BY <1>6, SetStatusFacts, TaskEndsFacts DEF Cancelled, TypeOK, Quiet
<1>7. ASSUME NEW s \in Schedules, Flush(s) PROVE OnlyTimedComplete'
  BY <1>7 DEF Flush, TypeOK, Quiet
<1>8. ASSUME NEW s \in Schedules, Resume(s) PROVE OnlyTimedComplete'
  BY <1>8, SetStatusFacts DEF Resume, ResumeTimeOut, ResumeTask, SetTask, Save, Elapsed, TypeOK, Quiet
<1>9. CASE BeginShutdown
  BY <1>9, InterruptFacts DEF BeginShutdown, Running, IsActive, TypeOK, Quiet
<1>10. CASE Exit
  BY <1>10 DEF Exit, ProcessEnds, Running, NoRecord, TypeOK, Quiet
<1>11. CASE Crash
  BY <1>11 DEF Crash, ProcessEnds, Running, NoRecord, TypeOK, Quiet
<1>12. CASE Load
  BY <1>12, InterruptFacts DEF Load, TypeOK, Quiet
<1>13. CASE (\E s \in Schedules : NeverBegin(s)) \/ (\E s \in Schedules : Wake(s)) \/ (\E s \in Schedules : CancelCallback(s)) \/ Resumed \/ (\E s \in Schedules : DeleteContainer(s)) \/ Tick \/ UNCHANGED vars
  BY <1>13 DEF NeverBegin, Wake, CancelCallback, Resumed, DeleteContainer, Tick, vars, TypeOK, Quiet
<1> QED
  BY <1>1, <1>2, <1>3, <1>4, <1>5, <1>6, <1>7, <1>8, <1>9, <1>10, <1>11, <1>12, <1>13
  DEF Next, ReliableNext, RequestNext, TaskNext

\* The clock and the times are numbers.
LEMMA TimesType ==
    TypeOK => /\ now \in Nat
              /\ \A s \in Schedules : created[s] \in Nat /\ started[s] \in Nat /\ budget[s] \in Int
  BY DEF TypeOK

LEMMA TimeLeftStep == Inv /\ [Next]_vars => TimeLeft'
<1> SUFFICES ASSUME Inv, [Next]_vars PROVE TimeLeft'
  OBVIOUS
<1> USE StatusNames, TimesType DEF Inv, OnLoop, process, record, tasks, times, history, InPass, Begun, Timed, TimeLeft
<1>1. ASSUME NEW s \in Schedules, Create(s) PROVE TimeLeft'
  <2>1. created \in [Schedules -> Nat] /\ budget \in [Schedules -> Int] /\ now \in Nat /\ Duration \in Int
    BY DEF TypeOK
  <2>2. /\ \A t \in Schedules \ {s} : created'[t] = created[t] /\ budget'[t] = budget[t] /\ task'[t] = task[t]
        /\ s \in Timed => created'[s] = now /\ budget'[s] = Duration
        /\ task'[s] = "created" /\ now' = now /\ started' = started
    <3>1. created' = SetTime(created, s, now) /\ budget' = SetTime(budget, s, Duration)
      BY <1>1 DEF Create
    <3>2. /\ \A t \in Schedules \ {s} : created'[t] = created[t]
          /\ s \in Timed => created'[s] = now
      BY <2>1, <3>1, SetNatTime
    <3>3. /\ \A t \in Schedules \ {s} : budget'[t] = budget[t]
          /\ s \in Timed => budget'[s] = Duration
      <4>1. /\ \A t \in Schedules \ {s} : SetTime(budget, s, Duration)[t] = budget[t]
            /\ s \in Timed => SetTime(budget, s, Duration)[s] = Duration
        BY <2>1, SetIntTime
      <4> QED  BY <3>1, <4>1
    <3>4. /\ \A t \in Schedules \ {s} : task'[t] = task[t]
          /\ task'[s] = "created" /\ now' = now /\ started' = started
      BY <1>1 DEF Create, SetTask, TypeOK
    <3> QED  BY <3>2, <3>3, <3>4
  <2> QED  BY <2>1, <2>2, TimesType DEF Timed
<1>2. ASSUME NEW s \in Schedules, CreateFails(s) PROVE TimeLeft'
  <2>1. created \in [Schedules -> Nat] /\ now \in Nat
    BY DEF TypeOK
  <2>2. /\ \A t \in Schedules \ {s} : created'[t] = created[t]
        /\ s \in Timed => created'[s] = now
        /\ task' = task /\ budget' = budget /\ now' = now /\ started' = started
    BY <1>2, <2>1, SetNatTime DEF CreateFails
  <2>3. task[s] = "none"
    BY <1>2 DEF CreateFails, New, NoRecord, Quiet
  <2> QED  BY <2>2, <2>3, TimesType
<1>3. ASSUME NEW s \in Schedules, Begin(s) PROVE TimeLeft'
  <2>1. started \in [Schedules -> Nat] /\ budget \in [Schedules -> Int] /\ now \in Nat
    BY DEF TypeOK
  <2>2. /\ \A t \in Schedules \ {s} : started'[t] = started[t] /\ task'[t] = task[t]
        /\ s \in Timed => started'[s] = now
        /\ budget' = budget /\ now' = now /\ created' = created
        /\ task[s] = "created"
    BY <1>3, <2>1, SetNatTime DEF Begin, SetTask, TypeOK
  <2>3. task'[s] # "created"
    BY <1>3 DEF Begin, SetTask, Pass, TypeOK
  <2> QED  BY <2>1, <2>2, <2>3 DEF Timed, TypeOK
<1>4. ASSUME NEW s \in Schedules, NeverBegin(s) PROVE TimeLeft'
  BY <1>4, TaskEndsFacts DEF NeverBegin, Elapsed
<1>5. ASSUME NEW s \in Schedules, Wake(s) PROVE TimeLeft'
  BY <1>5 DEF Wake, SetTask, Pass, Elapsed
<1>6. ASSUME NEW s \in Schedules, PassEnds(s) PROVE TimeLeft'
  <2>1. ASSUME NEW status \in {"stopped", "error", "completed"}, task[s] \in InPass, Finish(s, status),
               status = "completed" => TimeIsUp(s)
        PROVE  TimeLeft'
    BY <2>1, SetStatusFacts, TaskEndsFacts DEF Finish, TimeIsUp, Elapsed
  <2>2. CASE PassSleeps(s)
    BY <2>2 DEF PassSleeps, SetTask, TimeIsUp, Elapsed
  <2>3. CASE PassContainerGone(s)
    BY <2>1, <2>3 DEF PassContainerGone
  <2>4. CASE PassRaises(s)
    BY <2>1, <2>4 DEF PassRaises
  <2>5. CASE PassCompletes(s)
    BY <2>1, <2>5 DEF PassCompletes
  <2> QED  BY <1>6, <2>2, <2>3, <2>4, <2>5 DEF PassEnds
<1>7. ASSUME NEW s \in Schedules, Cancelled(s) PROVE TimeLeft'
  BY <1>7, SetStatusFacts, TaskEndsFacts DEF Cancelled, Elapsed
<1>8. ASSUME NEW s \in Schedules, Resume(s) PROVE TimeLeft'
  <2>1. created \in [Schedules -> Nat] /\ budget \in [Schedules -> Int] /\ now \in Nat
    BY DEF TypeOK
  <2>2. CASE ResumeTimeOut(s)
    BY <1>8, <2>2 DEF Resume, ResumeTimeOut
  <2>3. CASE ResumeTask(s)
    <3>1. Duration - Elapsed(s) \in Int
      BY <2>1 DEF Elapsed
    <3>2. /\ \A t \in Schedules \ {s} : budget'[t] = budget[t] /\ task'[t] = task[t]
          /\ s \in Timed => budget'[s] = Duration - Elapsed(s)
          /\ task'[s] = "created"
      <4>1. budget' = SetTime(budget, s, Duration - Elapsed(s))
        BY <2>3 DEF ResumeTask
      <4>2. /\ \A t \in Schedules \ {s} : budget'[t] = budget[t]
            /\ s \in Timed => budget'[s] = Duration - Elapsed(s)
        BY <2>1, <3>1, <4>1, SetIntTime
      <4>3. (\A t \in Schedules \ {s} : task'[t] = task[t]) /\ task'[s] = "created"
        BY <2>3 DEF ResumeTask, SetTask, TypeOK
      <4> QED  BY <4>2, <4>3
    <3> QED  BY <1>8, <2>1, <3>2 DEF Resume, Timed, Elapsed, TypeOK
  <2> QED  BY <1>8, <2>2, <2>3 DEF Resume
<1>9. CASE Exit
  BY <1>9 DEF Exit, ProcessEnds, Running, NoRecord, Elapsed
<1>10. CASE Crash
  BY <1>10 DEF Crash, ProcessEnds, Running, NoRecord, Elapsed
<1>11. CASE Load
  BY <1>11, InterruptFacts DEF Load, Elapsed
<1>12. CASE (\E s \in Schedules : UserStop(s)) \/ (\E s \in Schedules : CancelCallback(s)) \/ (\E s \in Schedules : Flush(s)) \/ BeginShutdown \/ Resumed \/ (\E s \in Schedules : DeleteContainer(s)) \/ Tick \/ UNCHANGED vars
  <2>1. CASE Tick
    BY <2>1 DEF Tick, TypeOK
  <2> QED  BY <1>12, <2>1 DEF UserStop, CancelCallback, Flush, BeginShutdown, Resumed, DeleteContainer, vars
<1> QED
  BY <1>1, <1>2, <1>3, <1>4, <1>5, <1>6, <1>7, <1>8, <1>9, <1>10, <1>11, <1>12
  DEF Next, ReliableNext, RequestNext, TaskNext
LEMMA CompletedStep == Inv /\ [Next]_vars => CompletedNotEarly'
<1> SUFFICES ASSUME Inv, [Next]_vars PROVE CompletedNotEarly'
  OBVIOUS
<1> USE StatusNames, TimesType DEF Inv, OnLoop, process, record, tasks, times, history, InPass, Elapsed, OnlyTimedComplete, Timed, CompletedNotEarly
<1>1. ASSUME NEW s \in Schedules, Create(s) PROVE CompletedNotEarly'
  <2>1. created \in [Schedules -> Nat] /\ now \in Nat
    BY DEF TypeOK
  <2>2. \A t \in Schedules \ {s} : created'[t] = created[t]
    BY <1>1, <2>1, SetNatTime DEF Create
  <2> QED  BY <1>1, <2>2, SetStatusFacts DEF Create, New, NoRecord, TypeOK
<1>2. ASSUME NEW s \in Schedules, CreateFails(s) PROVE CompletedNotEarly'
  <2>1. created \in [Schedules -> Nat] /\ now \in Nat
    BY DEF TypeOK
  <2>2. \A t \in Schedules \ {s} : created'[t] = created[t]
    BY <1>2, <2>1, SetNatTime DEF CreateFails
  <2> QED  BY <1>2, <2>2, SetStatusFacts DEF CreateFails, New, NoRecord, TypeOK
<1>3. ASSUME NEW s \in Schedules, UserStop(s) PROVE CompletedNotEarly'
  BY <1>3, SetStatusFacts DEF UserStop, TypeOK
<1>4. ASSUME NEW s \in Schedules, Begin(s) PROVE CompletedNotEarly'
  BY <1>4, SetStatusFacts DEF Begin, SetTask, Pass, TypeOK
<1>5. ASSUME NEW s \in Schedules, PassEnds(s) PROVE CompletedNotEarly'
  <2>1. ASSUME NEW status \in {"stopped", "error"}, Finish(s, status)
        PROVE  CompletedNotEarly'
    BY <2>1, SetStatusFacts, TaskEndsFacts DEF Finish
  <2>2. CASE PassCompletes(s)
    <3>1. Elapsed(s) >= Duration
      BY <2>2, TimesType DEF PassCompletes, TimeIsUp, TimeLeft, Begun
    <3> QED  BY <2>2, <3>1, SetStatusFacts, TaskEndsFacts DEF Finish, PassCompletes
  <2>3. CASE PassSleeps(s)
    BY <2>3 DEF PassSleeps
  <2> QED  BY <1>5, <2>1, <2>2, <2>3 DEF PassEnds, PassContainerGone, PassRaises
<1>6. ASSUME NEW s \in Schedules, Cancelled(s) PROVE CompletedNotEarly'
  BY <1>6, SetStatusFacts, TaskEndsFacts DEF Cancelled, TypeOK
<1>7. ASSUME NEW s \in Schedules, Flush(s) PROVE CompletedNotEarly'
  BY <1>7 DEF Flush, TypeOK
<1>8. ASSUME NEW s \in Schedules, Resume(s) PROVE CompletedNotEarly'
  BY <1>8, SetStatusFacts DEF Resume, ResumeTimeOut, ResumeTask, SetTask, Save, Elapsed, TypeOK
<1>9. CASE BeginShutdown
  BY <1>9, InterruptFacts DEF BeginShutdown, Running, IsActive, TypeOK
<1>10. CASE Exit
  BY <1>10 DEF Exit, ProcessEnds, Running, NoRecord, TypeOK
<1>11. CASE Crash
  BY <1>11 DEF Crash, ProcessEnds, Running, NoRecord, TypeOK
<1>12. CASE Load
  BY <1>12, InterruptFacts DEF Load, TypeOK
<1>13. CASE (\E s \in Schedules : NeverBegin(s)) \/ (\E s \in Schedules : Wake(s)) \/ (\E s \in Schedules : CancelCallback(s)) \/ Resumed \/ (\E s \in Schedules : DeleteContainer(s)) \/ Tick \/ UNCHANGED vars
  <2>1. CASE Tick
    <3>1. now' = now + 1 /\ UNCHANGED <<mem, db, created>>
      BY <2>1 DEF Tick
    <3> QED  BY <3>1, TimesType
  <2>2. CASE Resumed \/ (\E s \in Schedules : DeleteContainer(s)) \/ UNCHANGED vars
    BY <2>2 DEF Resumed, DeleteContainer, vars
  <2> QED  BY <1>13, <2>1, <2>2 DEF NeverBegin, Wake, CancelCallback, TaskEnds
<1> QED
  BY <1>1, <1>2, <1>3, <1>4, <1>5, <1>6, <1>7, <1>8, <1>9, <1>10, <1>11, <1>12, <1>13
  DEF Next, ReliableNext, RequestNext, TaskNext

-----------------------------------------------------------------------------
(* What is shown, what is stopped and what is resumed *)

LEMMA CancelledNewStep == Inv /\ [Next]_vars => CancelledNew'
<1> SUFFICES ASSUME Inv, [Next]_vars PROVE CancelledNew'
  OBVIOUS
<1> USE StatusNames DEF Inv, OnLoop, process, record, tasks, times, history, InPass, Running, CancelledNew
<1>1. ASSUME NEW s \in Schedules, Create(s) PROVE CancelledNew'
  BY <1>1, SetStatusFacts DEF Create, New, SetTask, Save, NoRecord, TypeOK, Quiet
<1>2. ASSUME NEW s \in Schedules, CreateFails(s) PROVE CancelledNew'
  BY <1>2, SetStatusFacts DEF CreateFails, New, NoRecord, TypeOK, Quiet
<1>3. ASSUME NEW s \in Schedules, UserStop(s) PROVE CancelledNew'
  BY <1>3, SetStatusFacts DEF UserStop, TypeOK, Quiet
<1>4. ASSUME NEW s \in Schedules, Begin(s) PROVE CancelledNew'
  BY <1>4, SetStatusFacts DEF Begin, SetTask, Pass, TypeOK, Quiet
<1>5. ASSUME NEW s \in Schedules, NeverBegin(s) PROVE CancelledNew'
  BY <1>5, TaskEndsFacts DEF NeverBegin, TypeOK, Quiet
<1>6. ASSUME NEW s \in Schedules, Wake(s) PROVE CancelledNew'
  BY <1>6 DEF Wake, SetTask, Pass, TypeOK, Quiet
<1>7. ASSUME NEW s \in Schedules, PassEnds(s) PROVE CancelledNew'
  <2>1. ASSUME NEW status \in {"stopped", "error", "completed"}, task[s] \in InPass, Finish(s, status),
               status = "completed" => TimeIsUp(s)
        PROVE  CancelledNew'
    BY <2>1, SetStatusFacts, TaskEndsFacts DEF Finish, TimeIsUp, TypeOK, Quiet
  <2>2. CASE PassSleeps(s)
    BY <2>2 DEF PassSleeps, SetTask, TimeIsUp, TypeOK, Quiet
  <2>3. CASE PassContainerGone(s)
    BY <2>1, <2>3 DEF PassContainerGone
  <2>4. CASE PassRaises(s)
    BY <2>1, <2>4 DEF PassRaises
  <2>5. CASE PassCompletes(s)
    BY <2>1, <2>5 DEF PassCompletes
  <2> QED  BY <1>7, <2>2, <2>3, <2>4, <2>5 DEF PassEnds
<1>8. ASSUME NEW s \in Schedules, Cancelled(s) PROVE CancelledNew'
  BY <1>8, SetStatusFacts, TaskEndsFacts DEF Cancelled, TypeOK, Quiet
<1>9. ASSUME NEW s \in Schedules, CancelCallback(s) PROVE CancelledNew'
  BY <1>9 DEF CancelCallback, TypeOK, Quiet
<1>10. ASSUME NEW s \in Schedules, Flush(s) PROVE CancelledNew'
  BY <1>10 DEF Flush, TypeOK, Quiet
<1>11. ASSUME NEW s \in Schedules, Resume(s) PROVE CancelledNew'
  BY <1>11, SetStatusFacts DEF Resume, ResumeTimeOut, ResumeTask, SetTask, Save, Elapsed, TypeOK, Quiet
<1>12. CASE BeginShutdown
  BY <1>12, InterruptFacts DEF BeginShutdown, Running, IsActive, TypeOK, Quiet
<1>13. CASE Exit
  BY <1>13 DEF Exit, ProcessEnds, Running, NoRecord, TypeOK, Quiet
<1>14. CASE Crash
  BY <1>14 DEF Crash, ProcessEnds, Running, NoRecord, TypeOK, Quiet
<1>15. CASE Load
  BY <1>15, InterruptFacts DEF Load, TypeOK, Quiet
<1>16. CASE Resumed \/ (\E s \in Schedules : DeleteContainer(s)) \/ Tick \/ UNCHANGED vars
  BY <1>16 DEF Resumed, DeleteContainer, Tick, vars, TypeOK, Quiet
<1> QED
  BY <1>1, <1>2, <1>3, <1>4, <1>5, <1>6, <1>7, <1>8, <1>9, <1>10, <1>11, <1>12, <1>13, <1>14, <1>15, <1>16
  DEF Next, ReliableNext, RequestNext, TaskNext
LEMMA ShownStep == Inv /\ [Next]_vars => ShownAsItIs'
<1> SUFFICES ASSUME Inv, [Next]_vars PROVE ShownAsItIs'
  OBVIOUS
<1> USE StatusNames DEF Inv, OnLoop, process, record, tasks, times, history, InPass, IsActive, CancelledNew, ShownAsItIs
<1>1. ASSUME NEW s \in Schedules, Create(s) PROVE ShownAsItIs'
  BY <1>1, SetStatusFacts DEF Create, New, SetTask, Save, NoRecord, TypeOK, Quiet
<1>2. ASSUME NEW s \in Schedules, CreateFails(s) PROVE ShownAsItIs'
  BY <1>2, SetStatusFacts DEF CreateFails, New, NoRecord, TypeOK, Quiet
<1>3. ASSUME NEW s \in Schedules, UserStop(s) PROVE ShownAsItIs'
  BY <1>3, SetStatusFacts DEF UserStop, TypeOK, Quiet
<1>4. ASSUME NEW s \in Schedules, Begin(s) PROVE ShownAsItIs'
  BY <1>4, SetStatusFacts DEF Begin, SetTask, Pass, TypeOK, Quiet
<1>5. ASSUME NEW s \in Schedules, NeverBegin(s) PROVE ShownAsItIs'
  BY <1>5, TaskEndsFacts DEF NeverBegin, TypeOK, Quiet
<1>6. ASSUME NEW s \in Schedules, Wake(s) PROVE ShownAsItIs'
  BY <1>6 DEF Wake, SetTask, Pass, TypeOK, Quiet
<1>7. ASSUME NEW s \in Schedules, PassEnds(s) PROVE ShownAsItIs'
  <2>1. ASSUME NEW status \in {"stopped", "error", "completed"}, task[s] \in InPass, Finish(s, status),
               status = "completed" => TimeIsUp(s)
        PROVE  ShownAsItIs'
    BY <2>1, SetStatusFacts, TaskEndsFacts DEF Finish, TimeIsUp, TypeOK, Quiet
  <2>2. CASE PassSleeps(s)
    BY <2>2 DEF PassSleeps, SetTask, TimeIsUp, TypeOK, Quiet
  <2>3. CASE PassContainerGone(s)
    BY <2>1, <2>3 DEF PassContainerGone
  <2>4. CASE PassRaises(s)
    BY <2>1, <2>4 DEF PassRaises
  <2>5. CASE PassCompletes(s)
    BY <2>1, <2>5 DEF PassCompletes
  <2> QED  BY <1>7, <2>2, <2>3, <2>4, <2>5 DEF PassEnds
<1>8. ASSUME NEW s \in Schedules, Cancelled(s) PROVE ShownAsItIs'
  BY <1>8, SetStatusFacts, TaskEndsFacts DEF Cancelled, TypeOK, Quiet
<1>9. ASSUME NEW s \in Schedules, CancelCallback(s) PROVE ShownAsItIs'
  BY <1>9 DEF CancelCallback, TypeOK, Quiet
<1>10. ASSUME NEW s \in Schedules, Flush(s) PROVE ShownAsItIs'
  BY <1>10 DEF Flush, TypeOK, Quiet
<1>11. ASSUME NEW s \in Schedules, Resume(s) PROVE ShownAsItIs'
  BY <1>11, SetStatusFacts DEF Resume, ResumeTimeOut, ResumeTask, SetTask, Save, Elapsed, TypeOK, Quiet
<1>12. CASE BeginShutdown
  BY <1>12, InterruptFacts DEF BeginShutdown, Running, IsActive, TypeOK, Quiet
<1>13. CASE Exit
  BY <1>13 DEF Exit, ProcessEnds, Running, NoRecord, TypeOK, Quiet
<1>14. CASE Crash
  BY <1>14 DEF Crash, ProcessEnds, Running, NoRecord, TypeOK, Quiet
<1>15. CASE Load
  BY <1>15, InterruptFacts DEF Load, TypeOK, Quiet
<1>16. CASE Resumed \/ (\E s \in Schedules : DeleteContainer(s)) \/ Tick \/ UNCHANGED vars
  BY <1>16 DEF Resumed, DeleteContainer, Tick, vars, TypeOK, Quiet
<1> QED
  BY <1>1, <1>2, <1>3, <1>4, <1>5, <1>6, <1>7, <1>8, <1>9, <1>10, <1>11, <1>12, <1>13, <1>14, <1>15, <1>16
  DEF Next, ReliableNext, RequestNext, TaskNext
LEMMA StopReachesStep == Inv /\ [Next]_vars => StopReaches'
<1> SUFFICES ASSUME Inv, [Next]_vars PROVE StopReaches'
  OBVIOUS
<1> USE StatusNames DEF Inv, OnLoop, process, record, tasks, times, history, InPass, Stopped, StopReaches
<1>1. ASSUME NEW s \in Schedules, Create(s) PROVE StopReaches'
  BY <1>1, SetStatusFacts DEF Create, New, SetTask, Save, NoRecord, TypeOK, Quiet
<1>2. ASSUME NEW s \in Schedules, CreateFails(s) PROVE StopReaches'
  BY <1>2, SetStatusFacts DEF CreateFails, New, NoRecord, TypeOK, Quiet
<1>3. ASSUME NEW s \in Schedules, UserStop(s) PROVE StopReaches'
  BY <1>3, SetStatusFacts DEF UserStop, TypeOK, Quiet
<1>4. ASSUME NEW s \in Schedules, Begin(s) PROVE StopReaches'
  BY <1>4, SetStatusFacts DEF Begin, SetTask, Pass, TypeOK, Quiet
<1>5. ASSUME NEW s \in Schedules, NeverBegin(s) PROVE StopReaches'
  BY <1>5, TaskEndsFacts DEF NeverBegin, TypeOK, Quiet
<1>6. ASSUME NEW s \in Schedules, Wake(s) PROVE StopReaches'
  BY <1>6 DEF Wake, SetTask, Pass, TypeOK, Quiet
<1>7. ASSUME NEW s \in Schedules, PassEnds(s) PROVE StopReaches'
  <2>1. ASSUME NEW status \in {"stopped", "error", "completed"}, task[s] \in InPass, Finish(s, status),
               status = "completed" => TimeIsUp(s)
        PROVE  StopReaches'
    BY <2>1, SetStatusFacts, TaskEndsFacts DEF Finish, TimeIsUp, TypeOK, Quiet
  <2>2. CASE PassSleeps(s)
    BY <2>2 DEF PassSleeps, SetTask, TimeIsUp, TypeOK, Quiet
  <2>3. CASE PassContainerGone(s)
    BY <2>1, <2>3 DEF PassContainerGone
  <2>4. CASE PassRaises(s)
    BY <2>1, <2>4 DEF PassRaises
  <2>5. CASE PassCompletes(s)
    BY <2>1, <2>5 DEF PassCompletes
  <2> QED  BY <1>7, <2>2, <2>3, <2>4, <2>5 DEF PassEnds
<1>8. ASSUME NEW s \in Schedules, Cancelled(s) PROVE StopReaches'
  BY <1>8, SetStatusFacts, TaskEndsFacts DEF Cancelled, TypeOK, Quiet
<1>9. ASSUME NEW s \in Schedules, CancelCallback(s) PROVE StopReaches'
  BY <1>9 DEF CancelCallback, TypeOK, Quiet
<1>10. ASSUME NEW s \in Schedules, Flush(s) PROVE StopReaches'
  BY <1>10 DEF Flush, TypeOK, Quiet
<1>11. ASSUME NEW s \in Schedules, Resume(s) PROVE StopReaches'
  BY <1>11, SetStatusFacts DEF Resume, ResumeTimeOut, ResumeTask, SetTask, Save, Elapsed, TypeOK, Quiet
<1>12. CASE BeginShutdown
  BY <1>12, InterruptFacts DEF BeginShutdown, Running, IsActive, TypeOK, Quiet
<1>13. CASE Exit
  BY <1>13 DEF Exit, ProcessEnds, Running, NoRecord, TypeOK, Quiet
<1>14. CASE Crash
  BY <1>14 DEF Crash, ProcessEnds, Running, NoRecord, TypeOK, Quiet
<1>15. CASE Load
  BY <1>15, InterruptFacts DEF Load, TypeOK, Quiet
<1>16. CASE Resumed \/ (\E s \in Schedules : DeleteContainer(s)) \/ Tick \/ UNCHANGED vars
  BY <1>16 DEF Resumed, DeleteContainer, Tick, vars, TypeOK, Quiet
<1> QED
  BY <1>1, <1>2, <1>3, <1>4, <1>5, <1>6, <1>7, <1>8, <1>9, <1>10, <1>11, <1>12, <1>13, <1>14, <1>15, <1>16
  DEF Next, ReliableNext, RequestNext, TaskNext
LEMMA KeptStep == Inv /\ [Next]_vars => Kept'
<1> SUFFICES ASSUME Inv, [Next]_vars PROVE Kept'
  OBVIOUS
<1> USE StatusNames DEF Inv, OnLoop, process, record, tasks, times, history, InPass, Resumable, ShownAsItIs, IsActive, CancelledNew, Kept
<1>1. ASSUME NEW s \in Schedules, Create(s) PROVE Kept'
  BY <1>1, SetStatusFacts DEF Create, New, SetTask, Save, NoRecord, TypeOK, Quiet
<1>2. ASSUME NEW s \in Schedules, CreateFails(s) PROVE Kept'
  BY <1>2, SetStatusFacts DEF CreateFails, New, NoRecord, TypeOK, Quiet
<1>3. ASSUME NEW s \in Schedules, UserStop(s) PROVE Kept'
  BY <1>3, SetStatusFacts DEF UserStop, TypeOK, Quiet
<1>4. ASSUME NEW s \in Schedules, Begin(s) PROVE Kept'
  BY <1>4, SetStatusFacts DEF Begin, SetTask, Pass, TypeOK, Quiet
<1>5. ASSUME NEW s \in Schedules, NeverBegin(s) PROVE Kept'
  BY <1>5, TaskEndsFacts DEF NeverBegin, TypeOK, Quiet
<1>6. ASSUME NEW s \in Schedules, Wake(s) PROVE Kept'
  BY <1>6 DEF Wake, SetTask, Pass, TypeOK, Quiet
<1>7. ASSUME NEW s \in Schedules, PassEnds(s) PROVE Kept'
  <2>1. ASSUME NEW status \in {"stopped", "error", "completed"}, task[s] \in InPass, Finish(s, status),
               status = "completed" => TimeIsUp(s)
        PROVE  Kept'
    BY <2>1, SetStatusFacts, TaskEndsFacts DEF Finish, TimeIsUp, TypeOK, Quiet
  <2>2. CASE PassSleeps(s)
    BY <2>2 DEF PassSleeps, SetTask, TimeIsUp, TypeOK, Quiet
  <2>3. CASE PassContainerGone(s)
    BY <2>1, <2>3 DEF PassContainerGone
  <2>4. CASE PassRaises(s)
    BY <2>1, <2>4 DEF PassRaises
  <2>5. CASE PassCompletes(s)
    BY <2>1, <2>5 DEF PassCompletes
  <2> QED  BY <1>7, <2>2, <2>3, <2>4, <2>5 DEF PassEnds
<1>8. ASSUME NEW s \in Schedules, Cancelled(s) PROVE Kept'
  BY <1>8, SetStatusFacts, TaskEndsFacts DEF Cancelled, TypeOK, Quiet
<1>9. ASSUME NEW s \in Schedules, CancelCallback(s) PROVE Kept'
  BY <1>9 DEF CancelCallback, TypeOK, Quiet
<1>10. ASSUME NEW s \in Schedules, Flush(s) PROVE Kept'
  BY <1>10 DEF Flush, TypeOK, Quiet
<1>11. ASSUME NEW s \in Schedules, Resume(s) PROVE Kept'
  BY <1>11, SetStatusFacts DEF Resume, ResumeTimeOut, ResumeTask, SetTask, Save, Elapsed, TypeOK, Quiet
<1>12. CASE BeginShutdown
  BY <1>12, InterruptFacts DEF BeginShutdown, Running, IsActive, TypeOK, Quiet
<1>13. CASE Exit
  BY <1>13 DEF Exit, ProcessEnds, Running, NoRecord, TypeOK, Quiet
<1>14. CASE Crash
  BY <1>14 DEF Crash, ProcessEnds, Running, NoRecord, TypeOK, Quiet
<1>15. CASE Load
  BY <1>15, InterruptFacts DEF Load, TypeOK, Quiet
<1>16. CASE Resumed \/ (\E s \in Schedules : DeleteContainer(s)) \/ Tick \/ UNCHANGED vars
  BY <1>16 DEF Resumed, DeleteContainer, Tick, vars, TypeOK, Quiet
<1> QED
  BY <1>1, <1>2, <1>3, <1>4, <1>5, <1>6, <1>7, <1>8, <1>9, <1>10, <1>11, <1>12, <1>13, <1>14, <1>15, <1>16
  DEF Next, ReliableNext, RequestNext, TaskNext
LEMMA OnItsWayStep == Inv /\ [Next]_vars => OnItsWay'
<1> SUFFICES ASSUME Inv, [Next]_vars PROVE OnItsWay'
  OBVIOUS
<1> USE StatusNames DEF Inv, OnLoop, process, record, tasks, times, history, InPass, Resumable, Begun, Kept, IsActive, OnItsWay
<1>1. ASSUME NEW s \in Schedules, Create(s) PROVE OnItsWay'
  BY <1>1, SetStatusFacts DEF Create, New, SetTask, Save, NoRecord, TypeOK, Quiet
<1>2. ASSUME NEW s \in Schedules, CreateFails(s) PROVE OnItsWay'
  BY <1>2, SetStatusFacts DEF CreateFails, New, NoRecord, TypeOK, Quiet
<1>3. ASSUME NEW s \in Schedules, UserStop(s) PROVE OnItsWay'
  BY <1>3, SetStatusFacts DEF UserStop, TypeOK, Quiet
<1>4. ASSUME NEW s \in Schedules, Begin(s) PROVE OnItsWay'
  BY <1>4, SetStatusFacts DEF Begin, SetTask, Pass, TypeOK, Quiet
<1>5. ASSUME NEW s \in Schedules, NeverBegin(s) PROVE OnItsWay'
  BY <1>5, TaskEndsFacts DEF NeverBegin, TypeOK, Quiet
<1>6. ASSUME NEW s \in Schedules, Wake(s) PROVE OnItsWay'
  BY <1>6 DEF Wake, SetTask, Pass, TypeOK, Quiet
<1>7. ASSUME NEW s \in Schedules, PassEnds(s) PROVE OnItsWay'
  <2>1. ASSUME NEW status \in {"stopped", "error", "completed"}, task[s] \in InPass, Finish(s, status),
               status = "completed" => TimeIsUp(s)
        PROVE  OnItsWay'
    BY <2>1, SetStatusFacts, TaskEndsFacts DEF Finish, TimeIsUp, TypeOK, Quiet
  <2>2. CASE PassSleeps(s)
    BY <2>2 DEF PassSleeps, SetTask, TimeIsUp, TypeOK, Quiet
  <2>3. CASE PassContainerGone(s)
    BY <2>1, <2>3 DEF PassContainerGone
  <2>4. CASE PassRaises(s)
    BY <2>1, <2>4 DEF PassRaises
  <2>5. CASE PassCompletes(s)
    BY <2>1, <2>5 DEF PassCompletes
  <2> QED  BY <1>7, <2>2, <2>3, <2>4, <2>5 DEF PassEnds
<1>8. ASSUME NEW s \in Schedules, Cancelled(s) PROVE OnItsWay'
  BY <1>8, SetStatusFacts, TaskEndsFacts DEF Cancelled, TypeOK, Quiet
<1>9. ASSUME NEW s \in Schedules, CancelCallback(s) PROVE OnItsWay'
  BY <1>9 DEF CancelCallback, TypeOK, Quiet
<1>10. ASSUME NEW s \in Schedules, Flush(s) PROVE OnItsWay'
  BY <1>10 DEF Flush, TypeOK, Quiet
<1>11. ASSUME NEW s \in Schedules, Resume(s) PROVE OnItsWay'
  BY <1>11, SetStatusFacts DEF Resume, ResumeTimeOut, ResumeTask, SetTask, Save, Elapsed, TypeOK, Quiet
<1>12. CASE BeginShutdown
  BY <1>12, InterruptFacts DEF BeginShutdown, Running, IsActive, TypeOK, Quiet
<1>13. CASE Exit
  BY <1>13 DEF Exit, ProcessEnds, Running, NoRecord, TypeOK, Quiet
<1>14. CASE Crash
  BY <1>14 DEF Crash, ProcessEnds, Running, NoRecord, TypeOK, Quiet
<1>15. CASE Load
  BY <1>15, InterruptFacts DEF Load, TypeOK, Quiet
<1>16. CASE Resumed \/ (\E s \in Schedules : DeleteContainer(s)) \/ Tick \/ UNCHANGED vars
  BY <1>16 DEF Resumed, DeleteContainer, Tick, vars, TypeOK, Quiet
<1> QED
  BY <1>1, <1>2, <1>3, <1>4, <1>5, <1>6, <1>7, <1>8, <1>9, <1>10, <1>11, <1>12, <1>13, <1>14, <1>15, <1>16
  DEF Next, ReliableNext, RequestNext, TaskNext

-----------------------------------------------------------------------------
LEMMA InvStep == Inv /\ [Next]_vars => Inv'
  BY TypeStep, QuietStep, TimeLeftStep, OnlyTimedStep, CompletedStep, CancelledNewStep,
     ShownStep, StopReachesStep, KeptStep, OnItsWayStep
  DEF Inv

LEMMA Invariance == Spec => []Inv
  BY InitInv, InvStep, PTL DEF Spec

\* Everything keeps its type, and a pass is on the loop exactly while it runs.
THEOREM TypeCorrect == Spec => []TypeOK
  BY Invariance, PTL DEF Inv

\* What a user stopped with stop_log_schedule uploads nothing more, over any
\* number of restarts, unless a crash came before the stop was saved.
THEOREM StopsHold == Spec => []StoppedStaysStopped
<1>1. Inv => StoppedStaysStopped
  BY DEF Inv, StopReaches, StoppedStaysStopped
<1> QED  BY <1>1, Invariance, PTL

\* A schedule that had begun when Habeny stopped or was killed is resumed by
\* resume_log_schedules, or its time was up.
THEOREM BegunAreResumed == Spec => []RunningResume
<1>1. Inv => RunningResume
  BY DEF Inv, OnItsWay, RunningResume
<1> QED  BY <1>1, Invariance, PTL

\* run_log_schedule and resume_log_schedules complete a schedule no earlier than
\* its duration after its creation.
THEOREM NoneTooEarly == Spec => []CompletedNotEarly
  BY Invariance, PTL DEF Inv

\* A schedule shown as running is one whose task runs, and the other way round.
THEOREM ShownTruly == Spec => []ShownAsItIs
  BY Invariance, PTL DEF Inv

=============================================================================
