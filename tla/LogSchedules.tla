---------------------------- MODULE LogSchedules ----------------------------
(***************************************************************************)
(* Recurring log uploads: asyncio tasks that share one event loop, their   *)
(* records, a stop signal that interrupts them and a start that resumes    *)
(* them for the time they had left.                                        *)
(*                                                                         *)
(* A pass uploads with blocking calls, so nothing else runs on the loop    *)
(* until it ends; the signal handler, the flush and other threads do. The  *)
(* handlers of requests run on the loop without a pause.                   *)
(*                                                                         *)
(* The rows follow the records in memory as in Records: saved at once when *)
(* put or resumed, and by a flush when changed in place.                   *)
(***************************************************************************)
EXTENDS Integers

CONSTANTS
    Schedules,      \* schedule ids, each for a container of its own
    Indefinite,     \* those without a duration
    Duration,       \* duration_seconds of the others
    MaxTime         \* bound: the clock stops here

ASSUME IndefiniteType == Indefinite \subseteq Schedules
ASSUME DurationType == Duration \in Nat \ {0}
ASSUME MaxTimeType == MaxTime \in Nat
ASSUME SchedulesAreNames == "idle" \notin Schedules /\ "starting" \notin Schedules

VARIABLES
    up,         \* the process runs
    stopping,   \* lifecycle.shutting_down()
    loop,       \* the event loop: "idle", "starting" (resume_log_schedules), or in a pass
    mem,        \* scheduled_log_tasks
    db,         \* its rows
    task,       \* the asyncio tasks
    cancelled,  \* tasks with a cancellation to be thrown into them
    calls,      \* task.cancel calls on their way to the loop (call_soon_threadsafe)
    toResume,   \* schedules resume_log_schedules has still to come to
    now,
    created,    \* created_at of the records  } 0 where nothing reads them:
    started,    \* start_time of the tasks    } without a duration, or
    budget,     \* their duration_seconds     } without a task
    deleted,    \* schedules whose container was deleted
    ended,      \* stopped by a user (history)
    forgotten,  \* ... whose stop was not saved before a crash (history)
    refused,    \* whose creation was answered with an error (history)
    owed,       \* had begun when Habeny stopped, and not resumed since (history)
    owedNew     \* the same, of tasks that had not begun (history)

record == <<mem, db>>
history == <<ended, forgotten, refused, owed, owedNew>>
times == <<now, created, started, budget>>
tasks == <<task, cancelled, calls>>
process == <<up, stopping, loop, toResume>>
vars == <<process, record, tasks, times, deleted, history>>

Active == {"starting", "running"}
Status == Active \cup {"none", "completed", "stopped", "error", "interrupted"}
Record == [status : Status, before : Active \cup {"none"}]
NoRecord == [status |-> "none", before |-> "none"]
Timed == Schedules \ Indefinite
InPass == {"uploading", "missing"}

TypeOK ==
    /\ up \in BOOLEAN
    /\ stopping \in BOOLEAN
    /\ loop \in Schedules \cup {"idle", "starting"}
    /\ mem \in [Schedules -> Record]
    /\ db \in [Schedules -> Record]
    /\ task \in [Schedules -> {"none", "created", "sleeping", "done"} \cup InPass]
    /\ cancelled \subseteq {s \in Schedules : task[s] \in {"created", "sleeping"}}
    /\ calls \subseteq Schedules
    /\ toResume \subseteq Schedules
    /\ now \in Nat
    /\ created \in [Schedules -> Nat]
    /\ started \in [Schedules -> Nat]
    /\ budget \in [Schedules -> Int]
    /\ deleted \subseteq Schedules
    /\ ended \subseteq Schedules
    /\ forgotten \subseteq Schedules
    /\ refused \subseteq Schedules
    /\ owed \subseteq Schedules
    /\ owedNew \subseteq Schedules
    /\ \A s \in Schedules : task[s] \in InPass <=> loop = s

Init ==
    /\ up = TRUE /\ stopping = FALSE /\ loop = "idle" /\ toResume = {}
    /\ mem = [s \in Schedules |-> NoRecord]
    /\ db = mem
    /\ task = [s \in Schedules |-> "none"]
    /\ cancelled = {} /\ calls = {}
    /\ now = 0
    /\ created = [s \in Schedules |-> 0]
    /\ started = [s \in Schedules |-> 0]
    /\ budget = [s \in Schedules |-> 0]
    /\ deleted = {}
    /\ ended = {} /\ forgotten = {} /\ refused = {} /\ owed = {} /\ owedNew = {}

OnLoop == up /\ loop = "idle"
SetStatus(s, status) == mem' = [mem EXCEPT ![s].status = status]
SetTask(s, state) == task' = [task EXCEPT ![s] = state]
IsActive(s) == mem[s].status \in Active
Elapsed(s) == now - created[s]
SetTime(f, s, time) == IF s \in Timed THEN [f EXCEPT ![s] = time] ELSE f

\* The task ends, and its local variables with it.
TaskEnds(s) ==
    /\ SetTask(s, "done")
    /\ started' = [started EXCEPT ![s] = 0]
    /\ budget' = [budget EXCEPT ![s] = 0]
    /\ UNCHANGED <<now, created>>

-----------------------------------------------------------------------------
(* Requests. One that passed the access check before the stop signal may    *)
(* still be handled after it.                                               *)

\* (Bound: early enough to end before the clock stops.)
New(s) ==
    /\ mem[s] = NoRecord /\ db[s] = NoRecord /\ s \notin deleted
    /\ s \in Timed => now + Duration <= MaxTime

\* schedule_log_upload: the record is saved, then the task is created.
Create(s) ==
    /\ OnLoop /\ New(s)
    /\ SetStatus(s, "starting")
    /\ db' = [db EXCEPT ![s].status = "starting"]
    /\ SetTask(s, "created")
    /\ created' = SetTime(created, s, now)
    /\ budget' = SetTime(budget, s, Duration)
    /\ UNCHANGED <<process, cancelled, calls, now, started, deleted, history>>

\* The row cannot be written: no task, an error is returned, and the record
\* stays in the dict.
CreateFails(s) ==
    /\ OnLoop /\ New(s)
    /\ SetStatus(s, "starting")
    /\ created' = SetTime(created, s, now)
    /\ refused' = refused \cup {s}
    /\ UNCHANGED <<process, db, tasks, now, started, budget, deleted,
                   ended, forgotten, owed, owedNew>>

\* Mutant of UserStop: the task is left running.
StopStatusOnly(s) ==
    /\ OnLoop /\ mem[s] # NoRecord
    /\ SetStatus(s, "stopped")
    /\ ended' = ended \cup {s}
    /\ owed' = owed \ {s}
    /\ owedNew' = owedNew \ {s}
    /\ UNCHANGED <<process, db, tasks, times, deleted, forgotten, refused>>

\* stop_log_schedule, in memory only.
UserStop(s) ==
    /\ OnLoop /\ mem[s] # NoRecord
    /\ SetStatus(s, "stopped")
    /\ cancelled' = IF task[s] \in {"created", "sleeping"} THEN cancelled \cup {s} ELSE cancelled
    /\ ended' = ended \cup {s}
    /\ owed' = owed \ {s}
    /\ owedNew' = owedNew \ {s}
    /\ UNCHANGED <<process, db, task, calls, times, deleted, forgotten, refused>>

-----------------------------------------------------------------------------
(* run_log_schedule *)

Pass(s) == IF s \in deleted THEN "missing" ELSE "uploading"

\* Mutant of Begin: a resumed task counts from where it started before.
BeginKeepingStart(s) ==
    /\ OnLoop /\ task[s] = "created" /\ s \notin cancelled
    /\ SetStatus(s, "running")
    /\ SetTask(s, Pass(s))
    /\ loop' = s
    /\ started' = SetTime(started, s, created[s])
    /\ UNCHANGED <<up, stopping, toResume, db, cancelled, calls, now, created, budget,
                   deleted, history>>

\* The first step sets the status, whatever it was, and the first pass starts.
Begin(s) ==
    /\ OnLoop /\ task[s] = "created" /\ s \notin cancelled
    /\ SetStatus(s, "running")
    /\ SetTask(s, Pass(s))
    /\ loop' = s
    /\ started' = SetTime(started, s, now)
    /\ UNCHANGED <<up, stopping, toResume, db, cancelled, calls, now, created, budget,
                   deleted, history>>

\* A task cancelled before its first step never runs.
NeverBegin(s) ==
    /\ OnLoop /\ task[s] = "created" /\ s \in cancelled
    /\ TaskEnds(s)
    /\ cancelled' = cancelled \ {s}
    /\ UNCHANGED <<process, record, calls, deleted, history>>

Wake(s) ==
    /\ OnLoop /\ task[s] = "sleeping" /\ s \notin cancelled
    /\ SetTask(s, Pass(s))
    /\ loop' = s
    /\ UNCHANGED <<up, stopping, toResume, record, cancelled, calls, times, deleted, history>>

\* The task ends with the pass, over whatever status the record has by now.
Finish(s, status) ==
    /\ SetStatus(s, status)
    /\ TaskEnds(s)
    /\ loop' = "idle"
    /\ owed' = owed \ {s}
    /\ owedNew' = owedNew \ {s}
    /\ UNCHANGED <<up, stopping, toResume, db, cancelled, calls, deleted,
                   ended, forgotten, refused>>

TimeIsUp(s) == s \in Timed /\ now - started[s] >= budget[s]

PassContainerGone(s) == task[s] = "missing" /\ Finish(s, "stopped")
PassRaises(s) == task[s] \in InPass /\ Finish(s, "error")
PassCompletes(s) == task[s] = "uploading" /\ TimeIsUp(s) /\ Finish(s, "completed")

PassSleeps(s) ==
    /\ task[s] = "uploading" /\ ~TimeIsUp(s)
    /\ SetTask(s, "sleeping")
    /\ loop' = "idle"
    /\ UNCHANGED <<up, stopping, toResume, record, cancelled, calls, times, deleted, history>>

\* Mutants of Cancelled: every cancellation is a user's; the status is left alone.
CancelledByUser(s) ==
    /\ OnLoop /\ task[s] = "sleeping" /\ s \in cancelled
    /\ SetStatus(s, "stopped")
    /\ TaskEnds(s)
    /\ cancelled' = cancelled \ {s}
    /\ UNCHANGED <<process, db, calls, deleted, history>>

\* except asyncio.CancelledError
Cancelled(s) ==
    /\ OnLoop /\ task[s] = "sleeping" /\ s \in cancelled
    /\ IF mem[s].status = "interrupted" THEN UNCHANGED mem ELSE SetStatus(s, "stopped")
    /\ TaskEnds(s)
    /\ cancelled' = cancelled \ {s}
    /\ UNCHANGED <<process, db, calls, deleted, history>>

-----------------------------------------------------------------------------
(* Stop and start *)

Running == {s \in Schedules : IsActive(s)}

\* interrupt_for_shutdown, in the signal handler: at any point of the loop.
BeginShutdown ==
    /\ up /\ ~stopping
    /\ stopping' = TRUE
    /\ mem' = [s \in Schedules |->
                 IF IsActive(s) THEN [status |-> "interrupted", before |-> mem[s].status] ELSE mem[s]]
    /\ calls' = calls \cup {s \in Running : task[s] \notin {"none", "done"}}
    /\ owed' = owed \cup {s \in Running : task[s] \notin {"none", "created"}}
    /\ owedNew' = owedNew \cup {s \in Running : task[s] = "created"}
    /\ UNCHANGED <<up, loop, toResume, db, task, cancelled, times, deleted,
                   ended, forgotten, refused>>

\* The call made by the signal handler comes after the first step of a task that
\* was ready before it.
CancelCallback(s) ==
    /\ OnLoop /\ s \in calls /\ task[s] # "created"
    /\ calls' = calls \ {s}
    /\ cancelled' = IF task[s] = "sleeping" THEN cancelled \cup {s} ELSE cancelled
    /\ UNCHANGED <<process, record, task, times, deleted, history>>

Flush(s) ==
    /\ up /\ db[s] # mem[s]
    /\ db' = [db EXCEPT ![s] = mem[s]]
    /\ UNCHANGED <<process, mem, tasks, times, deleted, history>>

ProcessEnds ==
    /\ up' = FALSE /\ stopping' = FALSE /\ loop' = "idle" /\ toResume' = {}
    /\ mem' = [s \in Schedules |-> NoRecord]
    /\ task' = [s \in Schedules |-> "none"]
    /\ cancelled' = {} /\ calls' = {}
    /\ started' = [s \in Schedules |-> 0]
    /\ budget' = [s \in Schedules |-> 0]
    /\ UNCHANGED <<now, created>>

\* The last flush, when what was ready on the loop has run.
Exit ==
    /\ OnLoop /\ stopping
    /\ calls = {} /\ cancelled = {} /\ \A s \in Schedules : task[s] # "created"
    /\ ProcessEnds
    /\ db' = mem
    /\ owed' = owed \cup {s \in Running : task[s] # "none"}
    /\ UNCHANGED <<deleted, ended, forgotten, refused, owedNew>>

Crash ==
    /\ up
    /\ ProcessEnds
    /\ forgotten' = forgotten \cup {s \in ended : db[s].status # "stopped"}
    /\ owed' = owed \cup {s \in Running : task[s] # "none"}
    /\ UNCHANGED <<db, deleted, ended, refused, owedNew>>

\* load: what was in progress is interrupted, and saved so.
Load ==
    /\ ~up
    /\ up' = TRUE /\ loop' = "starting"
    /\ db' = [s \in Schedules |->
                IF db[s].status \in Active THEN [status |-> "interrupted", before |-> db[s].status]
                ELSE db[s]]
    /\ mem' = db'
    /\ toResume' = {s \in Schedules : db'[s].status = "interrupted" /\ db'[s].before \in Active}
    /\ UNCHANGED <<stopping, tasks, times, deleted, history>>

Save(s) == db' = [db EXCEPT ![s] = mem'[s]]

ResumeTimeOut(s) ==
    /\ s \in Timed /\ Elapsed(s) >= Duration
    /\ SetStatus(s, "completed")
    /\ Save(s)
    /\ UNCHANGED <<task, budget>>

\* Mutant of ResumeTask: for the whole duration once more.
ResumeTaskAnew(s) ==
    /\ SetStatus(s, "starting")
    /\ Save(s)
    /\ SetTask(s, "created")
    /\ budget' = SetTime(budget, s, Duration)

ResumeTask(s) ==
    /\ s \in Timed => Elapsed(s) < Duration
    /\ SetStatus(s, "starting")
    /\ Save(s)
    /\ SetTask(s, "created")
    /\ budget' = SetTime(budget, s, Duration - Elapsed(s))

\* resume_log_schedules comes to the next one.
Resume(s) ==
    /\ up /\ loop = "starting" /\ s \in toResume
    /\ toResume' = toResume \ {s}
    /\ ResumeTimeOut(s) \/ ResumeTask(s)
    /\ owed' = owed \ {s}
    /\ owedNew' = owedNew \ {s}
    /\ UNCHANGED <<up, stopping, loop, cancelled, calls, now, created, started, deleted,
                   ended, forgotten, refused>>

Resumed ==
    /\ up /\ loop = "starting" /\ toResume = {}
    /\ loop' = "idle"
    /\ UNCHANGED <<up, stopping, toResume, record, tasks, times, deleted, history>>

-----------------------------------------------------------------------------
\* Through Habeny, or with the tools of LXC.
DeleteContainer(s) ==
    /\ s \notin deleted /\ mem[s] # NoRecord
    /\ deleted' = deleted \cup {s}
    /\ UNCHANGED <<process, record, tasks, times, history>>

\* (Bound: a task that has not begun is left the time to end.)
Tick ==
    /\ now < MaxTime
    /\ \A s \in Timed : task[s] = "created" => now + budget[s] < MaxTime
    /\ now' = now + 1
    /\ UNCHANGED <<process, record, tasks, created, started, budget, deleted, history>>

RequestNext(s) == Create(s) \/ UserStop(s)
PassEnds(s) == PassContainerGone(s) \/ PassRaises(s) \/ PassCompletes(s) \/ PassSleeps(s)
TaskNext(s) == Begin(s) \/ NeverBegin(s) \/ Wake(s) \/ PassEnds(s) \/ Cancelled(s)

ReliableNext ==
    \/ \E s \in Schedules :
          \/ RequestNext(s) \/ TaskNext(s) \/ CancelCallback(s) \/ Flush(s)
          \/ Resume(s) \/ DeleteContainer(s)
    \/ BeginShutdown \/ Exit \/ Crash \/ Load \/ Resumed \/ Tick

Next == ReliableNext \/ \E s \in Schedules : CreateFails(s)

Spec == Init /\ [][Next]_vars

\* The clock goes on (strong fairness, since its bound can hold it up); the loop
\* runs what is ready in turn, and a pass ends (its commands have timeouts); the
\* service manager starts Habeny again, which is not killed at each start before
\* it has resumed the schedules.
Fairness ==
    /\ SF_vars(Tick) /\ WF_vars(Load) /\ WF_vars(Resumed) /\ SF_vars(Exit)
    /\ \A s \in Schedules :
          /\ WF_vars(PassEnds(s)) /\ SF_vars(Resume(s))
          /\ SF_vars(Begin(s)) /\ SF_vars(Wake(s))
          /\ SF_vars(CancelCallback(s)) /\ SF_vars(Cancelled(s))

-----------------------------------------------------------------------------
(* Properties *)

Stopped(s) == task[s] \notin InPass /\ (up => mem[s].status = "stopped")

\* What a user stopped uploads nothing more and stays stopped, across restarts,
\* unless Habeny was killed before the stop was saved.
StoppedStaysStopped == \A s \in ended \ forgotten : Stopped(s)

\* After a start, every schedule that had begun when Habeny stopped or was
\* killed, and did not end meanwhile, has been resumed, or its time was up.
RunningResume == up /\ ~stopping /\ loop # "starting" => owed = {}

\* admin-guide.md: "log schedules resume by themselves for the time they had
\* left", those whose first step had not run when the signal came included.
SchedulesResume == up /\ ~stopping /\ loop # "starting" => owed \cup owedNew = {}

\* A schedule is completed when its duration has passed since its creation, not
\* before, over any number of restarts that each give it the time it has left.
CompletedNotEarly ==
    \A s \in Schedules :
        mem[s].status = "completed" \/ db[s].status = "completed" => Elapsed(s) >= Duration

\* A schedule shown as running has a task that runs, and a task that nothing
\* will cancel is of a schedule shown as running.
ShownAsItIs ==
    \A s \in Schedules :
        /\ task[s] = "done" => ~IsActive(s)
        /\ task[s] \in {"created", "sleeping"} \cup InPass /\ s \notin cancelled \cup calls => IsActive(s)

\* A schedule with a duration ends, whatever crashes and restarts come between,
\* if its creation succeeded.
TimedEnds ==
    \A s \in Timed :
        mem[s].status = "starting" /\ s \notin refused ~> mem[s].status \in {"completed", "stopped", "error"}
=============================================================================
