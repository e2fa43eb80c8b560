----------------------------- MODULE Simulation -----------------------------
(***************************************************************************)
(* Simulations: attack runs, custom logs and syslog; a user's stop, the    *)
(* stop of the server, crashes and restarts; and the checks of what the    *)
(* SIEM detected.                                                          *)
(*                                                                         *)
(* An attack run is a coroutine that awaits a thread each second, a custom *)
(* run one that awaits a thread for its whole duration, and a syslog run a *)
(* thread. Requests and coroutines take turns on the loop between awaits;  *)
(* threads, the signal handler and the flush do not wait for it. The rows  *)
(* follow the records in memory as in Records.                             *)
(***************************************************************************)
EXTENDS Naturals

CONSTANTS
    Simulations,    \* simulation ids
    Duration        \* of a run, in seconds

ASSUME SimulationsAreIds == "idle" \notin Simulations /\ "closed" \notin Simulations
ASSUME DurationType == Duration \in Nat \ {0}

VARIABLES
    up,         \* the process runs
    stopping,   \* lifecycle.shutting_down()
    loop,       \* the event loop: "idle", "closed", or in the end of an attack run
    mem,        \* simulations_db: status, and status of the detection
    db,         \* its rows
    kind,       \* "attack", "custom" or "syslog"
    run,        \* where run_..._simulation is
    seconds,    \* traffic was sent for            } of a run in progress,
    wrote,      \* some of it arrived              } 0 and FALSE otherwise
    seen,       \* the status was read as running  }
    check,      \* run_detection_check, of the run itself and of a request
    told,       \* answered "stopped" to a user (history)
    refused,    \* whose start was answered with an error (history)
    announced,  \* the outcome announced; dropped if a crash comes before it is saved (history)
    cut,        \* in progress when the process ended (history)
    raised      \* whose last check ended without a result (history)

process == <<up, stopping, loop>>
record == <<mem, db>>
local == <<seconds, wrote, seen>>
history == <<told, refused, announced, cut, raised>>
vars == <<process, record, kind, run, local, check, history>>

Kinds == {"attack", "custom", "syslog"}
Final == {"completed", "failed", "stopped", "interrupted"}
Status == {"none", "running"} \cup Final
Detection == {"none", "waiting", "checking", "done", "error", "not_checked"}
Record == [status : Status, detection : Detection]
NoRecord == [status |-> "none", detection |-> "none"]
Sending == {"queued", "sending", "sleeping", "deciding"}
Checkers == {"run", "request"}

TypeOK ==
    /\ up \in BOOLEAN
    /\ stopping \in BOOLEAN
    /\ loop \in Simulations \cup {"idle", "closed"}
    /\ mem \in [Simulations -> Record]
    /\ db \in [Simulations -> Record]
    /\ kind \in [Simulations -> Kinds]
    /\ run \in [Simulations -> Sending \cup {"none", "waiting", "done"}]
    /\ seconds \in [Simulations -> 0 .. Duration]
    /\ wrote \in [Simulations -> BOOLEAN]
    /\ seen \in [Simulations -> BOOLEAN]
    /\ check \in [Simulations -> [Checkers -> {"none", "begun", "asking"}]]
    /\ told \subseteq Simulations
    /\ refused \subseteq Simulations
    /\ announced \in [Simulations -> {"none"} \cup Final]
    /\ cut \subseteq Simulations
    /\ raised \subseteq Simulations
    /\ \A s \in Simulations : loop = s <=> run[s] = "deciding" /\ kind[s] = "attack"

Init ==
    /\ up = TRUE /\ stopping = FALSE /\ loop = "idle"
    /\ mem = [s \in Simulations |-> NoRecord]
    /\ db = mem
    /\ kind \in [Simulations -> Kinds]
    /\ run = [s \in Simulations |-> "none"]
    /\ seconds = [s \in Simulations |-> 0]
    /\ wrote = [s \in Simulations |-> FALSE]
    /\ seen = [s \in Simulations |-> FALSE]
    /\ check = [s \in Simulations |-> [c \in Checkers |-> "none"]]
    /\ told = {} /\ refused = {} /\ cut = {} /\ raised = {}
    /\ announced = [s \in Simulations |-> "none"]

OnLoop == up /\ loop = "idle"
IsRunning(s) == mem[s].status = "running"
SetStatus(s, status) == mem' = [mem EXCEPT ![s].status = status]
SetRun(s, state) == run' = [run EXCEPT ![s] = state]

Outcome(s) == IF seen[s] THEN IF wrote[s] THEN "completed" ELSE "failed" ELSE mem[s].status

\* What the thread of a syslog run does between a read of its status and a write
\* of it on the main thread: it ends, or raises, and announces its own outcome.
MayEndMeanwhile(s) == kind[s] = "syslog" /\ run[s] \in {"sending", "deciding"} /\ IsRunning(s)
EndsMeanwhile(ended) ==
    /\ run' = [s \in Simulations |-> IF s \in ended THEN "done" ELSE run[s]]
    /\ seconds' = [s \in Simulations |-> IF s \in ended THEN 0 ELSE seconds[s]]
    /\ wrote' = [s \in Simulations |-> IF s \in ended THEN FALSE ELSE wrote[s]]
    /\ seen' = [s \in Simulations |-> IF s \in ended THEN FALSE ELSE seen[s]]
    /\ announced' = [s \in Simulations |->
          IF s \notin ended THEN announced[s] ELSE IF run[s] = "deciding" THEN Outcome(s) ELSE "failed"]

-----------------------------------------------------------------------------
(* Requests. One that passed the access check before the stop signal may    *)
(* still be handled after it.                                               *)

New(s) == s \notin refused /\ mem[s] = NoRecord /\ db[s] = NoRecord
NewRecord(plan) == [status |-> "running", detection |-> IF plan THEN "waiting" ELSE "none"]

\* start_simulation, load_simulation, start_syslog_simulation: saved as running,
\* and run after the response. Only an attack can have a detection check planned.
Start(s, plan) ==
    /\ OnLoop /\ New(s)
    /\ plan => kind[s] = "attack"
    /\ mem' = [mem EXCEPT ![s] = NewRecord(plan)]
    /\ db' = [db EXCEPT ![s] = NewRecord(plan)]
    /\ SetRun(s, "queued")
    /\ UNCHANGED <<process, kind, local, check, history>>

\* The row cannot be written: an error is returned, nothing runs, and the record
\* stays in the dict.
StartFails(s, plan) ==
    /\ OnLoop /\ New(s)
    /\ plan => kind[s] = "attack"
    /\ mem' = [mem EXCEPT ![s] = NewRecord(plan)]
    /\ refused' = refused \cup {s}
    /\ UNCHANGED <<process, db, kind, run, local, check, told, announced, cut, raised>>

\* stop_simulation
Stop(s) ==
    /\ OnLoop /\ IsRunning(s)
    /\ SetStatus(s, "stopped")
    /\ db' = [db EXCEPT ![s] = mem'[s]]
    /\ told' = told \cup {s}
    /\ UNCHANGED <<process, kind, run, local, check, refused, announced, cut, raised>>

\* ... while a syslog thread ends, after the status was read and before it is written.
StopMeanwhile(s) ==
    /\ OnLoop /\ MayEndMeanwhile(s)
    /\ SetStatus(s, "stopped")
    /\ db' = [db EXCEPT ![s] = mem'[s]]
    /\ told' = told \cup {s}
    /\ EndsMeanwhile({s})
    /\ UNCHANGED <<process, kind, check, refused, cut, raised>>

\* ... whose row cannot be written: an error is returned, the status stays.
StopFails(s) ==
    /\ OnLoop /\ IsRunning(s)
    /\ SetStatus(s, "stopped")
    /\ UNCHANGED <<process, db, kind, run, local, check, history>>

\* check_simulation_detection, for every kind of simulation; run in a thread.
\* (Bound: one request at a time for a simulation.)
RequestCheck(s) ==
    /\ OnLoop /\ mem[s].status \notin {"none", "running"}
    /\ check[s]["request"] = "none"
    /\ check' = [check EXCEPT ![s]["request"] = "begun"]
    /\ UNCHANGED <<process, record, kind, run, local, history>>

-----------------------------------------------------------------------------
(* Runs *)

\* The run is over: its variables are gone, its outcome is announced.
Ends(s, state) ==
    /\ SetRun(s, state)
    /\ seconds' = [seconds EXCEPT ![s] = 0]
    /\ wrote' = [wrote EXCEPT ![s] = FALSE]
    /\ seen' = [seen EXCEPT ![s] = FALSE]
    /\ announced' = [announced EXCEPT ![s] = mem'[s].status]

\* run_simulation: a second of traffic, in a thread.
AttackSends(s) ==
    /\ OnLoop /\ kind[s] = "attack" /\ run[s] \in {"queued", "sleeping"}
    /\ IsRunning(s) /\ seconds[s] < Duration
    /\ seconds' = [seconds EXCEPT ![s] = @ + 1]
    /\ SetRun(s, "sending")
    /\ UNCHANGED <<process, record, kind, wrote, seen, check, history>>

AttackSent(s, arrived) ==
    /\ OnLoop /\ kind[s] = "attack" /\ run[s] = "sending"
    /\ wrote' = [wrote EXCEPT ![s] = @ \/ arrived]
    /\ SetRun(s, "sleeping")
    /\ UNCHANGED <<process, record, kind, seconds, seen, check, history>>

\* Mutant of AttackOver: the loop goes on, without traffic, when the status is no
\* longer running.
AttackOverOnTime(s) ==
    /\ OnLoop /\ kind[s] = "attack" /\ run[s] \in {"queued", "sleeping"}
    /\ seconds[s] = Duration
    /\ seen' = [seen EXCEPT ![s] = IsRunning(s)]
    /\ SetRun(s, "deciding")
    /\ loop' = s
    /\ UNCHANGED <<up, stopping, record, kind, seconds, wrote, check, history>>

\* The time is up (a second of traffic may have taken longer), or the status
\* says so. It is read once more, and the signal may come right after that.
AttackOver(s) ==
    /\ OnLoop /\ kind[s] = "attack" /\ run[s] \in {"queued", "sleeping"}
    /\ seconds[s] > 0 \/ ~IsRunning(s)
    /\ seen' = [seen EXCEPT ![s] = IsRunning(s)]
    /\ SetRun(s, "deciding")
    /\ loop' = s
    /\ UNCHANGED <<up, stopping, record, kind, seconds, wrote, check, history>>

\* Mutant of AttackEnds: as it was before the loop honoured Stop.
AttackEndsCompleted(s) ==
    /\ loop = s
    /\ loop' = "idle"
    /\ SetStatus(s, IF wrote[s] THEN "completed" ELSE "failed")
    /\ Ends(s, "done")
    /\ UNCHANGED <<up, stopping, db, kind, check, told, refused, cut, raised>>

\* A run that completed waits to have the SIEM asked, if that was planned.
AttackEnds(s) ==
    /\ loop = s
    /\ loop' = "idle"
    /\ SetStatus(s, Outcome(s))
    /\ Ends(s, IF mem'[s] = [status |-> "completed", detection |-> "waiting"] THEN "waiting" ELSE "done")
    /\ UNCHANGED <<up, stopping, db, kind, check, told, refused, cut, raised>>

\* run_custom_log_simulation: the whole run in threads, whatever the status, also
\* over a user's stop (which is why StopHolds is about attack runs).
CustomSends(s) ==
    /\ OnLoop /\ kind[s] = "custom" /\ run[s] = "queued"
    /\ SetRun(s, "sending")
    /\ UNCHANGED <<process, record, kind, local, check, history>>

CustomEnds(s) ==
    /\ OnLoop /\ kind[s] = "custom" /\ run[s] = "sending"
    /\ \E status \in {"completed", "failed"} : SetStatus(s, status)
    /\ Ends(s, "done")
    /\ UNCHANGED <<process, db, kind, check, told, refused, cut, raised>>

\* run_syslog_simulation, called in a thread.
SyslogBegins(s) ==
    /\ OnLoop /\ kind[s] = "syslog" /\ run[s] = "queued"
    /\ SetRun(s, "sending")
    /\ UNCHANGED <<process, record, kind, local, check, history>>

\* Mutant of SyslogSends: one second too many.
SyslogSendsOneMore(s, arrived) ==
    /\ up /\ kind[s] = "syslog" /\ run[s] = "sending"
    /\ IsRunning(s) /\ seconds[s] <= Duration
    /\ seconds' = [seconds EXCEPT ![s] = @ + 1]
    /\ wrote' = [wrote EXCEPT ![s] = @ \/ arrived]
    /\ UNCHANGED <<process, record, kind, run, seen, check, history>>

SyslogSends(s, arrived) ==
    /\ up /\ kind[s] = "syslog" /\ run[s] = "sending"
    /\ IsRunning(s) /\ seconds[s] < Duration
    /\ seconds' = [seconds EXCEPT ![s] = @ + 1]
    /\ wrote' = [wrote EXCEPT ![s] = @ \/ arrived]
    /\ UNCHANGED <<process, record, kind, run, seen, check, history>>

\* The status is read once more, and a stop may come right after that.
SyslogOver(s) ==
    /\ up /\ kind[s] = "syslog" /\ run[s] = "sending"
    /\ seconds[s] = Duration \/ ~IsRunning(s)
    /\ seen' = [seen EXCEPT ![s] = IsRunning(s)]
    /\ SetRun(s, "deciding")
    /\ UNCHANGED <<process, record, kind, seconds, wrote, check, history>>

SyslogEnds(s) ==
    /\ up /\ kind[s] = "syslog" /\ run[s] = "deciding"
    /\ SetStatus(s, Outcome(s))
    /\ Ends(s, "done")
    /\ UNCHANGED <<process, db, kind, check, told, refused, cut, raised>>

\* An exception: failed, whatever the status was.
Raises(s) ==
    /\ run[s] = "sending" /\ up
    /\ kind[s] # "syslog" => OnLoop
    /\ SetStatus(s, "failed")
    /\ Ends(s, "done")
    /\ UNCHANGED <<process, db, kind, check, told, refused, cut, raised>>

-----------------------------------------------------------------------------
(* Checks of what the SIEM detected                                         *)

SetDetection(s, status) == mem' = [mem EXCEPT ![s].detection = status]
SetCheck(s, c, state) == check' = [check EXCEPT ![s][c] = state]
Saved(s) == db' = [db EXCEPT ![s] = mem'[s]]
MayBeSaved(s) == Saved(s) \/ UNCHANGED db

\* _check_detection_later: the delay is over.
DelayOver(s) ==
    /\ OnLoop /\ run[s] = "waiting"
    /\ SetRun(s, "done")
    /\ SetCheck(s, "run", "begun")
    /\ UNCHANGED <<process, record, kind, local, history>>

\* ... or the server is stopping.
DelayCutShort(s) ==
    /\ OnLoop /\ run[s] = "waiting" /\ stopping
    /\ SetRun(s, "done")
    /\ SetDetection(s, "not_checked")
    /\ MayBeSaved(s)
    /\ UNCHANGED <<process, kind, local, check, history>>

\* run_detection_check, in a thread. The manager's detection API may be gone.
NotConfigured(s, c) ==
    /\ up /\ check[s][c] = "begun"
    /\ SetDetection(s, "error")
    /\ MayBeSaved(s)
    /\ SetCheck(s, c, "none")
    /\ UNCHANGED <<process, kind, run, local, history>>

Mark(s, c) ==
    /\ up /\ check[s][c] = "begun"
    /\ SetDetection(s, "checking")
    /\ Saved(s)
    /\ SetCheck(s, c, "asking")
    /\ raised' = raised \ {s}
    /\ UNCHANGED <<process, kind, run, local, told, refused, announced, cut>>

\* The row cannot be written: the exception ends the check.
MarkFails(s, c) ==
    /\ up /\ check[s][c] = "begun"
    /\ SetDetection(s, "checking")
    /\ SetCheck(s, c, "none")
    /\ raised' = raised \cup {s}
    /\ UNCHANGED <<process, db, kind, run, local, told, refused, announced, cut>>

\* Mutant of Answered: an error is not recorded.
AnsweredQuietly(s, c) ==
    /\ up /\ check[s][c] = "asking"
    /\ SetDetection(s, "done") \/ UNCHANGED mem
    /\ MayBeSaved(s)
    /\ SetCheck(s, c, "none")
    /\ UNCHANGED <<process, kind, run, local, history>>

\* The SIEM's answer, or a DetectionError.
Answered(s, c) ==
    /\ up /\ check[s][c] = "asking"
    /\ \E status \in {"done", "error"} : SetDetection(s, status)
    /\ MayBeSaved(s)
    /\ SetCheck(s, c, "none")
    /\ UNCHANGED <<process, kind, run, local, history>>

\* Any other exception, such as a refused connection to a plain http address.
AskingRaises(s, c) ==
    /\ up /\ check[s][c] = "asking"
    /\ SetCheck(s, c, "none")
    /\ raised' = raised \cup {s}
    /\ UNCHANGED <<process, record, kind, run, local, told, refused, announced, cut>>

-----------------------------------------------------------------------------
(* Stop and start *)

\* interrupt_running_simulations, in the signal handler: at any point of the loop.
BeginShutdown ==
    /\ up /\ ~stopping
    /\ stopping' = TRUE
    /\ mem' = [s \in Simulations |-> IF IsRunning(s) THEN [mem[s] EXCEPT !.status = "interrupted"] ELSE mem[s]]
    /\ \E ended \in SUBSET {s \in Simulations : MayEndMeanwhile(s)} : EndsMeanwhile(ended)
    /\ UNCHANGED <<up, loop, db, kind, check, told, refused, cut, raised>>

Flush(s) ==
    /\ up /\ db[s] # mem[s]
    /\ db' = [db EXCEPT ![s] = mem[s]]
    /\ UNCHANGED <<process, mem, kind, run, local, check, history>>

InProgress(s) == run[s] \in Sending
CutOff(s) == InProgress(s) /\ mem[s].status \in {"running", "interrupted"}
OnItsOwnThread(s) == kind[s] = "syslog" /\ run[s] \in {"sending", "deciding"}
LeftOf(f, default) == [s \in Simulations |-> IF OnItsOwnThread(s) THEN f[s] ELSE default]

\* No request is open, or the time is up: the open ones are cancelled, and their
\* runs with them; the last flush. Threads go on until the process ends.
LoopCloses ==
    /\ OnLoop /\ stopping
    /\ loop' = "closed"
    /\ db' = mem
    /\ cut' = cut \cup {s \in Simulations : CutOff(s) /\ ~OnItsOwnThread(s)}
    /\ run' = LeftOf(run, "done")
    /\ seconds' = LeftOf(seconds, 0)
    /\ wrote' = LeftOf(wrote, FALSE)
    /\ seen' = LeftOf(seen, FALSE)
    /\ UNCHANGED <<up, stopping, mem, kind, check, told, refused, announced, raised>>

\* The process ends, after LoopCloses or killed at any time.
ProcessEnds ==
    /\ up
    /\ up' = FALSE /\ stopping' = FALSE /\ loop' = "idle"
    /\ mem' = [s \in Simulations |-> NoRecord]
    /\ run' = [s \in Simulations |-> "none"]
    /\ seconds' = [s \in Simulations |-> 0]
    /\ wrote' = [s \in Simulations |-> FALSE]
    /\ seen' = [s \in Simulations |-> FALSE]
    /\ check' = [s \in Simulations |-> [c \in Checkers |-> "none"]]
    /\ cut' = cut \cup {s \in Simulations : CutOff(s)}
    /\ announced' = [s \in Simulations |-> IF mem[s].status = db[s].status THEN announced[s] ELSE "none"]
    /\ raised' = {}
    /\ UNCHANGED <<db, kind, told, refused>>

\* Mutant of Recovered: a run that was cut off is left as it was.
RecoveredCheckOnly(row) ==
    [row EXCEPT !.detection = IF @ \in {"waiting", "checking"} THEN "not_checked" ELSE @]

Recovered(row) ==
    [status |-> IF row.status = "running" THEN "interrupted" ELSE row.status,
     detection |-> IF row.detection \in {"waiting", "checking"} THEN "not_checked" ELSE row.detection]

Load ==
    /\ ~up
    /\ up' = TRUE
    /\ mem' = [s \in Simulations |-> Recovered(db[s])]
    /\ db' = mem'
    /\ UNCHANGED <<stopping, loop, kind, run, local, check, history>>

-----------------------------------------------------------------------------
RequestNext(s) ==
    \/ \E plan \in BOOLEAN : Start(s, plan) \/ StartFails(s, plan)
    \/ Stop(s) \/ StopMeanwhile(s) \/ StopFails(s) \/ RequestCheck(s)

AttackNext(s) ==
    \/ AttackSends(s) \/ AttackOver(s) \/ AttackEnds(s)
    \/ \E arrived \in BOOLEAN : AttackSent(s, arrived)
CustomNext(s) == CustomSends(s) \/ CustomEnds(s)
SyslogNext(s) ==
    \/ SyslogBegins(s) \/ SyslogOver(s) \/ SyslogEnds(s)
    \/ \E arrived \in BOOLEAN : SyslogSends(s, arrived)
RunNext(s) == AttackNext(s) \/ CustomNext(s) \/ SyslogNext(s) \/ Raises(s)

CheckNext(s, c) ==
    NotConfigured(s, c) \/ Mark(s, c) \/ MarkFails(s, c) \/ Answered(s, c) \/ AskingRaises(s, c)

Next ==
    \/ \E s \in Simulations :
          \/ RequestNext(s) \/ RunNext(s) \/ DelayOver(s) \/ DelayCutShort(s) \/ Flush(s)
          \/ \E c \in Checkers : CheckNext(s, c)
    \/ BeginShutdown \/ LoopCloses \/ ProcessEnds \/ Load

Spec == Init /\ [][Next]_vars

\* The loop runs what is ready in turn; a second of traffic, a script and a
\* search have timeouts; once the loop is closed the process ends.
Fairness ==
    /\ WF_vars(loop = "closed" /\ ProcessEnds)
    /\ \A s \in Simulations :
          /\ WF_vars(RunNext(s)) /\ WF_vars(DelayOver(s))
          /\ \A c \in Checkers : WF_vars(CheckNext(s, c))

-----------------------------------------------------------------------------
(* Properties *)

\* An attack run that a user was told is stopped is never completed or
\* interrupted after that, by its own last second, the signal, a crash or a restart.
StopHolds ==
    \A s \in told : up /\ kind[s] = "attack" => mem[s].status \in {"stopped", "failed"}

\* What was announced is what is shown from then on, also after a restart, unless
\* a crash came before it was saved. (A syslog run ends beside the main thread,
\* which may be about to stop or interrupt it: that is then shown.)
Shown(s) == (IF up THEN mem[s] ELSE db[s]).status
AnnouncedIsShown ==
    \A s \in Simulations : announced[s] # "none" =>
        Shown(s) \in {announced[s]} \cup (IF kind[s] = "syslog" THEN {"stopped", "interrupted"} ELSE {})

\* A simulation is shown as running only while its run is in progress, if it was
\* started without an error.
RunningIsInProgress ==
    \A s \in Simulations \ refused : up /\ loop # "closed" /\ IsRunning(s) => InProgress(s)

\* admin-guide.md: "Anything that was running when Habeny stopped is shown as
\* interrupted", at whatever point the stop or the crash came.
CutOffIsInterrupted ==
    \A s \in cut : up /\ loop # "closed" => mem[s].status = "interrupted"

\* "Checking" is shown only while the SIEM is being asked, over any number of
\* checks at once and restarts, unless the last one ended with an exception that
\* is not a DetectionError.
CheckingIsAsked ==
    \A s \in Simulations \ raised :
        up /\ mem[s].detection = "checking" => \E c \in Checkers : check[s][c] = "asking"

\* Every run ends.
RunsEnd == \A s \in Simulations : InProgress(s) ~> ~InProgress(s)

\* A check that is due is made, or it is said that it was not.
ChecksSettle ==
    \A s \in Simulations :
        run[s] = "waiting" \/ mem[s].detection = "checking"
            ~> mem[s].detection \notin {"waiting", "checking"} \/ s \in raised \/ ~up

=============================================================================
