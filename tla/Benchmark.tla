------------------------------ MODULE Benchmark ------------------------------
(***************************************************************************)
(* Benchmarks: phases that deploy containers and then watch the server for *)
(* a while, stops by users, and what a restart finds.                      *)
(*                                                                         *)
(* run_benchmark is a coroutine that awaits only between two samples: it    *)
(* holds the loop while a phase deploys, so a stop comes in while it sleeps *)
(* or not at all.                                                          *)
(***************************************************************************)
EXTENDS Integers, FiniteSets

CONSTANTS
    Benchmarks,
    Phases,         \* number of phases
    MaxStarts       \* bound: starts of the process

ASSUME PhasesType == Phases \in Nat \ {0}
ASSUME MaxStartsType == MaxStarts \in Nat \ {0}

VARIABLES
    runs,           \* the process runs
    starts,         \* starts of the process so far
    row,            \* benchmarks.status
    memory,         \* active_benchmarks: the status in memory, or none
    task,           \* run_benchmark: waiting to run, in a phase, or none
    published,      \* benchmark.finished, as announced
    asked,          \* a stop was requested of the task (history)
    unsaved         \* the outcome could not be saved (history)

serverRuns == <<runs, starts>>
outcomes == <<published, asked, unsaved>>
benchmarkVars == <<serverRuns, row, memory, task, outcomes>>

NoTask == -2
Waiting == -1
None == "none"
Ended == {"completed", "aborted", "failed"}

BenchmarkTypeOK ==
    /\ runs \in BOOLEAN /\ starts \in 1 .. MaxStarts
    /\ row \in [Benchmarks -> Ended \cup {None, "running"}]
    /\ memory \in [Benchmarks -> Ended \cup {None, "running", "stopped"}]
    /\ task \in [Benchmarks -> NoTask .. Phases - 1]
    /\ published \in [Benchmarks -> Ended \cup {None}]
    /\ {asked, unsaved} \subseteq SUBSET Benchmarks

StartBenchmark(b) ==
    /\ runs /\ row[b] = None /\ task[b] = NoTask
    /\ task' = [task EXCEPT ![b] = Waiting]
    /\ UNCHANGED <<serverRuns, row, memory, outcomes>>

\* The end of run_benchmark; when the save or the summary raises, nothing after it happens.
Finish(b, s) ==
    /\ task' = [task EXCEPT ![b] = NoTask]
    /\ \/ /\ row' = [row EXCEPT ![b] = s]
          /\ memory' = [memory EXCEPT ![b] = None]
          /\ published' = [published EXCEPT ![b] = s]
          /\ UNCHANGED unsaved
       \/ /\ unsaved' = unsaved \cup {b}
          /\ row' = [row EXCEPT ![b] = "running"]
          /\ memory' = [memory EXCEPT ![b] = s]
          /\ UNCHANGED published

\* A phase begins, and its deployments are done; its first sample follows.
Enter(b, p) ==
    /\ task' = [task EXCEPT ![b] = p]
    /\ row' = [row EXCEPT ![b] = "running"]
    /\ memory' = [memory EXCEPT ![b] = "running"]
    /\ UNCHANGED <<published, unsaved>>

\* The phases from p on, up to the next sleep: one that lasts no time is over without any.
\* Too many deployments of a phase fail, or something raises.
PhasesFrom(b, p) ==
    \/ \E q \in p .. Phases - 1 : Enter(b, q)
    \/ p < Phases /\ \E s \in {"aborted", "failed"} : Finish(b, s)
    \/ Finish(b, "completed")

Begin(b) ==
    /\ task[b] = Waiting
    /\ PhasesFrom(b, 0)
    /\ UNCHANGED <<serverRuns, asked>>

\* The very first save raises.
BeginFails(b) ==
    /\ task[b] = Waiting
    /\ task' = [task EXCEPT ![b] = NoTask]
    /\ UNCHANGED <<serverRuns, row, memory, outcomes>>

\* Mutant of PhaseOver: the next phase begins before the stop is noticed.
PhaseOverOnly(b) ==
    /\ task[b] >= 0
    /\ PhasesFrom(b, task[b] + 1)
    /\ UNCHANGED <<serverRuns, asked>>

PhaseOver(b) ==
    /\ task[b] >= 0
    /\ IF memory[b] = "stopped" THEN Finish(b, "aborted") ELSE PhasesFrom(b, task[b] + 1)
    /\ UNCHANGED <<serverRuns, asked>>

\* The metrics of a sample could not be stored.
SampleRaises(b) ==
    /\ task[b] >= 0
    /\ Finish(b, "failed")
    /\ UNCHANGED <<serverRuns, asked>>

TaskNext(b) == Begin(b) \/ BeginFails(b) \/ PhaseOver(b) \/ SampleRaises(b)

-----------------------------------------------------------------------------
StopBenchmark(b) ==
    /\ runs
    /\ IF memory[b] # None
       THEN /\ memory' = [memory EXCEPT ![b] = "stopped"]
            /\ asked' = asked \cup {b}
            /\ UNCHANGED row
       ELSE /\ row[b] = "running"
            /\ row' = [row EXCEPT ![b] = "aborted"]
            /\ UNCHANGED <<memory, asked>>
    /\ UNCHANGED <<serverRuns, task, published, unsaved>>

\* Mutant of Cleaned.
CleanedNothing == row

\* cleanup_stale_benchmarks
Cleaned == [b \in Benchmarks |-> IF row[b] = "running" /\ memory[b] = None THEN "aborted" ELSE row[b]]

CleanUp ==
    /\ runs /\ row' = Cleaned
    /\ UNCHANGED <<serverRuns, memory, task, outcomes>>

BenchmarkRequests ==
    \/ \E b \in Benchmarks : StartBenchmark(b) \/ StopBenchmark(b)
    \/ CleanUp

-----------------------------------------------------------------------------
\* The tasks are cancelled or killed, and what is in memory is gone.
Down ==
    /\ runs /\ starts < MaxStarts
    /\ runs' = FALSE
    /\ task' = [b \in Benchmarks |-> NoTask]
    /\ memory' = [b \in Benchmarks |-> None]
    /\ UNCHANGED <<starts, row, outcomes>>

Up ==
    /\ ~runs /\ runs' = TRUE
    /\ starts' = starts + 1
    /\ row' = Cleaned
    /\ UNCHANGED <<memory, task, outcomes>>

BenchmarkInit ==
    /\ runs = TRUE /\ starts = 1
    /\ row = [b \in Benchmarks |-> None]
    /\ memory = [b \in Benchmarks |-> None]
    /\ task = [b \in Benchmarks |-> NoTask]
    /\ published = [b \in Benchmarks |-> None]
    /\ asked = {} /\ unsaved = {}

BenchmarkNext == BenchmarkRequests \/ (\E b \in Benchmarks : TaskNext(b)) \/ Down \/ Up

BenchmarkSpec == BenchmarkInit /\ [][BenchmarkNext]_benchmarkVars

\* Phases last a bounded time, and the service manager starts the process again.
BenchmarkFairness ==
    /\ \A b \in Benchmarks : WF_benchmarkVars(TaskNext(b))
    /\ WF_benchmarkVars(Up)

-----------------------------------------------------------------------------
(* Properties. *)

\* A benchmark that was asked to stop is not shown or announced as completed, though each
\* phase sets its status to running again (routes/benchmarks.py: stop_benchmark).
StopsAreHeeded == \A b \in asked : "completed" \notin {row[b], published[b]}

\* Whatever is shown as running ends, over crashes and restarts, unless its outcome could
\* not be saved (__init__.py: the clean-up at every start).
BenchmarksEnd == \A b \in Benchmarks : row[b] = "running" ~> row[b] # "running" \/ b \in unsaved
=============================================================================
