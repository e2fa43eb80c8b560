----------------------------- MODULE Deployment -----------------------------
(***************************************************************************)
(* Deploying containers, and what a stop, a crash and a restart do to a    *)
(* deployment in progress.                                                 *)
(*                                                                         *)
(* Actors: the request handler of each deployment (deploy_agents and the   *)
(* thread it runs run_deployment_workers in), the worker processes that    *)
(* each deploy one container, the container routes (list, start, stop,     *)
(* delete), the maintenance thread, and the process itself (stop signal,   *)
(* shutdown deadline, exit, crash, start).                                 *)
(*                                                                         *)
(* A deployment is identified by its deployment_id, which is fresh for     *)
(* each request; its names are <base>-0001, <base>-0002, ..., so two       *)
(* deployments with the same base name share names.                        *)
(***************************************************************************)
EXTENDS Integers, FiniteSets

CONSTANTS
    Containers,     \* container names
    Deployments,    \* deployment ids
    Names,          \* Names[d]: the names deployment d asks for
    Workers,        \* Workers[d]: worker_count(...) of deployment d
    MaxTracked      \* MAX_TRACKED_DEPLOYMENTS

ASSUME ContainersFinite == IsFiniteSet(Containers)
ASSUME DeploymentsFinite == IsFiniteSet(Deployments)
ASSUME NamesType == Names \in [Deployments -> SUBSET Containers]
ASSUME WorkersType == Workers \in [Deployments -> Nat \ {0}]
ASSUME MaxTrackedType == MaxTracked \in Nat

VARIABLES
    up,         \* the server process: "running", "stopping" (_stopping is set) or "down"
    overdue,    \* time_left() <= 0: the shutdown deadline has passed
    lxc,        \* what LXC holds under each name
    meta,       \* agents.lifecycle_status in the database ("none": NULL or no row)
    seen,       \* seen[c]: the state a listing read and has not yet written back
    job,        \* deployment_progress (while down: what the records table holds of it)
    pc,         \* where the handler of each deployment is
    queued,     \* run_deployment_workers: names not handed out yet
    pending,    \* ... submitted futures it waits for (while down: the ones cut off)
    done,       \* ... futures whose result is to be recorded in this iteration
    noted,      \* ... stop_noted
    broken,     \* ... its process pool lost a worker (BrokenProcessPool)
    succeeded,  \* ... names in `results` with success
    failed,     \* ... names in `results` without
    steps,      \* ... names with step messages waiting in progress_queue
    worker,     \* worker[d][c]: where the worker deploying c is
    result      \* result[d][c]: what that worker returned

handler == <<queued, pending, done, noted, broken, succeeded, failed>>
workers == <<steps, worker, result>>
vars == <<up, overdue, lxc, meta, seen, job, pc, handler, workers>>

-----------------------------------------------------------------------------
(* Values *)

LxcStates == {"absent", "STOPPED", "RUNNING"}
Lifecycle == {"none", "starting", "running", "stopped", "error", "interrupted"}
JobStatus == {"none", "running", "completed", "partial", "failed", "interrupted"}
StepStatus == {"none", "pending", "running", "success", "failed"}
Finals == {"success", "failed"}

Job == [status: JobStatus, containers: [Containers -> StepStatus],
        completed: Nat, successful: Nat, failed: Nat]

\* A record that deployment_progress does not hold.
NoJob == [status |-> "none", containers |-> [c \in Containers |-> "none"],
          completed |-> 0, successful |-> 0, failed |-> 0]

HandlerPCs == {"idle", "listing", "check", "cancel", "submit", "wait", "drain",
               "record", "finish", "raise", "done"}
InLoop == {"check", "cancel", "submit", "wait", "drain", "record"}
WorkerPCs == {"idle", "check", "create", "start", "install", "returned"}

\* A worker's result: whether it succeeded, and the lifecycle_status in its
\* metadata ("none": the except branch returns no metadata).
Result == [ok: BOOLEAN, meta: Lifecycle]
Bad(m) == [ok |-> FALSE, meta |-> m]

TypeOK ==
    /\ up \in {"running", "stopping", "down"}
    /\ overdue \in BOOLEAN
    /\ lxc \in [Containers -> LxcStates]
    /\ meta \in [Containers -> Lifecycle]
    /\ seen \in [Containers -> LxcStates]
    /\ job \in [Deployments -> Job]
    /\ pc \in [Deployments -> HandlerPCs]
    /\ queued \in [Deployments -> SUBSET Containers]
    /\ pending \in [Deployments -> SUBSET Containers]
    /\ done \in [Deployments -> SUBSET Containers]
    /\ noted \in [Deployments -> BOOLEAN]
    /\ broken \in [Deployments -> BOOLEAN]
    /\ succeeded \in [Deployments -> SUBSET Containers]
    /\ failed \in [Deployments -> SUBSET Containers]
    /\ steps \in [Deployments -> SUBSET Containers]
    /\ worker \in [Deployments -> [Containers -> WorkerPCs]]
    /\ result \in [Deployments -> [Containers -> Result]]

\* What a fresh process has of every deployment's loop and workers.
NoNames == [d \in Deployments |-> {}]
NoFlags == [d \in Deployments |-> FALSE]
NoWorkers == [d \in Deployments |-> [c \in Containers |-> "idle"]]
NoResults == [d \in Deployments |-> [c \in Containers |-> Bad("none")]]

Init ==
    /\ up = "running"
    /\ overdue = FALSE
    /\ lxc = [c \in Containers |-> "absent"]
    /\ meta = [c \in Containers |-> "none"]
    /\ seen = [c \in Containers |-> "absent"]
    /\ job = [d \in Deployments |-> NoJob]
    /\ pc = [d \in Deployments |-> "idle"]
    /\ queued = NoNames
    /\ pending = NoNames
    /\ done = NoNames
    /\ noted = NoFlags
    /\ broken = NoFlags
    /\ succeeded = NoNames
    /\ failed = NoNames
    /\ steps = NoNames
    /\ worker = NoWorkers
    /\ result = NoResults

-----------------------------------------------------------------------------
\* Deployments whose request is open.
Active == {d \in Deployments : pc[d] \notin {"idle", "done"}}

(* deployment_progress *)

Goto(d, l) == pc' = [pc EXCEPT ![d] = l]

\* progress_start's record of a new deployment.
NewJob == [NoJob EXCEPT !.status = "running"]

Tracked(j) == {d \in Deployments : j[d].status # "none"}

\* Mutant of Evicts: running records are dropped like finished ones.
EvictsAny(j, gone) ==
    /\ gone \subseteq Tracked(j)
    /\ Cardinality(gone) = IF Cardinality(Tracked(j)) <= MaxTracked THEN 0
                           ELSE Cardinality(Tracked(j)) - MaxTracked

\* progress_start: after the new record is in, finished ones are dropped until
\* at most MaxTracked are left or only running ones are. (Which finished ones,
\* the oldest in the code, is left open here.)
Evicts(j, gone) ==
    LET finished == {d \in Tracked(j) : j[d].status # "running"}
        excess == Cardinality(Tracked(j)) - MaxTracked
    IN  /\ gone \subseteq finished
        /\ Cardinality(gone) =
             IF excess <= 0 THEN 0
             ELSE IF excess <= Cardinality(finished) THEN excess ELSE Cardinality(finished)

Without(j, gone) == [d \in Deployments |-> IF d \in gone THEN NoJob ELSE j[d]]

\* progress_event with a status: the container's entry, and the counters when
\* the status is final. A deployment that is not tracked is left alone.
Event(j, c, status) ==
    IF j.status = "none" THEN j
    ELSE [status |-> j.status,
          containers |-> [j.containers EXCEPT ![c] = status],
          completed |-> j.completed + (IF status \in Finals THEN 1 ELSE 0),
          successful |-> j.successful + (IF status = "success" THEN 1 ELSE 0),
          failed |-> j.failed + (IF status = "failed" THEN 1 ELSE 0)]

\* progress_event for several names, with a status that is not final.
Events(j, names, status) ==
    IF j.status = "none" THEN j
    ELSE [j EXCEPT !.containers =
            [c \in Containers |-> IF c \in names THEN status ELSE j.containers[c]]]

\* progress_finish: sets the status and saves the record.
ProgressFinish(d, status) ==
    job' = [job EXCEPT ![d] = IF @.status = "none" THEN @ ELSE [@ EXCEPT !.status = status]]

-----------------------------------------------------------------------------
(* deploy_agents, until it hands over to run_deployment_workers *)

\* progress_start, then everything up to the first await. A refusal (license,
\* manager profile, validation, group) ends the request as "failed".
DeployRequest(d) ==
    /\ up = "running"
    /\ pc[d] = "idle"
    /\ \E gone \in SUBSET Deployments :
         LET started == [job EXCEPT ![d] = NewJob]
         IN  /\ Evicts(started, gone)
             /\ \/ /\ job' = Without(started, gone)
                   /\ Goto(d, "listing")
                \/ /\ job' = [Without(started, gone) EXCEPT ![d] = [NewJob EXCEPT !.status = "failed"]]
                   /\ Goto(d, "done")
    /\ UNCHANGED <<up, overdue, lxc, meta, seen, handler, workers>>

\* Mutant of Prepare: the names are not written as "starting".
PrepareUnmarked(d) ==
    /\ up # "down"
    /\ pc[d] = "listing"
    /\ job' = [job EXCEPT ![d] = Events(@, Names[d], "pending")]
    /\ queued' = [queued EXCEPT ![d] = Names[d]]
    /\ Goto(d, "check")
    /\ UNCHANGED <<up, overdue, lxc, meta, seen, pending, done, noted, broken,
                   succeeded, failed, workers>>

\* The awaited lxc.list_containers() is back: limits are checked, then every
\* name is queued and written to the database as "starting".
Prepare(d) ==
    /\ up # "down"
    /\ pc[d] = "listing"
    /\ job' = [job EXCEPT ![d] = Events(@, Names[d], "pending")]
    /\ meta' = [c \in Containers |-> IF c \in Names[d] THEN "starting" ELSE meta[c]]
    /\ queued' = [queued EXCEPT ![d] = Names[d]]
    /\ Goto(d, "check")
    /\ UNCHANGED <<up, overdue, lxc, seen, pending, done, noted, broken,
                   succeeded, failed, workers>>

\* ... or a limit is passed, or LXC does not answer.
PrepareRefused(d) ==
    /\ up # "down"
    /\ pc[d] = "listing"
    /\ ProgressFinish(d, "failed")
    /\ Goto(d, "done")
    /\ UNCHANGED <<up, overdue, lxc, meta, seen, handler, workers>>

-----------------------------------------------------------------------------
(* run_deployment_workers *)

\* persist_deploy_result: the metadata, when there is any, goes to the database;
\* a failing write is logged and forgotten.
Persist(c, r) ==
    \E m \in {r.meta, "none"} :
      meta' = IF m = "none" THEN meta ELSE [meta EXCEPT ![c] = m]

\* _record: persist the result, add it to `results`, report it.
Record(d, c, r) ==
    /\ Persist(c, r)
    /\ succeeded' = [succeeded EXCEPT ![d] = IF r.ok THEN @ \cup {c} ELSE @]
    /\ failed' = [failed EXCEPT ![d] = IF r.ok THEN @ ELSE @ \cup {c}]
    /\ job' = [job EXCEPT ![d] = Event(@, c, IF r.ok THEN "success" ELSE "failed")]

\* One iteration starts: has a stop begun?
LoopCheck(d) ==
    /\ up # "down"
    /\ pc[d] = "check"
    /\ noted' = [noted EXCEPT ![d] = @ \/ up = "stopping"]
    /\ Goto(d, IF up = "stopping" THEN "cancel" ELSE "submit")
    /\ UNCHANGED <<up, overdue, lxc, meta, seen, job, queued, pending, done,
                   broken, succeeded, failed, workers>>

\* A stop has: what is still queued is recorded as cancelled ...
Cancel(d, c) ==
    /\ up # "down"
    /\ pc[d] = "cancel"
    /\ c \in queued[d]
    /\ queued' = [queued EXCEPT ![d] = @ \ {c}]
    /\ Record(d, c, Bad("error"))
    /\ UNCHANGED <<up, overdue, lxc, seen, pc, pending, done, noted, broken, workers>>

\* Mutant of Abandon: the deadline is not looked at.
AbandonNever(d) ==
    /\ up # "down"
    /\ pc[d] = "cancel"
    /\ queued[d] = {}
    /\ Goto(d, "submit")
    /\ UNCHANGED <<up, overdue, lxc, meta, seen, job, handler, workers>>

\* ... and past the deadline, what is still running is given up.
Abandon(d) ==
    /\ up # "down"
    /\ pc[d] = "cancel"
    /\ queued[d] = {}
    /\ IF overdue
       THEN /\ done' = [done EXCEPT ![d] = pending[d]]
            /\ pending' = [pending EXCEPT ![d] = {}]
       ELSE UNCHANGED <<done, pending>>
    /\ Goto(d, "submit")
    /\ UNCHANGED <<up, overdue, lxc, meta, seen, job, queued, noted, broken,
                   succeeded, failed, workers>>

\* One container per free worker. submit() raises when the pool is broken.
Submit(d, c) ==
    /\ up # "down"
    /\ pc[d] = "submit"
    /\ c \in queued[d]
    /\ Cardinality(pending[d]) < Workers[d]
    /\ queued' = [queued EXCEPT ![d] = @ \ {c}]
    /\ IF broken[d]
       THEN Goto(d, "raise") /\ UNCHANGED <<pending, worker>>
       ELSE /\ pending' = [pending EXCEPT ![d] = @ \cup {c}]
            /\ worker' = [worker EXCEPT ![d][c] = "check"]
            /\ UNCHANGED pc
    /\ UNCHANGED <<up, overdue, lxc, meta, seen, job, done, noted, broken,
                   succeeded, failed, steps, result>>

Submitted(d) ==
    /\ up # "down"
    /\ pc[d] = "submit"
    /\ queued[d] = {} \/ Cardinality(pending[d]) >= Workers[d]
    /\ Goto(d, "wait")
    /\ UNCHANGED <<up, overdue, lxc, meta, seen, job, handler, workers>>

\* Mutant of Wait: only successful futures are collected.
WaitForSuccess(d) ==
    LET finished == {c \in pending[d] : worker[d][c] = "returned" /\ result[d][c].ok}
    IN  /\ up # "down"
        /\ pc[d] = "wait"
        /\ pending' = [pending EXCEPT ![d] = @ \ finished]
        /\ done' = [done EXCEPT ![d] = @ \cup finished]
        /\ Goto(d, "drain")
        /\ UNCHANGED <<up, overdue, lxc, meta, seen, job, queued, noted, broken,
                       succeeded, failed, workers>>

\* wait(pending, timeout=0.5): the futures that are done by now, maybe none.
Wait(d) ==
    LET finished == {c \in pending[d] : worker[d][c] = "returned"}
    IN  /\ up # "down"
        /\ pc[d] = "wait"
        /\ pending' = [pending EXCEPT ![d] = @ \ finished]
        /\ done' = [done EXCEPT ![d] = @ \cup finished]
        /\ Goto(d, "drain")
        /\ UNCHANGED <<up, overdue, lxc, meta, seen, job, queued, noted, broken,
                       succeeded, failed, workers>>

\* drain: the step messages that have arrived, before any result is recorded.
Drain(d) ==
    /\ up # "down"
    /\ pc[d] = "drain"
    /\ job' = [job EXCEPT ![d] = Events(@, steps[d], "running")]
    /\ steps' = [steps EXCEPT ![d] = {}]
    /\ Goto(d, "record")
    /\ UNCHANGED <<up, overdue, lxc, meta, seen, handler, worker, result>>

\* A future that is not done when its turn comes was running at the deadline.
FutureResult(d, c) ==
    IF worker[d][c] = "returned" THEN result[d][c] ELSE Bad("interrupted")

RecordDone(d, c) ==
    /\ up # "down"
    /\ pc[d] = "record"
    /\ c \in done[d]
    /\ done' = [done EXCEPT ![d] = @ \ {c}]
    /\ Record(d, c, FutureResult(d, c))
    /\ UNCHANGED <<up, overdue, lxc, seen, pc, queued, pending, noted, broken, workers>>

\* Mutant of LoopAgain: `while pending` instead of `while queued or pending`.
LoopWhilePending(d) ==
    /\ up # "down"
    /\ pc[d] = "record"
    /\ done[d] = {}
    /\ Goto(d, IF pending[d] = {} THEN "finish" ELSE "check")
    /\ UNCHANGED <<up, overdue, lxc, meta, seen, job, handler, workers>>

LoopAgain(d) ==
    /\ up # "down"
    /\ pc[d] = "record"
    /\ done[d] = {}
    /\ Goto(d, IF queued[d] = {} /\ pending[d] = {} THEN "finish" ELSE "check")
    /\ UNCHANGED <<up, overdue, lxc, meta, seen, job, handler, workers>>

Outcome(d) ==
    IF failed[d] = {} THEN "completed"
    ELSE IF succeeded[d] = {} THEN "failed" ELSE "partial"

\* Back in deploy_agents with the results ...
Finish(d) ==
    /\ up # "down"
    /\ pc[d] = "finish"
    /\ ProgressFinish(d, Outcome(d))
    /\ Goto(d, "done")
    /\ UNCHANGED <<up, overdue, lxc, meta, seen, handler, workers>>

\* ... or with the exception submit() raised: nothing more is recorded.
FinishRaised(d) ==
    /\ up # "down"
    /\ pc[d] = "raise"
    /\ ProgressFinish(d, "failed")
    /\ Goto(d, "done")
    /\ UNCHANGED <<up, overdue, lxc, meta, seen, handler, workers>>

-----------------------------------------------------------------------------
(* _deploy_container in a worker; it runs on until the process exits, also   *)
(* when its deployment has given it up                                       *)

WorkerStep(d, c, from, to) ==
    /\ up # "down"
    /\ worker[d][c] = from
    /\ worker' = [worker EXCEPT ![d][c] = to]
    /\ steps' = [steps EXCEPT ![d] = @ \cup {c}]
    /\ UNCHANGED <<up, overdue, meta, seen, job, pc, handler>>

Continues(d, c, from, to) == WorkerStep(d, c, from, to) /\ UNCHANGED result
Returns(d, c, from, r) ==
    WorkerStep(d, c, from, "returned") /\ result' = [result EXCEPT ![d][c] = r]

\* "Container already exists"
CheckExisting(d, c) ==
    /\ IF lxc[c] # "absent" THEN Returns(d, c, "check", Bad("error"))
                            ELSE Continues(d, c, "check", "create")
    /\ UNCHANGED lxc

\* Mutant of CreateContainer: its return value is not looked at.
CreateUnchecked(d, c) ==
    /\ lxc' = [lxc EXCEPT ![c] = IF @ = "absent" THEN "STOPPED" ELSE @]
    /\ Continues(d, c, "create", "start")

\* create() defines the container, or returns False: always when the name is
\* taken by now. (What LXC does is external; see README.)
CreateContainer(d, c) ==
    \/ /\ lxc[c] = "absent"
       /\ lxc' = [lxc EXCEPT ![c] = "STOPPED"]
       /\ Continues(d, c, "create", "start")
    \/ Returns(d, c, "create", Bad("error")) /\ UNCHANGED lxc

\* destroy(), whose answer the worker does not look at.
Destroy(c) == \E left \in {"absent", lxc[c]} : lxc' = [lxc EXCEPT ![c] = left]

\* Limits, network and config, then start(); when it returns False the
\* container is destroyed again.
StartContainer(d, c) ==
    \/ /\ lxc[c] # "absent"
       /\ lxc' = [lxc EXCEPT ![c] = "RUNNING"]
       /\ Continues(d, c, "start", "install")
    \/ /\ Destroy(c)
       /\ Returns(d, c, "start", Bad("error"))

\* The installer's verdict, and the state the container is in afterwards; an
\* unsupported SIEM type stops and destroys it.
InstallAgent(d, c) ==
    \/ /\ \E ok \in BOOLEAN :
            Returns(d, c, "install",
                    [ok |-> ok, meta |-> IF lxc[c] = "RUNNING" THEN "running" ELSE "stopped"])
       /\ UNCHANGED lxc
    \/ /\ Destroy(c)
       /\ Returns(d, c, "install", Bad("error"))

\* Any LXC call may raise (helper gone, timeout): the except branch returns no
\* metadata. A create() that timed out may still have made the container.
DeployRaises(d, c) ==
    /\ worker[d][c] \in {"check", "create", "start", "install"}
    /\ Returns(d, c, worker[d][c], Bad("none"))
    /\ \/ UNCHANGED lxc
       \/ /\ worker[d][c] = "create" /\ lxc[c] = "absent"
          /\ lxc' = [lxc EXCEPT ![c] = "STOPPED"]

WorkerNext(d, c) ==
    \/ CheckExisting(d, c)
    \/ CreateContainer(d, c)
    \/ StartContainer(d, c)
    \/ InstallAgent(d, c)
    \/ DeployRaises(d, c)

\* A worker process is killed: every pending future of the pool fails.
WorkerDies(d) ==
    /\ up # "down"
    /\ pc[d] \in InLoop
    /\ pending[d] # {}
    /\ ~broken[d]
    /\ broken' = [broken EXCEPT ![d] = TRUE]
    /\ LET lost == {c \in pending[d] : worker[d][c] # "returned"}
       IN  /\ lost # {}
           /\ worker' = [worker EXCEPT ![d] = [c \in Containers |-> IF c \in lost THEN "returned" ELSE @[c]]]
           /\ result' = [result EXCEPT ![d] = [c \in Containers |-> IF c \in lost THEN Bad("none") ELSE @[c]]]
    /\ UNCHANGED <<up, overdue, lxc, meta, seen, job, pc, queued, pending, done,
                   noted, succeeded, failed, steps>>

-----------------------------------------------------------------------------
(* Container routes *)

\* get_agent_info for one container of a listing: it reads the live state ...
ListRead(c) ==
    /\ up # "down"
    /\ lxc[c] # "absent"
    /\ seen[c] = "absent"
    /\ seen' = [seen EXCEPT ![c] = lxc[c]]
    /\ UNCHANGED <<up, overdue, lxc, meta, job, pc, handler, workers>>

\* ... and, after asking the container about its agent, stores it.
ListWrite(c) ==
    /\ up # "down"
    /\ seen[c] # "absent"
    /\ meta' = [meta EXCEPT ![c] = IF seen[c] = "RUNNING" THEN "running" ELSE "stopped"]
    /\ seen' = [seen EXCEPT ![c] = "absent"]
    /\ UNCHANGED <<up, overdue, lxc, job, pc, handler, workers>>

\* start_agent, stop_agent, delete_agent (and their bulk forms); destroy() may
\* return False after the container was stopped.
SetLxc(c, from, to) ==
    /\ up = "running"
    /\ lxc[c] \in from
    /\ lxc' = [lxc EXCEPT ![c] = to]
    /\ UNCHANGED <<up, overdue, meta, seen, job, pc, handler, workers>>

StartAgent(c) == SetLxc(c, {"STOPPED"}, "RUNNING")
StopAgent(c) == SetLxc(c, {"RUNNING"}, "STOPPED")
DeleteAgent(c) == SetLxc(c, {"STOPPED", "RUNNING"}, "absent")

-----------------------------------------------------------------------------
(* The process *)

BeginShutdown ==
    /\ up = "running"
    /\ up' = "stopping"
    /\ UNCHANGED <<overdue, lxc, meta, seen, job, pc, handler, workers>>

DeadlinePasses ==
    /\ up = "stopping"
    /\ ~overdue
    /\ overdue' = TRUE
    /\ UNCHANGED <<up, lxc, meta, seen, job, pc, handler, workers>>

\* A create() that the helper is busy with when its worker is killed still
\* completes.
Cut ==
    \E made \in SUBSET {c \in Containers : lxc[c] = "absent"
                         /\ \E d \in Deployments : worker[d][c] = "create"} :
      lxc' = [c \in Containers |-> IF c \in made THEN "STOPPED" ELSE lxc[c]]

\* What ends with the process: the loops, their workers, listings under way.
LoseMemory ==
    /\ up' = "down"
    /\ overdue' = FALSE
    /\ seen' = [c \in Containers |-> "absent"]
    /\ queued' = NoNames
    /\ done' = NoNames
    /\ noted' = NoFlags
    /\ broken' = NoFlags
    /\ succeeded' = NoNames
    /\ failed' = NoNames
    /\ steps' = NoNames
    /\ worker' = NoWorkers
    /\ result' = NoResults
    /\ pc' = [d \in Deployments |-> IF pc[d] = "idle" THEN "idle" ELSE "done"]

\* uvicorn leaves once the open requests are done. The service manager then
\* kills the workers that are left.
Exit ==
    /\ up = "stopping"
    /\ Active = {}
    /\ LoseMemory
    /\ Cut
    /\ UNCHANGED <<meta, job, pending>>

\* The process and its workers are gone.
Crash ==
    /\ up # "down"
    /\ LoseMemory
    /\ Cut
    /\ UNCHANGED <<meta, job, pending>>

\* PersistentStore.load: what was running is marked interrupted. A finished
\* record was saved with its status; a running one is there as progress_start
\* saved it (the flushes in between are in Records).
Loaded(j) == IF j.status = "running" THEN [NewJob EXCEPT !.status = "interrupted"] ELSE j

\* create_app: recover_interrupted_deployments, then load_persisted_state.
Start ==
    /\ up = "down"
    /\ up' = "running"
    /\ meta' = [c \in Containers |-> IF meta[c] = "starting" THEN "interrupted" ELSE meta[c]]
    /\ job' = [d \in Deployments |-> Loaded(job[d])]
    /\ pending' = NoNames
    /\ UNCHANGED <<overdue, lxc, seen, pc, queued, done, noted, broken, succeeded, failed, workers>>

-----------------------------------------------------------------------------
HandlerNext(d) ==
    \/ Prepare(d) \/ PrepareRefused(d)
    \/ LoopCheck(d) \/ Abandon(d) \/ Submitted(d) \/ Wait(d) \/ Drain(d) \/ LoopAgain(d)
    \/ \E c \in Containers : Cancel(d, c) \/ Submit(d, c) \/ RecordDone(d, c)
    \/ Finish(d) \/ FinishRaised(d)

DeployNext ==
    \E d \in Deployments :
       \/ DeployRequest(d)
       \/ HandlerNext(d)
       \/ WorkerDies(d)
       \/ \E c \in Containers : WorkerNext(d, c)

RouteNext ==
    \E c \in Containers :
       ListRead(c) \/ ListWrite(c) \/ StartAgent(c) \/ StopAgent(c) \/ DeleteAgent(c)

ProcessNext == BeginShutdown \/ DeadlinePasses \/ Exit \/ Crash \/ Start

Next == DeployNext \/ RouteNext \/ ProcessNext

Spec == Init /\ [][Next]_vars

\* Nobody lists, starts, stops or deletes containers meanwhile.
UndisturbedSpec == Init /\ [][DeployNext \/ ProcessNext]_vars

-----------------------------------------------------------------------------
(* Properties *)

\* The numbers of a progress record agree with its rows: `completed`,
\* `successful` and `failed` (incremented one by one in progress_event) are the
\* numbers of containers shown as finished, deployed and failed. It takes that
\* no container is recorded twice and that no late step message turns a
\* finished row back (drain runs before the results are recorded).
RowsWith(j, status) == {c \in Containers : j.containers[c] = status}
ProgressConsistent ==
    \A d \in Deployments :
       /\ job[d].successful = Cardinality(RowsWith(job[d], "success"))
       /\ job[d].failed = Cardinality(RowsWith(job[d], "failed"))
       /\ job[d].completed = job[d].successful + job[d].failed

\* A deployment that ends "completed" or "partial" has a result for every name
\* it was asked for, whatever was cancelled, abandoned or lost with a worker:
\* all of them deployed, or some and not others.
FinishedAccounted ==
    \A d \in Deployments :
       LET ok == RowsWith(job[d], "success")
           bad == RowsWith(job[d], "failed")
       IN  /\ job[d].status = "completed" => ok = Names[d]
           /\ job[d].status = "partial" => /\ ok \cup bad = Names[d]
                                           /\ ok # {} /\ bad # {}

\* At no time are more of a deployment's workers busy than worker_count allows,
\* also not when a stop abandons some of them.
Busy(d) == {c \in Containers : worker[d][c] \notin {"idle", "returned"}}
WorkersBounded == \A d \in Deployments : Cardinality(Busy(d)) <= Workers[d]

\* Once run_deployment_workers has noted the stop, it hands out nothing more.
NoneHandedOutOnceNoted ==
    [][\A d \in Deployments : noted[d] => pending'[d] \subseteq pending[d]]_vars

\* The next start marks as interrupted every container that was being deployed
\* when the process ended (recover_interrupted_deployments).
CutOffIsInterrupted ==
    [][Start => \A d \in Deployments : \A c \in pending[d] : meta'[c] = "interrupted"]_vars

\* While the process is up, a record says "running" exactly when its request is
\* open: eviction never drops a record in use, every way out of deploy_agents
\* finishes it, and a restart leaves none behind.
OpenIsRunning ==
    up # "down" => \A d \in Deployments : job[d].status = "running" <=> d \in Active

\* Two deployments never work inside the same container: the name was free when
\* one of them created it, and the other has been told so.
ExclusiveContainer ==
    \A c \in Containers :
      \A d, e \in Deployments :
        worker[d][c] \in {"start", "install"} /\ worker[e][c] \in {"start", "install"} => d = e

\* A stop ends, however long the containers in progress take: the loops run on
\* and the deadline comes. Nothing is assumed of the workers.
StopFairness ==
    /\ \A d \in Deployments : WF_vars(HandlerNext(d))
    /\ WF_vars(DeadlinePasses)
    /\ WF_vars(Exit)
StopEnds == up = "stopping" ~> up = "down"

\* A deployment request ends if each worker gets through its LXC calls.
WorkerFairness == \A d \in Deployments, c \in Containers : WF_vars(WorkerNext(d, c))
RequestEnds ==
    WorkerFairness => \A d \in Deployments : d \in Active ~> d \notin Active \/ up = "down"
=============================================================================
