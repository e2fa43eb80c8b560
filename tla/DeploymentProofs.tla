-------------------------- MODULE DeploymentProofs --------------------------
(***************************************************************************)
(* Deployment, for any number of containers, deployments and workers:      *)
(* type correctness; where the names of a deployment are at each point of  *)
(* run_deployment_workers and who may still send step messages; how the    *)
(* progress records account for their deployments; and that no two workers *)
(* are inside the same container.                                          *)
(***************************************************************************)
EXTENDS Deployment, FiniteSetTheorems, TLAPS

-----------------------------------------------------------------------------
(* Type correctness *)

\* The operators that build progress records build records.
LEMMA JobFacts ==
    /\ NoJob \in Job
    /\ NewJob \in Job
    /\ \A j \in Job : Loaded(j) \in Job
    /\ \A j \in Job, s \in JobStatus : [j EXCEPT !.status = s] \in Job
    /\ \A j \in Job, c \in Containers, s \in StepStatus : Event(j, c, s) \in Job
    /\ \A j \in Job, names \in SUBSET Containers, s \in StepStatus : Events(j, names, s) \in Job
<1>1. NoJob \in Job
  BY DEF NoJob, Job, JobStatus, StepStatus
<1>2. \A j \in Job, s \in JobStatus : [j EXCEPT !.status = s] \in Job
  BY DEF Job
<1>3. NewJob \in Job
  BY <1>1, <1>2 DEF NewJob, JobStatus
<1>4. \A j \in Job : Loaded(j) \in Job
  BY <1>2, <1>3 DEF Loaded, JobStatus
<1>5. \A j \in Job, c \in Containers, s \in StepStatus : Event(j, c, s) \in Job
  <2> SUFFICES ASSUME NEW j \in Job, NEW c \in Containers, NEW s \in StepStatus,
                      j.status # "none"
               PROVE  Event(j, c, s) \in Job
    BY DEF Event
  <2>1. [j.containers EXCEPT ![c] = s] \in [Containers -> StepStatus]
    BY DEF Job
  <2> QED  BY <2>1 DEF Event, Job, Finals
<1>6. \A j \in Job, names \in SUBSET Containers, s \in StepStatus : Events(j, names, s) \in Job
  BY DEF Events, Job
<1> QED  BY <1>1, <1>2, <1>3, <1>4, <1>5, <1>6

LEMMA ResultFacts ==
    /\ \A m \in Lifecycle : Bad(m) \in Result
    /\ \A r \in Result : r.meta \in Lifecycle /\ r.ok \in BOOLEAN
BY DEF Bad, Result

\* Record keeps the types of what it changes.
LEMMA RecordType ==
    ASSUME TypeOK, NEW d \in Deployments, NEW c \in Containers, NEW r \in Result, Record(d, c, r)
    PROVE  /\ meta' \in [Containers -> Lifecycle]
           /\ succeeded' \in [Deployments -> SUBSET Containers]
           /\ failed' \in [Deployments -> SUBSET Containers]
           /\ job' \in [Deployments -> Job]
<1>1. meta' \in [Containers -> Lifecycle]
  BY ResultFacts DEF Record, Persist, TypeOK
<1>2. Event(job[d], c, IF r.ok THEN "success" ELSE "failed") \in Job
  BY JobFacts DEF TypeOK, StepStatus
<1> QED  BY <1>1, <1>2 DEF Record, TypeOK

\* The worker steps keep the types, given a result of the right form.
LEMMA ReturnsType ==
    ASSUME TypeOK, NEW d \in Deployments, NEW c \in Containers, NEW from, NEW r \in Result,
           Returns(d, c, from, r), lxc' \in [Containers -> LxcStates]
    PROVE  TypeOK'
BY DEF Returns, WorkerStep, TypeOK, handler, WorkerPCs

LEMMA ContinuesType ==
    ASSUME TypeOK, NEW d \in Deployments, NEW c \in Containers, NEW from, NEW to \in WorkerPCs,
           Continues(d, c, from, to), lxc' \in [Containers -> LxcStates]
    PROVE  TypeOK'
BY DEF Continues, WorkerStep, TypeOK, handler

LEMMA WorkerType ==
    ASSUME TypeOK, NEW d \in Deployments, NEW c \in Containers, WorkerNext(d, c)
    PROVE  TypeOK'
<1>1. Bad("error") \in Result /\ Bad("none") \in Result
  BY ResultFacts DEF Lifecycle
<1>2. CASE CheckExisting(d, c)
  BY <1>1, <1>2, ReturnsType, ContinuesType DEF CheckExisting, TypeOK, WorkerPCs
<1>3. CASE CreateContainer(d, c)
  BY <1>1, <1>3, ReturnsType, ContinuesType, ZenonT(30) DEF CreateContainer, TypeOK, WorkerPCs, LxcStates
<1>4. CASE StartContainer(d, c)
  <2>1. lxc' \in [Containers -> LxcStates]
    BY <1>4 DEF StartContainer, Destroy, TypeOK, LxcStates
  <2> QED  BY <1>1, <1>4, <2>1, ReturnsType, ContinuesType DEF StartContainer, WorkerPCs
<1>5. CASE InstallAgent(d, c)
  <2>1. lxc' \in [Containers -> LxcStates]
    BY <1>5 DEF InstallAgent, Destroy, TypeOK, LxcStates
  <2>2. \A ok \in BOOLEAN :
          [ok |-> ok, meta |-> IF lxc[c] = "RUNNING" THEN "running" ELSE "stopped"] \in Result
    BY DEF Result, Lifecycle
  <2> QED  BY <1>1, <1>5, <2>1, <2>2, ReturnsType DEF InstallAgent
<1>6. CASE DeployRaises(d, c)
  <2>1. lxc' \in [Containers -> LxcStates]
    BY <1>6 DEF DeployRaises, TypeOK, LxcStates
  <2> QED  BY <1>1, <1>6, <2>1, ReturnsType DEF DeployRaises
<1> QED  BY <1>2, <1>3, <1>4, <1>5, <1>6 DEF WorkerNext

LEMMA FinishType ==
    ASSUME TypeOK, NEW d \in Deployments, NEW s \in JobStatus, ProgressFinish(d, s)
    PROVE  job' \in [Deployments -> Job]
BY JobFacts DEF ProgressFinish, TypeOK

LEMMA RequestType ==
    ASSUME TypeOK, NEW d \in Deployments, DeployRequest(d)
    PROVE  TypeOK'
<1>1. PICK gone \in SUBSET Deployments :
        LET started == [job EXCEPT ![d] = NewJob]
        IN  \/ job' = Without(started, gone) /\ Goto(d, "listing")
            \/ /\ job' = [Without(started, gone) EXCEPT ![d] = [NewJob EXCEPT !.status = "failed"]]
               /\ Goto(d, "done")
  BY DEF DeployRequest
<1>2. [NewJob EXCEPT !.status = "failed"] \in Job
  BY JobFacts DEF JobStatus
<1>3. Without([job EXCEPT ![d] = NewJob], gone) \in [Deployments -> Job]
  BY JobFacts DEF Without, TypeOK
<1>4. job' \in [Deployments -> Job]
  BY <1>1, <1>2, <1>3
<1>5. pc' \in [Deployments -> HandlerPCs]
  BY <1>1 DEF Goto, TypeOK, HandlerPCs
<1> QED  BY <1>4, <1>5 DEF DeployRequest, TypeOK, handler, workers

LEMMA HandlerType ==
    ASSUME TypeOK, NEW d \in Deployments, HandlerNext(d)
    PROVE  TypeOK'
<1> USE DEF Goto, handler, workers, HandlerPCs
<1>1. CASE Prepare(d)
  <2>1. Events(job[d], Names[d], "pending") \in Job
    BY NamesType, JobFacts DEF TypeOK, StepStatus
  <2> QED  BY NamesType, <1>1, <2>1 DEF Prepare, TypeOK, Lifecycle
<1>2. CASE PrepareRefused(d)
  BY <1>2, FinishType DEF PrepareRefused, TypeOK, JobStatus
<1>3. CASE LoopCheck(d)
  BY <1>3 DEF LoopCheck, TypeOK
<1>4. CASE Abandon(d)
  BY <1>4 DEF Abandon, TypeOK
<1>5. CASE Submitted(d)
  BY <1>5 DEF Submitted, TypeOK
<1>6. CASE Wait(d)
  BY <1>6 DEF Wait, TypeOK
<1>7. CASE Drain(d)
  <2>1. Events(job[d], steps[d], "running") \in Job
    BY JobFacts DEF TypeOK, StepStatus
  <2> QED  BY <1>7, <2>1 DEF Drain, TypeOK
<1>8. CASE LoopAgain(d)
  BY <1>8 DEF LoopAgain, TypeOK
<1>9. ASSUME NEW c \in Containers, Cancel(d, c) PROVE TypeOK'
  <2>1. Bad("error") \in Result
    BY ResultFacts DEF Lifecycle
  <2> QED  BY <1>9, <2>1, RecordType DEF Cancel, TypeOK
<1>10. ASSUME NEW c \in Containers, Submit(d, c) PROVE TypeOK'
  <2>1. worker' \in [Deployments -> [Containers -> WorkerPCs]]
    <3>1. CASE broken[d]
      BY <1>10, <3>1 DEF Submit, TypeOK
    <3>2. CASE ~broken[d]
      <4>1. worker' = [worker EXCEPT ![d][c] = "check"]
        BY <1>10, <3>2 DEF Submit
      <4> QED  BY <4>1 DEF TypeOK, WorkerPCs
    <3> QED  BY <3>1, <3>2
  <2>2. pending' \in [Deployments -> SUBSET Containers] /\ pc' \in [Deployments -> HandlerPCs]
    <3>1. CASE broken[d]
      BY <1>10, <3>1 DEF Submit, TypeOK
    <3>2. CASE ~broken[d]
      <4>1. pending' = [pending EXCEPT ![d] = @ \cup {c}] /\ pc' = pc
        BY <1>10, <3>2 DEF Submit
      <4> QED  BY <4>1 DEF TypeOK
    <3> QED  BY <3>1, <3>2
  <2> QED  BY <1>10, <2>1, <2>2 DEF Submit, TypeOK
<1>11. ASSUME NEW c \in Containers, RecordDone(d, c) PROVE TypeOK'
  <2>1. FutureResult(d, c) \in Result
    BY ResultFacts DEF FutureResult, TypeOK, Lifecycle
  <2> QED  BY <1>11, <2>1, RecordType DEF RecordDone, TypeOK
<1>12. CASE Finish(d)
  BY <1>12, FinishType DEF Finish, TypeOK, Outcome, JobStatus
<1>13. CASE FinishRaised(d)
  BY <1>13, FinishType DEF FinishRaised, TypeOK, JobStatus
<1> QED
  BY <1>1, <1>2, <1>3, <1>4, <1>5, <1>6, <1>7, <1>8, <1>9, <1>10, <1>11, <1>12, <1>13
     DEF HandlerNext

LEMMA WorkerDiesType ==
    ASSUME TypeOK, NEW d \in Deployments, WorkerDies(d)
    PROVE  TypeOK'
<1>1. Bad("none") \in Result
  BY ResultFacts DEF Lifecycle
<1> QED  BY <1>1 DEF WorkerDies, TypeOK, WorkerPCs

LEMMA RouteType == ASSUME TypeOK, RouteNext PROVE TypeOK'
<1> PICK c \in Containers :
       ListRead(c) \/ ListWrite(c) \/ StartAgent(c) \/ StopAgent(c) \/ DeleteAgent(c)
  BY DEF RouteNext
<1> USE DEF TypeOK, handler, workers, LxcStates, Lifecycle
<1>1. CASE ListRead(c)
  BY <1>1 DEF ListRead
<1>2. CASE ListWrite(c)
  BY <1>2 DEF ListWrite
<1>3. ASSUME NEW from, NEW to \in LxcStates, SetLxc(c, from, to) PROVE TypeOK'
  <2>1. lxc' \in [Containers -> LxcStates]
    BY <1>3 DEF SetLxc
  <2> QED  BY <1>3, <2>1 DEF SetLxc
<1>4. CASE StartAgent(c)
  BY <1>3, <1>4 DEF StartAgent
<1>5. CASE StopAgent(c)
  BY <1>3, <1>5 DEF StopAgent
<1>6. CASE DeleteAgent(c)
  BY <1>3, <1>6 DEF DeleteAgent
<1> QED  BY <1>1, <1>2, <1>4, <1>5, <1>6

\* What a process that ended leaves has its type.
LEMMA EndType ==
    ASSUME TypeOK, LoseMemory, Cut, UNCHANGED <<meta, job, pending>>
    PROVE  TypeOK'
<1>1. Bad("none") \in Result
  BY ResultFacts DEF Lifecycle
<1>2. lxc' \in [Containers -> LxcStates]
  BY DEF Cut, TypeOK, LxcStates
<1> QED  BY <1>1, <1>2 DEF LoseMemory, TypeOK, NoNames, NoFlags, NoWorkers, NoResults,
                           LxcStates, WorkerPCs, HandlerPCs

LEMMA ProcessType == ASSUME TypeOK, ProcessNext PROVE TypeOK'
<1>1. CASE BeginShutdown
  BY <1>1 DEF BeginShutdown, TypeOK, handler, workers
<1>2. CASE DeadlinePasses
  BY <1>2 DEF DeadlinePasses, TypeOK, handler, workers
<1>3. CASE Exit \/ Crash
  BY <1>3, EndType DEF Exit, Crash
<1>4. CASE Start
  <2>1. job' \in [Deployments -> Job]
    BY <1>4, JobFacts DEF Start, TypeOK
  <2> QED  BY <1>4, <2>1 DEF Start, TypeOK, workers, NoNames, Lifecycle
<1> QED  BY <1>1, <1>2, <1>3, <1>4 DEF ProcessNext

LEMMA InitType == Init => TypeOK
<1>1. NoJob \in Job /\ Bad("none") \in Result
  BY JobFacts, ResultFacts DEF Lifecycle
<1>2. NoFlags \in [Deployments -> BOOLEAN]
  BY DEF NoFlags
<1>3. NoNames \in [Deployments -> SUBSET Containers]
  BY DEF NoNames
<1>4. NoWorkers \in [Deployments -> [Containers -> WorkerPCs]]
  BY DEF NoWorkers, WorkerPCs
<1>5. NoResults \in [Deployments -> [Containers -> Result]]
  BY <1>1 DEF NoResults
<1>6. [c \in Containers |-> "absent"] \in [Containers -> LxcStates]
  BY DEF LxcStates
<1>7. [c \in Containers |-> "none"] \in [Containers -> Lifecycle]
  BY DEF Lifecycle
<1>8. [d \in Deployments |-> NoJob] \in [Deployments -> Job]
  BY <1>1
<1>9. [d \in Deployments |-> "idle"] \in [Deployments -> HandlerPCs]
  BY DEF HandlerPCs
<1> QED  BY <1>2, <1>3, <1>4, <1>5, <1>6, <1>7, <1>8, <1>9, ZenonT(30) DEF Init, TypeOK

LEMMA StepType == TypeOK /\ [Next]_vars => TypeOK'
<1> SUFFICES ASSUME TypeOK, [Next]_vars PROVE TypeOK'
  OBVIOUS
<1>1. CASE DeployNext
  BY <1>1, RequestType, HandlerType, WorkerDiesType, WorkerType DEF DeployNext
<1>2. CASE RouteNext \/ ProcessNext
  BY <1>2, RouteType, ProcessType
<1>3. CASE UNCHANGED vars
  BY <1>3 DEF vars, handler, workers, TypeOK
<1> QED  BY <1>1, <1>2, <1>3 DEF Next

\* Every state of the deployment model has the types its variables are meant
\* to have, for any set of containers, deployments and workers.
THEOREM TypeCorrect == Spec => []TypeOK
BY InitType, StepType, PTL DEF Spec

-----------------------------------------------------------------------------
(* Where names are, and who may still report. *)

\* Names whose result is still to be recorded.
Open(d) == queued[d] \cup pending[d] \cup done[d]

\* Abandoned: nothing is left to do but to record `done`.
LastRound(d) == queued[d] = {} /\ pending[d] = {}

\* Before run_deployment_workers starts there is nothing of the loop.
NotBegun(d) ==
    pc[d] \in {"idle", "listing"} =>
      /\ queued[d] = {} /\ pending[d] = {} /\ done[d] = {}
      /\ succeeded[d] = {} /\ failed[d] = {} /\ steps[d] = {}
      /\ Busy(d) = {} /\ noted[d] = FALSE

\* In the loop each name is in one place.
OnePlace(d) ==
    pc[d] \in InLoop =>
      /\ queued[d] \cap pending[d] = {}
      /\ queued[d] \cap done[d] = {}
      /\ pending[d] \cap done[d] = {}
      /\ pc[d] \in {"check", "cancel"} => done[d] = {}

\* Who may still send step messages: a future the loop waits for, or one it has
\* given up; and the latter only when no drain comes after its record.
Messengers(d) ==
    pc[d] \in InLoop =>
      /\ pc[d] # "record" => Busy(d) \cup steps[d] \subseteq pending[d] \cup done[d]
      /\ pc[d] \in {"submit", "wait"} => done[d] = {} \/ LastRound(d)
      /\ pc[d] = "drain" => done[d] \cap Busy(d) = {} \/ LastRound(d)
      /\ pc[d] = "record" => Busy(d) \cup steps[d] \subseteq pending[d] \/ LastRound(d)

\* After a stop is noted the queue is emptied before anything is submitted.
NotedEmpties(d) == noted[d] => pc[d] = "cancel" \/ queued[d] = {}

LoopInv(d) == NotBegun(d) /\ OnePlace(d) /\ Messengers(d) /\ NotedEmpties(d)

\* What LoopInv(d) speaks of.
LoopState(d) == <<pc[d], queued[d], pending[d], done[d], succeeded[d], failed[d],
                  steps[d], worker[d], noted[d]>>

LEMMA LoopFrame ==
    ASSUME NEW d \in Deployments, LoopInv(d), UNCHANGED LoopState(d)
    PROVE  LoopInv(d)'
BY DEF LoopInv, LoopState, NotBegun, OnePlace, Messengers, NotedEmpties, LastRound, Busy

\* Only d's own part of the loop's variables changes.
OthersKept(d) == \A e \in Deployments \ {d} : UNCHANGED LoopState(e)

LEMMA HandlerOthers ==
    ASSUME TypeOK, NEW d \in Deployments, HandlerNext(d)
    PROVE  OthersKept(d)
<1> SUFFICES ASSUME NEW e \in Deployments, e # d PROVE UNCHANGED LoopState(e)
  BY DEF OthersKept
<1> USE DEF LoopState, Goto, handler, workers, TypeOK
<1>1. CASE Prepare(d) \/ PrepareRefused(d)
  BY <1>1 DEF Prepare, PrepareRefused
<1>2. CASE LoopCheck(d) \/ Abandon(d) \/ Submitted(d)
  BY <1>2 DEF LoopCheck, Abandon, Submitted
<1>3. CASE Wait(d) \/ Drain(d) \/ LoopAgain(d)
  BY <1>3 DEF Wait, Drain, LoopAgain
<1>4. ASSUME NEW c \in Containers, Cancel(d, c) PROVE UNCHANGED LoopState(e)
  BY <1>4 DEF Cancel, Record
<1>5. ASSUME NEW c \in Containers, Submit(d, c) PROVE UNCHANGED LoopState(e)
  <2>1. CASE broken[d]
    BY <1>5, <2>1 DEF Submit
  <2>2. CASE ~broken[d]
    BY <1>5, <2>2 DEF Submit
  <2> QED  BY <2>1, <2>2
<1>6. ASSUME NEW c \in Containers, RecordDone(d, c) PROVE UNCHANGED LoopState(e)
  BY <1>6 DEF RecordDone, Record
<1>7. CASE Finish(d) \/ FinishRaised(d)
  BY <1>7 DEF Finish, FinishRaised
<1> QED  BY <1>1, <1>2, <1>3, <1>4, <1>5, <1>6, <1>7 DEF HandlerNext

\* The handler's own steps.
LEMMA HandlerLoop ==
    ASSUME TypeOK, NEW d \in Deployments, LoopInv(d), HandlerNext(d)
    PROVE  LoopInv(d)'
<1> USE DEF LoopInv, NotBegun, OnePlace, Messengers, NotedEmpties, LastRound, Busy, InLoop,
            Goto, handler, workers, TypeOK
<1>1. CASE Prepare(d)
  BY <1>1 DEF Prepare
<1>2. CASE PrepareRefused(d)
  BY <1>2 DEF PrepareRefused
<1>3. CASE LoopCheck(d)
  BY <1>3 DEF LoopCheck
<1>4. CASE Abandon(d)
  <2>1. CASE overdue
    BY <1>4, <2>1 DEF Abandon
  <2>2. CASE ~overdue
    BY <1>4, <2>2 DEF Abandon
  <2> QED  BY <2>1, <2>2
<1>5. CASE Submitted(d)
  BY <1>5 DEF Submitted
<1>6. CASE Wait(d)
  BY <1>6 DEF Wait
<1>7. CASE Drain(d)
  BY <1>7 DEF Drain
<1>8. CASE LoopAgain(d)
  BY <1>8 DEF LoopAgain
<1>9. ASSUME NEW c \in Containers, Cancel(d, c) PROVE LoopInv(d)'
  BY <1>9 DEF Cancel, Record
<1>10. ASSUME NEW c \in Containers, Submit(d, c) PROVE LoopInv(d)'
  <2>1. CASE broken[d]
    BY <1>10, <2>1 DEF Submit
  <2>2. CASE ~broken[d]
    BY <1>10, <2>2 DEF Submit
  <2> QED  BY <2>1, <2>2
<1>11. ASSUME NEW c \in Containers, RecordDone(d, c) PROVE LoopInv(d)'
  BY <1>11 DEF RecordDone, Record
<1>12. CASE Finish(d) \/ FinishRaised(d)
  BY <1>12 DEF Finish, FinishRaised
<1> QED
  BY <1>1, <1>2, <1>3, <1>4, <1>5, <1>6, <1>7, <1>8, <1>9, <1>10, <1>11, <1>12 DEF HandlerNext

\* A worker's step: it was busy, and sends a message.
LEMMA WorkerShape ==
    ASSUME TypeOK, NEW d \in Deployments, NEW c \in Containers, WorkerNext(d, c)
    PROVE  /\ c \in Busy(d)
           /\ \E to \in WorkerPCs : worker' = [worker EXCEPT ![d][c] = to]
           /\ steps' = [steps EXCEPT ![d] = @ \cup {c}]
           /\ UNCHANGED <<up, overdue, meta, seen, job, pc, handler>>
<1> USE DEF WorkerPCs, Continues, Returns, WorkerStep, Busy
<1>1. CASE CheckExisting(d, c)
  BY <1>1 DEF CheckExisting
<1>2. CASE CreateContainer(d, c)
  BY <1>2 DEF CreateContainer
<1>3. CASE StartContainer(d, c)
  BY <1>3 DEF StartContainer
<1>4. CASE InstallAgent(d, c)
  BY <1>4 DEF InstallAgent
<1>5. CASE DeployRaises(d, c)
  BY <1>5 DEF DeployRaises
<1> QED  BY <1>1, <1>2, <1>3, <1>4, <1>5 DEF WorkerNext

LEMMA WorkerLoop ==
    ASSUME TypeOK, NEW d \in Deployments, NEW c \in Containers, WorkerNext(d, c),
           NEW e \in Deployments, LoopInv(e)
    PROVE  LoopInv(e)'
<1>1. CASE e # d
  BY <1>1, WorkerShape, LoopFrame DEF LoopState, handler, TypeOK
<1>2. CASE e = d
  <2>1. PICK to \in WorkerPCs : worker' = [worker EXCEPT ![d][c] = to]
    BY WorkerShape
  <2>2. Busy(d)' \subseteq Busy(d) /\ c \in Busy(d)
    BY <2>1, WorkerShape DEF Busy, TypeOK
  <2>3. steps'[d] = steps[d] \cup {c}
    BY WorkerShape DEF TypeOK
  <2> QED
    BY <1>2, <2>2, <2>3, WorkerShape
       DEF LoopInv, NotBegun, OnePlace, Messengers, NotedEmpties, LastRound, handler
<1> QED  BY <1>1, <1>2

LEMMA WorkerDiesLoop ==
    ASSUME TypeOK, NEW d \in Deployments, WorkerDies(d), NEW e \in Deployments, LoopInv(e)
    PROVE  LoopInv(e)'
<1>1. CASE e # d
  BY <1>1, LoopFrame DEF WorkerDies, LoopState, TypeOK
<1>2. CASE e = d
  <2>1. Busy(d)' \subseteq Busy(d)
    BY DEF WorkerDies, Busy, TypeOK
  <2> QED
    BY <1>2, <2>1 DEF WorkerDies, LoopInv, NotBegun, OnePlace, Messengers, NotedEmpties, LastRound, InLoop
<1> QED  BY <1>1, <1>2

LEMMA RequestLoop ==
    ASSUME TypeOK, NEW d \in Deployments, DeployRequest(d), NEW e \in Deployments, LoopInv(e)
    PROVE  LoopInv(e)'
<1>1. pc' = [pc EXCEPT ![d] = "listing"] \/ pc' = [pc EXCEPT ![d] = "done"]
  BY DEF DeployRequest, Goto
<1>2. UNCHANGED <<handler, workers>> /\ pc[d] = "idle"
  BY DEF DeployRequest
<1>3. CASE e # d
  BY <1>1, <1>2, <1>3, LoopFrame DEF LoopState, handler, workers, TypeOK
<1>4. CASE e = d
  BY <1>1, <1>2, <1>4 DEF handler, workers, TypeOK, LoopInv, NotBegun, OnePlace, Messengers, NotedEmpties,
                          LastRound, InLoop, Busy
<1> QED  BY <1>3, <1>4

LEMMA RouteLoop ==
    ASSUME RouteNext, NEW e \in Deployments, LoopInv(e)
    PROVE  LoopInv(e)'
<1>1. UNCHANGED <<pc, handler, workers>>
  BY DEF RouteNext, ListRead, ListWrite, StartAgent, StopAgent, DeleteAgent, SetLxc
<1> QED  BY <1>1, LoopFrame DEF LoopState, handler, workers

LEMMA EndLoop ==
    ASSUME TypeOK, LoseMemory, UNCHANGED pending, NEW e \in Deployments, LoopInv(e)
    PROVE  LoopInv(e)'
<1>1. pc'[e] = IF pc[e] = "idle" THEN "idle" ELSE "done"
  BY DEF LoseMemory
<1>2. /\ queued'[e] = {} /\ done'[e] = {} /\ succeeded'[e] = {} /\ failed'[e] = {} /\ steps'[e] = {}
      /\ noted'[e] = FALSE /\ pending'[e] = pending[e] /\ Busy(e)' = {}
  BY DEF LoseMemory, NoNames, NoFlags, NoWorkers, Busy
<1> QED
  BY <1>1, <1>2 DEF LoopInv, NotBegun, OnePlace, Messengers, NotedEmpties, LastRound, InLoop

\* No request is open while the process is down.
DownQuiet == up = "down" => Active = {}

LEMMA DownStep == ASSUME TypeOK, DownQuiet, [Next]_vars PROVE DownQuiet'
<1>1. CASE up = "down" /\ DeployNext
  <2>1. ASSUME NEW d \in Deployments, HandlerNext(d) PROVE FALSE
    BY <1>1, <2>1 DEF HandlerNext, Prepare, PrepareRefused, LoopCheck, Abandon, Submitted, Wait, Drain,
                      LoopAgain, Cancel, Submit, RecordDone, Finish, FinishRaised
  <2>2. ASSUME NEW d \in Deployments, DeployRequest(d) \/ WorkerDies(d) PROVE FALSE
    BY <1>1, <2>2 DEF DeployRequest, WorkerDies
  <2>3. ASSUME NEW d \in Deployments, NEW c \in Containers, WorkerNext(d, c) PROVE FALSE
    BY <1>1, <2>3, WorkerShape DEF WorkerNext, CheckExisting, CreateContainer, StartContainer, InstallAgent,
                      DeployRaises, Continues, Returns, WorkerStep
  <2> QED  BY <1>1, <2>1, <2>2, <2>3 DEF DeployNext
<1>2. CASE up # "down" /\ DeployNext
  <2>1. ASSUME NEW d \in Deployments, HandlerNext(d) PROVE up' = up
    BY <2>1 DEF HandlerNext, Prepare, PrepareRefused, LoopCheck, Abandon, Submitted, Wait, Drain,
                LoopAgain, Cancel, Submit, RecordDone, Finish, FinishRaised
  <2>2. ASSUME NEW d \in Deployments, DeployRequest(d) \/ WorkerDies(d) PROVE up' = up
    BY <2>2 DEF DeployRequest, WorkerDies
  <2>3. ASSUME NEW d \in Deployments, NEW c \in Containers, WorkerNext(d, c) PROVE up' = up
    BY <2>3, WorkerShape
  <2> QED  BY <1>2, <2>1, <2>2, <2>3 DEF DeployNext, DownQuiet
<1>3. CASE RouteNext
  BY <1>3 DEF RouteNext, ListRead, ListWrite, StartAgent, StopAgent, DeleteAgent, SetLxc, DownQuiet, Active
<1>4. CASE ProcessNext
  <2>1. CASE LoseMemory
    BY <2>1 DEF LoseMemory, DownQuiet, Active
  <2>2. CASE BeginShutdown \/ DeadlinePasses \/ Start
    BY <2>2 DEF BeginShutdown, DeadlinePasses, Start, DownQuiet
  <2> QED  BY <1>4, <2>1, <2>2 DEF ProcessNext, Exit, Crash
<1>5. CASE UNCHANGED vars
  BY <1>5 DEF vars, DownQuiet, Active
<1> QED  BY <1>1, <1>2, <1>3, <1>4, <1>5 DEF Next

LEMMA ProcessLoop ==
    ASSUME TypeOK, DownQuiet, ProcessNext, NEW e \in Deployments, LoopInv(e)
    PROVE  LoopInv(e)'
<1>1. CASE BeginShutdown \/ DeadlinePasses
  BY <1>1, LoopFrame DEF BeginShutdown, DeadlinePasses, LoopState, handler, workers
<1>2. CASE Exit \/ Crash
  BY <1>2, EndLoop DEF Exit, Crash
<1>3. CASE Start
  <2>1. pending'[e] = {} /\ Busy(e)' = Busy(e)
    BY <1>3 DEF Start, NoNames, workers, Busy
  <2>2. UNCHANGED <<pc, queued, done, noted, succeeded, failed, steps>>
    BY <1>3 DEF Start, workers
  <2>3. pc[e] \notin InLoop
    BY <1>3 DEF Start, DownQuiet, Active, InLoop
  <2> QED
    BY <2>1, <2>2, <2>3 DEF LoopInv, NotBegun, OnePlace, Messengers, NotedEmpties, LastRound
<1> QED  BY <1>1, <1>2, <1>3 DEF ProcessNext

LEMMA LoopStep ==
    ASSUME TypeOK, DownQuiet, [Next]_vars, NEW e \in Deployments, LoopInv(e)
    PROVE  LoopInv(e)'
<1>1. ASSUME NEW d \in Deployments, HandlerNext(d) PROVE LoopInv(e)'
  BY <1>1, HandlerLoop, HandlerOthers, LoopFrame DEF OthersKept
<1>2. CASE DeployNext
  BY <1>1, <1>2, RequestLoop, WorkerDiesLoop, WorkerLoop DEF DeployNext
<1>3. CASE RouteNext \/ ProcessNext
  BY <1>3, RouteLoop, ProcessLoop
<1>4. CASE UNCHANGED vars
  BY <1>4, LoopFrame DEF vars, LoopState, handler, workers
<1> QED  BY <1>2, <1>3, <1>4 DEF Next

LEMMA LoopInit == Init => \A d \in Deployments : LoopInv(d)
BY DEF Init, NoNames, NoFlags, NoWorkers, Busy, LoopInv, NotBegun, OnePlace, Messengers, NotedEmpties,
       LastRound, InLoop

\* Once run_deployment_workers has noted the stop, it hands nothing more to a
\* worker: the queue has been emptied before the loop comes to its submits.
THEOREM NotedStops == Spec => NoneHandedOutOnceNoted
<1>1. ASSUME TypeOK, \A d \in Deployments : LoopInv(d), [Next]_vars, NEW e \in Deployments, noted[e]
      PROVE  pending'[e] \subseteq pending[e]
  <2>1. ASSUME NEW d \in Deployments, HandlerNext(d) PROVE pending'[e] \subseteq pending[e]
    <3>1. CASE e # d
      BY <1>1, <2>1, <3>1, HandlerOthers DEF OthersKept, LoopState
    <3>2. ASSUME NEW c \in Containers, Submit(d, c), e = d PROVE FALSE
      BY <1>1, <3>2 DEF Submit, LoopInv, NotedEmpties
    <3>3. ASSUME NEW c \in Containers, Cancel(d, c) \/ RecordDone(d, c) PROVE pending' = pending
      BY <3>3 DEF Cancel, RecordDone
    <3>4. CASE Prepare(d) /\ e = d
      BY <1>1, <3>4 DEF Prepare, LoopInv, NotBegun
    <3>5. CASE PrepareRefused(d) \/ LoopCheck(d) \/ Submitted(d) \/ Drain(d) \/ LoopAgain(d)
                 \/ Finish(d) \/ FinishRaised(d)
      BY <3>5 DEF PrepareRefused, LoopCheck, Submitted, Drain, LoopAgain, Finish, FinishRaised, handler
    <3>6. CASE Abandon(d) \/ Wait(d)
      <4>1. \E kept \in SUBSET pending[d] :
              pending' = pending \/ pending' = [pending EXCEPT ![d] = kept]
        BY <3>6 DEF Abandon, Wait
      <4> QED  BY <1>1, <4>1 DEF TypeOK
    <3> QED  BY <2>1, <3>1, <3>2, <3>3, <3>4, <3>5, <3>6 DEF HandlerNext
  <2>2. CASE DeployNext
    <3>1. ASSUME NEW d \in Deployments, DeployRequest(d) \/ WorkerDies(d) PROVE pending' = pending
      BY <3>1 DEF DeployRequest, WorkerDies, handler
    <3>2. ASSUME NEW d \in Deployments, NEW c \in Containers, WorkerNext(d, c) PROVE pending' = pending
      BY <1>1, <3>2, WorkerShape DEF handler
    <3> QED  BY <2>1, <2>2, <3>1, <3>2 DEF DeployNext
  <2>3. CASE RouteNext
    BY <2>3 DEF RouteNext, ListRead, ListWrite, StartAgent, StopAgent, DeleteAgent, SetLxc, handler
  <2>4. CASE ProcessNext
    BY <2>4 DEF ProcessNext, BeginShutdown, DeadlinePasses, Exit, Crash, Start, NoNames, handler
  <2>5. CASE UNCHANGED vars
    BY <2>5 DEF vars, handler
  <2> QED  BY <1>1, <2>2, <2>3, <2>4, <2>5 DEF Next
<1>2. TypeOK /\ (\A d \in Deployments : LoopInv(d)) /\ [Next]_vars =>
        [\A d \in Deployments : noted[d] => pending'[d] \subseteq pending[d]]_vars
  BY <1>1
<1>3. TypeOK /\ DownQuiet /\ (\A d \in Deployments : LoopInv(d)) /\ [Next]_vars
        => TypeOK' /\ DownQuiet' /\ (\A d \in Deployments : LoopInv(d))'
  BY StepType, DownStep, LoopStep
<1>4. Init => DownQuiet
  BY DEF Init, DownQuiet
<1> QED  BY InitType, LoopInit, <1>2, <1>3, <1>4, PTL DEF Spec, NoneHandedOutOnceNoted

-----------------------------------------------------------------------------
(* How many workers are busy *)

BoundInv(d) ==
    Cardinality(pending[d]) <= Workers[d] /\ Cardinality(Busy(d)) <= Workers[d]

LEMMA Smaller ==
    ASSUME NEW S \in SUBSET Containers, NEW T \in SUBSET S
    PROVE  /\ IsFiniteSet(S) /\ IsFiniteSet(T)
           /\ Cardinality(S) \in Nat /\ Cardinality(T) \in Nat
           /\ Cardinality(T) <= Cardinality(S)
BY ContainersFinite, FS_Subset, FS_CardinalityType

LEMMA OneMore ==
    ASSUME NEW S \in SUBSET Containers, NEW c \in Containers, c \notin S
    PROVE  Cardinality(S \cup {c}) = Cardinality(S) + 1 /\ Cardinality(S) \in Nat
BY ContainersFinite, FS_Subset, FS_AddElement, FS_CardinalityType

LEMMA BoundShrinks ==
    ASSUME TypeOK, NEW d \in Deployments, BoundInv(d),
           pending'[d] \subseteq pending[d], Busy(d)' \subseteq Busy(d)
    PROVE  BoundInv(d)'
<1>1. pending[d] \in SUBSET Containers /\ Busy(d) \in SUBSET Containers /\ Workers[d] \in Nat
  BY WorkersType DEF TypeOK, Busy
<1>2. /\ Cardinality(pending'[d]) <= Cardinality(pending[d])
      /\ Cardinality(pending'[d]) \in Nat /\ Cardinality(pending[d]) \in Nat
  BY <1>1, Smaller
<1>3. /\ Cardinality(Busy(d)') <= Cardinality(Busy(d))
      /\ Cardinality(Busy(d)') \in Nat /\ Cardinality(Busy(d)) \in Nat
  BY <1>1, Smaller
<1> QED  BY <1>1, <1>2, <1>3 DEF BoundInv

\* Submit is the only step that makes a worker busy, and while a name is queued
\* only futures in `pending` are.
LEMMA BoundSubmit ==
    ASSUME TypeOK, NEW d \in Deployments, NEW c \in Containers, LoopInv(d), BoundInv(d), Submit(d, c)
    PROVE  BoundInv(d)'
<1>1. CASE broken[d]
  BY <1>1, BoundShrinks DEF Submit, Busy
<1>2. CASE ~broken[d]
  <2>1. /\ pending'[d] = pending[d] \cup {c} /\ Busy(d)' = Busy(d) \cup {c}
        /\ Cardinality(pending[d]) < Workers[d] /\ c \notin pending[d]
    BY <1>2 DEF Submit, Busy, TypeOK, LoopInv, OnePlace, InLoop
  <2>2. Busy(d) \subseteq pending[d]
    BY DEF Submit, LoopInv, Messengers, LastRound, InLoop
  <2>3. /\ Cardinality(pending[d] \cup {c}) = Cardinality(pending[d]) + 1
        /\ Cardinality(pending[d]) \in Nat
    BY <2>1, OneMore DEF TypeOK
  <2>4. pending[d] \cup {c} \in SUBSET Containers /\ Busy(d) \cup {c} \in SUBSET (pending[d] \cup {c})
    BY <2>2 DEF TypeOK
  <2>5. /\ Cardinality(Busy(d) \cup {c}) <= Cardinality(pending[d] \cup {c})
        /\ Cardinality(Busy(d) \cup {c}) \in Nat
    BY <2>4, Smaller
  <2> QED  BY <2>1, <2>3, <2>5, WorkersType DEF BoundInv
<1> QED  BY <1>1, <1>2

LEMMA BoundStep ==
    ASSUME TypeOK, [Next]_vars, NEW e \in Deployments, LoopInv(e), BoundInv(e)
    PROVE  BoundInv(e)'
<1>1. CASE \E d \in Deployments, c \in Containers : Submit(d, c)
  <2> PICK d \in Deployments, c \in Containers : Submit(d, c)
    BY <1>1
  <2>1. CASE e = d
    BY <2>1, BoundSubmit
  <2>2. CASE e # d
    <3>1. HandlerNext(d)
      BY DEF HandlerNext
    <3>2. pending'[e] = pending[e] /\ worker'[e] = worker[e]
      BY <2>2, <3>1, HandlerOthers DEF OthersKept, LoopState
    <3> QED  BY <3>2, BoundShrinks DEF Busy
  <2> QED  BY <2>1, <2>2
<1>2. ASSUME NEW d \in Deployments, HandlerNext(d), \A c \in Containers : ~ Submit(d, c)
      PROVE  pending'[e] \subseteq pending[e] /\ Busy(e)' \subseteq Busy(e)
  <2>1. CASE e # d
    BY <1>2, <2>1, HandlerOthers DEF OthersKept, LoopState, Busy
  <2>2. UNCHANGED worker
    BY <1>2 DEF HandlerNext, Prepare, PrepareRefused, LoopCheck, Abandon, Submitted, Wait, Drain,
                LoopAgain, Cancel, RecordDone, Finish, FinishRaised, workers
  <2>3. CASE Abandon(d) \/ Wait(d)
    <3>1. \E kept \in SUBSET pending[d] : pending' = pending \/ pending' = [pending EXCEPT ![d] = kept]
      BY <2>3 DEF Abandon, Wait
    <3> QED  BY <2>2, <3>1 DEF TypeOK, Busy
  <2>4. CASE ~(Abandon(d) \/ Wait(d))
    <3>1. UNCHANGED pending
      BY <1>2, <2>4 DEF HandlerNext, Prepare, PrepareRefused, LoopCheck, Submitted, Drain,
                        LoopAgain, Cancel, RecordDone, Finish, FinishRaised, handler
    <3> QED  BY <2>2, <3>1 DEF Busy
  <2> QED  BY <2>3, <2>4
<1>3. ASSUME NEW d \in Deployments, NEW c \in Containers, WorkerNext(d, c)
      PROVE  pending'[e] \subseteq pending[e] /\ Busy(e)' \subseteq Busy(e)
  <2>1. PICK to \in WorkerPCs : worker' = [worker EXCEPT ![d][c] = to]
    BY <1>3, WorkerShape
  <2>2. c \in Busy(d) /\ UNCHANGED pending
    BY <1>3, WorkerShape DEF handler
  <2> QED  BY <2>1, <2>2 DEF Busy, TypeOK
<1>4. ASSUME NEW d \in Deployments, DeployRequest(d) \/ WorkerDies(d)
      PROVE  pending'[e] \subseteq pending[e] /\ Busy(e)' \subseteq Busy(e)
  <2>1. CASE DeployRequest(d)
    BY <2>1 DEF DeployRequest, handler, workers, Busy
  <2>2. CASE WorkerDies(d)
    BY <2>2 DEF WorkerDies, Busy, TypeOK
  <2> QED  BY <1>4, <2>1, <2>2
<1>5. CASE RouteNext \/ UNCHANGED vars
  <2>1. UNCHANGED <<pending, worker>>
    BY <1>5 DEF RouteNext, ListRead, ListWrite, StartAgent, StopAgent, DeleteAgent, SetLxc, vars,
                handler, workers
  <2> QED  BY <2>1, BoundShrinks DEF Busy
<1>6. CASE ProcessNext
  <2>1. /\ pending' = pending \/ pending' = NoNames
        /\ worker' = worker \/ worker' = NoWorkers
    BY <1>6 DEF ProcessNext, BeginShutdown, DeadlinePasses, Exit, Crash, LoseMemory, Start, handler, workers
  <2> QED  BY <2>1, BoundShrinks DEF NoNames, NoWorkers, Busy
<1>7. CASE DeployNext
  BY <1>1, <1>2, <1>3, <1>4, <1>7, BoundShrinks DEF DeployNext
<1> QED  BY <1>5, <1>6, <1>7 DEF Next

LEMMA BoundInit == Init => \A d \in Deployments : BoundInv(d)
<1> SUFFICES ASSUME Init, NEW d \in Deployments PROVE BoundInv(d)
  OBVIOUS
<1>1. pending[d] = {} /\ Busy(d) = {}
  BY DEF Init, NoNames, NoWorkers, Busy
<1> QED  BY <1>1, FS_EmptySet, WorkersType DEF BoundInv

\* At no time are more of a deployment's workers busy than worker_count allows:
\* run_deployment_workers fills `pending` up to the limit, and what a stop
\* abandons is never replaced.
THEOREM WorkersStayBounded == Spec => []WorkersBounded
<1> DEFINE I == TypeOK /\ DownQuiet /\ \A d \in Deployments : LoopInv(d) /\ BoundInv(d)
<1>1. Init => I
  BY InitType, LoopInit, BoundInit DEF Init, DownQuiet
<1>2. I /\ [Next]_vars => I'
  BY StepType, DownStep, LoopStep, BoundStep
<1>3. I => WorkersBounded
  BY DEF WorkersBounded, BoundInv
<1> QED  BY <1>1, <1>2, <1>3, PTL DEF Spec

-----------------------------------------------------------------------------
(* Progress records account for their deployments. *)

\* At "listing" the record is fresh.
FreshRecord(d) == pc[d] = "listing" => job[d] = NewJob

\* `results`, the record's rows and the names still open make up the request.
Balance(d) ==
    pc[d] \in InLoop \cup {"finish"} =>
      /\ succeeded[d] = RowsWith(job[d], "success")
      /\ failed[d] = RowsWith(job[d], "failed")
      /\ Names[d] = succeeded[d] \cup failed[d] \cup Open(d)
      /\ Open(d) \cap (succeeded[d] \cup failed[d]) = {}
      /\ pc[d] = "finish" => Open(d) = {}

Counts(j) ==
    /\ j.successful = Cardinality(RowsWith(j, "success"))
    /\ j.failed = Cardinality(RowsWith(j, "failed"))
    /\ j.completed = j.successful + j.failed

\* FinishedAccounted, for one record.
Accounted(d, j) ==
    /\ j.status = "completed" => RowsWith(j, "success") = Names[d]
    /\ j.status = "partial" =>
         /\ RowsWith(j, "success") \cup RowsWith(j, "failed") = Names[d]
         /\ RowsWith(j, "success") # {} /\ RowsWith(j, "failed") # {}

RunningOpen(d) == up # "down" => (job[d].status = "running" <=> d \in Active)

RecordInv(d) ==
    FreshRecord(d) /\ Balance(d) /\ Counts(job[d]) /\ Accounted(d, job[d]) /\ RunningOpen(d)

RecordState(d) ==
    <<pc[d], job[d], queued[d], pending[d], done[d], succeeded[d], failed[d]>>

LEMMA RecordFrame ==
    ASSUME NEW d \in Deployments, RecordInv(d), UNCHANGED RecordState(d), up' # "down" => up # "down"
    PROVE  RecordInv(d)'
BY DEF RecordInv, RecordState, FreshRecord, Balance, RunningOpen, Open, Active, RowsWith

-----------------------------------------------------------------------------
(* The operators on records *)

LEMMA EmptyRows ==
    \A j \in Job : (\A c \in Containers : j.containers[c] \notin Finals) =>
      RowsWith(j, "success") = {} /\ RowsWith(j, "failed") = {}
BY DEF RowsWith, Finals

\* A fresh or empty record, whatever its status, counts nothing.
LEMMA FreshCounts ==
    ASSUME NEW d \in Deployments, NEW s \in JobStatus \ {"completed", "partial"}
    PROVE  LET j == [NoJob EXCEPT !.status = s]
           IN  /\ j.status = s /\ j \in Job
               /\ Counts(j) /\ Accounted(d, j)
               /\ RowsWith(j, "success") = {} /\ RowsWith(j, "failed") = {}
<1> DEFINE j == [NoJob EXCEPT !.status = s]
<1>1. /\ j \in Job /\ j.status = s
      /\ j.completed = 0 /\ j.successful = 0 /\ j.failed = 0
      /\ \A c \in Containers : j.containers[c] = "none"
  BY JobFacts DEF NoJob
<1>2. RowsWith(j, "success") = {} /\ RowsWith(j, "failed") = {}
  BY <1>1, EmptyRows DEF Finals
<1> QED  BY <1>1, <1>2, FS_EmptySet DEF Counts, Accounted

\* progress_event with a step: final rows stay, unless the step is for one.
LEMMA EventsKeep ==
    ASSUME NEW j \in Job, NEW names \in SUBSET Containers, NEW s \in {"pending", "running"},
           names \cap (RowsWith(j, "success") \cup RowsWith(j, "failed")) = {}
    PROVE  LET k == Events(j, names, s)
           IN  /\ k.status = j.status
               /\ k.completed = j.completed /\ k.successful = j.successful /\ k.failed = j.failed
               /\ RowsWith(k, "success") = RowsWith(j, "success")
               /\ RowsWith(k, "failed") = RowsWith(j, "failed")
BY DEF Events, RowsWith, Job

\* progress_event with a result, for a row that has none yet.
LEMMA EventCounts ==
    ASSUME NEW j \in Job, NEW c \in Containers, NEW ok \in BOOLEAN, Counts(j), j.status # "none",
           c \notin RowsWith(j, "success") \cup RowsWith(j, "failed")
    PROVE  LET k == Event(j, c, IF ok THEN "success" ELSE "failed")
           IN  /\ k.status = j.status
               /\ RowsWith(k, "success") = RowsWith(j, "success") \cup (IF ok THEN {c} ELSE {})
               /\ RowsWith(k, "failed") = RowsWith(j, "failed") \cup (IF ok THEN {} ELSE {c})
               /\ Counts(k)
<1> DEFINE s == IF ok THEN "success" ELSE "failed"
           k == Event(j, c, s)
<1>1. /\ k.status = j.status
      /\ k.containers = [j.containers EXCEPT ![c] = s]
      /\ k.completed = j.completed + 1
      /\ k.successful = j.successful + (IF ok THEN 1 ELSE 0)
      /\ k.failed = j.failed + (IF ok THEN 0 ELSE 1)
  BY DEF Event, Finals, Job
<1>2. /\ RowsWith(k, "success") = RowsWith(j, "success") \cup (IF ok THEN {c} ELSE {})
      /\ RowsWith(k, "failed") = RowsWith(j, "failed") \cup (IF ok THEN {} ELSE {c})
  BY <1>1 DEF RowsWith, Job
<1>3. /\ Cardinality(RowsWith(j, "success") \cup {c}) = Cardinality(RowsWith(j, "success")) + 1
      /\ Cardinality(RowsWith(j, "failed") \cup {c}) = Cardinality(RowsWith(j, "failed")) + 1
  BY OneMore DEF RowsWith
<1>4. j.completed \in Nat /\ j.successful \in Nat /\ j.failed \in Nat
  BY DEF Job
<1>5. /\ j.successful = Cardinality(RowsWith(j, "success"))
      /\ j.failed = Cardinality(RowsWith(j, "failed"))
      /\ j.completed = j.successful + j.failed
  BY DEF Counts
<1>6. Counts(k)
  <2> HIDE DEF k, s
  <2>1. CASE ok
    <3>1. /\ RowsWith(k, "success") = RowsWith(j, "success") \cup {c}
          /\ RowsWith(k, "failed") = RowsWith(j, "failed")
      BY <1>2, <2>1
    <3>2. k.completed = j.completed + 1 /\ k.successful = j.successful + 1 /\ k.failed = j.failed
      BY <1>1, <1>4, <2>1
    <3>3. k.completed = k.successful + k.failed
      BY <1>4, <1>5, <3>2
    <3> QED  BY <1>3, <1>4, <1>5, <3>1, <3>2, <3>3 DEF Counts
  <2>2. CASE ~ok
    <3>1. /\ RowsWith(k, "failed") = RowsWith(j, "failed") \cup {c}
          /\ RowsWith(k, "success") = RowsWith(j, "success")
      BY <1>2, <2>2
    <3>2. k.completed = j.completed + 1 /\ k.successful = j.successful /\ k.failed = j.failed + 1
      BY <1>1, <1>4, <2>2
    <3>3. k.completed = k.successful + k.failed
      BY <1>4, <1>5, <3>2
    <3> QED  BY <1>3, <1>4, <1>5, <3>1, <3>2, <3>3 DEF Counts
  <2> QED  BY <2>1, <2>2
<1> QED  BY <1>1, <1>2, <1>6

-----------------------------------------------------------------------------
(* The handler's steps *)

\* progress_finish leaves the rows and the counters alone.
LEMMA FinishKeeps ==
    ASSUME TypeOK, NEW d \in Deployments, NEW s \in JobStatus, ProgressFinish(d, s),
           job[d].status # "none"
    PROVE  /\ job' = [job EXCEPT ![d] = [job[d] EXCEPT !.status = s]]
           /\ job'[d].status = s
           /\ job'[d].completed = job[d].completed
           /\ job'[d].successful = job[d].successful /\ job'[d].failed = job[d].failed
           /\ RowsWith(job'[d], "success") = RowsWith(job[d], "success")
           /\ RowsWith(job'[d], "failed") = RowsWith(job[d], "failed")
BY DEF ProgressFinish, TypeOK, Job, RowsWith

\* In an open request the record is tracked.
LEMMA OpenTracked ==
    ASSUME NEW d \in Deployments, RecordInv(d), up # "down", pc[d] \notin {"idle", "done"}
    PROVE  job[d].status = "running"
BY DEF RecordInv, RunningOpen, Active

LEMMA PrepareRecord ==
    ASSUME TypeOK, NEW d \in Deployments, LoopInv(d), RecordInv(d), Prepare(d)
    PROVE  RecordInv(d)'
<1>1. job[d] = NewJob /\ job[d] \in Job
  BY DEF RecordInv, FreshRecord, Prepare, TypeOK
<1>2. /\ RowsWith(NewJob, "success") = {} /\ RowsWith(NewJob, "failed") = {}
      /\ NewJob.status = "running" /\ Counts(NewJob)
  BY FreshCounts DEF NewJob, JobStatus
<1>3. job'[d] = Events(job[d], Names[d], "pending") /\ pc'[d] = "check"
  BY DEF Prepare, Goto, TypeOK
<1>4. /\ job'[d].status = "running"
      /\ RowsWith(job'[d], "success") = {} /\ RowsWith(job'[d], "failed") = {}
      /\ Counts(job'[d])
  BY <1>1, <1>2, <1>3, EventsKeep, NamesType DEF Counts
<1>5. /\ queued'[d] = Names[d] /\ pending'[d] = {} /\ done'[d] = {}
      /\ succeeded'[d] = {} /\ failed'[d] = {}
  BY DEF Prepare, LoopInv, NotBegun, TypeOK
<1> QED
  BY <1>3, <1>4, <1>5 DEF RecordInv, FreshRecord, Balance, Accounted, RunningOpen, Active, Open, InLoop

\* A request that ends early, with nothing recorded since.
LEMMA FailedRecord ==
    ASSUME TypeOK, NEW d \in Deployments, RecordInv(d), up # "down", pc[d] \notin {"idle", "done"},
           ProgressFinish(d, "failed"), Goto(d, "done")
    PROVE  RecordInv(d)'
<1>1. job[d].status = "running"
  BY OpenTracked
<1>2. pc'[d] = "done"
  BY DEF Goto, TypeOK
<1>3. job'[d].status = "failed" /\ Counts(job'[d])
  BY <1>1, FinishKeeps DEF JobStatus, Counts, RecordInv
<1> QED
  BY <1>2, <1>3 DEF RecordInv, FreshRecord, Balance, Accounted, RunningOpen, Active, InLoop

\* A result is recorded for a name that was open until now.
LEMMA RecordRecord ==
    ASSUME TypeOK, NEW d \in Deployments, NEW c \in Containers, NEW r \in Result,
           RecordInv(d), up # "down", up' = up, pc[d] \in InLoop, pc' = pc,
           c \in Open(d), Open(d)' = Open(d) \ {c}, Record(d, c, r)
    PROVE  RecordInv(d)'
<1>1. job[d].status = "running" /\ job[d] \in Job /\ r.ok \in BOOLEAN
  BY OpenTracked, ResultFacts DEF InLoop, TypeOK
<1>2. job'[d] = Event(job[d], c, IF r.ok THEN "success" ELSE "failed")
  BY DEF Record, TypeOK
<1>3. c \notin RowsWith(job[d], "success") \cup RowsWith(job[d], "failed")
  BY DEF RecordInv, Balance
<1>4. /\ job'[d].status = "running"
      /\ RowsWith(job'[d], "success") = RowsWith(job[d], "success") \cup (IF r.ok THEN {c} ELSE {})
      /\ RowsWith(job'[d], "failed") = RowsWith(job[d], "failed") \cup (IF r.ok THEN {} ELSE {c})
      /\ Counts(job'[d])
  BY <1>1, <1>2, <1>3, EventCounts DEF RecordInv
<1>5. /\ succeeded'[d] = succeeded[d] \cup (IF r.ok THEN {c} ELSE {})
      /\ failed'[d] = failed[d] \cup (IF r.ok THEN {} ELSE {c})
  BY <1>1 DEF Record, TypeOK
<1>6. Balance(d)'
  BY <1>4, <1>5 DEF RecordInv, Balance, InLoop
<1> QED
  BY <1>1, <1>4, <1>6 DEF RecordInv, FreshRecord, Accounted, RunningOpen, Active, InLoop

LEMMA FinishRecord ==
    ASSUME TypeOK, NEW d \in Deployments, RecordInv(d), Finish(d)
    PROVE  RecordInv(d)'
<1>1. job[d].status = "running"
  BY OpenTracked DEF Finish
<1>2. pc'[d] = "done" /\ Outcome(d) \in JobStatus \ {"running"}
  BY DEF Finish, Goto, TypeOK, Outcome, JobStatus
<1>3. /\ job'[d].status = Outcome(d) /\ Counts(job'[d])
      /\ RowsWith(job'[d], "success") = succeeded[d]
      /\ RowsWith(job'[d], "failed") = failed[d]
  BY <1>1, <1>2, FinishKeeps DEF Finish, Counts, RecordInv, Balance
<1>4. Names[d] = succeeded[d] \cup failed[d]
  BY DEF Finish, RecordInv, Balance
<1>5. Accounted(d, job'[d])
  BY <1>3, <1>4 DEF Accounted, Outcome
<1> QED
  BY <1>2, <1>3, <1>5 DEF RecordInv, FreshRecord, Balance, RunningOpen, Active, InLoop

LEMMA HandlerRecord ==
    ASSUME TypeOK, NEW d \in Deployments, LoopInv(d), RecordInv(d), HandlerNext(d)
    PROVE  RecordInv(d)'
<1> USE DEF InLoop
<1>1. CASE Prepare(d)
  BY <1>1, PrepareRecord
<1>2. CASE PrepareRefused(d) \/ FinishRaised(d)
  BY <1>2, FailedRecord DEF PrepareRefused, FinishRaised
<1>3. CASE Finish(d)
  BY <1>3, FinishRecord
<1>4. ASSUME pc[d] \in InLoop, pc'[d] \in InLoop \cup {"raise"}, up # "down", up' = up, UNCHANGED <<job, succeeded, failed>>,
             pc'[d] # "raise" => Open(d)' = Open(d)
      PROVE  RecordInv(d)'
  BY <1>4 DEF RecordInv, FreshRecord, Balance, RunningOpen, Active, Open
<1>5. CASE LoopCheck(d) \/ Submitted(d)
  BY <1>4, <1>5 DEF LoopCheck, Submitted, handler, Goto, TypeOK, Open
<1>6. CASE Abandon(d)
  <2>1. Open(d)' = Open(d)
    BY <1>6 DEF Abandon, Open, TypeOK, LoopInv, OnePlace
  <2> QED  BY <1>4, <1>6, <2>1 DEF Abandon, Goto, TypeOK
<1>7. CASE Wait(d)
  <2>1. Open(d)' = Open(d)
    BY <1>7 DEF Wait, Open, TypeOK
  <2> QED  BY <1>4, <1>7, <2>1 DEF Wait, Goto, TypeOK
<1>8. CASE LoopAgain(d)
  <2>1. CASE queued[d] = {} /\ pending[d] = {}
    BY <1>8, <2>1 DEF LoopAgain, Goto, TypeOK, handler, RecordInv, FreshRecord, Balance, RunningOpen, Active, Open
  <2>2. CASE ~(queued[d] = {} /\ pending[d] = {})
    BY <1>4, <1>8, <2>2 DEF LoopAgain, Goto, TypeOK, handler, Open
  <2> QED  BY <2>1, <2>2
<1>9. CASE Drain(d)
  <2>1. /\ job'[d] = Events(job[d], steps[d], "running") /\ job[d] \in Job
        /\ pc'[d] = "record" /\ UNCHANGED handler
    BY <1>9 DEF Drain, Goto, TypeOK
  <2>2. steps[d] \subseteq Open(d)
    BY <1>9 DEF Drain, LoopInv, Messengers, Open
  <2>3. steps[d] \cap (RowsWith(job[d], "success") \cup RowsWith(job[d], "failed")) = {}
    BY <1>9, <2>2 DEF Drain, RecordInv, Balance
  <2>4. /\ job'[d].status = job[d].status
        /\ RowsWith(job'[d], "success") = RowsWith(job[d], "success")
        /\ RowsWith(job'[d], "failed") = RowsWith(job[d], "failed")
        /\ job'[d].completed = job[d].completed
        /\ job'[d].successful = job[d].successful /\ job'[d].failed = job[d].failed
    <3>1. steps[d] \in SUBSET Containers
      BY DEF TypeOK
    <3> QED  BY <2>1, <2>3, <3>1, EventsKeep
  <2>5. job[d].status = "running"
    BY <1>9, OpenTracked DEF Drain
  <2> QED
    BY <1>9, <2>1, <2>4, <2>5
       DEF Drain, Counts, RecordInv, FreshRecord, Balance, Accounted, RunningOpen, Active, Open, handler
<1>10. ASSUME NEW c \in Containers, Cancel(d, c) PROVE RecordInv(d)'
  <2>1. c \in Open(d) /\ Open(d)' = Open(d) \ {c}
    BY <1>10 DEF Cancel, Open, TypeOK, LoopInv, OnePlace
  <2> QED  BY <1>10, <2>1, RecordRecord, ResultFacts DEF Cancel, Lifecycle
<1>11. ASSUME NEW c \in Containers, RecordDone(d, c) PROVE RecordInv(d)'
  <2>1. c \in Open(d) /\ Open(d)' = Open(d) \ {c}
    BY <1>11 DEF RecordDone, Open, TypeOK, LoopInv, OnePlace
  <2>2. FutureResult(d, c) \in Result
    BY ResultFacts DEF FutureResult, TypeOK, Lifecycle
  <2> QED  BY <1>11, <2>1, <2>2, RecordRecord DEF RecordDone
<1>12. ASSUME NEW c \in Containers, Submit(d, c) PROVE RecordInv(d)'
  <2>1. CASE broken[d]
    BY <1>4, <1>12, <2>1 DEF Submit, Goto, TypeOK
  <2>2. CASE ~broken[d]
    <3>1. Open(d)' = Open(d)
      BY <1>12, <2>2 DEF Submit, Open, TypeOK
    <3> QED  BY <1>4, <1>12, <2>2, <3>1 DEF Submit, TypeOK
  <2> QED  BY <2>1, <2>2
<1> QED  BY <1>1, <1>2, <1>3, <1>5, <1>6, <1>7, <1>8, <1>9, <1>10, <1>11, <1>12 DEF HandlerNext

-----------------------------------------------------------------------------
(* The other steps *)

\* A handler's step leaves the other deployments' records alone.
LEMMA HandlerOtherRecords ==
    ASSUME TypeOK, NEW d \in Deployments, HandlerNext(d), NEW e \in Deployments, e # d
    PROVE  job'[e] = job[e] /\ up' = up
<1> USE DEF TypeOK, handler, workers
<1>1. CASE Prepare(d) \/ PrepareRefused(d) \/ Drain(d) \/ Finish(d) \/ FinishRaised(d)
  BY <1>1 DEF Prepare, PrepareRefused, Drain, Finish, FinishRaised, ProgressFinish
<1>2. CASE LoopCheck(d) \/ Abandon(d) \/ Submitted(d) \/ Wait(d) \/ LoopAgain(d)
  BY <1>2 DEF LoopCheck, Abandon, Submitted, Wait, LoopAgain
<1>3. ASSUME NEW c \in Containers, Cancel(d, c) \/ RecordDone(d, c) PROVE job'[e] = job[e] /\ up' = up
  BY <1>3 DEF Cancel, RecordDone, Record
<1>4. ASSUME NEW c \in Containers, Submit(d, c) PROVE job'[e] = job[e] /\ up' = up
  BY <1>4 DEF Submit
<1> QED  BY <1>1, <1>2, <1>3, <1>4 DEF HandlerNext

\* progress_start: the new record, and those it evicts, which nobody works on.
LEMMA RequestRecord ==
    ASSUME TypeOK, NEW d \in Deployments, DeployRequest(d),
           NEW e \in Deployments, LoopInv(e), RecordInv(e)
    PROVE  RecordInv(e)'
<1> DEFINE started == [job EXCEPT ![d] = NewJob]
           refused == [NewJob EXCEPT !.status = "failed"]
<1>1. PICK gone \in SUBSET Deployments :
        /\ Evicts(started, gone)
        /\ \/ job' = Without(started, gone) /\ Goto(d, "listing")
           \/ job' = [Without(started, gone) EXCEPT ![d] = refused] /\ Goto(d, "done")
  BY DEF DeployRequest
<1>2. /\ up = "running" /\ up' = up /\ pc[d] = "idle"
      /\ UNCHANGED <<queued, pending, done, succeeded, failed>>
  BY DEF DeployRequest, handler
<1>3. /\ NewJob.status = "running" /\ refused.status = "failed" /\ NoJob.status = "none"
      /\ Counts(NewJob) /\ Counts(refused) /\ Counts(NoJob)
  <2>1. \A s \in JobStatus : [NewJob EXCEPT !.status = s] = [NoJob EXCEPT !.status = s]
    BY DEF NewJob, NoJob
  <2>2. NoJob = [NoJob EXCEPT !.status = "none"]
    BY DEF NoJob
  <2> QED  BY <2>1, <2>2, FreshCounts, ZenonT(30) DEF NewJob, JobStatus
<1>4. d \notin gone
  BY <1>1, <1>3 DEF Evicts, Tracked, TypeOK
<1>5. CASE e = d
  <2>1. \/ job'[d] = NewJob /\ pc'[d] = "listing"
        \/ job'[d] = refused /\ pc'[d] = "done"
    BY <1>1, <1>4 DEF Without, Goto, TypeOK
  <2> HIDE DEF refused
  <2> QED
    BY <1>2, <1>3, <1>5, <2>1 DEF RecordInv, FreshRecord, Balance, Accounted, RunningOpen, Active, InLoop
<1>6. CASE e # d
  <2>1. pc'[e] = pc[e] /\ job'[e] = IF e \in gone THEN NoJob ELSE job[e]
    BY <1>1, <1>6 DEF Without, Goto, TypeOK
  <2>2. CASE e \notin gone
    BY <1>2, <2>1, <2>2, RecordFrame DEF RecordState
  <2>3. CASE e \in gone
    <3>1. job[e].status # "running"
      BY <1>1, <1>6, <2>3 DEF Evicts, Tracked, TypeOK
    <3>2. pc[e] \in {"idle", "done"}
      BY <1>2, <3>1 DEF RecordInv, RunningOpen, Active
    <3> QED
      BY <1>2, <1>3, <2>1, <2>3, <3>2
         DEF RecordInv, FreshRecord, Balance, Accounted, RunningOpen, Active, InLoop
  <2> QED  BY <2>2, <2>3
<1> QED  BY <1>5, <1>6

LEMMA ProcessRecord ==
    ASSUME TypeOK, DownQuiet, ProcessNext, NEW e \in Deployments, RecordInv(e)
    PROVE  RecordInv(e)'
<1>1. CASE BeginShutdown \/ DeadlinePasses
  BY <1>1, RecordFrame DEF BeginShutdown, DeadlinePasses, RecordState, handler
<1>2. CASE LoseMemory /\ UNCHANGED job
  <2>1. pc'[e] \in {"idle", "done"} /\ up' = "down"
    BY <1>2 DEF LoseMemory
  <2> QED  BY <1>2, <2>1 DEF RecordInv, FreshRecord, Balance, RunningOpen, InLoop, RowsWith, Counts, Accounted
<1>3. CASE Start
  <2>1. pc'[e] = pc[e] /\ pc[e] \in {"idle", "done"}
    BY <1>3 DEF Start, DownQuiet, Active
  <2>2. job'[e] = Loaded(job[e])
    BY <1>3 DEF Start
  <2>3. job'[e].status # "running" /\ Counts(job'[e]) /\ Accounted(e, job'[e])
    <3>1. CASE job[e].status = "running"
      <4>1. [NewJob EXCEPT !.status = "interrupted"] = [NoJob EXCEPT !.status = "interrupted"]
        BY DEF NewJob, NoJob
      <4> QED  BY <2>2, <3>1, <4>1, FreshCounts DEF Loaded, JobStatus
    <3>2. CASE job[e].status # "running"
      BY <2>2, <3>2 DEF Loaded, RecordInv
    <3> QED  BY <3>1, <3>2
  <2> QED  BY <2>1, <2>3 DEF RecordInv, FreshRecord, Balance, RunningOpen, Active, InLoop
<1> QED  BY <1>1, <1>2, <1>3 DEF ProcessNext, Exit, Crash

LEMMA RecordStep ==
    ASSUME TypeOK, DownQuiet, [Next]_vars, NEW e \in Deployments, LoopInv(e), RecordInv(e)
    PROVE  RecordInv(e)'
<1>1. ASSUME NEW d \in Deployments, HandlerNext(d) PROVE RecordInv(e)'
  <2>1. CASE e = d
    BY <1>1, <2>1, HandlerRecord
  <2>2. CASE e # d
    BY <1>1, <2>2, HandlerOthers, HandlerOtherRecords, RecordFrame DEF OthersKept, LoopState, RecordState
  <2> QED  BY <2>1, <2>2
<1>2. ASSUME NEW d \in Deployments, WorkerDies(d) PROVE RecordInv(e)'
  BY <1>2, RecordFrame DEF WorkerDies, RecordState
<1>3. ASSUME NEW d \in Deployments, NEW c \in Containers, WorkerNext(d, c) PROVE RecordInv(e)'
  BY <1>3, WorkerShape, RecordFrame DEF RecordState, handler
<1>4. CASE DeployNext
  BY <1>1, <1>2, <1>3, <1>4, RequestRecord DEF DeployNext
<1>5. CASE RouteNext \/ UNCHANGED vars
  <2>1. UNCHANGED <<up, job, pc, handler>>
    BY <1>5 DEF RouteNext, ListRead, ListWrite, StartAgent, StopAgent, DeleteAgent, SetLxc, vars
  <2> QED  BY <2>1, RecordFrame DEF RecordState, handler
<1> QED  BY <1>4, <1>5, ProcessRecord DEF Next

LEMMA RecordInit == Init => \A d \in Deployments : RecordInv(d)
<1> SUFFICES ASSUME Init, NEW d \in Deployments PROVE RecordInv(d)
  OBVIOUS
<1>1. job[d] = [NoJob EXCEPT !.status = "none"] /\ pc[d] = "idle"
  BY DEF Init, NoJob
<1>2. job[d].status = "none" /\ Counts(job[d]) /\ Accounted(d, job[d])
  BY <1>1, FreshCounts DEF JobStatus
<1> QED  BY <1>1, <1>2 DEF RecordInv, FreshRecord, Balance, RunningOpen, Active, InLoop

\* The invariant that carries the three theorems.
Accounting == TypeOK /\ DownQuiet /\ \A d \in Deployments : LoopInv(d) /\ RecordInv(d)

LEMMA AccountingAlways == Spec => []Accounting
<1>1. Init => Accounting
  BY InitType, LoopInit, RecordInit DEF Init, DownQuiet, Accounting
<1>2. Accounting /\ [Next]_vars => Accounting'
  BY StepType, DownStep, LoopStep, RecordStep DEF Accounting
<1> QED  BY <1>1, <1>2, PTL DEF Spec

\* The counters of every progress record agree with its rows: run_deployment_workers
\* records each container once, and drains step messages before it records.
THEOREM CountersAgree == Spec => []ProgressConsistent
<1>1. Accounting => ProgressConsistent
  BY DEF Accounting, RecordInv, Counts, ProgressConsistent
<1> QED  BY <1>1, AccountingAlways, PTL

\* A deployment that ends "completed" or "partial" has a result for every name,
\* whatever was cancelled, abandoned or lost with a worker.
THEOREM NothingUnaccounted == Spec => []FinishedAccounted
<1>1. Accounting => FinishedAccounted
  BY DEF Accounting, RecordInv, Accounted, FinishedAccounted
<1> QED  BY <1>1, AccountingAlways, PTL

\* A record is "running" exactly while its request is open, through evictions,
\* refusals, exceptions and restarts.
THEOREM RunningIsOpen == Spec => []OpenIsRunning
<1>1. Accounting => OpenIsRunning
  BY DEF Accounting, RecordInv, RunningOpen, OpenIsRunning
<1> QED  BY <1>1, AccountingAlways, PTL

-----------------------------------------------------------------------------
(* Workers inside containers. *)

\* A worker inside its container has made it, and while nobody else deletes it
\* there, it stays, and no other worker gets inside.
Inside(d, c) == worker[d][c] \in {"start", "install"}
InsideIsThere == \A d \in Deployments, c \in Containers : Inside(d, c) => lxc[c] # "absent"

ExclusiveInv == TypeOK /\ InsideIsThere /\ ExclusiveContainer

\* A step that lets no worker in and leaves the containers.
LEMMA NobodyEnters ==
    ASSUME InsideIsThere, ExclusiveContainer,
           \A c \in Containers :
              \/ \A d \in Deployments : ~Inside(d, c)'
              \/ lxc'[c] = lxc[c] /\ \A d \in Deployments : Inside(d, c)' => Inside(d, c)
    PROVE  InsideIsThere' /\ ExclusiveContainer'
BY DEF InsideIsThere, ExclusiveContainer, Inside

LEMMA HandlerStaysOut ==
    ASSUME ExclusiveInv, NEW d \in Deployments, DeployRequest(d) \/ HandlerNext(d) \/ WorkerDies(d)
    PROVE  InsideIsThere' /\ ExclusiveContainer'
<1>1. worker \in [Deployments -> [Containers -> WorkerPCs]]
    BY DEF ExclusiveInv, TypeOK
<1>2. lxc' = lxc
    BY DEF DeployRequest, HandlerNext, Prepare, PrepareRefused, LoopCheck, Abandon, Submitted, Wait, Drain,
           LoopAgain, Cancel, Submit, RecordDone, Finish, FinishRaised, WorkerDies
<1>3. \/ worker' = worker
      \/ \E c \in Containers : worker' = [worker EXCEPT ![d][c] = "check"]
      \/ \E lost \in SUBSET Containers :
            worker' = [worker EXCEPT ![d] = [c \in Containers |-> IF c \in lost THEN "returned" ELSE @[c]]]
  <2>1. CASE DeployRequest(d)
      BY <2>1 DEF DeployRequest, workers
  <2>2. CASE HandlerNext(d)
      BY <2>2 DEF HandlerNext, Prepare, PrepareRefused, LoopCheck, Abandon, Submitted, Wait, Drain,
                  LoopAgain, Cancel, Submit, RecordDone, Finish, FinishRaised, workers
  <2>3. CASE WorkerDies(d)
    <3>1. {c \in pending[d] : worker[d][c] # "returned"} \in SUBSET Containers
        BY DEF ExclusiveInv, TypeOK
    <3>2. QED
        BY <2>3, <3>1 DEF WorkerDies
  <2>4. QED
      BY <2>1, <2>2, <2>3
<1>4. \A c \in Containers : \A e \in Deployments : Inside(e, c)' => Inside(e, c)
    BY <1>1, <1>3 DEF Inside
<1>5. QED
    BY <1>2, <1>4, NobodyEnters DEF ExclusiveInv

\* What a worker's step does: it goes on, and what is in LXC under other names stays.
LEMMA WorkerGoesOn ==
    ASSUME ExclusiveInv, NEW d \in Deployments, NEW c \in Containers, WorkerNext(d, c)
    PROVE  /\ \A x \in Containers \ {c} :
                 lxc'[x] = lxc[x] /\ \A e \in Deployments : worker'[e][x] = worker[e][x]
           /\ \A e \in Deployments \ {d} : worker'[e][c] = worker[e][c]
           /\ \/ worker'[d][c] \notin {"start", "install"} /\ lxc'[c] = lxc[c]
              \/ worker[d][c] = "create" /\ lxc[c] = "absent" /\ lxc'[c] # "absent"
              \/ Inside(d, c) /\ worker'[d][c] \notin {"start", "install"}
              \/ worker[d][c] = "start" /\ lxc'[c] # "absent"
<1>1. worker \in [Deployments -> [Containers -> WorkerPCs]] /\ lxc \in [Containers -> LxcStates]
    BY DEF ExclusiveInv, TypeOK
<1>2. CASE CheckExisting(d, c)
    BY <1>1, <1>2 DEF CheckExisting, Returns, Continues, WorkerStep
<1>3. CASE CreateContainer(d, c)
    BY <1>1, <1>3 DEF CreateContainer, Returns, Continues, WorkerStep
<1>4. CASE StartContainer(d, c)
    BY <1>1, <1>4 DEF StartContainer, Destroy, Returns, Continues, WorkerStep, Inside
<1>5. CASE InstallAgent(d, c)
    BY <1>1, <1>5 DEF InstallAgent, Destroy, Returns, Continues, WorkerStep, Inside
<1>6. CASE DeployRaises(d, c)
    BY <1>1, <1>6 DEF DeployRaises, Returns, Continues, WorkerStep
<1>7. QED
    BY <1>2, <1>3, <1>4, <1>5, <1>6 DEF WorkerNext

LEMMA WorkerAlone ==
    ASSUME ExclusiveInv, NEW d \in Deployments, NEW c \in Containers, WorkerNext(d, c)
    PROVE  InsideIsThere' /\ ExclusiveContainer'
<1>1. /\ \A x \in Containers \ {c} :
            lxc'[x] = lxc[x] /\ \A e \in Deployments : Inside(e, x)' = Inside(e, x)
      /\ \A e \in Deployments \ {d} : Inside(e, c)' = Inside(e, c)
    BY WorkerGoesOn DEF Inside
<1>2. Inside(d, c) \/ lxc[c] = "absent" => \A e \in Deployments \ {d} : ~Inside(e, c)
    BY DEF ExclusiveInv, InsideIsThere, ExclusiveContainer, Inside
<1>3. \/ ~Inside(d, c)' /\ lxc'[c] = lxc[c]
      \/ (Inside(d, c) \/ lxc[c] = "absent") /\ (Inside(d, c)' => lxc'[c] # "absent")
    BY WorkerGoesOn DEF Inside
<1>4. \A e \in Deployments : Inside(e, c)' => lxc'[c] # "absent"
    BY <1>1, <1>2, <1>3 DEF ExclusiveInv, InsideIsThere
<1>5. \A e, f \in Deployments : Inside(e, c)' /\ Inside(f, c)' => e = f
    BY <1>1, <1>2, <1>3 DEF ExclusiveInv, ExclusiveContainer, Inside
<1>6. \A x \in Containers \ {c} : \A e, f \in Deployments : Inside(e, x)' /\ Inside(f, x)' => e = f
    BY <1>1 DEF ExclusiveInv, ExclusiveContainer, Inside
<1>7. QED
    BY <1>1, <1>4, <1>5, <1>6 DEF ExclusiveInv, InsideIsThere, ExclusiveContainer, Inside

LEMMA ProcessAlone ==
    ASSUME ExclusiveInv, ProcessNext
    PROVE  InsideIsThere' /\ ExclusiveContainer'
<1>1. CASE BeginShutdown \/ DeadlinePasses \/ Start
    BY <1>1, NobodyEnters DEF BeginShutdown, DeadlinePasses, Start, workers, Inside, ExclusiveInv
<1>2. CASE Exit \/ Crash
  <2>1. worker' = NoWorkers
      BY <1>2 DEF Exit, Crash, LoseMemory
  <2>2. \A c \in Containers : \A d \in Deployments : ~Inside(d, c)'
      BY <2>1 DEF NoWorkers, Inside
  <2>3. QED
      BY <2>2, NobodyEnters DEF ExclusiveInv
<1>3. QED
    BY <1>1, <1>2 DEF ProcessNext

\* While nobody touches containers by hand, a worker that is inside one is there
\* alone, for any deployments of any names and however they crash and restart
\* (deployment.py: _deploy_container's check, create and start).
THEOREM OneInside == UndisturbedSpec => []ExclusiveContainer
<1>1. Init => ExclusiveInv
  <2>1. Init => InsideIsThere /\ ExclusiveContainer
      BY DEF Init, NoWorkers, Inside, InsideIsThere, ExclusiveContainer
  <2>2. QED
      BY <2>1, InitType DEF ExclusiveInv
<1>2. ExclusiveInv /\ [DeployNext \/ ProcessNext]_vars => ExclusiveInv'
  <2> SUFFICES ASSUME ExclusiveInv, [DeployNext \/ ProcessNext]_vars
               PROVE  ExclusiveInv'
      OBVIOUS
  <2>1. TypeOK'
      BY StepType DEF ExclusiveInv, Next
  <2>2. CASE DeployNext
      BY <2>1, <2>2, HandlerStaysOut, WorkerAlone DEF DeployNext, ExclusiveInv
  <2>3. CASE ProcessNext
      BY <2>1, <2>3, ProcessAlone DEF ExclusiveInv
  <2>4. CASE UNCHANGED vars
      BY <2>1, <2>4, NobodyEnters DEF vars, workers, Inside, ExclusiveInv
  <2>5. QED
      BY <2>2, <2>3, <2>4
<1>3. ExclusiveInv => ExclusiveContainer
    BY DEF ExclusiveInv
<1>4. QED
    BY <1>1, <1>2, <1>3, PTL DEF UndisturbedSpec

-----------------------------------------------------------------------------
(* What a crash leaves in the database. *)

\* No two deployments ask for the same name: they have different base names.
NamesApart == \A d, e \in Deployments : d # e => Names[d] \cap Names[e] = {}

\* What is queued or submitted has been written as "starting", and stays that.
StartingInv ==
    /\ Accounting
    /\ up = "down" => queued = NoNames
    /\ \A d \in Deployments :
          /\ Open(d) \subseteq Names[d]
          /\ \A c \in queued[d] \cup pending[d] : meta[c] = "starting"

\* A deployment that hands out nothing new keeps its names as they were written.
LEMMA StartingFrame ==
    ASSUME StartingInv, NEW d \in Deployments, Open(d)' \subseteq Open(d),
           (queued[d] \cup pending[d])' \subseteq queued[d] \cup pending[d],
           \A c \in (queued[d] \cup pending[d])' : meta'[c] \in {meta[c], "starting"}
    PROVE  /\ Open(d)' \subseteq Names[d]
           /\ \A c \in (queued[d] \cup pending[d])' : meta'[c] = "starting"
BY DEF StartingInv

\* What is recorded for a container is written for that container.
LEMMA RecordMeta ==
    ASSUME TypeOK, NEW d \in Deployments, NEW c \in Containers, NEW r, Record(d, c, r)
    PROVE  \A x \in Containers \ {c} : meta'[x] = meta[x]
BY DEF Record, Persist, TypeOK

LEMMA HandlerStarting ==
    ASSUME NamesApart, StartingInv, NEW d \in Deployments, HandlerNext(d), NEW e \in Deployments
    PROVE  /\ Open(e)' \subseteq Names[e]
           /\ \A c \in (queued[e] \cup pending[e])' : meta'[c] = "starting"
<1>1. TypeOK /\ LoopInv(d) /\ Open(d) \subseteq Names[d] /\ Open(e) \subseteq Names[e]
    BY DEF StartingInv, Accounting
<1>2. Open(e) \subseteq Containers
    BY <1>1 DEF TypeOK, Open
<1>3. CASE e # d
  <2>1. UNCHANGED <<queued[e], pending[e], done[e]>>
      BY <1>1, <1>3, HandlerOthers DEF OthersKept, LoopState
  <2>2. \A c \in Names[e] \cap Containers : meta'[c] = meta[c]
    <3>1. CASE Prepare(d)
        BY <1>1, <1>3, <3>1 DEF Prepare, NamesApart, TypeOK
    <3>2. ASSUME NEW c \in Containers, Cancel(d, c) \/ RecordDone(d, c)
          PROVE  \A x \in Names[e] \cap Containers : meta'[x] = meta[x]
      <4>1. c \in Open(d)
          BY <3>2 DEF Cancel, RecordDone, Open
      <4>2. c \notin Names[e]
          BY <1>1, <1>3, <4>1 DEF NamesApart
      <4>3. QED
          BY <1>1, <3>2, <4>2, RecordMeta DEF Cancel, RecordDone
    <3>3. CASE meta' = meta
        BY <3>3
    <3>4. QED
        BY <3>1, <3>2, <3>3 DEF HandlerNext, PrepareRefused, LoopCheck, Abandon, Submitted, Wait, Drain,
              LoopAgain, Submit, Finish, FinishRaised
  <2>3. QED
      BY <1>1, <1>2, <2>1, <2>2, StartingFrame DEF Open
<1>4. CASE e = d
  <2>1. CASE Prepare(d)
    <3>1. queued[d] = {} /\ pending[d] = {} /\ done[d] = {}
        BY <1>1, <2>1 DEF Prepare, LoopInv, NotBegun
    <3>2. queued'[d] = Names[d] /\ pending'[d] = {} /\ done'[d] = {}
        BY <1>1, <2>1, <3>1 DEF Prepare, TypeOK
    <3>3. \A c \in Names[d] : meta'[c] = "starting"
        BY <2>1, NamesType DEF Prepare
    <3>4. QED
        BY <1>4, <3>2, <3>3 DEF Open
  <2>2. ASSUME NEW c \in Containers, Cancel(d, c)
        PROVE  /\ Open(e)' \subseteq Names[e]
               /\ \A x \in (queued[e] \cup pending[e])' : meta'[x] = "starting"
    <3>1. queued'[d] = queued[d] \ {c} /\ pending' = pending /\ done' = done
        BY <1>1, <2>2 DEF Cancel, TypeOK
    <3>2. c \notin pending[d]
        BY <1>1, <2>2 DEF Cancel, LoopInv, OnePlace, InLoop
    <3>3. \A x \in Containers \ {c} : meta'[x] = meta[x]
        BY <1>1, <2>2, RecordMeta DEF Cancel
    <3>4. QED
        BY <1>2, <1>4, <3>1, <3>2, <3>3, StartingFrame DEF Open
  <2>3. ASSUME NEW c \in Containers, RecordDone(d, c)
        PROVE  /\ Open(e)' \subseteq Names[e]
               /\ \A x \in (queued[e] \cup pending[e])' : meta'[x] = "starting"
    <3>1. done'[d] = done[d] \ {c} /\ UNCHANGED <<queued, pending>>
        BY <1>1, <2>3 DEF RecordDone, TypeOK
    <3>2. c \notin queued[d] \cup pending[d]
        BY <1>1, <2>3 DEF RecordDone, LoopInv, OnePlace, InLoop
    <3>3. \A x \in Containers \ {c} : meta'[x] = meta[x]
        BY <1>1, <2>3, RecordMeta DEF RecordDone
    <3>4. QED
        BY <1>2, <1>4, <3>1, <3>2, <3>3, StartingFrame DEF Open
  <2>4. ASSUME NEW c \in Containers, Submit(d, c)
        PROVE  /\ Open(d)' \subseteq Open(d) /\ meta' = meta
               /\ (queued[d] \cup pending[d])' \subseteq queued[d] \cup pending[d]
    <3>1. CASE broken[d]
        BY <1>1, <2>4, <3>1 DEF Submit, TypeOK, Open
    <3>2. CASE ~broken[d]
        BY <1>1, <2>4, <3>2 DEF Submit, TypeOK, Open
    <3>3. QED
        BY <3>1, <3>2
  <2>5. CASE Abandon(d) \/ Wait(d)
    <3>1. /\ Open(d)' \subseteq Open(d) /\ meta' = meta
          /\ (queued[d] \cup pending[d])' \subseteq queued[d] \cup pending[d]
        BY <1>1, <2>5 DEF Abandon, Wait, TypeOK, Open
    <3>2. QED
        BY <1>4, <3>1, StartingFrame
  <2>6. CASE UNCHANGED <<meta, queued, pending, done>>
      BY <1>4, <2>6, StartingFrame DEF Open
  <2>7. QED
      BY <1>4, <2>1, <2>2, <2>3, <2>4, <2>5, <2>6, StartingFrame
         DEF HandlerNext, PrepareRefused, LoopCheck, Submitted, Drain, LoopAgain, Finish, FinishRaised, handler
<1>5. QED
    BY <1>3, <1>4

\* Whatever is cut off while a container is being deployed, the next start marks
\* it as interrupted: while nobody lists containers, which writes over "starting"
\* (agent_info.py: get_agent_info), and no two deployments share names, for any
\* number of them (lifecycle.py: recover_interrupted_deployments).
THEOREM CutOffMarked ==
    ASSUME NamesApart
    PROVE  UndisturbedSpec => CutOffIsInterrupted
<1>1. Init => StartingInv
    BY InitType, LoopInit, RecordInit DEF Init, DownQuiet, Accounting, StartingInv, Open, NoNames
<1>2. StartingInv /\ [DeployNext \/ ProcessNext]_vars => StartingInv'
  <2> SUFFICES ASSUME StartingInv, [DeployNext \/ ProcessNext]_vars
               PROVE  StartingInv'
      OBVIOUS
  <2>1. Accounting'
      BY StepType, DownStep, LoopStep, RecordStep DEF Accounting, StartingInv, Next
  <2>0. (up = "down" => queued = NoNames)'
    <3>1. CASE DeployNext
      <4>1. ASSUME NEW d \in Deployments, DeployRequest(d) \/ HandlerNext(d) \/ WorkerDies(d)
            PROVE  up # "down" /\ up' = up
          BY <4>1 DEF DeployRequest, HandlerNext, WorkerDies, Prepare, PrepareRefused, LoopCheck, Abandon, Submitted,
                      Wait, Drain, LoopAgain, Cancel, Submit, RecordDone, Finish, FinishRaised
      <4>2. ASSUME NEW d \in Deployments, NEW c \in Containers, WorkerNext(d, c)
            PROVE  up # "down" /\ up' = up
          BY <4>2 DEF WorkerNext, CheckExisting, CreateContainer, StartContainer, InstallAgent, DeployRaises,
                      Returns, Continues, WorkerStep
      <4>3. QED
          BY <3>1, <4>1, <4>2 DEF DeployNext
    <3>2. CASE ProcessNext \/ UNCHANGED vars
        BY <3>2 DEF ProcessNext, BeginShutdown, DeadlinePasses, Exit, Crash, LoseMemory, Start, StartingInv, vars, handler
    <3>3. QED
        BY <3>1, <3>2
  <2> SUFFICES ASSUME NEW e \in Deployments
               PROVE  /\ Open(e)' \subseteq Names[e]
                      /\ \A c \in (queued[e] \cup pending[e])' : meta'[c] = "starting"
      BY <2>0, <2>1 DEF StartingInv
  <2>2. ASSUME NEW d \in Deployments, DeployRequest(d) \/ WorkerDies(d)
        PROVE  UNCHANGED <<meta, queued, pending, done>>
      BY <2>2 DEF DeployRequest, WorkerDies, handler
  <2>3. ASSUME NEW d \in Deployments, NEW c \in Containers, WorkerNext(d, c)
        PROVE  UNCHANGED <<meta, queued, pending, done>>
      BY <2>3 DEF WorkerNext, CheckExisting, CreateContainer, StartContainer, InstallAgent, DeployRaises,
                  Returns, Continues, WorkerStep, handler
  <2>4. CASE UNCHANGED <<meta, queued, pending, done>>
      BY <2>4, StartingFrame DEF Open
  <2>5. CASE DeployNext
      BY <2>2, <2>3, <2>4, <2>5, HandlerStarting DEF DeployNext
  <2>6. CASE BeginShutdown \/ DeadlinePasses \/ UNCHANGED vars
      BY <2>4, <2>6 DEF BeginShutdown, DeadlinePasses, vars, handler
  <2>7. CASE Exit \/ Crash
    <3>1. meta' = meta /\ pending' = pending /\ queued' = NoNames /\ done' = NoNames
        BY <2>7 DEF Exit, Crash, LoseMemory
    <3>2. QED
        BY <3>1, StartingFrame DEF Open, NoNames
  <2>8. CASE Start
    <3>1. pending'[e] = {} /\ queued'[e] = {} /\ queued[e] = {} /\ done' = done
        BY <2>8 DEF Start, NoNames, StartingInv
    <3>2. QED
        BY <3>1, StartingFrame DEF Open
  <2>9. QED
      BY <2>5, <2>6, <2>7, <2>8 DEF ProcessNext
<1>3. StartingInv /\ [DeployNext \/ ProcessNext]_vars
      => [Start => \A d \in Deployments : \A c \in pending[d] : meta'[c] = "interrupted"]_vars
  <2> SUFFICES ASSUME StartingInv, Start, NEW d \in Deployments, NEW c \in pending[d]
               PROVE  meta'[c] = "interrupted"
      OBVIOUS
  <2>1. meta[c] = "starting" /\ c \in Containers
      BY DEF StartingInv, Accounting, TypeOK
  <2>2. QED
      BY <2>1 DEF Start
<1>4. QED
    BY <1>1, <1>2, <1>3, PTL DEF UndisturbedSpec, CutOffIsInterrupted

=============================================================================
