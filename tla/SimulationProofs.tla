-------------------------- MODULE SimulationProofs --------------------------
(***************************************************************************)
(* What users stop stays stopped, what is announced is shown, what runs is *)
(* in progress, what was cut off is interrupted, and what is checked is    *)
(* asked: for any number of simulations, any duration, any number of       *)
(* checks, stops, crashes and restarts.                                    *)
(***************************************************************************)
EXTENDS Simulation, TLAPS

Active == {"running", "interrupted"}

\* A process that does not run has no runs, and one that runs has none without
\* a record; a run is over when it has the SIEM asked.
Quiet ==
    /\ ~up => /\ ~stopping /\ loop = "idle"
              /\ \A s \in Simulations : run[s] = "none" /\ mem[s].status = "none"
    /\ \A s \in Simulations :
          /\ mem[s].status = "none" => run[s] \in {"none", "done"}
          /\ s \in refused => run[s] \in {"none", "done"}
          /\ run[s] = "deciding" /\ ~seen[s] => ~IsRunning(s)
          /\ check[s]["run"] # "none" => run[s] = "done" /\ mem[s].status # "none"

\* A stop is saved before a user is told, and no attack run that saw "running" is
\* about to say otherwise.
StopSaved ==
    \A s \in told : kind[s] = "attack" =>
        /\ db[s].status \in {"stopped", "failed"}
        /\ up => mem[s].status \in {"stopped", "failed"}
        /\ loop = s => ~seen[s]

AnnouncedLast ==
    \A s \in Simulations : announced[s] # "none" =>
        /\ announced[s] \in Final
        /\ ~InProgress(s)

\* Whatever is running, or was when a stop began, is found so by the next process.
ActiveSaved ==
    \A s \in Simulations \ refused : up /\ mem[s].status \in Active => db[s].status \in Active

CutOffSaved ==
    \A s \in cut :
        /\ db[s].status \in Active
        /\ up => mem[s].status \in Active /\ ~InProgress(s)

Inv ==
    /\ TypeOK
    /\ Quiet
    /\ StopSaved
    /\ AnnouncedLast
    /\ AnnouncedIsShown
    /\ RunningIsInProgress
    /\ ActiveSaved
    /\ CutOffSaved
    /\ CutOffIsInterrupted
    /\ CheckingIsAsked

-----------------------------------------------------------------------------
USE SimulationsAreIds, DurationType
USE DEF IsRunning, InProgress, Sending, Final, Active

LEMMA NoRecordType == NoRecord \in Record
  BY DEF NoRecord, Record, Status, Detection

\* Assigning a status in place.
LEMMA SetStatusFacts ==
    ASSUME TypeOK, NEW s \in Simulations, NEW status \in Status, SetStatus(s, status)
    PROVE  /\ mem' \in [Simulations -> Record]
           /\ mem'[s].status = status /\ mem'[s].detection = mem[s].detection
           /\ \A t \in Simulations \ {s} : mem'[t] = mem[t]
<1>1. mem[s] \in Record
  BY DEF TypeOK
<1>2. [mem[s] EXCEPT !.status = status] = [status |-> status, detection |-> mem[s].detection]
  BY <1>1 DEF Record
<1>3. [mem[s] EXCEPT !.status = status] \in Record
  BY <1>1, <1>2 DEF Record
<1> QED  BY <1>1, <1>2, <1>3 DEF SetStatus, TypeOK

\* Assigning the status of a detection in place.
LEMMA SetDetectionFacts ==
    ASSUME TypeOK, NEW s \in Simulations, NEW status \in Detection, SetDetection(s, status)
    PROVE  /\ mem' \in [Simulations -> Record]
           /\ mem'[s].detection = status /\ mem'[s].status = mem[s].status
           /\ \A t \in Simulations \ {s} : mem'[t] = mem[t]
<1>1. mem[s] \in Record
  BY DEF TypeOK
<1>2. [mem[s] EXCEPT !.detection = status] = [status |-> mem[s].status, detection |-> status]
  BY <1>1 DEF Record
<1>3. [mem[s] EXCEPT !.detection = status] \in Record
  BY <1>1, <1>2 DEF Record
<1> QED  BY <1>1, <1>2, <1>3 DEF SetDetection, TypeOK

LEMMA RecordFacts ==
    ASSUME TypeOK
    PROVE  \A s \in Simulations : mem[s] \in Record /\ mem[s].status \in Status /\ mem[s].detection \in Detection
                              /\ db[s] \in Record /\ db[s].status \in Status /\ db[s].detection \in Detection
  BY DEF TypeOK, Record


\* The end of a run: its outcome is announced.
LEMMA EndsFacts ==
    ASSUME TypeOK, NEW s \in Simulations, NEW state \in {"waiting", "done"}, Ends(s, state),
           mem'[s].status \in Final
    PROVE  /\ run' \in [Simulations -> Sending \cup {"none", "waiting", "done"}]
           /\ run'[s] = state /\ \A t \in Simulations \ {s} : run'[t] = run[t]
           /\ announced' \in [Simulations -> {"none"} \cup Final]
           /\ announced'[s] = mem'[s].status /\ \A t \in Simulations \ {s} : announced'[t] = announced[t]
           /\ seconds' \in [Simulations -> 0 .. Duration]
           /\ wrote' \in [Simulations -> BOOLEAN]
           /\ seen' \in [Simulations -> BOOLEAN]
           /\ \A t \in Simulations \ {s} : seen'[t] = seen[t]
<1>1. 0 \in 0 .. Duration
  BY DurationType
<1> QED  BY <1>1 DEF TypeOK, Ends, SetRun

-----------------------------------------------------------------------------
(* Steps that several actions take                                          *)

\* A run goes on: it sends, or reads the status for the last time.
LEMMA GoesOn ==
    ASSUME Inv, NEW s \in Simulations, NEW state \in Sending, up,
           run[s] \in Sending, run[s] # "deciding", SetRun(s, state),
           state = "deciding" /\ kind[s] = "attack" => loop = "idle",
           loop' = (IF state = "deciding" /\ kind[s] = "attack" THEN s ELSE loop),
           seen' = (IF state = "deciding" THEN [seen EXCEPT ![s] = IsRunning(s)] ELSE seen),
           seconds' \in [Simulations -> 0 .. Duration],
           wrote' \in [Simulations -> BOOLEAN],
           UNCHANGED <<up, stopping, mem, db, kind, check, told, refused, announced, cut, raised>>
    PROVE  Inv'
<1>1. TypeOK'
  <2>1. seen' \in [Simulations -> BOOLEAN]
    BY DEF Inv, TypeOK
  <2>2. run' \in [Simulations -> Sending \cup {"none", "waiting", "done"}]
    BY DEF Inv, TypeOK, SetRun
  <2>3. \A t \in Simulations : loop' = t <=> run'[t] = "deciding" /\ kind'[t] = "attack"
    BY DEF Inv, TypeOK, SetRun
  <2> QED  BY <2>1, <2>2, <2>3 DEF Inv, TypeOK
<1>2. /\ run'[s] = state /\ \A t \in Simulations \ {s} : run'[t] = run[t]
      /\ seen'[s] = (IF state = "deciding" THEN IsRunning(s) ELSE seen[s])
      /\ \A t \in Simulations \ {s} : seen'[t] = seen[t]
  BY DEF Inv, TypeOK, SetRun
<1>3. Quiet'
  BY <1>2, ZenonT(30) DEF Inv, Quiet
<1>4. StopSaved'
  BY <1>2 DEF Inv, TypeOK, StopSaved
<1>5. AnnouncedLast' /\ AnnouncedIsShown'
  BY <1>2 DEF Inv, AnnouncedLast, AnnouncedIsShown, Shown
<1>6. RunningIsInProgress'
  BY <1>2 DEF Inv, RunningIsInProgress
<1>7. ActiveSaved' /\ CheckingIsAsked'
  BY DEF Inv, ActiveSaved, CheckingIsAsked
<1>8. CutOffSaved' /\ CutOffIsInterrupted'
  BY <1>2 DEF Inv, TypeOK, CutOffSaved, CutOffIsInterrupted
<1> QED  BY <1>1, <1>3, <1>4, <1>5, <1>6, <1>7, <1>8 DEF Inv

\* A run ends, with an outcome that does not go back on a stop.
LEMMA IsOver ==
    ASSUME Inv, NEW s \in Simulations, NEW status \in Final, NEW state \in {"waiting", "done"}, up,
           run[s] \in Sending, SetStatus(s, status), Ends(s, state),
           run[s] = "deciding" /\ kind[s] = "attack" <=> loop = s,
           loop' = (IF loop = s THEN "idle" ELSE loop),
           s \in told /\ kind[s] = "attack" => status \in {"stopped", "failed"},
           status = "interrupted" => mem[s].status \in Active,
           UNCHANGED <<up, stopping, db, kind, check, told, refused, cut, raised>>
    PROVE  Inv'
<1>1. /\ mem' \in [Simulations -> Record]
      /\ mem'[s].status = status /\ mem'[s].detection = mem[s].detection
      /\ \A t \in Simulations \ {s} : mem'[t] = mem[t]
  BY SetStatusFacts DEF Inv, Status
<1>2. /\ run' \in [Simulations -> Sending \cup {"none", "waiting", "done"}]
      /\ run'[s] = state /\ \A t \in Simulations \ {s} : run'[t] = run[t]
      /\ announced' \in [Simulations -> {"none"} \cup Final]
      /\ announced'[s] = status /\ \A t \in Simulations \ {s} : announced'[t] = announced[t]
      /\ seconds' \in [Simulations -> 0 .. Duration]
      /\ wrote' \in [Simulations -> BOOLEAN]
      /\ seen' \in [Simulations -> BOOLEAN]
      /\ \A t \in Simulations \ {s} : seen'[t] = seen[t]
  BY <1>1, EndsFacts DEF Inv
<1>3. TypeOK'
  <2>1. \A t \in Simulations : loop' = t <=> run'[t] = "deciding" /\ kind'[t] = "attack"
    BY <1>2, SimulationsAreIds DEF Inv, TypeOK
  <2> QED  BY <1>1, <1>2, <2>1 DEF Inv, TypeOK
<1>4. s \notin refused /\ s \notin cut
  BY DEF Inv, Quiet, CutOffSaved
<1>5. Quiet'
  BY <1>1, <1>2, <1>4 DEF Inv, Quiet
<1>6. StopSaved'
  BY <1>1, <1>2, SimulationsAreIds DEF Inv, TypeOK, StopSaved
<1>7. AnnouncedLast' /\ AnnouncedIsShown'
  BY <1>1, <1>2 DEF Inv, AnnouncedLast, AnnouncedIsShown, Shown
<1>8. RunningIsInProgress'
  BY <1>1, <1>2, <1>4, SimulationsAreIds DEF Inv, TypeOK, RunningIsInProgress
<1>9. ActiveSaved'
  BY <1>1, <1>4 DEF Inv, ActiveSaved
<1>10. CutOffSaved' /\ CutOffIsInterrupted'
  BY <1>1, <1>2, <1>4, SimulationsAreIds DEF Inv, TypeOK, CutOffSaved, CutOffIsInterrupted
<1>11. CheckingIsAsked'
  BY <1>1 DEF Inv, CheckingIsAsked
<1> QED  BY <1>3, <1>5, <1>6, <1>7, <1>8, <1>9, <1>10, <1>11 DEF Inv

\* Syslog threads end while the main thread writes their status.
LEMMA EndsMeanwhileFacts ==
    ASSUME TypeOK, NEW ended \in SUBSET {s \in Simulations : MayEndMeanwhile(s)}, EndsMeanwhile(ended), Quiet
    PROVE  /\ run' \in [Simulations -> Sending \cup {"none", "waiting", "done"}]
           /\ announced' \in [Simulations -> {"none"} \cup Final]
           /\ seconds' \in [Simulations -> 0 .. Duration]
           /\ wrote' \in [Simulations -> BOOLEAN] /\ seen' \in [Simulations -> BOOLEAN]
           /\ \A s \in Simulations :
                 \/ s \in ended /\ MayEndMeanwhile(s) /\ run'[s] = "done" /\ announced'[s] \in Final
                 \/ s \notin ended /\ run'[s] = run[s] /\ announced'[s] = announced[s] /\ seen'[s] = seen[s]
<1>1. \A s \in ended : s \in Simulations /\ MayEndMeanwhile(s)
  OBVIOUS
<1>2. \A s \in ended : run[s] = "deciding" => Outcome(s) \in Final
  BY <1>1 DEF Quiet, Outcome, MayEndMeanwhile
<1>3. announced' \in [Simulations -> {"none"} \cup Final]
  BY <1>2 DEF TypeOK, EndsMeanwhile
<1>4. seconds' \in [Simulations -> 0 .. Duration]
  <2>1. 0 \in 0 .. Duration
    BY DurationType
  <2> QED  BY <2>1 DEF TypeOK, EndsMeanwhile
<1>5. wrote' \in [Simulations -> BOOLEAN] /\ seen' \in [Simulations -> BOOLEAN]
  BY DEF TypeOK, EndsMeanwhile
<1>6. run' \in [Simulations -> Sending \cup {"none", "waiting", "done"}]
  BY DEF TypeOK, EndsMeanwhile
<1>7. \A s \in Simulations :
         \/ s \in ended /\ run'[s] = "done" /\ announced'[s] \in Final
         \/ s \notin ended /\ run'[s] = run[s] /\ announced'[s] = announced[s] /\ seen'[s] = seen[s]
  BY <1>2 DEF EndsMeanwhile
<1> QED  BY <1>1, <1>3, <1>4, <1>5, <1>6, <1>7

\* A detection is marked, and the mark is saved now or with the next flush.
LEMMA IsMarked ==
    ASSUME Inv, NEW s \in Simulations, NEW status \in Detection, up,
           SetDetection(s, status), MayBeSaved(s),
           check' \in [Simulations -> [Checkers -> {"none", "begun", "asking"}]],
           \A t \in Simulations \ {s} : check'[t] = check[t],
           check[s]["run"] = "none" => check'[s]["run"] = "none",
           raised' \subseteq Simulations,
           \A t \in Simulations \ {s} : t \in raised => t \in raised',
           status = "checking" => s \in raised' \/ \E c \in Checkers : check'[s][c] = "asking",
           run' = run \/ (run[s] = "waiting" /\ SetRun(s, "done")),
           UNCHANGED <<up, stopping, loop, kind, seconds, wrote, seen, told, refused, announced, cut>>
    PROVE  Inv'
<1>1. /\ mem' \in [Simulations -> Record]
      /\ mem'[s].detection = status
      /\ \A t \in Simulations : mem'[t].status = mem[t].status
      /\ \A t \in Simulations \ {s} : mem'[t] = mem[t]
  BY SetDetectionFacts DEF Inv
<1>2. /\ db' \in [Simulations -> Record]
      /\ \A t \in Simulations : db'[t].status = db[t].status \/ db'[t].status = mem[t].status
      /\ \A t \in Simulations \ {s} : db'[t] = db[t]
  <2>1. CASE Saved(s)
    BY <1>1, <2>1 DEF Inv, TypeOK, Saved
  <2>2. CASE UNCHANGED db
    BY <2>2 DEF Inv, TypeOK
  <2> QED  BY <2>1, <2>2 DEF MayBeSaved
<1>3. /\ run' \in [Simulations -> Sending \cup {"none", "waiting", "done"}]
      /\ \A t \in Simulations : run'[t] = run[t] \/ (run[t] = "waiting" /\ run'[t] = "done")
  BY DEF Inv, TypeOK, SetRun
<1>4. TypeOK'
  BY <1>1, <1>2, <1>3 DEF Inv, TypeOK
<1>5. Quiet'
  BY <1>1, <1>3 DEF Inv, Quiet
<1>6. StopSaved'
  <2>1. told \subseteq Simulations
    BY DEF Inv, TypeOK
  <2> QED  BY <1>1, <1>2, <2>1 DEF Inv, StopSaved
<1>7. AnnouncedLast' /\ AnnouncedIsShown'
  BY <1>1, <1>3 DEF Inv, AnnouncedLast, AnnouncedIsShown, Shown
<1>8. RunningIsInProgress'
  BY <1>1, <1>3 DEF Inv, RunningIsInProgress
<1>9. ActiveSaved'
  BY <1>1, <1>2 DEF Inv, ActiveSaved
<1>10. CutOffSaved' /\ CutOffIsInterrupted'
  <2>1. cut \subseteq Simulations
    BY DEF Inv, TypeOK
  <2>2. \A t \in cut : db'[t].status \in Active
    BY <1>2, <2>1 DEF Inv, CutOffSaved
  <2>3. \A t \in cut : mem'[t].status \in Active /\ ~InProgress(t)'
    BY <1>1, <1>3, <2>1 DEF Inv, CutOffSaved
  <2>4. CutOffIsInterrupted'
    BY <1>1, <2>1 DEF Inv, CutOffIsInterrupted
  <2> QED  BY <2>2, <2>3, <2>4 DEF CutOffSaved
<1>11. CheckingIsAsked'
  BY <1>1 DEF Inv, CheckingIsAsked
<1> QED  BY <1>4, <1>5, <1>6, <1>7, <1>8, <1>9, <1>10, <1>11 DEF Inv

\* A running simulation is stopped, and the user is told if that was saved.
LEMMA IsStopped ==
    ASSUME Inv, NEW s \in Simulations, OnLoop, IsRunning(s), SetStatus(s, "stopped"),
           \/ Saved(s) /\ told' = told \cup {s}
           \/ db' = db /\ told' = told,
           UNCHANGED <<process, kind, run, local, check, refused, announced, cut, raised>>
    PROVE  Inv'
<1> USE DEF OnLoop, process, local
<1>1. /\ mem' \in [Simulations -> Record]
      /\ mem'[s].status = "stopped" /\ mem'[s].detection = mem[s].detection
      /\ \A t \in Simulations \ {s} : mem'[t] = mem[t]
  BY SetStatusFacts DEF Inv, Status
<1>2. /\ db' \in [Simulations -> Record]
      /\ \A t \in Simulations \ {s} : db'[t] = db[t] /\ (t \in told' => t \in told)
      /\ db'[s] = mem'[s] \/ (db'[s] = db[s] /\ (s \in told' => s \in told))
  BY <1>1 DEF Inv, TypeOK, Saved
<1>3. TypeOK'
  <2>1. told' \subseteq Simulations
    BY DEF Inv, TypeOK
  <2> QED  BY <1>1, <1>2, <2>1 DEF Inv, TypeOK
<1>4. s \notin cut /\ announced[s] = "none" /\ loop # s
  BY SimulationsAreIds DEF Inv, CutOffIsInterrupted, AnnouncedLast, AnnouncedIsShown, Shown
<1>5. Quiet'
  BY <1>1 DEF Inv, Quiet
<1>6. StopSaved'
  <2>1. told' \subseteq Simulations
    BY <1>3 DEF TypeOK
  <2>2. \A t \in told' : t \in told \/ t = s
    OBVIOUS
  <2> QED  BY <1>1, <1>2, <1>4, <2>1, <2>2 DEF Inv, StopSaved
<1>7. AnnouncedLast' /\ AnnouncedIsShown'
  BY <1>1, <1>4 DEF Inv, AnnouncedLast, AnnouncedIsShown, Shown
<1>8. RunningIsInProgress'
  BY <1>1 DEF Inv, RunningIsInProgress
<1>9. ActiveSaved'
  BY <1>1, <1>2 DEF Inv, ActiveSaved
<1>10. CutOffSaved' /\ CutOffIsInterrupted'
  BY <1>1, <1>2, <1>4 DEF Inv, TypeOK, CutOffSaved, CutOffIsInterrupted
<1>11. CheckingIsAsked'
  BY <1>1 DEF Inv, CheckingIsAsked
<1> QED  BY <1>3, <1>5, <1>6, <1>7, <1>8, <1>9, <1>10, <1>11 DEF Inv

\* A check begins, or ends without marking the detection.
LEMMA CheckMoves ==
    ASSUME Inv, NEW s \in Simulations, NEW c \in Checkers, NEW state \in {"none", "begun"}, up,
           SetCheck(s, c, state),
           \/ check[s][c] # "asking" /\ raised' = raised
           \/ raised' = raised \cup {s},
           \/ run' = run /\ (c = "run" => state = "none")
           \/ run[s] = "waiting" /\ SetRun(s, "done"),
           UNCHANGED <<process, record, kind, local, told, refused, announced, cut>>
    PROVE  Inv'
<1> USE DEF process, record, local
<1>1. /\ run' \in [Simulations -> Sending \cup {"none", "waiting", "done"}]
      /\ \A t \in Simulations : run'[t] = run[t] \/ (run[t] = "waiting" /\ run'[t] = "done")
  BY DEF Inv, TypeOK, SetRun
<1>2. /\ check' \in [Simulations -> [Checkers -> {"none", "begun", "asking"}]]
      /\ \A t \in Simulations, d \in Checkers :
            check[t][d] = "asking" => check'[t][d] = "asking" \/ (t = s /\ d = c)
  BY DEF Inv, TypeOK, SetCheck
<1>3. TypeOK'
  BY <1>1, <1>2 DEF Inv, TypeOK
<1>4. Quiet'
  <2>1. \A t \in Simulations : check'[t]["run"] # "none" =>
           \/ check[t]["run"] # "none"
           \/ run[t] = "waiting" /\ run'[t] = "done"
    BY DEF Inv, TypeOK, SetCheck, SetRun, Checkers
  <2> QED  BY <1>1, <2>1 DEF Inv, Quiet
<1>5. StopSaved'
  BY DEF Inv, StopSaved
<1>6. AnnouncedLast' /\ AnnouncedIsShown'
  BY <1>1 DEF Inv, AnnouncedLast, AnnouncedIsShown, Shown
<1>7. RunningIsInProgress'
  BY <1>1 DEF Inv, RunningIsInProgress
<1>8. ActiveSaved'
  BY DEF Inv, ActiveSaved
<1>9. CutOffSaved' /\ CutOffIsInterrupted'
  BY <1>1 DEF Inv, TypeOK, CutOffSaved, CutOffIsInterrupted
<1>10. CheckingIsAsked'
  BY <1>2 DEF Inv, CheckingIsAsked
<1> QED  BY <1>3, <1>4, <1>5, <1>6, <1>7, <1>8, <1>9, <1>10 DEF Inv

-----------------------------------------------------------------------------
(* Every action *)

LEMMA InitInv == Init => Inv
<1> SUFFICES ASSUME Init PROVE Inv
  OBVIOUS
<1>1. TypeOK
  <2>1. mem \in [Simulations -> Record] /\ db \in [Simulations -> Record]
    BY NoRecordType DEF Init
  <2>2. seconds \in [Simulations -> 0 .. Duration]
    BY DurationType DEF Init
  <2>3. check \in [Simulations -> [Checkers -> {"none", "begun", "asking"}]]
    BY DEF Init
  <2>4. \A s \in Simulations : loop # s /\ run[s] # "deciding"
    BY SimulationsAreIds DEF Init
  <2> QED  BY <2>1, <2>2, <2>3, <2>4 DEF Init, TypeOK
<1> QED
  BY <1>1 DEF Init, Inv, NoRecord, Checkers, Quiet, StopSaved, AnnouncedLast, AnnouncedIsShown, Shown, RunningIsInProgress,
              ActiveSaved, CutOffSaved, CutOffIsInterrupted, CheckingIsAsked

\* A simulation that starts is in progress and saved.
LEMMA StartInv == ASSUME Inv, NEW s \in Simulations, NEW plan \in BOOLEAN, Start(s, plan) PROVE Inv'
<1> USE DEF OnLoop, process, record, local, history
<1>1. NewRecord(plan) \in Record /\ NewRecord(plan).status = "running" /\ NewRecord(plan).detection # "checking"
  BY DEF NewRecord, Record, Status, Detection
<1>2. mem' \in [Simulations -> Record] /\ db' \in [Simulations -> Record]
  BY <1>1 DEF Inv, TypeOK, Start
<1>3. /\ mem'[s] = NewRecord(plan) /\ db'[s] = NewRecord(plan) /\ run'[s] = "queued"
      /\ \A t \in Simulations \ {s} : mem'[t] = mem[t] /\ db'[t] = db[t] /\ run'[t] = run[t]
  BY DEF Inv, TypeOK, Start, SetRun
<1>4. run' \in [Simulations -> Sending \cup {"none", "waiting", "done"}]
  BY DEF Inv, TypeOK, Start, SetRun
<1>5. mem[s].status = "none" /\ db[s].status = "none" /\ run[s] # "deciding" /\ s \notin refused
  BY DEF Inv, Quiet, Start, New, NoRecord
<1>6. s \notin cut /\ announced[s] = "none" /\ (kind[s] = "attack" => s \notin told)
  BY <1>5 DEF Inv, StopSaved, AnnouncedIsShown, Shown, CutOffSaved, Start
<1>7. TypeOK'
  BY <1>2, <1>3, <1>4, <1>5 DEF Inv, TypeOK, Start
<1>8. Quiet'
  BY <1>1, <1>3, <1>5 DEF Inv, Quiet, Start
<1>9. StopSaved'
  <2>1. told \subseteq Simulations
    BY DEF Inv, TypeOK
  <2> QED  BY <1>3, <1>6, <2>1 DEF Inv, StopSaved, Start
<1>10. AnnouncedLast' /\ AnnouncedIsShown'
  BY <1>3, <1>6 DEF Inv, AnnouncedLast, AnnouncedIsShown, Shown, Start
<1>11. RunningIsInProgress'
  BY <1>3 DEF Inv, RunningIsInProgress, Start
<1>12. ActiveSaved'
  BY <1>1, <1>3 DEF Inv, ActiveSaved, Start
<1>13. CutOffSaved' /\ CutOffIsInterrupted'
  <2>1. cut \subseteq Simulations
    BY DEF Inv, TypeOK
  <2> QED  BY <1>3, <1>6, <2>1 DEF Inv, CutOffSaved, CutOffIsInterrupted, Start
<1>14. CheckingIsAsked'
  BY <1>1, <1>3 DEF Inv, CheckingIsAsked, Start
<1> QED  BY <1>7, <1>8, <1>9, <1>10, <1>11, <1>12, <1>13, <1>14 DEF Inv

\* One that was refused does not run.
LEMMA StartFailsInv == ASSUME Inv, NEW s \in Simulations, NEW plan \in BOOLEAN, StartFails(s, plan) PROVE Inv'
<1> USE DEF OnLoop, process, record, local, history
<1>1. NewRecord(plan) \in Record /\ NewRecord(plan).status = "running" /\ NewRecord(plan).detection # "checking"
  BY DEF NewRecord, Record, Status, Detection
<1>2. mem' \in [Simulations -> Record]
  BY <1>1 DEF Inv, TypeOK, StartFails
<1>3. mem'[s] = NewRecord(plan) /\ \A t \in Simulations \ {s} : mem'[t] = mem[t]
  BY DEF Inv, TypeOK, StartFails
<1>4. mem[s].status = "none" /\ db[s].status = "none" /\ run[s] \in {"none", "done"}
  BY DEF Inv, Quiet, StartFails, New, NoRecord
<1>5. s \notin cut /\ announced[s] = "none" /\ (kind[s] = "attack" => s \notin told)
  BY <1>4 DEF Inv, StopSaved, AnnouncedIsShown, Shown, CutOffSaved, StartFails
<1>6. TypeOK'
  BY <1>2 DEF Inv, TypeOK, StartFails
<1>7. Quiet'
  BY <1>1, <1>3, <1>4 DEF Inv, Quiet, StartFails
<1>8. StopSaved'
  <2>1. told \subseteq Simulations
    BY DEF Inv, TypeOK
  <2> QED  BY <1>3, <1>5, <2>1 DEF Inv, StopSaved, StartFails
<1>9. AnnouncedLast' /\ AnnouncedIsShown'
  BY <1>3, <1>5 DEF Inv, AnnouncedLast, AnnouncedIsShown, Shown, StartFails
<1>10. RunningIsInProgress' /\ ActiveSaved'
  BY <1>3 DEF Inv, RunningIsInProgress, ActiveSaved, StartFails
<1>11. CutOffSaved' /\ CutOffIsInterrupted'
  <2>1. cut \subseteq Simulations
    BY DEF Inv, TypeOK
  <2> QED  BY <1>3, <1>5, <2>1 DEF Inv, CutOffSaved, CutOffIsInterrupted, StartFails
<1>12. CheckingIsAsked'
  BY <1>1, <1>3 DEF Inv, CheckingIsAsked, StartFails
<1> QED  BY <1>6, <1>7, <1>8, <1>9, <1>10, <1>11, <1>12 DEF Inv

\* A stop that a syslog run was about to precede.
LEMMA StopMeanwhileInv == ASSUME Inv, NEW s \in Simulations, StopMeanwhile(s) PROVE Inv'
<1> USE DEF OnLoop, process
<1>1. /\ mem' \in [Simulations -> Record]
      /\ mem'[s].status = "stopped" /\ mem'[s].detection = mem[s].detection
      /\ \A t \in Simulations \ {s} : mem'[t] = mem[t]
  BY SetStatusFacts DEF Inv, Status, StopMeanwhile
<1>2. /\ db' \in [Simulations -> Record] /\ db'[s] = mem'[s]
      /\ \A t \in Simulations \ {s} : db'[t] = db[t]
  <2>1. db' = [db EXCEPT ![s] = mem'[s]]
    BY DEF StopMeanwhile
  <2>2. db \in [Simulations -> Record] /\ mem'[s] \in Record
    BY <1>1 DEF Inv, TypeOK
  <2> QED  BY <2>1, <2>2
<1>3. {s} \in SUBSET {t \in Simulations : MayEndMeanwhile(t)}
  BY DEF StopMeanwhile
<1>4. /\ run' \in [Simulations -> Sending \cup {"none", "waiting", "done"}]
      /\ announced' \in [Simulations -> {"none"} \cup Final]
      /\ seconds' \in [Simulations -> 0 .. Duration]
      /\ wrote' \in [Simulations -> BOOLEAN] /\ seen' \in [Simulations -> BOOLEAN]
      /\ run'[s] = "done" /\ announced'[s] \in Final
      /\ \A t \in Simulations \ {s} : run'[t] = run[t] /\ announced'[t] = announced[t] /\ seen'[t] = seen[t]
  BY <1>3, EndsMeanwhileFacts DEF Inv, StopMeanwhile
<1>5. /\ told' \subseteq Simulations /\ told' = told \cup {s} /\ kind[s] = "syslog" /\ run[s] \in Sending
      /\ IsRunning(s) /\ s \notin cut /\ loop # s
  BY SimulationsAreIds DEF Inv, TypeOK, CutOffIsInterrupted, StopMeanwhile, MayEndMeanwhile
<1>6. TypeOK'
  <2>1. \A t \in Simulations : loop' = t <=> run'[t] = "deciding" /\ kind'[t] = "attack"
    BY <1>4, <1>5 DEF Inv, TypeOK, StopMeanwhile
  <2> QED  BY <1>1, <1>2, <1>4, <1>5, <2>1 DEF Inv, TypeOK, StopMeanwhile
<1>7. Quiet'
  BY <1>1, <1>4, <1>5 DEF Inv, Quiet, StopMeanwhile
<1>8. StopSaved'
  <2>1. \A t \in told' : t = s \/ (t \in told /\ t \in Simulations \ {s})
    BY <1>5
  <2> QED  BY <1>1, <1>2, <1>4, <1>5, <2>1 DEF Inv, StopSaved, StopMeanwhile
<1>9. AnnouncedLast' /\ AnnouncedIsShown'
  BY <1>1, <1>4, <1>5 DEF Inv, AnnouncedLast, AnnouncedIsShown, Shown, StopMeanwhile
<1>10. RunningIsInProgress' /\ ActiveSaved'
  BY <1>1, <1>2, <1>4 DEF Inv, RunningIsInProgress, ActiveSaved, StopMeanwhile
<1>11. CutOffSaved' /\ CutOffIsInterrupted'
  <2>1. cut \subseteq Simulations \ {s}
    BY <1>5 DEF Inv, TypeOK
  <2> QED  BY <1>1, <1>2, <1>4, <2>1 DEF Inv, CutOffSaved, CutOffIsInterrupted, StopMeanwhile
<1>12. CheckingIsAsked'
  BY <1>1 DEF Inv, CheckingIsAsked, StopMeanwhile
<1> QED  BY <1>6, <1>7, <1>8, <1>9, <1>10, <1>11, <1>12 DEF Inv

\* Users stop what runs, and have the SIEM asked.
LEMMA RequestInv == ASSUME Inv, NEW s \in Simulations, RequestNext(s) PROVE Inv'
<1>1. ASSUME NEW plan \in BOOLEAN, Start(s, plan) PROVE Inv'
  BY <1>1, StartInv
<1>2. ASSUME NEW plan \in BOOLEAN, StartFails(s, plan) PROVE Inv'
  BY <1>2, StartFailsInv
<1>3. CASE Stop(s)
  BY <1>3, IsStopped DEF Stop, Saved
<1>4. CASE StopFails(s)
  BY <1>4, IsStopped DEF StopFails, history
<1>5. CASE RequestCheck(s)
  <2>1. "request" \in Checkers
    BY DEF Checkers
  <2> QED  BY <1>5, <2>1, CheckMoves DEF RequestCheck, SetCheck, OnLoop, history
<1> QED  BY <1>1, <1>2, <1>3, <1>4, <1>5, StopMeanwhileInv DEF RequestNext

\* A run sends, reads the status, and ends with what it read or what the status is.
LEMMA RunInv == ASSUME Inv, NEW s \in Simulations, RunNext(s) PROVE Inv'
<1> USE DEF OnLoop, process, record, local, history
<1>1. CASE AttackSends(s)
  <2>1. seconds' \in [Simulations -> 0 .. Duration]
    BY <1>1, DurationType DEF Inv, TypeOK, AttackSends
  <2> QED  BY <1>1, <2>1, GoesOn DEF Inv, TypeOK, AttackSends
<1>2. ASSUME NEW arrived \in BOOLEAN, AttackSent(s, arrived) PROVE Inv'
  <2>1. wrote' \in [Simulations -> BOOLEAN]
    BY <1>2 DEF Inv, TypeOK, AttackSent
  <2> QED  BY <1>2, <2>1, GoesOn DEF Inv, TypeOK, AttackSent
<1>3. CASE AttackOver(s)
  BY <1>3, GoesOn DEF Inv, TypeOK, AttackOver
<1>4. CASE CustomSends(s)
  BY <1>4, GoesOn DEF Inv, TypeOK, CustomSends
<1>5. CASE SyslogBegins(s)
  BY <1>5, GoesOn DEF Inv, TypeOK, SyslogBegins
<1>6. ASSUME NEW arrived \in BOOLEAN, SyslogSends(s, arrived) PROVE Inv'
  <2>1. seconds' \in [Simulations -> 0 .. Duration] /\ wrote' \in [Simulations -> BOOLEAN]
    BY <1>6, DurationType DEF Inv, TypeOK, SyslogSends
  <2>2. SetRun(s, "sending")
    BY <1>6 DEF Inv, TypeOK, SyslogSends, SetRun
  <2> QED  BY <1>6, <2>1, <2>2, GoesOn DEF Inv, TypeOK, SyslogSends
<1>7. CASE SyslogOver(s)
  BY <1>7, GoesOn DEF Inv, TypeOK, SyslogOver
<1>8. (mem[s].status # "none" /\ mem[s].status \in Status) \/ run[s] \in {"none", "done"}
  BY RecordFacts DEF Inv, Quiet
<1>9. run[s] = "deciding" => Outcome(s) \in Final /\ (Outcome(s) = "interrupted" => mem[s].status \in Active)
  BY <1>8 DEF Inv, Quiet, Outcome, Status
<1>10. run[s] = "deciding" /\ kind[s] = "attack" <=> loop = s
  BY DEF Inv, TypeOK
<1>11. CASE AttackEnds(s)
  <2>1. s \in told => Outcome(s) \in {"stopped", "failed"}
    BY <1>10, <1>11 DEF Inv, Quiet, StopSaved, Outcome, AttackEnds
  <2> QED  BY <1>9, <1>10, <1>11, <2>1, IsOver DEF Inv, Quiet, AttackEnds
<1>12. CASE CustomEnds(s)
  BY <1>10, <1>12, IsOver, SimulationsAreIds DEF CustomEnds
<1>13. CASE SyslogEnds(s)
  BY <1>9, <1>10, <1>13, IsOver DEF SyslogEnds
<1>14. CASE Raises(s)
  BY <1>10, <1>14, IsOver DEF Raises
<1> QED  BY <1>1, <1>2, <1>3, <1>4, <1>5, <1>6, <1>7, <1>11, <1>12, <1>13, <1>14
         DEF RunNext, AttackNext, CustomNext, SyslogNext

\* A check marks the detection while it asks, and says how it ended.
LEMMA CheckInv == ASSUME Inv, NEW s \in Simulations, NEW c \in Checkers, CheckNext(s, c) PROVE Inv'
<1> USE DEF process, local, history, Detection
<1>1. ASSUME NEW state \in {"none", "asking"}, SetCheck(s, c, state)
      PROVE  /\ check' \in [Simulations -> [Checkers -> {"none", "begun", "asking"}]]
             /\ check'[s][c] = state
             /\ \A t \in Simulations \ {s} : check'[t] = check[t]
             /\ check[s][c] # "none" /\ check[s]["run"] = "none" => check'[s]["run"] = "none"
  BY <1>1 DEF Inv, TypeOK, SetCheck, Checkers
<1>2. raised \subseteq Simulations
  BY DEF Inv, TypeOK
<1>3. CASE NotConfigured(s, c)
  BY <1>1, <1>2, <1>3, IsMarked DEF NotConfigured
<1>4. CASE Mark(s, c)
  BY <1>1, <1>2, <1>4, IsMarked DEF Mark, MayBeSaved
<1>5. CASE MarkFails(s, c)
  BY <1>1, <1>2, <1>5, IsMarked DEF MarkFails, MayBeSaved
<1>6. CASE Answered(s, c)
  BY <1>1, <1>2, <1>6, IsMarked DEF Answered
<1>7. CASE AskingRaises(s, c)
  BY <1>7, CheckMoves DEF AskingRaises
<1> QED  BY <1>3, <1>4, <1>5, <1>6, <1>7 DEF CheckNext

\* A planned check is made, or it is said that it was not.
LEMMA DelayInv == ASSUME Inv, NEW s \in Simulations, DelayOver(s) \/ DelayCutShort(s) PROVE Inv'
<1> USE DEF OnLoop, process, record, local, history
<1>1. CASE DelayOver(s)
  <2>1. "run" \in Checkers
    BY DEF Checkers
  <2>2. check[s]["run"] = "none"
    BY <1>1 DEF Inv, Quiet, DelayOver
  <2> QED  BY <1>1, <2>1, <2>2, CheckMoves DEF DelayOver
<1>2. CASE DelayCutShort(s)
  <2>1. check' \in [Simulations -> [Checkers -> {"none", "begun", "asking"}]] /\ raised' \subseteq Simulations
    BY <1>2 DEF Inv, TypeOK, DelayCutShort
  <2> QED  BY <1>2, <2>1, IsMarked DEF DelayCutShort, Detection
<1> QED  BY <1>1, <1>2

\* A row catches up.
LEMMA FlushInv == ASSUME Inv, NEW s \in Simulations, Flush(s) PROVE Inv'
<1> USE DEF OnLoop, process, record, local, history
<1>1. /\ db' \in [Simulations -> Record]
      /\ db'[s] = mem[s] /\ \A t \in Simulations \ {s} : db'[t] = db[t]
  BY DEF Inv, TypeOK, Flush
<1>2. TypeOK'
  BY <1>1 DEF Inv, TypeOK, Flush
<1>3. told \subseteq Simulations /\ cut \subseteq Simulations
  BY DEF Inv, TypeOK
<1>4. Quiet' /\ AnnouncedLast' /\ AnnouncedIsShown' /\ RunningIsInProgress' /\ CheckingIsAsked'
  BY <1>1 DEF Inv, Quiet, AnnouncedLast, AnnouncedIsShown, Shown, RunningIsInProgress, CheckingIsAsked, Flush
<1>5. StopSaved'
  BY <1>1, <1>3 DEF Inv, StopSaved, Flush
<1>6. ActiveSaved'
  BY <1>1 DEF Inv, ActiveSaved, Flush
<1>7. CutOffSaved' /\ CutOffIsInterrupted'
  BY <1>1, <1>3 DEF Inv, CutOffSaved, CutOffIsInterrupted, Flush
<1> QED  BY <1>2, <1>4, <1>5, <1>6, <1>7 DEF Inv

\* What runs is interrupted, in memory only.
LEMMA BeginShutdownInv == ASSUME Inv, BeginShutdown PROVE Inv'
<1> USE DEF OnLoop, process, record, local, history
<1>1. \A s \in Simulations :
        [mem[s] EXCEPT !.status = "interrupted"] = [status |-> "interrupted", detection |-> mem[s].detection]
  <2> SUFFICES ASSUME NEW s \in Simulations
               PROVE  [mem[s] EXCEPT !.status = "interrupted"]
                          = [status |-> "interrupted", detection |-> mem[s].detection]
    OBVIOUS
  <2>1. mem[s] \in Record
    BY RecordFacts DEF Inv
  <2> QED  BY <2>1 DEF Record
<1>2. \A s \in Simulations : [mem[s] EXCEPT !.status = "interrupted"] \in Record
  BY <1>1, RecordFacts DEF Inv, Record, Status
<1>3. /\ mem' \in [Simulations -> Record]
      /\ \A s \in Simulations : /\ mem'[s].status = (IF IsRunning(s) THEN "interrupted" ELSE mem[s].status)
                                /\ mem'[s].detection = mem[s].detection
  BY <1>1, <1>2, RecordFacts DEF Inv, BeginShutdown
<1> PICK ended \in SUBSET {s \in Simulations : MayEndMeanwhile(s)} : EndsMeanwhile(ended)
  BY DEF BeginShutdown
<1>4. /\ run' \in [Simulations -> Sending \cup {"none", "waiting", "done"}]
       /\ announced' \in [Simulations -> {"none"} \cup Final]
       /\ seconds' \in [Simulations -> 0 .. Duration]
       /\ wrote' \in [Simulations -> BOOLEAN] /\ seen' \in [Simulations -> BOOLEAN]
       /\ \A s \in Simulations :
             \/ s \in ended /\ MayEndMeanwhile(s) /\ run'[s] = "done" /\ announced'[s] \in Final
             \/ s \notin ended /\ run'[s] = run[s] /\ announced'[s] = announced[s] /\ seen'[s] = seen[s]
  BY EndsMeanwhileFacts DEF Inv
<1>5. TypeOK'
  <2>1. \A s \in Simulations : loop' = s <=> run'[s] = "deciding" /\ kind'[s] = "attack"
    BY <1>4 DEF Inv, TypeOK, BeginShutdown, MayEndMeanwhile
  <2> QED  BY <1>3, <1>4, <2>1 DEF Inv, TypeOK, BeginShutdown
<1>6. told \subseteq Simulations /\ cut \subseteq Simulations
  BY DEF Inv, TypeOK
<1>7. Quiet'
  BY <1>3, <1>4 DEF Inv, Quiet, BeginShutdown, MayEndMeanwhile
<1>8. StopSaved'
  BY <1>3, <1>6, <1>4 DEF Inv, StopSaved, BeginShutdown, MayEndMeanwhile
<1>9. AnnouncedLast' /\ AnnouncedIsShown'
  BY <1>3, <1>4 DEF Inv, AnnouncedLast, AnnouncedIsShown, Shown, BeginShutdown, MayEndMeanwhile
<1>10. RunningIsInProgress' /\ ActiveSaved'
  BY <1>3 DEF Inv, RunningIsInProgress, ActiveSaved, BeginShutdown
<1>11. CutOffSaved' /\ CutOffIsInterrupted'
  BY <1>3, <1>6, <1>4 DEF Inv, CutOffSaved, CutOffIsInterrupted, BeginShutdown
<1>12. CheckingIsAsked'
  BY <1>3 DEF Inv, CheckingIsAsked, BeginShutdown
<1> QED  BY <1>5, <1>7, <1>8, <1>9, <1>10, <1>11, <1>12 DEF Inv

\* The runs on the loop are cut off; every row is saved.
LEMMA LoopClosesInv == ASSUME Inv, LoopCloses PROVE Inv'
<1> USE DEF OnLoop, process, record, local, history
<1>1. /\ db' = mem /\ db' \in [Simulations -> Record]
      /\ run' \in [Simulations -> Sending \cup {"none", "waiting", "done"}]
      /\ \A s \in Simulations : run'[s] = (IF OnItsOwnThread(s) THEN run[s] ELSE "done")
      /\ \A s \in Simulations : OnItsOwnThread(s) => seen'[s] = seen[s]
  BY DEF Inv, TypeOK, LoopCloses, LeftOf
<1>2. seconds' \in [Simulations -> 0 .. Duration] /\ wrote' \in [Simulations -> BOOLEAN] /\ seen' \in [Simulations -> BOOLEAN]
  <2>1. 0 \in 0 .. Duration
    BY DurationType
  <2> QED  BY <2>1 DEF Inv, TypeOK, LoopCloses, LeftOf
<1>3. /\ cut' \subseteq Simulations /\ cut \subseteq Simulations /\ told \subseteq Simulations
      /\ \A s \in cut' : s \in cut \/ (CutOff(s) /\ ~OnItsOwnThread(s))
  BY DEF Inv, TypeOK, LoopCloses
<1>4. \A s \in Simulations : loop' # s
  BY SimulationsAreIds DEF LoopCloses
<1>5. TypeOK'
  BY <1>1, <1>2, <1>3, <1>4 DEF Inv, TypeOK, LoopCloses, OnItsOwnThread
<1>6. Quiet'
  BY <1>1 DEF Inv, Quiet, LoopCloses, OnItsOwnThread
<1>7. StopSaved'
  BY <1>1, <1>3, <1>4 DEF Inv, StopSaved, LoopCloses
<1>8. AnnouncedLast' /\ AnnouncedIsShown'
  BY <1>1 DEF Inv, AnnouncedLast, AnnouncedIsShown, Shown, LoopCloses, OnItsOwnThread
<1>9. RunningIsInProgress' /\ ActiveSaved'
  BY <1>1 DEF Inv, RunningIsInProgress, ActiveSaved, LoopCloses
<1>10. CutOffSaved' /\ CutOffIsInterrupted'
  BY <1>1, <1>3 DEF Inv, CutOffSaved, CutOffIsInterrupted, LoopCloses, CutOff, OnItsOwnThread
<1>11. CheckingIsAsked'
  BY DEF Inv, CheckingIsAsked, LoopCloses
<1> QED  BY <1>5, <1>6, <1>7, <1>8, <1>9, <1>10, <1>11 DEF Inv

\* What is in memory is gone.
LEMMA ProcessEndsInv == ASSUME Inv, ProcessEnds PROVE Inv'
<1> USE DEF OnLoop, process, record, local, history
<1>1. mem' \in [Simulations -> Record] /\ \A s \in Simulations : mem'[s].status = "none" /\ mem'[s].detection = "none"
  BY NoRecordType DEF ProcessEnds, NoRecord
<1>2. seconds' \in [Simulations -> 0 .. Duration]
  BY DurationType DEF ProcessEnds
<1>3. /\ check' \in [Simulations -> [Checkers -> {"none", "begun", "asking"}]]
      /\ \A s \in Simulations : check'[s]["run"] = "none"
  BY DEF ProcessEnds, Checkers
<1>4. /\ announced' \in [Simulations -> {"none"} \cup Final]
      /\ \A s \in Simulations : announced'[s] # "none" => announced'[s] = announced[s] /\ mem[s].status = db[s].status
  BY DEF Inv, TypeOK, ProcessEnds
<1>5. /\ cut' \subseteq Simulations /\ cut \subseteq Simulations /\ told \subseteq Simulations
      /\ \A s \in cut' : s \in cut \/ CutOff(s)
  BY DEF Inv, TypeOK, ProcessEnds
<1>6. \A s \in Simulations : loop' # s
  BY SimulationsAreIds DEF ProcessEnds
<1>7. TypeOK'
  <2>1. run' \in [Simulations -> Sending \cup {"none", "waiting", "done"}] /\ raised' \subseteq Simulations
    BY DEF ProcessEnds
  <2>2. wrote' \in [Simulations -> BOOLEAN] /\ seen' \in [Simulations -> BOOLEAN]
    BY DEF ProcessEnds
  <2>3. \A s \in Simulations : run'[s] # "deciding"
    BY DEF ProcessEnds
  <2> QED  BY <1>1, <1>2, <1>3, <1>4, <1>5, <1>6, <2>1, <2>2, <2>3 DEF Inv, TypeOK, ProcessEnds
<1>8. Quiet'
  BY <1>1, <1>3 DEF Inv, Quiet, ProcessEnds
<1>9. StopSaved'
  BY <1>5, <1>6 DEF Inv, StopSaved, ProcessEnds
<1>10. AnnouncedLast' /\ AnnouncedIsShown'
  BY <1>4 DEF Inv, AnnouncedLast, AnnouncedIsShown, Shown, ProcessEnds
<1>11. RunningIsInProgress' /\ ActiveSaved' /\ CutOffIsInterrupted' /\ CheckingIsAsked'
  BY DEF RunningIsInProgress, ActiveSaved, CutOffIsInterrupted, CheckingIsAsked, ProcessEnds
<1>12. CutOffSaved'
  <2>1. \A s \in Simulations : CutOff(s) => s \notin refused /\ mem[s].status \in Active /\ up
    BY DEF Inv, Quiet, CutOff
  <2> QED  BY <1>5, <2>1 DEF Inv, CutOffSaved, ActiveSaved, ProcessEnds
<1> QED  BY <1>7, <1>8, <1>9, <1>10, <1>11, <1>12 DEF Inv

\* What was in progress is interrupted, what was checked was not.
LEMMA LoadInv == ASSUME Inv, Load PROVE Inv'
<1> USE DEF OnLoop, process, record, local, history
<1>1. \A s \in Simulations : /\ Recovered(db[s]) \in Record
                             /\ Recovered(db[s]).status = (IF db[s].status = "running" THEN "interrupted" ELSE db[s].status)
                             /\ Recovered(db[s]).detection # "checking"
  BY RecordFacts DEF Inv, Record, Recovered, Status, Detection
<1>2. /\ mem' \in [Simulations -> Record] /\ db' = mem'
      /\ \A s \in Simulations : mem'[s] = Recovered(db[s])
  BY <1>1 DEF Load
<1>3. told \subseteq Simulations /\ cut \subseteq Simulations
  BY DEF Inv, TypeOK
<1>4. \A s \in Simulations : loop # s /\ run[s] = "none" /\ check[s]["run"] = "none"
  BY SimulationsAreIds DEF Inv, Quiet, Load
<1>5. TypeOK'
  BY <1>2 DEF Inv, TypeOK, Load
<1>6. Quiet'
  BY <1>4 DEF Quiet, Load
<1>7. StopSaved'
  BY <1>1, <1>2, <1>3, <1>4 DEF Inv, StopSaved, Load
<1>8. AnnouncedLast' /\ AnnouncedIsShown'
  BY <1>1, <1>2 DEF Inv, AnnouncedLast, AnnouncedIsShown, Shown, Load
<1>9. RunningIsInProgress' /\ ActiveSaved'
  BY <1>1, <1>2 DEF RunningIsInProgress, ActiveSaved
<1>10. CutOffSaved' /\ CutOffIsInterrupted'
  BY <1>1, <1>2, <1>3, <1>4 DEF Inv, CutOffSaved, CutOffIsInterrupted, Load
<1>11. CheckingIsAsked'
  BY <1>1, <1>2 DEF CheckingIsAsked
<1> QED  BY <1>5, <1>6, <1>7, <1>8, <1>9, <1>10, <1>11 DEF Inv

LEMMA StutterInv == ASSUME Inv, UNCHANGED vars PROVE Inv'
<1> USE DEF vars, process, record, local, history
<1>1. TypeOK'
  BY DEF Inv, TypeOK
<1>2. Quiet' /\ StopSaved' /\ AnnouncedLast' /\ AnnouncedIsShown' /\ RunningIsInProgress'
  BY DEF Inv, Quiet, StopSaved, AnnouncedLast, AnnouncedIsShown, Shown, RunningIsInProgress
<1>3. ActiveSaved' /\ CutOffSaved' /\ CutOffIsInterrupted' /\ CheckingIsAsked'
  BY DEF Inv, ActiveSaved, CutOffSaved, CutOffIsInterrupted, CheckingIsAsked
<1> QED  BY <1>1, <1>2, <1>3 DEF Inv

-----------------------------------------------------------------------------
(* The theorems *)

LEMMA Invariant == Spec => []Inv
<1>1. ASSUME Inv, [Next]_vars PROVE Inv'
  <2>1. ASSUME NEW s \in Simulations, NEW c \in Checkers, CheckNext(s, c) PROVE Inv'
    BY <1>1, <2>1, CheckInv
  <2>2. ASSUME NEW s \in Simulations, DelayOver(s) \/ DelayCutShort(s) PROVE Inv'
    BY <1>1, <2>2, DelayInv
  <2> QED  BY <1>1, <2>1, <2>2, RequestInv, RunInv, FlushInv, BeginShutdownInv, LoopClosesInv,
              ProcessEndsInv, LoadInv, StutterInv DEF Next
<1> QED  BY InitInv, <1>1, PTL DEF Spec

\* Types; and the loop is held exactly by the attack run that decides (simulation.py:169-175).
THEOREM TypeCorrect == Spec => []TypeOK
<1>1. Inv => TypeOK
  BY DEF Inv
<1> QED  BY Invariant, <1>1, PTL

\* An attack run that a user was told is stopped stays so, for any number of runs
\* and restarts (routes/simulations.py:267-270, simulation.py:149, 171).
THEOREM StopsHold == Spec => []StopHolds
<1>1. Inv => StopHolds
  BY DEF Inv, StopSaved, StopHolds
<1> QED  BY Invariant, <1>1, PTL

\* What was announced and saved is what is shown (announce_finished, simulation.py:106-126).
THEOREM ShownAsAnnounced == Spec => []AnnouncedIsShown
<1>1. Inv => AnnouncedIsShown
  BY DEF Inv
<1> QED  BY Invariant, <1>1, PTL

\* Nothing is shown as running that is not in progress, unless its start was refused.
THEOREM NothingLeftRunning == Spec => []RunningIsInProgress
<1>1. Inv => RunningIsInProgress
  BY DEF Inv
<1> QED  BY Invariant, <1>1, PTL

\* What a stop or a crash cut off is found as interrupted (records.py:66-79).
THEOREM CutOffShown == Spec => []CutOffIsInterrupted
<1>1. Inv => CutOffIsInterrupted
  BY DEF Inv
<1> QED  BY Invariant, <1>1, PTL

\* What is shown as being checked is being asked, for any number of checks (simulation.py:219-243).
THEOREM ChecksAreAsked == Spec => []CheckingIsAsked
<1>1. Inv => CheckingIsAsked
  BY DEF Inv
<1> QED  BY Invariant, <1>1, PTL

=============================================================================
