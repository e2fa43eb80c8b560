----------------------------- MODULE MCServices -----------------------------
(***************************************************************************)
(* The parts of Habeny that run on their own, side by side: simulations,   *)
(* notices of an alert, benchmarks, backups and restores, and the license. *)
(* They share no state; each behaviour is one of one of them.              *)
(***************************************************************************)
EXTENDS Simulation, Notifications, Benchmark, Backups, Licensing, TLC

VARIABLE part

Part == {"simulation", "notices", "benchmark", "backups", "restores", "license"}

ServicesInit ==
    /\ part \in Part
    /\ Init /\ NoticeInit /\ BenchmarkInit /\ BackupInit /\ LicenseInit
    /\ part # "simulation" => kind = [s \in Simulations |-> "attack"]
    /\ part # "notices" => picks = [x \in Channels |-> Events]
    /\ part # "restores" => data = [p \in Parts |-> 0]
    /\ part # "license" => keyFile = 0

\* After the last restore there are only backups to begin, which go no further here.
RestoredNext ==
    \/ RestoreNext
    \/ restores = MaxRestores /\ restoring = NotRestoring /\ (HourlyPass \/ MakingFails(Maintenance))

ServicesNext ==
    /\ UNCHANGED part
    /\ \/ /\ part = "simulation" /\ Next
          /\ UNCHANGED <<noticeVars, benchmarkVars, backupVars, licenseVars>>
       \/ /\ part = "notices" /\ NoticeNext
          /\ UNCHANGED <<vars, benchmarkVars, backupVars, licenseVars>>
       \/ /\ part = "benchmark" /\ BenchmarkNext
          /\ UNCHANGED <<vars, noticeVars, backupVars, licenseVars>>
       \/ /\ \/ part = "backups" /\ MakingNext
             \/ part = "restores" /\ RestoredNext
          /\ UNCHANGED <<vars, noticeVars, benchmarkVars, licenseVars>>
       \/ /\ part = "license" /\ LicenseNext
          /\ UNCHANGED <<vars, noticeVars, benchmarkVars, backupVars>>

\* What has to go on does, in the part that runs; in the others there is nothing to do.
ServicesSpec ==
    /\ ServicesInit
    /\ [][ServicesNext]_<<part, vars, noticeVars, benchmarkVars, backupVars, licenseVars>>
    /\ Fairness /\ NoticeFairness /\ BenchmarkFairness
    /\ WF_licenseVars(part = "license" /\ CheckRead(Minutely)) /\ WF_licenseVars(part = "license" /\ CheckTold(Minutely))

ServicesTypeOK ==
    /\ TypeOK /\ NoticeTypeOK /\ BenchmarkTypeOK /\ BackupTypeOK
    /\ LicenseTypeOK
=============================================================================
