----------------------------- MODULE MCInstalls -----------------------------
(***************************************************************************)
(* A deployment, from its request to its end, and the installs of agents   *)
(* that its workers do, side by side: each behaviour is one of one of them. *)
(* (RequestEnds takes it that a worker gets through its steps; InstallsEnd *)
(* says when it gets through the longest.)                                 *)
(***************************************************************************)
EXTENDS MCDeployment, Packages

VARIABLE part

InstallsInit ==
    /\ part \in {"deployment", "packages"}
    /\ Init /\ PackagesInit
    /\ part = "deployment" => siem = "ossec"

InstallsNext ==
    /\ UNCHANGED part
    /\ \/ part = "deployment" /\ Next /\ UNCHANGED packageVars
       \/ part = "packages" /\ PackagesNext /\ UNCHANGED vars

\* Anybody does anything, a stop goes on to its deadline, and installs go on.
LiveSpec == InstallsInit /\ [][InstallsNext]_<<part, vars, packageVars>> /\ StopFairness /\ PackagesFairness
=============================================================================
