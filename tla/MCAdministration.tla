-------------------------- MODULE MCAdministration --------------------------
(***************************************************************************)
(* The parts of Habeny that administrators and users deal with, side by    *)
(* side: the audit log, accounts, the second factor, what the database     *)
(* says of containers, its upgrades, other hosts, and the calls of the     *)
(* helper. They share no state; each behaviour is one of one of them.      *)
(***************************************************************************)
EXTENDS Audit, Accounts, SecondFactor, Registry, Upgrades, Hosts, Helper, TLC

CONSTANTS
    First       \* the deployment request that rows, groups and teams change during

ASSUME FirstIsRequest == First \in Requests

VARIABLE part

Part == {"audit", "accounts", "factor", "rows", "limits", "teams", "upgrades", "hosts", "helper"}

AdministrationInit ==
    /\ part \in Part
    /\ Init /\ AccountInit /\ FactorInit /\ RegistryInit /\ UpgradeInit /\ HostInit /\ HelperInit
    /\ part \notin {"limits", "teams"} =>
          (\A u \in Owners : team[u] = None) /\ (\A p \in Owners \cup Teams, l \in Limits : l <= limit[p])
    /\ part # "factor" => now = 0
    /\ part # "upgrades" => db = Schema(0) /\ installed = Latest
    /\ part # "helper" => helper = "down"
    /\ part # "hosts" => \A h \in Hosts : remote[h].shows = CHOOSE c \in Certificates : TRUE

RowsNext == DeployStep(First) \/ WriterNext \/ DeleteNext \/ GroupNext
LimitsNext == (\E r \in Requests \ {First} : DeployStep(r)) \/ DeleteNext
TeamsNext == DeployStep(First) \/ DeleteNext \/ TeamNext

AdministrationNext ==
    /\ UNCHANGED part
    /\ \/ /\ part = "audit" /\ Next
          /\ UNCHANGED <<accountVars, factorVars, registryVars, upgradeVars, hostVars, helperVars>>
       \/ /\ part = "accounts" /\ AccountNext
          /\ UNCHANGED <<vars, factorVars, registryVars, upgradeVars, hostVars, helperVars>>
       \/ /\ part = "factor" /\ FactorNext
          /\ UNCHANGED <<vars, accountVars, registryVars, upgradeVars, hostVars, helperVars>>
       \/ /\ \/ part = "rows" /\ RowsNext
             \/ part = "limits" /\ LimitsNext
             \/ part = "teams" /\ TeamsNext
          /\ UNCHANGED <<vars, accountVars, factorVars, upgradeVars, hostVars, helperVars>>
       \/ /\ part = "upgrades" /\ UpgradeNext
          /\ UNCHANGED <<vars, accountVars, factorVars, registryVars, hostVars, helperVars>>
       \/ /\ part = "hosts" /\ HostNext
          /\ UNCHANGED <<vars, accountVars, factorVars, registryVars, upgradeVars, helperVars>>
       \/ /\ part = "helper" /\ HelperNext
          /\ UNCHANGED <<vars, accountVars, factorVars, registryVars, upgradeVars, hostVars>>

AdministrationSpec ==
    /\ AdministrationInit
    /\ [][AdministrationNext]_<<part, vars, accountVars, factorVars, registryVars, upgradeVars, hostVars, helperVars>>

AdministrationTypeOK ==
    /\ TypeOK /\ AccountTypeOK /\ FactorTypeOK /\ RegistryTypeOK /\ UpgradeTypeOK
    /\ HostTypeOK /\ HelperTypeOK

\* Pairs that are all alike share their values.
AdministrationSymmetry == Permutations(Writers) \cup Permutations(Contents)
=============================================================================
