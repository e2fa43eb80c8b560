---------------------------- MODULE MCDeployment ----------------------------
(***************************************************************************)
(* Instances of Deployment for TLC.                                        *)
(***************************************************************************)
EXTENDS Deployment, TLC

\* Every deployment asks for all containers: the same base name.
MCNames == [d \in Deployments |-> Containers]

\* "sequential" mode, and two workers.
OneWorker == [d \in Deployments |-> 1]
TwoWorkers == [d \in Deployments |-> 2]

ContainerSymmetry == Permutations(Containers)
DeploymentSymmetry == Permutations(Deployments)
=============================================================================
