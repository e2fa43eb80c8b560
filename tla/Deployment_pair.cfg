CONSTANTS
    Containers = {c1}
    Deployments = {d1, d2}
    Names <- MCNames
    Workers <- OneWorker
    MaxTracked = 1
SPECIFICATION UndisturbedSpec
SYMMETRY DeploymentSymmetry
INVARIANTS
    OpenIsRunning
    ExclusiveContainer
