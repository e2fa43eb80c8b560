CONSTANTS
    Containers = {c1, c2, c3}
    Deployments = {d1}
    Names <- MCNames
    Workers <- TwoWorkers
    MaxTracked = 1
SPECIFICATION UndisturbedSpec
SYMMETRY ContainerSymmetry
INVARIANTS
    FinishedAccounted
PROPERTIES
    CutOffIsInterrupted
