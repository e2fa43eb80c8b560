CONSTANTS
    Containers = {c1}
    Deployments = {d1}
    Names <- MCNames
    Workers <- OneWorker
    MaxTracked = 1
SPECIFICATION Spec
PROPERTIES
    CutOffIsInterrupted
