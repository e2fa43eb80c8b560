CONSTANTS
    Containers = {c1}
    Deployments = {d1}
    Names <- MCNames
    Workers <- OneWorker
    MaxTracked = 1
    ServerThreads = {t1, t2}
    WorkerProcesses = {w1}
SPECIFICATION LiveSpec
PROPERTIES
    StopEnds
    RequestEnds
    InstallsEnd
