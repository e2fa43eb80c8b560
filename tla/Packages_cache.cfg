CONSTANTS
    ServerThreads = {}
    WorkerProcesses = {w1, w2}
SPECIFICATION PackagesSpec
INVARIANTS
    DownloadedOnce
