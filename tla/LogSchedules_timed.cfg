CONSTANTS
    Schedules = {"hourly"}
    Indefinite = {}
    Duration = 2
    MaxTime = 3
SPECIFICATION FairSpec
INVARIANTS
    StoppedStaysStopped
    RunningResume
    CompletedNotEarly
PROPERTIES
    TimedEnds
