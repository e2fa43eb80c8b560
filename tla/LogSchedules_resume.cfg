CONSTANTS
    Schedules = {s1}
    Indefinite = {s1}
    Duration = 1
    MaxTime = 0
SPECIFICATION ReliableSpec
INVARIANTS
    SchedulesResume
