CONSTANTS
    Simulations = {s1}
    Duration = 2
    Callers = {c1, c2}
    Channels = {x1}
    MaxQueue = 1
    Retries = 1
    MaxNotices = 2
    Benchmarks = {b1, b2}
    Phases = 2
    MaxStarts = 3
    Requests = {m1}
    Commands = {m2}
    Keep = 2
    Interval = 2
    Slowest = 1
    MaxTime = 3
    MaxBackups = 3
    Files = {key}
    Directories = {reports}
    MaxRestores = 2
    Installers = {c1}
    Shells = {m1}
    TrialDays = 1
    GraceDays = 1
    WarnDays = 0
    TrialWarnDays = 0
    LastDay = 2
    MaxChanges = 2
SPECIFICATION ServicesSpec
INVARIANTS
    ServicesTypeOK
    StopHolds
    CutOffIsInterrupted
    StopsAreHeeded
    LastNoticeHolds
    FreshBackup
    ReplacedIsKept
PROPERTIES
    RunsEnd
    ChecksSettle
    BenchmarksEnd
    NoticesSettle
    LicenseAlertSettles
