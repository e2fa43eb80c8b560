CONSTANTS
    Writers = {x1, x2}
    Contents = {y1, y2}
    Retention = 1
    MaxEntries = 4
    MaxTime = 2
    MaxUsers = 2
    Names = {y1, y2}
    Subjects = {i1}
    Sessions = {s1}
    Tokens = {t1}
    Flows = {x1, x2}
    LowRoles = {0}
    Steps = {0, 1, 2}
    MaxMade = 3
    RecoveryCodes = 2
    MaxAttempts = 2
    Browsers = {x1, x2}
    Challenges = {h1}
    Agents = {n1, n2}
    Owners = {u1}
    Teams = {team1}
    Groups = {g1}
    Requests = {r1, y1, y2}
    First = r1
    RowWriters = {w1}
    Limits = {1, 2}
    Commands = {y1, y2}
    Releases = {2, 3}
    Repeatable = {1}
    KeepCopies = 2
    Hosts = {h1}
    Secrets = {k1, k2}
    Certificates = {f1, f2}
    Editors = {w1, w2}
    Clients = {w1, w2}
    MaxCalls = 2
SPECIFICATION AdministrationSpec
SYMMETRY AdministrationSymmetry
INVARIANTS
    AdministrationTypeOK
    IdentitiesApart
    CodesOnce
    OnlyWithCode
    LimitsKept
    SchemaIsKnown
    StoredWorked
    OutcomeIsTrue
PROPERTIES
    OkIsGenuine
    AlarmsAreReal
    AdminRemains
    SetupOnce
    NumbersStay
