CONSTANTS
    db = db
    conf = conf
    full = full
    older = older
    Devices = {sda}
    SystemDisks = {}
    AutoSkip = {sda}
    Requests = {req1}
    AutoWorker = auto
    MaxTime = 1
    MaxOps = 2
    Files = {db, conf}
    DbFiles = {db}
    Archives = {full, older}
    Holds <- MCHolds
    RestoreRequests = {g1}
    MaxStops = 2
    None = None
    Live = Live
    Torn = Torn
    Manifest = Manifest
    RouteNames = {x1, x2}
    ProxyRequests = {q1}
    Recorders = {a1, a2}
    MaxEvents = 3
    MaxClock = 3
    Retentions = {1, 2}
    UpdateRequests = {z1}
    MaxJobs = 2
    MaxUsers = 2
    MaxSessions = 2
    MaxPasswords = 2
    Browsers = {b1, b2}
    AccountRequests = {r1}
    Editors = {r1}
    Tasks = {t1, t2}
    RegThreads = {v1, v2}
    MaxRegNames = 2
    RegAddresses = {i1, i2}
    MaxRegRequests = 2
    MaxServers = 1
    ServerTypes = {"pbs", "restic"}
    Pages = {p1}
    MaxPollStops = 1
    MaxItems = 1
    MaxRuns = 2
    BackupRouters = {1}
    BackupRequests = {j1, j2}
    KeepBackups = 2
    MaxBackupTime = 4
    Clicks = {l1, l2}
    Retries = 2
    DataFiles = {d1}
    Databases = {d1}
    MakeRequests = {q1, q2}
    Daily = daily
    KeepAutos = 1
    MaxMoment = 2
SPECIFICATION MCSpec
INVARIANTS
    NoTornData
