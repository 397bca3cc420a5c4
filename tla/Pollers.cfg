CONSTANTS
    Names = {n1}
    Confs = {c1}
    NoHost = NoHost
    TornFile = TornFile
    Workers = {w1, w2}
    MaxObjs = 2
    MaxServers = 2
    ServerTypes = {"pbs"}
    Pages = {p1}
    MaxPollStops = 1
    Ids = {s1, s2}
    Slow = {s1}
    Patience = 4
    MinutesPerDay = 3
    DaysPerWeek = 1
    MaxTime = 4
    MaxEdits = 1
    NoRow = NoRow
    Refreshers = {f1}
    MaxFans = 2
    MaxFanTime = 2
    MaxSamples = 2
    FanHosts <- MCFanHosts
    Others = {}
    Installers = {i1}
    Visitors = {u1}
    MaxCommanders = 1
    MaxCcTime = 2
    KeepDays = 1
    Askers = {k1, k2}
    MaxTokens = 2
    NumSources = 2
    DiskNames = {sda}
    DiskHealths = {"GOOD", "FAILED"}
    HostNames = {h1}
    EndpointNames = {e1}
    Nases = {x1}
    Slots = {y1}
    Serials = {1, 2}
    MaxEndpoints = 2
    MaxLogged = 1
    NasRequests = {q1}
    VersionChecks = {k1}
    Dismissals = {l1}
    MaxCommits = 2
    MaxReleases = 1
    RouterPlatforms = {"openwrt", "opnsense", "pfsense", "vyos", "ddwrt", "routeros", "linux", "fritzbox", "fritzrepeater", "generic"}
    DriverRequests = {j1}
    MaxTries = 2
SPECIFICATION MCSpec
INVARIANTS
    PollersTypeOK
    OneProbePerHost
    ServersArePolled
    OncePerMinute
    DueIsFired
    LogShowsRuns
    
    ToldIsTrue
PROPERTIES
    PagesStay
