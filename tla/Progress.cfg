CONSTANTS
    db = db
    full = full
    Names = {n1, n2}
    Confs = {c1, c2}
    NoHost = NoHost
    TornFile = TornFile
    Workers = {w1}
    MaxObjs = 1
    Files = {db}
    DbFiles = {db}
    Archives = {full}
    Holds <- MCHolds
    RestoreRequests = {g1}
    MaxStops = 2
    None = None
    Live = Live
    Torn = Torn
    Manifest = Manifest
    UpdateRequests = {z1}
    MaxJobs = 2
    Clients = {k1}
    Addresses = {i1}
    UserNames = {u1}
    TwoFactor = {u1}
    IpLimit = 2
    IpWindow = 1
    UserLimits = {2}
    UserWindow = 2
    MaxCodes = 2
    MaxKeys = 2
    Ids = {s1}
    Slow = {s1}
    Patience = 2
    MinutesPerDay = 2
    DaysPerWeek = 1
    MaxTime = 3
    MaxEdits = 1
    NoRow = NoRow
    Operators = {o1}
    MaxChecks = 1
    MaxRouterStops = 1
    Servers = {e1}
    Late = {1, 2}
    MaxHwStops = 1
    Skippable = {"gpu"}
SPECIFICATION MCSpec
INVARIANTS
    CacheMatchesFile
    FailureIsSaved
PROPERTIES
    WhatBeginsEnds
    PagesFollow
    ImplementsMap
