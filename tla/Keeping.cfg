CONSTANTS
    Hosts = {h1}
    Vulns = {y1}
    Users = {l1}
    FanTypes = {"arctic_usb", "lm_sensors", "ipmi"}
    Channels = {1, 2}
    Pumps = {2}
    Speeds <- MCSpeeds
    FanRequests = {f1}
    MaxDevices = 1
    MaxCommands = 2
    Clients = {k1, k2}
    Addresses = {i1}
    UserNames = {u1, u2}
    TwoFactor = {u1}
    IpLimit = 3
    IpWindow = 1
    UserLimits = {2, 3}
    UserWindow = 2
    MaxCodes = 2
    MaxKeys = 2
    Enrolling = {y1}
    Entering = {y2}
    NumCodes = 1
    MaxSecrets = 2
    MaxBatches = 3
    ChannelIds = {c1, c2}
    ChannelLimit = 1
    ChannelAdmins = {a1}
    Messages = {m1, m2}
    MailForms = {f1, f2}
    Mails = {p1}
SPECIFICATION MCSpec
INVARIANTS
    ShowsLastGood
    LocksAreReported
    FactorsHold
    SettingsAreKept
PROPERTIES
    MCGoneHostsGo
    PumpsSpared
