CONSTANTS
    Devices = {sda}
    SystemDisks = {}
    AutoSkip = {}
    Requests = {req1}
    AutoWorker = auto
    MaxTime = 2
    MaxOps = 1
    Disks = {d1}
    Reached = {d1}
    Readings <- MCReadings
    Importers = {f1}
    MaxOpen = 2
    Managed = {m1, m2}
    LocalOnes = {m2}
    Manual = {t1}
    Savers = {v1}
SPECIFICATION MCSpec
INVARIANTS
    BaselineSafeAfterItsSecond
    ReportsAreTrue
PROPERTIES
    ActsOnItsOwn
    MCFormatTasksEnd
