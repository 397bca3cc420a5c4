CONSTANTS
    Devices = {sda}
    SystemDisks = {}
    AutoSkip = {}
    Requests = {req1}
    AutoWorker = auto
    MaxTime = 2
    MaxOps = 2
SPECIFICATION Spec
PROPERTIES
    AttachedDisksNotTouched
