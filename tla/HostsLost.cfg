CONSTANTS
    Names = {a, b}
    Confs = {c1}
    NoHost = NoHost
    TornFile = TornFile
    Workers = {w1, w2}
    MaxObjs = 3
SPECIFICATION HostSpec
INVARIANTS
    AddedStays
