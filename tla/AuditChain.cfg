CONSTANTS
    Recorders = {a1, a2}
    MaxEvents = 3
    MaxClock = 3
    Retentions = {1, 2}
SPECIFICATION AuditSpec
INVARIANTS
    AlwaysVerifies
