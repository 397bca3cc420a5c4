CONSTANTS
    Managed = {m1, m2}
    LocalOnes = {m2}
    Manual = {t1}
    Savers = {s1}
SPECIFICATION AutoSpec
INVARIANTS
    OnMeansScheduled
