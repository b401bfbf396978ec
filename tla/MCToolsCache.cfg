\* Two tasks on two entries of two configurations, crashes at every point.
SPECIFICATION Spec
CONSTANTS
    Kind = {n1}
    Config = {g1, g2}
    Tools = {t1}
    Op = {o1, o2}
    CacheLife = 1
    MaxTime = 2
    None = None
SYMMETRY CacheSymmetry
INVARIANTS
    ChangeIsSignalled
    ListedIsFresh
