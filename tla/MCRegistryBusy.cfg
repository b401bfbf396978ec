\* A call that starts after the sweeper took its snapshot.
SPECIFICATION Spec
CONSTANTS
    Uid = {u1}
    Config = {f1}
    CacheEnabled = FALSE
    Conn = {c1}
    InternalTools = {i1}
    PublicTools = {t1}
    Call = {k1}
    Grace = 1
    IdleTimeout = 2
    None = None
PROPERTIES
    IdleSweepSparesBusy
