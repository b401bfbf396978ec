\* Progress with agents' calls: one uid on two connections, no tools cache.
SPECIFICATION FairSpec
CONSTANTS
    Uid = {u1}
    Config = {f1}
    Conn = {c1, c2}
    InternalTools = {i1}
    PublicTools = {t1}
    Call = {k1}
    Grace = 1
    IdleTimeout = 2
    CacheEnabled = FALSE
    None = None
PROPERTIES
    DisconnectedResolves
    IdleIsReaped
