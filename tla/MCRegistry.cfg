\* Sessions, tools and their cache, the idle sweeper on: two uids that share a
\* config, three connections.
SPECIFICATION Spec
CONSTANTS
    Uid = {u1, u2}
    Config = {f1}
    Conn = {c1, c2, c3}
    InternalTools = {i1}
    PublicTools = {t1, t2}
    Call = {}
    Grace = 1
    IdleTimeout = 1
    CacheEnabled = TRUE
    None = None
SYMMETRY Symmetry
INVARIANTS
    ActiveHasOwner
    NoBrokenActive
    ToolsFromOwner
    CacheFollowsLive
PROPERTIES
    EndedOnlyByOwner
    LifecycleSpec
