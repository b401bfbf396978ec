\* Seven surfaces of the manager, one at a time: two agents and two changes of
\* the tools; two HTTP handlers and two session ids; two uids on two
\* connections; two registrations against two clusters; three frames; three
\* events; every command line and sweeps of two sessions.
SPECIFICATION SurfaceSpec
CONSTANTS
    Agent = {a1, a2}
    MaxChanges = 2
    HttpHandler = {h1, h2}
    HttpSession = {s1, s2}
    NoSession = NoSession
    HttpConfigs <- MCHttpConfigs
    HttpRequests <- MCHttpRequests
    RtUid = {"u1", "u2"}
    RtConn = {c1, c2}
    RtBuiltin = {"session_list"}
    RtInternal = {"secret"}
    RtToolLists <- MCToolLists
    RtFiles <- MCRtFiles
    RtBases = {b1, b2}
    RtNone = RtNone
    RasCluster = {"c1", "c2"}
    RasInfobase = {"i1"}
    RasTask = {p1, p2}
    RasTtl = 2
    RasMissTtl = 1
    RasTimeout = 1
    RasMaxTime = 3
    RasContents <- MCRasContents
    Unresolved = Unresolved
    WireFrames <- MCWireFrames
    WireMaxFrames = 3
    OutboxFiles <- MCOutboxFiles
    OutboxLimit = 2
    ProcFiles <- MCProcFiles
    ProcClis <- ProcCli
    ProcMaxSweep = 2
CHECK_DEADLOCK FALSE
INVARIANTS
    AdmissionExact
    LiveIsCounted
    InnerSeesAdmitted
    ListAgreesWithCall
    MaskedBaseIsCalled
    InternalStaysInternal
    AnswerIsRecent
    AnswersReachClient
    LoadIsFaithful
    ServesValidated
PROPERTIES
    RefusedOnlyWhenFull
    ChangeIsAnnounced
    StopCompletes
