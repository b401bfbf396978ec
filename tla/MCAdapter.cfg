\* Two owners, one after the other; a connect and a disconnect.
SPECIFICATION FairSpec
CONSTANTS
    Call = {open, close}
    Connect = {open}
    Disconnect = {close}
    MaxRoutes = 2
    None = None
CHECK_DEADLOCK FALSE
INVARIANTS
    AnsweredOnce
    FinishedIsAnswered
    StandbyIsQuiet
    KnownIsClosed
PROPERTIES
    LostRouteIsReleased
