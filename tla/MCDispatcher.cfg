\* Two calls, one of them without a deadline; the socket may be lost, the
\* client may say goodbye and the idle sweeper may shut the session down.
SPECIFICATION FairSpec
CONSTANTS
    Call = {k1, k2}
    Deadline = {k1}
    Closing = {"drop", "bye", "shutdown"}
CHECK_DEADLOCK FALSE
INVARIANTS
    OneCallAtATime
    DispatchInv
    FifoOrder
    ClientExecutesOne
    SuspendedReleasesAll
PROPERTIES
    CallsEnd
