\* Three calls and the replay task, room for two events, crashes and failures at
\* every point; the service may stay down (EventsDelivered: it comes back).
SPECIFICATION FairSpec
CONSTANTS
    Call = {k1, k2, k3}
    Invalid = {k3}
    Refused = {k3}
    MaxEvents = 2
    Replay = Replay
    None = None
INVARIANTS
    FailureIsRecorded
    OutboxIsQueue
    AllowedIsClosed
PROPERTIES
    CallsAnswered
    EventsDelivered
