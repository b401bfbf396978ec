\* session.bye racing with dispatch_request.
SPECIFICATION Spec
CONSTANTS
    Call = {k1}
    Deadline = {}
    Closing = {"bye"}
CHECK_DEADLOCK FALSE
INVARIANTS
    ClosedReleasesAll
