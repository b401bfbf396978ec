\* A connect whose answer is lost, and the next owner.
SPECIFICATION Spec
CONSTANTS
    Call = {open}
    Connect = {open}
    Disconnect = {}
    MaxRoutes = 2
    None = None
CHECK_DEADLOCK FALSE
INVARIANTS
    NoForeignConnection
