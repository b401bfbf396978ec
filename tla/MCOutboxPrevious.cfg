\* Does every outbox of the previous format load?
SPECIFICATION ObSpec
CONSTANTS
    OutboxFiles <- MCPreviousFiles
    OutboxLimit = 2
CHECK_DEADLOCK FALSE
INVARIANTS
    PreviousFormatLoads
