\* Is an agent that has listed the tools told of the next change?
SPECIFICATION FairSpec
CONSTANTS
    Agent = {a1}
    MaxChanges = 2
PROPERTIES
    RegisteredPeerIsTold
