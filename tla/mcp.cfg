SPECIFICATION FairMcpSpec
CONSTANTS
    Handlers = {h1}
    Users = {u1}
    MaxSessions = 3
INVARIANTS McpTypeOK CallsInSession
PROPERTY EveryFetchEnds
CHECK_DEADLOCK FALSE
