\* MCP requests while tokens are created and deleted.
CONSTANTS
    Users = {alice, bob}
    NoUser = NoUser
    Tokens = {t1, t2}
    SessionIds = {s1, s2}
    Posts = {p1, p2}
SPECIFICATION McpSpec
SYMMETRY McpSymmetry
INVARIANTS InitializeTellsSession
CHECK_DEADLOCK FALSE
