SPECIFICATION Spec
CONSTANTS
    p = p
    q = q
    Paths <- MCPaths
    Speaking = {p}
    Throwing = {q}
    MaxSockets = 2
    MaxTraces = 6
    MaxRetries = 1
    MaxOpens = 2
    MaxSends = 2
INVARIANTS TypeOK InSync InOrder HeldWhileOpen
PROPERTIES Recovers
