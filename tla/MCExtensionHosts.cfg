SPECIFICATION Spec
CONSTANTS
    a = a
    b = b
    NoClient = NoClient
    Clients <- MCClients
    MaxHosts = 1
    MaxAttempts = 2
    MaxDisposals = 1
SYMMETRY Symmetry
INVARIANTS TypeOK GoneAreDisposed NoOwnerlessHost OpenAreServed
CHECK_DEADLOCK FALSE
