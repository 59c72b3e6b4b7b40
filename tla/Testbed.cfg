\* Two servers, a client, a call, three operations, a restart of each server.
SPECIFICATION Spec
CONSTANTS
    c1 = c1
    r1 = r1
    N = 2
    Client = {c1}
    Request = {r1}
    None = None
    MaxInstances = 2
    MaxOps = 3
INVARIANTS
    TypeOK
    PositiveReplyKept
    LinksAsAsked
    IsolatedUnlessReconnected
    ClientsAsAllowed
PROPERTIES
    CallReturns
CHECK_DEADLOCK FALSE
