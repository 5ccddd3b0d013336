CONSTANTS
    PoolSize = 2
    CompIds = {c1, c2, c3, x}
    Allowed = {c1, c2, c3}
    RequireAuth = FALSE
    MaxIdle = 1
    MaxConnId = 6
    MaxRejected = 2
    Handlers = {h1, h2, h3}
    c1 = c1  c2 = c2  c3 = c3  x = x
    h1 = h1  h2 = h2  h3 = h3
SPECIFICATION FairSpec
INVARIANTS AcceptorTypeOK UniqueIds OneConnectionPerCompId HandlerHasSlot
PROPERTIES ImplementsRegistry SlotComesBack
