CONSTANTS
    PoolSize = 2
    CompIds = {c1, c2}
    Allowed = {c1, c2}
    RequireAuth = FALSE
    MaxIdle = 1
    MaxConnId = 4
    MaxRejected = 1
    Handlers = {h1, h2}
    c1 = c1  c2 = c2
    h1 = h1  h2 = h2
SPECIFICATION Spec
INVARIANT EveryConnectionReleased
