CONSTANTS
    Capacity = 15
    PageSize = 5
    SessionHashes = {s}
    Messages = {short, long}
    Size <- MessageSize
    Policies = {"EveryMessage"}
    MaxAppends = 4
    s = s  short = short  long = long  huge = huge
SPECIFICATION Spec
INVARIANT HighestRecoverable
