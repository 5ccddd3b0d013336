CONSTANTS
    Capacity = 15
    PageSize = 5
    SessionHashes = {s}
    Messages = {short, long, huge}
    Size <- MessageSize
    Policies = {"None", "Batch", "EveryMessage"}
    MaxAppends = 4
    s = s  short = short  long = long  huge = huge
SPECIFICATION Spec
INVARIANTS TypeOK Retained DurableOnDisk LatestSurvives
