CONSTANTS
    HeartbeatInterval <- Intervals
    Grace = 2
    Modes <- BehindServer
    MaxBatch = 1
    Fragments = FALSE
    Faults = FALSE
    AppTypes <- Orders
    MaxApp <- OneEach
    MaxSeq <- MoreNumbers
SPECIFICATION FairSpec
PROPERTIES GapFilled
