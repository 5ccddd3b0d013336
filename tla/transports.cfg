CONSTANTS
    HeartbeatInterval <- Intervals
    Grace = 1
    ApplVerID = {"v1", "v2", "v3"}
    MaxRate = 1
    Second = 2
    Configs <- TwoConfigs
    Contents <- Kinds
    MaxSends <- Sends
    MaxCuts = 1
    MaxDials = 2
    MaxTicks = 2
    MAX_FIELDS = 18
    MaxMessageSize = 130
    Shapes <- MessageShapes
    Noise <- RawBytes
    Group <- MDEntriesWithLegs
    Entries <- BookEntries
    ChunkSizes = {41, 256}
    MaxItems = 3
SPECIFICATION TransportsSpec
INVARIANTS TypeOK FramesOnce VersionsAgree RateBounded Framed FieldsKept GroupsKept
CHECK_DEADLOCK FALSE
