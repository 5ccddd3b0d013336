CONSTANTS
    NanosPerSec = 100
    Modulus = 4096
    Counters <- TwoCounters
    Gauges <- OneGauge
    Histograms <- OneHistogram
    RenderOrder <- InOrder
    High = 3
    FirstYears <- Years
    LastDay = 213503
    StartDays = {213503}
    Times <- Instants
    Sources = {"System", "Tsc"}
    TscHz = 300
    TscStart = 40
    WallStart = 2
    CalDuration = 3
    WallSteps <- BackAndForth
    MaxWallSteps = 1
    MaxTime <- Time
    MaxUpdates <- Updates
    Configs <- OneOff
    Ids <- SomeIds
    States <- SomeStates
    Healths <- Unhealthy
    Clients = {c1, c2}
    Requests <- SomeRequests
    MaxSessions = 2
    MaxSecs = 1
    c1 = c1  c2 = c2
SPECIFICATION ObservabilitySpec
INVARIANTS TimestampIsCivil LatencyTrue RenderConsistent AnswerIsTrue
PROPERTIES EveryRequestAnswered
