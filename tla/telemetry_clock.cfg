CONSTANTS
    NanosPerSec = 100
    Modulus = 4096
    Counters <- TwoCounters
    Gauges <- OneGauge
    Histograms <- OneHistogram
    RenderOrder <- InOrder
    High = 3
    FirstYears = {2554}
    LastDay = 213302
    StartDays = {213302}
    Times <- Instants
    Sources = {"System"}
    TscHz = 300
    TscStart = 40
    WallStart = 9
    CalDuration = 3
    WallSteps <- BackAndForth
    MaxWallSteps = 1
    MaxTime <- Time
    MaxUpdates <- Updates
SPECIFICATION Spec
INVARIANT SystemLatencyTrue
