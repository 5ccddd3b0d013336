CONSTANTS
    HeartbeatInterval <- Intervals
    Grace = 2
    Modes <- AllModes
    MaxBatch = 2
    Fragments = TRUE
    Faults = TRUE
    AppTypes <- ClientSendsAnything
    MaxApp <- TwoIfPrompt
    MaxSeq <- Numbers
SPECIFICATION FairSpec
INVARIANTS InStep OrderlyEnd CallbackInSession
PROPERTIES LogoutIsLast StopPropagates DeadPeerNoticed ClientStopPropagates
