CONSTANTS
    Clients = {c1, c2}
    MaxOps = 1
    ChannelSize = 1
    NoToken = NoToken
    ListensInTime = TRUE
    MaxWorkers = 3
    MaxErrors = 2
SPECIFICATION CallsSpec
INVARIANTS CancelHitsOwnRun NoRunLeaks HearsOwnVerdict
PROPERTIES ThreadsEnd EveryTransportKeepsIt VerdictIsHeard
CHECK_DEADLOCK FALSE
