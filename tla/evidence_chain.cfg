CONSTANTS
    Width = 4
    Height = 2
    Minima <- MCMinima
    MaxMasked = 1
    MaxMoved = 1
    Areas <- MCAreas
    Deltas <- MCDeltas
SPECIFICATION Spec
INVARIANTS
    EventRestsOnEvidence
    RemovedChangesCounted
    LabelFollowsSignals
CHECK_DEADLOCK FALSE
