SPECIFICATION Spec
CONSTANTS
    ThresholdNum = 9
    ThresholdDen = 10
    Item = {}
    Session = {s1, s2}
    Input <- GrowingInputs
    Status <- OneFailureCode
    Payload = {"json"}
    JSONPayload = {"json"}
    Thread = {}
    TTL = 1
    CircuitTTL = 2
    Lag = 1
    DiskFaults = TRUE
    MaxNow = 3
    MaxEvents = 4
SYMMETRY SessionSymmetry
INVARIANTS
    TypeOK
    BlockedByOwnFailures
    SuccessDisarms
    CircuitsExplained
    CountsSinceSuccess
    RepeatsTrip
CHECK_DEADLOCK FALSE
