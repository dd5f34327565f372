SPECIFICATION Spec
CONSTANTS
    ThresholdNum = 9
    ThresholdDen = 10
    Item = {i1, i2}
    Session = {s1}
    Input <- OneInput
    Status <- OneFailureCode
    Payload = {"json", "text"}
    JSONPayload = {"json"}
    Thread = {t1, t2}
    TTL = 1
    CircuitTTL = 1
    Lag = 1
    DiskFaults = TRUE
    MaxNow = 2
    MaxEvents = 1
SYMMETRY ThreadSymmetry
INVARIANTS
    CleanMeansSaved
    ReturnedMarksSaved
    MarksAccountedFor
CHECK_DEADLOCK FALSE
