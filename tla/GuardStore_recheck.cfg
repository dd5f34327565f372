SPECIFICATION Spec
CONSTANTS
    ThresholdNum = 9
    ThresholdDen = 10
    Item = {i1}
    Session = {s1}
    Input <- OneInput
    Status <- OneFailureCode
    Payload = {"json"}
    JSONPayload = {"json"}
    Thread = {t1, t2}
    TTL = 1
    CircuitTTL = 2
    Lag = 0
    DiskFaults = FALSE
    MaxNow = 2
    MaxEvents = 4
PROPERTY
    LiveMarkKept
CHECK_DEADLOCK FALSE
