SPECIFICATION Spec
CONSTANTS
    DefaultMaxPayload = 2
    Req = {r1, r2, r3}
    Delivery = {d1}
    Original = {TRUE, FALSE}
    FrameLen <- OneLength
    Cap = 100
    Cutoff = 1
    MaxFrames = 1
    Session = {"s", "t"}
    Input <- Inputs
    MaxEvents = 10
    Hash = {"h", "g"}
    MinSamples = 2
    MaxEntries = 1
    MaxHits = 3
    MaxNow = 2
    MaxTime <- TimeWith
    MaxOpen <- OpenWith
    MaxBusy <- BusyWith
    Item = {"rs"}
    Config <- Configs
    ItemTTL = 0
    CircuitTTL = 1
    ProbeTTL = 1
    DefaultTTL = 1
    ThresholdNum = 0
    ThresholdDen = 1
    MaxInputBytes = 1
    Request <- RequestsOf
    Upstream <- UpstreamForms
    Failure <- Failures
SYMMETRY Symmetric
INVARIANTS
    TypeOK
    AnswersJustified
    RefusesKnownBad
    WarmPoolAnswers
CHECK_DEADLOCK FALSE
