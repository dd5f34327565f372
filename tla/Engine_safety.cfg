SPECIFICATION Spec
CONSTANTS
    Req = {r1, r2}
    Delivery = {d1, d2}
    Original = {TRUE, FALSE}
    FrameLen <- OddLengths
    Cap = 6
    Cutoff = 0
    MaxFrames = 2
SYMMETRY Symmetric
INVARIANTS
    TypeOK
    TextBounded
    OutcomeToldOnce
    TrackedOutcomeTold
    SamplesComplete
    SamplesKeyedAsLookedUp
    CompletedNotPending
CHECK_DEADLOCK FALSE
