SPECIFICATION Spec
CONSTANTS
    Req = {r1}
    Delivery = {d1}
    Original = {TRUE}
    FrameLen <- EvenLength
    Cap = 4
    Cutoff = 1
    MaxFrames = 3
INVARIANT
    FailuresTold
CHECK_DEADLOCK FALSE
