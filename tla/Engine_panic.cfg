SPECIFICATION FairSpec
CONSTANTS
    Req = {r1}
    Delivery = {d1}
    Original = {TRUE}
    FrameLen <- OddLengths
    Cap = 6
    Cutoff = 1
    MaxFrames = 3
PROPERTY
    CallsReturn
CHECK_DEADLOCK FALSE
