SPECIFICATION FairSpec
CONSTANTS
    Req = {r1, r2}
    Delivery = {d1}
    Original = {TRUE}
    FrameLen <- EvenLength
    Cap = 2
    Cutoff = 0
    MaxFrames = 1
PROPERTIES
    EntriesLeave
    CallsReturn
CHECK_DEADLOCK FALSE
