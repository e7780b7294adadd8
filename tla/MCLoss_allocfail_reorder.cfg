\* Reordering with one failed range allocation.
CONSTANTS
    SeqBits = 4
    Start = 1
    NumPackets = 4
    W = 2
    MaxBacklog = 3
    Reordering = TRUE
    MaxDup = 0
    MaxAllocFail = 1
    MaxExtent = 2
    DT = 2
SPECIFICATION Spec
INVARIANT Conservation
