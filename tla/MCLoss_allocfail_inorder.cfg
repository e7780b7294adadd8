\* In-order delivery with one failed range allocation.
CONSTANTS
    SeqBits = 4
    Start = 1
    NumPackets = 5
    W = 2
    MaxBacklog = 3
    Reordering = FALSE
    MaxDup = 0
    MaxAllocFail = 1
    MaxExtent = 2
    DT = 2
SPECIFICATION Spec
INVARIANT Conservation
