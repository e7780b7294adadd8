\* In-order delivery with one duplicate and a look-ahead of one epoch.
CONSTANTS
    SeqBits = 4
    Start = 1
    NumPackets = 4
    W = 2
    MaxBacklog = 3
    Reordering = FALSE
    MaxDup = 1
    MaxAllocFail = 0
    MaxExtent = 2
    DT = 2
SPECIFICATION Spec
INVARIANT Conservation
