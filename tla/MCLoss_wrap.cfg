\* The stream crosses the wrap 2^SeqBits-2, 2^SeqBits-1, 0, 1.
CONSTANTS
    SeqBits = 4
    Start = 14
    NumPackets = 4
    W = 1
    MaxBacklog = 2
    Reordering = FALSE
    MaxDup = 0
    MaxAllocFail = 0
    MaxExtent = 2
    DT = 2
SPECIFICATION Spec
INVARIANT Conservation
