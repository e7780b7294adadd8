\* In-order arrivals 13, 14, 15, 0: a range ending at 2^SeqBits-1 reaches
\* the reorder estimators.
CONSTANTS
    SeqBits = 4
    Start = 13
    NumPackets = 4
    W = 1
    MaxBacklog = 2
    Reordering = FALSE
    MaxDup = 0
    MaxAllocFail = 0
    MaxExtent = 2
    DT = 2
SPECIFICATION Spec
INVARIANT ReorderReturns
