\* In-order delivery with losses: epochs with and without gaps reach the
\* same tracker entry.
CONSTANTS
    SeqBits = 4
    Start = 1
    NumPackets = 4
    W = 1
    MaxBacklog = 2
    Reordering = FALSE
    MaxDup = 0
    MaxAllocFail = 0
    MaxExtent = 2
    DT = 2
SPECIFICATION Spec
INVARIANT GapMinIsSmallestGap
