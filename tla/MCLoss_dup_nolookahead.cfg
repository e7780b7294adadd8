\* Reordering and a duplicate with no look-ahead (W = 1).
CONSTANTS
    SeqBits = 4
    Start = 1
    NumPackets = 5
    W = 1
    MaxBacklog = 2
    Reordering = TRUE
    MaxDup = 1
    MaxAllocFail = 0
    MaxExtent = 2
    DT = 2
SPECIFICATION Spec
INVARIANT Conservation
INVARIANT NoPhantomReceipt
INVARIANT ExtentConservation
