\* Losses and reordering across epochs with a look-ahead of one epoch.
CONSTANTS
    SeqBits = 4
    Start = 1
    NumPackets = 6
    W = 2
    MaxBacklog = 3
    Reordering = TRUE
    MaxDup = 0
    MaxAllocFail = 0
    MaxExtent = 2
    DT = 2
SPECIFICATION Spec
INVARIANT Conservation
INVARIANT NoPhantomReceipt
INVARIANT DensityPending
