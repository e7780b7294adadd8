\* reporter_min_batches = 0.
CONSTANTS
    Producers = {p1, p2}
    MaxPush = 2
    W = 0
    UnitsPerSecond = 4
    IntervalSec = 0
    IntervalNsec = 2
    MaxLag = 1
    MaxEpochs = 2
    Shutdown = FALSE
SPECIFICATION Spec
INVARIANT NoNullEarliest
