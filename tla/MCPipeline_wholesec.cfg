\* A whole-second aggregation interval (aggregation_interval = 1.0).
CONSTANTS
    Producers = {p1, p2}
    MaxPush = 2
    W = 2
    UnitsPerSecond = 4
    IntervalSec = 1
    IntervalNsec = 0
    MaxLag = 1
    MaxEpochs = 3
    Shutdown = FALSE
SPECIFICATION Spec
PROPERTY EventuallyReported
