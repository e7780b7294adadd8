\* Two producer handles pushing three records between them, a half-second
\* aggregation interval, W = 2, and a caller that may destroy the library
\* at any point (after which the system stops).
CONSTANTS
    Producers = {p1, p2}
    MaxPush = 3
    W = 2
    UnitsPerSecond = 2
    IntervalSec = 0
    IntervalNsec = 1
    MaxLag = 1
    MaxEpochs = 3
    Shutdown = TRUE
SPECIFICATION Spec
INVARIANT PipelineOrder
PROPERTY EventuallyReported
PROPERTY ShutdownCompletes
CHECK_DEADLOCK FALSE
