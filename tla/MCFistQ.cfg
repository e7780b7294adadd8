\* Two producer handles and the consumer handle on one (src,dst) pair,
\* every enqueue option, a threshold of 2 and one failed allocation.
\* A failed fistq_create_unsafe leaves fistq_list_lock held, after which
\* every thread that calls fistq_getHandle or fistq_destroyHandle blocks
\* for good: the system really can stop.
CONSTANTS
    Producers = {p1, p2}
    Consumer = c
    Threshold = 2
    MaxSend = 3
    MaxAllocFail = 1
SPECIFICATION Spec
INVARIANT RefCountMatchesHandles
PROPERTY ImplementsChannel
CHECK_DEADLOCK FALSE
