\* Five item addresses and three map addresses: enough for the reporter
\* to recycle maps and items through the free lists and the aggregator to
\* reuse them; two streams of one flow, both hashed to bucket 0, so hash
\* chains hold two and three items.  periods_to_wait = 1, since with two
\* the aggregator needs a fourth map before the first comes back.
\* Start and Destroy alternate, so there is no deadlock.
CONSTANTS
    Node = {n1, n2, n3, n4, n5}
    Map = {m1, m2, m3}
    StreamKey = {k1, k2}
    Flow <- MCFlow
    HashSize = 2
    Hash <- MCHash
    periods_to_wait = 1
    NULL = NULL
    MaxPackets = 1
    MaxPending = 1
SPECIFICATION Spec
INVARIANT RetrieveMatchesItems
INVARIANT StorageOwnedOnce
INVARIANT ReportCountsArrivals
PROPERTY SeqSpec
