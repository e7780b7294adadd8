\* One application thread with three calls (enough for a failed init, a
\* re-init over the stale schedule, a destroy and another init), every
\* schedule string, one failed pthread_create and one failed allocation.
\* Deadlock is not checked: the application stops calling after MaxCalls,
\* and after a rejected schedule init returns with init_mutex held, so the
\* next init or destroy blocks for good.
CONSTANTS
    App = {a1}
    Schedules <- MCSchedules
    MaxCalls = 3
    MaxCreateFail = 1
    MaxAllocFail = 1
    MaxLag = 1
SPECIFICATION Spec
INVARIANT StartedMeansThreads
PROPERTY ResetToFirstSlot
PROPERTY EveryTrackerReports
CHECK_DEADLOCK FALSE
