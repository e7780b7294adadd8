\* Two application threads, two calls each.  Both can pass destroy's check
\* of pd3_estimator_started, which is made before init_mutex is released
\* and the threads are joined; one finishes and re-inits, and the stale one
\* joins the threads of the new library.
CONSTANTS
    App = {a1, a2}
    Schedules <- MCSchedules
    MaxCalls = 2
    MaxCreateFail = 1
    MaxAllocFail = 1
    MaxLag = 1
SPECIFICATION Spec
INVARIANT StartedMeansThreads
CHECK_DEADLOCK FALSE
