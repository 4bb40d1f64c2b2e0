CONSTANTS
    t1 = t1
    t2 = t2
    Tasks <- MCTasks
    TTL = 2
    FallbackAge = 4
    Start = 3
    MaxTime = 7
    NoTask = NoTask

SPECIFICATION Spec

INVARIANT TypeOK
INVARIANT ServedHeadersFresh
