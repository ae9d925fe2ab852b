SPECIFICATION FairSpec
CONSTANTS
    Threads = {main, other, another}
    Background = background
    Tasks = {t1, t2, t3, t4}
    Null = null
INVARIANTS
    TypeOK
    OneSignal
PROPERTIES
    ImplementsTaskQueue
    EveryTaskRuns
CHECK_DEADLOCK FALSE
