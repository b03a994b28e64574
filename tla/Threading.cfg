CONSTANTS
    Thread = {t1, t2, t3}
    NoThread = NoThread
SPECIFICATION ThreadFairSpec
INVARIANTS
    ThreadTypeOK
    HolderOwnsMutex
    DataFreedOnce
PROPERTY EveryThreadExits
CHECK_DEADLOCK FALSE
