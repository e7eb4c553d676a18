SPECIFICATION Spec
CONSTANTS
    t1 = t1
    t2 = t2
    t3 = t3
    Threads = {t1, t2}
    Keys <- MCKeys
    DocumentKeys <- MCDocumentKeys
    LockObjects <- MCObjects
    Pipelines <- RepairPipelines
    NoKey = NoKey
    NoLock = NoLock
    Nobody = Nobody
INVARIANT NoWaitCycle
CHECK_DEADLOCK FALSE
