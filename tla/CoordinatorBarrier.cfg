SPECIFICATION FairSpec
CONSTANTS
    t1 = t1
    t2 = t2
    t3 = t3
    Threads = {t1, t2, t3}
    Keys <- MCKeys
    DocumentKeys <- MCDocumentKeys
    LockObjects <- MCObjects
    Pipelines <- BarrierPipelines
    NoKey = NoKey
    NoLock = NoLock
    Nobody = Nobody
INVARIANTS
    BackupSeesNoMutation
    NoLostWakeup
PROPERTIES
    PipelinesEnd
    BarrierSpec
CHECK_DEADLOCK FALSE
