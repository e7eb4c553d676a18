SPECIFICATION Spec
CONSTANTS
    t1 = t1
    t2 = t2
    t3 = t3
    Threads = {t1, t2, t3}
    Keys <- MCKeys
    DocumentKeys <- MCDocumentKeys
    LockObjects <- MCObjects
    Pipelines <- HttpPipelines
    NoKey = NoKey
    NoLock = NoLock
    Nobody = Nobody
INVARIANTS
    TypeOK
    OneOwnerPerKey
    TableMatchesUse
    NoDocumentHeldAtTheBarrier
    NoWaitCycle
CHECK_DEADLOCK FALSE
SYMMETRY ThreadSymmetry
