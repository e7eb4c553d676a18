SPECIFICATION Spec
CONSTANTS
    Producers = {t1, t2}
    Payloads <- LoadSet
    MaxItems = 2
    MaxQueueBytes = 2
    MaxTotalBytes = 2
    MaxBatch = 1
    Failures = {"busy", "terminal"}
    TimeoutsHappen = TRUE
    Nobody = Nobody
    Kinds = {"mutation"}
    MaxTransactions = 2
    MaxRetries = 1
INVARIANTS
    TypeOK
    AdmissionIsExact
    MutationIsAudited
    CloseLosesNothing
SYMMETRY ProducerSymmetry
CHECK_DEADLOCK FALSE
