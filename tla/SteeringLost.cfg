SPECIFICATION AssignmentSpec
CONSTANTS
    review = review
    delegated = delegated
    NoReviewId = NoReviewId
    Reviews = {review, delegated}
    ParentOf <- Parents
    ResumePolicy <- Resumes
    MaxSteps = 1
    MaxSteers = 1
    QueueLimit = 2
    AttemptsFail = FALSE
INVARIANT SteeringDoesNotFail
CHECK_DEADLOCK FALSE
