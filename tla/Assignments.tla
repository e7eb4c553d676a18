----------------------------- MODULE Assignments -----------------------------
(***************************************************************************)
(* Persistent reviews of assignments.py.  One worker drains the queue.  It *)
(* works on a copy of the row, writes it back at checkpoints that merge    *)
(* only the status, and turns a stored result into a document under the    *)
(* control lock.  People steer, pause, resume and stop meanwhile.          *)
(***************************************************************************)
EXTENDS Naturals, FiniteSets

CONSTANTS
    Reviews,            \* assignments
    ParentOf,           \* parent_assignment_id of each
    NoReviewId,
    MaxSteps,           \* max_steps of every assignment
    MaxSteers,          \* bound on steering
    QueueLimit,         \* max_concurrent_runs + max_waiting_runs
    AttemptsFail,       \* may providers and documents fail?
    ResumePolicy        \* resume_after_restart of each

VARIABLES
    assignment,         \* rows of assignments
    steers,             \* how often each has been steered (assignment_inputs)
    runner,             \* where the worker is, and the copy it works on
    findings            \* documents: the steps whose result has been written

assignmentVars == <<assignment, steers, runner, findings>>

Active == {"queued", "running"}
Terminal == {"stopped", "exhausted"}

(* result: the step whose validated result is stored, 0 if none is.        *)
NoAssignment == [status |-> "none", steps |-> 0, result |-> 0, consumed |-> 0,
                 attempt |-> FALSE, children |-> {}, artifacts |-> {}]

IdleRunner(a) == [at |-> "idle", of |-> a, copy |-> NoAssignment]

AssignmentInit ==
    /\ assignment = [a \in Reviews |-> NoAssignment]
    /\ steers = [a \in Reviews |-> 0]
    /\ runner = IdleRunner(CHOOSE a \in Reviews : TRUE)
    /\ findings = [a \in Reviews |-> {}]

Mine == runner.of
Row == assignment[Mine]
RunnerAt(place) == runner.at = place
Rests == runner' = IdleRunner(Mine)
SaveRow(copy) == assignment' = [assignment EXCEPT ![Mine] = copy]

-----------------------------------------------------------------------------
(* create(), which tells the parent of its child.                          *)
CreateReview(a) ==
    LET parent == ParentOf[a]
        added  == [assignment EXCEPT ![a] = [NoAssignment EXCEPT !.status = "queued"]]
    IN
    /\ assignment[a].status = "none"
    /\ Cardinality({b \in Reviews : assignment[b].status \in Active}) < QueueLimit
    /\ IF parent = NoReviewId THEN assignment' = added
       ELSE /\ assignment[parent].status \in Active
            /\ assignment' = [added EXCEPT ![parent].children = @ \cup {a}]
    /\ UNCHANGED <<steers, runner, findings>>

(* commit_result() holds _control_lock from its first read to its save.    *)
ControlLocked == runner.at \in {"writing", "saving"}

(* control(): pause, resume and stop reach the children that are listed.   *)
Controlled(a, status, childStatus) ==
    /\ ~ControlLocked
    /\ assignment' = [b \in Reviews |->
         IF b = a THEN [assignment[a] EXCEPT !.status = status]
         ELSE IF b \in assignment[a].children /\ assignment[b].status \in Active
              THEN [assignment[b] EXCEPT !.status = childStatus]
              ELSE assignment[b]]
    /\ UNCHANGED <<steers, runner, findings>>

PauseReview(a) == assignment[a].status \in Active /\ Controlled(a, "paused", "paused")

ResumeReview(a) == assignment[a].status \in {"paused", "failed"}
             /\ Controlled(a, "queued", "stopped")

StopReview(a) == assignment[a].status \notin Terminal \cup {"none"}
           /\ Controlled(a, "stopped", "stopped")

SteerReview(a) ==
    /\ ~ControlLocked
    /\ assignment[a].status \notin Terminal \cup {"none"}
    /\ steers[a] < MaxSteers
    /\ steers' = [steers EXCEPT ![a] = @ + 1]
    /\ assignment' = [assignment EXCEPT ![a] =
         IF @.status \in {"completed", "failed"}
         THEN [@ EXCEPT !.status = "queued", !.result = 0] ELSE @]
    /\ UNCHANGED <<runner, findings>>

-----------------------------------------------------------------------------
(* claim() and execute()                                                   *)

ClaimReview(a) ==
    /\ RunnerAt("idle") /\ assignment[a].status = "queued"
    /\ assignment' = [assignment EXCEPT ![a].status = "running"]
    /\ runner' = [at |-> "claimed", of |-> a, copy |-> assignment'[a]]
    /\ UNCHANGED <<steers, findings>>

RunnerGoes(place) == runner' = [runner EXCEPT !.at = place]

ReuseResult ==
    /\ RunnerAt("claimed") /\ runner.copy.result # 0
    /\ RunnerGoes("committing")
    /\ UNCHANGED <<assignment, steers, findings>>

(* No steps left, or no time: what earlier attempts took may be all that   *)
(* max_seconds allows.  The copy is saved whatever has become of the row.  *)
Exhaust ==
    /\ RunnerAt("claimed") /\ runner.copy.result = 0
    /\ runner.copy.steps >= MaxSteps \/ runner.copy.steps > 0
    /\ SaveRow([runner.copy EXCEPT !.status = "exhausted"])
    /\ Rests
    /\ UNCHANGED <<steers, findings>>

(* context() reads the steering with inputs[-1][["input_id"]], which       *)
(* raises: a steered assignment has no context.                            *)
HasContext == steers[Mine] = 0

BeginAttempt ==
    /\ RunnerAt("claimed") /\ runner.copy.result = 0
    /\ runner.copy.steps < MaxSteps
    /\ HasContext
    /\ runner' = [runner EXCEPT !.at = "starting", !.copy.steps = @ + 1,
                                !.copy.consumed = steers[Mine], !.copy.attempt = TRUE]
    /\ UNCHANGED <<assignment, steers, findings>>

LacksContext ==
    /\ \/ RunnerAt("claimed") /\ runner.copy.result = 0 /\ runner.copy.steps < MaxSteps
       \/ RunnerAt("committing") /\ Row.status = "running" /\ Row.result # 0
    /\ ~HasContext
    /\ RunnerGoes("failed")
    /\ UNCHANGED <<assignment, steers, findings>>

ProgressKeepingStatus ==
    /\ RunnerAt("starting")
    /\ SaveRow(runner.copy)
    /\ RunnerGoes("inferring")
    /\ UNCHANGED <<steers, findings>>

(* _progress(): the status of the row wins.  An attempt that is no longer  *)
(* wanted ends before the model is asked.                                  *)
CheckpointProgress ==
    LET copy == [runner.copy EXCEPT !.status = Row.status] IN
    /\ RunnerAt("starting")
    /\ SaveRow(copy)
    /\ IF Row.status = "running" THEN runner' = [runner EXCEPT !.at = "inferring", !.copy = copy]
                                 ELSE Rests
    /\ UNCHANGED <<steers, findings>>

(* The model answers; what it says is stored if it passes validation.      *)
StoreResult ==
    LET copy == [runner.copy EXCEPT !.status = Row.status, !.attempt = FALSE,
                                    !.result = runner.copy.steps]
    IN
    /\ RunnerAt("inferring")
    /\ SaveRow(copy)
    /\ runner' = [runner EXCEPT !.at = "committing", !.copy = copy]
    /\ UNCHANGED <<steers, findings>>

(* A call fails, also after the document is written.                       *)
FailAttempt(place) ==
    /\ AttemptsFail /\ place \in {"claimed", "inferring", "writing", "saving"}
    /\ RunnerAt(place)
    /\ RunnerGoes("failed")
    /\ UNCHANGED <<assignment, steers, findings>>

(* asyncio.timeout() over the rest of max_seconds.                         *)
TimeOut ==
    /\ AttemptsFail /\ RunnerAt("inferring")
    /\ RunnerGoes("timed out")
    /\ UNCHANGED <<assignment, steers, findings>>

(* failed(): the copy is dropped, the row keeps its result.                *)
StoreReviewFailure(place, status) ==
    /\ RunnerAt(place)
    /\ assignment' = [assignment EXCEPT
         ![Mine].status = IF @ = "running" THEN status ELSE @,
         ![Mine].attempt = FALSE,
         ![Mine].steps = IF runner.copy.steps > @ THEN runner.copy.steps ELSE @]
    /\ Rests
    /\ UNCHANGED <<steers, findings>>

-----------------------------------------------------------------------------
(* commit_result()                                                         *)

Finalizable == Row.status = "running" /\ Row.result # 0

BeginCommit ==
    /\ RunnerAt("committing") /\ Finalizable /\ HasContext
    /\ runner' = [runner EXCEPT !.at = "writing", !.copy = Row]
    /\ UNCHANGED <<assignment, steers, findings>>

SkipCommit ==
    /\ RunnerAt("committing") /\ ~Finalizable
    /\ Rests
    /\ UNCHANGED <<assignment, steers, findings>>

(* The document's key names the step, so a second attempt finds it.        *)
WriteFindings ==
    /\ RunnerAt("writing")
    /\ findings' = [findings EXCEPT ![Mine] = @ \cup {runner.copy.steps}]
    /\ RunnerGoes("saving")
    /\ UNCHANGED <<assignment, steers>>

CompleteReview ==
    /\ RunnerAt("saving")
    /\ SaveRow([runner.copy EXCEPT !.status = "completed",
                                !.artifacts = @ \cup {runner.copy.steps}])
    /\ Rests
    /\ UNCHANGED <<steers, findings>>

-----------------------------------------------------------------------------
(* A restart, and recover(): the attempts there were, one under way as     *)
(* well, count against the time limit, which may have been reached.        *)
Recovered(a, timeIsUp) ==
    LET row == assignment[a] IN
    IF row.status \in Active
    THEN [row EXCEPT !.attempt = FALSE,
                     !.status = IF timeIsUp /\ row.steps > 0 THEN "exhausted"
                                ELSE IF ResumePolicy[a] THEN "queued" ELSE "paused"]
    ELSE [row EXCEPT !.attempt = FALSE]

RestartReviews ==
    /\ \E late \in SUBSET Reviews :
         assignment' = [a \in Reviews |-> Recovered(a, a \in late)]
    /\ Rests
    /\ UNCHANGED <<steers, findings>>

AssignmentNext ==
    \/ \E a \in Reviews :
         \/ CreateReview(a) \/ PauseReview(a) \/ ResumeReview(a) \/ StopReview(a) \/ SteerReview(a)
         \/ ClaimReview(a)
    \/ ReuseResult \/ Exhaust \/ BeginAttempt \/ LacksContext \/ CheckpointProgress
    \/ StoreResult
    \/ \E place \in {"claimed", "inferring", "writing", "saving"} : FailAttempt(place)
    \/ TimeOut
    \/ StoreReviewFailure("failed", "failed") \/ StoreReviewFailure("timed out", "exhausted")
    \/ BeginCommit \/ SkipCommit \/ WriteFindings \/ CompleteReview
    \/ RestartReviews

AssignmentSpec == AssignmentInit /\ [][AssignmentNext]_assignmentVars

-----------------------------------------------------------------------------
(* Properties.                                                             *)

AssignmentTypeOK ==
    /\ \A a \in Reviews :
         /\ assignment[a].status \in {"none", "paused", "completed", "failed"} \cup Active \cup Terminal
         /\ assignment[a].steps \in 0 .. MaxSteps
         /\ assignment[a].children \subseteq Reviews
         /\ findings[a] \subseteq 1 .. MaxSteps
    /\ Mine \in Reviews

(* "Stopped and exhausted assignments cannot resume", although the worker  *)
(* writes whole rows from a copy it made before they were stopped; and     *)
(* "result writes wait for resume or are suppressed after stop".           *)
ControlIsKept ==
    [][\A a \in Reviews :
         /\ assignment[a].status \in Terminal => assignment'[a].status \in Terminal
         /\ findings'[a] # findings[a] => assignment[a].status = "running"]_assignmentVars

(* "Restart recovery reuses that result and the original document          *)
(* operation key": a completed review lists every document ever written    *)
(* for it, none is left behind by a crash between the document and the     *)
(* row, and it is the document of a result that was stored.                *)
NoOrphanFindings ==
    \A a \in Reviews :
        assignment[a].status = "completed" =>
            /\ findings[a] = assignment[a].artifacts
            /\ assignment[a].result \in findings[a]

(* "Steering is stored before acknowledgement and consumed before          *)
(* finalization": where nothing else can fail, steering does not make an   *)
(* assignment fail.                                                        *)
SteeringDoesNotFail ==
    ~AttemptsFail => \A a \in Reviews : assignment[a].status # "failed"
=============================================================================
