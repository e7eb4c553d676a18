--------------------------- MODULE OrganizationPlan ---------------------------
(***************************************************************************)
(* apply_workspace_organization_plan() of access.py: a list of operations  *)
(* carried out one by one, each under a key derived from the plan's, with  *)
(* the progress saved after each.  A call that comes again resumes.        *)
(***************************************************************************)
EXTENDS Naturals, Sequences

CONSTANTS
    PlanCalls,              \* requests that name the same plan and key
    Operations,         \* how many operations the plan has
    MaxCrashes          \* bound on the crashes

ASSUME PlanAssumption == Operations \in Nat

VARIABLES
    execution,          \* row of organization_plan_executions
    performed,          \* how often each operation has been committed
    planCall,           \* where each call is
    crashes

planVars == <<execution, performed, planCall, crashes>>

Steps == 1 .. Operations
Outcomes == {"completed", "conflicted", "failed", "skipped"}

NoExecution == [status |-> "none", next |-> 0, items |-> <<>>]
NoPlanCall == [at |-> "away", done |-> 0, items |-> <<>>]

PlanInit ==
    /\ execution = NoExecution
    /\ performed = [i \in Steps |-> 0]
    /\ planCall = [c \in PlanCalls |-> NoPlanCall]
    /\ crashes = 0

PlanAt(c, place) == planCall[c].at = place
PlanGoes(c, place) == planCall' = [planCall EXCEPT ![c].at = place]
CurrentOperation(c) == planCall[c].done + 1

(* idempotency.committed() of the child key: its record is written in the  *)
(* transaction that performs the operation.                                *)
OperationCommitted(i) == performed[i] > 0

-----------------------------------------------------------------------------
(* The admitting transaction.  preflight_organization_plan() refuses a     *)
(* plan that could not run as it was reviewed.                             *)
Admit(c) ==
    /\ PlanAt(c, "away") /\ execution.status = "none"
    /\ execution' = [NoExecution EXCEPT !.status = "running"]
    /\ planCall' = [planCall EXCEPT ![c] = [NoPlanCall EXCEPT !.at = "next"]]
    /\ UNCHANGED <<performed, crashes>>

Resume(c) ==
    /\ PlanAt(c, "away") /\ execution.status = "running"
    /\ planCall' = [planCall EXCEPT ![c] =
         [at |-> "next", done |-> execution.next, items |-> execution.items]]
    /\ UNCHANGED <<execution, performed, crashes>>

(* An operation that is known to be committed is not held against a        *)
(* workspace it has already changed.                                       *)
SkipPreflight(c) ==
    /\ PlanAt(c, "next") /\ CurrentOperation(c) \in Steps /\ OperationCommitted(CurrentOperation(c))
    /\ PlanGoes(c, "checked")
    /\ UNCHANGED <<execution, performed, crashes>>

BeginPreflight(c) ==
    /\ PlanAt(c, "next") /\ CurrentOperation(c) \in Steps /\ ~OperationCommitted(CurrentOperation(c))
    /\ PlanGoes(c, "unchecked")
    /\ UNCHANGED <<execution, performed, crashes>>

(* The preflight of one operation: it conflicts if it has been performed   *)
(* meanwhile, and may for what others did.                                 *)
PassPreflight(c) ==
    /\ PlanAt(c, "unchecked") /\ ~OperationCommitted(CurrentOperation(c))
    /\ PlanGoes(c, "checked")
    /\ UNCHANGED <<execution, performed, crashes>>

ItemsAfter(c, outcome) ==
    planCall[c].items \o [i \in 1 .. Operations - planCall[c].done |->
                            IF i = 1 THEN outcome ELSE "skipped"]

(* It fails, perhaps when it has committed; those after it are not         *)
(* attempted.                                                              *)
FailOperation(c, outcome) ==
    /\ planCall[c].at \in {"unchecked", "checked", "performed"}
    /\ planCall' = [planCall EXCEPT ![c].at = "over", ![c].items = ItemsAfter(c, outcome)]
    /\ UNCHANGED <<execution, performed, crashes>>

PerformPlannedUnderNewKey(c) ==
    /\ PlanAt(c, "checked")
    /\ performed' = [performed EXCEPT ![CurrentOperation(c)] = @ + 1]
    /\ PlanGoes(c, "performed")
    /\ UNCHANGED <<execution, crashes>>

(* _execute_organization_operation(): a committed one is replayed.         *)
PerformPlanned(c) ==
    /\ PlanAt(c, "checked")
    /\ performed' = [performed EXCEPT ![CurrentOperation(c)] = 1]
    /\ PlanGoes(c, "performed")
    /\ UNCHANGED <<execution, crashes>>

(* The progress is saved whatever the row says by now.                     *)
SaveProgress(c) ==
    LET items == Append(planCall[c].items, "completed") IN
    /\ PlanAt(c, "performed")
    /\ execution' = [execution EXCEPT !.next = CurrentOperation(c), !.items = items]
    /\ planCall' = [planCall EXCEPT ![c] =
         [at |-> IF Len(items) = Operations THEN "over" ELSE "next",
          done |-> CurrentOperation(c), items |-> items]]
    /\ UNCHANGED <<performed, crashes>>

CompletedItems(items) == {i \in 1 .. Len(items) : items[i] = "completed"}

FinishPlan(c) ==
    LET items == planCall[c].items IN
    /\ PlanAt(c, "over") \/ (PlanAt(c, "next") /\ planCall[c].done = Operations)
    /\ execution' = [status |-> IF CompletedItems(items) = Steps THEN "completed"
                                ELSE IF CompletedItems(items) # {} THEN "partial"
                                ELSE "failed",
                     next |-> planCall[c].done, items |-> items]
    /\ planCall' = [planCall EXCEPT ![c] = NoPlanCall]
    /\ UNCHANGED <<performed, crashes>>

PlanCrash ==
    /\ \E c \in PlanCalls : planCall[c] # NoPlanCall
    /\ crashes < MaxCrashes
    /\ crashes' = crashes + 1
    /\ planCall' = [c \in PlanCalls |-> NoPlanCall]
    /\ UNCHANGED <<execution, performed>>

(* A plan that is over is answered from its row.                           *)
Over ==
    /\ execution.status \notin {"none", "running"}
    /\ \A c \in PlanCalls : PlanAt(c, "away")
    /\ UNCHANGED planVars

PlanNext ==
    \/ \E c \in PlanCalls :
         \/ Admit(c) \/ Resume(c) \/ SkipPreflight(c) \/ BeginPreflight(c)
         \/ PassPreflight(c) \/ PerformPlanned(c) \/ SaveProgress(c) \/ FinishPlan(c)
         \/ FailOperation(c, "conflicted") \/ FailOperation(c, "failed")
    \/ PlanCrash \/ Over

PlanSpec == PlanInit /\ [][PlanNext]_planVars

-----------------------------------------------------------------------------
(* Properties.                                                             *)

PlanTypeOK ==
    /\ execution.status \in {"none", "running", "partial"} \cup Outcomes
    /\ execution.next \in 0 .. Operations
    /\ \A c \in PlanCalls : planCall[c].done \in 0 .. Operations
    /\ crashes \in 0 .. MaxCrashes

(* "Preflight and execute a resumable, bounded organization plan": however *)
(* often it is interrupted and called again, no operation is carried out   *)
(* twice, one that is reported completed has been, and they are carried    *)
(* out in order.                                                           *)
PlanRunsOnce ==
    /\ \A i \in Steps : performed[i] <= 1
    /\ \A i \in 1 .. Operations - 1 : performed[i] >= performed[i + 1]
    /\ \A i \in CompletedItems(execution.items) : performed[i] = 1
    /\ execution.status = "completed" => \A i \in Steps : performed[i] = 1

(* What is reported not completed has not been carried out.  Two calls     *)
(* that run the plan at the same time break this: the one that finds its   *)
(* operation already performed reports a conflict.  No run checks it.      *)
NothingIsUnreported ==
    execution.status \in {"partial", "failed"} =>
        \A i \in Steps \ CompletedItems(execution.items) : performed[i] = 0
=============================================================================
