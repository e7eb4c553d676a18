--------------------------- MODULE AuditedOperation ---------------------------
(***************************************************************************)
(* WorkspaceAccessService.audited of sangam/access.py: one operation under *)
(* the contract of the activity ledger, over the transactions and commit   *)
(* hooks of sangam/db.py and the ledger's queue (ActivityLedger).          *)
(*                                                                         *)
(* A thread takes a ticket, runs the operation, and writes one row: in the *)
(* first transaction the operation commits, or with the ticket after it,   *)
(* or, when the ticket is spent, with a second ticket.  The operation is   *)
(* any sequence of transactions, with blocks nested in them, that may      *)
(* raise anywhere.  SQLite lets one transaction write at a time.           *)
(***************************************************************************)
EXTENDS ActivityLedger

CONSTANTS
    Kinds,              \* kinds of operation: "mutation", "agent read", "human read"
    MaxTransactions,    \* most transactions an operation opens
    MaxRetries          \* most restarts by _RetryHttpMutationError

ASSUME AuditedAssumption ==
    /\ Kinds \subseteq {"mutation", "agent read", "human read"}
    /\ MaxTransactions \in Nat /\ MaxRetries \in Nat

VARIABLES
    call,       \* each thread's call of audited()
    writer,     \* the thread whose transaction holds SQLite's write lock
    commits     \* for each thread, of every committed transaction: had a block raised?

auditedVars == <<call, writer, commits>>
vars == <<ledgerVars, auditedVars>>

(* inserted and committed are audit_inserted and audit_committed; staged:  *)
(* the open transaction has the row; doomed is its rollback_required, and  *)
(* spoiled what that is to remember: a block of it has raised.             *)
Call(kind, at) == [kind |-> kind, at |-> at, inserted |-> FALSE, committed |-> FALSE,
                   staged |-> FALSE, depth |-> 0, doomed |-> FALSE,
                   spoiled |-> FALSE, transactions |-> 0, retries |-> 0,
                   result |-> "none"]

Init ==
    /\ LedgerInit
    /\ call = [p \in Producers |-> Call("none", "idle")]
    /\ writer = Nobody
    /\ commits = [p \in Producers |-> <<>>]

IsMutation(p) == call[p].kind = "mutation"
At(p, place) == call[p].at = place
Goes(p, place) == call' = [call EXCEPT ![p].at = place]

(* audited() returns or raises; what it kept in its frame is gone.         *)
Ends(p, result) ==
    call' = [call EXCEPT ![p] = [Call(call[p].kind, "done") EXCEPT !.result = result]]

-----------------------------------------------------------------------------
(* Admission.                                                              *)

Start(p) ==
    /\ At(p, "idle")
    /\ \E kind \in Kinds : call' = [call EXCEPT ![p] = Call(kind, "admission")]
    /\ \E load \in Payloads : Ask(p, load)
    /\ UNCHANGED <<writer, commits>>

Admitted(p) ==
    /\ At(p, "admission") /\ Admit(p)
    /\ Goes(p, "operation")
    /\ UNCHANGED <<writer, commits>>

(* Without a ticket nothing is done.                                       *)
NotAdmitted(p) ==
    /\ At(p, "admission") /\ RefuseAdmission(p)
    /\ Ends(p, "raised")
    /\ UNCHANGED <<writer, commits>>

(* _RetryHttpMutationError: the details have outgrown the ticket, which is *)
(* given back unused before a larger one is asked for.                     *)
Restart(p) ==
    /\ At(p, "operation") /\ call[p].transactions = 0
    /\ call[p].retries < MaxRetries
    /\ ticket[p].load.needed > ticket[p].load.asked
    /\ ReleaseUnused(p)
    /\ Goes(p, "restart")
    /\ UNCHANGED <<writer, commits>>

AskAgain(p) ==
    /\ At(p, "restart")
    /\ \E load \in Payloads : load.needed <= load.asked /\ Ask(p, load)
    /\ call' = [call EXCEPT ![p].at = "admission", ![p].retries = @ + 1]
    /\ UNCHANGED <<writer, commits>>

-----------------------------------------------------------------------------
(* Database.transaction().                                                 *)

Begin(p) ==
    /\ At(p, "operation") /\ call[p].transactions < MaxTransactions
    /\ writer = Nobody
    /\ writer' = p
    /\ call' = [call EXCEPT ![p].at = "transaction", ![p].depth = 1,
                            ![p].transactions = @ + 1]
    /\ UNCHANGED <<ledgerVars, commits>>

(* A block inside the transaction joins it.                                *)
Nest(p) ==
    /\ At(p, "transaction") /\ call[p].depth = 1
    /\ call' = [call EXCEPT ![p].depth = @ + 1]
    /\ UNCHANGED <<ledgerVars, writer, commits>>

LeaveNested(p) ==
    /\ At(p, "transaction") /\ call[p].depth > 1
    /\ call' = [call EXCEPT ![p].depth = @ - 1]
    /\ UNCHANGED <<ledgerVars, writer, commits>>

(* A block raises and the caller swallows it.                              *)
RaiseNested(p) ==
    /\ At(p, "transaction") /\ call[p].depth > 1
    /\ call' = [call EXCEPT ![p].depth = @ - 1, ![p].doomed = TRUE,
                            ![p].spoiled = TRUE]
    /\ UNCHANGED <<ledgerVars, writer, commits>>

(* The transaction is over and forgets the state of its thread.            *)
Over(p, place, committed) ==
    /\ writer' = Nobody
    /\ call' = [call EXCEPT ![p].at = place, ![p].committed = committed,
                            ![p].staged = FALSE, ![p].depth = 0,
                            ![p].doomed = FALSE, ![p].spoiled = FALSE]

(* It is rolled back and the error leaves the operation.                   *)
Aborted(p) == Over(p, "raised", call[p].committed)

RaiseInTransaction(p) ==
    /\ At(p, "transaction")
    /\ Aborted(p)
    /\ UNCHANGED <<ledgerVars, commits>>

(* The end of the outer block: the hooks run, then the commit.             *)
RefuseDoomed(p) ==
    /\ At(p, "transaction") /\ call[p].depth = 1 /\ call[p].doomed
    /\ Aborted(p)
    /\ UNCHANGED <<ledgerVars, commits>>

EndsWell(p) == At(p, "transaction") /\ call[p].depth = 1 /\ ~call[p].doomed

HookInserts(p) == IsMutation(p) /\ ~call[p].inserted

FailHookQuietly(p) ==
    /\ EndsWell(p) /\ HookInserts(p)
    /\ Failures # {} \/ ~FitsInTransaction(p)
    /\ RecordInTransaction(p, "refused")
    /\ Goes(p, "committing")
    /\ UNCHANGED <<writer, commits>>

RunHook(p) ==
    /\ EndsWell(p) /\ HookInserts(p)
    /\ RecordInTransaction(p, "recorded")
    /\ call' = [call EXCEPT ![p].at = "committing", ![p].inserted = TRUE,
                            ![p].staged = TRUE]
    /\ UNCHANGED <<writer, commits>>

FailHook(p) ==
    /\ EndsWell(p) /\ HookInserts(p)
    /\ Failures # {} \/ ~FitsInTransaction(p)
    /\ RecordInTransaction(p, "refused")
    /\ Aborted(p)
    /\ UNCHANGED commits

SkipHook(p) ==
    /\ EndsWell(p) /\ ~HookInserts(p)
    /\ Goes(p, "committing")
    /\ UNCHANGED <<ledgerVars, writer, commits>>

(* The row becomes durable with the transaction it was inserted in.        *)
Commit(p) ==
    /\ At(p, "committing")
    /\ ledger' = IF call[p].staged THEN [ledger EXCEPT ![p]["accepted"] = @ + 1]
                                   ELSE ledger
    /\ commits' = [commits EXCEPT ![p] = Append(@, call[p].spoiled)]
    /\ Over(p, "operation", call[p].inserted)
    /\ UNCHANGED <<ticket, queue, batch, counters, oversizedOwner,
                   expansionWaiters, worker, closing>>

FailCommit(p) ==
    /\ Failures # {} /\ At(p, "committing")
    /\ Aborted(p)
    /\ UNCHANGED <<ledgerVars, commits>>

-----------------------------------------------------------------------------
(* After the operation.                                                    *)

RaiseInOperation(p) ==
    /\ At(p, "operation")
    /\ Goes(p, "raised")
    /\ UNCHANGED <<ledgerVars, writer, commits>>

Spent(p) == ticket[p].at = "none"

(* The error is recorded with the ticket if it is unused, ...              *)
RecordFailure(p) ==
    /\ At(p, "raised") /\ ~call[p].inserted /\ ~Spent(p)
    /\ BeginRecord(p, "failed")
    /\ Goes(p, "recording failure")
    /\ UNCHANGED <<writer, commits>>

(* ... and else with another one, of the default estimate, which is small. *)
AskForFailure(p) ==
    /\ At(p, "raised") /\ (call[p].inserted \/ Spent(p))
    /\ \E load \in Payloads : load.asked <= MaxTotalBytes /\ Ask(p, load)
    /\ Goes(p, "asking for failure")
    /\ UNCHANGED <<writer, commits>>

AdmittedForFailure(p) ==
    /\ At(p, "asking for failure") /\ ticket[p].at = "admitted"
    /\ BeginRecord(p, "failed")
    /\ Goes(p, "recording failure")
    /\ UNCHANGED <<writer, commits>>

MustRecordResult(p) == ~call[p].committed /\ call[p].kind # "human read"

RecordResult(p) ==
    /\ At(p, "operation") /\ MustRecordResult(p)
    /\ BeginRecord(p, "accepted")
    /\ Goes(p, "recording result")
    /\ UNCHANGED <<writer, commits>>

(* The ticket is released by the with block.                               *)
ReturnUnrecorded(p) ==
    /\ At(p, "operation") /\ ~MustRecordResult(p)
    /\ IF Spent(p) THEN UNCHANGED ledgerVars ELSE ReleaseUnused(p)
    /\ Ends(p, "returned")
    /\ UNCHANGED <<writer, commits>>

(* An error of the ledger does not hide the error of the operation.        *)
Answer(p) ==
    /\ call[p].at \in {"recording failure", "recording result", "asking for failure"}
    /\ ticket[p].at = "none" /\ ticket[p].answer # "none"
    /\ Ends(p, IF At(p, "recording result") /\ ticket[p].answer = "recorded"
               THEN "returned" ELSE "raised")
    /\ UNCHANGED <<ledgerVars, writer, commits>>

-----------------------------------------------------------------------------
(* The steps of the ledger that need the write lock find it free.          *)

LedgerStepOf(p) ==
    \/ At(p, "asking for failure") /\ (Admit(p) \/ RefuseAdmission(p))
    \/ ProceedAsIs(p)
    \/ ExpandNow(p)
    \/ LineUp(p)
    \/ AcquireInTurn(p)
    \/ GiveUp(p)
    \/ Enqueue(p)
    \/ GoDirect(p)
    \/ writer = Nobody /\ (Probe(p) \/ PersistDirect(p))
    \/ FailDirect(p)
    \/ Despair(p)
    \/ Release(p)

WorkerStep ==
    \/ TakeBatch
    \/ writer = Nobody /\ CommitBatch
    \/ \E error \in Failures : FailBatch(error)
    \/ SettleBatch
    \/ StopWorker

Step(p) ==
    \/ Start(p) \/ Admitted(p) \/ NotAdmitted(p) \/ Restart(p) \/ AskAgain(p)
    \/ Begin(p) \/ Nest(p) \/ LeaveNested(p) \/ RaiseNested(p)
    \/ RaiseInTransaction(p) \/ RefuseDoomed(p)
    \/ RunHook(p) \/ FailHook(p) \/ SkipHook(p) \/ Commit(p) \/ FailCommit(p)
    \/ RaiseInOperation(p) \/ RecordFailure(p) \/ AskForFailure(p)
    \/ AdmittedForFailure(p) \/ RecordResult(p) \/ ReturnUnrecorded(p) \/ Answer(p)
    \/ LedgerStepOf(p) /\ UNCHANGED auditedVars

Next ==
    \/ \E p \in Producers : Step(p)
    \/ (WorkerStep \/ BeginClose \/ EndClose) /\ UNCHANGED auditedVars

Spec == Init /\ [][Next]_vars

-----------------------------------------------------------------------------
(* Properties.                                                             *)

(* Every variable has its type, and every counter is a count.              *)
TypeOK ==
    /\ \A p \in Producers :
         /\ ticket[p].load \in Payload
         /\ ticket[p].reserved \in Nat /\ ticket[p].expansion \in Nat
         /\ ticket[p].answer \in {"none", "recorded", "refused", "uncertain"}
         /\ call[p].kind \in Kinds \cup {"none"}
         /\ call[p].depth \in 0 .. 2
         /\ ledger[p] \in [Outcomes -> Nat]
         /\ commits[p] \in Seq(BOOLEAN)
    /\ \A name \in DOMAIN counters : counters[name] \in Nat
    /\ oversizedOwner \in Producers \cup {Nobody}
    /\ expansionWaiters \in Seq(Producers)
    /\ worker.at \in {"waiting", "committing", "settling", "stopped"}
    /\ worker.error \in Failures \cup {"none"}
    /\ closing \in {"open", "draining", "closed", "timed out"}
    /\ writer \in Producers \cup {Nobody}

Holders == {p \in Producers : Counted(p)}

ReservedSum == MapThenSumSet(LAMBDA p : ticket[p].reserved, Holders)

(* The counters of activity.py are adjusted in eight places and clamped at *)
(* zero, so a ticket given back twice or not at all would go unnoticed     *)
(* until admission stalls.  They always equal what is really reserved,     *)
(* queued and being committed, and exclusive ownership always belongs to   *)
(* something that is still on its way.                                     *)
AccountsBalance ==
    /\ counters.admittedItems = Cardinality(Holders)
    /\ counters.activeProducers = Cardinality(Holders)
    /\ counters.reservedBytes = ReservedSum
    /\ counters.queueBytes = BytesOf(queue)
    /\ counters.committingItems = Len(batch)
    /\ counters.committingBytes = BytesOf(batch)
    /\ oversizedOwner # Nobody =>
         \/ oversizedOwner \in Holders
         \/ \E i \in DOMAIN (queue \o batch) : (queue \o batch)[i].by = oversizedOwner
    /\ ToSet(expansionWaiters) = {p \in Producers : ticket[p].at = "waiting"}

(* What is in memory of one thread: what it has reserved, and its rows     *)
(* among the items of the queue or of the batch.                           *)
Share(p) == IF Counted(p) THEN ticket[p].reserved ELSE 0

BytesBy(p, items) ==
    MapThenSumSet(LAMBDA i : items[i].size, {i \in DOMAIN items : items[i].by = p})

OwnedBytes ==
    IF oversizedOwner = Nobody THEN 0
    ELSE Share(oversizedOwner) + BytesBy(oversizedOwner, queue)
         + BytesBy(oversizedOwner, batch)

(* max_total_bytes bounds what is in memory at all stages together; only   *)
(* the one oversized record may be on top of it.                           *)
InFlightBounded ==
    /\ InFlightBytes - OwnedBytes <= MaxTotalBytes
    /\ InFlightItems <= MaxItems

(* "A mutation writes exactly one ledger row: inside the first storage     *)
(* transaction it commits": at every moment, and so also after a crash, a  *)
(* mutation has its accepted row if it has committed something, never two, *)
(* and none if everything was rolled back and it raised.                   *)
OneRowPerMutation ==
    \A p \in Producers :
        IsMutation(p) =>
            /\ ledger[p]["accepted"] <= 1
            /\ commits[p] # <<>> => ledger[p]["accepted"] = 1
            /\ commits[p] = <<>> /\ At(p, "raised") => ledger[p]["accepted"] = 0

(* What the caller hears agrees with the ledger: a success has its row, a  *)
(* refused row was not written, whether the row went through the queue, a  *)
(* transaction or directly.                                                *)
AnswersMatchLedger ==
    \A p \in Producers :
        At(p, "done") =>
            /\ call[p].result = "returned" /\ call[p].kind # "human read"
                 => ledger[p]["accepted"] = 1
            /\ call[p].result = "raised" /\ ticket[p].answer = "refused"
                 => ledger[p]["failed"] = 0
            /\ ticket[p].answer = "recorded" /\ call[p].result = "raised"
                 => ledger[p]["failed"] = 1

(* Nothing is committed of a transaction in which a block has raised, also *)
(* when the caller of the block swallowed the error.                       *)
NoHalfTransaction ==
    \A p \in Producers : \A i \in DOMAIN commits[p] : ~commits[p][i]

(* One mutation: one row in its first committed transaction, the answer    *)
(* that this row gives, and nothing of a transaction in which a block      *)
(* raised.                                                                 *)
MutationIsAudited == OneRowPerMutation /\ AnswersMatchLedger /\ NoHalfTransaction

Blocked(p) ==
    \/ ticket[p].at = "asking" /\ worker.healthy /\ ~ShuttingDown
       /\ ~HasCapacity(ticket[p].load.asked)
    \/ ticket[p].at = "waiting" /\ MustWait(p)

Stalled == /\ worker.at = "waiting" /\ queue = <<>> /\ worker.healthy
           /\ \E p \in Producers : Blocked(p)
           /\ \A p \in Producers : ticket[p].at # "none" => Blocked(p)

(* "Release provisional byte credits to break circular wait": with the     *)
(* worker idle, threads never all wait for room that only they could give  *)
(* back, until their deadlines refuse them.  No run checks it: one ticket  *)
(* that was admitted as oversized is enough to break it.                   *)
NoCircularWait == ~Stalled

(* The part of it that the code achieves: a stall needs a ticket that was  *)
(* admitted as oversized.                                                  *)
OnlyTheOversizedStall == Stalled => oversizedOwner # Nobody

(* Admission: the counters are exact, they bound what is in memory, and    *)
(* nobody waits for ever without a record that was admitted as oversized.  *)
AdmissionIsExact == AccountsBalance /\ InFlightBounded /\ OnlyTheOversizedStall

(* A clean shutdown leaves no ticket, no queued row and nobody waiting for *)
(* a future.                                                               *)
CloseLosesNothing ==
    closing = "closed" =>
        /\ queue = <<>> /\ batch = <<>>
        /\ \A p \in Producers : ~Counted(p) /\ ticket[p].at # "queued"
=============================================================================
