# Sangam in TLA+

Sangam is a self-hosted document workspace. SQLite is canonical, a directory of
plain files mirrors it, and a FastAPI process serves people, agents and a chat.
This directory holds TLA+ models of the parts whose correctness depends on the
order of things (locks, retries, failing file steps, crashes, cancellations,
edits by other programs), TLC runs that check them on small instances, and
TLAPS proofs of what matters most for every instance.

Paths below are relative to `src/src/sangam/`.

## Inventory

| Component | State it keeps | Operations | Interacts through | What is hard | What makes it correct |
|---|---|---|---|---|---|
| Mutation coordinator (`mutations.py`) | refcounted lock tables, the generation barrier, a thread-local flag | `creation`, `document(s)`, `path(s)`, `mutation`, `exclusive`, `backup` | `with` blocks nested by every writer | re-entrance, locks dropped and recreated, two kinds of waiting | one owner per key, backups alone, no lost wakeup, no deadlock |
| Write pipeline (`service.py`, `idempotency.py`) | documents, revisions, idempotency keys | create, update, materialize, move, delete, restore, metadata, replay | one transaction, then file steps, then search | retries that overlap, failures between the steps, stale reads before the locks | linear history, no lost update, one write per key, clean means current |
| Workspace (`workspace.py`) | the directory | atomic write, delete, move, trash, scan, folder rename | called by the pipeline and the scan | partial failure, other programs | a file belongs to a document or is known to be foreign |
| Reconciliation (`reconciliation.py`) | open conflicts, ignored files | scan, accept disk, restore database, recognise move, reindex, ignore | reads the database and the directory at different times, writes through the pipeline | everything it read may be stale | every file is accounted for, nothing foreign is overwritten |
| PDF documents (`service.py`, `pdf_research.py`, `pdf_runtime.py`) | bytes that are only on disk, a trash, extraction claims, annotations and their events | import, move, delete, restore with a file step before the commit; claim, extract, requeue; annotate | file step, commit, undo; a queue of rows | crash between file and commit, undo that fails, two workers on one row, lost answers | the bytes are at the path or in the trash the row names, one worker per row, one event per change |
| Audited operations (`access.py`, `db.py`) | commit hooks, one ticket per request | `audited`, `write_document` | hooks run inside the operation's transactions | several transactions, failure after commit | one ledger row per accepted mutation |
| Access control (`access.py`, `authorization.py`, `security.py`) | grants a request came with | authorize an operation against a document's path, narrow a search | wraps every operation | the path moves between the check and the act | writes stay in scope, a search finds what is granted |
| Organization plans (`access.py`) | progress of a plan | preflight, execute, resume | one audited operation per step | stops between an operation and the saved progress | each operation once, in order |
| Activity ledger (`activity.py`) | byte and item counters, a queue, a commit worker | admit, release, enqueue, commit, close | threads and a condition variable | counters at their limit, shutdown with work left | capacity is given back, accepted records are committed |
| Search (`search.py`, `search_passages.py`) | index rows, dirty markers | replace, sync, rebuild, repair; choose passages | triggers in the writing transaction | crash before the sync | a document without a marker is indexed as committed; passages are the best ones |
| Folders (`organization.py`) | folder rows, directories with manifests | create, edit, rename | exclusive generation, directory rename before commit | crash or failing undo | tree and database move together |
| Backup (`backup.py`, `backup_service.py`) | published sets, reserved names | create, verify, retain, delete | barrier, directory rename | reservation and completion in two transactions | an answered key names a verified set |
| Chat admission (`chat_runtime.py`, `chat_store.py`) | active, waiting and admitted counts | acquire, release, run, close | asyncio conditions and threads | cancellation, timeout, shutdown | counts are what is held, a slot covers its work |
| Chat runs (`chat.py`, `chat_evidence.py`) | turn contexts, runs, sources | respond, record, finish, cancel | tools, effects, disconnects | client leaves at any await, calls are refused or fail, tools go on in their threads | one context per message, the row of a run tells what became of its stream, bounded evidence |
| Rolling task (`chat_continuity.py`) | versioned notes, a history generation | compact, correct, dismiss | messages are edited meanwhile | a summary of texts that changed | shown notes are current, corrections survive |
| Saved facts (`chat_profiles.py`) | facts, tombstones, recall | save, suggest, accept, forget, recall | keys and versions | late retries of what was forgotten | forgotten stays forgotten, only accepted is recalled |
| Skills (`chat_skills.py`) | registrations, pins of a turn | register, activate | concurrent tools, edits | two activations at once, references that change with the skill's revision | what an earlier activation has loaded a later one loads as it is pinned |
| Chat effects, proposals (`chat_effects.py`, `chat_proposals.py`) | effects, proposals, reservations | request, decide, execute, recover; propose, review, apply | the write pipeline under a derived key | decisions overtaking each other, crash while applying | performed once, the row tells the truth |
| Assignments (`assignments.py`) | review rows, steering, findings | create, delegate, steer, pause, resume, stop, drain | one worker on a copy of the row | the copy is stale | control is kept, no document is orphaned |
| Projects (`projects.py`) | members, roles, draft, layout, threads | one transaction each | documents are trashed elsewhere | references outlive what they name | references are members |
| Publication (`publication.py`) | a publication, its tokens and exposures | publish, update, unpublish, rotate, expose, serve | rows read before the transaction | interleaved changes | one link opens what is unlisted |
| Tokens (`security.py`) | tokens, scopes, events | issue, rotate, edit, revoke, authenticate | requests under way keep grants | two rotations at once | one successor, serial edits |
| Karakeep import (`karakeep*.py`) | import rows, snapshots | import, refresh, review, apply, retry | a remote source, the pipeline | stops between transactions | only what was offered is accepted |
| Document assets, comments, saved views, capture, sessions | rows and content-addressed files | single transactions | pipeline | little | constraints of the schema |
| Configuration, routing, providers, frontend | none of their own | wiring, input and output | HTTP | little | not modelled |

`PROJECT.json` lists all of them with their status, and the hazards with the
line where each bites.

## Modules

```
LockSteps -- LockOrders                        RevisionLog -- RevisionLogProofs
    |            |                                  ^
MutationCoordinator -- MCMutationCoordinator        | LogSpec (refinement)
    |    |             -- MCLockOrders              |
    |    |                                     DocumentStore -- MCDocumentStore
    |    +- BarrierSpec --> GenerationBarrier       |   |
MutationCoordinatorProofs                           |   +-- DocumentStoreProofs
                                               Reconciliation -- MCReconciliation

ActivityLedger -- AuditedOperation -- MCAuditedOperation
                        |
                  AuditedOperationProofs

Access, Tokens, Publications, Annotations,
    Karakeep, SearchIndexing -- SearchPassages ------- ServiceProofs
Folders, OrganizationPlan, PdfDocuments, Backups,
    Reconciliation ----------------------------------- WorkspaceProofs
ChatEffects, ChatProposals, ChatPool, ChatRuns ------- ChatProofs
ChatContinuity, SavedFacts, ChatSkills,
    Assignments, Projects -- ChatContext ------------- ChatProofs

OrderLemmas -- MutationCoordinatorProofs, AuditedOperationProofs, ServiceProofs

MCServices -- all services and ChatContext
Assignments -- MCAssignments
```

### The store and its locks

**MutationCoordinator** models every block of `mutations.py`. A thread is one
request. It runs a pipeline, the sequence of blocking steps its nested `with`
blocks take on the way in; the way out undoes them in reverse. `users` counts
blocks, `lockTable` is the dictionary of RLocks, `handle` is the RLock a block
got from its retain, so that a lock deleted by its last user and created anew is
a different object. `activeMutations`, `backupActive`, `waitingBackups` and
`mutating` are the fields of the barrier, `asleep` the threads inside
`_condition.wait()`. Steps under `self._condition` are atomic; a `notify_all`
empties `asleep`. **LockOrders** is the way in of each caller, composed from the
blocks it opens. It is read from `service.py`, `access.py`, `organization.py` and
`backup.py`. What the proofs ask of an order is said in MutationCoordinator
(`DocumentsAreLockedInside`, `LeadDown`), and **MCLockOrders** evaluates it on the
orders of LockOrders. **GenerationBarrier** is what the barrier promises: readers or one
owner.

**DocumentStore** models `_commit` and what leads to it for text documents. `row`
is the documents table, `revisions` the history in commit order, `keys` the
idempotency keys with the request they were bound to, `disk` the directory,
`edited` the paths last changed by another program, and `job` what each client's
request is doing: it is submitted with an expected revision its client read at
any earlier time, waits for its locks, commits in one step, writes the file,
marks the row, removes stale files, answers. A retry is the same request under
the same key, also while the first attempt is running. "write", "mark" and
"remove" in `Failing` may raise where the code calls them; `Crash` ends every job.
**RevisionLog** is what this promises: appends based on the head, one write per
key.

**Reconciliation** composes `DocumentStore` (INSTANCE) with the scan and the
resolutions. The scan takes the steps of `scan()` one by one: recover pending,
list documents, read the directory, forget ignored files and plan, repair
missing files, store the conflicts. Requests, resolutions, edits and crashes
happen between any two of them. A resolution submits a request of the pipeline
or a repair, and closes its conflict in a later step (`due`).

### Auditing

**ActivityLedger** is `ActivityService`. A producer asks with an estimate, is
admitted with a ticket, grows it in a fair queue when it knows the payload, and
hands the row to the worker or writes it itself; each step is one block under
`_queue_lock`. `counters` are the code's counters with their clamping at zero,
`oversizedOwner` the one record that may exceed the limit. The worker batches,
commits, is busy, fails for good and recovers; `close()` has its two waits and its
deadline. **AuditedOperation** extends it with `audited()`: any sequence of
transactions with nested blocks that may raise anywhere, the commit hook in the
first one that commits, `rollback_required`, and the two other ways the row may be
written. `commits` and `ledger` keep what became durable.

### The services

Each is a module of its own with the racing callers, retries, crashes and failing
steps its code handles. A transaction of the code is one action; what the code
reads before a transaction, an await or an unlock is an action of its own, which
keeps what was read in the caller's record.

* **Access**: `path_matches`, the intersection of scopes, what each document
  operation is held to. A document write reads the path under its lock, the other
  operations before they authorize; the document moves meanwhile.
* **Tokens**: issue, rotate, edit, revoke, expiry; a request under way keeps the
  grants it was last authorized with.
* **Publications**: update and unpublish name the version they were made from,
  a rotation reads the row before its transaction.
* **Folders**: the row, its directory and its manifest; `lateDirectory` is the
  mkdir after the transaction, `rename` the move before the commit and its undo.
* **OrganizationPlan**: `performed` counts commits of each operation, `execution` is
  the saved progress; calls resume, race and crash.
* **PdfDocuments**: `fileStep` is the operation under way, with the link, the
  unlink, the commit and the undo; `extractor` the row each worker has claimed.
  **Annotations**: editors with keys and lost answers, the events they leave.
* **SearchIndexing**: triggers mark, writers index later or never, a start
  repairs what is marked in batches. **SearchPassages**: `best_passages()`, its
  sliding window with one count per term, against a definition of what it has to
  find.
* **ChatPool**: the slots of `BoundedChatAdmission` and the threads of
  `BoundedThreadRunner` behind them, with cancellation at each await, timeouts and
  shutdown. **ChatRuns**: the turn context, the run row, sources, effects,
  `cancel_run()`. Every call into a worker thread may be refused or fail,
  `complete_run()` and the drain of the stream too, and then `respond()` is over
  with a row that says running; `late` is a `complete_run()` that the second
  cancellation leaves behind and that may still be carried out; `inTool` is a tool
  in its thread, which goes on when the stream breaks off. **ChatContinuity**: the
  rolling task and the edits of the messages it cites. **SavedFacts**: see the
  inventory. **ChatSkills**: `activate()` with one action per statement; the
  resources a call loads are those of the revision of the skill it has loaded
  (`References`), and `after` is what had answered when it began.
* **ChatEffects**: request, verdicts, expiry, execution, recovery of one effect.
  **ChatProposals**: the reservation, the document write under its key, the mark.
* **Assignments**: the queue, the worker and its copy of the row, checkpoints that
  merge only the status, delegation, steering, recovery at the start.
* **Projects**: each operation of `projects.py` that changes a reference, with
  trashing and deletion elsewhere.
* **Karakeep**: import, fetch, snapshots, review, apply, failure and retry.
* **Backups**: reservation of a name under a key, the staging directory, the
  rename, verification, retention, deletion, completion.

**ChatContext** says what the last of them promise together: what a conversation and
its reviews rely on beyond one request.

**MCServices** puts all services side by side. They share no state beyond the database's
transactions, so interleaving steps of two of them would add states and no
behaviour: `part` names the one that moves. Everything that can race within a
service does.
A service at rest keeps its initial state, so TLC tells states apart by the part that
moves and that part's variables (`ServicesView`).

### Abstractions

* Contents and paths are model values; a hash is its content. Paths are sequences
  of names only in Access, where prefixes matter.
* In DocumentStore a job takes its path and document locks in one step. Their
  order, and the deadlocks it allows, are the subject of MutationCoordinator.
* Paths to lock are read when the request is submitted, which allows more
  interleavings than HTTP, where the document lock is already held.
* `materialize` is a move from no path. Conditional replays through
  `finish_replayed_write` do what `Replay` does. The search sync at the end of a
  request is in SearchIndexing. A document in DocumentStore is a text document.
* A conflict has no identity of its own: `KeyOf` is the key
  `_synchronize_conflicts` matches by. A resolution's idempotency key is a
  function of the conflict and the content; the model lets a key be used again
  only by the same request. `reconciliation_conflicts` keeps resolved rows;
  `conflicts` is the open ones.
* Time is a bounded clock (Tokens), a flag that a deadline has passed (ChatEffects,
  ActivityLedger), or an action that may happen at any moment (timeouts).
* What a language model, a remote bookmark or a client may answer is any member of
  a small set; what it may do is any call its tools offer.
* Left coarser than the code, without a property that depends on it: what a
  completed delegate has spent is not added to its parent's row, and time is spent
  only by attempts, which may have used up all of it (Assignments); a client that
  names an older version of a saved fact is one that looked earlier (SavedFacts); an
  update of a project is made whatever version its client expects (Projects); a
  published document is not deleted (Publications).
* Variables that exist only for a property are named so where they are declared
  (`proven`, `offered`, `performed`, `born`, `changes`, `commits`).

## Runs

| Run | Bounds | Shows |
|---|---|---|
| CoordinatorHttp | 3 threads, 4 documents, 3 paths, 1 creation key; move, duplicate, two opposite replays, backup | TypeOK, OneOwnerPerKey, TableMatchesUse, NoDocumentHeldAtTheBarrier, NoWaitCycle |
| CoordinatorBarrier (module MCLockOrders) | 3 threads; write, create folder, backup, rename folder; fairness | BackupSeesNoMutation, NoLostWakeup, PipelinesEnd, BarrierSpec; on its way in TLC evaluates which of the callers' orders the proofs' hypotheses hold of |
| CoordinatorRepair (violation) | 2 threads; write, repair of one document | NoWaitCycle fails |
| CoordinatorCreate (violation) | 3 threads; write, create at the same path, backup | NoWaitCycle fails |
| StorePaths | 2 documents, 2 paths, 2 contents, 3 keys, 2 clients, 4 revisions, 1 edit | TypeOK, NoStrayFile, CleanMeansCurrent |
| StoreRetries | 1 document, 2 paths, 3 keys, 2 clients, 3 revisions, 3 metadata versions, failures and crashes | NoLostUpdate, CleanMeansCurrent, AnswersAreMaterialized, LogSpec |
| StoreStray (violation) | create, move, failing write | SettledTreeIsTidy fails |
| ReconcileScan | 1 document, 2 paths, 2 contents, 2 edits, 2 revisions, failing write, crashes | TypeOK, ScanAccountsForTree |
| ReconcilePending (violation) | as ReconcileScan, 1 edit | ScanOverwritesNoEdit fails |
| AuditedLedger | 2 producers, 3 payloads (grows a little, grows beyond the limit, too large from the start), 2 items, 2 bytes queued and in total, batches of 1, a busy and a terminal failure, timeouts, 2 transactions and 1 retry | TypeOK, AdmissionIsExact, MutationIsAudited, CloseLosesNothing |
| Services | twenty services, bounds in `MCServices` and `Services.cfg`; about 500,000 states up to symmetry | the properties in the next table |
| SteeringLost (violation) | a review and its delegate, 1 step, 1 steering message, attempts that never fail | SteeringDoesNotFail fails |

| Property of Services | Says |
|---|---|
| TypesOK | the type invariants of the services |
| AccessStaysInScope | a document write is granted where the document is when it is performed, and where it goes; a search finds exactly what its two capabilities both grant |
| TokensKeepFaith | a rotated token is revoked and has one successor; every edit was made from the version it replaced |
| FoldersAreOnDisk | unless a crash or a failed undo tore a rename, each folder has its directory with its own manifest, and the document its file |
| PlanRunsOnce | no operation of a plan twice, none out of order, none reported that was not done, through resumption, racing calls and crashes |
| PdfsSurvive | PDF bytes are never lost, are where the row says unless an operation was interrupted; one worker per claimed row |
| HistoryIsWhole | the events of an annotation are its versions; a retry is never told of a conflict with itself |
| SearchIsFaithful | a document without a marker is indexed as committed; the passages shown are the best ones |
| EffectsAreHonest | an effect is performed at most once, after an approval, and completed means performed |
| ProposalTellsTheTruth | an applied proposal names the revision with the reviewed wording on the reviewed base; a stale one was never written |
| PoolIsCounted | every counter equals what is held, whatever is cancelled, refused, timed out or shut down; a slot outlives its worker call |
| RunsAreHonest | one context per message; a row that says how a run ended says what became of its stream, also when it is written late, and `respond()` returns without an error only when it was written; evidence is complete or says that it is not |
| ContextIsCurrent | shown notes are of the texts as they are, a forgotten fact stays forgotten, only accepted facts are recalled; what an activation has loaded, a later one loads in the pinned revision, and it answers the same if the earlier one lost no pin |
| DecisionsStay (action property) | corrections and dismissals survive summaries that were under way; a stopped or exhausted review is never revived by its worker's stale copy |
| ProjectsAreWhole | brief, draft, conversation and passages are of members; a completed review lists every document written for it |
| OneLinkOpens | at most one live link, and one whenever an unlisted publication is served |
| ImportsKeepFaith | only offered content is accepted, a required review has a difference to show, an import is marked running while one importer runs |
| AnsweredIsVerified | an answered backup key names a set that passed verification |

Why the bounds are enough. Two threads make every race for a lock, the third is
the backup or the second replay that closes a longer cycle; a key needs to be
dropped and taken again, which three threads do. Two documents over two paths
make a path change hands; two clients make an overlapping retry; three
revisions make a write, a write on top of it, and a stale write. A scan needs one
document, a path it is not at, and two edits for a move made by hand. In the
ledger two producers fill a limit of two items, and one of them can own the
oversized record while the other waits for it; one retry and two transactions
give a row whose first attempt was rolled back or spent. In the services, two
callers make every race of a read before a transaction with another caller's
commit, and a third request exists where one commits before, and one between
(annotations, facts, skills, the pool); three tokens make a rotation of a
rotated token, two reviews a delegation, two versions beyond the first a change
on top of a change. Of two turns for one message the first calls a tool and the
second none: the tools of two turns touch different rows. The first revision of
the skill refers to a resource, the next does not; three activations with two
revisions of each document let one lose the skill's pin and a third come after it.
The clock of Tokens runs to 1, so a renewed lifetime ends past it (`Never`); the
theorem is for every `MaxTime`. Two backups with a retention of one evict each
other. Two hit terms over five places give every shape of a window of two. Threads,
producers, clients and keys are symmetric where the run says so; runs with liveness
use no symmetry.

Deadlock checking is off in the coordinator's runs, where every thread runs one
pipeline and the system stops; in AuditedLedger, where `close()` ends the system;
and in Services and SteeringLost, where identifiers, keys and attempts are used
once and run out. `MaxRevisions`, `MaxVersion` and
`MaxEdits` bound the history, the metadata versions and the edits; `Room` keeps a
request from being submitted that could not commit within them, so the bounds
never cut a request short. The other modules name each bound where it is declared.

Fairness. `FairSpec` gives every thread weak fairness of its own steps: the
operating system schedules threads that can run. It is enough for PipelinesEnd
because a waiting backup keeps new mutations out, so its condition stays true
once it is. Nothing else assumes fairness.

### Disagreements the runs show

* **CoordinatorRepair**: `rematerialize_document` locks path then document, HTTP
  writes lock document then path. They deadlock.
* **CoordinatorCreate**: `create_document` waits at the barrier with its path
  locked. With a backup waiting for a writer of that path, all three stop.
* **StoreStray**: a move whose file write fails leaves the old file for good.
* **ReconcilePending**: a scan replaces an edited file of a pending document
  without a conflict.
* **SteeringLost**: `run_input()` ends with `inputs[-1][["input_id"]]`
  (`assignments.py:558`), which raises as soon as there is a steering message:
  every attempt of a steered review fails. The documentation says that steering
  is consumed before finalization.

### Known limits

Stronger properties that the code does not have. The models show each; those
with a name are stated, with the reason, in the module that would check them.

* Reconciliation: with three revisions `Store!CleanMeansCurrent` fails, because
  `_synchronize_conflicts` trusts the directory as it was read and marks clean a
  document that was updated and updated back meanwhile; and a scan that reads the
  directory between a commit and its file write records a conflict nobody made,
  whose state `conflict` makes the request skip its write.
* `ActivityLedger`, `NoCircularWait`: with one record admitted as oversized, all
  producers may wait for room only they can give back, until their deadlines.
* `ChatEffects`, `RefusalIsFinal`: `decide()` reads the row before its
  transaction, whose UPDATE has no guard; an approval may follow a refusal.
* `ChatProposals`, `DismissedIsNotWritten`: `cancel_pending()` does not look at
  the reservation of a proposal that is being applied.
* `OrganizationPlan`, `NothingIsUnreported`: of two calls that run one plan at the
  same time, one reports as a conflict what the other has done.
* `Publications`, `OnlyServedHasToken`: a rotation that read the row before an
  unpublish leaves a live token on what is not served.
* `SavedFacts`, `LastSourceStaysForgotten`: the tombstone keeps the first source
  of a fact, not the one shown when it was forgotten.
* `ChatSkills`, `OneRevisionInATurn`: two activations at once may load two
  revisions. If the skill is edited between them, the one that lost the pin answers
  from a revision with other references. An activation that begins after it loads
  the pinned revision and may find that a resource of that one is not pinned yet:
  it loads the current revision of the resource, may lose its pin to the first
  activation, and answers another revision than the pinned one. A skill registered
  for another document within a turn fails on the old pin. A retried unregistration
  answers not found before it looks up its key.
* Tokens: a rotation copies the scopes it read before its transaction.
* Folders: the late mkdir recreates the old directory of a folder that was
  renamed meanwhile; a failed commit leaves a newer manifest than the row.
* PdfDocuments: a restore or move interrupted between link and unlink cannot be
  repeated; a move during an extraction makes the extraction fail.
* ChatPool: a call cancelled between the two blocks of `run()` keeps its worker
  counted (`stuck`); a second cancellation gets past the shield of `run_sync()`.
* ChatRuns: the row of a turn that is over may say running for good, and then hides
  older ones from `cancel_run()`. It takes a stop of the process, a
  `complete_run()` that the queue of the runner refuses (it is full or closing), a
  failing transaction, a stream that raises while it is drained, or a second
  cancellation in that drain or while `begin_run()` is awaited. A second
  cancellation during `complete_run()` leaves the row to a call that nobody awaits
  any more. A tool may go on after the stream broke off and read, record and
  request effects for a run that has ended; an effect requested after a stop stays
  pending.
* PdfDocuments: when the transaction that stores the outcome of an extraction
  fails, the row says processing until the next start. The module leaves this out,
  so a row that says processing has its worker there.
* Backups: a retry under an old reserved name may have its new set evicted by
  the retention right after it was made.
* Karakeep: `complete_apply()` accepts the pending snapshot of that moment, which
  a refresh may have replaced since the review; importing again after a failure
  drops the pending snapshot.
* Projects: adding a draft for an existing member that is not one stores it as an
  active draft which is not shown; it also leaves the saved layout as it was.
* Annotations: a retry of a committed deletion, or of an update of what was
  deleted since, answers not found before its key is looked up.
* Search: renamed actors and tags stay as they were indexed until the next start.

## Proofs

| Theorem | Says | Argument |
|---|---|---|
| `MutationCoordinatorProofs!TypeCorrect` | `Spec => []TypeOK` | with `BarrierInv`: the counts are the cardinalities of the sets of threads they count, so subtracting one stays in Nat |
| `BackupIsAlone` | `Spec => []BackupSeesNoMutation` | `BarrierInv` also says who holds the flag and that an owner excludes a mutation; both follow from the counts being zero |
| `NoWakeupLost` | `Spec => []NoLostWakeup` | every step that opens the barrier or frees the generation notifies |
| `ImplementsBarrier` | `Spec => BarrierSpec` | each step maps to one abstract step or none |
| `KeyHasOneOwner`, `TablesMatchUse` | `Spec => []OneOwnerPerKey`, `[]TableMatchesUse` | `LockInv`: `users` holds exactly the retained blocks, all users of a key share the table's object, different keys have different objects, and who holds a lock step owns its object |
| `BarrierHoldsNoDocument` | if `DocumentsAreLockedInside(Pipelines)`: `Spec => []NoDocumentHeldAtTheBarrier` | `WaitInv`: who owns an object has locked its key and has not left it, who is inside a generation has its flag, a counted waiter is at the entrance of a structural operation. So a thread at the barrier has locked nothing its pipeline has not locked before it |
| `ThreadsNeverWaitInACycle` | for any `depth` of the keys with `LeadDown(Pipelines, depth)`: `Spec => []NoWaitCycle` | of a set of threads that wait only on each other, none is at the barrier inside a lock somebody needs, so all wait for locks, and the one that waits for the deepest key waits for an owner that waits for a deeper one still |
| `CallersHoldNoDocumentAtTheBarrier`, `CallersNeverWaitInACycle` | the same without those hypotheses, of the orders of LockOrders over any documents, paths and creation keys: `Pipelines` within `DocumentFirst` and `PathFirst`, or within `DocumentFirst` | a pipeline is a concatenation of blocks, so one lemma per block says after which steps it may come, and one lemma joins them. The sort of `paths()` and `documents()` is a listing by number: that there is one, and that it has every key once, is a section of OrderLemmas. The depth of a key: documents in the reverse of their sort order, then paths, creation keys, the document just created |
| `RevisionLogProofs!HistoryIsSound` | linear history, writes follow their base, every revision has its key | each revision's number is at most the length; a head is the last of its document |
| `DocumentStoreProofs!TypeCorrect` | `Spec => []TypeOK` | with: heads and keys point into the history, and a job carries content when its document has no head |
| `ImplementsLog` | `Spec => LogSpec` | a commit is an append or a bind, all other steps stutter |
| `UpdatesAreKept` | `Spec => []NoLostUpdate` | from `ImplementsLog` and `HistoryIsSound` |
| `CleanFilesAreCurrent`, `AnswersAreInTheTree`, `NoFileIsStray` | `Spec => []CleanMeansCurrent`, `[]AnswersAreMaterialized`, `[]NoStrayFile` | `TreeInv`: a path belongs to one row, no two jobs own one document or one path, and what a job leaves, writes or has written is among what it owns until its row says clean. The three properties say what is in the tree when nobody works on it; only who owns what makes a step of one job leave the files of the others alone |
| `AuditedOperationProofs!MutationsAreAudited`, `ShutdownLosesNothing` | `Spec => []MutationIsAudited`, `[]CloseLosesNothing` | `AuditInv`: a row is in one place on its way (its thread's ticket, the queue, the batch, the ledger), each place says which answer its thread may still hear, and the tickets that count are those `activeProducers` counts, so the worker stops with nothing left. The properties look only at the ends of that way |
| `AdmissionStaysExact`, `TypesHold` | `Spec => []AdmissionIsExact`, `[]TypeOK` of AuditedOperation | `AccountsInv`, inductive on top of `AuditInv`: each byte counter is the sum over the tickets or rows it counts, a ticket has the sizes its place allows, who waits stands in the line once, the oversized owner has a ticket or a row that gives the queue back. So no subtraction is clamped at zero, and with the worker idle the first in the line has all the room. The sums are folds; a section of lemmas shows, by the smallest set that could fail, that any element can be taken out of one |
| `ServiceProofs!AccessIsScoped` | `Spec => []AccessStaysInScope` | searches: two prefixes of one path nest, the narrower of a granted pair is among the narrowed ones, and of any prefix there is a shortest one of the set before it (the order of lengths is well founded), which stays when they are minimized. Writes: `AccessInv` adds that what was granted under the lock is still granted, since the document moves only outside of it |
| `TokensAlwaysKeepFaith` | `TokenSpec => []TokensKeepFaith` | `TokenInv`: a successor has a revoked predecessor, so a second rotation finds the row it read no longer valid; the number of events is the version, so an edit that checks the version continues the chain |
| `OneLinkAlways` | `PublicationSpec => []OneLinkOpens` | `LinkInv`: no two live tokens, and one if served unlisted; every token operation revokes all and makes one live, or keeps what is there. A request under way has a row, which the interleaving cannot take away |
| `HistoryStaysWhole` | `AnnotationSpec => []HistoryIsWhole` | with the types of the rows it is inductive: a change is applied only under a key the history does not have, a conflict is told only after the key was looked for, and nobody else writes under an editor's key |
| `ImportsAlwaysKeepFaith` | `ImportSpec => []ImportsKeepFaith` | `ImportInv`: the row says importing exactly while one importer works on it, which is why what that importer has read of the link, of the first snapshot and of the accepted content is still so when it writes |
| `IndexIsFaithful` | `SearchSpec => []IndexedOrMarked` | with the types of the rows it is inductive: every commit marks what it changes, and who takes a mark away indexes what is committed in the same transaction |
| `SearchStaysFaithful` | `SearchSpec /\ PassageSpec => []SearchIsFaithful` | for any hits, window and limit. The slide: when the loop leaves a hit its right edge is the last hit within the window, and each count is of the hits from the left one to it, by induction over the hits; what is within a window reaches as far from the next hit. So a score is the number of terms the definition finds. The choice, by induction over the ranking: each window looked at is near one that is chosen, or there are as many as asked for and none of them shows fewer terms |
| `WorkspaceProofs!FoldersStayOnDisk` | `FolderSpec => []FoldersAreOnDisk` | `FolderInv` says where the tree is during a rename, when the row does not: at the destination, which nobody else may take since the generation is barred |
| `PlansRunOnce` | `PlanSpec => []PlanRunsOnce` | `PlanInv`: whatever a call or the saved progress counts as done has been performed, and an operation only after the one before it; a call that has performed its step and crashes leaves that for the key to find |
| `PdfsAlwaysSurvive` | `PdfSpec => []PdfsSurvive` | `PdfInv` says for each operation which names the bytes have between link and unlink and before the row follows, and that only documents an earlier failure left halfway (`moved`) may be elsewhere |
| `AnsweredBackupsAreVerified` | `BackupSpec => []AnsweredIsVerified` | `BackupInv`: a call works on the name of its key, no name is given twice, and "verified" is only said of a set that was |
| `ScansAccountForTheTree` | `Spec => []ScanAccountsForTree` of Reconciliation | `ReconcileInv`: while nobody disturbs a scan, what it has listed and read is still so, a repair it has begun is still of the document's head, and each document whose file differs is planned as a conflict or still owed a repair. A repair writes one path, and a path belongs to one row, so paying one debt leaves the others' files alone |
| `SettlementsAreHeld` | `Spec => []TypeOK` of Reconciliation | with the soundness of the store's jobs: who is idle has no request, so whoever has a conflict in hand and no request has just succeeded; only then is the conflict closed |
| `ChatProofs!EffectsStayHonest` | `EffectSpec => []EffectsAreHonest` | `EffectInv`: whoever acts, or has read of an attempt, has an approval on record, which no later decision removes; what was performed stays with the effect's key, through a crash before the row says completed |
| `ProposalsTellTheTruth` | `ProposalSpec => []ProposalTellsTheTruth` | `ProposalInv`: one reviewer at a time has a proposal, from its reservation on the row carries that reviewer's key and wording, and any revision the proposal has follows its base and is by that key. So the revision found after a lost answer is the one that was asked for |
| `PoolStaysCounted` | `PoolSpec => []PoolIsCounted` | one lemma for all steps of a request: each counter moves by what the request held before and holds after. `PoolInv` adds that a thread which goes on without its caller was given up by the second cancellation |
| `RunsStayHonest` | `RunSpec => []RunsAreHonest` | `RunInv`: a message has no context or one; the place of `respond()` says what became of its stream, and neither the row nor a call left behind says anything else, so one that is carried out late or not at all breaks nothing; what is recorded falls short of what was read only under the mark |
| `ProjectsStayWhole` | `ProjectSpec /\ AssignmentSpec => []ProjectsAreWhole` | `ProjectInv`: the passages go with their project, and one lemma says which rows and members keep the references. `AssignmentInv`: what is written for a review and not listed is the result its row still stores, unless it was steered; the worker's copy agrees with the row on result, step and list while others change its status; and from the look at the row to the save nobody may steer or stop it |
| `DecisionsAlwaysStay` | `TaskSpec /\ AssignmentSpec => DecisionsStay` | from the same invariants: a note of a field that was corrected gives way only to one that cites another message; whoever is stopped is none of those the worker's copy may overwrite |
| `ContextStaysCurrent` | `TaskSpec /\ FactSpec /\ SkillSpec => []ContextIsCurrent` | `TaskInv`: every note has the hash of its text, and what a summarizer has read is as it was read as long as the generation is. `FactInv`: the versions of a fact count its changes, what was forgotten is so for good, what is active was saved or accepted by its last change. `SkillInv`: a pin that a call has seen is the pin; what it has loaded is pinned once it is past its own pin; it loads what the revision of the skill it has loaded refers to and no more; and whatever a call that answered before had loaded was pinned when this one read the pins, so it loads that pin |

The inductive invariants with more than types in them (`TreeInv`, `AuditInv`,
`AccessInv`, `TokenInv`, `LinkInv`, `ImportInv`, `FolderInv`, `PlanInv`, `PdfInv`,
`BackupInv`, `EffectInv`, `ProposalInv`, `PoolInv`, `RunInv`, `ProjectInv`,
`AssignmentInv`, `TaskInv`, `FactInv`, `SkillInv`, `ReconcileInv`, `AccountsInv`) held in TLC on the
instances of the runs before they were proved.

The theorems assume only the named assumptions on constants, which TLC evaluates:

* `CoordinatorAssumption`: finitely many threads, a pipeline locks only what it
  has retained. `StoreAssumption`: which requests carry what. `PipelineAssumption`:
  the same of the store that Reconciliation is composed with, and NULL is no request.
* `LedgerAssumption`, `AuditedAssumption`: finitely many threads; a payload is
  never larger than what it asks room for; the limits are numbers and a batch
  takes at least one row.
* `AccessAssumption`: prefixes and paths are sequences of names, "no path" is
  neither, grants are of prefixes.
* `FolderAssumption`, `PdfAssumption`: "nowhere" and "no document" are neither.
  `ProposalAssumption`: the same of NULL, and there is a proposal.
  `PoolAssumption`: finitely many requests, and the limits are numbers.
  `BackupAssumption`, `PlanAssumption`, `TokenAssumption`, `TaskAssumption`: the bounds
  are numbers.
  `ImportAssumption`: NULL is no content, and the fetches are a number.
  `RunAssumption`: each turn answers a message, and the bounds are numbers.
  `ProjectAssumption`: NULL and a field left out are no references.
  `PassageAssumption`: a text has finitely many hits, at places and of terms that
  are numbers; the window and the limit are positive.
* The two theorems about waiting have the lock orders as hypotheses, for not every
  caller keeps them. `DocumentsAreLockedInside`: a document is locked only after its pipeline
  has entered a generation. `LeadDown`: a pipeline enters before it takes its first
  lock, a structural operation gets in with none, and each lock that is not held
  already leads down from all that are. MCLockOrders has TLC evaluate both: the
  pipelines of CoordinatorHttp and CoordinatorBarrier keep them, with documents
  before paths before creation keys and a new document last; those of
  CoordinatorRepair and CoordinatorCreate lead down for no depth at all, and these
  two runs deadlock.
* `CallersKeys` is what the two theorems about the callers assume: documents, paths
  and creation keys are keys of their kind with numbers up to some `N`, and
  `DocumentKeys` are the documents. CallersNeverWaitInACycle also assumes that no
  pipeline already knows a document another is still creating. TLC checks that the
  pipelines of the four runs are among those of `DocumentFirst` and `PathFirst`.

The theorems about Publications, Annotations, SearchIndexing, ChatEffects,
SavedFacts, ChatSkills and Assignments assume nothing, not even that the reviews of a
delegation exist.

Two recursive functions are reasoned about, those of SearchPassages: OrderLemmas
shows that a recursion over an interval has a value and that what each of its steps
keeps holds of all its values, with steps and facts as sets, since a theorem with an
operator as a parameter cannot be used.

Model-checked only: PipelinesEnd (liveness, out of the prover's reach), and TypesOK,
the types of the services side by side: the invariants above carry the types their
proofs need, which is not each bound a run checks.

## Plan

Done: the coordinator and the callers' locks, the text document pipeline, the
scan, the ledger with audited operations, PDFs, search, folders and plans,
backups, the chat's admission, runs, memory, skills, effects and proposals,
assignments, projects, publications, tokens, imports, access.

Left, in the order of what it would add:

1. The composition of ChatProposals and ChatEffects with DocumentStore, in place
   of the history they carry of their own; of PdfDocuments with the conflicts of
   Reconciliation.
2. Liveness of the commit worker and of the extraction queue under fairness of
   their threads.
3. Document assets: content-addressed files written before their rows.

## Not modelled

* Document assets, comments, saved views, capture: row changes in single
  transactions over the modelled pipeline; asset files are written once under
  their content's hash. Actor rows, tag rows and chat threads are of this kind.
* Provider connections and web research: network input and output. What they
  answer is a free choice in the models that use it.
* Storage ownership: a lock file whose exclusion is the operating system's.
* HTTP API, composition, command line, configuration: routing and wiring. The
  calls a route makes are the pipelines of LockOrders and the requests of the
  services.
* The frontend: a client; its retries are the retries of the models.
* Sessions and password hashing, migrations (they run before anything else), the
  restore command (it runs on a stopped server).
* Parsing, rendering, sanitizing, the query language of the index, prompts, tool
  descriptions and schemas: they compute values the models leave abstract.
