------------------------- MODULE MutationCoordinator -------------------------
(***************************************************************************)
(* The lock protocol of sangam/mutations.py.                               *)
(*                                                                         *)
(* Every write of Sangam runs inside nested "with" blocks of one           *)
(* MutationCoordinator: refcounted re-entrant locks for documents, paths   *)
(* and idempotent creations, and one generation barrier that lets any      *)
(* number of mutations or a single structural operation (a backup, a       *)
(* folder rename) run.  A thread is one request.  It runs one pipeline,    *)
(* the sequence of blocking steps its nested blocks take on the way in;    *)
(* the way out undoes them in reverse.  Which pipelines exist is the       *)
(* business of the callers (module LockOrders); here they are a parameter. *)
(***************************************************************************)
EXTENDS LockSteps, Naturals, Sequences, FiniteSets

CONSTANTS
    Threads,       \* requests: server threads and background jobs
    Keys,          \* names of refcounted locks: documents, paths, creations
    DocumentKeys,  \* those of Keys that name documents
    LockObjects,   \* identities an RLock instance can have
    Pipelines,     \* the step sequences the callers run
    NoLock, Nobody

Steps == {Retain(k) : k \in Keys} \cup {Lock(k) : k \in Keys}
            \cup {Enter, Exclusive}

(* A lock is only taken through the handle its block has retained.         *)
ASSUME CoordinatorAssumption ==
    /\ IsFiniteSet(Threads)
    /\ DocumentKeys \subseteq Keys
    /\ NoLock \notin LockObjects
    /\ Nobody \notin Threads
    /\ Pipelines \subseteq Seq(Steps)
    /\ \A p \in Pipelines : \A i \in 1..Len(p) :
          p[i].op = "lock" =>
             \E j \in 1..(i - 1) : p[j] = Retain(p[i].key)

VARIABLES
    phase,           \* a thread is new, on its way in, or on its way out
    program,         \* the pipeline it runs
    opened,          \* how many steps of it are in force
    handle,          \* the lock object its retain of a key returned
    owner,           \* the thread that owns an RLock instance
    lockTable,       \* _document_locks, _path_locks, _keyed_creation_locks
    users,           \* the blocks counted in the *_lock_users tables
    activeMutations, \* _active_mutations
    backupActive,    \* _backup_active
    waitingBackups,  \* _waiting_backups
    mutating,        \* the step that set _local.mutating, 0 when unset
    enlisted,        \* threads counted in waitingBackups
    asleep           \* threads inside _condition.wait()

threadVars  == <<phase, program, opened>>
lockVars    == <<handle, owner, lockTable, users>>
barrierVars == <<activeMutations, backupActive, waitingBackups, mutating,
                 enlisted, asleep>>
vars == <<threadVars, lockVars, barrierVars>>

Init ==
    /\ phase = [t \in Threads |-> "new"]
    /\ program = [t \in Threads |-> <<>>]
    /\ opened = [t \in Threads |-> 0]
    /\ handle = [t \in Threads |-> [k \in Keys |-> NoLock]]
    /\ owner = [o \in LockObjects |-> Nobody]
    /\ lockTable = [k \in Keys |-> NoLock]
    /\ users = [k \in Keys |-> {}]
    /\ activeMutations = 0
    /\ backupActive = FALSE
    /\ waitingBackups = 0
    /\ mutating = [t \in Threads |-> 0]
    /\ enlisted = {}
    /\ asleep = {}

-----------------------------------------------------------------------------
(* The steps of a thread that are in force, and what they hold.            *)

Held(t, s) == {i \in 1..opened[t] : program[t][i] = s}
Locked(t, k) == Held(t, Lock(k)) # {}
Retained(t, k) == Held(t, Retain(k)) # {}
HoldsExclusive(t) == Held(t, Exclusive) # {}

AtStep(t, op) ==
    /\ phase[t] = "in"
    /\ opened[t] < Len(program[t])
    /\ program[t][opened[t] + 1].op = op

NextKey(t) == program[t][opened[t] + 1].key

Open(t) == opened' = [opened EXCEPT ![t] = @ + 1]

(* Lock instances nothing refers to: what threading.RLock() may return.    *)
FreshLocks ==
    {o \in LockObjects : /\ \A k \in Keys : lockTable[k] # o
                         /\ \A t \in Threads, k \in Keys : handle[t][k] # o}

-----------------------------------------------------------------------------
Start(t) ==
    /\ phase[t] = "new"
    /\ phase' = [phase EXCEPT ![t] = "in"]
    /\ \E p \in Pipelines : program' = [program EXCEPT ![t] = p]
    /\ UNCHANGED <<opened, lockVars, barrierVars>>

(* Count the block as a user of the key's lock, creating the lock for the  *)
(* first one.                                                              *)
RetainLock(t) ==
    /\ AtStep(t, "retain")
    /\ LET k == NextKey(t) IN
       /\ \/ /\ lockTable[k] # NoLock
             /\ UNCHANGED lockTable
          \/ /\ lockTable[k] = NoLock
             /\ FreshLocks # {}
             /\ lockTable' = [lockTable EXCEPT
                                 ![k] = CHOOSE o \in FreshLocks : TRUE]
       /\ handle' = [handle EXCEPT ![t][k] = lockTable'[k]]
       /\ users' = [users EXCEPT ![k] = @ \cup {<<t, opened[t] + 1>>}]
    /\ Open(t)
    /\ UNCHANGED <<phase, program, owner, barrierVars>>

TakeLock(t) ==
    /\ AtStep(t, "lock")
    /\ LET o == handle[t][NextKey(t)] IN
       /\ owner[o] \in {Nobody, t}
       /\ owner' = [owner EXCEPT ![o] = t]
    /\ Open(t)
    /\ UNCHANGED <<phase, program, handle, lockTable, users, barrierVars>>

(* Mutant: mutations yield to waiting backups only.                        *)
GenerationClosedByWaiters == waitingBackups > 0

(* mutation(): a thread that already owns a generation passes through; one *)
(* that does not yields to a running and to every waiting backup.          *)
GenerationClosed == backupActive \/ waitingBackups > 0

PassGeneration(t) ==
    /\ AtStep(t, "enter")
    /\ mutating[t] # 0
    /\ Open(t)
    /\ UNCHANGED <<phase, program, lockVars, barrierVars>>

EnterGeneration(t) ==
    /\ AtStep(t, "enter")
    /\ mutating[t] = 0
    /\ t \notin asleep
    /\ ~GenerationClosed
    /\ activeMutations' = activeMutations + 1
    /\ mutating' = [mutating EXCEPT ![t] = opened[t] + 1]
    /\ Open(t)
    /\ UNCHANGED <<phase, program, lockVars, backupActive, waitingBackups,
                   enlisted, asleep>>

AwaitGeneration(t) ==
    /\ AtStep(t, "enter")
    /\ mutating[t] = 0
    /\ t \notin asleep
    /\ GenerationClosed
    /\ asleep' = asleep \cup {t}
    /\ UNCHANGED <<threadVars, lockVars, activeMutations, backupActive,
                   waitingBackups, mutating, enlisted>>

(* exclusive(): the waiter is announced before it sleeps and struck off    *)
(* when it owns the generation, both under the condition's lock.           *)
(* Mutant: a structural operation ignores running mutations.               *)
GenerationBusyWithBackup == backupActive

GenerationBusy == backupActive \/ activeMutations > 0

AwaitExclusive(t) ==
    /\ AtStep(t, "exclusive")
    /\ t \notin asleep
    /\ GenerationBusy
    /\ asleep' = asleep \cup {t}
    /\ \/ /\ t \in enlisted
          /\ UNCHANGED <<waitingBackups, enlisted>>
       \/ /\ t \notin enlisted
          /\ waitingBackups' = waitingBackups + 1
          /\ enlisted' = enlisted \cup {t}
    /\ UNCHANGED <<threadVars, lockVars, activeMutations, backupActive,
                   mutating>>

(* Mutant: the waiter is not struck off when it owns the generation.       *)
OwnExclusiveStillWaiting(t) ==
    /\ AtStep(t, "exclusive")
    /\ t \notin asleep
    /\ ~GenerationBusy
    /\ backupActive' = TRUE
    /\ Open(t)
    /\ UNCHANGED <<phase, program, lockVars, activeMutations, waitingBackups,
                   mutating, enlisted, asleep>>

OwnExclusive(t) ==
    /\ AtStep(t, "exclusive")
    /\ t \notin asleep
    /\ ~GenerationBusy
    /\ backupActive' = TRUE
    /\ \/ /\ t \in enlisted
          /\ waitingBackups' = waitingBackups - 1
          /\ enlisted' = enlisted \ {t}
       \/ /\ t \notin enlisted
          /\ UNCHANGED <<waitingBackups, enlisted>>
    /\ Open(t)
    /\ UNCHANGED <<phase, program, lockVars, activeMutations, mutating,
                   asleep>>

(* The body of the innermost block has run, or has raised.                 *)
Body(t) ==
    /\ phase[t] = "in"
    /\ opened[t] = Len(program[t])
    /\ phase' = [phase EXCEPT ![t] = "out"]
    /\ UNCHANGED <<program, opened, lockVars, barrierVars>>

-----------------------------------------------------------------------------
(* The way out, one step of the pipeline at a time.                        *)

Closing(t, op) ==
    /\ phase[t] = "out"
    /\ opened[t] > 0
    /\ program[t][opened[t]].op = op
    /\ opened' = [opened EXCEPT ![t] = @ - 1]
    /\ UNCHANGED <<phase, program>>

LastKey(t) == program[t][opened[t]].key

ReleaseLock(t) ==
    /\ Closing(t, "lock")
    /\ LET k == LastKey(t) IN
       owner' = [owner EXCEPT ![handle[t][k]] =
                    IF Held(t, Lock(k)) = {opened[t]} THEN Nobody ELSE @]
    /\ UNCHANGED <<handle, lockTable, users, barrierVars>>

(* Mutant: every block that ends removes the key's lock.                   *)
ReleaseRetainedAlways(t) ==
    /\ Closing(t, "retain")
    /\ LET k == LastKey(t) IN
       /\ users' = [users EXCEPT ![k] = @ \ {<<t, opened[t]>>}]
       /\ lockTable' = [lockTable EXCEPT ![k] = NoLock]
       /\ handle' = [handle EXCEPT
                        ![t][k] = IF Held(t, Retain(k)) = {opened[t]}
                                     THEN NoLock ELSE @]
    /\ UNCHANGED <<owner, barrierVars>>

(* Uncount the block; the last user of a key removes its lock.             *)
ReleaseRetained(t) ==
    /\ Closing(t, "retain")
    /\ LET k == LastKey(t)
           remaining == users[k] \ {<<t, opened[t]>>}
       IN /\ users' = [users EXCEPT ![k] = remaining]
          /\ lockTable' = [lockTable EXCEPT
                              ![k] = IF remaining = {} THEN NoLock ELSE @]
          /\ handle' = [handle EXCEPT
                           ![t][k] = IF Held(t, Retain(k)) = {opened[t]}
                                        THEN NoLock ELSE @]
    /\ UNCHANGED <<owner, barrierVars>>

(* Mutant: the last mutation leaves without notifying.                     *)
LeaveGenerationSilently(t) ==
    /\ Closing(t, "enter")
    /\ mutating[t] = opened[t]
    /\ mutating' = [mutating EXCEPT ![t] = 0]
    /\ activeMutations' = activeMutations - 1
    /\ UNCHANGED <<lockVars, backupActive, waitingBackups, enlisted, asleep>>

LeaveGeneration(t) ==
    /\ Closing(t, "enter")
    /\ mutating[t] = opened[t]
    /\ mutating' = [mutating EXCEPT ![t] = 0]
    /\ activeMutations' = activeMutations - 1
    /\ asleep' = IF activeMutations' = 0 THEN {} ELSE asleep
    /\ UNCHANGED <<lockVars, backupActive, waitingBackups, enlisted>>

(* Mutant: a re-entrant pass is counted out although it was not counted in. *)
LeavePassedCounted(t) ==
    /\ Closing(t, "enter")
    /\ mutating[t] # opened[t]
    /\ activeMutations' = activeMutations - 1
    /\ UNCHANGED <<lockVars, backupActive, waitingBackups, mutating, enlisted,
                   asleep>>

LeavePassed(t) ==
    /\ Closing(t, "enter")
    /\ mutating[t] # opened[t]
    /\ UNCHANGED <<lockVars, barrierVars>>

ReleaseExclusive(t) ==
    /\ Closing(t, "exclusive")
    /\ backupActive' = FALSE
    /\ asleep' = {}
    /\ UNCHANGED <<lockVars, activeMutations, waitingBackups, mutating,
                   enlisted>>

-----------------------------------------------------------------------------
WayIn(t) ==
    \/ RetainLock(t) \/ TakeLock(t)
    \/ PassGeneration(t) \/ EnterGeneration(t) \/ AwaitGeneration(t)
    \/ AwaitExclusive(t) \/ OwnExclusive(t)
    \/ Body(t)

WayOut(t) ==
    \/ ReleaseLock(t) \/ ReleaseRetained(t)
    \/ LeaveGeneration(t) \/ LeavePassed(t)
    \/ ReleaseExclusive(t)

Next == \E t \in Threads : Start(t) \/ WayIn(t) \/ WayOut(t)

Spec == Init /\ [][Next]_vars

(* The operating system keeps scheduling every thread that can run.        *)
FairSpec == Spec /\ \A t \in Threads : WF_vars(WayIn(t) \/ WayOut(t))

-----------------------------------------------------------------------------
TypeOK ==
    /\ phase \in [Threads -> {"new", "in", "out"}]
    /\ program \in [Threads -> Seq(Steps)]
    /\ opened \in [Threads -> Nat]
    /\ \A t \in Threads : opened[t] <= Len(program[t])
    /\ handle \in [Threads -> [Keys -> LockObjects \cup {NoLock}]]
    /\ owner \in [LockObjects -> Threads \cup {Nobody}]
    /\ lockTable \in [Keys -> LockObjects \cup {NoLock}]
    /\ users \in [Keys -> SUBSET (Threads \X Nat)]
    /\ activeMutations \in Nat
    /\ backupActive \in BOOLEAN
    /\ waitingBackups \in Nat
    /\ mutating \in [Threads -> Nat]
    /\ enlisted \in SUBSET Threads
    /\ asleep \in SUBSET Threads

(* What pipelines are like that open their blocks in one order.  In        *)
(* document() and documents() the generation comes before the locks: a     *)
(* document is only locked inside a mutation.                              *)
DocumentsAreLockedInside(pipelines) ==
    \A p \in pipelines : \A i \in 1..Len(p) :
        p[i].op = "lock" /\ p[i].key \in DocumentKeys =>
            \E j \in 1..(i - 1) : p[j] = Enter

(* The locks a pipeline takes lead down from key to key, except for those  *)
(* it has, and the generation comes before the first of them.              *)
LeadDown(pipelines, depth) ==
    \A p \in pipelines : \A i \in 1..Len(p) :
        /\ p[i].op = "lock" =>
             \/ \E j \in 1..(i - 1) : p[j] = p[i]
             \/ \A j \in 1..(i - 1) :
                   p[j].op = "lock" => depth[p[j].key] > depth[p[i].key]
        /\ p[i].op = "enter" =>
             \/ \E j \in 1..(i - 1) : p[j] = Enter
             \/ \A j \in 1..(i - 1) : p[j].op = "retain"
        /\ p[i].op = "exclusive" =>
             \A j \in 1..(i - 1) : p[j].op = "retain"

(* "Backups take an exclusive generation barrier and therefore observe     *)
(* neither half of an in-flight mutation" (mutations.py, the class         *)
(* docstring): while a thread is inside exclusive() no other thread is     *)
(* inside exclusive() or anywhere inside mutation().                       *)
BackupSeesNoMutation ==
    \A t, u \in Threads :
        HoldsExclusive(t) => /\ mutating[u] = 0
                             /\ HoldsExclusive(u) => u = t

(* "A mutation for one document owns its complete pipeline": two threads   *)
(* never hold the lock of one key, although lock objects are created,      *)
(* dropped with their last user and created anew under the same key.       *)
OneOwnerPerKey ==
    \A k \in Keys : \A t, u \in Threads :
        Locked(t, k) /\ Locked(u, k) => t = u

(* The refcounts of _retain_*_lock and _release_*_lock: a key has a lock   *)
(* exactly while some block uses it, and every such block holds the lock   *)
(* the table names, so no waiter is left on an orphaned lock.              *)
TableMatchesUse ==
    \A k \in Keys :
        /\ (lockTable[k] # NoLock) <=> (\E t \in Threads : Retained(t, k))
        /\ \A t \in Threads : Retained(t, k) => handle[t][k] = lockTable[k]

(* "Never hold a document lock while waiting for a generation" (the        *)
(* comment in document()): a thread that sleeps at the barrier of          *)
(* mutation() holds no document.                                           *)
NoDocumentHeldAtTheBarrier ==
    \A t \in asleep : AtStep(t, "enter") =>
        \A k \in DocumentKeys : ~Locked(t, k)

(* Conditional notification in mutation() and notify_all in exclusive():   *)
(* a thread only sleeps while what it waits for has not happened.          *)
NoLostWakeup ==
    \A t \in asleep : \/ AtStep(t, "enter") /\ GenerationClosed
                      \/ AtStep(t, "exclusive") /\ GenerationBusy

(* Whom a thread cannot go on without.                                     *)
WaitsFor(t) ==
    {u \in Threads \ {t} :
        \/ AtStep(t, "lock") /\ owner[handle[t][NextKey(t)]] = u
        \/ /\ AtStep(t, "enter") /\ mutating[t] = 0
           /\ u \in enlisted \/ HoldsExclusive(u)
        \/ /\ AtStep(t, "exclusive")
           /\ mutating[u] # 0 \/ HoldsExclusive(u)}

(* "Waiting again would deadlock a nested storage call against a queued    *)
(* backup" (mutation()), "replay cannot invert document locks"             *)
(* (documents()): no set of threads waits only on its own members, across  *)
(* document, path and creation locks and the generation barrier.           *)
NoWaitCycle ==
    \A S \in SUBSET Threads : S # {} =>
        \E t \in S : WaitsFor(t) \cap S = {}

(* Every pipeline that starts ends: backups are not starved by a stream of *)
(* mutations, and mutations are resumed when the last backup is over.      *)
PipelinesEnd ==
    \A t \in Threads :
        (phase[t] = "in") ~> (phase[t] = "out" /\ opened[t] = 0)

(* What the barrier promises its callers, without its implementation.      *)
Barrier == INSTANCE GenerationBarrier
              WITH mutators <- {t \in Threads : mutating[t] # 0},
                   holders  <- {t \in Threads : HoldsExclusive(t)}

BarrierSpec == Barrier!Spec
=============================================================================
