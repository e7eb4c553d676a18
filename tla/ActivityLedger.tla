---------------------------- MODULE ActivityLedger ----------------------------
(***************************************************************************)
(* ActivityService of sangam/activity.py: the bounded queue between the    *)
(* threads that have something to record and the one worker that commits   *)
(* it to operation_events.                                                 *)
(*                                                                         *)
(* A producer is admitted with an estimate and gets a ticket               *)
(* (AuditReservation).  When it knows the payload it grows the ticket,     *)
(* waiting in a fair queue if there is no room, and either hands the row   *)
(* to the worker and waits for its future, or writes the row itself.       *)
(* Each step below is one block under _queue_lock.                         *)
(***************************************************************************)
EXTENDS Integers, Sequences, SequencesExt, FiniteSets, FiniteSetsExt

CONSTANTS
    Producers,          \* threads that record
    Payloads,           \* what they may have to record
    MaxItems, MaxQueueBytes, MaxTotalBytes, MaxBatch,   \* max_queue_items, ...
    Failures,           \* how a commit of the worker may fail
    TimeoutsHappen,     \* may a deadline pass before what it waits for?
    Nobody

(* What a row tells of its operation.                                      *)
Outcomes == {"accepted", "failed"}

(* asked: the estimate at admission; needed: estimate_payload_bytes of the *)
(* details; actual: the size of the row, which the estimate bounds.        *)
Payload == [asked : Nat, needed : Nat, actual : Nat]

ASSUME LedgerAssumption ==
    /\ IsFiniteSet(Producers)
    /\ Payloads \subseteq Payload
    /\ \A load \in Payloads : load.actual <= load.needed
    /\ MaxItems \in Nat \ {0} /\ MaxQueueBytes \in Nat /\ MaxTotalBytes \in Nat
    /\ MaxBatch \in Nat \ {0}
    /\ Failures \subseteq {"busy", "terminal", "other"}
    /\ TimeoutsHappen \in BOOLEAN
    /\ Nobody \notin Producers

VARIABLES
    ticket,             \* each producer's reservation and where it is with it
    queue,              \* _queue
    batch,              \* what the worker is committing
    counters,           \* the counters under _queue_lock
    oversizedOwner,     \* _oversized_owner_id
    expansionWaiters,   \* _expansion_waiters
    worker,             \* where _commit_worker_loop is, _worker_healthy, _worker_error
    closing,            \* _shutting_down and how far close() has got
    ledger              \* operation_events: how many rows of each outcome a producer has

ledgerVars == <<ticket, queue, batch, counters, oversizedOwner,
                expansionWaiters, worker, closing, ledger>>

NoTicket == [at |-> "none", load |-> [asked |-> 0, needed |-> 0, actual |-> 0],
             reserved |-> 0, wanted |-> 0, expansion |-> 0, oversized |-> FALSE,
             transferred |-> FALSE, what |-> "none", answer |-> "none"]

(* A ticket counts from its admission until it is handed to the queue or   *)
(* released.                                                               *)
Counted(p) == /\ ticket[p].at \notin {"none", "asking"}
              /\ ~ticket[p].transferred

LedgerInit ==
    /\ ticket = [p \in Producers |-> NoTicket]
    /\ queue = <<>> /\ batch = <<>>
    /\ counters = [admittedItems |-> 0, reservedBytes |-> 0, activeProducers |-> 0,
                   queueBytes |-> 0, committingItems |-> 0, committingBytes |-> 0]
    /\ oversizedOwner = Nobody
    /\ expansionWaiters = <<>>
    /\ worker = [at |-> "waiting", healthy |-> TRUE, error |-> "none"]
    /\ closing = "open"
    /\ ledger = [p \in Producers |-> [what \in Outcomes |-> 0]]

InFlightItems == counters.admittedItems + Len(queue) + counters.committingItems
InFlightBytes == counters.reservedBytes + counters.queueBytes + counters.committingBytes
ShuttingDown == closing # "open"
QueueIdle == queue = <<>> /\ counters.committingItems = 0

AtLeastZero(n) == IF n < 0 THEN 0 ELSE n

-----------------------------------------------------------------------------
(* admit()                                                                 *)

Ask(p, load) ==
    /\ ticket[p].at = "none"
    /\ ticket' = [ticket EXCEPT ![p] = [NoTicket EXCEPT !.at = "asking", !.load = load]]
    /\ UNCHANGED <<queue, batch, counters, oversizedOwner, expansionWaiters,
                   worker, closing, ledger>>

HasCapacity(asked) ==
    /\ InFlightItems < MaxItems
    /\ oversizedOwner = Nobody
    /\ IF asked > MaxTotalBytes THEN InFlightBytes = 0
                                ELSE InFlightBytes + asked <= MaxTotalBytes

Admit(p) ==
    LET asked == ticket[p].load.asked
        big   == asked > MaxTotalBytes
    IN
    /\ ticket[p].at = "asking"
    /\ worker.healthy /\ ~ShuttingDown
    /\ HasCapacity(asked)
    /\ counters' = [counters EXCEPT !.admittedItems = @ + 1,
                                    !.reservedBytes = @ + asked,
                                    !.activeProducers = @ + 1]
    /\ oversizedOwner' = IF big THEN p ELSE oversizedOwner
    /\ ticket' = [ticket EXCEPT ![p].at = "admitted", ![p].reserved = asked,
                                ![p].oversized = big]
    /\ UNCHANGED <<queue, batch, expansionWaiters, worker, closing, ledger>>

Recoverable == worker.error = "busy"

(* The ledger is shutting down or cannot be written to, or there was no    *)
(* room in time.                                                           *)
RefuseAdmission(p) ==
    /\ ticket[p].at = "asking"
    /\ \/ ShuttingDown
       \/ ~worker.healthy
       \/ TimeoutsHappen /\ ~HasCapacity(ticket[p].load.asked)
    /\ ticket' = [ticket EXCEPT ![p] = [NoTicket EXCEPT !.answer = "refused"]]
    /\ UNCHANGED <<queue, batch, counters, oversizedOwner, expansionWaiters,
                   worker, closing, ledger>>

(* Whoever meets an unhealthy worker tries for the write lock, and         *)
(* declares the worker healthy again when it gets it.                      *)
Probe(p) ==
    /\ \/ ticket[p].at = "asking" /\ ~ShuttingDown
       \/ ticket[p].at \in {"recording", "waiting"}
    /\ ~worker.healthy /\ Recoverable
    /\ worker.at # "stopped"
    /\ worker' = [worker EXCEPT !.healthy = TRUE, !.error = "none"]
    /\ UNCHANGED <<ticket, queue, batch, counters, oversizedOwner,
                   expansionWaiters, closing, ledger>>

-----------------------------------------------------------------------------
(* AuditReservation.record(): grow the ticket ...                          *)

(* what is the outcome that the row will tell.                             *)
BeginRecord(p, what) ==
    LET wanted == Max({ticket[p].reserved, ticket[p].load.needed}) IN
    /\ ticket[p].at = "admitted"
    /\ ticket' = [ticket EXCEPT ![p].at = "recording", ![p].what = what,
                                ![p].wanted = wanted,
                                ![p].expansion = wanted - ticket[p].reserved]
    /\ UNCHANGED <<queue, batch, counters, oversizedOwner, expansionWaiters,
                   worker, closing, ledger>>

Oversized(p) == ticket[p].wanted > MaxQueueBytes \/ ticket[p].wanted > MaxTotalBytes

CanDirectPersist(p) ==
    ~ShuttingDown /\ counters.reservedBytes + ticket[p].expansion <= MaxTotalBytes

MayProceed(p) == worker.healthy \/ CanDirectPersist(p)

(* Is there room for extra more bytes of a record of this size?            *)
RoomFor(p, extra) ==
    IF Oversized(p)
    THEN oversizedOwner \in {Nobody, p} /\ QueueIdle
    ELSE /\ \/ counters.queueBytes + counters.committingBytes + ticket[p].wanted
                 <= MaxQueueBytes
            \/ QueueIdle /\ oversizedOwner = Nobody
         /\ oversizedOwner = Nobody
         /\ InFlightBytes + extra <= MaxTotalBytes

Grow(p, extra) ==
    /\ counters' = [counters EXCEPT !.reservedBytes = @ + extra]
    /\ oversizedOwner' = IF Oversized(p) THEN p ELSE oversizedOwner
    /\ ticket' = [ticket EXCEPT ![p].at = "granted", ![p].reserved = ticket[p].wanted,
                                ![p].oversized = @ \/ Oversized(p)]

NothingToGrow(p) == ticket[p].expansion = 0 /\ expansionWaiters = <<>>

ProceedAsIs(p) ==
    /\ ticket[p].at = "recording" /\ MayProceed(p)
    /\ NothingToGrow(p)
    /\ ticket' = [ticket EXCEPT ![p].at = "granted"]
    /\ UNCHANGED <<queue, batch, counters, oversizedOwner, expansionWaiters,
                   worker, closing, ledger>>

ExpandNow(p) ==
    /\ ticket[p].at = "recording" /\ MayProceed(p)
    /\ ~NothingToGrow(p)
    /\ expansionWaiters = <<>> /\ RoomFor(p, ticket[p].expansion)
    /\ Grow(p, ticket[p].expansion)
    /\ UNCHANGED <<queue, batch, expansionWaiters, worker, closing, ledger>>

(* No room, or others are waiting: give up what is reserved and line up.   *)
LineUp(p) ==
    /\ ticket[p].at = "recording" /\ MayProceed(p)
    /\ ~NothingToGrow(p)
    /\ expansionWaiters # <<>> \/ ~RoomFor(p, ticket[p].expansion)
    /\ expansionWaiters' = Append(expansionWaiters, p)
    /\ counters' = [counters EXCEPT
                      !.reservedBytes = AtLeastZero(@ - ticket[p].reserved)]
    /\ ticket' = [ticket EXCEPT ![p].at = "waiting", ![p].reserved = 0]
    /\ UNCHANGED <<queue, batch, oversizedOwner, worker, closing, ledger>>

AcquireInTurn(p) ==
    /\ ticket[p].at = "waiting" /\ MayProceed(p)
    /\ Head(expansionWaiters) = p /\ RoomFor(p, ticket[p].wanted)
    /\ expansionWaiters' = Tail(expansionWaiters)
    /\ Grow(p, ticket[p].wanted)
    /\ UNCHANGED <<queue, batch, worker, closing, ledger>>

Leave(p, answer) ==
    ticket' = [ticket EXCEPT ![p].at = "leaving", ![p].answer = answer]

MustWait(p) ==
    \/ ~MayProceed(p)
    \/ ticket[p].at = "waiting"
       /\ ~(Head(expansionWaiters) = p /\ RoomFor(p, ticket[p].wanted))

(* The deadline of 60 seconds, or a worker that cannot recover.            *)
GiveUp(p) ==
    /\ ticket[p].at \in {"recording", "waiting"}
    /\ \/ TimeoutsHappen /\ MustWait(p)
       \/ ~MayProceed(p) /\ worker.error = "terminal"
    /\ expansionWaiters' = RemoveFirst(expansionWaiters, p)
    /\ Leave(p, "refused")
    /\ UNCHANGED <<queue, batch, counters, oversizedOwner, worker, closing, ledger>>

-----------------------------------------------------------------------------
(* ... then queue the row, or write it without the worker.                 *)

(* The size of the row, once it is prepared.                               *)
RowSize(p) == ticket[p].load.actual

QueuedRow(p) == [by |-> p, size |-> RowSize(p), what |-> ticket[p].what,
                 oversized |-> ticket[p].oversized]

CanQueue(p) ==
    /\ worker.healthy /\ ~ShuttingDown
    /\ \/ counters.queueBytes + counters.committingBytes + RowSize(p) <= MaxQueueBytes
       \/ QueueIdle /\ oversizedOwner \in {Nobody, p}

(* The ticket becomes exactly as large as the row, ...                     *)
Resized(p) == AtLeastZero(counters.reservedBytes - ticket[p].reserved + RowSize(p))

(* ... and with the row it passes to the queue.                            *)
Enqueue(p) ==
    LET size == RowSize(p) IN
    /\ ticket[p].at = "granted" /\ CanQueue(p)
    /\ queue' = Append(queue, QueuedRow(p))
    /\ counters' = [counters EXCEPT
                      !.reservedBytes = AtLeastZero(Resized(p) - size),
                      !.admittedItems = AtLeastZero(@ - 1),
                      !.activeProducers = AtLeastZero(@ - 1),
                      !.queueBytes = @ + size]
    /\ ticket' = [ticket EXCEPT ![p].at = "queued", ![p].reserved = size,
                                ![p].transferred = TRUE]
    /\ UNCHANGED <<batch, oversizedOwner, expansionWaiters, worker, closing, ledger>>

GoDirect(p) ==
    /\ ticket[p].at = "granted" /\ ~CanQueue(p)
    /\ counters' = [counters EXCEPT !.reservedBytes = Resized(p)]
    /\ ticket' = [ticket EXCEPT ![p].at = "direct", ![p].reserved = RowSize(p)]
    /\ UNCHANGED <<queue, batch, oversizedOwner, expansionWaiters, worker,
                   closing, ledger>>

(* _persist_row_direct: a transaction of the producer's own.               *)
PersistDirect(p) ==
    /\ ticket[p].at = "direct"
    /\ ledger' = [ledger EXCEPT ![p][ticket[p].what] = @ + 1]
    /\ Leave(p, "recorded")
    /\ UNCHANGED <<queue, batch, counters, oversizedOwner, expansionWaiters,
                   worker, closing>>

FailDirect(p) ==
    /\ Failures # {} /\ ticket[p].at = "direct"
    /\ Leave(p, "refused")
    /\ UNCHANGED <<queue, batch, counters, oversizedOwner, expansionWaiters,
                   worker, closing, ledger>>

(* The future is not done after 60 seconds: whether the row is written is  *)
(* not known.                                                              *)
Despair(p) ==
    /\ TimeoutsHappen /\ ticket[p].at = "queued"
    /\ Leave(p, "uncertain")
    /\ UNCHANGED <<queue, batch, counters, oversizedOwner, expansionWaiters,
                   worker, closing, ledger>>

GiveBackAgain(p) ==
    /\ counters' = [counters EXCEPT !.admittedItems = @ - 1,
                                    !.reservedBytes = @ - ticket[p].reserved,
                                    !.activeProducers = @ - 1]
    /\ ticket' = [ticket EXCEPT ![p] = [NoTicket EXCEPT !.answer = ticket[p].answer]]
    /\ UNCHANGED <<oversizedOwner, expansionWaiters>>

(* release(): what the ticket still holds goes back.                       *)
GiveBack(p) ==
    /\ counters' = IF ticket[p].transferred THEN counters
                   ELSE [counters EXCEPT
                           !.admittedItems = AtLeastZero(@ - 1),
                           !.reservedBytes = AtLeastZero(@ - ticket[p].reserved),
                           !.activeProducers = AtLeastZero(@ - 1)]
    /\ oversizedOwner' = IF ~ticket[p].transferred /\ ticket[p].oversized
                            /\ oversizedOwner = p
                         THEN Nobody ELSE oversizedOwner
    /\ ticket' = [ticket EXCEPT ![p] = [NoTicket EXCEPT !.answer = ticket[p].answer]]
    /\ UNCHANGED expansionWaiters

Release(p) ==
    /\ ticket[p].at = "leaving"
    /\ GiveBack(p)
    /\ UNCHANGED <<queue, batch, worker, closing, ledger>>

(* A ticket nobody has recorded with.                                      *)
ReleaseUnused(p) ==
    /\ ticket[p].at = "admitted"
    /\ GiveBack(p)
    /\ UNCHANGED <<queue, batch, worker, closing, ledger>>

-----------------------------------------------------------------------------
(* record_with_connection(): the row is written in the caller's            *)
(* transaction, which does not wait for room.                              *)

Extra(p) == Max({ticket[p].reserved, ticket[p].load.needed}) - ticket[p].reserved

FitsInTransaction(p) ==
    ticket[p].oversized \/ InFlightBytes + Extra(p) <= MaxTotalBytes

(* The extra bytes are reserved and given back in the one call.            *)
RecordInTransaction(p, answer) ==
    /\ ticket[p].at = "admitted"
    /\ answer = "recorded" => FitsInTransaction(p)
    /\ counters' = [counters EXCEPT
                      !.admittedItems = AtLeastZero(@ - 1),
                      !.reservedBytes = AtLeastZero(@ - ticket[p].reserved),
                      !.activeProducers = AtLeastZero(@ - 1)]
    /\ oversizedOwner' = IF oversizedOwner = p THEN Nobody ELSE oversizedOwner
    /\ ticket' = [ticket EXCEPT ![p] = [NoTicket EXCEPT !.answer = answer]]
    /\ UNCHANGED <<queue, batch, expansionWaiters, worker, closing, ledger>>

-----------------------------------------------------------------------------
(* The worker.                                                             *)

BytesOf(items) == FoldSeq(LAMBDA item, sum : item.size + sum, 0, items)

TakeBatch ==
    LET size == Min({Len(queue), MaxBatch})
        taken == SubSeq(queue, 1, size)
    IN
    /\ worker.at = "waiting" /\ queue # <<>>
    /\ batch' = taken
    /\ queue' = SubSeq(queue, size + 1, Len(queue))
    /\ counters' = [counters EXCEPT !.queueBytes = AtLeastZero(@ - BytesOf(taken)),
                                    !.committingItems = size,
                                    !.committingBytes = BytesOf(taken)]
    /\ worker' = [worker EXCEPT !.at = "committing"]
    /\ UNCHANGED <<ticket, oversizedOwner, expansionWaiters, closing, ledger>>

(* Resolve the futures that somebody still waits for.                      *)
Resolve(answer) ==
    ticket' = [p \in Producers |->
                 IF ticket[p].at = "queued" /\ \E i \in DOMAIN batch : batch[i].by = p
                 THEN [ticket[p] EXCEPT !.at = "leaving", !.answer = answer]
                 ELSE ticket[p]]

RowsOf(p, what) == {i \in DOMAIN batch : batch[i].by = p /\ batch[i].what = what}

CommitBatch ==
    /\ worker.at = "committing"
    /\ ledger' = [p \in Producers |-> [what \in Outcomes |->
                    ledger[p][what] + Cardinality(RowsOf(p, what))]]
    /\ Resolve("recorded")
    /\ worker' = [at |-> "settling", healthy |-> TRUE, error |-> "none"]
    /\ UNCHANGED <<queue, batch, counters, oversizedOwner, expansionWaiters, closing>>

SettleBatchKeepingOwner ==
    /\ worker.at = "settling"
    /\ counters' = [counters EXCEPT
                      !.committingItems = AtLeastZero(@ - Len(batch)),
                      !.committingBytes = AtLeastZero(@ - BytesOf(batch))]
    /\ batch' = <<>>
    /\ worker' = [worker EXCEPT !.at = "waiting"]
    /\ UNCHANGED <<ticket, queue, oversizedOwner, expansionWaiters, closing, ledger>>

(* All attempts have failed; the batch is rolled back as a whole.          *)
FailBatch(error) ==
    /\ error \in Failures
    /\ worker.at = "committing"
    /\ Resolve("refused")
    /\ worker' = [at |-> "settling", healthy |-> FALSE, error |-> error]
    /\ UNCHANGED <<queue, batch, counters, oversizedOwner, expansionWaiters,
                   closing, ledger>>

StopWorkerEarly ==
    /\ worker.at = "waiting" /\ queue = <<>>
    /\ ShuttingDown
    /\ worker' = [worker EXCEPT !.at = "stopped"]
    /\ UNCHANGED <<ticket, queue, batch, counters, oversizedOwner,
                   expansionWaiters, closing, ledger>>

SettleBatch ==
    /\ worker.at = "settling"
    /\ counters' = [counters EXCEPT
                      !.committingItems = AtLeastZero(@ - Len(batch)),
                      !.committingBytes = AtLeastZero(@ - BytesOf(batch))]
    /\ oversizedOwner' =
         IF \E i \in DOMAIN batch : batch[i].oversized /\ batch[i].by = oversizedOwner
         THEN Nobody ELSE oversizedOwner
    /\ batch' = <<>>
    /\ worker' = [worker EXCEPT !.at = "waiting"]
    /\ UNCHANGED <<ticket, queue, expansionWaiters, closing, ledger>>

StopWorker ==
    /\ worker.at = "waiting" /\ queue = <<>>
    /\ ShuttingDown /\ counters.activeProducers = 0
    /\ worker' = [worker EXCEPT !.at = "stopped"]
    /\ UNCHANGED <<ticket, queue, batch, counters, oversizedOwner,
                   expansionWaiters, closing, ledger>>

(* close(): refuse new tickets, wait for the producers, join the worker.   *)
BeginClose ==
    /\ closing = "open"
    /\ closing' = "draining"
    /\ UNCHANGED <<ticket, queue, batch, counters, oversizedOwner,
                   expansionWaiters, worker, ledger>>

EndClose ==
    /\ closing = "draining"
    /\ \/ worker.at = "stopped" /\ closing' = "closed"
       \/ TimeoutsHappen /\ worker.at # "stopped" /\ closing' = "timed out"
    /\ UNCHANGED <<ticket, queue, batch, counters, oversizedOwner,
                   expansionWaiters, worker, ledger>>
=============================================================================
