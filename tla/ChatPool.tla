-------------------------------- MODULE ChatPool --------------------------------
(***************************************************************************)
(* The two limits every chat request passes: BoundedChatAdmission of       *)
(* chat_runtime.py, which gives out request slots, and the                 *)
(* BoundedThreadRunner of chat_store.py behind it, which gives out worker  *)
(* threads.  Both count under an asyncio condition; between two awaits a   *)
(* coroutine may be cancelled, time out, or meet the shutdown.             *)
(***************************************************************************)
EXTENDS Naturals, FiniteSets

CONSTANTS
    Requests,
    MaxActive, MaxWaiting,      \* slots, and requests that may wait for one
    MaxQueued                   \* calls that may wait for a worker

ASSUME PoolAssumption ==
    IsFiniteSet(Requests) /\ MaxActive \in Nat /\ MaxWaiting \in Nat /\ MaxQueued \in Nat

VARIABLES
    slots,      \* _active, _admitted and _closing of the admission
    workers,    \* _active_workers, _waiting_count and _shutting_down of the runner
    request,    \* where each request is
    cleaning,   \* finished threads whose callback has yet to reach the event loop
    stuck       \* workers counted for a call that was cancelled before it had one

poolVars == <<slots, workers, request, cleaning, stuck>>

Outside == [at |-> "outside", call |-> "none", cancels |-> 0, shielded |-> TRUE]

PoolInit ==
    /\ slots = [active |-> 0, admitted |-> 0, closing |-> FALSE]
    /\ workers = [active |-> 0, waiting |-> 0, closing |-> FALSE]
    /\ request = [r \in Requests |-> Outside]
    /\ cleaning = 0
    /\ stuck = 0

RequestAt(r, place) == request[r].at = place
RequestCalls(r, call) == request[r].call = call
RequestGoes(r, place) == request' = [request EXCEPT ![r].at = place]
CallIs(r, call) == request' = [request EXCEPT ![r].call = call]
CallEnds(r) == request' = [request EXCEPT ![r].call = "none", ![r].cancels = 0]

-----------------------------------------------------------------------------
(* acquire() and _release()                                                *)

Acquire(r) ==
    /\ RequestAt(r, "outside") /\ RequestCalls(r, "none")
    /\ ~slots.closing /\ slots.admitted < MaxActive + MaxWaiting
    /\ IF slots.active < MaxActive
       THEN /\ slots' = [slots EXCEPT !.admitted = @ + 1, !.active = @ + 1]
            /\ RequestGoes(r, "in")
       ELSE /\ slots' = [slots EXCEPT !.admitted = @ + 1]
            /\ RequestGoes(r, "waiting")
    /\ UNCHANGED <<workers, cleaning, stuck>>

TakeSlot(r) ==
    /\ RequestAt(r, "waiting") /\ slots.active < MaxActive /\ ~slots.closing
    /\ slots' = [slots EXCEPT !.active = @ + 1]
    /\ RequestGoes(r, "in")
    /\ UNCHANGED <<workers, cleaning, stuck>>

(* The deadline has passed, the client has gone, or the server closes.     *)
LeaveQueue(r) ==
    /\ RequestAt(r, "waiting")
    /\ slots' = [slots EXCEPT !.admitted = @ - 1]
    /\ RequestGoes(r, "outside")
    /\ UNCHANGED <<workers, cleaning, stuck>>

(* A request that awaits a call does not get to its release.               *)
ReleaseSlot(r) ==
    /\ RequestAt(r, "in") /\ request[r].call \in {"none", "abandoned"}
    /\ slots' = [slots EXCEPT !.active = @ - 1, !.admitted = @ - 1]
    /\ RequestGoes(r, "outside")
    /\ UNCHANGED <<workers, cleaning, stuck>>

-----------------------------------------------------------------------------
(* BoundedThreadRunner.run(), by run_sync() (shielded) or by the store,     *)
(* which has a runner of its own: the model's one takes both kinds of call. *)

Run(r, shielded) ==
    /\ RequestAt(r, "in") /\ RequestCalls(r, "none")
    /\ ~workers.closing /\ workers.waiting < MaxQueued
    /\ IF workers.active < MaxActive
       THEN /\ workers' = [workers EXCEPT !.active = @ + 1]
            /\ request' = [request EXCEPT ![r].call = "counted", ![r].shielded = shielded]
       ELSE /\ workers' = [workers EXCEPT !.waiting = @ + 1]
            /\ request' = [request EXCEPT ![r].call = "queued", ![r].shielded = shielded]
    /\ UNCHANGED <<slots, cleaning, stuck>>

TakeWorkerWhenNotified(r) ==
    /\ RequestCalls(r, "queued") /\ ~workers.closing
    /\ workers' = [workers EXCEPT !.active = @ + 1, !.waiting = @ - 1]
    /\ CallIs(r, "counted")
    /\ UNCHANGED <<slots, cleaning, stuck>>

TakeWorker(r) ==
    /\ RequestCalls(r, "queued") /\ workers.active < MaxActive /\ ~workers.closing
    /\ workers' = [workers EXCEPT !.active = @ + 1, !.waiting = @ - 1]
    /\ CallIs(r, "counted")
    /\ UNCHANGED <<slots, cleaning, stuck>>

RefuseQueued(r) ==
    /\ RequestCalls(r, "queued") /\ workers.closing
    /\ workers' = [workers EXCEPT !.waiting = @ - 1]
    /\ CallEnds(r)
    /\ UNCHANGED <<slots, cleaning, stuck>>

(* The second block: the future exists from here on.                       *)
Submit(r) ==
    /\ RequestCalls(r, "counted") /\ ~workers.closing
    /\ CallIs(r, "running")
    /\ UNCHANGED <<slots, workers, cleaning, stuck>>

(* The shutdown has begun in between, or the executor takes no more.       *)
FailToSubmit(r) ==
    /\ RequestCalls(r, "counted")
    /\ workers' = [workers EXCEPT !.active = @ - 1]
    /\ CallEnds(r)
    /\ UNCHANGED <<slots, cleaning, stuck>>

(* The thread is done and its caller answered.                             *)
FinishWork(r) ==
    /\ request[r].call \in {"running", "abandoned"}
    /\ cleaning' = cleaning + 1
    /\ CallEnds(r)
    /\ UNCHANGED <<slots, workers, stuck>>

(* on_done()                                                               *)
CleanUp ==
    /\ cleaning > 0
    /\ cleaning' = cleaning - 1
    /\ workers' = [workers EXCEPT !.active = @ - 1]
    /\ UNCHANGED <<slots, request, stuck>>

-----------------------------------------------------------------------------
(* A cancelled caller.  run_sync() shields its call from the first         *)
(* cancellation and awaits it without a shield after that; the calls of    *)
(* the store have no shield.                                               *)

NeverShielded(r) == FALSE

Shielded(r) == request[r].shielded /\ request[r].cancels = 0

Cancelled(r) == [request EXCEPT ![r].cancels = @ + 1]

CancelShielded(r) ==
    /\ RequestAt(r, "in") /\ request[r].call \in {"queued", "counted", "running"} /\ Shielded(r)
    /\ request' = Cancelled(r)
    /\ UNCHANGED <<slots, workers, cleaning, stuck>>

CancelQueued(r) ==
    /\ RequestAt(r, "in") /\ RequestCalls(r, "queued") /\ ~Shielded(r)
    /\ workers' = [workers EXCEPT !.waiting = @ - 1]
    /\ CallEnds(r)
    /\ UNCHANGED <<slots, cleaning, stuck>>

(* In the queue for the condition's lock, with the worker counted: nothing *)
(* gives it back.                                                          *)
CancelCounted(r) ==
    /\ RequestAt(r, "in") /\ RequestCalls(r, "counted") /\ ~Shielded(r)
    /\ CallEnds(r)
    /\ stuck' = stuck + 1
    /\ UNCHANGED <<slots, workers, cleaning>>

(* The thread goes on without its caller.                                  *)
CancelRunning(r) ==
    /\ RequestAt(r, "in") /\ RequestCalls(r, "running") /\ ~Shielded(r)
    /\ request' = [Cancelled(r) EXCEPT ![r].call = "abandoned"]
    /\ UNCHANGED <<slots, workers, cleaning, stuck>>

-----------------------------------------------------------------------------
(* close(): the admission first, then the runner, which waits for workers  *)
(* and futures up to a deadline.                                           *)

CloseAdmission ==
    /\ ~slots.closing
    /\ slots' = [slots EXCEPT !.closing = TRUE]
    /\ UNCHANGED <<workers, request, cleaning, stuck>>

CloseRunner ==
    /\ slots.closing /\ ~workers.closing
    /\ workers' = [workers EXCEPT !.closing = TRUE]
    /\ UNCHANGED <<slots, request, cleaning, stuck>>

PoolNext ==
    \/ \E r \in Requests :
         \/ Acquire(r) \/ TakeSlot(r) \/ LeaveQueue(r) \/ ReleaseSlot(r)
         \/ \E shielded \in BOOLEAN : Run(r, shielded)
         \/ TakeWorker(r) \/ RefuseQueued(r) \/ Submit(r) \/ FailToSubmit(r) \/ FinishWork(r)
         \/ CancelShielded(r) \/ CancelQueued(r) \/ CancelCounted(r) \/ CancelRunning(r)
    \/ CleanUp \/ CloseAdmission \/ CloseRunner

PoolSpec == PoolInit /\ [][PoolNext]_poolVars

-----------------------------------------------------------------------------
(* Properties.                                                             *)

Those(places, field) == Cardinality({r \in Requests : request[r][field] \in places})

PoolTypeOK ==
    /\ slots.active \in 0 .. MaxActive
    /\ slots.admitted \in 0 .. MaxActive + MaxWaiting
    /\ workers.active \in 0 .. MaxActive
    /\ workers.waiting \in 0 .. MaxQueued

(* Whatever is refused, timed out, cancelled, failed or finished gives     *)
(* back what it had counted, once: the counters are the requests and calls *)
(* that hold something, plus the workers of the calls that were cancelled  *)
(* between the two blocks of run().                                        *)
CountersMatchHolders ==
    /\ slots.active = Those({"in"}, "at")
    /\ slots.admitted = Those({"in", "waiting"}, "at")
    /\ workers.waiting = Those({"queued"}, "call")
    /\ workers.active = stuck + cleaning + Those({"counted", "running", "abandoned"}, "call")

(* "The request still owns its slot and transaction until the worker       *)
(* finishes": no request is outside while a call it made through           *)
(* run_sync() is under way, unless it was cancelled twice during the call. *)
SlotCoversWork ==
    \A r \in Requests :
        ~RequestCalls(r, "none") /\ request[r].shielded /\ request[r].cancels < 2 => RequestAt(r, "in")

(* The limits of the chat count what is there, and a slot covers its work. *)
PoolIsCounted == CountersMatchHolders /\ SlotCoversWork
=============================================================================
