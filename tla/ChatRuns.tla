-------------------------------- MODULE ChatRuns --------------------------------
(***************************************************************************)
(* The turns of a conversation: chat.py respond() pins a turn context to   *)
(* the user's message, begins a run, streams the model's answer, whose     *)
(* tools read sources and request effects, and records how the run ended;  *)
(* cancel_run() stops a run from another request.  The rows are those of   *)
(* chat_evidence.py.  The client may disconnect at any await, any call     *)
(* into a worker thread may be refused (chat_store.py run()) or fail, and  *)
(* the process may stop.                                                   *)
(***************************************************************************)
EXTENDS Naturals, FiniteSets

CONSTANTS
    Turns,              \* calls of respond(): each begins at most one run
    Items,              \* user messages; two turns may answer the same one
    ItemOf,             \* the message each turn answers
    Documents, MaxSources,  \* what tools read, and how much of it is recorded
    MaxCalls            \* tool calls of each turn

ASSUME RunAssumption == ItemOf \in [Turns -> Items] /\ MaxSources \in Nat /\ MaxCalls \in [Turns -> Nat]

VARIABLES
    turn,       \* the call of respond() and what it holds
    run,        \* rows of chat_runs
    context,    \* chat_turn_contexts: the turn whose context each message has
    begun,      \* runs in the order of started_at
    runEffects, \* status of the effects each run has requested
    sources     \* rows of chat_run_sources, and everything the tools have read

runVars == <<turn, run, context, begun, runEffects, sources>>

NoContext == "none"
NoRun == [status |-> "none", stopped |-> FALSE, truncated |-> FALSE]

NoTurn == [at |-> "idle", calls |-> 0, pinned |-> NoContext, inTool |-> FALSE,
           left |-> FALSE, stream |-> "open", late |-> "none"]

RunInit ==
    /\ turn = [t \in Turns |-> NoTurn]
    /\ run = [t \in Turns |-> NoRun]
    /\ context = [i \in Items |-> {}]
    /\ begun = [t \in Turns |-> 0]
    /\ runEffects = [t \in Turns |-> {}]
    /\ sources = [t \in Turns |-> [recorded |-> {}, read |-> {}]]

TurnAt(t, place) == turn[t].at = place
TurnGoes(t, place) == turn' = [turn EXCEPT ![t].at = place]

(* respond() is over and its locals are gone; late is what a call it has   *)
(* left behind may still record.                                           *)
Ends(t, place, late) ==
    turn' = [turn EXCEPT ![t].at = place, ![t].calls = 0, ![t].left = FALSE, ![t].late = late]
Raises(t) == Ends(t, "over", "none")

-----------------------------------------------------------------------------
(* The context of the turn                                                 *)

(* context_for_item(): a message that has its context keeps it.            *)
FindContext(t) ==
    /\ TurnAt(t, "idle")
    /\ turn' = [turn EXCEPT
         ![t].at = IF context[ItemOf[t]] = {} THEN "new context" ELSE "ready",
         ![t].pinned = IF context[ItemOf[t]] = {} THEN @ ELSE CHOOSE c \in context[ItemOf[t]] : TRUE]
    /\ UNCHANGED <<run, context, begun, runEffects, sources>>

Attached(t) ==
    /\ context' = [context EXCEPT ![ItemOf[t]] = @ \cup {t}]
    /\ turn' = [turn EXCEPT ![t].at = "ready", ![t].pinned = t]

AttachUnchecked(t) ==
    /\ TurnAt(t, "new context")
    /\ Attached(t)
    /\ UNCHANGED <<run, begun, runEffects, sources>>

(* attach_turn_context(): it looks once more; two that both saw none meet  *)
(* in the UNIQUE column user_item_id.                                      *)
Attach(t) ==
    /\ TurnAt(t, "new context")
    /\ IF context[ItemOf[t]] = {} THEN Attached(t)
       ELSE UNCHANGED context /\ Raises(t)
    /\ UNCHANGED <<run, begun, runEffects, sources>>

FindAttached(t) ==
    /\ TurnAt(t, "new context") /\ context[ItemOf[t]] # {}
    /\ turn' = [turn EXCEPT ![t].at = "ready",
                            ![t].pinned = CHOOSE c \in context[ItemOf[t]] : TRUE]
    /\ UNCHANGED <<run, context, begun, runEffects, sources>>

-----------------------------------------------------------------------------
(* The run                                                                 *)

AskToBegin(t) ==
    /\ TurnAt(t, "ready") /\ TurnGoes(t, "beginning")
    /\ UNCHANGED <<run, context, begun, runEffects, sources>>

RunInserted(t) ==
    /\ run' = [run EXCEPT ![t].status = "running"]
    /\ begun' = [begun EXCEPT ![t] = 1 + Cardinality({o \in Turns : begun[o] > 0})]

Beginning == {"beginning", "beginning, cancelled", "beginning, abandoned"}

(* begin_run() in its thread, which a disconnect does not cancel.          *)
BeginRun(t) ==
    /\ \/ TurnAt(t, "beginning") /\ TurnGoes(t, "streaming")
       \/ TurnAt(t, "beginning, cancelled") /\ TurnGoes(t, "cancelling")
       \/ TurnAt(t, "beginning, abandoned") /\ Raises(t)
    /\ RunInserted(t)
    /\ UNCHANGED <<context, runEffects, sources>>

(* A call before the run is begun, or begin_run() itself, is refused by a  *)
(* full or closing queue, fails, or finds that the turn cannot go on.      *)
FailToBegin(t) ==
    /\ turn[t].at \in {"idle", "new context", "ready"} \cup Beginning
    /\ Raises(t)
    /\ UNCHANGED <<run, context, begun, runEffects, sources>>

(* A tool asks whether the run is stopped before it does anything.  From   *)
(* then on it is in a thread, which goes on when the stream breaks off.    *)
CallTool(t) ==
    /\ TurnAt(t, "streaming") /\ ~turn[t].inTool /\ turn[t].calls < MaxCalls[t]
    /\ turn' = [turn EXCEPT ![t].inTool = ~run[t].stopped, ![t].calls = @ + 1]
    /\ UNCHANGED <<run, context, begun, runEffects, sources>>

Reads(t, d, records) ==
    [sources EXCEPT ![t].read = @ \cup {d},
                    ![t].recorded = IF records THEN @ \cup {d} ELSE @]

(* record_run_source(): what is beyond the bound is dropped and marked.    *)
RecordSource(t, d) ==
    LET full == Cardinality(sources[t].recorded) >= MaxSources IN
    /\ turn[t].inTool
    /\ sources' = Reads(t, d, ~full)
    /\ run' = [run EXCEPT ![t].truncated = @ \/ (full /\ d \notin sources[t].recorded)]
    /\ UNCHANGED <<turn, context, begun, runEffects>>

(* effects.propose(); the model's turn ends with the request of an effect. *)
RequestEffect(t) ==
    /\ turn[t].inTool
    /\ runEffects' = [runEffects EXCEPT ![t] = @ \cup {"pending"}]
    /\ turn' = [turn EXCEPT ![t].inTool = FALSE,
                            ![t].at = IF @ = "streaming" THEN "answered" ELSE @,
                            ![t].stream = IF TurnAt(t, "streaming") THEN "whole" ELSE @]
    /\ UNCHANGED <<run, context, begun, sources>>

EndTool(t) ==
    /\ turn[t].inTool
    /\ turn' = [turn EXCEPT ![t].inTool = FALSE]
    /\ UNCHANGED <<run, context, begun, runEffects, sources>>

StreamEnds(t, place, how) ==
    /\ TurnAt(t, "streaming")
    /\ turn' = [turn EXCEPT ![t].at = place, ![t].stream = how]
    /\ UNCHANGED <<run, context, begun, runEffects, sources>>

(* The stream comes to its end, after an error event or without one, or    *)
(* raises.                                                                 *)
EndStream(t) ==
    \/ ~turn[t].inTool /\ StreamEnds(t, "answered", "whole")
    \/ StreamEnds(t, "answered with an error", "broken")
    \/ StreamEnds(t, "failing", "broken")

(* Where respond() waits for complete_run().                               *)
Recording == {"answered", "answered with an error", "failing", "cancelling"}

AfterLeaving(place) ==
    CASE place = "beginning" -> "beginning, cancelled"
      [] place = "streaming" -> "draining"
      [] place \in Recording -> place

(* CancelledError or GeneratorExit.  begin_run() is awaited to its end, a  *)
(* stream is cancelled, and run_sync() absorbs the first cancellation of a *)
(* call, to raise it when the call is done.                                *)
Disconnect(t) ==
    /\ ~turn[t].left
    /\ \/ turn[t].at \in {"idle", "new context", "ready"} /\ Raises(t)
       \/ /\ turn[t].at \in {"beginning", "streaming"} \cup Recording
          /\ turn' = [turn EXCEPT ![t].left = TRUE, ![t].at = AfterLeaving(@),
                                  ![t].stream = IF @ = "open" THEN "cut" ELSE @]
    /\ UNCHANGED <<run, context, begun, runEffects, sources>>

(* stream_events() is read to its end.                                     *)
EndDrain(t) ==
    /\ TurnAt(t, "draining") /\ TurnGoes(t, "cancelling")
    /\ UNCHANGED <<run, context, begun, runEffects, sources>>

RunOutcome(t) ==
    CASE TurnAt(t, "answered") -> "completed"
      [] turn[t].at \in {"answered with an error", "failing"} -> "failed"
      [] TurnAt(t, "cancelling") -> "cancelled"

(* One more cancellation ends respond() while begin_run() is awaited or    *)
(* the stream is drained, and leaves a complete_run() behind, which may    *)
(* still be carried out.  (The complete_run() after a cancelled begin_run()*)
(* would absorb one more.)                                                 *)
CancelAgain(t) ==
    /\ turn[t].left
    /\ \/ TurnAt(t, "beginning, cancelled") /\ TurnGoes(t, "beginning, abandoned")
       \/ TurnAt(t, "draining") /\ Raises(t)
       \/ turn[t].at \in Recording /\ Ends(t, "over", RunOutcome(t))
    /\ UNCHANGED <<run, context, begun, runEffects, sources>>

(* complete_run(); an exception or a cancellation is raised again.         *)
CompleteRun(t) ==
    /\ turn[t].at \in Recording
    /\ run' = [run EXCEPT ![t].status = RunOutcome(t)]
    /\ IF turn[t].left \/ turn[t].at \in {"failing", "cancelling"} THEN Raises(t)
       ELSE Ends(t, "returned", "none")
    /\ UNCHANGED <<context, begun, runEffects, sources>>

(* The call left behind is carried out.                                    *)
CompleteLate(t) ==
    /\ turn[t].late # "none"
    /\ run' = [run EXCEPT ![t].status = turn[t].late]
    /\ turn' = [turn EXCEPT ![t].late = "none"]
    /\ UNCHANGED <<context, begun, runEffects, sources>>

FailSilently(t) ==
    /\ turn[t].at \in Recording \cup {"draining"}
    /\ IF turn[t].left THEN Raises(t) ELSE Ends(t, "returned", "none")
    /\ UNCHANGED <<run, context, begun, runEffects, sources>>

(* complete_run() is refused by a full or closing queue, its transaction   *)
(* fails, or the drain raises: respond() ends with that, and the row says  *)
(* running.                                                                *)
FailToComplete(t) ==
    /\ turn[t].at \in Recording \cup {"draining"}
    /\ Raises(t)
    /\ UNCHANGED <<run, context, begun, runEffects, sources>>

(* The process stops: nothing settles the row of the run afterwards.       *)
Stop(t) ==
    /\ turn[t].at # "idle"
    /\ turn' = [turn EXCEPT ![t] = [NoTurn EXCEPT !.at = IF TurnAt(t, "returned") THEN "returned" ELSE "over",
                                                  !.pinned = turn[t].pinned, !.stream = turn[t].stream]]
    /\ UNCHANGED <<run, context, begun, runEffects, sources>>

-----------------------------------------------------------------------------
(* cancel_run(): the newest run that runs or has effects to decide, and    *)
(* its pending effects with it.                                            *)

Stoppable(t) == run[t].status = "running" \/ "pending" \in runEffects[t]
Newest(t) == Stoppable(t) /\ \A o \in Turns : Stoppable(o) => begun[o] <= begun[t]

CancelRun(t) ==
    /\ Newest(t)
    /\ run' = [run EXCEPT ![t].stopped = TRUE]
    /\ runEffects' = [runEffects EXCEPT ![t] =
         IF "pending" \in @ THEN (@ \ {"pending"}) \cup {"cancelled"} ELSE @]
    /\ UNCHANGED <<turn, context, begun, sources>>

RunNext ==
    \/ \E t \in Turns :
         \/ FindContext(t) \/ Attach(t) \/ FindAttached(t)
         \/ AskToBegin(t) \/ BeginRun(t) \/ FailToBegin(t)
         \/ CallTool(t) \/ RequestEffect(t) \/ EndTool(t) \/ EndStream(t)
         \/ Disconnect(t) \/ EndDrain(t) \/ CancelAgain(t)
         \/ CompleteRun(t) \/ CompleteLate(t) \/ FailToComplete(t)
         \/ Stop(t) \/ CancelRun(t)
    \/ \E t \in Turns, d \in Documents : RecordSource(t, d)

RunSpec == RunInit /\ [][RunNext]_runVars

-----------------------------------------------------------------------------
(* Properties.                                                             *)

RunTypeOK ==
    /\ \A t \in Turns :
         /\ run[t].status \in {"none", "running", "completed", "failed", "cancelled"}
         /\ turn[t].stream \in {"open", "whole", "broken", "cut"}
         /\ turn[t].calls \in 0 .. MaxCalls[t]
         /\ sources[t].recorded \subseteq sources[t].read
    /\ \A i \in Items : context[i] \subseteq Turns

(* Turns that answer the same message, at once or one after the other,     *)
(* work from one pinned context: a retry has the document, the revision    *)
(* and the selection of the first attempt.                                 *)
OneContextPerItem ==
    /\ \A i \in Items : Cardinality(context[i]) <= 1
    /\ \A t \in Turns : turn[t].pinned # NoContext => turn[t].pinned \in context[ItemOf[t]]

(* What the row of a run may say of the stream.                            *)
Tells(status, stream) ==
    /\ status = "completed" => stream = "whole"
    /\ status = "failed" => stream = "broken"
    /\ status = "cancelled" => stream = "cut"

(* A row that says how a run ended says what became of the stream, also    *)
(* when it is written late, by a call whose respond() is over; so it never *)
(* says so while the stream is open, when a stop has to find it running.   *)
(* And respond() returns without an error only after the row was written:  *)
(* a complete_run() that is refused or fails leaves a running row, and its *)
(* caller hears of it.                                                     *)
RowTellsTheStream ==
    \A t \in Turns :
        /\ Tells(run[t].status, turn[t].stream)
        /\ TurnAt(t, "returned") => run[t].status \in {"completed", "failed"}

(* The evidence of a run is bounded, and says so when something is missing:*)
(* a run without the mark has recorded every source it read, those of a    *)
(* tool included that went on when the client had left.                    *)
EvidenceIsHonest ==
    \A t \in Turns :
        /\ Cardinality(sources[t].recorded) <= MaxSources
        /\ ~run[t].truncated => sources[t].recorded = sources[t].read

(* The rows of a run say what the run did, from one context.               *)
RunsAreHonest == OneContextPerItem /\ RowTellsTheStream /\ EvidenceIsHonest
=============================================================================
