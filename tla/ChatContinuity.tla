----------------------------- MODULE ChatContinuity -----------------------------
(***************************************************************************)
(* The active task of a conversation (chat_continuity.py): a versioned     *)
(* summary that a model writes from the messages (_compact_task() in       *)
(* chat.py) and its reader corrects, while the messages it cites are       *)
(* edited and deleted.  Triggers count every edit and deletion in          *)
(* history_generation.  A message's text is the number of its edits, the   *)
(* hash of a text is the text, and a field cites one message.              *)
(***************************************************************************)
EXTENDS Naturals, FiniteSets

CONSTANTS
    Messages,
    Fields,             \* keys of the task's notes
    Summarizers,        \* requests that compact the task
    MaxTexts,           \* wordings a message can have
    MaxRevisions,       \* versions of the task
    CorrectsTask        \* whether the reader corrects fields

ASSUME TaskAssumption == MaxTexts \in Nat

VARIABLES
    message,        \* chat_thread_items: the text of each message, 0 before it is sent
    generation,     \* chat_threads.history_generation
    task,           \* the newest row of chat_task_revisions
    summarizer      \* what each _compact_task() has read

taskVars == <<message, generation, task, summarizer>>

Resting == [at |-> "idle", version |-> 0, generation |-> 0, texts |-> {}, kept |-> {}]
NoTask == [version |-> 0, generation |-> 0, notes |-> {}, hashes |-> {}, dismissed |-> {}]

TaskInit ==
    /\ message = [m \in Messages |-> 0]
    /\ generation = 0
    /\ task = NoTask
    /\ summarizer = [s \in Summarizers |-> Resting]

SummarizerAt(s, place) == summarizer[s].at = place

(* A note cites a message and was written from a text of it.               *)
Note(f, cite) == [field |-> f, of |-> cite.of, text |-> cite.text, corrected |-> FALSE]
Cite(m) == [of |-> m, text |-> message[m]]
Deleted == MaxTexts + 1
Present == {m \in Messages : message[m] \in 1 .. MaxTexts}

-----------------------------------------------------------------------------
(* get(): what of the task is shown.  Notes of a message that is not what  *)
(* was hashed are left out, and all but the corrected ones when any        *)
(* message was edited since.                                               *)
TaskIsOld == task.version > 0 /\ task.generation # generation
Invalid(m) == \E hash \in task.hashes : hash.of = m /\ message[m] # hash.text
Shown == {n \in task.notes : (~TaskIsOld \/ n.corrected) /\ ~Invalid(n.of)}

(* _write(): generation and version are compared in its transaction.       *)
MayWrite(version, seen) ==
    /\ seen = generation
    /\ version = task.version
    /\ task.version < MaxRevisions

Written(notes, hashes, seen, dismissed) ==
    task' = [version |-> task.version + 1, generation |-> seen,
             notes |-> notes, hashes |-> hashes, dismissed |-> dismissed]

-----------------------------------------------------------------------------
(* _compact_task(): the state, then the messages, then the model's answer  *)

ReadState(s) ==
    /\ SummarizerAt(s, "idle")
    /\ summarizer' = [summarizer EXCEPT ![s] =
         [Resting EXCEPT !.at = "state", !.version = task.version,
                         !.generation = generation, !.kept = Shown]]
    /\ UNCHANGED <<message, generation, task>>

(* pending_sources()                                                       *)
ReadSources(s) ==
    /\ SummarizerAt(s, "state")
    /\ summarizer' = [summarizer EXCEPT
         ![s].at = IF Present = {} THEN "idle" ELSE "summarizing",
         ![s].texts = {Cite(m) : m \in Present}]
    /\ UNCHANGED <<message, generation, task>>

(* The answer has a note per field at most, of messages it was given or of *)
(* what the notes of the state cite.                                       *)
Drafts(s) ==
    LET cites == summarizer[s].texts \cup
                 {[of |-> n.of, text |-> n.text] : n \in summarizer[s].kept}
    IN  UNION {{{Note(f, choice[f]) : f \in fields} : choice \in [fields -> cites]}
                 : fields \in SUBSET Fields}

AsDrafted(draft) == {n \in draft : n.field \notin task.dismissed}

(* A corrected note gives way to one of its field that cites another       *)
(* message, and to no other.                                               *)
GivesWay(c, notes) == \E n \in notes : n.field = c.field /\ n.of # c.of

WithCorrections(draft) ==
    LET corrected == {n \in Shown : n.corrected}
        drafted   == AsDrafted(draft)
        staying   == {c \in corrected : ~GivesWay(c, drafted)}
    IN  {n \in drafted : \A c \in staying : c.field # n.field} \cup staying

SummarizerEnds(s) == summarizer' = [summarizer EXCEPT ![s] = Resting]

Citable(notes) == \A n \in notes : n.of \in Present
HashesOf(notes) == {Cite(n.of) : n \in notes}

SaveWithoutGeneration(s, draft) ==
    /\ SummarizerAt(s, "summarizing")
    /\ summarizer[s].version = task.version /\ task.version < MaxRevisions
    /\ Citable(WithCorrections(draft))
    /\ Written(WithCorrections(draft), HashesOf(WithCorrections(draft)), generation,
               task.dismissed)
    /\ SummarizerEnds(s)
    /\ UNCHANGED <<message, generation>>

(* save_generated() compares the generation read with the state and hashes *)
(* the messages as they are now; _write() compares it again.               *)
SaveGenerated(s, draft) ==
    /\ SummarizerAt(s, "summarizing")
    /\ MayWrite(summarizer[s].version, summarizer[s].generation)
    /\ Citable(WithCorrections(draft))
    /\ Written(WithCorrections(draft), HashesOf(WithCorrections(draft)),
               summarizer[s].generation, task.dismissed)
    /\ SummarizerEnds(s)
    /\ UNCHANGED <<message, generation>>

RefuseSave(s) ==
    /\ SummarizerAt(s, "summarizing")
    /\ SummarizerEnds(s)
    /\ UNCHANGED <<message, generation, task>>

-----------------------------------------------------------------------------
(* correct(), in one transaction: a field gets the reader's words or is    *)
(* dismissed; what is not shown any more is not written back.              *)

Correct(n, dismisses) ==
    /\ CorrectsTask /\ task.version < MaxRevisions
    /\ n \in Shown
    /\ Written((Shown \ {n}) \cup (IF dismisses THEN {} ELSE {[n EXCEPT !.corrected = TRUE]}),
               task.hashes, generation,
               task.dismissed \cup (IF dismisses THEN {n.field} ELSE {}))
    /\ UNCHANGED <<message, generation, summarizer>>

-----------------------------------------------------------------------------
(* Messages, with the triggers of 035_chat_continuity.sql                  *)

AddMessage(m) ==
    /\ message[m] = 0
    /\ message' = [message EXCEPT ![m] = 1]
    /\ UNCHANGED <<generation, task, summarizer>>

EditMessage(m) ==
    /\ message[m] \in 1 .. MaxTexts - 1
    /\ message' = [message EXCEPT ![m] = @ + 1]
    /\ generation' = generation + 1
    /\ UNCHANGED <<task, summarizer>>

DeleteMessage(m) ==
    /\ m \in Present
    /\ message' = [message EXCEPT ![m] = Deleted]
    /\ generation' = generation + 1
    /\ UNCHANGED <<task, summarizer>>

TaskNext ==
    \/ \E s \in Summarizers :
         \/ ReadState(s) \/ ReadSources(s) \/ RefuseSave(s)
         \/ \E draft \in Drafts(s) : SaveGenerated(s, draft)
    \/ \E n \in task.notes, dismisses \in BOOLEAN : Correct(n, dismisses)
    \/ \E m \in Messages : AddMessage(m) \/ EditMessage(m) \/ DeleteMessage(m)

TaskSpec == TaskInit /\ [][TaskNext]_taskVars

-----------------------------------------------------------------------------
(* Properties.                                                             *)

TaskTypeOK ==
    /\ task.version \in 0 .. MaxRevisions
    /\ task.generation <= generation
    /\ \A n \in task.notes :
         n.field \in Fields /\ n.of \in Messages /\ n.text \in 1 .. MaxTexts

(* A summary is shown only while it is of the messages as they are: a note *)
(* that nobody corrected was written from the text its message has now,    *)
(* whatever was edited or deleted while the model was at work.             *)
ShownNotesAreCurrent == \A n \in Shown : ~n.corrected => message[n.of] = n.text

(* The reader has the last word: a field that is shown as corrected stays  *)
(* until it is dismissed or a message that the correction did not know     *)
(* replaces it, and one that was dismissed does not come back, also when a *)
(* summary was under way meanwhile.                                        *)
CorrectionsSurvive ==
    [][/\ \A n \in Shown : n.corrected =>
            \/ n \in task'.notes
            \/ n.field \in task'.dismissed
            \/ GivesWay(n, task'.notes)
       /\ \A n \in task'.notes : n.field \notin task.dismissed]_taskVars
=============================================================================
