------------------------------- MODULE Annotations -------------------------------
(***************************************************************************)
(* An annotation of a PDF (pdf_research.py): editors change or delete the  *)
(* version they have read, each under a key of its own, and retry under    *)
(* that key when the answer is lost.  Every change is a version and a row  *)
(* of annotation_events.  Version 0 is the annotation before               *)
(* create_annotation().                                                    *)
(***************************************************************************)
EXTENDS Naturals, Sequences, FiniteSets

CONSTANTS
    Editors, Creator,           \* one of them creates the annotation, the others edit it
    MaxChanges, MaxAttempts     \* versions of the annotation, sends of a request

VARIABLES
    annotation, \* the row of annotations
    events,     \* annotation_events, and the keys they were written under
    editor      \* what each editor has read and sent

annotationVars == <<annotation, events, editor>>

Reading == [at |-> "reading", version |-> 0, deletes |-> FALSE, sends |-> 0]

AnnotationInit ==
    /\ annotation = [version |-> 0, deleted |-> FALSE]
    /\ events = <<>>
    /\ editor = [e \in Editors |-> Reading]

At(e, place) == editor[e].at = place
Goes(e, place) == editor' = [editor EXCEPT ![e].at = place]
Keyed(e) == \E i \in DOMAIN events : events[i].key = e
Exists == annotation.version > 0 /\ ~annotation.deleted

(* get_annotation(); the creator has nothing to read.                      *)
ReadVersion(e, deletes) ==
    /\ At(e, "reading") /\ (Exists \/ e = Creator)
    /\ e = Creator => annotation.version = 0 /\ ~deletes
    /\ editor' = [editor EXCEPT ![e] = [at |-> "ready", version |-> annotation.version,
                                        deletes |-> deletes, sends |-> 0]]
    /\ UNCHANGED <<annotation, events>>

(* update_annotation() and delete_annotation() look for the annotation     *)
(* before anything else; create_annotation() has none to look for.         *)
Send(e) ==
    /\ At(e, "ready") /\ editor[e].sends < MaxAttempts
    /\ editor' = [editor EXCEPT ![e] =
         [at |-> IF editor[e].version = 0 \/ Exists THEN "sent" ELSE "not found",
          version |-> @.version, deletes |-> @.deletes, sends |-> @.sends + 1]]
    /\ UNCHANGED <<annotation, events>>

Event(e) == [version |-> annotation.version + 1, deleted |-> editor[e].deletes, key |-> e]

(* The row, the event and the key, in one transaction.                     *)
Applied(e) ==
    /\ annotation' = [version |-> annotation.version + 1, deleted |-> editor[e].deletes]
    /\ events' = Append(events, Event(e))
    /\ Goes(e, "answered")

Refused(e, place) == UNCHANGED <<annotation, events>> /\ Goes(e, place)

ChangeCheckingFirst(e) ==
    /\ At(e, "sent")
    /\ IF annotation.deleted THEN Refused(e, "not found")
       ELSE IF annotation.version # editor[e].version THEN Refused(e, "conflict")
       ELSE IF Keyed(e) THEN Refused(e, "answered")
       ELSE annotation.version < MaxChanges /\ Applied(e)

(* _change_annotation(), and create_annotation() of version 0: a key that  *)
(* is there answers before anything is compared.                           *)
Change(e) ==
    /\ At(e, "sent")
    /\ IF Keyed(e) THEN Refused(e, "answered")
       ELSE IF annotation.deleted THEN Refused(e, "not found")
       ELSE IF annotation.version # editor[e].version THEN Refused(e, "conflict")
       ELSE annotation.version < MaxChanges /\ Applied(e)

(* The client did not get its answer and sends the same request again.     *)
LoseAnswer(e) ==
    /\ editor[e].at \in {"answered", "not found", "conflict"}
    /\ editor[e].sends < MaxAttempts
    /\ Goes(e, "ready")
    /\ UNCHANGED <<annotation, events>>

AnnotationNext ==
    \E e \in Editors :
        \/ \E deletes \in BOOLEAN : ReadVersion(e, deletes)
        \/ Send(e) \/ Change(e) \/ LoseAnswer(e)

AnnotationSpec == AnnotationInit /\ [][AnnotationNext]_annotationVars

-----------------------------------------------------------------------------
(* Properties.                                                             *)

AnnotationTypeOK ==
    /\ annotation.version \in 0 .. MaxChanges
    /\ \A e \in Editors : editor[e].sends \in 0 .. MaxAttempts

(* The history has one event per version, of one request each, and ends in *)
(* the annotation as it is; and an editor whose change is in it is never   *)
(* told that the annotation has changed, however often the request is sent *)
(* and whoever edits in between.                                           *)
HistoryIsWhole ==
    /\ Len(events) = annotation.version
    /\ \A i \in DOMAIN events : events[i].version = i
    /\ \A i, j \in DOMAIN events : events[i].key = events[j].key => i = j
    /\ events # <<>> => events[Len(events)].deleted = annotation.deleted
    /\ \A e \in Editors : At(e, "conflict") => ~Keyed(e)
=============================================================================
