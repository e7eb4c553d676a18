------------------------------- MODULE ChatSkills --------------------------------
(***************************************************************************)
(* A skill of the chat (chat_skills.py): a name that is registered for a   *)
(* document, and its activation within one turn.  The first activation     *)
(* pins the revision of the document in chat_skill_reads, and the revision *)
(* of each resource that revision refers to; those after it load what is   *)
(* pinned.  Every statement of activate() is a transaction of its own, and *)
(* the tools of a turn run at the same time.                               *)
(***************************************************************************)
EXTENDS Naturals

CONSTANTS
    SkillDocuments, Resources, NoDocument,
    References,         \* pairs of a revision of a skill and a resource it refers to
    Activations,        \* calls of activate_chat_skill() in the turn
    MaxEdits            \* revisions of each document

VARIABLES
    head,       \* the current revision of each document
    registered, \* the document of the skill's row
    pinned,     \* chat_skill_reads: the pinned revisions of the skill and of resources
    activation  \* what each call has read, and what it answers

skillVars == <<head, registered, pinned, activation>>

Things == {"skill"} \cup Resources
NoRevision == [of |-> NoDocument, number |-> 0]
NothingRead == [t \in Things |-> NoRevision]
WaitingActivation == [at |-> "waiting", thing |-> "skill", document |-> NoDocument,
                      after |-> {}, seen |-> NothingRead, loads |-> NothingRead]

SkillInit ==
    /\ head = [d \in SkillDocuments \cup Resources |-> 1]
    /\ registered = NoDocument
    /\ pinned = NothingRead
    /\ activation = [c \in Activations |-> WaitingActivation]

ActivationAt(c, place) == activation[c].at = place
ActivationFails(c) == activation' = [activation EXCEPT ![c] = WaitingActivation]
HeadOf(d) == [of |-> d, number |-> head[d]]

-----------------------------------------------------------------------------
(* register(): the name must be free or this document's.  unregister()     *)

Register(d) ==
    /\ registered \in {NoDocument, d}
    /\ registered' = d
    /\ UNCHANGED <<head, pinned, activation>>

Unregister ==
    /\ registered # NoDocument
    /\ registered' = NoDocument
    /\ UNCHANGED <<head, pinned, activation>>

(* Somebody edits a document.                                              *)
EditSkillDocument(d) ==
    /\ head[d] < MaxEdits
    /\ head' = [head EXCEPT ![d] = @ + 1]
    /\ UNCHANGED <<registered, pinned, activation>>

-----------------------------------------------------------------------------
(* activate(): thing is what the call is about to load or to pin.          *)

(* get(): the row and its document.                                        *)
FindSkill(c) ==
    /\ ActivationAt(c, "waiting") /\ registered # NoDocument
    /\ activation' = [activation EXCEPT
         ![c] = [WaitingActivation EXCEPT !.at = "found", !.document = registered,
                   !.after = {other \in Activations : ActivationAt(other, "answered")}]]
    /\ UNCHANGED <<head, registered, pinned>>

ReadPins(c) ==
    /\ ActivationAt(c, "found")
    /\ activation' = [activation EXCEPT ![c].at = "load", ![c].seen = pinned]
    /\ UNCHANGED <<head, registered, pinned>>

InHand(c) == activation[c].thing
DocumentOf(c) == IF InHand(c) = "skill" THEN activation[c].document ELSE InHand(c)

(* get_revision() of a pin fails for a revision of another document.       *)
LoadPinned(c) ==
    LET pin == activation[c].seen[InHand(c)] IN
    /\ ActivationAt(c, "load") /\ pin # NoRevision
    /\ IF pin.of = DocumentOf(c)
       THEN activation' = [activation EXCEPT ![c].at = "loaded", ![c].loads[InHand(c)] = pin]
       ELSE ActivationFails(c)
    /\ UNCHANGED <<head, registered, pinned>>

LoadCurrent(c) ==
    /\ ActivationAt(c, "load") /\ activation[c].seen[InHand(c)] = NoRevision
    /\ activation' = [activation EXCEPT ![c].at = "pin",
                        ![c].loads[InHand(c)] = HeadOf(DocumentOf(c))]
    /\ UNCHANGED <<head, registered, pinned>>

PinOver(c) ==
    /\ ActivationAt(c, "pin")
    /\ pinned' = [pinned EXCEPT ![InHand(c)] = activation[c].loads[InHand(c)]]
    /\ activation' = [activation EXCEPT ![c].at = "loaded"]
    /\ UNCHANGED <<head, registered>>

(* ON CONFLICT DO NOTHING: the first pin stays.                            *)
PinLoaded(c) ==
    /\ ActivationAt(c, "pin")
    /\ pinned' = [pinned EXCEPT ![InHand(c)] =
                    IF @ = NoRevision THEN activation[c].loads[InHand(c)] ELSE @]
    /\ activation' = [activation EXCEPT ![c].at = "loaded"]
    /\ UNCHANGED <<head, registered>>

(* The resources the loaded revision refers to, whatever revision that is; *)
(* the code takes them in the order of their ids.                          *)
RefersTo(c, resource) == <<activation[c].loads["skill"], resource>> \in References
Loaded(c, thing) == activation[c].loads[thing] # NoRevision

NextReference(c, resource) ==
    /\ ActivationAt(c, "loaded") /\ RefersTo(c, resource) /\ ~Loaded(c, resource)
    /\ activation' = [activation EXCEPT ![c].at = "load", ![c].thing = resource]
    /\ UNCHANGED <<head, registered, pinned>>

(* The call answers with what it has loaded; what it had read is gone.     *)
AnswerActivation(c) ==
    /\ ActivationAt(c, "loaded")
    /\ \A resource \in Resources : RefersTo(c, resource) => Loaded(c, resource)
    /\ activation' = [activation EXCEPT ![c].at = "answered", ![c].thing = "skill",
                                        ![c].seen = NothingRead]
    /\ UNCHANGED <<head, registered, pinned>>

(* A document cannot be read or parsed; what is pinned stays.              *)
FailActivation(c) ==
    /\ activation[c].at \notin {"waiting", "answered"}
    /\ ActivationFails(c)
    /\ UNCHANGED <<head, registered, pinned>>

SkillNext ==
    \/ \E d \in SkillDocuments : Register(d)
    \/ Unregister
    \/ \E d \in DOMAIN head : EditSkillDocument(d)
    \/ \E c \in Activations :
         \/ FindSkill(c) \/ ReadPins(c)
         \/ LoadPinned(c) \/ LoadCurrent(c) \/ PinLoaded(c)
         \/ AnswerActivation(c) \/ FailActivation(c)
         \/ \E resource \in Resources : NextReference(c, resource)

SkillSpec == SkillInit /\ [][SkillNext]_skillVars

-----------------------------------------------------------------------------
(* Properties.                                                             *)

SkillTypeOK ==
    /\ registered \in SkillDocuments \cup {NoDocument}
    /\ \A d \in DOMAIN head : head[d] \in 1 .. MaxEdits
    /\ \A c \in Activations, t \in Things : activation[c].loads[t].number \in 0 .. MaxEdits

SameAsPinned(c, thing) == activation[c].loads[thing] = pinned[thing]

(* "Second activation in the SAME turn context pins the original           *)
(* revision": an activation is of the document it names, and whatever one  *)
(* that answered before it began had loaded, the skill or a resource, it   *)
(* loads in the revision that is pinned, whatever is edited, registered    *)
(* again or activated at the same time.  After one that lost no pin to     *)
(* another, it answers the same.  A resource that none before it has       *)
(* loaded is not pinned for it: one that lost the skill's pin may have     *)
(* answered from a revision that refers to others.                         *)
LaterActivationIsPinned ==
    \A c \in Activations : ActivationAt(c, "answered") =>
      /\ activation[c].loads["skill"].of = activation[c].document
      /\ \A first \in activation[c].after :
           /\ \A t \in Things : Loaded(first, t) /\ Loaded(c, t) => SameAsPinned(c, t)
           /\ (\A t \in Things : Loaded(first, t) => SameAsPinned(first, t))
                => activation[c].loads = activation[first].loads

(* The same of activations that run at the same time, which break it: one  *)
(* that has seen no pin loads the current revision and keeps it when       *)
(* another one's was pinned before.  Nor does it hold of all that begin    *)
(* after one has answered.  No run checks it.                              *)
OneRevisionInATurn ==
    \A c, other \in Activations :
      ActivationAt(c, "answered") /\ ActivationAt(other, "answered") => activation[c].loads = activation[other].loads
=============================================================================
